---------------------------- MODULE WalRecovery ----------------------------
(***************************************************************************)
(* The write-ahead log of DBTaskQueue at the level of its two files, the   *)
(* primary log and its .bak, across any number of process lives.           *)
(*                                                                         *)
(* Sequence numbers come from a counter that starts again at 1 in every    *)
(* process (KeyGenerator::NextGlobalId) and that session ids draw on too.  *)
(* A missing and an empty file are the same here: both parse to nothing,   *)
(* and renaming either leaves nothing to parse in either place.            *)
(* Threads are abstracted to what the files can see of them: calls log in  *)
(* any order, and workers finish queued tasks in any order (DBTaskQueue    *)
(* has the interleavings).                                                 *)
(***************************************************************************)
EXTENDS Naturals, Sequences, FiniteSets

CONSTANTS Tasks,          \* the tasks clients submit, over all process lives
          MaxSeq,         \* bound on sequence numbers drawn in one life
          MaxCrashes,     \* bound on crashes
          CrashPoints,    \* the values of pc in which a crash may happen
          RenameMayFail   \* TRUE when rename() of the log may fail

Phases == {"start", "parsed", "unlinked", "requeue", "dropBackup", "running"}

VARIABLES
  primary, backup,  \* the files, sequences of records
  pc,               \* where Initialize/WalRecover is; "running" after it
  pendingMap,       \* WalRecover's map, seq -> task
  nextSeq,          \* the process-wide counter
  queue,            \* (seq, task) pairs in the workers' queues or in hand
  marked,           \* (seq, task) pairs executed, D record not yet written
  accepted,         \* history: tasks accepted from clients, in order
  executed,         \* history: tasks that have succeeded in the database
  requeued,         \* history: tasks WalRecover re-enqueued in this life
  crashes           \* number of crashes so far

vars == <<primary, backup, pc, pendingMap, nextSeq, queue, marked, accepted,
          executed, requeued, crashes>>

files == <<primary, backup>>

P(seq, task) == [kind |-> "P", seq |-> seq, task |-> task]

D(seq) == [kind |-> "D", seq |-> seq]

Seqs == 1 .. MaxSeq
Records == [kind : {"P"}, seq : Seqs, task : Tasks] \cup [kind : {"D"}, seq : Seqs]

(* A std::map from sequence numbers to entries: a function on a finite set. *)
IsMap(m) == DOMAIN m \subseteq Seqs /\ \A s \in DOMAIN m : m[s] \in Tasks
EmptyMap == [s \in {} |-> {}]

TypeOK ==
  /\ primary \in Seq(Records) /\ backup \in Seq(Records)
  /\ pc \in Phases
  /\ IsMap(pendingMap)
  /\ nextSeq \in 1 .. MaxSeq + 1
  /\ queue \subseteq Seqs \X Tasks /\ marked \subseteq Seqs \X Tasks
  /\ accepted \in Seq(Tasks) /\ requeued \in Seq(Tasks)
  /\ executed \subseteq Tasks
  /\ crashes \in 0 .. MaxCrashes

Init ==
  /\ primary = <<>> /\ backup = <<>>
  /\ pc = "start" /\ pendingMap = EmptyMap
  /\ nextSeq = 1 /\ queue = {} /\ marked = {}
  /\ accepted = <<>> /\ requeued = <<>> /\ executed = {} /\ crashes = 0

(***************************************************************************)
(* Parsing: a P record is emplaced (the first entry of a number wins), a D *)
(* record erases; the primary is read before the backup.                   *)
(***************************************************************************)
Emplace(m, s, t) == IF s \in DOMAIN m THEN m
                    ELSE [x \in DOMAIN m \cup {s} |-> IF x = s THEN t ELSE m[x]]
Erase(m, s) == [x \in DOMAIN m \ {s} |-> m[x]]

ParseRecord(m, r) == IF r.kind = "P" THEN Emplace(m, r.seq, r.task) ELSE Erase(m, r.seq)

ParseWalFile(m, file) ==
  LET parse[n \in 0 .. Len(file)] ==
        IF n = 0 THEN m ELSE ParseRecord(parse[n - 1], file[n])
  IN parse[Len(file)]

Recoverable == ParseWalFile(ParseWalFile(EmptyMap, primary), backup)

MapRange(m) == {m[s] : s \in DOMAIN m}

(* Faulty variant: the map is walked from its end. *)
LargestKey(m) == CHOOSE s \in DOMAIN m : \A x \in DOMAIN m : x <= s

SmallestKey(m) == CHOOSE s \in DOMAIN m : \A x \in DOMAIN m : s <= x

(***************************************************************************)
(* WalRecover                                                              *)
(***************************************************************************)
(* Nothing ever logged leaves the files alone, everything done removes both; *)
(* either way the queue is up.  Otherwise recovery goes on with the map.     *)
WalRecover_Parse ==
  /\ pc = "start"
  /\ pendingMap' = Recoverable
  /\ \/ /\ Recoverable # EmptyMap
        /\ pc' = "parsed"
        /\ UNCHANGED files
     \/ /\ Recoverable = EmptyMap
        /\ pc' = "running"
        /\ primary' = <<>> /\ backup' = <<>>
  /\ UNCHANGED <<nextSeq, queue, marked, accepted, executed, requeued, crashes>>

WalRecover_RemoveStaleBackup ==
  /\ pc = "parsed"
  /\ backup' = <<>>
  /\ pc' = "unlinked"
  /\ UNCHANGED <<primary, pendingMap, nextSeq, queue, marked, accepted, executed,
                 requeued, crashes>>

(* rename(), or its fallback of deleting the primary. *)
WalRecover_Rename ==
  /\ pc = "unlinked"
  /\ \/ backup' = primary
     \/ RenameMayFail /\ backup' = backup
  /\ primary' = <<>>
  /\ pc' = "requeue"
  /\ UNCHANGED <<pendingMap, nextSeq, queue, marked, accepted, executed, requeued, crashes>>

(* One turn of the loop over pendingMap: EnqueueTask logs the entry under a  *)
(* new number and queues it, for the workers that are already running.       *)
WalRecover_Requeue ==
  /\ pc = "requeue"
  /\ \/ /\ pendingMap # EmptyMap
        /\ nextSeq <= MaxSeq
        /\ LET s == SmallestKey(pendingMap)
               t == pendingMap[s]
           IN /\ primary' = Append(primary, P(nextSeq, t))
              /\ queue' = queue \cup {<<nextSeq, t>>}
              /\ requeued' = Append(requeued, t)
              /\ pendingMap' = Erase(pendingMap, s)
        /\ nextSeq' = nextSeq + 1
        /\ pc' = pc
     \/ /\ pendingMap = EmptyMap
        /\ pc' = "dropBackup"
        /\ UNCHANGED <<primary, queue, requeued, pendingMap, nextSeq>>
  /\ UNCHANGED <<backup, marked, accepted, executed, crashes>>

WalRecover_DropBackup ==
  /\ pc = "dropBackup"
  /\ backup' = <<>>
  /\ pc' = "running"
  /\ UNCHANGED <<primary, pendingMap, nextSeq, queue, marked, accepted, executed,
                 requeued, crashes>>

(***************************************************************************)
(* Normal operation                                                        *)
(***************************************************************************)
(* A client's task: P record on disk, then the queue. *)
EnqueueTask(t) ==
  /\ pc = "running" /\ nextSeq <= MaxSeq
  /\ \A n \in 1 .. Len(accepted) : accepted[n] # t
  /\ primary' = Append(primary, P(nextSeq, t))
  /\ queue' = queue \cup {<<nextSeq, t>>}
  /\ accepted' = Append(accepted, t)
  /\ nextSeq' = nextSeq + 1
  /\ UNCHANGED <<backup, pc, pendingMap, marked, executed, requeued, crashes>>

(* A session id is drawn from the same counter. *)
NextGlobalId ==
  /\ pc = "running" /\ nextSeq <= MaxSeq
  /\ nextSeq' = nextSeq + 1
  /\ UNCHANGED <<files, pc, pendingMap, queue, marked, accepted, executed, requeued, crashes>>

(* Faulty variant: a failed task is marked done as well. *)
ProcessTask_MarkAlways(e) ==
  /\ e \in queue
  /\ queue' = queue \ {e}
  /\ \/ executed' = executed \cup {e[2]}
     \/ UNCHANGED executed
  /\ marked' = marked \cup {e}
  /\ UNCHANGED <<files, pc, pendingMap, nextSeq, accepted, requeued, crashes>>

(* ProcessTask: a success is marked later, a failure leaves its P record.  *)
ProcessTask(e) ==
  /\ e \in queue
  /\ queue' = queue \ {e}
  /\ \/ /\ executed' = executed \cup {e[2]}
        /\ marked' = marked \cup {e}
     \/ UNCHANGED <<executed, marked>>
  /\ UNCHANGED <<files, pc, pendingMap, nextSeq, accepted, requeued, crashes>>

WalWriteDone(e) ==
  /\ e \in marked
  /\ primary' = Append(primary, D(e[1]))
  /\ marked' = marked \ {e}
  /\ UNCHANGED <<backup, pc, pendingMap, nextSeq, queue, accepted, executed, requeued, crashes>>

(* The process dies and is started again: only the files survive. *)
Crash ==
  /\ pc \in CrashPoints /\ crashes < MaxCrashes
  /\ pc' = "start"
  /\ pendingMap' = EmptyMap /\ nextSeq' = 1 /\ queue' = {} /\ marked' = {}
  /\ requeued' = <<>>
  /\ crashes' = crashes + 1
  /\ UNCHANGED <<files, accepted, executed>>

WalRecover ==
  \/ WalRecover_Parse \/ WalRecover_RemoveStaleBackup \/ WalRecover_Rename
  \/ WalRecover_Requeue \/ WalRecover_DropBackup

Next ==
  \/ WalRecover
  \/ \E t \in Tasks : EnqueueTask(t)
  \/ NextGlobalId
  \/ \E e \in queue : ProcessTask(e)
  \/ \E e \in marked : WalWriteDone(e)
  \/ Crash

Spec == Init /\ [][Next]_vars

(***************************************************************************)
(* Properties                                                              *)
(***************************************************************************)
AcceptedSet == {accepted[n] : n \in 1 .. Len(accepted)}

(* A task whose P record reached the disk and that has not succeeded is     *)
(* never forgotten: a start now would find it in the files.  "So we never   *)
(* lose tasks regardless of which crash scenario occurred."                 *)
NoTaskLost == pc = "start" => AcceptedSet \ executed \subseteq MapRange(Recoverable)

(* Replay keeps the order of acceptance, which keeps each session's order   *)
(* across a restart: the map is walked by sequence number.                  *)
ReplayInOrder ==
  \A i, j \in 1 .. Len(requeued) : \A m, n \in 1 .. Len(accepted) :
    i < j /\ requeued[i] = accepted[m] /\ requeued[j] = accepted[n] => m < n

(* Recovery never invents work: it re-enqueues accepted tasks, each once.   *)
NoPhantomReplay ==
  /\ MapRange(Recoverable) \subseteq AcceptedSet
  /\ \A i, j \in 1 .. Len(requeued) : requeued[i] = requeued[j] => i = j
=============================================================================
