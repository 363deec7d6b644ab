------------------------- MODULE DBServerTaskQueue -------------------------
(***************************************************************************)
(* The queue that relays client requests to the DB server                  *)
(* (DBServerTaskQueue.cpp).  A worker owns the state of its sessions: at   *)
(* most one request of a session is in flight, later tasks of the session  *)
(* wait in its pending list, and an answer or a timeout makes the worker   *)
(* take the next one.                                                      *)
(*                                                                         *)
(* A request id is drawn per task that is sent and names that task, so it  *)
(* is the task here.  An entry of the sessions map exists exactly when the *)
(* session has a request in flight or a pending task.  The worker's wait   *)
(* has a timeout, so a wake-up is always possible and no notify matters.   *)
(***************************************************************************)
EXTENDS Naturals, Sequences, FiniteSets

CONSTANTS Tasks, NumWorkers,
          SessionChoices,  \* the ways in which tasks may belong to sessions
          DispatchResults  \* what checking and sending a task may end in

ASSUME WorkersAssumption == NumWorkers \in 1 .. 255
ASSUME SessionsAssumption == SessionChoices \subseteq [Tasks -> Nat]
ASSUME DispatchAssumption == DispatchResults \subseteq {"sent", "invalid", "unsent"}

Workers == 0 .. (NumWorkers - 1)
Sessions == {f[t] : f \in SessionChoices, t \in Tasks}

VARIABLES
  SessionOf,                 \* task -> the sessionId it carries
  mIsRunning, mPendingCount,
  taskQueue, responseQueue,  \* worker -> queue; shared, under its mutex
  inflight,                  \* session -> the request in flight, as a sequence
  pending,                   \* session -> tasks waiting behind it
  timedOut,                  \* worker -> sessions CheckTimeouts has collected
  cur,                       \* worker -> session whose next task is due
  wpc, epc, spc, sIdx,       \* workers, callers of EnqueueTask, Shutdown
  wire,                      \* requests the DB server may still answer
  outcome, callbacks,        \* task -> the result reported, and how often
  pushed, dispatched         \* history: session -> order of push, of dispatch

queues == <<taskQueue, responseQueue, mPendingCount>>
session == <<inflight, pending>>
results == <<outcome, callbacks>>
vars == <<SessionOf, mIsRunning, mPendingCount, taskQueue, responseQueue, inflight, pending,
          timedOut, cur, wpc, epc, spc, sIdx, wire, outcome, callbacks, pushed,
          dispatched>>

Outcomes == {"none", "answered", "timeout", "invalid", "unsent", "shutdown"}

TypeOK ==
  /\ SessionOf \in SessionChoices
  /\ mIsRunning \in BOOLEAN /\ mPendingCount \in Nat
  /\ taskQueue \in [Workers -> Seq(Tasks)] /\ responseQueue \in [Workers -> Seq(Tasks)]
  /\ inflight \in [Sessions -> Seq(Tasks)] /\ pending \in [Sessions -> Seq(Tasks)]
  /\ timedOut \in [Workers -> SUBSET Sessions] /\ cur \in [Workers -> Nat]
  /\ wpc \in [Workers -> {"none", "loop", "expire", "expireNext", "respond",
                          "respondNext", "tasks", "exited"}]
  /\ epc \in [Tasks -> {"idle", "admitted", "push", "returned"}]
  /\ spc \in {"created", "up", "join", "drain", "drainTasks", "down"}
  /\ sIdx \in Nat /\ wire \subseteq Tasks
  /\ outcome \in [Tasks -> Outcomes] /\ callbacks \in [Tasks -> Nat]
  /\ pushed \in [Sessions -> Seq(Tasks)] /\ dispatched \in [Sessions -> Seq(Tasks)]

Init ==
  /\ SessionOf \in SessionChoices
  /\ mIsRunning = FALSE /\ mPendingCount = 0
  /\ taskQueue = [w \in Workers |-> <<>>] /\ responseQueue = [w \in Workers |-> <<>>]
  /\ inflight = [s \in Sessions |-> <<>>] /\ pending = [s \in Sessions |-> <<>>]
  /\ timedOut = [w \in Workers |-> {}] /\ cur = [w \in Workers |-> 0]
  /\ wpc = [w \in Workers |-> "none"] /\ epc = [t \in Tasks |-> "idle"]
  /\ spc = "created" /\ sIdx = 0 /\ wire = {}
  /\ outcome = [t \in Tasks |-> "none"] /\ callbacks = [t \in Tasks |-> 0]
  /\ pushed = [s \in Sessions |-> <<>>] /\ dispatched = [s \in Sessions |-> <<>>]

WorkerOf(t) == SessionOf[t] % NumWorkers
Owned(w) == {s \in Sessions : s % NumWorkers = w}
LockFree(w) == \A t \in Tasks : epc[t] = "push" => WorkerOf(t) # w
Elements(q) == {q[n] : n \in 1 .. Len(q)}

Report(t, result) ==
  /\ outcome' = [outcome EXCEPT ![t] = result]
  /\ callbacks' = [callbacks EXCEPT ![t] = @ + 1]

(***************************************************************************)
(* Initialize, EnqueueTask, OnDBResponse                                   *)
(***************************************************************************)
Initialize ==
  /\ spc = "created"
  /\ mIsRunning' = TRUE /\ spc' = "up"
  /\ wpc' = [w \in Workers |-> "loop"]
  /\ UNCHANGED <<SessionOf, queues, session, timedOut, cur, epc, sIdx, wire, results, pushed, dispatched>>

EnqueueTask_Check(t) ==
  /\ epc[t] = "idle" /\ spc # "created"
  /\ \/ /\ mIsRunning
        /\ epc' = [epc EXCEPT ![t] = "admitted"]
        /\ UNCHANGED results
     \/ /\ ~mIsRunning
        /\ epc' = [epc EXCEPT ![t] = "returned"]
        /\ Report(t, "shutdown")
  /\ UNCHANGED <<SessionOf, mIsRunning, queues, session, timedOut, cur, wpc, spc, sIdx, wire,
                 pushed, dispatched>>

(* Takes the worker's mutex and looks at the flag again. *)
EnqueueTask_Lock(t) ==
  /\ epc[t] = "admitted" /\ LockFree(WorkerOf(t))
  /\ \/ /\ mIsRunning
        /\ epc' = [epc EXCEPT ![t] = "push"]
        /\ UNCHANGED results
     \/ /\ ~mIsRunning
        /\ epc' = [epc EXCEPT ![t] = "returned"]
        /\ Report(t, "shutdown")
  /\ UNCHANGED <<SessionOf, mIsRunning, queues, session, timedOut, cur, wpc, spc, sIdx, wire,
                 pushed, dispatched>>

EnqueueTask_Push(t) ==
  /\ epc[t] = "push"
  /\ mPendingCount' = mPendingCount + 1
  /\ taskQueue' = [taskQueue EXCEPT ![WorkerOf(t)] = Append(@, t)]
  /\ pushed' = [pushed EXCEPT ![SessionOf[t]] = Append(@, t)]
  /\ epc' = [epc EXCEPT ![t] = "returned"]
  /\ UNCHANGED <<SessionOf, mIsRunning, responseQueue, session, timedOut, cur, wpc, spc, sIdx,
                 wire, results, dispatched>>

(* The DB server's answer, on the receive thread.  The slot in the request   *)
(* id is the worker that issued it.  TestServer::Stop joins the receive      *)
(* thread before it shuts this queue down.                                   *)
OnDBResponse(t) ==
  /\ spc = "up" /\ t \in wire /\ LockFree(WorkerOf(t))
  /\ wire' = wire \ {t}
  /\ responseQueue' = [responseQueue EXCEPT ![WorkerOf(t)] = Append(@, t)]
  /\ UNCHANGED <<SessionOf, mIsRunning, mPendingCount, taskQueue, session, timedOut, cur, wpc,
                 epc, spc, sIdx, results, pushed, dispatched>>

(* The request or its answer is lost with the connection to the DB server. *)
LinkLoss(t) ==
  /\ t \in wire
  /\ wire' = wire \ {t}
  /\ UNCHANGED <<SessionOf, mIsRunning, queues, session, timedOut, cur, wpc, epc, spc, sIdx,
                 results, pushed, dispatched>>

(***************************************************************************)
(* Worker                                                                  *)
(***************************************************************************)
(* ProcessTask for a session with nothing in flight: check, draw an id,      *)
(* remember it, send.  rest is what stays pending.                           *)
Dispatch(t, rest) ==
  LET s == SessionOf[t] IN
  /\ dispatched' = [dispatched EXCEPT ![s] = Append(@, t)]
  /\ pending' = [pending EXCEPT ![s] = rest]
  /\ \E r \in DispatchResults :
       IF r = "sent"
       THEN /\ inflight' = [inflight EXCEPT ![s] = <<t>>]
            /\ wire' = wire \cup {t}
            /\ UNCHANGED results
       ELSE Report(t, r) /\ UNCHANGED <<inflight, wire>>

ProcessTask(t) ==
  LET s == SessionOf[t] IN
  \/ /\ inflight[s] # <<>>
     /\ pending' = [pending EXCEPT ![s] = Append(@, t)]
     /\ UNCHANGED <<inflight, wire, results, dispatched>>
  \/ /\ inflight[s] = <<>>
     /\ Dispatch(t, pending[s])

(* Faulty variant: an answer or a timeout leaves the pending tasks alone. *)
Worker_NextIdle(w) ==
  /\ wpc[w] \in {"expireNext", "respondNext"}
  /\ wpc' = [wpc EXCEPT ![w] = IF @ = "expireNext" THEN "expire" ELSE "respond"]
  /\ UNCHANGED <<SessionOf, mIsRunning, queues, session, wire, results, dispatched, timedOut, cur,
                 epc, spc, sIdx, pushed>>

(* Faulty variant: the response of any request completes the one in flight. *)
HandleResponse_AnyId(w) ==
  /\ wpc[w] = "respond" /\ LockFree(w)
  /\ \/ /\ responseQueue[w] # <<>>
        /\ responseQueue' = [responseQueue EXCEPT ![w] = Tail(@)]
        /\ Report(Head(responseQueue[w]), "answered")
        /\ LET s == SessionOf[Head(responseQueue[w])] IN
             /\ inflight' = [inflight EXCEPT ![s] = <<>>]
             /\ cur' = [cur EXCEPT ![w] = s]
        /\ wpc' = [wpc EXCEPT ![w] = "respondNext"]
     \/ /\ responseQueue[w] = <<>>
        /\ wpc' = [wpc EXCEPT ![w] = "tasks"]
        /\ UNCHANGED <<responseQueue, inflight, results, cur>>
  /\ UNCHANGED <<SessionOf, mIsRunning, mPendingCount, taskQueue, pending, timedOut, epc, spc,
                 sIdx, wire, pushed, dispatched>>

(* Any requests in flight may have passed their deadline by the time the     *)
(* worker has waited and looks.                                              *)
Worker_Loop(w) ==
  /\ wpc[w] = "loop"
  /\ \/ /\ mIsRunning
        /\ \E late \in SUBSET {s \in Owned(w) : inflight[s] # <<>>} :
             timedOut' = [timedOut EXCEPT ![w] = late]
        /\ wpc' = [wpc EXCEPT ![w] = "expire"]
     \/ /\ ~mIsRunning
        /\ wpc' = [wpc EXCEPT ![w] = "exited"]
        /\ UNCHANGED timedOut
  /\ UNCHANGED <<SessionOf, mIsRunning, queues, session, cur, epc, spc, sIdx, wire, results,
                 pushed, dispatched>>

(* The loop of CheckTimeouts over the collected sessions. *)
CheckTimeouts(w) ==
  /\ wpc[w] = "expire"
  /\ \/ \E s \in timedOut[w] :
          /\ timedOut' = [timedOut EXCEPT ![w] = @ \ {s}]
          /\ inflight' = [inflight EXCEPT ![s] = <<>>]
          /\ Report(Head(inflight[s]), "timeout")
          /\ cur' = [cur EXCEPT ![w] = s]
          /\ wpc' = [wpc EXCEPT ![w] = "expireNext"]
     \/ /\ timedOut[w] = {}
        /\ wpc' = [wpc EXCEPT ![w] = "respond"]
        /\ UNCHANGED <<timedOut, inflight, results, cur>>
  /\ UNCHANGED <<SessionOf, mIsRunning, queues, pending, epc, spc, sIdx, wire, pushed, dispatched>>

(* The request id is searched among the worker's sessions; an id nobody     *)
(* waits for (a late answer) is dropped.                                    *)
HandleResponse(w) ==
  /\ wpc[w] = "respond" /\ LockFree(w)
  /\ \/ /\ responseQueue[w] # <<>>
        /\ responseQueue' = [responseQueue EXCEPT ![w] = Tail(@)]
        /\ \/ \E s \in Owned(w) :
                /\ inflight[s] = <<Head(responseQueue[w])>>
                /\ inflight' = [inflight EXCEPT ![s] = <<>>]
                /\ Report(Head(responseQueue[w]), "answered")
                /\ cur' = [cur EXCEPT ![w] = s]
                /\ wpc' = [wpc EXCEPT ![w] = "respondNext"]
           \/ /\ \A s \in Owned(w) : inflight[s] # <<Head(responseQueue[w])>>
              /\ UNCHANGED <<inflight, results, cur, wpc>>
     \/ /\ responseQueue[w] = <<>>
        /\ wpc' = [wpc EXCEPT ![w] = "tasks"]
        /\ UNCHANGED <<responseQueue, inflight, results, cur>>
  /\ UNCHANGED <<SessionOf, mIsRunning, mPendingCount, taskQueue, pending, timedOut, epc, spc,
                 sIdx, wire, pushed, dispatched>>

(* The tail of CheckTimeouts and of HandleResponse: exactly one pending      *)
(* task of the session is processed, or the idle entry is erased.            *)
Worker_Next(w) ==
  LET s == cur[w] IN
  /\ wpc[w] \in {"expireNext", "respondNext"}
  /\ wpc' = [wpc EXCEPT ![w] = IF @ = "expireNext" THEN "expire" ELSE "respond"]
  /\ \/ pending[s] # <<>> /\ Dispatch(Head(pending[s]), Tail(pending[s]))
     \/ pending[s] = <<>> /\ UNCHANGED <<session, wire, results, dispatched>>
  /\ UNCHANGED <<SessionOf, mIsRunning, queues, timedOut, cur, epc, spc, sIdx, pushed>>

(* One turn of the loop that drains the task queue. *)
Worker_Tasks(w) ==
  /\ wpc[w] = "tasks" /\ LockFree(w)
  /\ \/ /\ mIsRunning /\ taskQueue[w] # <<>>
        /\ taskQueue' = [taskQueue EXCEPT ![w] = Tail(@)]
        /\ mPendingCount' = mPendingCount - 1
        /\ ProcessTask(Head(taskQueue[w]))
        /\ wpc' = wpc
     \/ /\ ~mIsRunning \/ taskQueue[w] = <<>>
        /\ wpc' = [wpc EXCEPT ![w] = "loop"]
        /\ UNCHANGED <<taskQueue, mPendingCount, session, wire, results, dispatched>>
  /\ UNCHANGED <<SessionOf, mIsRunning, responseQueue, timedOut, cur, epc, spc, sIdx, pushed>>

WorkerThreadFunc(w) ==
  \/ Worker_Loop(w) \/ CheckTimeouts(w) \/ HandleResponse(w)
  \/ Worker_Next(w) \/ Worker_Tasks(w)

(***************************************************************************)
(* Shutdown                                                                *)
(***************************************************************************)
Shutdown_Stop ==
  /\ spc = "up"
  /\ mIsRunning' = FALSE /\ spc' = "join" /\ sIdx' = 0
  /\ UNCHANGED <<SessionOf, queues, session, timedOut, cur, wpc, epc, wire, results, pushed, dispatched>>

Shutdown_Join ==
  /\ spc = "join"
  /\ \A w \in Workers : wpc[w] = "exited"
  /\ spc' = "drain" /\ sIdx' = 0
  /\ UNCHANGED <<SessionOf, mIsRunning, queues, session, timedOut, cur, wpc, epc, wire, results,
                 pushed, dispatched>>

(* ShutdownDrain, first half: everything the worker's sessions hold. *)
ShutdownDrain_Sessions ==
  /\ spc = "drain"
  /\ \/ /\ sIdx < NumWorkers
        /\ LET held == UNION {Elements(inflight[s]) \cup Elements(pending[s]) : s \in Owned(sIdx)}
           IN /\ outcome' = [t \in Tasks |-> IF t \in held THEN "shutdown" ELSE outcome[t]]
              /\ callbacks' = [t \in Tasks |-> IF t \in held THEN callbacks[t] + 1 ELSE callbacks[t]]
        /\ inflight' = [s \in Sessions |-> IF s \in Owned(sIdx) THEN <<>> ELSE inflight[s]]
        /\ pending' = [s \in Sessions |-> IF s \in Owned(sIdx) THEN <<>> ELSE pending[s]]
        /\ spc' = "drainTasks"
     \/ /\ sIdx = NumWorkers
        /\ spc' = "down"
        /\ UNCHANGED <<session, results>>
  /\ UNCHANGED <<SessionOf, mIsRunning, queues, timedOut, cur, wpc, epc, sIdx, wire, pushed, dispatched>>

(* Second half: the task queue, one task at a time and without the mutex,    *)
(* then the responses and the global count.                                  *)
ShutdownDrain_Tasks ==
  /\ spc = "drainTasks"
  /\ \/ /\ taskQueue[sIdx] # <<>>
        /\ Report(Head(taskQueue[sIdx]), "shutdown")
        /\ taskQueue' = [taskQueue EXCEPT ![sIdx] = Tail(@)]
        /\ UNCHANGED <<responseQueue, mPendingCount, spc, sIdx>>
     \/ /\ taskQueue[sIdx] = <<>>
        /\ responseQueue' = [responseQueue EXCEPT ![sIdx] = <<>>]
        /\ mPendingCount' = 0
        /\ spc' = "drain" /\ sIdx' = sIdx + 1
        /\ UNCHANGED <<taskQueue, results>>
  /\ UNCHANGED <<SessionOf, mIsRunning, session, timedOut, cur, wpc, epc, wire, pushed, dispatched>>

Shutdown == Shutdown_Join \/ ShutdownDrain_Sessions \/ ShutdownDrain_Tasks

Next ==
  \/ Initialize
  \/ \E t \in Tasks : EnqueueTask_Check(t) \/ EnqueueTask_Lock(t) \/ EnqueueTask_Push(t)
  \/ \E t \in Tasks : OnDBResponse(t) \/ LinkLoss(t)
  \/ \E w \in Workers : WorkerThreadFunc(w)
  \/ Shutdown_Stop \/ Shutdown

Spec == Init /\ [][Next]_vars

(* Every thread that can move does, and a request that stays in flight is   *)
(* found past its deadline in some later round of its worker.               *)
Fairness ==
  /\ WF_vars(Initialize) /\ WF_vars(Shutdown)
  /\ \A t \in Tasks : WF_vars(EnqueueTask_Lock(t) \/ EnqueueTask_Push(t))
  /\ \A w \in Workers : WF_vars(WorkerThreadFunc(w))
  /\ \A w \in Workers : \A s \in Owned(w) : SF_vars(Worker_Loop(w) /\ s \in timedOut'[w])

FairSpec == Spec /\ Fairness

(***************************************************************************)
(* Properties                                                              *)
(***************************************************************************)
AcceptedTasks == UNION {Elements(pushed[s]) : s \in Sessions}

Places(t) ==
  Cardinality({n \in 1 .. Len(taskQueue[WorkerOf(t)]) : taskQueue[WorkerOf(t)][n] = t})
  + Cardinality({n \in 1 .. Len(pending[SessionOf[t]]) : pending[SessionOf[t]][n] = t})
  + Cardinality({n \in 1 .. Len(inflight[SessionOf[t]]) : inflight[SessionOf[t]][n] = t})

(* Responses, timeouts, late responses, failed sends and the drain of        *)
(* Shutdown never lose a task and never answer it twice: an accepted task is *)
(* either in exactly one place and unanswered, or nowhere and answered once. *)
AnsweredOnce ==
  \A t \in Tasks :
    /\ callbacks[t] = (IF outcome[t] = "none" THEN 0 ELSE 1)
    /\ Places(t) = (IF t \in AcceptedTasks /\ outcome[t] = "none" THEN 1 ELSE 0)

(* A session never has two requests at the DB server that wait for an       *)
(* answer (the assertion on requestId in ProcessTask).                      *)
OneInFlight ==
  \A s \in Sessions :
    Cardinality({t \in Elements(dispatched[s]) : outcome[t] = "none"}) <= 1

FailedIn(s) == {t \in Tasks : SessionOf[t] = s /\ outcome[t] \in {"invalid", "unsent"}}

(* As long as no task of a session fails its check or its send, its tasks    *)
(* are sent in the order in which they were accepted, whichever of answer,   *)
(* timeout and arrival moves the session on.                                 *)
OrderKept ==
  \A s \in Sessions :
    FailedIn(s) = {} => \A n \in 1 .. Len(dispatched[s]) : dispatched[s][n] = pushed[s][n]

(* Under the same condition every accepted task is answered while the queue  *)
(* runs, by the timeout at the latest, however the link behaves.             *)
TaskAnswered ==
  LET waiting == {t \in AcceptedTasks : outcome[t] = "none" /\ FailedIn(SessionOf[t]) = {}}
  IN  waiting # {} ~> (waiting = {} \/ ~mIsRunning)

(* "key-affinity, per-session FIFO", without that condition. *)
DispatchInOrder ==
  \A s \in Sessions : \A n \in 1 .. Len(dispatched[s]) : dispatched[s][n] = pushed[s][n]
=============================================================================
