--------------------------- MODULE NetworkEventBus ---------------------------
(***************************************************************************)
(* The event bus (Network/Core/NetworkEventBus.h/.cpp) and the channels of *)
(* its subscribers (Concurrency/Channel.h, a bounded queue with TrySend).  *)
(*                                                                         *)
(* A publisher makes one call of Publish, of an event named after it.  A   *)
(* subscriber makes one call of Subscribe, for a channel of its own, and   *)
(* may then unsubscribe, shut the channel down or drop it.  The bus holds  *)
(* the channel weakly: it lives while its owner holds it or a Publish that *)
(* has locked it is still sending.                                         *)
(***************************************************************************)
EXTENDS Naturals, Sequences, FiniteSets

CONSTANTS Publishers, Subscribers, Types,
          Capacity      \* mCapacity of every channel

VARIABLES mSubscribers,  \* type -> subscriptions
          spc, topic,    \* subscriber -> where it is; the type it asked for
          held, shut,    \* channels their owner holds; that are shut down
          queue, log,    \* channel -> contents; history: everything sent
          ppc, event,    \* publisher -> where it is; the type it publishes
          liveChannels,  \* publisher -> channels locked and not yet sent to
          needsPrune,    \* publisher -> an expired channel was met
          due            \* history: publisher -> who must get the event

subState == <<spc, topic, held, shut>>
pubState == <<ppc, event, liveChannels, needsPrune>>
vars == <<mSubscribers, spc, topic, held, shut, queue, log, ppc, event, liveChannels,
          needsPrune, due>>

TypeOK ==
  /\ mSubscribers \in [Types -> SUBSET Subscribers]
  /\ spc \in [Subscribers -> {"new", "subscribed", "unsubscribed"}]
  /\ topic \in [Subscribers -> Types] /\ event \in [Publishers -> Types]
  /\ held \subseteq Subscribers /\ shut \subseteq Subscribers
  /\ queue \in [Subscribers -> Seq(Publishers)] /\ log \in [Subscribers -> Seq(Publishers)]
  /\ ppc \in [Publishers -> {"idle", "called", "send", "prune", "done"}]
  /\ liveChannels \in [Publishers -> SUBSET Subscribers]
  /\ needsPrune \in [Publishers -> BOOLEAN] /\ due \in [Publishers -> SUBSET Subscribers]

Init ==
  /\ mSubscribers = [t \in Types |-> {}]
  /\ spc = [s \in Subscribers |-> "new"] /\ topic \in [Subscribers -> Types]
  /\ held = Subscribers /\ shut = {}
  /\ queue = [s \in Subscribers |-> <<>>] /\ log = queue
  /\ ppc = [p \in Publishers |-> "idle"] /\ event \in [Publishers -> Types]
  /\ liveChannels = [p \in Publishers |-> {}] /\ needsPrune = [p \in Publishers |-> FALSE]
  /\ due = [p \in Publishers |-> {}]

(* The weak_ptr can still be locked. *)
Alive(s) == s \in held \/ \E p \in Publishers : s \in liveChannels[p]

Forget(s) == due' = [p \in Publishers |-> due[p] \ {s}]

(***************************************************************************)
(* Subscribers                                                             *)
(***************************************************************************)
Subscribe(s) ==
  /\ spc[s] = "new" /\ s \in held
  /\ mSubscribers' = [mSubscribers EXCEPT ![topic[s]] = @ \cup {s}]
  /\ spc' = [spc EXCEPT ![s] = "subscribed"]
  /\ UNCHANGED <<topic, held, shut, queue, log, pubState, due>>

(* Every type is searched for the handle. *)
Unsubscribe(s) ==
  /\ spc[s] = "subscribed"
  /\ mSubscribers' = [t \in Types |-> mSubscribers[t] \ {s}]
  /\ spc' = [spc EXCEPT ![s] = "unsubscribed"]
  /\ Forget(s)
  /\ UNCHANGED <<topic, held, shut, queue, log, pubState>>

(* The owner shuts its channel down, or lets go of it. *)
CloseChannel(s) ==
  /\ s \in held
  /\ \/ shut' = shut \cup {s} /\ held' = held
     \/ held' = held \ {s} /\ shut' = shut
  /\ Forget(s)
  /\ UNCHANGED <<mSubscribers, spc, topic, queue, log, pubState>>

Receive(s) ==
  /\ s \in held /\ queue[s] # <<>>
  /\ queue' = [queue EXCEPT ![s] = Tail(@)]
  /\ UNCHANGED <<mSubscribers, subState, log, pubState, due>>

(***************************************************************************)
(* Publish                                                                 *)
(***************************************************************************)
(* The call begins: those who have subscribed and not closed are owed. *)
Publish_Call(p) ==
  /\ ppc[p] = "idle"
  /\ ppc' = [ppc EXCEPT ![p] = "called"]
  /\ due' = [due EXCEPT ![p] = {s \in held \ shut : spc[s] = "subscribed" /\ topic[s] = event[p]}]
  /\ UNCHANGED <<mSubscribers, subState, queue, log, event, liveChannels, needsPrune>>

(* Under the shared lock: lock the live channels of this type. *)
Publish_Snapshot(p) ==
  LET subs == mSubscribers[event[p]]
      live == {s \in subs : Alive(s)}
  IN  /\ ppc[p] = "called"
      /\ liveChannels' = [liveChannels EXCEPT ![p] = live]
      /\ needsPrune' = [needsPrune EXCEPT ![p] = live # subs]
      /\ ppc' = [ppc EXCEPT ![p] = "send"]
      /\ UNCHANGED <<mSubscribers, subState, queue, log, event, due>>

(* IsShutdown and TrySend, which drops the event when the channel is full. *)
Publish_Send(p) ==
  /\ ppc[p] = "send"
  /\ \E s \in liveChannels[p] :
       /\ liveChannels' = [liveChannels EXCEPT ![p] = @ \ {s}]
       /\ \/ /\ s \in shut \/ Len(queue[s]) >= Capacity
             /\ due' = [due EXCEPT ![p] = @ \ {s}] /\ UNCHANGED <<queue, log>>
          \/ /\ s \notin shut /\ Len(queue[s]) < Capacity
             /\ queue' = [queue EXCEPT ![s] = Append(@, p)]
             /\ log' = [log EXCEPT ![s] = Append(@, p)] /\ UNCHANGED due
  /\ UNCHANGED <<mSubscribers, subState, ppc, event, needsPrune>>

Publish_Sent(p) ==
  /\ ppc[p] = "send" /\ liveChannels[p] = {}
  /\ ppc' = [ppc EXCEPT ![p] = IF needsPrune[p] THEN "prune" ELSE "done"]
  /\ UNCHANGED <<mSubscribers, subState, queue, log, event, liveChannels, needsPrune, due>>

(* Faulty variant: the list is replaced by what the snapshot had found. *)
Publish_PruneStale(p) ==
  /\ ppc[p] = "prune"
  /\ mSubscribers' = [mSubscribers EXCEPT ![event[p]] =
                        {s \in @ : \E n \in 1 .. Len(log[s]) : log[s][n] = p}]
  /\ ppc' = [ppc EXCEPT ![p] = "done"]
  /\ UNCHANGED <<subState, queue, log, event, liveChannels, needsPrune, due>>

(* Under the unique lock: expired subscriptions go. *)
Publish_Prune(p) ==
  /\ ppc[p] = "prune"
  /\ mSubscribers' = [mSubscribers EXCEPT ![event[p]] = {s \in @ : Alive(s)}]
  /\ ppc' = [ppc EXCEPT ![p] = "done"]
  /\ UNCHANGED <<subState, queue, log, event, liveChannels, needsPrune, due>>

Next ==
  \/ \E s \in Subscribers : Subscribe(s) \/ Unsubscribe(s) \/ CloseChannel(s) \/ Receive(s)
  \/ \E p \in Publishers : \/ Publish_Call(p) \/ Publish_Snapshot(p) \/ Publish_Send(p)
                           \/ Publish_Sent(p) \/ Publish_Prune(p)

Spec == Init /\ [][Next]_vars

(***************************************************************************)
(* Properties                                                              *)
(***************************************************************************)
Times(s, p) == Cardinality({n \in 1 .. Len(log[s]) : log[s][n] = p})

(* A Publish that has returned has sent its event once to every channel      *)
(* that was subscribed before the call, stayed open and had room, and never  *)
(* twice or to a subscriber of another type: neither the sending after the   *)
(* unlock nor the pruning by a concurrent Publish loses a live subscriber.   *)
BusDelivers ==
  \A p \in Publishers, s \in Subscribers :
    /\ ppc[p] = "done" /\ s \in due[p] => Times(s, p) = 1
    /\ Times(s, p) <= (IF topic[s] = event[p] THEN 1 ELSE 0)
=============================================================================
