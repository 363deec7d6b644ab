-------------------------- MODULE ReadinessProvider --------------------------
(***************************************************************************)
(* The two providers that make completions out of readiness events:        *)
(* Platforms/Linux/EpollAsyncIOProvider.cpp and                            *)
(* Platforms/macOS/KqueueAsyncIOProvider.cpp, driven as the engine drives  *)
(* them: a worker thread polls, handles the events one by one, then hands  *)
(* the completions to the engine, which posts the next receive; any thread *)
(* sends, one message at a time per session (mIsSending).                  *)
(*                                                                         *)
(* The kernel's side is external: epoll arms a socket as a whole and       *)
(* disarms it when it reports (EPOLLONESHOT), kqueue arms and disarms each *)
(* filter (EV_ONESHOT).  A send is MsgUnits units that may go out in       *)
(* parts.  Closed sockets are out of the picture: what the maps still hold *)
(* for their descriptor is not followed further.                           *)
(***************************************************************************)
EXTENDS Naturals, Sequences, FiniteSets

CONSTANTS Sockets, Workers,
          Kinds,        \* subset of {"epoll", "kqueue"}
          MaxEntries,   \* length of the array given to ProcessCompletions
          MsgUnits, MaxSends

VARIABLES kind,
          mPendingRecvOps,   \* sockets with a receive in the map
          mPendingSendOps,   \* socket -> units still to send, 0 for no entry
          mPendingRequests,  \* the counter of mStats
          armed,             \* socket -> interest the kernel has armed
          readable, hup,     \* sockets with input; whose peer has gone
          wpc, batch,        \* worker -> where it is; events left to handle
          rearm,             \* worker -> the interest it is about to set
          entries,           \* worker -> completions for the engine
          mIsSending, sends, \* sockets with a send under way; sends so far
          closed             \* sockets whose session was removed

provider == <<mPendingRecvOps, mPendingSendOps, mPendingRequests>>
kernel == <<armed, readable, hup>>
session == <<mIsSending, sends, closed>>
vars == <<kind, mPendingRecvOps, mPendingSendOps, mPendingRequests, armed, readable, hup,
          wpc, batch, rearm, entries, mIsSending, sends, closed>>

Flags == {"IN", "OUT", "ERR"}
Completion == [socket : Sockets, type : {"Recv", "Send"}, ok : BOOLEAN]

TypeOK ==
  /\ kind \in Kinds
  /\ mPendingRecvOps \subseteq Sockets /\ mPendingSendOps \in [Sockets -> 0 .. MsgUnits]
  /\ mPendingRequests \in Nat
  /\ armed \in [Sockets -> SUBSET {"IN", "OUT"}]
  /\ readable \subseteq Sockets /\ hup \subseteq Sockets
  /\ wpc \in [Workers -> {"poll", "event", "recv", "reinsert", "out", "rearm", "sent", "engine"}]
  /\ batch \in [Workers -> Seq([socket : Sockets, flags : SUBSET Flags])]
  /\ rearm \in [Workers -> SUBSET {"IN", "OUT"}]
  /\ entries \in [Workers -> Seq(Completion)]
  /\ mIsSending \subseteq Sockets /\ sends \in [Sockets -> 0 .. MaxSends]
  /\ closed \subseteq Sockets

(* Every socket is associated and its first receive posted. *)
Init ==
  /\ kind \in Kinds
  /\ mPendingRecvOps = Sockets /\ mPendingSendOps = [s \in Sockets |-> 0]
  /\ mPendingRequests = Cardinality(Sockets)
  /\ armed = [s \in Sockets |-> {"IN"}] /\ readable = {} /\ hup = {}
  /\ wpc = [w \in Workers |-> "poll"] /\ batch = [w \in Workers |-> <<>>]
  /\ rearm = [w \in Workers |-> {}] /\ entries = [w \in Workers |-> <<>>]
  /\ mIsSending = {} /\ sends = [s \in Sockets |-> 0] /\ closed = {}

Goto(w, pc) == wpc' = [wpc EXCEPT ![w] = pc]

(* EPOLL_CTL_MOD replaces the interest, EV_ADD adds a filter. *)
Arm(s, interest) ==
  armed' = [armed EXCEPT ![s] = IF kind = "epoll" THEN interest ELSE @ \cup interest]

(***************************************************************************)
(* The peer                                                                *)
(***************************************************************************)
Peer ==
  /\ \E s \in Sockets \ (closed \cup hup) :
       \/ s \notin readable /\ readable' = readable \cup {s} /\ UNCHANGED hup
       \/ hup' = hup \cup {s} /\ UNCHANGED readable
  /\ UNCHANGED <<kind, provider, armed, wpc, batch, rearm, entries, session>>

(***************************************************************************)
(* SendAsync, called by PostSend                                           *)
(***************************************************************************)
(* A second pending send is refused and the session closes; mIsSending keeps *)
(* a session from ever asking for one.                                       *)
SendAsync(s) ==
  /\ s \notin mIsSending \cup closed /\ sends[s] < MaxSends
  /\ sends' = [sends EXCEPT ![s] = @ + 1]
  /\ IF mPendingSendOps[s] > 0
     THEN closed' = closed \cup {s} /\ UNCHANGED <<provider, armed, mIsSending>>
     ELSE /\ mIsSending' = mIsSending \cup {s}
          /\ mPendingSendOps' = [mPendingSendOps EXCEPT ![s] = MsgUnits]
          /\ mPendingRequests' = mPendingRequests + 1
          /\ Arm(s, IF kind = "epoll" THEN {"IN", "OUT"} ELSE {"OUT"})
          /\ UNCHANGED <<mPendingRecvOps, closed>>
  /\ UNCHANGED <<kind, readable, hup, wpc, batch, rearm, entries>>

(***************************************************************************)
(* ProcessCompletions                                                      *)
(***************************************************************************)
(* What the kernel can report of a socket: input when there is some, room    *)
(* for output at any time, the loss of the peer with any armed interest.     *)
Ready(s) ==
  LET now == {f \in armed[s] : f = "OUT" \/ s \in readable}
  IN  IF s \in closed \/ armed[s] = {} THEN {}
      ELSE IF s \in hup THEN {{"ERR"}}
      ELSE IF kind = "epoll" THEN {f \in SUBSET now : f # {} /\ now \cap {"IN"} \subseteq f}
      ELSE {{f} : f \in now}

Events == UNION {{[socket |-> s, flags |-> f] : f \in Ready(s)} : s \in Sockets}

(* What a report takes away: the whole interest, or the filters reported. *)
Disarms(events, s) ==
  UNION {IF kind = "epoll" \/ "ERR" \in e.flags THEN {"IN", "OUT"} ELSE e.flags :
           e \in {x \in events : x.socket = s}}

(* epoll_wait, kevent: at most MaxEntries events, each disarmed. *)
Poll(w) ==
  /\ wpc[w] = "poll"
  /\ \E n \in 1 .. MaxEntries : \E q \in [1 .. n -> Events] :
       /\ \A i \in 1 .. n, j \in 1 .. n :
            q[i].socket = q[j].socket => i = j \/ (kind = "kqueue" /\ q[i] # q[j])
       /\ batch' = [batch EXCEPT ![w] = q]
       /\ armed' = [s \in Sockets |-> armed[s] \ Disarms({q[i] : i \in 1 .. n}, s)]
  /\ Goto(w, "event")
  /\ UNCHANGED <<kind, provider, readable, hup, rearm, entries, session>>

Event(w) == Head(batch[w])
Sock(w) == Event(w).socket
Full(w) == Len(entries[w]) >= MaxEntries

(* The event is done with. *)
Drop(w) == batch' = [batch EXCEPT ![w] = Tail(@)]
Complete(w, type, ok) ==
  entries' = [entries EXCEPT ![w] = Append(@, [socket |-> Sock(w), type |-> type, ok |-> ok])]

Batch_End(w) ==
  /\ wpc[w] = "event" /\ batch[w] = <<>>
  /\ Goto(w, "engine")
  /\ UNCHANGED <<kind, provider, kernel, batch, rearm, entries, session>>

(* epoll, the array is full: re-arm, keeping EPOLLOUT if it was reported. *)
Event_Full(w) ==
  /\ wpc[w] = "event" /\ batch[w] # <<>> /\ Full(w)
  /\ Arm(Sock(w), {"IN"} \cup (Event(w).flags \cap {"OUT"}))
  /\ Drop(w)
  /\ UNCHANGED <<kind, provider, readable, hup, wpc, rearm, entries, session>>

(* Error or hang-up: both pending operations go, one completion reports it. *)
Event_Error(w) ==
  LET s == Sock(w)
      sending == mPendingSendOps[s] > 0
  IN  /\ wpc[w] = "event" /\ batch[w] # <<>> /\ ~Full(w) /\ "ERR" \in Event(w).flags
      /\ mPendingRecvOps' = mPendingRecvOps \ {s}
      /\ mPendingSendOps' = [mPendingSendOps EXCEPT ![s] = 0]
      /\ mPendingRequests' = mPendingRequests - Cardinality(mPendingRecvOps \cap {s})
                                              - (IF sending THEN 1 ELSE 0)
      /\ \/ (s \in mPendingRecvOps \/ sending) /\ Complete(w, "Recv", FALSE)
         \/ s \notin mPendingRecvOps /\ ~sending /\ UNCHANGED entries
      /\ Drop(w)
      /\ UNCHANGED <<kind, kernel, wpc, rearm, session>>

(* Readable: take the pending receive out of the map; without one, go on. *)
Event_In(w) ==
  /\ wpc[w] = "event" /\ batch[w] # <<>> /\ ~Full(w) /\ "IN" \in Event(w).flags
  /\ \/ /\ Sock(w) \in mPendingRecvOps
        /\ mPendingRecvOps' = mPendingRecvOps \ {Sock(w)}
        /\ mPendingRequests' = mPendingRequests - 1
        /\ Goto(w, "recv")
     \/ Sock(w) \notin mPendingRecvOps /\ Goto(w, "out")
        /\ UNCHANGED <<mPendingRecvOps, mPendingRequests>>
  /\ UNCHANGED <<kind, mPendingSendOps, kernel, batch, rearm, entries, session>>

Event_OutOnly(w) ==
  /\ wpc[w] = "event" /\ batch[w] # <<>> /\ ~Full(w) /\ Event(w).flags = {"OUT"}
  /\ Goto(w, "out")
  /\ UNCHANGED <<kind, provider, kernel, batch, rearm, entries, session>>

(* recv(): data, nothing (EAGAIN), or an error, which skips EPOLLOUT. *)
Recv(w) ==
  /\ wpc[w] = "recv"
  /\ \/ /\ Sock(w) \in readable /\ readable' = readable \ {Sock(w)}
        /\ Complete(w, "Recv", TRUE) /\ Goto(w, "out") /\ UNCHANGED batch
     \/ /\ Sock(w) \notin readable \cup hup
        /\ Goto(w, "reinsert") /\ UNCHANGED <<readable, batch, entries>>
     \/ /\ Sock(w) \in hup \ readable
        /\ Complete(w, "Recv", FALSE) /\ Goto(w, "event") /\ Drop(w) /\ UNCHANGED readable
  /\ UNCHANGED <<kind, provider, armed, hup, rearm, session>>

(* Faulty variant: the socket is re-armed before the receive is back. *)
Reinsert_After(w) ==
  /\ wpc[w] = "reinsert"
  /\ \/ rearm[w] = {} /\ Arm(Sock(w), {"IN"}) /\ rearm' = [rearm EXCEPT ![w] = {"IN"}]
        /\ UNCHANGED <<mPendingRecvOps, mPendingRequests, wpc, batch>>
     \/ /\ rearm[w] # {} /\ rearm' = [rearm EXCEPT ![w] = {}]
        /\ mPendingRecvOps' = mPendingRecvOps \cup {Sock(w)}
        /\ mPendingRequests' = mPendingRequests + 1
        /\ Goto(w, "event") /\ Drop(w) /\ UNCHANGED armed
  /\ UNCHANGED <<kind, mPendingSendOps, readable, hup, entries, session>>

(* EAGAIN: back into the map, then re-arm for input and skip the rest. *)
Reinsert(w) ==
  /\ wpc[w] = "reinsert"
  /\ mPendingRecvOps' = mPendingRecvOps \cup {Sock(w)}
  /\ mPendingRequests' = mPendingRequests + 1
  /\ rearm' = [rearm EXCEPT ![w] = {"IN"}]
  /\ Goto(w, "rearm")
  /\ UNCHANGED <<kind, mPendingSendOps, kernel, batch, entries, session>>

Rearm(w) ==
  /\ wpc[w] = "rearm"
  /\ Arm(Sock(w), rearm[w]) /\ rearm' = [rearm EXCEPT ![w] = {}]
  /\ Goto(w, "event") /\ Drop(w)
  /\ UNCHANGED <<kind, provider, readable, hup, entries, session>>

(* Not writable, or epoll's array filled up by this very event. *)
Out_Skip(w) ==
  /\ wpc[w] = "out"
  /\ \/ "OUT" \notin Event(w).flags /\ UNCHANGED armed
     \/ "OUT" \in Event(w).flags /\ Full(w) /\ Arm(Sock(w), {"IN", "OUT"})
  /\ Goto(w, "event") /\ Drop(w)
  /\ UNCHANGED <<kind, provider, readable, hup, rearm, entries, session>>

(* Faulty variant: a partial send is armed like a finished one. *)
Out_SendForgets(w) ==
  LET s == Sock(w) IN
  /\ wpc[w] = "out" /\ "OUT" \in Event(w).flags /\ ~Full(w) /\ mPendingSendOps[s] > 0
  /\ \/ \E rest \in 1 .. mPendingSendOps[s] :
          /\ mPendingSendOps' = [mPendingSendOps EXCEPT ![s] = rest] /\ Goto(w, "rearm")
          /\ rearm' = [rearm EXCEPT ![w] = {"IN"}] /\ UNCHANGED mPendingRequests
     \/ /\ mPendingSendOps' = [mPendingSendOps EXCEPT ![s] = 0]
        /\ mPendingRequests' = mPendingRequests - 1 /\ Goto(w, "sent") /\ UNCHANGED rearm
  /\ UNCHANGED <<kind, mPendingRecvOps, kernel, batch, entries, session>>

(* send() under the mutex: part of the message, updated in place and armed   *)
(* for more; or all of it (or an error), and the entry goes.                 *)
Out_Send(w) ==
  LET s == Sock(w) IN
  /\ wpc[w] = "out" /\ "OUT" \in Event(w).flags /\ ~Full(w) /\ mPendingSendOps[s] > 0
  /\ \/ \E rest \in 1 .. mPendingSendOps[s] :
          /\ mPendingSendOps' = [mPendingSendOps EXCEPT ![s] = rest] /\ Goto(w, "rearm")
          /\ rearm' = [rearm EXCEPT ![w] = IF kind = "epoll" THEN {"IN", "OUT"} ELSE {"OUT"}]
          /\ UNCHANGED mPendingRequests
     \/ /\ mPendingSendOps' = [mPendingSendOps EXCEPT ![s] = 0]
        /\ mPendingRequests' = mPendingRequests - 1 /\ Goto(w, "sent") /\ UNCHANGED rearm
  /\ UNCHANGED <<kind, mPendingRecvOps, kernel, batch, entries, session>>

(* Nothing to send: epoll arms for input, kqueue deletes the write filter    *)
(* while it holds the mutex.                                                 *)
Out_None(w) ==
  /\ wpc[w] = "out" /\ "OUT" \in Event(w).flags /\ ~Full(w) /\ mPendingSendOps[Sock(w)] = 0
  /\ \/ /\ kind = "epoll" /\ rearm' = [rearm EXCEPT ![w] = {"IN"}] /\ Goto(w, "rearm")
        /\ UNCHANGED <<armed, batch>>
     \/ /\ kind = "kqueue" /\ armed' = [armed EXCEPT ![Sock(w)] = @ \ {"OUT"}]
        /\ Goto(w, "event") /\ Drop(w) /\ UNCHANGED rearm
  /\ UNCHANGED <<kind, provider, readable, hup, entries, session>>

(* The message is out: epoll arms for input, kqueue deletes the filter. *)
Out_Sent(w) ==
  /\ wpc[w] = "sent"
  /\ armed' = [armed EXCEPT ![Sock(w)] = IF kind = "epoll" THEN {"IN"} ELSE @ \ {"OUT"}]
  /\ Complete(w, "Send", Sock(w) \notin hup)
  /\ Goto(w, "event") /\ Drop(w)
  /\ UNCHANGED <<kind, provider, readable, hup, rearm, session>>

(***************************************************************************)
(* The engine's loop over the completions                                  *)
(***************************************************************************)
(* A good receive is followed by RecvAsync, a good send lets the session     *)
(* send again, an error removes the session; those of removed sessions are   *)
(* skipped.  RecvAsync stores the receive, then arms for input; where arming *)
(* fails it takes the receive back and the session is removed.               *)
Engine(w) ==
  /\ wpc[w] = "engine"
  /\ \/ entries[w] = <<>> /\ Goto(w, "poll") /\ UNCHANGED <<provider, armed, session, entries>>
     \/ /\ entries[w] # <<>> /\ entries' = [entries EXCEPT ![w] = Tail(@)] /\ wpc' = wpc
        /\ LET e == Head(entries[w]) IN
           \/ e.socket \in closed /\ UNCHANGED <<provider, armed, session>>
           \/ /\ e.socket \notin closed /\ ~e.ok
              /\ closed' = closed \cup {e.socket}
              /\ UNCHANGED <<provider, armed, mIsSending, sends>>
           \/ /\ e.socket \notin closed /\ e.ok /\ e.type = "Send"
              /\ mIsSending' = mIsSending \ {e.socket}
              /\ UNCHANGED <<provider, armed, sends, closed>>
           \/ /\ e.socket \notin closed /\ e.ok /\ e.type = "Recv"
              /\ mPendingRecvOps' = mPendingRecvOps \cup {e.socket}
              /\ mPendingRequests' = mPendingRequests + 1
              /\ Arm(e.socket, {"IN"})
              /\ UNCHANGED <<mPendingSendOps, session>>
           \/ /\ e.socket \notin closed /\ e.ok /\ e.type = "Recv"
              /\ closed' = closed \cup {e.socket}
              /\ UNCHANGED <<provider, armed, mIsSending, sends>>
  /\ UNCHANGED <<kind, readable, hup, batch, rearm>>

WorkerStep(w) ==
  \/ Poll(w) \/ Batch_End(w) \/ Event_Full(w) \/ Event_Error(w) \/ Event_In(w)
  \/ Event_OutOnly(w) \/ Recv(w) \/ Reinsert(w) \/ Rearm(w)
  \/ Out_Skip(w) \/ Out_Send(w) \/ Out_None(w) \/ Out_Sent(w) \/ Engine(w)

Next == Peer \/ (\E s \in Sockets : SendAsync(s)) \/ \E w \in Workers : WorkerStep(w)

Spec == Init /\ [][Next]_vars

(***************************************************************************)
(* Properties                                                              *)
(***************************************************************************)
(* The events, interests and receives of a socket that worker w holds. *)
Holds(w, s, f) ==
  \/ \E i \in 2 .. Len(batch[w]) : batch[w][i].socket = s /\ f \in batch[w][i].flags
  \/ wpc[w] = "event" /\ batch[w] # <<>> /\ Sock(w) = s /\ f \in Event(w).flags
  \/ wpc[w] = "rearm" /\ Sock(w) = s /\ f \in rearm[w]

(* Whoever is to turn the pending operation into a completion: the kernel,   *)
(* or a worker that has the event in hand or is about to arm.                *)
RecvWatched(s) ==
  \/ "IN" \in armed[s]
  \/ \E w \in Workers :
       \/ Holds(w, s, "IN") \/ Holds(w, s, "ERR")
       \/ kind = "epoll" /\ Holds(w, s, "OUT")
       \/ kind = "epoll" /\ wpc[w] \in {"out", "sent"} /\ Sock(w) = s /\ "OUT" \in Event(w).flags

SendWatched(s) ==
  \/ "OUT" \in armed[s]
  \/ \E w \in Workers :
       \/ Holds(w, s, "OUT") \/ Holds(w, s, "ERR")
       \/ wpc[w] \in {"recv", "out"} /\ Sock(w) = s /\ "OUT" \in Event(w).flags

RecvHeld(w, s) ==
  Cardinality({i \in 1 .. Len(entries[w]) :
                 entries[w][i].socket = s /\ entries[w][i].type = "Recv"})
    + (IF wpc[w] \in {"recv", "reinsert"} /\ Sock(w) = s THEN 1 ELSE 0)

(* Sessions that are open and will not be removed by a completion under way. *)
Healthy == {s \in Sockets \ closed : \A w \in Workers : \A i \in 1 .. Len(entries[w]) :
              entries[w][i].socket = s => entries[w][i].ok}

(* An open session's receive is in exactly one place: the map, a worker's    *)
(* hands, or a completion; and in the map it is watched, so that input finds *)
(* it.  A lost one hangs the session, a second one is overwritten.  And the  *)
(* counter of pending requests agrees with the two maps.                     *)
RecvNeverLost ==
  /\ mPendingRequests = Cardinality(mPendingRecvOps)
                          + Cardinality({s \in Sockets : mPendingSendOps[s] > 0})
  /\ \A s \in Healthy :
    /\ s \in mPendingRecvOps => RecvWatched(s) /\ \A w \in Workers : RecvHeld(w, s) = 0
    /\ s \notin mPendingRecvOps => \E w \in Workers : RecvHeld(w, s) > 0

(* "So EPOLL_CTL_MOD is always correct", in RecvAsync, and "so the send is not *)
(* permanently lost": when every worker is back in its wait, the kernel       *)
(* watches for room for every pending send.  With mIsSending set, a send      *)
(* nobody watches silences the session for good.                              *)
SendNeverLost ==
  (\A w \in Workers : wpc[w] = "poll") =>
    \A s \in Healthy : mPendingSendOps[s] > 0 => "OUT" \in armed[s]

(* For the provider whose filters are independent, at every moment: the       *)
(* kernel watches, or a worker has the event in hand or is about to arm.      *)
SendNeverLostKqueue ==
  kind = "kqueue" => \A s \in Healthy : mPendingSendOps[s] > 0 => SendWatched(s)
=============================================================================
