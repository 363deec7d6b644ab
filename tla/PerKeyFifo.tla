----------------------------- MODULE PerKeyFifo -----------------------------
(***************************************************************************)
(* What the server's keyed task queues promise: items of one key run one   *)
(* at a time, in the order in which they were accepted; items of different *)
(* keys are unordered.                                                     *)
(***************************************************************************)
EXTENDS Naturals, Sequences

CONSTANTS Items, Keys,
          KeyOf   \* item -> its key

VARIABLES submitted,  \* key -> items accepted, in order
          running,    \* key -> the item being executed, as a sequence
          completed   \* key -> items executed, in order

vars == <<submitted, running, completed>>

Init ==
  /\ submitted = [k \in Keys |-> <<>>]
  /\ running = [k \in Keys |-> <<>>]
  /\ completed = [k \in Keys |-> <<>>]

Submit(i) ==
  /\ \A n \in 1 .. Len(submitted[KeyOf[i]]) : submitted[KeyOf[i]][n] # i
  /\ submitted' = [submitted EXCEPT ![KeyOf[i]] = Append(@, i)]
  /\ UNCHANGED <<running, completed>>

Begin(k) ==
  /\ running[k] = <<>>
  /\ Len(completed[k]) < Len(submitted[k])
  /\ running' = [running EXCEPT ![k] = <<submitted[k][Len(completed[k]) + 1]>>]
  /\ UNCHANGED <<submitted, completed>>

Complete(k) ==
  /\ running[k] # <<>>
  /\ completed' = [completed EXCEPT ![k] = Append(@, Head(running[k]))]
  /\ running' = [running EXCEPT ![k] = <<>>]
  /\ UNCHANGED submitted

Next == (\E i \in Items : Submit(i)) \/ (\E k \in Keys : Begin(k) \/ Complete(k))

Spec == Init /\ [][Next]_vars
=============================================================================
