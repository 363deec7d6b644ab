-------------------------- MODULE SqlModuleBootstrap --------------------------
(***************************************************************************)
(* Database/SqlModuleBootstrap.h: BootstrapModuleIfNeeded run by several   *)
(* server instances against one database.  Every SQL statement is one      *)
(* step.  A statement may fail before it takes effect, or take effect and  *)
(* lose its answer; an instance may crash between any two statements and   *)
(* start again, possibly with changed scripts (another manifest hash).     *)
(***************************************************************************)
EXTENDS Naturals

CONSTANTS Instances, Hashes,
          Scripts,    \* number of table scripts
          MaxStarts   \* bound on the starts of an instance

VARIABLES table,      \* T_ModuleBootstrapState exists
          row,        \* the module's row in it, or NoRow
          ran,        \* script -> times it was executed
          okHash,     \* script -> hash it succeeded under, or "none"
          pc, next, manifestHash, result, starts   \* per instance

vars == <<table, row, ran, okHash, pc, next, manifestHash, result, starts>>
db == <<table, row, ran, okHash>>

NoRow == [status |-> "NONE", hash |-> "none"]
Row(s, h) == [status |-> s, hash |-> h]

TypeOK ==
  /\ table \in BOOLEAN
  /\ row \in [status : {"NONE", "IN_PROGRESS", "COMPLETED", "FAILED"}, hash : Hashes \cup {"none"}]
  /\ ran \in [1..Scripts -> Nat] /\ okHash \in [1..Scripts -> Hashes \cup {"none"}]
  /\ pc \in [Instances -> {"off", "read", "ensure", "reread", "insert", "raced", "run", "complete", "fail"}]
  /\ next \in [Instances -> Nat] /\ manifestHash \in [Instances -> Hashes \cup {"none"}]
  /\ result \in [Instances -> {"none", "applied", "skipped", "threw"}]
  /\ starts \in [Instances -> Nat]

Init ==
  /\ table = FALSE /\ row = NoRow
  /\ ran = [s \in 1..Scripts |-> 0] /\ okHash = [s \in 1..Scripts |-> "none"]
  /\ pc = [i \in Instances |-> "off"] /\ next = [i \in Instances |-> 1]
  /\ manifestHash = [i \in Instances |-> "none"] /\ result = [i \in Instances |-> "none"]
  /\ starts = [i \in Instances |-> 0]

Goto(i, to) == pc' = [pc EXCEPT ![i] = to] /\ UNCHANGED result
Return(i, r) == pc' = [pc EXCEPT ![i] = "off"] /\ result' = [result EXCEPT ![i] = r]
Throw(i) == Return(i, "threw")

Start(i) ==
  /\ pc[i] = "off" /\ starts[i] < MaxStarts /\ starts' = [starts EXCEPT ![i] = @ + 1]
  /\ \E h \in Hashes : manifestHash' = [manifestHash EXCEPT ![i] = h]
  /\ pc' = [pc EXCEPT ![i] = "read"] /\ next' = [next EXCEPT ![i] = 1]
  /\ result' = [result EXCEPT ![i] = "none"] /\ UNCHANGED db

Crash(i) == pc[i] # "off" /\ Return(i, "none") /\ UNCHANGED <<db, next, manifestHash, starts>>

(* Faulty variant: an interrupted bootstrap counts as done. *)
Trust_AnyStatus(i) == IF row.hash = manifestHash[i] THEN Return(i, "skipped") ELSE Throw(i)

(* A row that exists: only a completed one with the same hash is accepted. *)
Trust(i) ==
  IF row.status = "COMPLETED" /\ row.hash = manifestHash[i] THEN Return(i, "skipped") ELSE Throw(i)

(* TryReadBootstrapState, before and after the table is made. *)
TryReadBootstrapState(i) ==
  /\ pc[i] \in {"read", "reread"}
  /\ \/ Throw(i)
     \/ ~table /\ IF pc[i] = "read" THEN Goto(i, "ensure") ELSE Throw(i)
     \/ table /\ IF row = NoRow THEN Goto(i, "insert") ELSE Trust(i)
  /\ UNCHANGED <<db, next, manifestHash, starts>>

(* That the table already exists is no error. *)
EnsureBootstrapStateTable(i) ==
  /\ pc[i] = "ensure" /\ table' \in {table, TRUE}
  /\ Throw(i) \/ (table' /\ Goto(i, "reread"))
  /\ UNCHANGED <<row, ran, okHash, next, manifestHash, starts>>

(* Faulty variant: no primary key. *)
InsertBootstrapState_NoKey(i) ==
  /\ pc[i] = "insert" /\ row' = Row("IN_PROGRESS", manifestHash[i]) /\ Goto(i, "run")
  /\ UNCHANGED <<table, ran, okHash, next, manifestHash, starts>>

(* The primary key lets one instance through; the answer may be lost. *)
InsertBootstrapState(i) ==
  /\ pc[i] = "insert"
  /\ \/ Throw(i) /\ UNCHANGED row
     \/ /\ row = NoRow /\ row' = Row("IN_PROGRESS", manifestHash[i])
        /\ Goto(i, "run") \/ Throw(i)
     \/ row # NoRow /\ Goto(i, "raced") /\ UNCHANGED row
  /\ UNCHANGED <<table, ran, okHash, next, manifestHash, starts>>

(* The duplicate key: the row is read again. *)
ReadRacedState(i) ==
  /\ pc[i] = "raced"
  /\ Throw(i) \/ (row # NoRow /\ Trust(i))
  /\ UNCHANGED <<db, next, manifestHash, starts>>

(* One table script.  Whether a failed one took effect is left open. *)
ExecuteTableScript(i) ==
  /\ pc[i] = "run" /\ next[i] <= Scripts
  /\ ran' = [ran EXCEPT ![next[i]] = @ + 1]
  /\ \/ /\ okHash' = [okHash EXCEPT ![next[i]] = manifestHash[i]]
        /\ next' = [next EXCEPT ![i] = @ + 1]
        /\ Goto(i, IF next[i] = Scripts THEN "complete" ELSE "run")
     \/ Goto(i, "fail") /\ UNCHANGED <<okHash, next>>
  /\ UNCHANGED <<table, row, manifestHash, starts>>

(* Status COMPLETED; an error leads to the failure path, even one that      *)
(* comes after the effect.                                                  *)
UpdateCompleted(i) ==
  /\ pc[i] = "complete"
  /\ \/ row' = Row("COMPLETED", manifestHash[i]) /\ (Return(i, "applied") \/ Goto(i, "fail"))
     \/ Goto(i, "fail") /\ UNCHANGED row
  /\ UNCHANGED <<table, ran, okHash, next, manifestHash, starts>>

(* Status FAILED, an error here being swallowed; then the exception. *)
UpdateFailed(i) ==
  /\ pc[i] = "fail" /\ row' \in {row, Row("FAILED", manifestHash[i])} /\ Throw(i)
  /\ UNCHANGED <<table, ran, okHash, next, manifestHash, starts>>

Next ==
  \E i \in Instances :
    \/ Start(i)
    \/ Crash(i)
    \/ TryReadBootstrapState(i)
    \/ EnsureBootstrapStateTable(i)
    \/ InsertBootstrapState(i)
    \/ ReadRacedState(i)
    \/ ExecuteTableScript(i)
    \/ UpdateCompleted(i)
    \/ UpdateFailed(i)

Spec == Init /\ [][Next]_vars

(***************************************************************************)
(* Properties                                                              *)
(***************************************************************************)
(* However many instances start together, crash, lose answers and start      *)
(* again, every table script is executed at most once: the first insert owns  *)
(* the bootstrap for good.                                                   *)
ScriptsRunOnce == \A s \in 1..Scripts : ran[s] <= 1

(* An instance that returns without an exception, because it applied the     *)
(* scripts or because it trusts another instance that did, finds every       *)
(* script executed with success and under its own manifest hash.             *)
ReturnTrustworthy ==
  \A i \in Instances : result[i] \in {"applied", "skipped"} =>
    \A s \in 1..Scripts : okHash[s] = manifestHash[i]
===============================================================================
