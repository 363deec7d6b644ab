---------------------------- MODULE DatabaseProofs ----------------------------
(***************************************************************************)
(* The database layer for all values of its constants: the schema          *)
(* bootstrap, the connection pool and the transactions of its clients, and *)
(* the threads of TestServer's link to the DB server.                      *)
(***************************************************************************)
EXTENDS DatabaseBackends, LinkParts, Counting, TLAPS

\* The time limits of a leaf that names no prover of its own.
USE SMTT(30), ZenonT(30)

(***************************************************************************)
(* SqlModuleBootstrap: any number of server instances, restarts, manifest  *)
(* hashes and table scripts                                                *)
(***************************************************************************)

(* The places of the instance whose insert made the row, and those of the    *)
(* others.                                                                   *)
Owning == {"run", "complete", "fail"}
Asking == {"read", "ensure", "reread", "insert", "raced"}
Accepted == {"applied", "skipped"}

(* Before the row exists nothing was executed, nobody owns the bootstrap and *)
(* nobody has returned in peace.                                             *)
Untouched ==
  b_row = SB!NoRow =>
    /\ \A s \in 1..Scripts : b_ran[s] = 0
    /\ \A i \in Instances : b_pc[i] \notin Owning /\ b_result[i] \notin Accepted

(* The primary key: one owner. *)
OneOwner == \A i, j \in Instances : b_pc[i] \in Owning /\ b_pc[j] \in Owning => i = j

(* What the owner has done so far: the scripts before its next one, each     *)
(* once and under its own hash, while the row says so.                       *)
Working(i) ==
  /\ b_pc[i] \in Asking => b_next[i] = 1
  /\ b_pc[i] = "run" =>
       /\ b_next[i] \in 1..Scripts
       /\ \A s \in 1..Scripts : IF s < b_next[i] THEN b_okHash[s] = b_manifestHash[i] ELSE b_ran[s] = 0
  /\ b_pc[i] = "complete" => \A s \in 1..Scripts : b_okHash[s] = b_manifestHash[i]
  /\ b_pc[i] \in {"run", "complete"} =>
       b_row.status = "IN_PROGRESS" /\ \A j \in Instances : b_result[j] \notin Accepted

(* A completed row can be trusted. *)
Completed == b_row.status = "COMPLETED" => \A s \in 1..Scripts : b_okHash[s] = b_row.hash

BootInv ==
  /\ SB!TypeOK /\ Untouched /\ OneOwner /\ (\A i \in Instances : Working(i)) /\ Completed
  /\ SB!ScriptsRunOnce /\ SB!ReturnTrustworthy

(* Nothing has run, no row exists. *)
LEMMA BootInit == SB!Init => BootInv
<1> SUFFICES ASSUME SB!Init PROVE BootInv
  OBVIOUS
<1>1. SB!TypeOK
  BY Zenon DEF SB!Init, SB!TypeOK, SB!NoRow
<1> QED
  BY <1>1 DEF SB!Init, BootInv, Untouched, OneOwner, Working, Completed, SB!ScriptsRunOnce, SB!ReturnTrustworthy,
     Owning, Asking, Accepted, SB!NoRow

(* Every statement keeps the types. *)
LEMMA BootTypes == ASSUME Scripts \in Nat, SB!TypeOK, NEW i \in Instances PROVE
  /\ SB!Start(i) \/ SB!Crash(i) => SB!TypeOK'
  /\ SB!TryReadBootstrapState(i) \/ SB!EnsureBootstrapStateTable(i) => SB!TypeOK'
  /\ SB!InsertBootstrapState(i) \/ SB!ReadRacedState(i) => SB!TypeOK'
  /\ (b_pc[i] = "run" => b_next[i] \in 1..Scripts) /\ SB!ExecuteTableScript(i) => SB!TypeOK'
  /\ SB!UpdateCompleted(i) \/ SB!UpdateFailed(i) => SB!TypeOK'
<1> USE DEF SB!TypeOK, SB!Goto, SB!Return, SB!Throw, SB!Trust, SB!Row, SB!db
<1>0. /\ b_manifestHash[i] \in Hashes \cup {"none"}
      /\ \A st \in {"IN_PROGRESS", "COMPLETED", "FAILED"} :
           SB!Row(st, b_manifestHash[i]) \in [status : {"NONE", "IN_PROGRESS", "COMPLETED", "FAILED"},
                                         hash : Hashes \cup {"none"}]
  OBVIOUS
<1>1. ASSUME SB!Start(i) PROVE SB!TypeOK'
  BY <1>1 DEF SB!Start
<1>2. ASSUME SB!Crash(i) PROVE SB!TypeOK'
  BY <1>2 DEF SB!Crash
<1>3. ASSUME SB!TryReadBootstrapState(i) PROVE SB!TypeOK'
  <2>1. /\ UNCHANGED <<b_table, b_row, b_ran, b_okHash, b_next, b_manifestHash, b_starts>>
        /\ \E to \in {"off", "ensure", "insert"} : b_pc' = [b_pc EXCEPT ![i] = to]
        /\ b_result' = b_result \/ \E r \in {"skipped", "threw"} : b_result' = [b_result EXCEPT ![i] = r]
    BY <1>3 DEF SB!TryReadBootstrapState
  <2>2. b_pc' \in [Instances -> {"off", "read", "ensure", "reread", "insert", "raced", "run", "complete", "fail"}]
    BY <2>1
  <2>3. b_result' \in [Instances -> {"none", "applied", "skipped", "threw"}]
    BY <2>1, Zenon
  <2> QED
    BY <2>1, <2>2, <2>3
<1>4. ASSUME SB!EnsureBootstrapStateTable(i) PROVE SB!TypeOK'
  BY <1>4, Zenon DEF SB!EnsureBootstrapStateTable
<1>5. ASSUME SB!InsertBootstrapState(i) PROVE SB!TypeOK'
  <2>1. b_row' \in [status : {"NONE", "IN_PROGRESS", "COMPLETED", "FAILED"}, hash : Hashes \cup {"none"}]
    BY <1>0, <1>5 DEF SB!InsertBootstrapState
  <2>2. /\ b_pc' \in [Instances -> {"off", "read", "ensure", "reread", "insert", "raced", "run", "complete", "fail"}]
        /\ b_result' \in [Instances -> {"none", "applied", "skipped", "threw"}]
    BY <1>5, Zenon DEF SB!InsertBootstrapState
  <2> QED
    BY <2>1, <2>2, <1>5 DEF SB!InsertBootstrapState
<1>6. ASSUME SB!ReadRacedState(i) PROVE SB!TypeOK'
  <2>1. /\ UNCHANGED <<b_table, b_row, b_ran, b_okHash, b_next, b_manifestHash, b_starts>>
        /\ \E to \in {"off", "ensure", "insert"} : b_pc' = [b_pc EXCEPT ![i] = to]
        /\ b_result' = b_result \/ \E r \in {"skipped", "threw"} : b_result' = [b_result EXCEPT ![i] = r]
    BY <1>6 DEF SB!ReadRacedState
  <2>2. b_pc' \in [Instances -> {"off", "read", "ensure", "reread", "insert", "raced", "run", "complete", "fail"}]
    BY <2>1
  <2>3. b_result' \in [Instances -> {"none", "applied", "skipped", "threw"}]
    BY <2>1, ZenonT(30)
  <2> QED
    BY <2>1, <2>2, <2>3
<1>7. ASSUME b_pc[i] = "run" => b_next[i] \in 1..Scripts, SB!ExecuteTableScript(i) PROVE SB!TypeOK'
  <2>0. /\ b_ran' = [b_ran EXCEPT ![b_next[i]] = b_ran[b_next[i]] + 1]
        /\ b_next' = [b_next EXCEPT ![i] = b_next[i] + 1] \/ b_next' = b_next
        /\ \E to \in {"run", "complete", "fail"} : b_pc' = [b_pc EXCEPT ![i] = to]
    BY <1>7 DEF SB!ExecuteTableScript
  <2>1. b_ran' \in [1..Scripts -> Nat] /\ b_next' \in [Instances -> Nat]
    <3>1. b_next[i] \in 1..Scripts /\ b_next[i] + 1 \in Nat
      BY <1>7 DEF SB!ExecuteTableScript
    <3>2. b_ran[b_next[i]] + 1 \in Nat
      BY <3>1
    <3>3. b_ran' \in [1..Scripts -> Nat]
      BY <2>0, <3>1, <3>2
    <3>4. b_next' \in [Instances -> Nat]
      BY <2>0, <3>1, Zenon
    <3> QED
      BY <3>3, <3>4
  <2>2. b_okHash' \in [1..Scripts -> Hashes \cup {"none"}]
    BY <1>0, <1>7 DEF SB!ExecuteTableScript
  <2>3. b_pc' \in [Instances -> {"off", "read", "ensure", "reread", "insert", "raced", "run", "complete", "fail"}]
    BY <2>0
  <2> QED
    BY <2>1, <2>2, <2>3, <1>7 DEF SB!ExecuteTableScript
<1>8. ASSUME SB!UpdateCompleted(i) PROVE SB!TypeOK'
  <2>1. b_row' \in [status : {"NONE", "IN_PROGRESS", "COMPLETED", "FAILED"}, hash : Hashes \cup {"none"}]
    BY <1>0, <1>8 DEF SB!UpdateCompleted
  <2>2. /\ b_pc' \in [Instances -> {"off", "read", "ensure", "reread", "insert", "raced", "run", "complete", "fail"}]
        /\ b_result' \in [Instances -> {"none", "applied", "skipped", "threw"}]
    BY <1>8, Zenon DEF SB!UpdateCompleted
  <2> QED
    BY <2>1, <2>2, <1>8 DEF SB!UpdateCompleted
<1>9. ASSUME SB!UpdateFailed(i) PROVE SB!TypeOK'
  BY <1>9 DEF SB!UpdateFailed
<1> QED
  BY <1>1, <1>2, <1>3, <1>4, <1>5, <1>6, <1>7, <1>8, <1>9

(* A step that leaves the row, the scripts and the bookkeeping of the        *)
(* instances alone, takes an instance to a place outside the ownership and   *)
(* returns in peace only for a completed row with its hash.                  *)
Quiet(i) ==
  /\ b_pc[i] \in Asking
  /\ UNCHANGED <<b_row, b_ran, b_okHash, b_next, b_manifestHash>>
  /\ \E to \in {"off", "ensure", "reread", "insert", "raced"} : b_pc' = [b_pc EXCEPT ![i] = to]
  /\ \/ UNCHANGED b_result
     \/ \E r \in {"none", "applied", "skipped", "threw"} :
          /\ b_result' = [b_result EXCEPT ![i] = r]
          /\ r \in Accepted => b_row.status = "COMPLETED" /\ b_row.hash = b_manifestHash[i]

(* Such a step keeps the invariant. *)
LEMMA QuietStep == ASSUME BootInv, SB!TypeOK', NEW i \in Instances, Quiet(i) PROVE BootInv'
<1>1. \A j \in Instances : b_pc'[j] \in Owning => b_pc'[j] = b_pc[j] /\ j # i
  BY DEF Quiet, Owning, BootInv, SB!TypeOK
<1>2. \A j \in Instances : b_result'[j] \in Accepted =>
        \/ b_result[j] \in Accepted
        \/ j = i /\ b_row.status = "COMPLETED" /\ b_row.hash = b_manifestHash[i]
  BY DEF Quiet, Accepted, BootInv, SB!TypeOK
<1>3. Untouched'
  BY <1>1, <1>2 DEF Quiet, BootInv, Untouched, SB!NoRow, Owning
<1>4. OneOwner'
  BY <1>1 DEF BootInv, OneOwner
<1>5. ASSUME NEW j \in Instances PROVE Working(j)'
  BY <1>1, <1>2 DEF Quiet, BootInv, Working, Owning, Asking, SB!TypeOK
<1>6. Completed' /\ SB!ScriptsRunOnce'
  BY DEF Quiet, BootInv, Completed, SB!ScriptsRunOnce
<1>7. SB!ReturnTrustworthy'
  BY <1>2 DEF Quiet, BootInv, SB!ReturnTrustworthy, Completed, Accepted
<1> QED
  BY <1>3, <1>4, <1>5, <1>6, <1>7 DEF BootInv

(* A step that takes an instance out of whatever it did, to its start or its *)
(* end, without a word to its caller and without touching the database.      *)
Away(i) ==
  /\ UNCHANGED <<b_row, b_ran, b_okHash>>
  /\ \/ b_pc' = [b_pc EXCEPT ![i] = "off"]
     \/ b_pc' = [b_pc EXCEPT ![i] = "read"] /\ b_next'[i] = 1
  /\ b_result' = [b_result EXCEPT ![i] = "none"]
  /\ \A j \in Instances \ {i} : b_next'[j] = b_next[j] /\ b_manifestHash'[j] = b_manifestHash[j]

(* Such a step keeps the invariant. *)
LEMMA AwayStep == ASSUME BootInv, SB!TypeOK', NEW i \in Instances, Away(i) PROVE BootInv'
<1>1. /\ b_pc'[i] \in {"off", "read"} /\ b_result'[i] = "none"
      /\ b_pc'[i] = "read" => b_next'[i] = 1
      /\ \A j \in Instances \ {i} : b_pc'[j] = b_pc[j] /\ b_result'[j] = b_result[j]
  BY DEF Away, BootInv, SB!TypeOK
<1>2. Untouched'
  BY <1>1 DEF Away, BootInv, Untouched, SB!NoRow, Owning, Accepted
<1>3. OneOwner'
  BY <1>1 DEF BootInv, OneOwner, Owning
<1>4. \A j \in Instances : b_result'[j] \in Accepted => b_result[j] \in Accepted
  BY <1>1 DEF Accepted
<1>5. ASSUME NEW j \in Instances, j # i PROVE Working(j)'
  <2>1. Working(j) /\ UNCHANGED <<b_row, b_ran, b_okHash>>
    BY DEF BootInv, Away
  <2>2. b_pc'[j] = b_pc[j] /\ b_next'[j] = b_next[j] /\ b_manifestHash'[j] = b_manifestHash[j]
    BY <1>1, <1>5 DEF Away
  <2> QED
    BY <1>4, <2>1, <2>2 DEF Working
<1>6. Working(i)'
  BY <1>1 DEF Working, Asking
<1>7. Completed' /\ SB!ScriptsRunOnce'
  BY DEF Away, BootInv, Completed, SB!ScriptsRunOnce
<1>8. SB!ReturnTrustworthy'
  BY <1>1 DEF Away, BootInv, SB!ReturnTrustworthy
<1> QED
  BY <1>2, <1>3, <1>5, <1>6, <1>7, <1>8 DEF BootInv

(* Every statement of every instance, and every crash, keeps the invariant:  *)
(* only the owner touches scripts and row, and it leaves "run" and           *)
(* "complete" for good before anyone can trust the row.                      *)
LEMMA BootStep == ASSUME Scripts \in Nat \ {0} PROVE BootInv /\ [SB!Next]_(SB!vars) => BootInv'
<1> SUFFICES ASSUME BootInv, [SB!Next]_(SB!vars) PROVE BootInv'
  OBVIOUS
<1>1. CASE UNCHANGED (SB!vars)
  BY <1>1 DEF BootInv, SB!vars, SB!TypeOK, Untouched, OneOwner, Working, Completed, SB!ScriptsRunOnce, SB!ReturnTrustworthy
<1>2. CASE SB!Next
  <2>0. PICK i \in Instances :
          \/ SB!Start(i) \/ SB!Crash(i) \/ SB!TryReadBootstrapState(i) \/ SB!EnsureBootstrapStateTable(i)
          \/ SB!InsertBootstrapState(i) \/ SB!ReadRacedState(i) \/ SB!ExecuteTableScript(i)
          \/ SB!UpdateCompleted(i) \/ SB!UpdateFailed(i)
    BY <1>2 DEF SB!Next
  <2>t. SB!TypeOK'
    BY <2>0, BootTypes DEF BootInv, Working
  <2>1. CASE SB!Start(i)
    <3>1. Away(i)
      BY <2>1 DEF SB!Start, Away, BootInv, SB!TypeOK, SB!db
    <3> QED
      BY <2>t, <3>1, AwayStep
  <2>2. CASE SB!Crash(i)
    <3>1. Away(i)
      BY <2>2 DEF SB!Crash, SB!Return, Away, BootInv, SB!TypeOK, SB!db
    <3> QED
      BY <2>t, <3>1, AwayStep
  <2>i. /\ SB!TypeOK /\ Untouched /\ OneOwner /\ (\A j \in Instances : Working(j)) /\ Completed
        /\ SB!ScriptsRunOnce /\ SB!ReturnTrustworthy
    BY DEF BootInv
  <2>3. CASE SB!TryReadBootstrapState(i)
    <3>1. Quiet(i)
      BY <2>3 DEF SB!TryReadBootstrapState, Quiet, Asking, Accepted, SB!Goto, SB!Return, SB!Throw, SB!Trust, SB!db
    <3> QED
      BY <2>t, <3>1, QuietStep
  <2>4. CASE SB!EnsureBootstrapStateTable(i)
    <3>1. Quiet(i)
      BY <2>4 DEF SB!EnsureBootstrapStateTable, Quiet, Asking, Accepted, SB!Goto, SB!Return, SB!Throw
    <3> QED
      BY <2>t, <3>1, QuietStep
  <2>5. CASE SB!InsertBootstrapState(i)
    <3>1. CASE b_row' = b_row
      <4>1. Quiet(i)
        BY <2>5, <3>1 DEF SB!InsertBootstrapState, Quiet, Asking, Accepted, SB!Goto, SB!Return, SB!Throw, SB!Row, SB!NoRow
      <4> QED
        BY <2>t, <4>1, QuietStep
    <3>2. CASE b_row' # b_row
      <4>1. /\ b_row = SB!NoRow /\ b_row' = SB!Row("IN_PROGRESS", b_manifestHash[i])
            /\ UNCHANGED <<b_ran, b_okHash, b_next, b_manifestHash>>
            /\ \E to \in {"run", "off"} : b_pc' = [b_pc EXCEPT ![i] = to]
            /\ b_result' = b_result \/ b_result' = [b_result EXCEPT ![i] = "threw"]
        BY <2>5, <3>2 DEF SB!InsertBootstrapState, SB!Goto, SB!Return, SB!Throw
      <4>2. \A j \in Instances : b_result'[j] \notin Accepted
        BY <2>i, <4>1 DEF Untouched, Accepted, SB!TypeOK
      <4>3. \A j \in Instances : b_pc'[j] \in Owning => j = i /\ b_pc'[i] = "run"
        BY <2>i, <4>1 DEF Untouched, Owning, SB!TypeOK
      <4>4. Untouched' /\ OneOwner' /\ Completed'
        BY <4>1, <4>3 DEF Untouched, OneOwner, Completed, SB!Row, SB!NoRow
      <4>5. ASSUME NEW j \in Instances PROVE Working(j)'
        BY <2>5, <2>i, <4>1, <4>2, <4>3
           DEF SB!InsertBootstrapState, Untouched, Working, Asking, Owning, SB!TypeOK, SB!Row
      <4>6. SB!ScriptsRunOnce' /\ SB!ReturnTrustworthy'
        BY <2>i, <4>1, <4>2 DEF SB!ScriptsRunOnce, SB!ReturnTrustworthy, Accepted
      <4> QED
        BY <2>t, <4>4, <4>5, <4>6 DEF BootInv
    <3> QED
      BY <3>1, <3>2
  <2>6. CASE SB!ReadRacedState(i)
    <3>1. Quiet(i)
      BY <2>6 DEF SB!ReadRacedState, Quiet, Asking, Accepted, SB!Goto, SB!Return, SB!Throw, SB!Trust, SB!db
    <3> QED
      BY <2>t, <3>1, QuietStep
  <2>7. CASE SB!ExecuteTableScript(i)
    <3>1. /\ b_pc[i] = "run" /\ b_next[i] \in 1..Scripts
          /\ b_ran' = [b_ran EXCEPT ![b_next[i]] = b_ran[b_next[i]] + 1]
          /\ UNCHANGED <<b_row, b_manifestHash, b_result>>
      BY <2>7, <2>i DEF SB!ExecuteTableScript, SB!Goto, Working
    <3>2. \E to \in Owning : b_pc' = [b_pc EXCEPT ![i] = to]
      BY <2>7 DEF SB!ExecuteTableScript, SB!Goto, Owning
    <3>3. b_row.status = "IN_PROGRESS" /\ \A j \in Instances : b_result[j] \notin Accepted
      BY <2>i, <3>1 DEF Working
    <3>4. \A s \in 1..Scripts : s >= b_next[i] => b_ran[s] = 0
      BY <2>i, <3>1 DEF Working, SB!TypeOK
    <3>5. Untouched' /\ OneOwner' /\ Completed' /\ SB!ReturnTrustworthy'
      <4>1. b_row' = b_row /\ b_row # SB!NoRow
        BY <3>1, <3>3 DEF SB!NoRow
      <4>2. \A j \in Instances : b_pc'[j] \in Owning => b_pc[j] \in Owning
        BY <2>i, <3>1, <3>2 DEF Owning, SB!TypeOK
      <4> QED
        BY <2>i, <3>1, <3>3, <4>1, <4>2
           DEF Untouched, OneOwner, Completed, SB!ReturnTrustworthy, SB!NoRow, Accepted
    <3>6. SB!ScriptsRunOnce'
      BY <2>i, <3>1, <3>4 DEF SB!ScriptsRunOnce, SB!TypeOK
    <3>7. Working(i)'
      BY <2>7, <2>t, <2>i, <3>1, <3>3, <3>4, SMTT(20) DEF SB!ExecuteTableScript, SB!Goto, Working, Asking, SB!TypeOK
    <3>8. ASSUME NEW j \in Instances, j # i PROVE Working(j)'
      <4>1. b_pc'[j] = b_pc[j] /\ b_pc[j] \notin Owning /\ b_next'[j] = b_next[j]
        BY <2>7, <2>i, <3>1, <3>8 DEF SB!ExecuteTableScript, SB!Goto, OneOwner, Owning, SB!TypeOK
      <4> QED
        BY <2>i, <4>1 DEF Working, Owning, Asking
    <3>9. \A j \in Instances : Working(j)'
      BY <3>7, <3>8
    <3> QED
      BY <2>t, <3>5, <3>6, <3>9 DEF BootInv
  <2>8. CASE SB!UpdateCompleted(i)
    <3>1. /\ b_pc[i] = "complete" /\ UNCHANGED <<b_ran, b_okHash, b_next, b_manifestHash>>
          /\ b_row' = b_row \/ b_row' = SB!Row("COMPLETED", b_manifestHash[i])
          /\ \E to \in {"off", "fail"} : b_pc' = [b_pc EXCEPT ![i] = to]
          /\ b_result' = b_result \/ b_result' = [b_result EXCEPT ![i] = "applied"]
      BY <2>8 DEF SB!UpdateCompleted, SB!Goto, SB!Return
    <3>2. /\ \A s \in 1..Scripts : b_okHash[s] = b_manifestHash[i]
          /\ b_row.status = "IN_PROGRESS" /\ \A j \in Instances : b_result[j] \notin Accepted
      BY <2>i, <3>1 DEF Working
    <3>3. \A j \in Instances : b_pc'[j] \in Owning => j = i /\ b_pc'[i] = "fail"
      BY <2>i, <3>1 DEF OneOwner, Owning, SB!TypeOK
    <3>4. Untouched' /\ OneOwner' /\ Completed' /\ SB!ScriptsRunOnce'
      <4>1. b_row # SB!NoRow /\ b_row' # SB!NoRow
        BY <3>1, <3>2 DEF SB!Row, SB!NoRow
      <4> QED
        BY <2>i, <3>1, <3>2, <3>3, <4>1 DEF Untouched, OneOwner, Completed, SB!ScriptsRunOnce, SB!Row
    <3>5. ASSUME NEW j \in Instances PROVE Working(j)'
      BY <2>i, <3>1, <3>3 DEF Working, Owning, Asking, SB!TypeOK
    <3>6. SB!ReturnTrustworthy'
      BY <2>i, <3>1, <3>2 DEF SB!ReturnTrustworthy, Accepted, SB!TypeOK
    <3> QED
      BY <2>t, <3>4, <3>5, <3>6 DEF BootInv
  <2>9. CASE SB!UpdateFailed(i)
    <3>1. /\ b_pc[i] = "fail" /\ b_row' \in {b_row, SB!Row("FAILED", b_manifestHash[i])}
          /\ UNCHANGED <<b_ran, b_okHash, b_next, b_manifestHash>>
          /\ b_pc' = [b_pc EXCEPT ![i] = "off"] /\ b_result' = [b_result EXCEPT ![i] = "threw"]
      BY <2>9 DEF SB!UpdateFailed, SB!Throw, SB!Return
    <3>2. \A j \in Instances : b_pc'[j] \notin Owning /\ (b_result'[j] \in Accepted => b_result[j] \in Accepted)
      BY <2>i, <3>1 DEF OneOwner, Owning, Accepted, SB!TypeOK
    <3>3. Untouched' /\ OneOwner' /\ Completed' /\ SB!ScriptsRunOnce'
      <4>1. b_row # SB!NoRow /\ b_row' # SB!NoRow
        BY <2>i, <3>1 DEF Untouched, Owning, SB!Row, SB!NoRow
      <4> QED
        BY <2>i, <3>1, <3>2, <4>1 DEF Untouched, OneOwner, Completed, SB!ScriptsRunOnce, SB!Row
    <3>4. ASSUME NEW j \in Instances PROVE Working(j)'
      BY <2>i, <3>1, <3>2 DEF Working, Owning, Asking, SB!TypeOK
    <3>5. SB!ReturnTrustworthy'
      BY <2>i, <3>1 DEF SB!ReturnTrustworthy, SB!TypeOK
    <3> QED
      BY <2>t, <3>3, <3>4, <3>5 DEF BootInv
  <2> QED
    BY <2>0, <2>1, <2>2, <2>3, <2>4, <2>5, <2>6, <2>7, <2>8, <2>9
<1> QED
  BY <1>1, <1>2

(* What the inductive invariant says holds throughout. *)
LEMMA BootSafe == SB!Spec => []BootInv
  BY BootInit, BootStep, ScriptsAssumption, PTL DEF SB!Spec

(* However many instances start together, crash, lose answers and start      *)
(* again, no table script is executed twice.                                 *)
THEOREM BootstrapOnce == SB!Spec => []ScriptsRunOnce
<1>1. BootInv => ScriptsRunOnce
  BY DEF BootInv, ScriptsRunOnce
<1> QED
  BY <1>1, BootSafe, PTL

(* An instance that returns without an exception finds every script executed *)
(* with success under its own manifest hash.                                 *)
THEOREM BootstrapTrust == SB!Spec => []ReturnTrustworthy
<1>1. BootInv => ReturnTrustworthy
  BY DEF BootInv, ReturnTrustworthy
<1> QED
  BY <1>1, BootSafe, PTL

(***************************************************************************)
(* ConnectionPool: any set of clients, any finite set of connections and   *)
(* any pool size                                                           *)
(***************************************************************************)

(* The pool counts with the operator of its own FiniteSets. *)
LEMMA SameCount == \A S : PT!Cardinality(S) = Cardinality(S)
  BY DEF PT!Cardinality, Cardinality

(* The pool owns what is open: an entry for every open connection and none   *)
(* for a closed one, every leased one among them, and nothing at all before  *)
(* Initialize and after Shutdown, when a client still inside GetConnection   *)
(* finds no backend to connect with.                                         *)
Entries ==
  /\ p_open = p_mConnections /\ p_mInUse \subseteq p_mConnections /\ p_mConnections \subseteq p_created
  /\ p_mInitialized <=> p_spc \in {"up", "drain"}
  /\ p_spc \in {"new", "down"} => p_mConnections = {}
  /\ p_mInitialized \/ (p_spc = "down" /\ ~p_mDatabase) \/ \A k \in Clients : p_cpc[k] = "idle"
  /\ \A k \in Clients : p_lease[k] # PT!NoConn <=> p_cpc[k] = "leased"

PoolInv == PT!PoolTypeOK /\ Entries /\ PT!LeaseExact

(* The pool starts empty and nobody leases. *)
LEMMA PoolStart == ASSUME CountFacts, PT!PoolInit PROVE PoolInv
<1>1. Cardinality({}) = 0
  BY Zenon DEF CountFacts, CountsFew
<1> QED
  BY <1>1, SameCount, Zenon DEF PT!PoolInit, PoolInv, PT!PoolTypeOK, Entries, PT!LeaseExact, PT!NoConn

(* A client leases a connection that is open, in the pool and not marked. *)
LEMMA LeaseStep ==
  ASSUME CountFacts, IsFiniteSet(Conns), PT!NoConn \notin Conns, PoolInv, p_mInitialized,
         NEW k \in Clients, NEW c \in Conns, p_cpc[k] # "leased", PT!Lease(k, c),
         c \notin p_mInUse, \A l \in Clients : p_lease[l] # c,
         p_mConnections' = p_mConnections \cup {c}, p_open' = p_open \cup {c},
         p_created \subseteq p_created', c \in p_created', p_created' \subseteq Conns,
         UNCHANGED <<p_mInitialized, p_mDatabase, p_spc>>
  PROVE  PoolInv'
<1>1. PT!PoolTypeOK'
  BY DEF PT!Lease, PoolInv, PT!PoolTypeOK
<1>2. Entries'
  BY DEF PT!Lease, PoolInv, PT!PoolTypeOK, Entries
<1>3. p_mActiveConnections' = Cardinality(p_mInUse)'
  <2>1. IsFiniteSet(p_mInUse)
    BY DEF PoolInv, PT!PoolTypeOK, CountFacts, CountsPart
  <2>2. Cardinality(p_mInUse \cup {c}) = Cardinality(p_mInUse) + 1
    BY <2>1, Zenon DEF CountFacts, CountsAdd
  <2> QED
    BY <2>2, SameCount DEF PT!Lease, PoolInv, PT!LeaseExact
<1>4. \A l, m \in Clients : p_lease'[l] = p_lease'[m] /\ p_lease'[l] # PT!NoConn => l = m
  BY DEF PT!Lease, PoolInv, PT!PoolTypeOK, PT!LeaseExact
<1>5. \A l \in Clients : p_lease'[l] # PT!NoConn => p_lease'[l] \in p_mInUse' \cap p_mConnections' \cap p_open'
  BY DEF PT!Lease, PoolInv, PT!PoolTypeOK, PT!LeaseExact
<1>6. \A d \in p_mInUse' : \E l \in Clients : p_lease'[l] = d
  <2> SUFFICES ASSUME NEW d \in p_mInUse' PROVE \E l \in Clients : p_lease'[l] = d
    OBVIOUS
  <2>1. CASE d = c
    <3>1. p_lease'[k] = d
      BY <2>1 DEF PT!Lease, PoolInv, PT!PoolTypeOK
    <3> QED
      BY <3>1
  <2>2. CASE d # c
    <3>1. PICK l \in Clients : p_lease[l] = d
      BY <2>2 DEF PT!Lease, PoolInv, PT!LeaseExact
    <3>2. p_lease[k] = PT!NoConn /\ d # PT!NoConn
      BY <2>2 DEF PT!Lease, PoolInv, PT!PoolTypeOK, Entries
    <3>3. p_lease'[l] = d
      BY <3>1, <3>2 DEF PT!Lease, PoolInv, PT!PoolTypeOK
    <3> QED
      BY <3>3
  <2> QED
    BY <2>1, <2>2
<1> QED
  BY <1>1, <1>2, <1>3, <1>4, <1>5, <1>6, SameCount DEF PoolInv, PT!LeaseExact

(* A client moves inside GetConnection, or leaves it with an exception. *)
LEMMA MoveStep ==
  ASSUME PoolInv, NEW k \in Clients, p_cpc[k] # "leased", NEW to \in {"idle", "lock", "wait"},
         p_cpc' = [p_cpc EXCEPT ![k] = to], to = "idle" \/ p_mInitialized,
         UNCHANGED <<PT!pool, p_lease, p_mInitialized, p_mDatabase, p_spc>>
  PROVE  PoolInv'
<1>1. PT!PoolTypeOK'
  BY DEF PoolInv, PT!PoolTypeOK, PT!pool
<1>2. Entries'
  BY DEF PoolInv, PT!PoolTypeOK, Entries, PT!pool
<1>3. PT!LeaseExact'
  BY DEF PoolInv, PT!LeaseExact, PT!pool
<1> QED
  BY <1>1, <1>2, <1>3 DEF PoolInv

(* A client gets an idle connection, a new one, or the exception.  After     *)
(* Shutdown only the exception is left.                                      *)
LEMMA TakeStep ==
  ASSUME CountFacts, IsFiniteSet(Conns), PT!NoConn \notin Conns, PoolInv, NEW k \in Clients, p_cpc[k] \in {"lock", "wait"},
         PT!Take(k), UNCHANGED <<p_mInitialized, p_mDatabase, p_spc>>
  PROVE  PoolInv'
<1>1. ~p_mInitialized => PT!Idle = {} /\ ~p_mDatabase
  BY DEF PoolInv, PT!PoolTypeOK, Entries, PT!Idle
<1>2. CASE PT!Throw(k)
  <2>1. PoolInv'
    BY <1>2, MoveStep, Zenon DEF PT!Throw, PT!pool
  <2> QED
    BY <2>1
<1>3. ASSUME NEW c \in PT!Idle, PT!Lease(k, c), UNCHANGED <<p_mConnections, p_open, p_created>> PROVE PoolInv'
  <2>1. p_mInitialized
    BY <1>1, <1>3
  <2>2. c \in p_mConnections /\ c \notin p_mInUse /\ c \in Conns /\ c \in p_created
    BY <1>3 DEF PT!Idle, PoolInv, PT!PoolTypeOK, Entries
  <2>3. \A l \in Clients : p_lease[l] # c
    BY <2>1, <2>2 DEF PoolInv, PT!LeaseExact, PT!NoConn
  <2>4. p_mConnections' = p_mConnections \cup {c} /\ p_open' = p_open \cup {c} /\ p_created' \subseteq Conns
    BY <1>3, <2>2 DEF PoolInv, PT!PoolTypeOK, Entries
  <2> QED
    BY <1>3, <2>1, <2>2, <2>3, <2>4, LeaseStep
<1>4. ASSUME NEW c \in Conns \ p_created, p_mDatabase, p_created' = p_created \cup {c}, p_open' = p_open \cup {c},
             p_mConnections' = p_mConnections \cup {c}, PT!Lease(k, c)
      PROVE  PoolInv'
  <2>1. p_mInitialized
    BY <1>1, <1>4
  <2>2. c \notin p_mInUse /\ p_created' \subseteq Conns
    BY <1>4 DEF PoolInv, PT!PoolTypeOK, Entries
  <2>3. \A l \in Clients : p_lease[l] # c
    BY <2>1, <2>2 DEF PoolInv, PT!LeaseExact, PT!NoConn
  <2> QED
    BY <1>4, <2>1, <2>2, <2>3, LeaseStep
<1> QED
  BY <1>2, <1>3, <1>4 DEF PT!Take, PT!CreateNewConnection

(* A client gives its connection back; after Shutdown it is dropped. *)
LEMMA ReturnStep ==
  ASSUME CountFacts, IsFiniteSet(Conns), PT!NoConn \notin Conns, PoolInv, NEW k \in Clients, PT!ReturnConnection(k)
  PROVE  PoolInv'
<1>0. p_lease[k] # PT!NoConn /\ p_lease[k] \in Conns
  BY DEF PT!ReturnConnection, PoolInv, PT!PoolTypeOK, Entries
<1>1. CASE p_mInitialized
  <2>0. p_lease[k] \in p_mInUse \cap p_mConnections
    BY <1>0, <1>1 DEF PoolInv, PT!LeaseExact
  <2>1. p_mInUse' = p_mInUse \ {p_lease[k]} /\ p_mActiveConnections' = p_mActiveConnections - 1
    BY <2>0 DEF PT!ReturnConnection
  <2>2. IsFiniteSet(p_mInUse)
    BY DEF PoolInv, PT!PoolTypeOK, CountFacts, CountsPart
  <2>3. Cardinality(p_mInUse \ {p_lease[k]}) = Cardinality(p_mInUse) - 1
    BY <2>0, <2>2, Zenon DEF CountFacts, CountsRemove
  <2>4. p_mActiveConnections' = Cardinality(p_mInUse)' /\ p_mActiveConnections' \in Nat
    <3>1. IsFiniteSet(p_mInUse \ {p_lease[k]})
      BY <2>2 DEF CountFacts, CountsRemove
    <3>2. Cardinality(p_mInUse \ {p_lease[k]}) \in Nat
      BY <3>1 DEF CountFacts, CountsType
    <3> QED
      BY <2>1, <2>3, <3>2, SameCount DEF PoolInv, PT!LeaseExact
  <2>5. PT!PoolTypeOK'
    BY <2>1, <2>4 DEF PT!ReturnConnection, PoolInv, PT!PoolTypeOK
  <2>6. Entries'
    BY <2>1 DEF PT!ReturnConnection, PoolInv, PT!PoolTypeOK, Entries
  <2>7. \A l \in Clients : p_lease'[l] # PT!NoConn => l # k /\ p_lease'[l] = p_lease[l] /\ p_lease[l] # p_lease[k]
    BY <1>0 DEF PT!ReturnConnection, PoolInv, PT!PoolTypeOK, PT!LeaseExact
  <2>8. /\ \A l, m \in Clients : p_lease'[l] = p_lease'[m] /\ p_lease'[l] # PT!NoConn => l = m
        /\ \A l \in Clients : p_lease'[l] # PT!NoConn => p_lease'[l] \in p_mInUse' \cap p_mConnections' \cap p_open'
    BY <1>1, <2>1, <2>7 DEF PT!ReturnConnection, PoolInv, PT!LeaseExact
  <2>9. ASSUME NEW c \in p_mInUse' PROVE \E l \in Clients : p_lease'[l] = c
    <3>1. PICK l \in Clients : p_lease[l] = c
      BY <2>1 DEF PoolInv, PT!LeaseExact
    <3>2. l # k
      BY <2>1, <3>1
    <3>3. p_lease'[l] = c
      BY <3>1, <3>2 DEF PT!ReturnConnection, PoolInv, PT!PoolTypeOK
    <3> QED
      BY <3>3
  <2> QED
    BY <2>4, <2>5, <2>6, <2>8, <2>9, SameCount DEF PoolInv, PT!LeaseExact
<1>2. CASE ~p_mInitialized
  <2>1. p_mConnections = {} /\ p_mInUse = {}
    BY <1>2 DEF PoolInv, PT!PoolTypeOK, Entries
  <2>2. p_mInUse' = p_mInUse /\ p_mActiveConnections' = p_mActiveConnections
    BY <2>1 DEF PT!ReturnConnection
  <2>3. PT!PoolTypeOK'
    BY <2>2 DEF PT!ReturnConnection, PoolInv, PT!PoolTypeOK
  <2>4. Entries'
    BY <2>2 DEF PT!ReturnConnection, PoolInv, PT!PoolTypeOK, Entries
  <2>5. PT!LeaseExact'
    BY <1>2, <2>1, <2>2 DEF PT!ReturnConnection, PoolInv, PT!PoolTypeOK, PT!LeaseExact
  <2> QED
    BY <2>3, <2>4, <2>5 DEF PoolInv
<1> QED
  BY <1>1, <1>2

(* Initialize, Clear and Shutdown keep the invariant: Clear spares what is   *)
(* leased, and Shutdown without leases has nothing to spare.                 *)
LEMMA OwnerStep ==
  ASSUME CountFacts, IsFiniteSet(Conns), PoolInv, PT!Owner
  PROVE  PoolInv'
<1>1. CASE PT!Initialize
  <2>1. p_mInUse = {} /\ ~p_mInitialized /\ \A k \in Clients : p_cpc[k] = "idle" /\ p_lease[k] = PT!NoConn
    BY <1>1 DEF PT!Initialize, PoolInv, PT!PoolTypeOK, Entries
  <2>2. PT!PoolTypeOK'
    BY <1>1, Zenon DEF PT!Initialize, PoolInv, PT!PoolTypeOK
  <2>3. Entries'
    BY <1>1, <2>1 DEF PT!Initialize, Entries, PoolInv, PT!PoolTypeOK
  <2>4. PT!LeaseExact'
    BY <1>1, <2>1 DEF PT!Initialize, PoolInv, PT!LeaseExact
  <2> QED
    BY <2>2, <2>3, <2>4 DEF PoolInv
<1>2. CASE PT!Clear
  BY <1>2 DEF PT!Clear, PoolInv, PT!PoolTypeOK, Entries, PT!LeaseExact
<1>3. CASE PT!Shutdown
  BY <1>3 DEF PT!Shutdown, PT!pool, PoolInv, PT!PoolTypeOK, Entries, PT!LeaseExact
<1>4. CASE PT!Shutdown_Close
  <2>1. p_mInUse' = {} /\ p_mConnections' = {} /\ p_open' = {} /\ p_mActiveConnections' = 0
    <3>1. CASE p_mActiveConnections > 0
      BY <1>4, <3>1 DEF PT!Shutdown_Close, PoolInv, Entries
    <3>2. CASE ~(p_mActiveConnections > 0)
      <4>1. IsFiniteSet(p_mInUse) /\ Cardinality(p_mInUse) = 0
        BY <3>2, SameCount DEF PoolInv, PT!PoolTypeOK, PT!LeaseExact, CountFacts, CountsPart
      <4>2. p_mInUse = {}
        BY <4>1 DEF CountFacts, CountsType
      <4> QED
        BY <1>4, <3>2, <4>2 DEF PT!Shutdown_Close, PoolInv, PT!PoolTypeOK, Entries
    <3> QED
      BY <3>1, <3>2
  <2>2. Cardinality({}) = 0
    BY Zenon DEF CountFacts, CountsFew
  <2> QED
    BY <1>4, <2>1, <2>2, SameCount, Zenon DEF PT!Shutdown_Close, PoolInv, PT!PoolTypeOK, Entries, PT!LeaseExact
<1> QED
  BY <1>1, <1>2, <1>3, <1>4 DEF PT!Owner

(* Every step of the clients and of the owner keeps the invariant. *)
LEMMA PoolStep ==
  ASSUME CountFacts, IsFiniteSet(Conns), PT!NoConn \notin Conns
  PROVE  PoolInv /\ [PT!PoolNext]_(PT!poolVars) => PoolInv'
<1> SUFFICES ASSUME PoolInv, [PT!PoolNext]_(PT!poolVars) PROVE PoolInv'
  OBVIOUS
<1>1. ASSUME NEW k \in Clients, PT!Client(k) PROVE PoolInv'
  <2>1. CASE PT!GetConnection(k)
    BY <2>1, MoveStep, Zenon DEF PT!GetConnection
  <2>2. CASE PT!GetConnection_Lock(k)
    <3>1. CASE PT!Take(k)
      BY <2>2, <3>1, TakeStep DEF PT!GetConnection_Lock
    <3>2. CASE PT!Throw(k)
      BY <2>2, <3>2, MoveStep, Zenon DEF PT!GetConnection_Lock, PT!Throw
    <3>3. CASE p_mInitialized /\ p_cpc' = [p_cpc EXCEPT ![k] = "wait"] /\ UNCHANGED <<PT!pool, p_lease>>
      BY <2>2, <3>3, MoveStep, Zenon DEF PT!GetConnection_Lock
    <3> QED
      BY <2>2, <3>1, <3>2, <3>3 DEF PT!GetConnection_Lock
  <2>3. CASE PT!GetConnection_Wake(k)
    BY <2>3, TakeStep DEF PT!GetConnection_Wake
  <2>4. CASE PT!GetConnection_Timeout(k)
    BY <2>4, MoveStep, Zenon DEF PT!GetConnection_Timeout, PT!Throw
  <2> QED
    BY <1>1, <2>1, <2>2, <2>3, <2>4 DEF PT!Client
<1>2. CASE UNCHANGED (PT!poolVars)
  BY <1>2 DEF PT!poolVars, PoolInv, PT!PoolTypeOK, Entries, PT!LeaseExact
<1> QED
  BY <1>1, <1>2, ReturnStep, OwnerStep DEF PT!PoolNext

(***************************************************************************)
(* PooledTransactions: the transactions of any clients of that pool        *)
(***************************************************************************)
(* The places of a login between its BEGIN and its end. *)
Inside == {"first", "second", "commit", "rollback"}

WorkTypeOK ==
  /\ p_wpc \in [Clients -> {"start", "done"} \cup Inside]
  /\ p_result \in [Clients -> {"none", "saved", "failed"}]
  /\ p_inTxn \subseteq Conns /\ p_uncommitted \in [PT!Handles -> SUBSET (Clients \X {1, 2})]

(* A login in the middle of its transaction leases the connection the        *)
(* transaction is open on, unless the connection has broken or was closed,   *)
(* and what is uncommitted there is what it has written so far.              *)
OwnTxn(k) ==
  /\ p_wpc[k] \in Inside => k \in Logins /\ p_cpc[k] = "leased"
  /\ p_wpc[k] \in Inside \ {"rollback"} /\ PT!Usable(k) => p_lease[k] \in p_inTxn
  /\ p_wpc[k] = "second" /\ PT!Usable(k) => p_uncommitted[p_lease[k]] = {<<k, 1>>}
  /\ p_wpc[k] = "first" /\ PT!Usable(k) => p_uncommitted[p_lease[k]] = {}
  /\ p_wpc[k] = "commit" /\ PT!Usable(k) => p_uncommitted[p_lease[k]] = {<<k, 1>>, <<k, 2>>}

(* A transaction is open only on an intact connection, for the login that      *)
(* leases it; elsewhere nothing is uncommitted.                              *)
TxnOwned ==
  /\ \A c \in p_inTxn : c \in p_open \ p_broken /\ \E k \in Clients : p_lease[k] = c /\ p_wpc[k] \in Inside
  /\ \A h \in PT!Handles \ p_inTxn : p_uncommitted[h] = {}

(* Both rows of a login or neither, and what was reported as saved. *)
Durable ==
  /\ \A k \in Logins : <<k, 1>> \in p_committed <=> <<k, 2>> \in p_committed
  /\ \A k \in Clients : p_result[k] = "saved" => <<k, 1>> \in p_committed

TxnInv == WorkTypeOK /\ (\A k \in Clients : OwnTxn(k)) /\ TxnOwned /\ Durable

(* No client has begun. *)
LEMMA TxnStart == PT!Init => TxnInv
  BY DEF PT!Init, TxnInv, WorkTypeOK, OwnTxn, TxnOwned, Durable, Inside

(* Connections that break or close take their transactions with them, and    *)
(* with private handles nothing else.                                        *)
LEMMA AbandonStep ==
  ASSUME TxnInv, NEW H, PT!Abandon(H), UNCHANGED <<p_wpc, p_result, p_cpc, p_lease>>,
         p_open' \ p_broken' \subseteq (p_open \ p_broken) \ H \/ \A k \in Clients : p_cpc[k] = "idle",
         p_open \ H \subseteq p_open', p_broken' \ p_broken \subseteq H
  PROVE  TxnInv'
<1>1. WorkTypeOK'
  BY DEF TxnInv, WorkTypeOK, PT!Abandon
<1>2. TxnOwned'
  BY DEF TxnInv, WorkTypeOK, TxnOwned, PT!Abandon
<1>3. ASSUME NEW k \in Clients PROVE OwnTxn(k)'
  <2>1. CASE p_wpc[k] \in Inside
    <3>1. PT!Usable(k)' => PT!Usable(k) /\ p_lease[k] \notin H
      BY <2>1, Zenon DEF TxnInv, OwnTxn, PT!Usable
    <3>2. PT!Usable(k)' /\ p_wpc[k] # "rollback" => p_lease[k] \in PT!Handles
      BY <2>1, <3>1, SMTT(20) DEF TxnInv, OwnTxn, WorkTypeOK, PT!Handles
    <3>3. PT!Usable(k)' /\ p_wpc[k] # "rollback" =>
            p_uncommitted'[p_lease[k]] = p_uncommitted[p_lease[k]]
      BY <3>1, <3>2, Zenon DEF PT!Abandon
    <3> QED
      BY <2>1, <3>1, <3>3, Zenon DEF TxnInv, OwnTxn, PT!Abandon, Inside
  <2>2. CASE p_wpc[k] \notin Inside
    BY <2>2 DEF OwnTxn, Inside
  <2> QED
    BY <2>1, <2>2
<1>4. Durable'
  BY DEF TxnInv, Durable, PT!Abandon
<1> QED
  BY <1>1, <1>2, <1>3, <1>4 DEF TxnInv

(* A client works on its own lease: the places, connections and uncommitted  *)
(* writes of the others stay, and so does what holds of them.                *)
LEMMA OthersKeep ==
  ASSUME PoolInv, TxnInv, NEW k \in Clients, p_cpc[k] = "leased",
         UNCHANGED <<p_open, p_cpc, p_lease>>, p_broken \subseteq p_broken',
         \A l \in Clients \ {k} : p_wpc'[l] = p_wpc[l],
         \A h \in PT!Handles \ {p_lease[k]} :
           p_uncommitted'[h] = p_uncommitted[h] /\ (h \in p_inTxn' <=> h \in p_inTxn)
  PROVE  \A l \in Clients \ {k} : OwnTxn(l)'
<1> SUFFICES ASSUME NEW l \in Clients \ {k} PROVE OwnTxn(l)'
  BY SMTT(20)
<1>1. CASE p_wpc[l] \in Inside
  <2>1. p_lease[l] # PT!NoConn /\ p_lease[l] \in Conns /\ p_lease[l] # p_lease[k]
    BY <1>1 DEF PoolInv, Entries, PT!PoolTypeOK, PT!LeaseExact, TxnInv, OwnTxn
  <2>2. /\ p_uncommitted'[p_lease[l]] = p_uncommitted[p_lease[l]]
        /\ p_lease[l] \in p_inTxn' <=> p_lease[l] \in p_inTxn
    BY <2>1 DEF PT!Handles
  <2>3. PT!Usable(l)' => PT!Usable(l)
    BY DEF PT!Usable
  <2>4. p_wpc'[l] = p_wpc[l] /\ p_cpc'[l] = p_cpc[l] /\ p_lease'[l] = p_lease[l]
    OBVIOUS
  <2> QED
    BY <2>2, <2>3, <2>4, SMTT(20) DEF TxnInv, OwnTxn
<1>2. CASE p_wpc[l] \notin Inside
  BY <1>2 DEF OwnTxn, Inside
<1> QED
  BY <1>1, <1>2
(* A step of a client on its lease: what it owes the invariant. *)
LEMMA ClientKeeps ==
  ASSUME PoolInv, TxnInv, NEW k \in Clients, p_cpc[k] = "leased",
         UNCHANGED <<p_open, p_cpc, p_lease>>, p_broken \subseteq p_broken',
         p_broken' \subseteq p_broken \cup {p_lease[k]},
         NEW to \in {"done"} \cup Inside, p_wpc' = [p_wpc EXCEPT ![k] = to],
         NEW W \in SUBSET (Clients \X {1, 2}), p_uncommitted' = [p_uncommitted EXCEPT ![p_lease[k]] = W],
         p_inTxn' \in {p_inTxn, p_inTxn \cup {p_lease[k]}, p_inTxn \ {p_lease[k]}},
         p_lease[k] \in p_inTxn' => p_lease[k] \in p_open \ p_broken' /\ to \in Inside,
         p_lease[k] \notin p_inTxn' => W = {},
         p_result' = p_result \/ \E r \in {"saved", "failed"} : p_result' = [p_result EXCEPT ![k] = r],
         OwnTxn(k)', Durable'
  PROVE  TxnInv'
<1>0. p_lease[k] \in Conns /\ p_lease[k] # PT!NoConn /\ p_lease[k] \in PT!Handles
  BY DEF PoolInv, PT!PoolTypeOK, Entries, PT!Handles
<1>1. WorkTypeOK'
  <2>1. p_wpc' \in [Clients -> {"start", "done"} \cup Inside]
    BY DEF TxnInv, WorkTypeOK
  <2>2. p_result' \in [Clients -> {"none", "saved", "failed"}]
    BY DEF TxnInv, WorkTypeOK
  <2>3. p_inTxn' \subseteq Conns /\ p_uncommitted' \in [PT!Handles -> SUBSET (Clients \X {1, 2})]
    BY <1>0 DEF TxnInv, WorkTypeOK
  <2> QED
    BY <2>1, <2>2, <2>3 DEF WorkTypeOK
<1>2. \A h \in PT!Handles \ {p_lease[k]} :
        p_uncommitted'[h] = p_uncommitted[h] /\ (h \in p_inTxn' <=> h \in p_inTxn)
  BY DEF TxnInv, WorkTypeOK
<1>3. \A l \in Clients \ {k} : p_wpc'[l] = p_wpc[l]
  BY DEF TxnInv, WorkTypeOK
<1>4. \A l \in Clients \ {k} : OwnTxn(l)'
  BY <1>2, <1>3, OthersKeep
<1>5. TxnOwned'
  <2>1. ASSUME NEW c \in p_inTxn' PROVE c \in p_open' \ p_broken' /\ \E l \in Clients : p_lease'[l] = c /\ p_wpc'[l] \in Inside
    <3>1. CASE c = p_lease[k]
      BY <3>1 DEF TxnInv, WorkTypeOK
    <3>2. CASE c # p_lease[k]
      <4>1. c \in p_inTxn
        BY <3>2
      <4>2. c \in p_open \ p_broken'
        BY <3>2, <4>1 DEF TxnInv, TxnOwned
      <4>3. PICK l \in Clients : p_lease[l] = c /\ p_wpc[l] \in Inside
        BY <4>1 DEF TxnInv, TxnOwned
      <4>4. l # k
        BY <3>2, <4>3
      <4> QED
        BY <1>3, <4>2, <4>3, <4>4
    <3> QED
      BY <3>1, <3>2
  <2>2. ASSUME NEW h \in PT!Handles \ p_inTxn' PROVE p_uncommitted'[h] = {}
    <3>1. CASE h = p_lease[k]
      BY <1>0, <3>1 DEF TxnInv, WorkTypeOK
    <3>2. CASE h # p_lease[k]
      BY <1>2, <3>2 DEF TxnInv, TxnOwned
    <3> QED
      BY <3>1, <3>2
  <2> QED
    BY <2>1, <2>2 DEF TxnOwned
<1> QED
  BY <1>1, <1>4, <1>5 DEF TxnInv

(* BEGIN on a connection without a transaction: its lessee is the only one   *)
(* who could have left one there.                                            *)
LEMMA FreshLease ==
  ASSUME PoolInv, TxnInv, NEW k \in Clients, p_cpc[k] = "leased", p_wpc[k] \notin Inside
  PROVE  p_lease[k] \notin p_inTxn /\ p_uncommitted[p_lease[k]] = {}
<1>0. p_lease[k] \in PT!Handles /\ p_lease[k] # PT!NoConn
  BY SMTT(20) DEF PoolInv, PT!PoolTypeOK, Entries, PT!Handles
<1>1. \A l \in Clients : p_lease[l] = p_lease[k] => l = k
  BY <1>0, Zenon DEF PoolInv, PT!LeaseExact
<1>2. p_lease[k] \notin p_inTxn
  BY <1>1, Zenon DEF TxnInv, TxnOwned
<1> QED
  BY <1>0, <1>2 DEF TxnInv, TxnOwned
(* A client that is in no transaction leases a connection, gives it back or  *)
(* moves inside GetConnection: the others keep their leases, and a new       *)
(* connection is none that one of them leases.                               *)
LEMMA LeaseKeeps ==
  ASSUME TxnInv, NEW k \in Clients, p_wpc[k] \notin Inside, UNCHANGED (PT!work), p_open \subseteq p_open',
         \A l \in Clients \ {k} :
           /\ p_lease'[l] = p_lease[l] /\ p_cpc'[l] = p_cpc[l]
           /\ p_cpc[l] = "leased" /\ p_lease[l] \in p_open' => p_lease[l] \in p_open
  PROVE  TxnInv'
<1>0. UNCHANGED <<p_wpc, p_result, p_inTxn, p_uncommitted, p_committed, p_broken>>
  BY DEF PT!work
<1>1. WorkTypeOK' /\ Durable'
  BY <1>0 DEF TxnInv, WorkTypeOK, Durable
<1>2. ASSUME NEW l \in Clients PROVE OwnTxn(l)'
  <2>1. CASE p_wpc[l] \in Inside
    <3>1. /\ l # k /\ p_cpc[l] = "leased" /\ p_lease'[l] = p_lease[l] /\ p_cpc'[l] = p_cpc[l]
      BY <2>1, Zenon DEF TxnInv, OwnTxn
    <3>2. PT!Usable(l)' => PT!Usable(l)
      BY <1>0, <3>1, Zenon DEF PT!Usable
    <3> QED
      BY <1>0, <3>1, <3>2, Zenon DEF TxnInv, OwnTxn
  <2>2. CASE p_wpc[l] \notin Inside
    BY <1>0, <2>2, SMTT(20) DEF OwnTxn, Inside
  <2> QED
    BY <2>1, <2>2
<1>3. TxnOwned'
  <2>1. ASSUME NEW c \in p_inTxn PROVE c \in p_open' \ p_broken /\ \E l \in Clients : p_lease'[l] = c /\ p_wpc[l] \in Inside
    <3>1. PICK l \in Clients : p_lease[l] = c /\ p_wpc[l] \in Inside
      BY <2>1, Zenon DEF TxnInv, TxnOwned
    <3>2. l # k /\ p_lease'[l] = c
      BY <3>1
    <3> QED
      BY <2>1, <3>1, <3>2, Zenon DEF TxnInv, TxnOwned
  <2> QED
    BY <1>0, <2>1, Zenon DEF TxnInv, TxnOwned
<1> QED
  BY <1>1, <1>2, <1>3 DEF TxnInv

(* GetConnection. *)
LEMMA AcquireStep == ASSUME PoolInv, TxnInv, NEW k \in Clients, PT!Acquire(k) PROVE TxnInv'
<1>1. p_lease \in [Clients -> Conns \cup {PT!NoConn}]
      /\ p_cpc \in [Clients -> {"idle", "lock", "wait", "leased"}]
  BY DEF PoolInv, PT!PoolTypeOK
<1>2. p_wpc[k] \notin Inside /\ UNCHANGED (PT!work) /\ PT!Client(k)
  BY DEF PT!Acquire, Inside
<1>3. \A l \in Clients \ {k} : p_lease'[l] = p_lease[l] /\ p_cpc'[l] = p_cpc[l]
  BY <1>1, <1>2, SMTT(20) DEF PT!Client, PT!GetConnection, PT!GetConnection_Lock, PT!GetConnection_Wake,
     PT!GetConnection_Timeout, PT!Take, PT!Throw, PT!Lease, PT!CreateNewConnection
<1>4. \/ p_open' = p_open
      \/ p_mDatabase /\ p_cpc[k] # "idle" /\ \E c \in Conns \ p_created : p_open' = p_open \cup {c}
  BY <1>2 DEF PT!Client, PT!GetConnection, PT!GetConnection_Lock, PT!GetConnection_Wake,
     PT!GetConnection_Timeout, PT!Take, PT!Throw, PT!CreateNewConnection, PT!pool
<1>5. ASSUME NEW l \in Clients \ {k}, p_cpc[l] = "leased", p_lease[l] \in p_open' PROVE p_lease[l] \in p_open
  <2>1. CASE p_open' = p_open
    BY <1>5, <2>1
  <2>2. CASE p_mDatabase /\ p_cpc[k] # "idle"
    <3>1. p_mInitialized /\ p_lease[l] # PT!NoConn
      BY <1>5, <2>2 DEF PoolInv, Entries
    <3> QED
      BY <3>1 DEF PoolInv, PT!LeaseExact
  <2> QED
    BY <1>4, <2>1, <2>2
<1>6. p_open \subseteq p_open'
  BY <1>4
<1> QED
  BY <1>2, <1>3, <1>5, <1>6, LeaseKeeps

(* The end of a ScopedConnection. *)
LEMMA ReleaseStep == ASSUME PoolInv, TxnInv, NEW k \in Clients, PT!Release(k) PROVE TxnInv'
<1>1. p_wpc[k] \notin Inside /\ UNCHANGED (PT!work) /\ p_open' = p_open
  BY DEF PT!Release, PT!ReturnConnection, Inside
<1>2. \A l \in Clients \ {k} : p_lease'[l] = p_lease[l] /\ p_cpc'[l] = p_cpc[l]
  BY DEF PT!Release, PT!ReturnConnection, PoolInv, PT!PoolTypeOK
<1> QED
  BY <1>1, <1>2, LeaseKeeps, Zenon

(* A link breaks; Initialize, Clear and Shutdown. *)
LEMMA CloseStep ==
  ASSUME PoolInv, TxnInv, (\E c \in Conns : PT!Break(c)) \/ PT!Pool
  PROVE  TxnInv'
<1>1. ASSUME NEW c \in Conns, PT!Break(c) PROVE TxnInv'
  <2>1. /\ PT!Abandon({c}) /\ UNCHANGED <<p_wpc, p_result, p_cpc, p_lease, p_open>>
        /\ p_broken' = p_broken \cup {c}
    BY <1>1 DEF PT!Break, PT!poolVars
  <2> QED
    BY <2>1, AbandonStep
<1>2. CASE PT!Pool
  <2> DEFINE H == (p_open \ p_open') \cup (IF p_mDatabase' THEN {} ELSE {"mDb"})
  <2>1. PT!Abandon(H) /\ UNCHANGED <<p_wpc, p_result, p_broken>> /\ PT!Owner
    BY <1>2 DEF PT!Pool, PT!SharedHandle
  <2>2. UNCHANGED <<p_cpc, p_lease>>
    BY <2>1 DEF PT!Owner, PT!Initialize, PT!Clear, PT!Shutdown, PT!Shutdown_Close
  <2>3. p_open' \subseteq p_open \/ \A k \in Clients : p_cpc[k] = "idle"
    <3>1. CASE PT!Initialize
      BY <3>1, Zenon DEF PT!Initialize, PoolInv, Entries
    <3>2. CASE PT!Clear \/ PT!Shutdown \/ PT!Shutdown_Close
      BY <3>2 DEF PT!Clear, PT!Shutdown, PT!Shutdown_Close, PT!pool
    <3> QED
      BY <2>1, <3>1, <3>2 DEF PT!Owner
  <2>4. p_open' \cap H = {} \/ \A k \in Clients : p_cpc[k] = "idle"
    BY <2>3, ConnsAssumption DEF PoolInv, PT!PoolTypeOK
  <2>5. p_open \ H \subseteq p_open'
    OBVIOUS
  <2> HIDE DEF H
  <2> QED
    BY <2>1, <2>2, <2>3, <2>4, <2>5, AbandonStep
<1> QED
  BY <1>1, <1>2

(* BEGIN, on a connection without a transaction of somebody else. *)
LEMMA BeginStep == ASSUME PoolInv, TxnInv, NEW k \in Clients, PT!BeginTransaction(k) PROVE TxnInv'
<1>0. /\ k \in Logins /\ p_cpc[k] = "leased" /\ p_wpc[k] = "start"
      /\ UNCHANGED <<p_open, p_cpc, p_lease, p_uncommitted, p_committed, p_broken>>
      /\ p_wpc \in [Clients -> {"start", "done"} \cup Inside] /\ p_result \in [Clients -> {"none", "saved", "failed"}]
      /\ p_uncommitted \in [PT!Handles -> SUBSET (Clients \X {1, 2})] /\ p_lease[k] \in PT!Handles
  BY DEF PT!BeginTransaction, PT!poolVars, TxnInv, WorkTypeOK, PoolInv, PT!PoolTypeOK, Entries, PT!Handles
<1>1. p_lease[k] \notin p_inTxn /\ p_uncommitted[p_lease[k]] = {}
  BY <1>0, FreshLease DEF Inside
<1>2. p_uncommitted' = [p_uncommitted EXCEPT ![p_lease[k]] = {}]
  BY <1>0, <1>1
<1>3. CASE PT!Usable(k) /\ p_inTxn' = p_inTxn \cup {p_lease[k]} /\ PT!Goto(k, "first") /\ UNCHANGED p_result
  <2>1. OwnTxn(k)'
    BY <1>0, <1>1, <1>3 DEF OwnTxn, PT!Goto, Inside
  <2>2. Durable'
    BY <1>0, <1>3 DEF TxnInv, Durable
  <2> QED
    BY <1>0, <1>2, <1>3, <2>1, <2>2, ClientKeeps, Zenon DEF PT!Goto, PT!Usable, Inside
<1>4. CASE PT!Answer(k, "failed") /\ UNCHANGED p_inTxn
  <2>1. OwnTxn(k)'
    BY <1>0, <1>4 DEF OwnTxn, PT!Answer, PT!Goto, Inside
  <2>2. Durable'
    BY <1>0, <1>4 DEF TxnInv, Durable, PT!Answer
  <2> QED
    BY <1>0, <1>1, <1>2, <1>4, <2>1, <2>2, ClientKeeps, Zenon DEF PT!Answer, PT!Goto
<1> QED
  BY <1>3, <1>4 DEF PT!BeginTransaction, PT!HandleOf

(* The two rows of a login go into its transaction. *)
LEMMA SaveStep == ASSUME PoolInv, TxnInv, NEW k \in Clients, PT!SaveUserLoginEvent(k) PROVE TxnInv'
<1>0. /\ p_cpc[k] = "leased" /\ p_wpc[k] \in {"first", "second"}
      /\ UNCHANGED <<p_open, p_cpc, p_lease, p_result, p_inTxn, p_broken>>
      /\ p_wpc \in [Clients -> {"start", "done"} \cup Inside]
      /\ p_uncommitted \in [PT!Handles -> SUBSET (Clients \X {1, 2})] /\ p_lease[k] \in PT!Handles
      /\ k \in Logins
  BY DEF PT!SaveUserLoginEvent, PT!poolVars, TxnInv, OwnTxn, Inside, WorkTypeOK, PoolInv, PT!PoolTypeOK, Entries, PT!Handles
<1>1. /\ p_lease[k] \in p_inTxn => p_lease[k] \in p_open \ p_broken
      /\ p_lease[k] \notin p_inTxn => p_uncommitted[p_lease[k]] = {}
  BY <1>0 DEF TxnInv, TxnOwned
<1>2. CASE /\ PT!Usable(k) /\ PT!Write(p_lease[k], <<k, IF p_wpc[k] = "first" THEN 1 ELSE 2>>)
           /\ PT!Goto(k, IF p_wpc[k] = "first" THEN "second" ELSE "commit")
  <2> DEFINE w == <<k, IF p_wpc[k] = "first" THEN 1 ELSE 2>>
             W == p_uncommitted[p_lease[k]] \cup {w}
             to == IF p_wpc[k] = "first" THEN "second" ELSE "commit"
  <2>1. p_lease[k] \in p_inTxn
    BY <1>0, <1>2 DEF TxnInv, OwnTxn, Inside
  <2>2. p_uncommitted' = [p_uncommitted EXCEPT ![p_lease[k]] = W] /\ UNCHANGED p_committed
    BY <1>2, <2>1 DEF PT!Write
  <2>3. W \in SUBSET (Clients \X {1, 2})
    BY <1>0, SMTT(20)
  <2>4. OwnTxn(k)'
    <3>1. p_uncommitted'[p_lease'[k]] = W /\ p_wpc'[k] = to
      BY <1>0, <1>2, <2>2 DEF PT!Goto
    <3>2. W = IF p_wpc[k] = "first" THEN {<<k, 1>>} ELSE {<<k, 1>>, <<k, 2>>}
      BY <1>0, <1>2 DEF TxnInv, OwnTxn
    <3> QED
      BY <1>0, <2>1, <3>1, <3>2, Zenon DEF OwnTxn, Inside
  <2>5. Durable'
    BY <1>0, <2>2 DEF TxnInv, Durable
  <2>6. to \in {"done"} \cup Inside /\ to \in Inside /\ p_wpc' = [p_wpc EXCEPT ![k] = to]
    BY <1>2 DEF Inside, PT!Goto
  <2> HIDE DEF W, to
  <2> QED
    BY <1>0, <1>1, <2>1, <2>2, <2>3, <2>4, <2>5, <2>6, ClientKeeps, Zenon
<1>3. CASE PT!Goto(k, "rollback") /\ UNCHANGED <<p_uncommitted, p_committed>>
  <2>1. OwnTxn(k)'
    BY <1>0, <1>3 DEF OwnTxn, PT!Goto, Inside
  <2>2. Durable'
    BY <1>0, <1>3 DEF TxnInv, Durable
  <2>3. /\ p_uncommitted[p_lease[k]] \in SUBSET (Clients \X {1, 2})
        /\ p_uncommitted' = [p_uncommitted EXCEPT ![p_lease[k]] = p_uncommitted[p_lease[k]]]
    BY <1>0, <1>3
  <2> QED
    BY <1>0, <1>1, <1>3, <2>1, <2>2, <2>3, ClientKeeps, Zenon DEF PT!Goto, Inside
<1> QED
  BY <1>2, <1>3, SMTT(20) DEF PT!SaveUserLoginEvent, PT!HandleOf

(* A commit writes what the login itself has written, both rows. *)
LEMMA CommitStep == ASSUME PoolInv, TxnInv, NEW k \in Clients, PT!CommitTransaction(k) PROVE TxnInv'
<1>0. /\ p_cpc[k] = "leased" /\ p_wpc[k] = "commit" /\ UNCHANGED <<p_open, p_cpc, p_lease>>
      /\ p_wpc \in [Clients -> {"start", "done"} \cup Inside] /\ p_result \in [Clients -> {"none", "saved", "failed"}]
      /\ p_uncommitted \in [PT!Handles -> SUBSET (Clients \X {1, 2})] /\ p_lease[k] \in PT!Handles
  BY DEF PT!CommitTransaction, PT!poolVars, TxnInv, WorkTypeOK, PoolInv, PT!PoolTypeOK, Entries, PT!Handles
<1>1. /\ p_lease[k] \in p_inTxn => p_lease[k] \in p_open \ p_broken
      /\ p_lease[k] \notin p_inTxn => p_uncommitted[p_lease[k]] = {}
  BY <1>0, SMTT(20) DEF TxnInv, TxnOwned
<1>2. ASSUME PT!Usable(k), PT!End(p_lease[k], p_uncommitted[p_lease[k]]) PROVE
        /\ p_uncommitted' = [p_uncommitted EXCEPT ![p_lease[k]] = {}]
        /\ p_inTxn' = p_inTxn \ {p_lease[k]}
        /\ p_committed' = p_committed \cup {<<k, 1>>, <<k, 2>>}
        /\ \A l \in Logins : <<l, 1>> \in p_committed' <=> <<l, 2>> \in p_committed'
        /\ p_committed \subseteq p_committed'
  <2>1. p_uncommitted[p_lease[k]] = {<<k, 1>>, <<k, 2>>}
    BY <1>0, <1>2 DEF TxnInv, OwnTxn
  <2>2. p_committed' = p_committed \cup {<<k, 1>>, <<k, 2>>}
    BY <1>2, <2>1 DEF PT!End
  <2> QED
    BY <1>2, <2>2 DEF PT!End, TxnInv, Durable
<1>3. CASE /\ PT!Usable(k) /\ PT!End(p_lease[k], p_uncommitted[p_lease[k]])
           /\ PT!Answer(k, "saved") /\ UNCHANGED p_broken
  <2>1. OwnTxn(k)'
    BY <1>0, <1>3, Zenon DEF OwnTxn, PT!Answer, PT!Goto, Inside
  <2>2. Durable'
    BY <1>0, <1>2, <1>3, Zenon DEF TxnInv, Durable, PT!Answer
  <2> QED
    BY <1>0, <1>2, <1>3, <2>1, <2>2, ClientKeeps, Zenon DEF PT!Answer, PT!Goto
<1>4. CASE /\ PT!Usable(k) /\ PT!End(p_lease[k], p_uncommitted[p_lease[k]])
           /\ p_broken' = p_broken \cup {p_lease[k]} /\ PT!Goto(k, "rollback") /\ UNCHANGED p_result
  <2>1. OwnTxn(k)'
    BY <1>0, <1>4, Zenon DEF OwnTxn, PT!Goto, Inside, TxnInv
  <2>2. Durable'
    BY <1>2, <1>4, Zenon DEF TxnInv, Durable
  <2> QED
    BY <1>0, <1>2, <1>4, <2>1, <2>2, ClientKeeps, Zenon DEF PT!Goto, Inside
<1>5. CASE PT!Goto(k, "rollback") /\ UNCHANGED <<p_result, p_inTxn, p_uncommitted, p_committed, p_broken>>
  <2>1. OwnTxn(k)'
    BY <1>0, <1>5 DEF OwnTxn, PT!Goto, Inside, TxnInv
  <2>2. Durable'
    BY <1>5 DEF TxnInv, Durable
  <2>3. /\ p_uncommitted[p_lease[k]] \in SUBSET (Clients \X {1, 2})
        /\ p_uncommitted' = [p_uncommitted EXCEPT ![p_lease[k]] = p_uncommitted[p_lease[k]]]
    BY <1>0, <1>5
  <2> QED
    BY <1>0, <1>1, <1>5, <2>1, <2>2, <2>3, ClientKeeps, Zenon DEF PT!Goto, Inside
<1> QED
  BY <1>3, <1>4, <1>5, Zenon DEF PT!CommitTransaction, PT!HandleOf

(* A rollback ends the transaction, or the connection has lost it already. *)
LEMMA RollbackStep == ASSUME PoolInv, TxnInv, NEW k \in Clients, PT!RollbackTransaction(k) PROVE TxnInv'
<1>0. /\ p_cpc[k] = "leased" /\ p_wpc[k] = "rollback" /\ UNCHANGED <<p_open, p_cpc, p_lease, p_broken>>
      /\ p_wpc \in [Clients -> {"start", "done"} \cup Inside] /\ p_result \in [Clients -> {"none", "saved", "failed"}]
      /\ p_uncommitted \in [PT!Handles -> SUBSET (Clients \X {1, 2})] /\ p_lease[k] \in PT!Handles
      /\ PT!Answer(k, "failed")
  BY DEF PT!RollbackTransaction, PT!poolVars, TxnInv, WorkTypeOK, PoolInv, PT!PoolTypeOK, Entries, PT!Handles
<1>1. /\ p_inTxn' \in {p_inTxn, p_inTxn \ {p_lease[k]}} /\ p_lease[k] \notin p_inTxn'
      /\ p_uncommitted' = [p_uncommitted EXCEPT ![p_lease[k]] = {}] /\ p_committed' = p_committed
  <2>1. CASE PT!Usable(k)
    <3>1. PT!End(p_lease[k], {})
      BY <2>1, Zenon DEF PT!RollbackTransaction, PT!HandleOf
    <3> QED
      BY <3>1, SMTT(20) DEF PT!End
  <2>2. CASE ~PT!Usable(k)
    <3>1. UNCHANGED <<p_inTxn, p_uncommitted, p_committed>>
      BY <2>2, Zenon DEF PT!RollbackTransaction
    <3>2. p_lease[k] \notin p_inTxn /\ p_uncommitted[p_lease[k]] = {}
      BY <1>0, <2>2, SMTT(20) DEF TxnInv, TxnOwned, PT!Usable
    <3> QED
      BY <1>0, <3>1, <3>2, SMTT(20)
  <2> QED
    BY <2>1, <2>2
<1>2. OwnTxn(k)'
  BY <1>0, Zenon DEF OwnTxn, PT!Answer, PT!Goto, Inside
<1>3. Durable'
  BY <1>0, <1>1 DEF TxnInv, Durable, PT!Answer
<1> QED
  BY <1>0, <1>1, <1>2, <1>3, ClientKeeps, Zenon DEF PT!Answer, PT!Goto

(* A save without a transaction is committed at once. *)
LEMMA PersistStep == ASSUME PoolInv, TxnInv, NEW k \in Clients, PT!PersistPlayerGameState(k) PROVE TxnInv'
<1>0. /\ k \notin Logins /\ p_cpc[k] = "leased" /\ p_wpc[k] = "start"
      /\ UNCHANGED <<p_open, p_cpc, p_lease, p_inTxn, p_broken>>
      /\ p_wpc \in [Clients -> {"start", "done"} \cup Inside] /\ p_result \in [Clients -> {"none", "saved", "failed"}]
      /\ p_uncommitted \in [PT!Handles -> SUBSET (Clients \X {1, 2})] /\ p_lease[k] \in PT!Handles
  BY DEF PT!PersistPlayerGameState, PT!poolVars, TxnInv, WorkTypeOK, PoolInv, PT!PoolTypeOK, Entries, PT!Handles
<1>1. p_lease[k] \notin p_inTxn /\ p_uncommitted[p_lease[k]] = {}
  BY <1>0, FreshLease, SMTT(20) DEF Inside
<1>2. \E r \in {"saved", "failed"} :
        /\ PT!Answer(k, r) /\ UNCHANGED p_uncommitted
        /\ IF r = "saved" THEN p_committed' = p_committed \cup {<<k, 1>>} ELSE UNCHANGED p_committed
  BY <1>1 DEF PT!PersistPlayerGameState, PT!HandleOf, PT!Write
<1>3. PICK r \in {"saved", "failed"} :
        /\ PT!Answer(k, r) /\ UNCHANGED p_uncommitted
        /\ IF r = "saved" THEN p_committed' = p_committed \cup {<<k, 1>>} ELSE UNCHANGED p_committed
  BY <1>2
<1>4. OwnTxn(k)'
  BY <1>0, <1>3 DEF OwnTxn, PT!Answer, PT!Goto, Inside
<1>5. Durable'
  <2>1. \A l \in Logins : \A n \in {1, 2} : <<l, n>> \in p_committed' <=> <<l, n>> \in p_committed
    BY <1>0, <1>3
  <2>2. \A l \in Clients : p_result'[l] = "saved" => <<l, 1>> \in p_committed'
    BY <1>0, <1>3, Zenon DEF TxnInv, Durable, PT!Answer
  <2> QED
    BY <2>1, <2>2 DEF TxnInv, Durable
<1>6. p_uncommitted' = [p_uncommitted EXCEPT ![p_lease[k]] = {}]
  BY <1>0, <1>1, <1>3
<1> QED
  BY <1>0, <1>1, <1>3, <1>4, <1>5, <1>6, ClientKeeps, Zenon DEF PT!Answer, PT!Goto

(***************************************************************************)
(* DBLink                                                                  *)
(***************************************************************************)
(* A thread that runs is joinable: join clears the mark only of one that     *)
(* has ended.                                                                *)
AliveJoinable ==
  /\ l_recvThread.at \notin LK!Stopped => l_recvThread.joinable
  /\ l_reconnectThread.at \notin LK!Stopped => l_reconnectThread.joinable

(* Until the first connection is over no other thread exists.                *)
MainAlone ==
  l_main \in {"connect", "spawn"} => l_recvThread = LK!Thread /\ l_reconnectThread = LK!Thread

(* From the join in ConnectToDBServer to the start of the new receiver there *)
(* is no receiver.                                                           *)
Opening == l_reconnectThread.at \in {"open", "spawn"} => ~l_recvThread.joinable

LinkInv == AliveJoinable /\ MainAlone /\ Opening /\ LK!ThreadsWellUsed

(* The server starts with the main thread alone and the link down. *)
LEMMA LinkInit == LK!Init => LK!LinkTypeOK /\ LinkInv
<1> SUFFICES ASSUME LK!Init PROVE LK!LinkTypeOK /\ LinkInv
  OBVIOUS
<1>1. l_mIsRunning \in BOOLEAN /\ l_mDBRunning \in BOOLEAN /\ l_mDBReconnectRunning \in BOOLEAN
  BY Zenon DEF LK!Init
<1>2. LK!LinkTypeOK
  BY <1>1, LinkAssumption DEF LK!Init, LK!LinkTypeOK, LK!Thread, LK!Stopped
<1> QED
  BY <1>2 DEF LK!Init, LinkInv, AliveJoinable, MainAlone, Opening, LK!ThreadsWellUsed, LK!Thread,
              LK!Stopped

(* What a thread's record may become. *)
LEMMA ThreadRecords ==
  ASSUME NEW P, NEW pc \in P, NEW t \in [joinable : BOOLEAN, at : P]
  PROVE  /\ LK!Moved(t, pc) \in [joinable : BOOLEAN, at : P]
         /\ LK!Started(pc) \in [joinable : BOOLEAN, at : P]
         /\ LK!Joined(t) \in [joinable : BOOLEAN, at : P]
BY DEF LK!Moved, LK!Started, LK!Joined

(* The places in the code of the receiver and of the reconnect thread. *)
RecvPoints == LK!Stopped \cup {"recv", "down", "ifRunning", "ifReconnecting", "set", "join", "spawn"}
ReconnectPoints ==
  LK!Stopped \cup {"head", "wait", "ifRunning", "connect", "join", "open", "spawn", "clear"}

(* What one step may make of each thread's record and of each variable.      *)
LinkMoves ==
  /\ \/ l_recvThread' = l_recvThread
     \/ \E pc \in RecvPoints : l_recvThread' = LK!Moved(l_recvThread, pc) \/ l_recvThread' = LK!Started(pc)
     \/ l_recvThread' = LK!Joined(l_recvThread)
  /\ \/ l_reconnectThread' = l_reconnectThread
     \/ \E pc \in ReconnectPoints :
          l_reconnectThread' = LK!Moved(l_reconnectThread, pc) \/ l_reconnectThread' = LK!Started(pc)
     \/ l_reconnectThread' = LK!Joined(l_reconnectThread)
FlagMoves ==
  /\ l_mIsRunning' = l_mIsRunning \/ l_mIsRunning' = FALSE
  /\ l_mDBRunning' = l_mDBRunning \/ l_mDBRunning' = FALSE \/ l_mDBRunning' = TRUE
  /\ \/ l_mDBReconnectRunning' = l_mDBReconnectRunning
     \/ l_mDBReconnectRunning' = FALSE \/ l_mDBReconnectRunning' = TRUE
OtherMoves ==
  /\ l_peer' = l_peer \/ l_peer' \in {"none", "up", "gone"}
  /\ l_drops' = l_drops \/ (l_drops < LinkMaxDrops /\ l_drops' = l_drops + 1)
  /\ \/ l_main' = l_main
     \/ l_main' \in {"connect", "spawn", "running", "join", "disconnect", "shutdown", "joinRecv", "stopped"}

(* The receiver's steps. *)
LEMMA ReceiverMoves == LK!Receiver => LinkMoves /\ FlagMoves /\ OtherMoves
<1> SUFFICES ASSUME LK!Receiver PROVE LinkMoves /\ FlagMoves /\ OtherMoves
  OBVIOUS
<1> USE DEF LK!Receiver, LK!DBRecvLoop, LK!DBRecvLoop_Down, LK!DBRecvLoop_Check, LK!DBRecvLoop_Set,
       LK!DBRecvLoop_Join, LK!DBRecvLoop_Spawn, LK!Recv_At, LK!flags, LK!threads
<1>1. LinkMoves
  BY DEF LinkMoves, RecvPoints, ReconnectPoints, LK!Stopped
<1>2. FlagMoves
  BY DEF FlagMoves
<1>3. OtherMoves
  BY DEF OtherMoves
<1> QED
  BY <1>1, <1>2, <1>3

(* The reconnect thread's steps. *)
LEMMA ReconnectorMoves == LK!Reconnector => LinkMoves /\ FlagMoves /\ OtherMoves
<1> SUFFICES ASSUME LK!Reconnector PROVE LinkMoves /\ FlagMoves /\ OtherMoves
  OBVIOUS
<1> USE DEF LK!Reconnector, LK!DBReconnectLoop, LK!ConnectToDBServer, LK!Open_Fails, LK!Open, LK!Spawn,
       LK!DBReconnectLoop_End, LK!Opened, LK!Reconnect_At, LK!flags, LK!threads
<1>1. LinkMoves
  BY DEF LinkMoves, RecvPoints, ReconnectPoints, LK!Stopped
<1>2. FlagMoves
  BY DEF FlagMoves
<1>3. OtherMoves
  BY DEF OtherMoves
<1> QED
  BY <1>1, <1>2, <1>3, SMTT(20)

(* The main thread's steps, and the loss of the connection. *)
LEMMA MainMoves ==
  ASSUME LK!Main_Connect \/ LK!Main_Spawn \/ LK!Stop \/ LK!Stopping \/ LK!Drop
  PROVE  LinkMoves /\ FlagMoves /\ OtherMoves
<1> USE DEF LK!Main_Connect, LK!Main_Spawn, LK!Stop, LK!Stopping, LK!Drop, LK!Stop_Join,
       LK!DisconnectFromDBServer, LK!Disconnect_Shutdown, LK!Disconnect_Join, LK!Opened, LK!flags,
       LK!threads
<1>1. LinkMoves
  BY DEF LinkMoves, RecvPoints, ReconnectPoints, LK!Stopped
<1>2. FlagMoves
  BY DEF FlagMoves
<1>3. OtherMoves
  BY DEF OtherMoves
<1> QED
  BY <1>1, <1>2, <1>3

(* The link's variables keep their types. *)
LEMMA LinkTypeStep == LK!LinkTypeOK /\ [LK!Next]_(LK!vars) => LK!LinkTypeOK'
<1>0. SUFFICES ASSUME LK!LinkTypeOK, [LK!Next]_(LK!vars) PROVE LK!LinkTypeOK'
  OBVIOUS
<1>1. /\ l_recvThread \in [joinable : BOOLEAN, at : RecvPoints]
      /\ l_reconnectThread \in [joinable : BOOLEAN, at : ReconnectPoints]
  BY <1>0 DEF LK!LinkTypeOK, RecvPoints, ReconnectPoints
<1>2. "none" \in RecvPoints /\ "none" \in ReconnectPoints
  BY DEF RecvPoints, ReconnectPoints, LK!Stopped
<1>3. LinkMoves /\ FlagMoves /\ OtherMoves
  <2>1. CASE UNCHANGED (LK!vars)
    BY <2>1 DEF LK!vars, LinkMoves, FlagMoves, OtherMoves
  <2> QED
    BY <1>0, <2>1, ReceiverMoves, ReconnectorMoves, MainMoves DEF LK!Next
<1>4. l_recvThread' \in [joinable : BOOLEAN, at : RecvPoints]
  BY <1>1, <1>2, <1>3, ThreadRecords DEF LinkMoves
<1>5. l_reconnectThread' \in [joinable : BOOLEAN, at : ReconnectPoints]
  BY <1>1, <1>2, <1>3, ThreadRecords DEF LinkMoves
<1>6. l_mIsRunning' \in BOOLEAN /\ l_mDBRunning' \in BOOLEAN /\ l_mDBReconnectRunning' \in BOOLEAN
  BY <1>0, <1>3, Zenon DEF LK!LinkTypeOK, FlagMoves
<1>7. /\ l_peer' \in {"none", "up", "gone"} /\ l_drops' \in 0 .. LinkMaxDrops
      /\ l_main' \in {"connect", "spawn", "running", "join", "disconnect", "shutdown", "joinRecv", "stopped"}
  BY <1>0, <1>3, LinkAssumption DEF LK!LinkTypeOK, OtherMoves
<1> QED
  BY <1>4, <1>5, <1>6, <1>7 DEF LK!LinkTypeOK, RecvPoints, ReconnectPoints

(* Every step keeps the relation between the places of the three threads,    *)
(* the joinable marks and mDBRunning.                                        *)
LEMMA LinkStep == LinkInv /\ [LK!Next]_(LK!vars) => LinkInv'
<1> SUFFICES ASSUME LinkInv, [LK!Next]_(LK!vars) PROVE LinkInv'
  OBVIOUS
<1> USE DEF LinkInv, AliveJoinable, MainAlone, Opening, LK!ThreadsWellUsed,
       LK!Stopped, LK!Thread, LK!Moved, LK!Joined, LK!flags, LK!threads
<1>1. CASE LK!Drop
  BY <1>1 DEF LK!Drop
<1>2. CASE LK!Receiver
  <2> USE DEF LK!Recv_At, LK!Started
  <2>1. CASE LK!DBRecvLoop
    BY <2>1 DEF LK!DBRecvLoop
  <2>2. CASE LK!DBRecvLoop_Down
    BY <2>2 DEF LK!DBRecvLoop_Down
  <2>3. CASE LK!DBRecvLoop_Check
    BY <2>3 DEF LK!DBRecvLoop_Check
  <2>4. CASE LK!DBRecvLoop_Set
    BY <2>4 DEF LK!DBRecvLoop_Set
  <2>5. CASE LK!DBRecvLoop_Join
    BY <2>5 DEF LK!DBRecvLoop_Join
  <2>6. CASE LK!DBRecvLoop_Spawn
    BY <2>6 DEF LK!DBRecvLoop_Spawn
  <2> QED
    BY <1>2, <2>1, <2>2, <2>3, <2>4, <2>5, <2>6, Zenon DEF LK!Receiver
<1>3. CASE LK!Reconnector
  <2> USE DEF LK!Reconnect_At, LK!Started
  <2>1. CASE LK!DBReconnectLoop
    BY <2>1 DEF LK!DBReconnectLoop
  <2>2. CASE LK!ConnectToDBServer
    BY <2>2 DEF LK!ConnectToDBServer
  <2>3. CASE LK!Open_Fails
    BY <2>3 DEF LK!Open_Fails
  <2>4. CASE LK!Open
    BY <2>4 DEF LK!Open, LK!Opened
  <2>5. CASE LK!Spawn
    BY <2>5 DEF LK!Spawn
  <2>6. CASE LK!DBReconnectLoop_End
    BY <2>6 DEF LK!DBReconnectLoop_End
  <2> QED
    BY <1>3, <2>1, <2>2, <2>3, <2>4, <2>5, <2>6, ZenonT(30) DEF LK!Reconnector
<1>4. CASE LK!Main_Connect \/ LK!Main_Spawn \/ LK!Stop
  BY <1>4 DEF LK!Main_Connect, LK!Main_Spawn, LK!Opened, LK!Started, LK!Stop
<1>5. CASE LK!Stopping
  BY <1>5 DEF LK!Stopping, LK!Stop_Join, LK!DisconnectFromDBServer, LK!Disconnect_Shutdown,
              LK!Disconnect_Join
<1>6. CASE UNCHANGED (LK!vars)
  BY <1>6 DEF LK!vars
<1> QED
  BY <1>1, <1>2, <1>3, <1>4, <1>5, <1>6, Zenon DEF LK!Next

(* The link to the DB server: however often it drops, neither std::thread    *)
(* member is assigned while it is joinable, and a link marked as running has *)
(* one receiver.                                                             *)
THEOREM LinkThreads == LK!Spec => []ThreadsWellUsed
<1>1. LK!LinkTypeOK /\ LinkInv => ThreadsWellUsed
  BY DEF LinkInv, ThreadsWellUsed
<1> QED
  BY <1>1, LinkInit, LinkTypeStep, LinkStep, PTL DEF LK!Spec

INSTANCE FiniteSetTheorems

(* What the lemmas above take of the library's facts on finite sets. *)
LEMMA Counting == CountFacts
BY FS_CardinalityType, FS_EmptySet, FS_Singleton, FS_AddElement, FS_RemoveElement, FS_Subset, Zenon
   DEF CountFacts, CountsFew, CountsType, CountsAdd, CountsRemove, CountsPart

(* What the clients do with their leases leaves the pool alone. *)
LEMMA PoolSafe == PT!Spec => []PoolInv
<1>1. PT!Init => PoolInv
  BY Counting, PoolStart DEF PT!Init
<1>2. PoolInv /\ [PT!Next]_(PT!vars) => PoolInv'
  <2>1. UNCHANGED (PT!vars) => UNCHANGED (PT!poolVars)
    BY DEF PT!vars
  <2>2. PT!Next => [PT!PoolNext]_(PT!poolVars)
    BY Zenon DEF PT!Next, PT!PoolNext, PT!Break, PT!Acquire, PT!BeginTransaction, PT!SaveUserLoginEvent,
       PT!CommitTransaction, PT!RollbackTransaction, PT!PersistPlayerGameState, PT!Release, PT!Pool
  <2> QED
    BY <2>1, <2>2, Counting, PoolStep, ConnsAssumption DEF PT!NoConn
<1> QED
  BY <1>1, <1>2, PTL DEF PT!Spec

(* While the pool is up, the count, the marks and the leases agree and every *)
(* leased connection is open, in the pool and leased to one client.          *)
THEOREM PoolLeases == PT!Spec => []LeaseExact
<1>1. PoolInv => LeaseExact
  BY DEF PoolInv, LeaseExact
<1> QED
  BY <1>1, PoolSafe, PTL

(* After Shutdown nothing the pool made is open, nor will it be. *)
THEOREM PoolShutdown == PT!Spec => []ShutdownClosesAll
<1>1. Cardinality({}) = 0
  BY Counting, Zenon DEF CountFacts, CountsFew
<1>2. PoolInv => ShutdownClosesAll
  BY <1>1, SameCount DEF PoolInv, PT!PoolTypeOK, Entries, PT!LeaseExact, PT!ShutdownClosesAll, ShutdownClosesAll
<1> QED
  BY <1>2, PoolSafe, PTL

(* What the clients of the pool do with their transactions stays within      *)
(* their leases: a login leaves both rows or none, what is reported as saved *)
(* stays saved, and no connection waits in the pool inside a transaction.    *)
THEOREM TransactionsKeepApart == PT!Spec => []TxnPerConnection
<1>2. PoolInv /\ TxnInv /\ [PT!Next]_(PT!vars) => TxnInv'
  <2> SUFFICES ASSUME PoolInv, TxnInv, [PT!Next]_(PT!vars) PROVE TxnInv'
    OBVIOUS
  <2>2. CASE PT!Next
    BY <2>2, AcquireStep, ReleaseStep, CloseStep, BeginStep, SaveStep, CommitStep, RollbackStep, PersistStep
       DEF PT!Next
  <2>3. CASE UNCHANGED (PT!vars)
    BY <2>3, Zenon DEF PT!vars, PT!poolVars, PT!work, TxnInv, WorkTypeOK, OwnTxn, TxnOwned, Durable, PT!Usable
  <2> QED
    BY <2>2, <2>3
<1>3. PoolInv /\ TxnInv => TxnPerConnection
  <2> SUFFICES ASSUME PoolInv, TxnInv PROVE TxnPerConnection
    OBVIOUS
  <2>1. ASSUME NEW c \in p_mConnections \ p_mInUse PROVE c \notin p_inTxn /\ p_uncommitted[c] = {}
    <3>1. p_mInitialized /\ c \in Conns
      BY DEF PoolInv, Entries, PT!PoolTypeOK
    <3>2. \A k \in Clients : p_lease[k] # c
      BY <3>1, ConnsAssumption DEF PoolInv, PT!LeaseExact, PT!NoConn
    <3> QED
      BY <3>1, <3>2, Zenon DEF TxnInv, TxnOwned, PT!Handles
  <2> QED
    BY <2>1, Zenon DEF TxnPerConnection, PT!TxnPerConnection, TxnInv, Durable
<1> QED
  BY TxnStart, <1>2, <1>3, PoolSafe, PTL DEF PT!Spec
===============================================================================
