-------------------------- MODULE PooledTransactions --------------------------
(***************************************************************************)
(* The clients of the connection pool in TestDatabaseManager.cpp and the   *)
(* transactions of the backends under it.  SaveUserLoginEvent writes two   *)
(* rows in a transaction, PersistPlayerGameState writes one row on its     *)
(* own.  With ODBC, OLE DB and PostgreSQL a connection has a handle of its *)
(* own ("private"); every SQLiteConnection shares the handle of its        *)
(* database ("shared").  A write is a pair of the client and 1 or 2.       *)
(***************************************************************************)
EXTENDS ConnectionPool

CONSTANTS Logins,       \* the clients that save a login; the others save a state
          Handle        \* "private" or "shared"

VARIABLES wpc, result,  \* client -> step of its operation, what it returned
          inTxn,        \* handles with an open transaction
          uncommitted,  \* handle -> writes of the open transaction
          committed,
          broken        \* connections whose link to the server is gone

work == <<wpc, result, inTxn, uncommitted, committed, broken>>
vars == <<poolVars, work>>

SharedHandle == "mDb"
Handles == Conns \cup {SharedHandle}
HandleOf(c) == IF Handle = "shared" THEN SharedHandle ELSE c

Init ==
  /\ PoolInit
  /\ wpc = [k \in Clients |-> "start"] /\ result = [k \in Clients |-> "none"]
  /\ inTxn = {} /\ uncommitted = [h \in Handles |-> {}] /\ committed = {} /\ broken = {}

(***************************************************************************)
(* The backend                                                             *)
(***************************************************************************)
Usable(k) == lease[k] \in open \ broken

(* Without a transaction a write is committed at once. *)
Write(h, w) ==
  IF h \in inTxn
  THEN uncommitted' = [uncommitted EXCEPT ![h] = @ \cup {w}] /\ UNCHANGED committed
  ELSE committed' = committed \cup {w} /\ UNCHANGED uncommitted

End(h, writes) ==
  /\ committed' = committed \cup writes
  /\ uncommitted' = [uncommitted EXCEPT ![h] = {}] /\ inTxn' = inTxn \ {h}

(* The server rolls back what a lost or closed link leaves open. *)
Abandon(H) ==
  /\ uncommitted' = [h \in Handles |-> IF h \in H THEN {} ELSE uncommitted[h]]
  /\ inTxn' = inTxn \ H /\ UNCHANGED committed

(* The link of a private connection may break at any time.  IsOpen does not *)
(* notice.                                                                  *)
Break(c) ==
  /\ Handle = "private" /\ c \in open \ broken
  /\ broken' = broken \cup {c} /\ Abandon({c})
  /\ UNCHANGED <<poolVars, wpc, result>>

(***************************************************************************)
(* SaveUserLoginEvent and PersistPlayerGameState                           *)
(***************************************************************************)
Goto(k, to) == wpc' = [wpc EXCEPT ![k] = to]
Answer(k, r) == Goto(k, "done") /\ result' = [result EXCEPT ![k] = r]

(* SQLite refuses BEGIN within a transaction; the others only switch        *)
(* autocommit off.  A failure is outside the inner try: no rollback.        *)
BeginTransaction(k) ==
  /\ k \in Logins /\ cpc[k] = "leased" /\ wpc[k] = "start"
  /\ LET h == HandleOf(lease[k]) IN
     \/ /\ Usable(k) /\ (Handle = "shared" => h \notin inTxn)
        /\ inTxn' = inTxn \cup {h} /\ Goto(k, "first") /\ UNCHANGED result
     \/ Answer(k, "failed") /\ UNCHANGED inTxn
  /\ UNCHANGED <<poolVars, uncommitted, committed, broken>>

(* The first row of a login, then the second; a failure goes to the         *)
(* rollback.                                                                *)
SaveUserLoginEvent(k) ==
  /\ cpc[k] = "leased" /\ wpc[k] \in {"first", "second"}
  /\ \/ /\ Usable(k) /\ Write(HandleOf(lease[k]), <<k, IF wpc[k] = "first" THEN 1 ELSE 2>>)
        /\ Goto(k, IF wpc[k] = "first" THEN "second" ELSE "commit")
     \/ Goto(k, "rollback") /\ UNCHANGED <<uncommitted, committed>>
  /\ UNCHANGED <<poolVars, result, inTxn, broken>>

(* The commit itself may fail, and the link may break after it and before   *)
(* autocommit is on again: both end in the rollback.                        *)
CommitTransaction(k) ==
  /\ cpc[k] = "leased" /\ wpc[k] = "commit"
  /\ LET h == HandleOf(lease[k]) IN
     \/ /\ Usable(k) /\ (Handle = "shared" => h \in inTxn)
        /\ End(h, uncommitted[h])
        /\ \/ Answer(k, "saved") /\ UNCHANGED broken
           \/ Handle = "private" /\ broken' = broken \cup {lease[k]} /\ Goto(k, "rollback") /\ UNCHANGED result
     \/ Goto(k, "rollback") /\ UNCHANGED <<result, inTxn, uncommitted, committed, broken>>
  /\ UNCHANGED poolVars

(* Faulty variant: the failed transaction is left to the next user. *)
RollbackTransaction_Skipped(k) ==
  /\ cpc[k] = "leased" /\ wpc[k] = "rollback" /\ Answer(k, "failed")
  /\ UNCHANGED <<poolVars, inTxn, uncommitted, committed, broken>>

(* What goes wrong in the rollback is swallowed; on a usable connection     *)
(* nothing does.                                                            *)
RollbackTransaction(k) ==
  /\ cpc[k] = "leased" /\ wpc[k] = "rollback"
  /\ IF Usable(k) THEN End(HandleOf(lease[k]), {}) ELSE UNCHANGED <<inTxn, uncommitted, committed>>
  /\ Answer(k, "failed")
  /\ UNCHANGED <<poolVars, broken>>

PersistPlayerGameState(k) ==
  /\ k \notin Logins /\ cpc[k] = "leased" /\ wpc[k] = "start"
  /\ \/ Usable(k) /\ Write(HandleOf(lease[k]), <<k, 1>>) /\ Answer(k, "saved")
     \/ Answer(k, "failed") /\ UNCHANGED <<uncommitted, committed>>
  /\ UNCHANGED <<poolVars, inTxn, broken>>

(***************************************************************************)
(* The pool with its clients                                               *)
(***************************************************************************)
(* GetConnection's steps; a client whose operation is over starts the next   *)
(* one only in another run of the operation, which is another client.        *)
Acquire(k) == wpc[k] = "start" /\ Client(k) /\ UNCHANGED work

(* ScopedConnection returns the connection when the operation is left. *)
Release(k) == wpc[k] = "done" /\ ReturnConnection(k) /\ UNCHANGED work

(* Closing connections ends their transactions; Disconnect closes the       *)
(* shared handle.                                                           *)
Pool ==
  /\ Owner
  /\ Abandon((open \ open') \cup (IF mDatabase' THEN {} ELSE {SharedHandle}))
  /\ UNCHANGED <<wpc, result, broken>>

Next ==
  \/ \E c \in Conns : Break(c)
  \/ \E k \in Clients :
       \/ Acquire(k)
       \/ BeginTransaction(k)
       \/ SaveUserLoginEvent(k)
       \/ CommitTransaction(k)
       \/ RollbackTransaction(k)
       \/ PersistPlayerGameState(k)
       \/ Release(k)
  \/ Pool

Spec == Init /\ [][Next]_vars

(***************************************************************************)
(* Properties                                                              *)
(***************************************************************************)
(* A transaction belongs to the connection: a login leaves both its rows or  *)
(* neither, a save or login reported as saved stays, whatever the other      *)
(* clients of the pool do, roll back or break meanwhile; and with handles of  *)
(* their own no transaction is open on a connection that waits in the pool.  *)
TxnPerConnection ==
  /\ \A k \in Logins : <<k, 1>> \in committed <=> <<k, 2>> \in committed
  /\ \A k \in Clients : result[k] = "saved" => <<k, 1>> \in committed
  /\ Handle = "private" => \A c \in mConnections \ mInUse : c \notin inTxn /\ uncommitted[c] = {}
===============================================================================
