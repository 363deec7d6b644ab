---------------------------- MODULE ConnectionPool ----------------------------
(***************************************************************************)
(* Database/ConnectionPool.cpp.  Clients lease connections, wait when none *)
(* is free and the pool is full, and give them back; Clear and Shutdown    *)
(* close connections under their feet.  Every critical section of mMutex   *)
(* is one step.  A waiter looks at the predicate again whenever it is      *)
(* woken, at the latest when its timeout ends, so a wake-up may come at    *)
(* any time; the time itself is left out.                                  *)
(***************************************************************************)
EXTENDS Naturals, FiniteSets

CONSTANTS Clients,
          Conns,        \* the connection objects that may be created
          MaxPoolSize, MinPoolSize

VARIABLES mInitialized, mDatabase,  \* mDatabase: the backend is connected
          mConnections,             \* connections in the pool
          mInUse,                   \* those marked as leased
          mActiveConnections,
          open, created,            \* open connections; all ever created
          cpc, lease,               \* client -> where it is, what it leases
          spc                       \* the thread that owns the pool

pool == <<mConnections, mInUse, mActiveConnections, open, created>>
poolVars == <<mInitialized, mDatabase, mConnections, mInUse, mActiveConnections, open, created,
              cpc, lease, spc>>

NoConn == "none"

PoolTypeOK ==
  /\ mInitialized \in BOOLEAN /\ mDatabase \in BOOLEAN
  /\ mConnections \subseteq Conns /\ mInUse \subseteq Conns /\ mActiveConnections \in Nat
  /\ open \subseteq Conns /\ created \subseteq Conns
  /\ cpc \in [Clients -> {"idle", "lock", "wait", "leased"}]
  /\ lease \in [Clients -> Conns \cup {NoConn}]
  /\ spc \in {"new", "up", "drain", "down"}

PoolInit ==
  /\ mInitialized = FALSE /\ mDatabase = FALSE
  /\ mConnections = {} /\ mInUse = {} /\ mActiveConnections = 0 /\ open = {} /\ created = {}
  /\ cpc = [k \in Clients |-> "idle"] /\ lease = [k \in Clients |-> NoConn] /\ spc = "new"

(* The backend connects and MinPoolSize connections are made in advance.  A *)
(* failure destroys those already made.                                     *)
Initialize ==
  /\ spc = "new" /\ mDatabase' = TRUE
  /\ \E C \in SUBSET Conns :
       /\ Cardinality(C) <= MinPoolSize /\ created' = C
       /\ \/ /\ Cardinality(C) = MinPoolSize
             /\ mConnections' = C /\ open' = C /\ mInitialized' = TRUE /\ spc' = "up"
          \/ /\ Cardinality(C) < MinPoolSize
             /\ mConnections' = {} /\ open' = {} /\ mInitialized' = FALSE /\ spc' = "down"
  /\ UNCHANGED <<mInUse, mActiveConnections, cpc, lease>>

(***************************************************************************)
(* GetConnection                                                           *)
(***************************************************************************)
(* The check without the lock. *)
GetConnection(k) ==
  /\ cpc[k] = "idle" /\ mInitialized /\ cpc' = [cpc EXCEPT ![k] = "lock"]
  /\ UNCHANGED <<mInitialized, mDatabase, pool, lease, spc>>

Idle == {c \in mConnections : c \notin mInUse /\ c \in open}
Available == Idle # {} \/ Cardinality(mConnections) < MaxPoolSize

Lease(k, c) ==
  /\ mInUse' = mInUse \cup {c} /\ mActiveConnections' = mActiveConnections + 1
  /\ lease' = [lease EXCEPT ![k] = c] /\ cpc' = [cpc EXCEPT ![k] = "leased"]

(* The exception leaves the client where it started. *)
Throw(k) == cpc' = [cpc EXCEPT ![k] = "idle"] /\ UNCHANGED <<pool, lease>>

(* CreateNewConnection and the entry for it; without a connected backend,   *)
(* or when the connection cannot be opened, it throws.                      *)
CreateNewConnection(k) ==
  \/ Throw(k)
  \/ \E c \in Conns \ created :
       /\ mDatabase /\ created' = created \cup {c} /\ open' = open \cup {c}
       /\ mConnections' = mConnections \cup {c} /\ Lease(k, c)

(* An idle connection, else a new one while the pool is below its maximum. *)
Take(k) ==
  IF Idle # {} THEN \E c \in Idle : Lease(k, c) /\ UNCHANGED <<mConnections, open, created>>
  ELSE Cardinality(mConnections) < MaxPoolSize /\ CreateNewConnection(k)

(* Under the lock: the state again, then the predicate of the wait. *)
GetConnection_Lock(k) ==
  /\ cpc[k] = "lock"
  /\ IF ~mInitialized THEN Throw(k)
     ELSE IF Available THEN Take(k)
     ELSE cpc' = [cpc EXCEPT ![k] = "wait"] /\ UNCHANGED <<pool, lease>>
  /\ UNCHANGED <<mInitialized, mDatabase, spc>>

GetConnection_Wake(k) ==
  /\ cpc[k] = "wait" /\ Available /\ Take(k)
  /\ UNCHANGED <<mInitialized, mDatabase, spc>>

GetConnection_Timeout(k) ==
  /\ cpc[k] = "wait" /\ ~Available /\ Throw(k)
  /\ UNCHANGED <<mInitialized, mDatabase, spc>>

(***************************************************************************)
(* ReturnConnection, Clear                                                 *)
(***************************************************************************)
(* A connection the pool no longer has is dropped without a trace. *)
ReturnConnection(k) ==
  /\ cpc[k] = "leased"
  /\ IF lease[k] \in mConnections
     THEN mInUse' = mInUse \ {lease[k]} /\ mActiveConnections' = mActiveConnections - 1
     ELSE UNCHANGED <<mInUse, mActiveConnections>>
  /\ lease' = [lease EXCEPT ![k] = NoConn] /\ cpc' = [cpc EXCEPT ![k] = "idle"]
  /\ UNCHANGED <<mInitialized, mDatabase, mConnections, open, created, spc>>

(* Faulty variant: leased connections are cleared too. *)
Clear_All ==
  /\ mConnections' = {} /\ open' = open \ mConnections
  /\ UNCHANGED <<mInitialized, mDatabase, mInUse, mActiveConnections, created, cpc, lease, spc>>

Clear ==
  /\ mConnections' = mConnections \cap mInUse /\ open' = open \ (mConnections \ mInUse)
  /\ UNCHANGED <<mInitialized, mDatabase, mInUse, mActiveConnections, created, cpc, lease, spc>>

(***************************************************************************)
(* Shutdown                                                                *)
(***************************************************************************)
Shutdown ==
  /\ spc = "up" /\ mInitialized /\ spc' = "drain"
  /\ UNCHANGED <<mInitialized, mDatabase, pool, cpc, lease>>

(* Faulty variant: the backend stays connected. *)
Shutdown_Close_KeepsDatabase ==
  /\ spc = "drain" /\ spc' = "down" /\ mInitialized' = FALSE
  /\ mConnections' = {} /\ open' = open \ mConnections /\ mInUse' = {} /\ mActiveConnections' = 0
  /\ UNCHANGED <<mDatabase, created, cpc, lease>>

(* After the wait, five seconds at most: with leases left every connection  *)
(* is closed and the count reset, without them the idle ones (that is all)  *)
(* are cleared; then the backend is disconnected.                           *)
Shutdown_Close ==
  /\ spc = "drain" /\ spc' = "down" /\ mInitialized' = FALSE /\ mDatabase' = FALSE
  /\ IF mActiveConnections > 0
     THEN /\ mConnections' = {} /\ open' = open \ mConnections
          /\ mInUse' = {} /\ mActiveConnections' = 0
     ELSE /\ mConnections' = mConnections \cap mInUse /\ open' = open \ (mConnections \ mInUse)
          /\ UNCHANGED <<mInUse, mActiveConnections>>
  /\ UNCHANGED <<created, cpc, lease>>

Client(k) ==
  \/ GetConnection(k)
  \/ GetConnection_Lock(k)
  \/ GetConnection_Wake(k)
  \/ GetConnection_Timeout(k)

Owner ==
  \/ Initialize
  \/ Clear
  \/ Shutdown
  \/ Shutdown_Close

PoolNext == (\E k \in Clients : Client(k) \/ ReturnConnection(k)) \/ Owner

PoolSpec == PoolInit /\ [][PoolNext]_poolVars

(***************************************************************************)
(* Properties                                                              *)
(***************************************************************************)
(* While the pool is up, the count of active connections is the number of   *)
(* connections marked in use, each of these is leased to exactly one client, *)
(* and every leased connection is open and still in the pool: neither Clear  *)
(* nor a waiter's wake-up takes it away or hands it out twice.               *)
LeaseExact ==
  /\ mActiveConnections = Cardinality(mInUse)
  /\ \A k, l \in Clients : lease[k] = lease[l] /\ lease[k] # NoConn => k = l
  /\ mInitialized => \A k \in Clients : lease[k] # NoConn => lease[k] \in mInUse \cap mConnections \cap open
  /\ \A c \in mInUse : \E k \in Clients : lease[k] = c

(* Once Shutdown is over no connection the pool ever made is open, and none  *)
(* is opened later: not by a client that was waiting in GetConnection all    *)
(* along, and not when a client returns its connection late.                 *)
ShutdownClosesAll == spc = "down" => open = {} /\ mConnections = {} /\ mActiveConnections = 0
===============================================================================
