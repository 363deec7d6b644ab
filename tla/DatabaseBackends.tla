--------------------------- MODULE DatabaseBackends ---------------------------
(***************************************************************************)
(* The schema bootstrap by several processes and the clients of the        *)
(* connection pool that run transactions, as parts of the database side.   *)
(***************************************************************************)
EXTENDS Naturals, FiniteSets

CONSTANTS Instances, Hashes, Scripts, MaxStarts,             \* SqlModuleBootstrap
          Clients, Logins, Conns, MaxPoolSize, MinPoolSize   \* PooledTransactions

(* A module has at least one table script. *)
ASSUME ScriptsAssumption == Scripts \in Nat \ {0}

(* A process opens finitely many connections; "none" and "mDb" are not      *)
(* connections.                                                             *)
ASSUME ConnsAssumption == IsFiniteSet(Conns) /\ "none" \notin Conns /\ "mDb" \notin Conns

VARIABLES
  b_table, b_row, b_ran, b_okHash, b_pc, b_next, b_manifestHash, b_result, b_starts,
  p_mInitialized, p_mDatabase, p_mConnections, p_mInUse, p_mActiveConnections, p_open,
  p_created, p_cpc, p_lease, p_spc, p_wpc, p_result, p_inTxn, p_uncommitted, p_committed,
  p_broken

SB == INSTANCE SqlModuleBootstrap WITH
  table <- b_table, row <- b_row, ran <- b_ran, okHash <- b_okHash, pc <- b_pc, next <- b_next,
  manifestHash <- b_manifestHash, result <- b_result, starts <- b_starts

(* A connection of ODBC, OLE DB or PostgreSQL has a handle of its own. *)
PT == INSTANCE PooledTransactions WITH
  Handle <- "private", mInitialized <- p_mInitialized,
  mDatabase <- p_mDatabase, mConnections <- p_mConnections, mInUse <- p_mInUse,
  mActiveConnections <- p_mActiveConnections, open <- p_open, created <- p_created,
  cpc <- p_cpc, lease <- p_lease, spc <- p_spc, wpc <- p_wpc, result <- p_result,
  inTxn <- p_inTxn, uncommitted <- p_uncommitted, committed <- p_committed, broken <- p_broken

bVars == <<b_table, b_row, b_ran, b_okHash, b_pc, b_next, b_manifestHash, b_result, b_starts>>
pVars == <<p_mInitialized, p_mDatabase, p_mConnections, p_mInUse, p_mActiveConnections, p_open,
           p_created, p_cpc, p_lease, p_spc, p_wpc, p_result, p_inTxn, p_uncommitted,
           p_committed, p_broken>>

(* Of the processes that start together, one at most runs the scripts of the *)
(* module, and it runs each of them once.                                    *)
ScriptsRunOnce == SB!ScriptsRunOnce

(* A process that is told the schema is ready can rely on it: every script   *)
(* has run to its end with the hash that process has.                        *)
ReturnTrustworthy == SB!ReturnTrustworthy

(* Pool: a connection is leased to one client at most, and the counters and  *)
(* flags agree with the leases.                                              *)
LeaseExact == PT!PoolTypeOK /\ PT!LeaseExact

(* Once Shutdown has returned, no connection of the pool is open.            *)
ShutdownClosesAll == PT!ShutdownClosesAll

(* A connection's transaction holds the writes of one client only, and no    *)
(* connection goes back to the pool inside a transaction.                    *)
TxnPerConnection == PT!TxnPerConnection
===============================================================================
