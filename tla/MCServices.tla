---------------------------- MODULE MCServices -----------------------------
(***************************************************************************)
(* What must eventually happen in the services, on instances small enough  *)
(* for liveness: the relay to the DB server (two tasks of one or of two    *)
(* sessions on two workers), the local DB task queue (two tasks of one     *)
(* session, a log that may fail to open), a session's send path (two       *)
(* messages over two connections), the timer queue and the link to the DB  *)
(* server.  They share no state; a behaviour is one of one of them, chosen *)
(* by "active", and the others stay in an initial state of theirs.         *)
(***************************************************************************)
EXTENDS DBServerTaskQueue, TimerParts, LinkParts

CONSTANTS LocalTasks, LocalSessionOf, LocalWorkers, LocalWalMayFail,   \* DBTaskQueue
          Senders, SendWorkers, closer, acceptor, SlotUses, SendThreshold,   \* Session
          t1, t2, w1, w2

VARIABLES active,
  q_mIsRunning, q_taskQueue, q_mQueueSize, q_wpc, q_epc, q_spc, q_sIdx, q_drainTasks, q_current,
  q_walP, q_walD, q_walOpen, q_outcome, q_callbacks, q_pushed, q_finished,
  s_mId, s_mState, s_registered, s_mAsyncProvider, s_mSendQueue, s_mSendQueueSize, s_mIsSending,
  s_pc, s_hand, s_target, s_lastId, s_wire, s_pushed, s_posted, s_clean

DQ == INSTANCE DBTaskQueue WITH
  Tasks <- LocalTasks, SessionOf <- LocalSessionOf, NumWorkers <- LocalWorkers,
  WalMayFail <- LocalWalMayFail,
  mIsRunning <- q_mIsRunning, taskQueue <- q_taskQueue, mQueueSize <- q_mQueueSize,
  wpc <- q_wpc, epc <- q_epc, spc <- q_spc, sIdx <- q_sIdx, drainTasks <- q_drainTasks,
  current <- q_current, walP <- q_walP, walD <- q_walD, walOpen <- q_walOpen,
  outcome <- q_outcome, callbacks <- q_callbacks, pushed <- q_pushed, finished <- q_finished

SE == INSTANCE Session WITH
  Senders <- Senders, Workers <- SendWorkers, closer <- closer, acceptor <- acceptor,
  MaxConnections <- SlotUses, Threshold <- SendThreshold, mId <- s_mId, mState <- s_mState,
  registered <- s_registered, mAsyncProvider <- s_mAsyncProvider, mSendQueue <- s_mSendQueue,
  mSendQueueSize <- s_mSendQueueSize, mIsSending <- s_mIsSending, pc <- s_pc, hand <- s_hand,
  target <- s_target, lastId <- s_lastId, wire <- s_wire, pushed <- s_pushed,
  posted <- s_posted, clean <- s_clean

qVars == <<q_mIsRunning, q_taskQueue, q_mQueueSize, q_wpc, q_epc, q_spc, q_sIdx, q_drainTasks,
           q_current, q_walP, q_walD, q_walOpen, q_outcome, q_callbacks, q_pushed, q_finished>>
sVars == <<s_mId, s_mState, s_registered, s_mAsyncProvider, s_mSendQueue, s_mSendQueueSize,
           s_mIsSending, s_pc, s_hand, s_target, s_lastId, s_wire, s_pushed, s_posted, s_clean>>
servicesVars == <<active, vars, qVars, sVars, mVars, lVars>>

ServicesInit ==
  /\ active \in {"relay", "tasks", "session", "timer", "link"}
  /\ Init /\ DQ!Init /\ SE!Init /\ TQ!Init /\ LK!Init

ServicesNext ==
  /\ UNCHANGED active
  /\ \/ active = "relay" /\ Next /\ UNCHANGED <<qVars, sVars, mVars, lVars>>
     \/ active = "tasks" /\ DQ!Next /\ UNCHANGED <<vars, sVars, mVars, lVars>>
     \/ active = "session" /\ SE!Next /\ UNCHANGED <<vars, qVars, mVars, lVars>>
     \/ active = "timer" /\ TQ!Next /\ UNCHANGED <<vars, qVars, sVars, lVars>>
     \/ active = "link" /\ LK!Next /\ UNCHANGED <<vars, qVars, sVars, mVars>>

OneOrTwoSessions == {[t \in Tasks |-> 0], [t \in Tasks |-> IF t = t2 THEN 1 ELSE 0]}
AnyResult == {"sent", "invalid", "unsent"}
OneSession == [t \in LocalTasks |-> 0]

(* The parts that do not run stay in one initial state of theirs. *)
MCInit ==
  /\ ServicesInit
  /\ active # "relay" => \A t \in Tasks : SessionOf[t] = 0

(***************************************************************************)
(* The fairness of each part, for the part that runs; weak fairness is     *)
(* enough for the task queue, whose own specification assumes fair         *)
(* mutexes, and the link needs no DB server that ever answers.             *)
(***************************************************************************)
RelayFairness ==
  /\ WF_vars(active = "relay" /\ Initialize) /\ WF_vars(active = "relay" /\ Shutdown)
  /\ \A t \in Tasks : WF_vars(active = "relay" /\ (EnqueueTask_Lock(t) \/ EnqueueTask_Push(t)))
  /\ \A w \in Workers : WF_vars(active = "relay" /\ WorkerThreadFunc(w))
  /\ \A w \in Workers : \A s \in Owned(w) :
       SF_vars(active = "relay" /\ Worker_Loop(w) /\ s \in timedOut'[w])

TaskFairness ==
  /\ WF_qVars(active = "tasks" /\ DQ!Initialize) /\ WF_qVars(active = "tasks" /\ DQ!Shutdown)
  /\ \A t \in LocalTasks : WF_qVars(active = "tasks" /\ q_epc[t] # "idle" /\ DQ!EnqueueTask(t))
  /\ \A w \in DQ!Workers : WF_qVars(active = "tasks" /\ DQ!WorkerThreadFunc(w))

SessionFairness ==
  /\ WF_sVars(active = "session" /\ SE!AttachProvider)
  /\ WF_sVars(active = "session" /\ \E x \in SendWorkers : SE!SendCompletion(x))
  /\ \A x \in Senders : WF_sVars(active = "session" /\ SE!Send(x))
  /\ \A x \in SE!Threads : WF_sVars(active = "session" /\ (SE!Sending(x) \/ SE!Closing(x)))

TimerFairness ==
  /\ WF_mVars(active = "timer" /\ TQ!Tick) /\ WF_mVars(active = "timer" /\ TQ!WorkerStep)
  /\ \A h \in TimerHandles : WF_mVars(active = "timer" /\ TQ!CallerStep(h))

LinkFairness ==
  /\ WF_lVars(active = "link" /\ LK!Receiver) /\ WF_lVars(active = "link" /\ LK!Reconnector)
  /\ WF_lVars(active = "link" /\ (LK!Main_Connect \/ LK!Main_Spawn))
  /\ WF_lVars(active = "link" /\ LK!Stopping)

MCSpec ==
  /\ MCInit /\ [][ServicesNext]_servicesVars
  /\ RelayFairness /\ TaskFairness /\ SessionFairness /\ TimerFairness /\ LinkFairness

(***************************************************************************)
(* Properties                                                              *)
(***************************************************************************)
(* Local task queue, with a log that may fail to open: while it runs, a task *)
(* that was pushed is processed (its notify cannot be lost), and on the way  *)
(* no task is answered twice and none marked done before it has succeeded.   *)
QueuedTaskRuns == DQ!QueuedTaskRuns /\ [](DQ!NothingLostByCrash /\ DQ!AnsweredOnce)

(* No interleaving of Send, completion and the release of mIsSending leaves  *)
(* a message queued on an open connection with nobody sending.               *)
SendQueueDrains == SE!SendQueueDrains

(* Every scheduled timer fires unless it is cancelled or the queue is shut   *)
(* down: no order of insertions, notifies and waits leaves it in the heap.   *)
TimerFires == TQ!TimerFires

(* Stop returns wherever the link and the reconnect thread are.              *)
StopReturns == LK!StopReturns
=============================================================================
