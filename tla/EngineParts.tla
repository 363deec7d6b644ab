----------------------------- MODULE EngineParts -----------------------------
(***************************************************************************)
(* Two parts of the network side, the names of each kept apart by a        *)
(* prefix: the event bus (b_) and the task scope of a session (a_).        *)
(***************************************************************************)
EXTENDS Naturals

CONSTANTS BusPublishers, BusSubscribers, BusTypes, BusCapacity,
          ScopeTasks, ScopeMayThrow

VARIABLES
  b_mSubscribers, b_spc, b_topic, b_held, b_shut, b_queue, b_log, b_ppc, b_event,
  b_liveChannels, b_needsPrune, b_due,
  a_mCancelled, a_mInFlight, a_tpc, a_opc, a_resets, a_lateRun

EB == INSTANCE NetworkEventBus WITH
  Publishers <- BusPublishers, Subscribers <- BusSubscribers, Types <- BusTypes,
  Capacity <- BusCapacity, mSubscribers <- b_mSubscribers, spc <- b_spc, topic <- b_topic,
  held <- b_held, shut <- b_shut, queue <- b_queue, log <- b_log, ppc <- b_ppc,
  event <- b_event, liveChannels <- b_liveChannels, needsPrune <- b_needsPrune, due <- b_due

SC == INSTANCE AsyncScope WITH
  Tasks <- ScopeTasks, MayThrow <- ScopeMayThrow, mCancelled <- a_mCancelled,
  mInFlight <- a_mInFlight, tpc <- a_tpc, opc <- a_opc, resets <- a_resets, lateRun <- a_lateRun

bVars == <<b_mSubscribers, b_spc, b_topic, b_held, b_shut, b_queue, b_log, b_ppc, b_event,
           b_liveChannels, b_needsPrune, b_due>>
aVars == <<a_mCancelled, a_mInFlight, a_tpc, a_opc, a_resets, a_lateRun>>

(***************************************************************************)
(* Properties                                                              *)
(***************************************************************************)
(* A Publish that has returned has sent its event once to every channel that *)
(* was subscribed before the call, stayed open and had room, never twice and *)
(* never to a channel of another type.                                       *)
BusDelivers == EB!TypeOK /\ EB!BusDelivers

(* AsyncScope: the count is exactly the tasks between BeginTask and EndTask, *)
(* and once WaitForDrain has returned on a cancelled scope no submitted      *)
(* function runs until Reset.                                                *)
NothingRunsAfterDrain == SC!TypeOK /\ SC!CountExact /\ SC!NothingRunsAfterDrain
===============================================================================
