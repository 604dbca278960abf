--------------------------- MODULE JobQueueProofs ---------------------------
(* Theorems about JobQueue, for every number of runs and items, every      *)
(* bound and every choice of events.  First what holds of the queue by its *)
(* own variables, then, from "The lifecycle" on, that it implements        *)
(* RunLifecycle and what follows for a run from its trigger to its end.    *)
EXTENDS JobQueue, TLAPS

USE DEF RunStatus, RunError, JobStatus, ItemStatus, Closed, WorkerPc

-----------------------------------------------------------------------------
(* The operators that compute new rows keep them well typed.               *)

LEMMA FirstItem == 1 \in Item
  BY SizesAssumption DEF Item

LEMMA JobParts == ASSUME NEW j \in Job
                  PROVE  j[1] \in Run /\ Sibling(j) \in Job
  BY DEF Job, Sibling

LEMMA CloseType ==
    ASSUME NEW its \in [Item -> ItemStatus], NEW s \in Closed
    PROVE  Close(its, s) \in [Item -> Closed]
  BY DEF Close

LEMMA OutcomesFinal ==
    ASSUME NEW its, NEW confirmed \in BOOLEAN
    PROVE  Outcomes(its, confirmed) \in FinalStatus
  BY DEF Outcomes, FinalStatus

LEMMA CancelPendingType ==
    ASSUME NEW js \in [Job -> JobStatus], NEW R
    PROVE  CancelPending(js, R) \in [Job -> JobStatus]
  BY DEF CancelPending

ItemTypes ==
    /\ item \in [Run -> [Item -> ItemStatus]]
    /\ runStatus \in [Run -> RunStatus]
    /\ runError \in [Run -> RunError]

LEMMA ReconcileType ==
    ASSUME ItemTypes, NEW R \in SUBSET Run, NEW note \in RunError, Reconcile(R, note)
    PROVE  ItemTypes'
  <1>. DEFINE its == [r \in Run |->
                   IF r \in Unfinished(R) THEN Close(item[r], "cancelled") ELSE item[r]]
  <1>1. \A r \in Run : Close(item[r], "cancelled") \in [Item -> ItemStatus]
    BY CloseType DEF ItemTypes
  <1>2. item' = its /\ its \in [Run -> [Item -> ItemStatus]]
    BY <1>1 DEF Reconcile, ItemTypes
  <1>3. runStatus' \in [Run -> RunStatus]
    <2>1. \A r \in Run : Outcomes(its[r], FALSE) \in RunStatus
      BY OutcomesFinal DEF FinalStatus
    <2>. QED BY <2>1 DEF Reconcile, ItemTypes
  <1>4. runError' \in [Run -> RunError]
    BY DEF Reconcile, ItemTypes
  <1>. QED BY <1>2, <1>3, <1>4 DEF ItemTypes

LEMMA ReportFailureType ==
    ASSUME ItemTypes, NEW r \in Run, ReportFailure(r)
    PROVE  ItemTypes'
  <1>1. Close(item[r], "failed") \in [Item -> ItemStatus]
    BY CloseType DEF ItemTypes
  <1>2. Outcomes(Close(item[r], "failed"), TRUE) \in RunStatus
    BY OutcomesFinal DEF FinalStatus
  <1>. QED BY <1>1, <1>2 DEF ReportFailure, ItemTypes

LEMMA RecordTerminalType ==
    ASSUME ItemTypes, NEW m \in Report, RecordTerminal(m)
    PROVE  ItemTypes'
  <1>. DEFINE its == [item[m.run] EXCEPT ![m.idx] = m.status]
  <1>1. m.run \in Run /\ m.idx \in Item /\ m.status \in Closed
    BY DEF Report
  <1>2. its \in [Item -> ItemStatus]
    BY <1>1 DEF ItemTypes
  <1>3. Outcomes(its, TRUE) \in RunStatus
    BY OutcomesFinal DEF FinalStatus
  <1>. QED BY <1>1, <1>2, <1>3 DEF RecordTerminal, ItemTypes

-----------------------------------------------------------------------------
(* Type correctness *)

(* The parts of TypeOK, one per part of the system. *)
JobTypes ==
    /\ jobStatus \in [Job -> JobStatus]
    /\ attempts \in [Job -> 0..MaxAttempts]
    /\ cancelRequested \in [Job -> BOOLEAN]
    /\ lease \in [Job -> 0..LeaseTicks]
    /\ pauseRequested \in BOOLEAN
    /\ activeJob \in Job \cup {None}
    /\ silence \in 0..(OfflineTicks + 1)

NetTypes ==
    /\ link \in BOOLEAN
    /\ polls \subseteq {"live", "dead"}
    /\ sending \in Claim \cup {None}
    /\ beat \in Beat \cup {None}
    /\ beaten \in BOOLEAN
    /\ ticks \subseteq Run \X Item
    /\ late \subseteq Report

WorkerTypes ==
    /\ pc \in WorkerPc
    /\ cur \in Job \cup {None}
    /\ todo \subseteq Item
    /\ at \in Item
    /\ result \in Closed
    /\ stopFlag \in BOOLEAN
    /\ pauseFlag \in BOOLEAN
    /\ hung \in BOOLEAN
    /\ installed \subseteq Run

HistoryTypes == userStopped \subseteq Run /\ events \in 0..MaxEvents

LEMMA TypeParts == TypeOK <=> ItemTypes /\ JobTypes /\ NetTypes /\ WorkerTypes /\ HistoryTypes
  BY DEF TypeOK, ItemTypes, JobTypes, NetTypes, WorkerTypes, HistoryTypes

LEMMA RationedType ==
    ASSUME HistoryTypes, NEW e, Rationed(e)
    PROVE  events' \in 0..MaxEvents
  BY EventAssumption DEF HistoryTypes, Rationed

LEMMA InitTypes == Init => TypeOK
  <1>. SUFFICES ASSUME Init PROVE TypeOK
    OBVIOUS
  <1>1. ItemTypes
    BY DEF Init, ItemTypes
  <1>2. JobTypes
    <2>1. 0 \in 0..MaxAttempts /\ 0 \in 0..LeaseTicks /\ 0 \in 0..(OfflineTicks + 1)
      BY AttemptsAssumption, TimeAssumption
    <2>. QED BY <2>1 DEF Init, JobTypes
  <1>3. NetTypes /\ WorkerTypes
    BY FirstItem DEF Init, NetTypes, WorkerTypes
  <1>4. HistoryTypes
    <2>1. userStopped = {} /\ events = 0
      BY DEF Init
    <2>. QED BY <2>1, EventAssumption DEF HistoryTypes
  <1>. QED BY <1>1, <1>2, <1>3, <1>4, TypeParts

LEMMA NetUnchanged == NetTypes /\ UNCHANGED netVars => NetTypes'
  BY DEF netVars, NetTypes

(* TypeOK alone is not inductive: an executing worker must have a job.      *)
Busy == {"preparing", "choosing", "running", "reporting", "finishing"}

Attached ==
    /\ pc \in Busy => cur \in Job
    /\ hung => pc = "running" /\ cur[2] = "bench"

LEMMA WorkerUnchanged ==
    WorkerTypes /\ Attached /\ UNCHANGED workerVars => WorkerTypes' /\ Attached'
  BY DEF workerVars, WorkerTypes, Attached

Types == ItemTypes /\ JobTypes /\ NetTypes /\ WorkerTypes /\ HistoryTypes /\ Attached

LEMMA BrowserTypes ==
    ASSUME ItemTypes, JobTypes, NetTypes, WorkerTypes, HistoryTypes, Attached, Browser
    PROVE  Types'
  <1>. USE NetUnchanged, WorkerUnchanged DEF Types
  <1>1. ASSUME NEW r \in Run, Trigger(r) PROVE Types'
    <2>1. ItemTypes'
      BY <1>1 DEF Trigger, ItemTypes
    <2>2. JobTypes'
      BY <1>1 DEF Trigger, JobTypes
    <2>3. NetTypes' /\ WorkerTypes' /\ Attached' /\ HistoryTypes'
      BY <1>1 DEF Trigger, HistoryTypes
    <2>. QED BY <2>1, <2>2, <2>3
  <1>2. ASSUME NEW r \in Run, Stop(r) PROVE Types'
    <2>. DEFINE S == {q \in Run : Batch[q] = Batch[r] /\ Active(q)}
                signal == {q \in S : Claimed(q) /\ ~Offline}
    <2>1. ItemTypes'
      <3>1. Reconcile(S \ signal, "stopped by user")
        BY <1>2 DEF Stop
      <3>. HIDE DEF S, signal
      <3>2. S \ signal \in SUBSET Run
        BY DEF S
      <3>. QED BY <3>1, <3>2, ReconcileType
    <2>2. JobTypes'
      <3>1. jobStatus' \in [Job -> JobStatus]
        BY <1>2, CancelPendingType DEF Stop, JobTypes
      <3>2. cancelRequested' \in [Job -> BOOLEAN]
        BY <1>2 DEF Stop, JobTypes
      <3>. QED BY <1>2, <3>1, <3>2 DEF Stop, JobTypes
    <2>3. NetTypes' /\ WorkerTypes' /\ Attached'
      BY <1>2 DEF Stop
    <2>4. HistoryTypes'
      BY <1>2, RationedType DEF Stop, HistoryTypes
    <2>. QED BY <2>1, <2>2, <2>3, <2>4
  <1>3. ASSUME NEW r \in Run, Pause(r) PROVE Types'
    <2>1. HistoryTypes'
      BY <1>3, RationedType DEF Pause, HistoryTypes
    <2>2. ItemTypes' /\ JobTypes'
      BY <1>3 DEF Pause, ItemTypes, JobTypes
    <2>3. NetTypes' /\ WorkerTypes' /\ Attached'
      BY <1>3 DEF Pause
    <2>. QED BY <2>1, <2>2, <2>3
  <1>4. ASSUME Resume PROVE Types'
    <2>1. ItemTypes' /\ JobTypes'
      BY <1>4 DEF Resume, ItemTypes, JobTypes
    <2>2. NetTypes' /\ WorkerTypes' /\ Attached' /\ HistoryTypes'
      BY <1>4 DEF Resume, HistoryTypes
    <2>. QED BY <2>1, <2>2
  <1>. QED BY <1>1, <1>2, <1>3, <1>4 DEF Browser

LEMMA ItemsUnchanged == ItemTypes /\ UNCHANGED <<item, runStatus, runError>> => ItemTypes'
  BY DEF ItemTypes

LEMMA JobsUnchanged ==
    JobTypes /\ UNCHANGED <<jobStatus, attempts, cancelRequested, lease, pauseRequested,
                            activeJob, silence>> => JobTypes'
  BY DEF JobTypes

LEMMA DbUnchanged == ItemTypes /\ JobTypes /\ UNCHANGED dbVars => ItemTypes' /\ JobTypes'
  BY ItemsUnchanged, JobsUnchanged DEF dbVars

LEMMA HistoryUnchanged == HistoryTypes /\ UNCHANGED <<userStopped, events>> => HistoryTypes'
  BY DEF HistoryTypes

LEMMA HistoryRationed ==
    ASSUME HistoryTypes, NEW e, Rationed(e), UNCHANGED userStopped
    PROVE  HistoryTypes'
  BY RationedType DEF HistoryTypes

LEMMA ZeroSilence == 0 \in 0..(OfflineTicks + 1) /\ 0 \in 0..LeaseTicks /\ LeaseTicks \in 0..LeaseTicks
  BY TimeAssumption

LEMMA QueueTypes ==
    ASSUME ItemTypes, JobTypes, NetTypes, WorkerTypes, HistoryTypes, Attached, Queue
    PROVE  Types'
  <1>. USE NetUnchanged, WorkerUnchanged, HistoryUnchanged DEF Types
  <1>1. ASSUME LongPoll PROVE Types'
    <2>1. ItemTypes' /\ JobTypes'
      BY <1>1, ItemsUnchanged, ZeroSilence DEF LongPoll, JobTypes
    <2>2. NetTypes' /\ WorkerTypes' /\ Attached'
      BY <1>1 DEF LongPoll, NetTypes, WorkerTypes, Attached, Busy
    <2>. QED BY <1>1, <2>1, <2>2 DEF LongPoll
  <1>2. ASSUME PollAgain PROVE Types'
    <2>1. ItemTypes' /\ JobTypes'
      BY <1>2, ItemsUnchanged, ZeroSilence DEF PollAgain, JobTypes
    <2>. QED BY <1>2, <2>1 DEF PollAgain
  <1>3. ASSUME DeadPollEnds PROVE Types'
    <2>1. NetTypes'
      BY <1>3 DEF DeadPollEnds, NetTypes
    <2>. QED BY <1>3, <2>1, DbUnchanged DEF DeadPollEnds
  <1>4. ASSUME NEW p \in polls, ClaimNext(p) PROVE Types'
    <2>1. PICK j \in Claimable :
            /\ jobStatus' = [jobStatus EXCEPT ![j] = "claimed"]
            /\ Extend(j)
            /\ activeJob' = j
            /\ IF j[2] = "bench"
               THEN /\ runStatus' = IF runStatus[j[1]] \in FinalStatus THEN runStatus
                                    ELSE [runStatus EXCEPT ![j[1]] = "running"]
                    /\ pauseRequested' = FALSE
               ELSE UNCHANGED <<runStatus, pauseRequested>>
            /\ sending' = [job |-> j, poll |-> p,
                           todo |-> {i \in Item : item[j[1]][i] \notin Closed}]
      BY <1>4 DEF ClaimNext
    <2>2. j \in Job
      BY DEF Claimable
    <2>3. UNCHANGED <<runError, item, attempts, cancelRequested, silence, link, beat, beaten,
                      ticks, late, workerVars, userStopped, events>>
          /\ polls' = polls \ {p}
      BY <1>4 DEF ClaimNext
    <2>4. ItemTypes'
      BY <2>1, <2>3 DEF ItemTypes
    <2>5. JobTypes'
      BY <2>1, <2>2, <2>3, ZeroSilence DEF JobTypes, Extend
    <2>6. NetTypes'
      <3>1. sending' \in Claim
        BY <2>1, <2>2 DEF Claim, NetTypes
      <3>. QED BY <3>1, <2>3 DEF NetTypes
    <2>. QED BY <2>3, <2>4, <2>5, <2>6
  <1>5. ASSUME Deliver PROVE Types'
    <2>1. sending \in Claim
      BY <1>5 DEF Deliver, NetTypes
    <2>2. NetTypes'
      BY <1>5 DEF Deliver, NetTypes
    <2>3. WorkerTypes' /\ Attached'
      BY <1>5, <2>1 DEF Deliver, WorkerTypes, Claim, Attached, Busy
    <2>. QED BY <1>5, <2>2, <2>3, DbUnchanged DEF Deliver
  <1>6. ASSUME ResponseLost PROVE Types'
    <2>1. NetTypes'
      BY <1>6 DEF ResponseLost, NetTypes
    <2>. QED BY <1>6, <2>1, DbUnchanged DEF ResponseLost
  <1>7. ASSUME ResponseClosed PROVE Types'
    <2>1. NetTypes'
      BY <1>7 DEF ResponseClosed, NetTypes
    <2>2. ItemTypes' /\ WorkerTypes' /\ Attached'
      BY <1>7, ItemsUnchanged DEF ResponseClosed
    <2>3. HistoryTypes'
      BY <1>7, HistoryRationed DEF ResponseClosed
    <2>4. JobTypes'
      <3>. DEFINE j == sending.job
      <3>1. CASE jobStatus[j] = "claimed"
        <4>1. /\ jobStatus' = [jobStatus EXCEPT ![j] = "pending"]
              /\ lease' = [lease EXCEPT ![j] = 0]
              /\ Release({j})
          BY <1>7, <3>1 DEF ResponseClosed
        <4>2. UNCHANGED <<attempts, cancelRequested, pauseRequested, silence>>
          BY <1>7 DEF ResponseClosed
        <4>. QED BY <4>1, <4>2, ZeroSilence DEF JobTypes, Release
      <3>2. CASE jobStatus[j] # "claimed"
        BY <1>7, <3>2, JobsUnchanged DEF ResponseClosed
      <3>. QED BY <3>1, <3>2
    <2>. QED BY <2>1, <2>2, <2>3, <2>4
  <1>. QED BY <1>1, <1>2, <1>3, <1>4, <1>5, <1>6, <1>7 DEF Queue

LEMMA HeartbeatTypes ==
    ASSUME ItemTypes, JobTypes, NetTypes, WorkerTypes, HistoryTypes, Attached, Heartbeat
    PROVE  Types'
  <1>. USE WorkerUnchanged, HistoryUnchanged DEF Types
  <1>1. ASSUME BeatSend PROVE Types'
    <2>1. beat' \in Beat
      BY <1>1 DEF BeatSend, Beat, WorkerTypes
    <2>2. NetTypes'
      BY <1>1, <2>1 DEF BeatSend, NetTypes
    <2>. QED BY <1>1, <2>2, DbUnchanged DEF BeatSend
  <1>2. ASSUME BeatReceive PROVE Types'
    <2>. DEFINE j == beat.job
                held == j # None /\ jobStatus[j] = "claimed"
    <2>1. beat \in Beat /\ j \in Job \cup {None}
      BY <1>2 DEF BeatReceive, NetTypes, Beat
    <2>2. JobTypes'
      <3>1. lease' \in [Job -> 0..LeaseTicks]
        BY <1>2, <2>1, ZeroSilence DEF BeatReceive, Extend, JobTypes
      <3>. QED BY <1>2, <2>1, <3>1, ZeroSilence DEF BeatReceive, JobTypes
    <2>3. beat' \in Beat \cup {None}
      <3>1. (j # None /\ (held => cancelRequested[j])) \in BOOLEAN
        BY <2>1 DEF JobTypes
      <3>. QED BY <1>2, <2>1, <3>1 DEF BeatReceive, JobTypes, Beat
    <2>4. NetTypes'
      BY <1>2, <2>3 DEF BeatReceive, NetTypes
    <2>. QED BY <1>2, <2>2, <2>4, ItemsUnchanged DEF BeatReceive
  <1>3. ASSUME BeatReturn PROVE Types'
    <2>1. beat \in Beat
      BY <1>3 DEF BeatReturn, NetTypes
    <2>2. WorkerTypes' /\ Attached'
      BY <1>3, <2>1 DEF BeatReturn, Stops, WorkerTypes, Beat, Attached
    <2>3. NetTypes'
      BY <1>3 DEF BeatReturn, NetTypes
    <2>. QED BY <1>3, <2>2, <2>3, DbUnchanged DEF BeatReturn
  <1>4. ASSUME OrphanBeatLost PROVE Types'
    <2>1. NetTypes'
      BY <1>4 DEF OrphanBeatLost, NetTypes
    <2>. QED BY <1>4, <2>1, DbUnchanged DEF OrphanBeatLost
  <1>. QED BY <1>1, <1>2, <1>3, <1>4 DEF Heartbeat

LEMMA ExecuteTypes ==
    ASSUME ItemTypes, JobTypes, NetTypes, WorkerTypes, HistoryTypes, Attached, Execute
    PROVE  Types'
  <1>. USE DbUnchanged, NetUnchanged, HistoryUnchanged DEF Types
  <1>1. ASSUME Prepare PROVE Types'
    <2>1. WorkerTypes' /\ Attached'
      BY <1>1 DEF Prepare, WorkerTypes, Attached, Busy
    <2>. QED BY <1>1, <2>1 DEF Prepare
  <1>2. ASSUME NextItem PROVE Types'
    <2>1. at' \in Item
      BY <1>2 DEF NextItem, WorkerTypes
    <2>2. WorkerTypes' /\ Attached'
      BY <1>2, <2>1 DEF NextItem, WorkerTypes, Attached, Busy
    <2>3. cur \in Job
      BY <1>2 DEF NextItem, Attached, Busy
    <2>4. ticks' \subseteq Run \X Item
      BY <1>2, <2>1, <2>3, JobParts DEF NextItem, NetTypes
    <2>5. NetTypes'
      BY <1>2, <2>4 DEF NextItem, NetTypes
    <2>. QED BY <1>2, <2>2, <2>5 DEF NextItem
  <1>3. ASSUME FinishItem PROVE Types'
    <2>1. WorkerTypes' /\ Attached'
      BY <1>3, OutcomeAssumption DEF FinishItem, WorkerTypes, Attached, Busy
    <2>. QED BY <1>3, <2>1 DEF FinishItem
  <1>4. ASSUME Hang PROVE Types'
    <2>1. WorkerTypes' /\ Attached'
      BY <1>4 DEF Hang, WorkerTypes, Attached
    <2>. QED BY <1>4, <2>1, HistoryRationed DEF Hang
  <1>5. ASSUME FinishInstall PROVE Types'
    <2>1. cur \in Job /\ cur[1] \in Run
      BY <1>5, JobParts DEF FinishInstall, Attached, Busy
    <2>2. installed' \subseteq Run
      BY <1>5, <2>1 DEF FinishInstall, WorkerTypes
    <2>3. WorkerTypes' /\ Attached'
      <3>1. /\ pc' = "finishing" /\ result' \in {"done", "failed"}
            /\ UNCHANGED <<cur, todo, at, stopFlag, pauseFlag, hung>>
            /\ cur[2] = "install" /\ pc = "running"
        BY <1>5 DEF FinishInstall
      <3>2. WorkerTypes'
        BY <2>2, <3>1 DEF WorkerTypes
      <3>3. Attached'
        BY <2>1, <3>1 DEF Attached
      <3>. QED BY <3>2, <3>3
    <2>. QED BY <1>5, <2>3 DEF FinishInstall
  <1>6. ASSUME FinishJob PROVE Types'
    <2>1. WorkerTypes' /\ Attached'
      BY <1>6 DEF FinishJob, WorkerTypes, Attached, Busy
    <2>. QED BY <1>6, <2>1 DEF FinishJob
  <1>. QED BY <1>1, <1>2, <1>3, <1>4, <1>5, <1>6 DEF Execute

LEMMA ThisReportType ==
    ASSUME WorkerTypes, cur \in Job
    PROVE  ThisReport \in Report
  BY JobParts DEF ThisReport, Report, WorkerTypes

LEMMA DismissType ==
    ASSUME WorkerTypes, Dismiss, UNCHANGED installed
    PROVE  WorkerTypes' /\ Attached'
  BY FirstItem DEF Dismiss, WorkerTypes, Attached, Busy

LEMMA RecordOutcomeType ==
    ASSUME ItemTypes, JobTypes, NEW j \in Job, NEW ok \in BOOLEAN, RecordOutcome(j, ok),
           UNCHANGED <<attempts, cancelRequested, pauseRequested, silence>>
    PROVE  ItemTypes' /\ JobTypes'
  <1>1. CASE jobStatus[j] # "claimed"
    BY <1>1, ItemsUnchanged, JobsUnchanged DEF RecordOutcome
  <1>2. CASE jobStatus[j] = "claimed"
    <2>1. ItemTypes'
      BY <1>2, ItemsUnchanged, ReportFailureType, JobParts DEF RecordOutcome
    <2>2. jobStatus' \in [Job -> JobStatus]
      <3>1. jobStatus' = IF ok THEN [jobStatus EXCEPT ![j] = "completed"]
                         ELSE CancelPending([jobStatus EXCEPT ![j] = "failed"], {j[1]})
        BY <1>2 DEF RecordOutcome
      <3>2. /\ [jobStatus EXCEPT ![j] = "completed"] \in [Job -> JobStatus]
            /\ [jobStatus EXCEPT ![j] = "failed"] \in [Job -> JobStatus]
        BY DEF JobTypes
      <3>. QED BY <3>1, <3>2, CancelPendingType
    <2>3. lease' = [lease EXCEPT ![j] = 0] /\ Release({j})
      BY <1>2 DEF RecordOutcome
    <2>4. lease' \in [Job -> 0..LeaseTicks] /\ activeJob' \in Job \cup {None}
      BY <2>3, ZeroSilence DEF Release, JobTypes
    <2>. QED BY <2>1, <2>2, <2>4 DEF JobTypes
  <1>. QED BY <1>1, <1>2

LEMMA DeliveriesTypes ==
    ASSUME ItemTypes, JobTypes, NetTypes, WorkerTypes, HistoryTypes, Attached, Deliveries
    PROVE  Types'
  <1>. USE NetUnchanged, JobsUnchanged, HistoryUnchanged DEF Types
  <1>1. ASSUME ReportItem PROVE Types'
    <2>1. ItemTypes'
      BY <1>1, ThisReportType, RecordTerminalType DEF ReportItem, Attached, Busy
    <2>2. WorkerTypes' /\ Attached'
      BY <1>1 DEF ReportItem, WorkerTypes, Attached, Busy
    <2>. QED BY <1>1, <2>1, <2>2 DEF ReportItem
  <1>2. ASSUME ReportTimesOut PROVE Types'
    <2>1. ThisReport \in Report
      BY <1>2, ThisReportType DEF ReportTimesOut, Attached, Busy
    <2>2. NetTypes'
      BY <1>2, <2>1 DEF ReportTimesOut, NetTypes
    <2>. QED BY <1>2, <2>2, DbUnchanged, WorkerUnchanged, HistoryRationed DEF ReportTimesOut
  <1>3. ASSUME ReportGivenUp PROVE Types'
    <2>1. WorkerTypes' /\ Attached'
      BY <1>3 DEF ReportGivenUp, WorkerTypes, Attached, Busy
    <2>. QED BY <1>3, <2>1, DbUnchanged DEF ReportGivenUp
  <1>4. ASSUME NEW m \in late, LateReport(m) PROVE Types'
    <2>1. ItemTypes'
      BY <1>4, RecordTerminalType DEF LateReport, NetTypes
    <2>2. NetTypes'
      BY <1>4 DEF LateReport, NetTypes
    <2>. QED BY <1>4, <2>1, <2>2, WorkerUnchanged DEF LateReport
  <1>5. ASSUME NEW t \in ticks, ProgressTick(t) PROVE Types'
    <2>1. t[1] \in Run /\ t[2] \in Item
      BY <1>5 DEF NetTypes
    <2>2. item' \in [Run -> [Item -> ItemStatus]]
      <3>1. CASE UNCHANGED item
        BY <3>1 DEF ItemTypes
      <3>2. CASE item' = [item EXCEPT ![t[1]][t[2]] = "active"]
        BY <3>2, <2>1 DEF ItemTypes
      <3>. QED BY <1>5, <3>1, <3>2 DEF ProgressTick
    <2>3. ItemTypes'
      BY <1>5, <2>2 DEF ProgressTick, ItemTypes
    <2>4. NetTypes'
      BY <1>5 DEF ProgressTick, NetTypes
    <2>. QED BY <1>5, <2>3, <2>4, WorkerUnchanged DEF ProgressTick
  <1>6. ASSUME Complete PROVE Types'
    <2>1. ItemTypes' /\ JobTypes'
      BY <1>6, RecordOutcomeType DEF Complete, Attached, Busy
    <2>2. WorkerTypes' /\ Attached' /\ HistoryTypes'
      <3>1. CASE Dismiss /\ UNCHANGED events
        BY <1>6, <3>1, DismissType DEF Complete
      <3>2. CASE Rationed("late") /\ UNCHANGED <<pc, cur, todo, at, result, stopFlag, pauseFlag, hung>>
        BY <1>6, <3>2, WorkerUnchanged, HistoryRationed DEF Complete, workerVars
      <3>. QED BY <1>6, <3>1, <3>2 DEF Complete
    <2>. QED BY <1>6, <2>1, <2>2 DEF Complete
  <1>7. ASSUME CompleteGivenUp PROVE Types'
    BY <1>7, DismissType, DbUnchanged DEF CompleteGivenUp
  <1>. QED BY <1>1, <1>2, <1>3, <1>4, <1>5, <1>6, <1>7 DEF Deliveries

LEMMA SeverType ==
    ASSUME NetTypes, Sever, UNCHANGED <<beaten, ticks>>,
           link' \in BOOLEAN, late' \subseteq Report
    PROVE  NetTypes'
  <1>1. polls' \subseteq {"live", "dead"}
    BY DEF Sever, NetTypes
  <1>2. sending' \in Claim \cup {None}
    <2>1. sending # None => [sending EXCEPT !.poll = "dead"] \in Claim
      BY DEF NetTypes, Claim
    <2>. QED BY <2>1 DEF Sever
  <1>3. beat' \in Beat \cup {None}
    <2>1. beat # None => [beat EXCEPT !.phase = "orphan"] \in Beat
      BY DEF NetTypes, Beat
    <2>. QED BY <2>1 DEF Sever
  <1>. QED BY <1>1, <1>2, <1>3 DEF NetTypes

LEMMA WorldTypes ==
    ASSUME ItemTypes, JobTypes, NetTypes, WorkerTypes, HistoryTypes, Attached, World
    PROVE  Types'
  <1>. USE DEF Types
  <1>1. ASSUME Outage PROVE Types'
    <2>1. NetTypes'
      BY <1>1, SeverType DEF Outage, NetTypes
    <2>2. WorkerTypes' /\ Attached'
      BY <1>1 DEF Outage, WorkerTypes, Attached, Busy
    <2>. QED BY <1>1, <2>1, <2>2, DbUnchanged, HistoryRationed DEF Outage
  <1>2. ASSUME Reconnect PROVE Types'
    <2>1. NetTypes'
      BY <1>2 DEF Reconnect, NetTypes
    <2>. QED BY <1>2, <2>1, DbUnchanged, WorkerUnchanged, HistoryUnchanged DEF Reconnect
  <1>3. ASSUME Crash PROVE Types'
    <2>1. late' \subseteq Report
      <3>1. CASE late' = late
        BY <3>1 DEF NetTypes
      <3>2. CASE pc = "reporting" /\ late' = late \cup {ThisReport}
        <4>1. ThisReport \in Report
          BY <3>2, ThisReportType DEF Attached, Busy
        <4>. QED BY <3>2, <4>1 DEF NetTypes
      <3>. QED BY <1>3, <3>1, <3>2 DEF Crash
    <2>2. NetTypes'
      BY <1>3, <2>1, SeverType DEF Crash, NetTypes
    <2>3. WorkerTypes' /\ Attached'
      BY <1>3, FirstItem DEF Crash, WorkerTypes, Attached, Busy
    <2>. QED BY <1>3, <2>2, <2>3, DbUnchanged, HistoryRationed DEF Crash
  <1>4. ASSUME Restart PROVE Types'
    <2>1. WorkerTypes' /\ Attached'
      BY <1>4 DEF Restart, WorkerTypes, Attached, Busy
    <2>. QED BY <1>4, <2>1, DbUnchanged, NetUnchanged, HistoryUnchanged DEF Restart
  <1>5. ASSUME Tick PROVE Types'
    <2>1. silence' \in 0..(OfflineTicks + 1)
      BY <1>5, TimeAssumption DEF Tick, JobTypes, Offline
    <2>2. lease' \in [Job -> 0..LeaseTicks]
      <3>1. lease' = [j \in Job |-> IF lease[j] > 0 THEN lease[j] - 1 ELSE 0]
        BY <1>5 DEF Tick
      <3>2. \A j \in Job : (IF lease[j] > 0 THEN lease[j] - 1 ELSE 0) \in 0..LeaseTicks
        BY TimeAssumption DEF JobTypes
      <3>. QED BY <3>1, <3>2
    <2>3. JobTypes'
      BY <1>5, <2>1, <2>2 DEF Tick, JobTypes
    <2>4. NetTypes'
      BY <1>5 DEF Tick, NetTypes
    <2>. QED BY <1>5, <2>3, <2>4, ItemsUnchanged, WorkerUnchanged, HistoryUnchanged DEF Tick
  <1>. QED BY <1>1, <1>2, <1>3, <1>4, <1>5 DEF World

LEMMA MaintenanceTypes ==
    ASSUME ItemTypes, JobTypes, NetTypes, WorkerTypes, HistoryTypes, Attached, Maintenance
    PROVE  Types'
  <1>. USE NetUnchanged, WorkerUnchanged, HistoryUnchanged DEF Types
  <1>1. ASSUME ReapExpiredLeases PROVE Types'
    <2>1. PICK benchFirst \in SUBSET Run :
        LET earlier(j) == (j[2] = "bench") = (j[1] \in benchFirst)
            swept == [j \in Job |->
                IF j \in Doomed THEN "failed"
                ELSE IF j \in Expired
                THEN IF Sibling(j) \in Doomed /\ earlier(j) THEN "cancelled" ELSE "pending"
                ELSE IF jobStatus[j] = "pending" /\ Sibling(j) \in Doomed THEN "cancelled"
                ELSE jobStatus[j]]
            counted == [j \in Job |->
                IF j \in Expired \ Doomed THEN attempts[j] + 1 ELSE attempts[j]]
            stuck == Stuck(swept, counted)
            over == {j[1] : j \in Doomed \cup stuck}
        IN  /\ Expired \cup stuck # {}
            /\ jobStatus' = CancelPending([j \in Job |->
                                IF j \in stuck THEN "failed" ELSE swept[j]],
                                {j[1] : j \in stuck})
            /\ attempts' = counted
            /\ Reconcile(over, "lost")
            /\ Release(Expired \cup stuck)
            /\ UNCHANGED <<cancelRequested, lease, pauseRequested, silence, netVars,
                           workerVars, userStopped, events>>
      BY <1>1 DEF ReapExpiredLeases
    <2>. DEFINE earlier(j) == (j[2] = "bench") = (j[1] \in benchFirst)
                swept == [j \in Job |->
                    IF j \in Doomed THEN "failed"
                    ELSE IF j \in Expired
                    THEN IF Sibling(j) \in Doomed /\ earlier(j) THEN "cancelled" ELSE "pending"
                    ELSE IF jobStatus[j] = "pending" /\ Sibling(j) \in Doomed THEN "cancelled"
                    ELSE jobStatus[j]]
                counted == [j \in Job |->
                    IF j \in Expired \ Doomed THEN attempts[j] + 1 ELSE attempts[j]]
                stuck == Stuck(swept, counted)
                ended == [j \in Job |-> IF j \in stuck THEN "failed" ELSE swept[j]]
                over == {j[1] : j \in Doomed \cup stuck}
    <2>2. swept \in [Job -> JobStatus] /\ ended \in [Job -> JobStatus]
      BY DEF JobTypes
    <2>3. counted \in [Job -> 0..MaxAttempts]
      BY AttemptsAssumption DEF JobTypes, Doomed
    <2>4. stuck \subseteq Job /\ Doomed \subseteq Job
      BY DEF Stuck, Doomed, Expired
    <2>5. over \in SUBSET Run
      BY <2>4, JobParts
    <2>6. /\ jobStatus' = CancelPending(ended, {j[1] : j \in stuck})
          /\ attempts' = counted
          /\ Reconcile(over, "lost")
          /\ activeJob' \in {None, activeJob}
          /\ UNCHANGED <<cancelRequested, lease, pauseRequested, silence, netVars,
                         workerVars, userStopped, events>>
      BY <2>1 DEF Release
    <2>. HIDE DEF swept, counted, stuck, ended, over
    <2>7. jobStatus' \in [Job -> JobStatus]
      BY <2>2, <2>6, CancelPendingType
    <2>8. JobTypes'
      BY <2>3, <2>6, <2>7 DEF JobTypes
    <2>9. ItemTypes'
      BY <2>5, <2>6, ReconcileType
    <2>. QED BY <2>6, <2>8, <2>9
  <1>2. ASSUME StopStalledRun PROVE Types'
    <2>1. cur \in Job /\ cur[1] \in Run
      BY <1>2, JobParts DEF StopStalledRun, Attached, Busy
    <2>2. ItemTypes'
      BY <1>2, <2>1, ReconcileType DEF StopStalledRun
    <2>3. /\ jobStatus' = CancelPending([jobStatus EXCEPT ![cur] = "failed"], {cur[1]})
          /\ lease' = [lease EXCEPT ![cur] = 0]
          /\ activeJob' \in {None, activeJob}
          /\ UNCHANGED <<attempts, cancelRequested, pauseRequested, silence>>
      BY <1>2 DEF StopStalledRun, Release
    <2>4. [jobStatus EXCEPT ![cur] = "failed"] \in [Job -> JobStatus]
      BY DEF JobTypes
    <2>5. jobStatus' \in [Job -> JobStatus]
      BY <2>3, <2>4, CancelPendingType
    <2>6. JobTypes'
      BY <2>3, <2>5, ZeroSilence DEF JobTypes
    <2>. QED BY <1>2, <2>2, <2>6 DEF StopStalledRun
  <1>3. ASSUME EndLongPause PROVE Types'
    <2>. DEFINE held == {r \in Run : \E j \in JobsOf(r) : jobStatus[j] \in Live}
                signal == {r \in held : Claimed(r)}
    <2>1. /\ Reconcile(held \ signal, "lost")
          /\ jobStatus' = CancelPending(jobStatus, held)
          /\ cancelRequested' = [j \in Job |->
                cancelRequested[j] \/ (j[1] \in signal /\ jobStatus[j] = "claimed")]
          /\ pauseRequested' = FALSE
          /\ UNCHANGED <<attempts, lease, activeJob, silence, netVars, workerVars,
                         userStopped, events>>
      BY <1>3 DEF EndLongPause
    <2>2. held \ signal \in SUBSET Run
      OBVIOUS
    <2>. HIDE DEF held, signal
    <2>3. ItemTypes'
      BY <2>1, <2>2, ReconcileType
    <2>4. jobStatus' \in [Job -> JobStatus] /\ cancelRequested' \in [Job -> BOOLEAN]
      BY <2>1, CancelPendingType DEF JobTypes
    <2>5. JobTypes'
      BY <2>1, <2>4 DEF JobTypes
    <2>. QED BY <2>1, <2>3, <2>5
  <1>4. ASSUME NEW r \in Run, FinalizeOrphanedRun(r) PROVE Types'
    <2>1. ItemTypes'
      BY <1>4, ReconcileType DEF FinalizeOrphanedRun
    <2>. QED BY <1>4, <2>1, JobsUnchanged DEF FinalizeOrphanedRun
  <1>. QED BY <1>1, <1>2, <1>3, <1>4 DEF Maintenance

LEMMA StutterTypes == Types /\ UNCHANGED vars => Types'
  BY DbUnchanged, NetUnchanged, WorkerUnchanged, HistoryUnchanged DEF Types, vars

LEMMA StepTypes == Types /\ [Next]_vars => Types'
  <1>. SUFFICES ASSUME Types, [Next]_vars PROVE Types'
    OBVIOUS
  <1>1. ItemTypes /\ JobTypes /\ NetTypes /\ WorkerTypes /\ HistoryTypes /\ Attached
    BY DEF Types
  <1>. QED BY <1>1, BrowserTypes, QueueTypes, HeartbeatTypes, ExecuteTypes,
              DeliveriesTypes, WorldTypes, MaintenanceTypes, StutterTypes DEF Next

(* Every row, message and worker variable keeps its type through every     *)
(* step: the attempts of a job never pass MAX_ATTEMPTS, a lease never      *)
(* exceeds LEASE_MS, the run and item columns only hold statuses of        *)
(* schema.sql, and a worker that is executing always knows its job.        *)
THEOREM TypeCorrect == Spec => [](TypeOK /\ Attached)
  <1>1. Init => Types
    BY InitTypes, TypeParts DEF Types, Init, Attached, Busy
  <1>2. Types => TypeOK /\ Attached
    BY TypeParts DEF Types
  <1>. QED BY <1>1, <1>2, StepTypes, PTL DEF Spec

-----------------------------------------------------------------------------
(* The lease of an executing worker's job *)

(* A worker executes one job at a time and polls only between jobs, so the *)
(* poll the server may answer to it is its only one.                       *)
OnePoll ==
    /\ cur # None => pc \in Busy
    /\ "live" \in polls => pc = "polling"
    /\ sending # None /\ sending.poll = "live" => pc = "polling" /\ "live" \notin polls

Held(j) == j # None /\ jobStatus[j] = "claimed"

(* What keeps a held lease ahead of the silence that makes a worker count  *)
(* as offline: a claim on the wire is as fresh as its lease, so is one     *)
(* taken up while a heartbeat sent before it is still on its way, and      *)
(* every heartbeat that ends the silence renews the lease with it.         *)
FreshClaim == sending # None /\ Held(sending.job) => lease[sending.job] = LeaseTicks
FreshStart == beat # None /\ beat.job # cur /\ Held(cur) => lease[cur] = LeaseTicks
InStep == Held(cur) => Offline \/ lease[cur] + silence >= LeaseTicks
Fresh == FreshClaim /\ FreshStart /\ InStep

LEMMA BrowserPoll == ASSUME OnePoll, Browser PROVE OnePoll'
  BY DEF OnePoll, Browser, Trigger, Stop, Pause, Resume, netVars, workerVars

LEMMA QueuePoll == ASSUME Types, OnePoll, Queue PROVE OnePoll'
  <1>1. ASSUME LongPoll PROVE OnePoll'
    BY <1>1 DEF LongPoll, OnePoll, Busy
  <1>2. ASSUME PollAgain \/ DeadPollEnds \/ ResponseLost \/ ResponseClosed PROVE OnePoll'
    BY <1>2 DEF PollAgain, DeadPollEnds, ResponseLost, ResponseClosed, OnePoll, netVars, workerVars
  <1>3. ASSUME NEW p \in polls, ClaimNext(p) PROVE OnePoll'
    <2>1. /\ polls' = polls \ {p} /\ sending'.poll = p
          /\ UNCHANGED <<pc, cur>>
      BY <1>3 DEF ClaimNext, workerVars
    <2>. QED BY <2>1 DEF OnePoll
  <1>4. ASSUME Deliver PROVE OnePoll'
    BY <1>4 DEF Deliver, OnePoll, Busy
  <1>. QED BY <1>1, <1>2, <1>3, <1>4 DEF Queue

LEMMA HeartbeatPoll == ASSUME OnePoll, Heartbeat PROVE OnePoll'
  BY DEF OnePoll, Heartbeat, BeatSend, BeatReceive, BeatReturn, OrphanBeatLost, workerVars

LEMMA ExecutePoll == ASSUME OnePoll, Execute PROVE OnePoll'
  BY DEF OnePoll, Execute, Prepare, NextItem, FinishItem, Hang, FinishInstall, FinishJob,
         netVars, Busy

LEMMA DeliveriesPoll == ASSUME OnePoll, Deliveries PROVE OnePoll'
  BY DEF OnePoll, Deliveries, ReportItem, ReportTimesOut, ReportGivenUp, LateReport,
         ProgressTick, Complete, CompleteGivenUp, Dismiss, netVars, workerVars, Busy

LEMMA WorldPoll == ASSUME Types, OnePoll, World PROVE OnePoll'
  <1>1. ASSUME Sever PROVE "live" \notin polls' /\ (sending' # None => sending'.poll = "dead")
    BY <1>1 DEF Sever, Types, NetTypes, Claim
  <1>2. ASSUME Outage PROVE OnePoll'
    BY <1>1, <1>2 DEF Outage, OnePoll, Busy
  <1>3. ASSUME Crash PROVE OnePoll'
    BY <1>1, <1>3 DEF Crash, OnePoll
  <1>4. ASSUME Reconnect \/ Restart \/ Tick PROVE OnePoll'
    BY <1>4 DEF Reconnect, Restart, Tick, OnePoll, netVars, workerVars, Busy
  <1>. QED BY <1>2, <1>3, <1>4 DEF World

LEMMA MaintenancePoll == ASSUME OnePoll, Maintenance PROVE OnePoll'
  BY DEF OnePoll, Maintenance, ReapExpiredLeases, StopStalledRun, EndLongPause,
         FinalizeOrphanedRun, netVars, workerVars

(* What most steps do to leases and to the messages that carry a job: none  *)
(* is claimed, no held lease changes, no silence ends.                     *)
Quiet ==
    /\ \A j \in Job : jobStatus'[j] = "claimed" => jobStatus[j] = "claimed" /\ lease'[j] = lease[j]
    /\ silence' = silence
    /\ sending' = None \/ (sending # None /\ sending'.job = sending.job)
    /\ \/ beat' = None
       \/ beat # None /\ beat'.job = beat.job /\ cur' \in {cur, None}
       \/ beat'.job = cur'
    /\ cur' \in {cur, None}

LEMMA QuietKeeps == ASSUME Types, Types', Fresh, Quiet PROVE Fresh'
  <1>1. /\ cur \in Job \cup {None} /\ cur' \in {cur, None}
        /\ sending # None => sending.job \in Job
    BY DEF Types, WorkerTypes, NetTypes, Claim, Quiet
  <1>2. FreshClaim'
    BY <1>1 DEF Quiet, Fresh, FreshClaim, Held
  <1>3. FreshStart'
    BY <1>1 DEF Quiet, Fresh, FreshStart, Held
  <1>4. InStep'
    BY <1>1 DEF Quiet, Fresh, InStep, Held, Offline
  <1>. QED BY <1>2, <1>3, <1>4 DEF Fresh

LEMMA NoneClaimed ==
    ASSUME UNCHANGED lease, UNCHANGED silence, UNCHANGED sending, UNCHANGED beat, UNCHANGED cur,
           \A j \in Job : jobStatus'[j] = "claimed" => jobStatus[j] = "claimed"
    PROVE  Quiet
  BY DEF Quiet

LEMMA CancelClaims ==
    ASSUME NEW js, NEW R
    PROVE  \A j \in Job : CancelPending(js, R)[j] = "claimed" => js[j] = "claimed"
  BY DEF CancelPending

LEMMA FailClaims ==
    ASSUME JobTypes, NEW k \in Job, NEW R,
           jobStatus' = CancelPending([jobStatus EXCEPT ![k] = "failed"], R)
    PROVE  \A j \in Job : jobStatus'[j] = "claimed" => jobStatus[j] = "claimed" /\ j # k
  <1>. DEFINE js == [jobStatus EXCEPT ![k] = "failed"]
  <1>1. \A j \in Job : js[j] = IF j = k THEN "failed" ELSE jobStatus[j]
    BY DEF JobTypes
  <1>. HIDE DEF js
  <1>2. \A j \in Job : jobStatus'[j] = "claimed" => js[j] = "claimed"
    BY CancelClaims DEF js
  <1>. QED BY <1>1, <1>2

LEMMA BrowserQuiet == ASSUME Types, Browser PROVE Quiet
  <1>1. UNCHANGED <<lease, silence, sending, beat, cur>>
    BY DEF Browser, Trigger, Stop, Pause, Resume, netVars, workerVars
  <1>2. ASSUME NEW j \in Job PROVE jobStatus'[j] = "claimed" => jobStatus[j] = "claimed"
    <2>1. ASSUME NEW r \in Run, Trigger(r) PROVE jobStatus'[j] = "claimed" => jobStatus[j] = "claimed"
      BY <2>1 DEF Trigger
    <2>2. ASSUME NEW r \in Run, Stop(r) PROVE jobStatus'[j] = "claimed" => jobStatus[j] = "claimed"
      BY <2>2, CancelClaims DEF Stop
    <2>. QED BY <2>1, <2>2 DEF Browser, Pause, Resume
  <1>. QED BY <1>1, <1>2, NoneClaimed

LEMMA ExecuteQuiet == ASSUME Execute PROVE Quiet
  BY NoneClaimed DEF Execute, Prepare, NextItem, FinishItem, Hang, FinishInstall, FinishJob,
         dbVars, netVars

LEMMA DeliveriesQuiet == ASSUME Types, Deliveries PROVE Quiet
  <1>1. ASSUME Complete PROVE Quiet
    <2>1. cur \in Job /\ RecordOutcome(cur, result = "done")
      BY <1>1 DEF Complete, Types, Attached, Busy
    <2>2. \A j \in Job : jobStatus'[j] = "claimed" => jobStatus[j] = "claimed" /\ lease'[j] = lease[j]
      <3>1. CASE jobStatus[cur] # "claimed"
        BY <2>1, <3>1 DEF RecordOutcome
      <3>2. CASE jobStatus[cur] = "claimed" /\ result = "done"
        BY <2>1, <3>2 DEF RecordOutcome, Types, JobTypes
      <3>3. CASE jobStatus[cur] = "claimed" /\ result # "done"
        BY <2>1, <3>3, FailClaims DEF RecordOutcome, Types, JobTypes
      <3>. QED BY <3>1, <3>2, <3>3
    <2>3. UNCHANGED <<silence, sending, beat>> /\ cur' \in {cur, None}
      BY <1>1 DEF Complete, Dismiss, netVars
    <2>. QED BY <2>2, <2>3 DEF Quiet
  <1>2. ASSUME CompleteGivenUp PROVE Quiet
    BY <1>2 DEF CompleteGivenUp, Dismiss, dbVars, netVars, Quiet
  <1>3. ASSUME \/ ReportItem \/ ReportTimesOut \/ ReportGivenUp
               \/ \E m \in late : LateReport(m)
               \/ \E t \in ticks : ProgressTick(t)
        PROVE  Quiet
    BY <1>3, NoneClaimed
    DEF ReportItem, ReportTimesOut, ReportGivenUp, LateReport, ProgressTick, dbVars, netVars,
        workerVars
  <1>. QED BY <1>1, <1>2, <1>3 DEF Deliveries

LEMMA SeverQuiet ==
    ASSUME Types, Sever, UNCHANGED dbVars, cur' \in {cur, None} PROVE Quiet
  <1>1. sending' = None \/ (sending # None /\ sending'.job = sending.job)
    BY DEF Sever, Types, NetTypes, Claim
  <1>2. beat' = None \/ (beat # None /\ beat'.job = beat.job)
    BY DEF Sever, Types, NetTypes, Beat
  <1>. QED BY <1>1, <1>2 DEF dbVars, Quiet

LEMMA MaintenanceQuiet == ASSUME Types, Maintenance PROVE Quiet
  <1>1. ASSUME ReapExpiredLeases PROVE Quiet
    <2>1. \A j \in Job : jobStatus'[j] = "claimed" => jobStatus[j] = "claimed"
      <3>1. PICK swept, stuck, R :
              /\ \A j \in Job : swept[j] = "claimed" => jobStatus[j] = "claimed"
              /\ jobStatus' = CancelPending([j \in Job |->
                                  IF j \in stuck THEN "failed" ELSE swept[j]], R)
        <4>1. PICK benchFirst \in SUBSET Run :
            LET earlier(j) == (j[2] = "bench") = (j[1] \in benchFirst)
                swept == [j \in Job |->
                    IF j \in Doomed THEN "failed"
                    ELSE IF j \in Expired
                    THEN IF Sibling(j) \in Doomed /\ earlier(j) THEN "cancelled" ELSE "pending"
                    ELSE IF jobStatus[j] = "pending" /\ Sibling(j) \in Doomed THEN "cancelled"
                    ELSE jobStatus[j]]
                counted == [j \in Job |->
                    IF j \in Expired \ Doomed THEN attempts[j] + 1 ELSE attempts[j]]
                stuck == Stuck(swept, counted)
            IN  jobStatus' = CancelPending([j \in Job |->
                                 IF j \in stuck THEN "failed" ELSE swept[j]],
                                 {j[1] : j \in stuck})
          BY <1>1 DEF ReapExpiredLeases
        <4>. DEFINE earlier(j) == (j[2] = "bench") = (j[1] \in benchFirst)
                    swept == [j \in Job |->
                        IF j \in Doomed THEN "failed"
                        ELSE IF j \in Expired
                        THEN IF Sibling(j) \in Doomed /\ earlier(j) THEN "cancelled" ELSE "pending"
                        ELSE IF jobStatus[j] = "pending" /\ Sibling(j) \in Doomed THEN "cancelled"
                        ELSE jobStatus[j]]
                    counted == [j \in Job |->
                        IF j \in Expired \ Doomed THEN attempts[j] + 1 ELSE attempts[j]]
                    stuck == Stuck(swept, counted)
                    R == {j[1] : j \in stuck}
        <4>2. \A j \in Job : swept[j] = "claimed" => jobStatus[j] = "claimed"
          OBVIOUS
        <4>3. jobStatus' = CancelPending([j \in Job |->
                               IF j \in stuck THEN "failed" ELSE swept[j]], R)
          BY <4>1
        <4>. HIDE DEF swept, stuck, R
        <4>. QED BY <4>2, <4>3
      <3>. DEFINE ended == [j \in Job |-> IF j \in stuck THEN "failed" ELSE swept[j]]
      <3>2. \A j \in Job : ended[j] = "claimed" => swept[j] = "claimed"
        OBVIOUS
      <3>3. jobStatus' = CancelPending(ended, R)
        BY <3>1
      <3>. HIDE DEF ended
      <3>. QED BY <3>1, <3>2, <3>3, CancelClaims
    <2>2. UNCHANGED <<lease, silence, sending, beat, cur>>
      BY <1>1 DEF ReapExpiredLeases, netVars, workerVars
    <2>. QED BY <2>1, <2>2, NoneClaimed
  <1>2. ASSUME StopStalledRun PROVE Quiet
    <2>1. cur \in Job
      BY <1>2 DEF StopStalledRun, Types, Attached, Busy
    <2>2. /\ jobStatus' = CancelPending([jobStatus EXCEPT ![cur] = "failed"], {cur[1]})
          /\ lease' = [lease EXCEPT ![cur] = 0]
          /\ UNCHANGED <<silence, sending, beat, cur>>
      BY <1>2 DEF StopStalledRun, netVars, workerVars
    <2>. QED BY <2>1, <2>2, FailClaims DEF Quiet, Types, JobTypes
  <1>3. ASSUME EndLongPause PROVE Quiet
    <2>1. \E R : jobStatus' = CancelPending(jobStatus, R)
      BY <1>3 DEF EndLongPause
    <2>2. UNCHANGED <<lease, silence, sending, beat, cur>>
      BY <1>3 DEF EndLongPause, netVars, workerVars
    <2>. QED BY <2>1, <2>2, CancelClaims, NoneClaimed
  <1>4. ASSUME NEW r \in Run, FinalizeOrphanedRun(r) PROVE Quiet
    BY <1>4, NoneClaimed DEF FinalizeOrphanedRun, netVars, workerVars
  <1>. QED BY <1>1, <1>2, <1>3, <1>4 DEF Maintenance

LEMMA QueueFresh == ASSUME Types, Types', OnePoll, Fresh, Queue PROVE Fresh'
  <1>1. ASSUME LongPoll \/ PollAgain PROVE Fresh'
    <2>1. cur = None /\ cur' = None
      BY <1>1 DEF LongPoll, PollAgain, OnePoll, Busy, netVars, workerVars
    <2>2. UNCHANGED <<lease, jobStatus, sending>>
      BY <1>1 DEF LongPoll, PollAgain, netVars
    <2>. QED BY <2>1, <2>2 DEF Fresh, FreshClaim, FreshStart, InStep, Held
  <1>2. ASSUME DeadPollEnds \/ ResponseLost PROVE Fresh'
    <2>1. Quiet
      BY <1>2 DEF DeadPollEnds, ResponseLost, dbVars, workerVars, Quiet
    <2>. QED BY <2>1, QuietKeeps
  <1>3. ASSUME ResponseClosed PROVE Fresh'
    <2>1. sending.job \in Job
      BY <1>3 DEF ResponseClosed, Types, NetTypes, Claim
    <2>2. \A j \in Job : jobStatus'[j] = "claimed" => jobStatus[j] = "claimed" /\ lease'[j] = lease[j]
      BY <1>3, <2>1 DEF ResponseClosed, Types, JobTypes
    <2>3. sending' = None /\ UNCHANGED <<silence, beat, cur>>
      BY <1>3 DEF ResponseClosed, workerVars
    <2>. QED BY <2>2, <2>3, QuietKeeps DEF Quiet
  <1>4. ASSUME NEW p \in polls, ClaimNext(p) PROVE Fresh'
    <2>1. PICK k \in Claimable : /\ jobStatus' = [jobStatus EXCEPT ![k] = "claimed"]
                                 /\ lease' = [lease EXCEPT ![k] = LeaseTicks]
                                 /\ sending'.job = k
      <3>1. PICK k \in Claimable :
              /\ jobStatus' = [jobStatus EXCEPT ![k] = "claimed"]
              /\ Extend(k)
              /\ sending' = [job |-> k, poll |-> p,
                             todo |-> {i \in Item : item[k[1]][i] \notin Closed}]
        BY <1>4 DEF ClaimNext
      <3>. QED BY <3>1 DEF Extend
    <2>2. UNCHANGED <<silence, beat, cur>> /\ k \in Job
      BY <1>4 DEF ClaimNext, workerVars, Claimable
    <2>3. \A j \in Job : /\ lease'[j] = IF j = k THEN LeaseTicks ELSE lease[j]
                         /\ j # k => jobStatus'[j] = jobStatus[j]
      BY <2>1 DEF Types, JobTypes
    <2>4. cur \in Job \cup {None}
      BY DEF Types, WorkerTypes
    <2>5. FreshClaim' /\ FreshStart'
      BY <2>1, <2>2, <2>3, <2>4 DEF Fresh, FreshClaim, FreshStart, Held
    <2>6. InStep'
      <3>1. silence \in Nat /\ LeaseTicks \in Nat
        BY TimeAssumption DEF Types, JobTypes
      <3>. QED BY <2>2, <2>3, <2>4, <3>1 DEF Fresh, InStep, Held, Offline
    <2>. QED BY <2>5, <2>6 DEF Fresh
  <1>5. ASSUME Deliver PROVE Fresh'
    <2>1. cur' = sending.job /\ sending' = None /\ sending # None
          /\ UNCHANGED <<lease, jobStatus, silence, beat>>
      BY <1>5 DEF Deliver, dbVars
    <2>2. Held(cur)' => lease'[cur'] = LeaseTicks
      BY <2>1 DEF Fresh, FreshClaim, Held
    <2>3. silence' \in Nat /\ LeaseTicks \in Nat
      BY <2>1, TimeAssumption DEF Types, JobTypes
    <2>. QED BY <2>1, <2>2, <2>3 DEF Fresh, FreshClaim, FreshStart, InStep
  <1>. QED BY <1>1, <1>2, <1>3, <1>4, <1>5 DEF Queue

LEMMA HeartbeatFresh == ASSUME Types, Types', Fresh, Heartbeat PROVE Fresh'
  <1>1. ASSUME BeatSend PROVE Fresh'
    <2>1. beat'.job = cur' /\ UNCHANGED <<dbVars, sending, cur>>
      BY <1>1 DEF BeatSend, workerVars
    <2>. QED BY <2>1, QuietKeeps DEF Quiet, dbVars
  <1>2. ASSUME BeatReturn \/ OrphanBeatLost PROVE Fresh'
    <2>1. beat' = None /\ UNCHANGED <<dbVars, sending, cur>>
      BY <1>2 DEF BeatReturn, OrphanBeatLost, workerVars
    <2>. QED BY <2>1, QuietKeeps DEF Quiet, dbVars
  <1>3. ASSUME BeatReceive PROVE Fresh'
    <2>1. /\ beat # None /\ silence' = 0
          /\ UNCHANGED <<jobStatus, sending, cur>>
          /\ beat' = None \/ beat'.job = beat.job
          /\ lease' = IF Held(beat.job) THEN [lease EXCEPT ![beat.job] = LeaseTicks] ELSE lease
      BY <1>3 DEF BeatReceive, Extend, Held, workerVars
    <2>2. /\ beat.job \in Job \cup {None} /\ cur \in Job \cup {None}
          /\ sending # None => sending.job \in Job
      BY <2>1 DEF Types, NetTypes, WorkerTypes, Beat, Claim
    <2>3. \A j \in Job : lease'[j] = IF Held(beat.job) /\ j = beat.job THEN LeaseTicks ELSE lease[j]
      BY <2>1 DEF Types, JobTypes
    <2>4. FreshClaim'
      BY <2>1, <2>2, <2>3 DEF Fresh, FreshClaim, Held
    <2>5. FreshStart'
      BY <2>1, <2>2, <2>3 DEF Fresh, FreshStart, Held
    <2>6. InStep'
      <3>1. Held(cur) => lease'[cur] = LeaseTicks
        BY <2>1, <2>2, <2>3 DEF Fresh, FreshStart, Held
      <3>. QED BY <2>1, <3>1, TimeAssumption DEF InStep, Held
    <2>. QED BY <2>4, <2>5, <2>6 DEF Fresh
  <1>. QED BY <1>1, <1>2, <1>3 DEF Heartbeat

LEMMA WorldFresh == ASSUME Types, Types', Fresh, World PROVE Fresh'
  <1>1. ASSUME Outage \/ Crash PROVE Fresh'
    BY <1>1, SeverQuiet, QuietKeeps DEF Outage, Crash
  <1>2. ASSUME Reconnect \/ Restart PROVE Fresh'
    <2>1. Quiet
      BY <1>2 DEF Reconnect, Restart, dbVars, netVars, workerVars, Quiet
    <2>. QED BY <2>1, QuietKeeps
  <1>3. ASSUME Tick PROVE Fresh'
    <2>1. /\ sending' = None /\ beat' = None
          /\ UNCHANGED <<jobStatus, cur>>
          /\ silence' = IF Offline THEN silence ELSE silence + 1
          /\ lease' = [j \in Job |-> IF lease[j] > 0 THEN lease[j] - 1 ELSE 0]
      BY <1>3 DEF Tick, workerVars
    <2>2. InStep'
      <3>1. CASE ~Held(cur)
        BY <2>1, <3>1 DEF InStep, Held
      <3>2. CASE Held(cur) /\ Offline
        BY <2>1, <3>2 DEF InStep, Offline
      <3>3. CASE Held(cur) /\ ~Offline
        <4>1. cur \in Job /\ lease[cur] \in Nat /\ silence \in Nat
          BY <3>3, TimeAssumption DEF Held, Types, WorkerTypes, JobTypes
        <4>2. lease[cur] + silence >= LeaseTicks /\ silence <= OfflineTicks
          BY <3>3, <4>1, TimeAssumption DEF Fresh, InStep, Offline
        <4>3. lease[cur] > 0
          BY <4>1, <4>2, TimeAssumption
        <4>4. lease'[cur] = lease[cur] - 1 /\ silence' = silence + 1
          BY <2>1, <3>3, <4>1, <4>3
        <4>5. lease'[cur'] + silence' >= LeaseTicks
          BY <2>1, <4>1, <4>2, <4>4, TimeAssumption
        <4>. QED BY <4>5 DEF InStep
      <3>. QED BY <3>1, <3>2, <3>3
    <2>. QED BY <2>1, <2>2 DEF Fresh, FreshClaim, FreshStart
  <1>. QED BY <1>1, <1>2, <1>3 DEF World

LEMMA StepPoll == ASSUME Types, OnePoll, [Next]_vars PROVE OnePoll'
  <1>1. CASE UNCHANGED vars
    BY <1>1 DEF vars, netVars, workerVars, OnePoll
  <1>. QED BY <1>1, BrowserPoll, QueuePoll, HeartbeatPoll, ExecutePoll, DeliveriesPoll,
              WorldPoll, MaintenancePoll DEF Next

LEMMA StepFresh == ASSUME Types, Types', OnePoll, Fresh, [Next]_vars PROVE Fresh'
  <1>1. CASE UNCHANGED vars
    BY <1>1, NoneClaimed, QuietKeeps DEF vars, dbVars, netVars, workerVars
  <1>. QED BY <1>1, BrowserQuiet, ExecuteQuiet, DeliveriesQuiet, MaintenanceQuiet, QuietKeeps,
              QueueFresh, HeartbeatFresh, WorldFresh DEF Next

(* The lease is wide enough for any OFFLINE_AFTER_MS below LEASE_MS: while  *)
(* a worker executes a job it holds, no order of heartbeats, lost answers, *)
(* reclaims and outages lets the lease run out before the server takes the *)
(* worker for offline (reaper.ts LEASE_MS, repo.ts extendLeaseAndGetFlags). *)
THEOREM LeaseIsWide == Spec => []LeaseOutlivesWorker
  <1>. DEFINE I == Types /\ OnePoll /\ Fresh
  <1>1. Init => I
    BY InitTypes, TypeParts
    DEF Types, Init, Attached, Busy, OnePoll, Fresh, FreshClaim, FreshStart, InStep, Held
  <1>2. I /\ [Next]_vars => I'
    BY StepTypes, StepPoll, StepFresh
  <1>3. I => LeaseOutlivesWorker
    <2>. SUFFICES ASSUME I, cur # None, cur \in Expired PROVE Offline
      BY DEF LeaseOutlivesWorker
    <2>1. lease[cur] = 0 /\ silence \in Nat
      BY TimeAssumption DEF Expired, Types, JobTypes
    <2>2. Offline \/ lease[cur] + silence >= LeaseTicks
      BY DEF Fresh, InStep, Held, Expired
    <2>. QED BY <2>1, <2>2, TimeAssumption DEF Offline
  <1>. QED BY <1>1, <1>2, <1>3, PTL DEF Spec

-----------------------------------------------------------------------------
(* The lifecycle.                                                           *)
(* JobQueue implements RunLifecycle: the queue's steps are reduced to the   *)
(* few things they do to the rows of runs and items, and these are shown   *)
(* to be steps of the lifecycle. In the same way what a step does to a     *)
(* job's status, and who does it, gives the properties of a worker's life  *)
(* with its jobs: who stopped a run, what a completed job has visited,     *)
(* which jobs a finished run may have in the queue, whom a stop reaches.   *)
HIDE DEF RunStatus, RunError, JobStatus, ItemStatus, Closed, WorkerPc

Known(r) == runStatus[r] # "absent"

(* Everything that names a run names one that was triggered. *)
Named ==
    /\ \A j \in Job : jobStatus[j] # "absent" => Known(j[1])
    /\ cur # None => Known(cur[1])
    /\ sending # None => Known(sending.job[1])
    /\ \A t \in ticks : Known(t[1])
    /\ \A m \in late : Known(m.run)

Untouched == \A r \in Run : ~Known(r) => \A i \in Item : item[r][i] = "queued"

-----------------------------------------------------------------------------
(* The rows *)

(* What a step of the queue can do to runs and items. *)
Rows(r, s) == runStatus' = [runStatus EXCEPT ![r] = s] /\ UNCHANGED <<item, runError>>

RowStep ==
    \/ UNCHANGED <<item, runStatus, runError>>
    \/ \E r \in Run : ~Known(r) /\ Rows(r, "scheduled")
    \/ \E r \in Run : Known(r) /\ runStatus[r] \notin FinalStatus /\ Rows(r, "running")
    \/ \E R \in SUBSET Run, note \in RunError : Reconcile(R, note)
    \/ \E r \in Run : ReportFailure(r)
    \/ \E m \in Report : Known(m.run) /\ RecordTerminal(m)
    \/ \E r \in Run, i \in Item :
          /\ TickApplies(r, i)
          /\ item' = [item EXCEPT ![r][i] = "active"]
          /\ UNCHANGED <<runStatus, runError>>

LEMMA BrowserRows == ASSUME Types, Browser PROVE RowStep
  <1>1. ASSUME NEW r \in Run, Trigger(r) PROVE RowStep
    <2>1. ~Known(r) /\ Rows(r, "scheduled")
      BY <1>1 DEF Trigger, Known, Rows
    <2>. QED BY <2>1 DEF RowStep, RunError
  <1>2. ASSUME NEW r \in Run, Stop(r) PROVE RowStep
    <2>. DEFINE S == {q \in Run : Batch[q] = Batch[r] /\ Active(q)}
                signal == {q \in S : Claimed(q) /\ ~Offline}
    <2>1. Reconcile(S \ signal, "stopped by user")
      BY <1>2 DEF Stop
    <2>2. S \ signal \in SUBSET Run
      OBVIOUS
    <2>. HIDE DEF S, signal
    <2>. QED BY <2>1, <2>2 DEF RowStep, RunError
  <1>3. ASSUME (\E r \in Run : Pause(r)) \/ Resume PROVE RowStep
    BY <1>3 DEF Pause, Resume, RowStep
  <1>. QED BY <1>1, <1>2, <1>3 DEF Browser

LEMMA QueueRows == ASSUME Types, Named, Queue PROVE RowStep
  <1>1. ASSUME NEW p \in polls, ClaimNext(p) PROVE RowStep
    <2>1. PICK j \in Claimable :
            IF j[2] = "bench"
            THEN runStatus' = IF runStatus[j[1]] \in FinalStatus THEN runStatus
                              ELSE [runStatus EXCEPT ![j[1]] = "running"]
            ELSE UNCHANGED runStatus
      BY <1>1 DEF ClaimNext
    <2>2. j[1] \in Run /\ Known(j[1])
      BY JobParts DEF Claimable, Named
    <2>3. UNCHANGED <<item, runError>>
      BY <1>1 DEF ClaimNext
    <2>. QED BY <2>1, <2>2, <2>3 DEF RowStep, Rows
  <1>2. ASSUME LongPoll \/ PollAgain \/ DeadPollEnds \/ Deliver \/ ResponseLost \/ ResponseClosed
        PROVE  RowStep
    BY <1>2 DEF LongPoll, PollAgain, DeadPollEnds, Deliver, ResponseLost, ResponseClosed,
                RowStep, dbVars
  <1>. QED BY <1>1, <1>2 DEF Queue

LEMMA QuietRows == ASSUME Heartbeat \/ Execute \/ World PROVE RowStep
  BY DEF Heartbeat, BeatSend, BeatReceive, BeatReturn, OrphanBeatLost, Execute, Prepare,
         NextItem, FinishItem, Hang, FinishInstall, FinishJob, World, Outage, Reconnect,
         Crash, Restart, Tick, RowStep, dbVars

LEMMA DeliveriesRows == ASSUME Types, Named, Deliveries PROVE RowStep
  <1>1. ASSUME ReportItem PROVE RowStep
    <2>1. cur \in Job /\ cur # None
      BY <1>1, NoneAssumption DEF ReportItem, Types, Attached, Busy
    <2>2. ThisReport \in Report /\ Known(ThisReport.run)
      BY <2>1, ThisReportType DEF Types, Named, ThisReport
    <2>3. RecordTerminal(ThisReport)
      BY <1>1 DEF ReportItem
    <2>. QED BY <2>2, <2>3 DEF RowStep, RunError
  <1>2. ASSUME NEW m \in late, LateReport(m) PROVE RowStep
    <2>1. m \in Report /\ Known(m.run) /\ RecordTerminal(m)
      BY <1>2 DEF LateReport, Types, NetTypes, Named
    <2>. QED BY <2>1 DEF RowStep, RunError
  <1>3. ASSUME NEW t \in ticks, ProgressTick(t) PROVE RowStep
    <2>1. t[1] \in Run /\ t[2] \in Item
      BY <1>3 DEF Types, NetTypes
    <2>2. /\ UNCHANGED <<runStatus, runError>>
          /\ \/ UNCHANGED item
             \/ TickApplies(t[1], t[2]) /\ item' = [item EXCEPT ![t[1]][t[2]] = "active"]
      BY <1>3 DEF ProgressTick
    <2>. QED BY <2>1, <2>2 DEF RowStep, RunError
  <1>4. ASSUME Complete PROVE RowStep
    <2>1. cur \in Job
      BY <1>4 DEF Complete, Types, Attached, Busy
    <2>2. RecordOutcome(cur, result = "done")
      BY <1>4 DEF Complete
    <2>3. UNCHANGED <<item, runStatus, runError>> \/ ReportFailure(cur[1])
      BY <2>2 DEF RecordOutcome
    <2>. QED BY <2>1, <2>3, JobParts DEF RowStep, RunError
  <1>5. ASSUME ReportTimesOut \/ ReportGivenUp \/ CompleteGivenUp PROVE RowStep
    BY <1>5 DEF ReportTimesOut, ReportGivenUp, CompleteGivenUp, RowStep, dbVars
  <1>. QED BY <1>1, <1>2, <1>3, <1>4, <1>5 DEF Deliveries

LEMMA MaintenanceRows == ASSUME Types, Maintenance PROVE RowStep
  <1>1. ASSUME ReapExpiredLeases PROVE RowStep
    <2>1. PICK over \in SUBSET Run : Reconcile(over, "lost")
      <3>1. \A js, att : Stuck(js, att) \subseteq Job
        BY DEF Stuck
      <3>2. Doomed \subseteq Job
        BY DEF Doomed, Expired
      <3>3. \A J : J \subseteq Job => {j[1] : j \in J} \in SUBSET Run
        BY JobParts
      <3>. QED BY <1>1, <3>1, <3>2, <3>3 DEF ReapExpiredLeases
    <2>. QED BY <2>1 DEF RowStep, RunError
  <1>2. ASSUME StopStalledRun PROVE RowStep
    <2>1. {cur[1]} \in SUBSET Run
      BY <1>2, JobParts DEF StopStalledRun, Types, Attached, Busy
    <2>2. Reconcile({cur[1]}, "lost")
      BY <1>2 DEF StopStalledRun
    <2>. QED BY <2>1, <2>2 DEF RowStep, RunError
  <1>3. ASSUME EndLongPause PROVE RowStep
    <2>. DEFINE held == {r \in Run : \E j \in JobsOf(r) : jobStatus[j] \in Live}
                signal == {r \in held : Claimed(r)}
    <2>1. Reconcile(held \ signal, "lost")
      BY <1>3 DEF EndLongPause
    <2>2. held \ signal \in SUBSET Run
      OBVIOUS
    <2>. HIDE DEF held, signal
    <2>. QED BY <2>1, <2>2 DEF RowStep, RunError
  <1>4. ASSUME NEW r \in Run, FinalizeOrphanedRun(r) PROVE RowStep
    <2>1. Reconcile({r}, "lost")
      BY <1>4 DEF FinalizeOrphanedRun
    <2>. QED BY <2>1 DEF RowStep, RunError
  <1>. QED BY <1>1, <1>2, <1>3, <1>4 DEF Maintenance

LEMMA StepRows == ASSUME Types, Named, [Next]_vars PROVE RowStep
  <1>1. CASE UNCHANGED vars
    BY <1>1 DEF vars, dbVars, RowStep
  <1>. QED BY <1>1, BrowserRows, QueueRows, QuietRows, DeliveriesRows, MaintenanceRows DEF Next
-----------------------------------------------------------------------------
(* Those are steps of the lifecycle. *)

LEMMA CloseEnds ==
    ASSUME NEW its, NEW s \in Closed
    PROVE  /\ RL!Ended(Close(its, s))
           /\ \A i \in Item : its[i] = "done" => Close(its, s)[i] = "done"
  BY DEF RL!Ended, RL!Closed, Closed, Close

LEMMA OutcomesTell ==
    ASSUME NEW its, RL!Ended(its), NEW confirmed \in BOOLEAN
    PROVE  RL!Tells(Outcomes(its, confirmed), its)
  <1>1. \A i \in Item : its[i] \in {"done", "failed", "skipped", "cancelled"}
    BY DEF RL!Ended, RL!Closed
  <1>2. CASE \E i \in Item : its[i] = "cancelled"
    <2>1. ~ \A i \in Item : its[i] \in {"done", "skipped"}
      BY <1>2
    <2>2. Outcomes(its, confirmed) =
             IF ~confirmed /\ \E i \in Item : its[i] = "done" THEN "partial" ELSE "cancelled"
      BY <1>2 DEF Outcomes
    <2>. QED BY <1>2, <2>1, <2>2 DEF RL!Tells, RL!FinalStatus
  <1>3. CASE ~ \E i \in Item : its[i] = "cancelled"
    <2>1. CASE ~ \E i \in Item : its[i] \in {"done", "skipped"}
      <3>1. Outcomes(its, confirmed) = "failed"
        BY <1>3, <2>1 DEF Outcomes
      <3>2. \A i \in Item : its[i] = "failed"
        BY <1>1, <1>3, <2>1
      <3>3. ~ \A i \in Item : its[i] \in {"done", "skipped"}
        BY <2>1, FirstItem
      <3>. QED BY <3>1, <3>2, <3>3 DEF RL!Tells, RL!FinalStatus
    <2>2. CASE \A i \in Item : its[i] \in {"done", "skipped"}
      <3>1. Outcomes(its, confirmed) = "done"
        BY <1>3, <2>2, FirstItem DEF Outcomes
      <3>. QED BY <2>2, <3>1 DEF RL!Tells, RL!FinalStatus
    <2>3. CASE /\ \E i \in Item : its[i] \in {"done", "skipped"}
               /\ ~ \A i \in Item : its[i] \in {"done", "skipped"}
      <3>1. Outcomes(its, confirmed) = "partial"
        BY <1>3, <2>3 DEF Outcomes
      <3>. QED BY <2>3, <3>1 DEF RL!Tells, RL!FinalStatus
    <2>. QED BY <2>1, <2>2, <2>3
  <1>. QED BY <1>2, <1>3

LEMMA ReconcilePromised ==
    ASSUME ItemTypes, NEW R \in SUBSET Run, NEW note \in RunError, Reconcile(R, note)
    PROVE  RL!Next
  <1>. DEFINE its == [r \in Run |->
                   IF r \in Unfinished(R) THEN Close(item[r], "cancelled") ELSE item[r]]
  <1>. SUFFICES ASSUME NEW r \in Run PROVE RL!End(r) \/ RL!Rest(r)
    BY DEF RL!Next
  <1>1. /\ item'[r] = its[r]
        /\ runStatus'[r] = IF r \in Unfinished(R) THEN Outcomes(its[r], FALSE) ELSE runStatus[r]
        /\ r \notin Unfinished(R) => runError'[r] = runError[r]
    BY DEF Reconcile
  <1>2. CASE r \in Unfinished(R)
    <2>1. item'[r] = Close(item[r], "cancelled")
      BY <1>1, <1>2
    <2>2. /\ RL!Ended(item'[r])
          /\ \A i \in Item : item[r][i] = "done" => item'[r][i] = "done"
      BY <2>1, CloseEnds DEF Closed
    <2>3. RL!Tells(runStatus'[r], item'[r])
      BY <1>1, <1>2, <2>2, OutcomesTell
    <2>4. RL!Active(r)
      BY <1>2 DEF Unfinished, Active, RL!Active
    <2>. QED BY <2>2, <2>3, <2>4 DEF RL!End, RL!MeasuredStays
  <1>3. CASE r \notin Unfinished(R)
    BY <1>1, <1>3 DEF RL!Rest, RL!StatusStays
  <1>. QED BY <1>2, <1>3

LEMMA ReportFailurePromised ==
    ASSUME ItemTypes, NEW q \in Run, ReportFailure(q)
    PROVE  RL!Next
  <1>. SUFFICES ASSUME NEW r \in Run PROVE RL!End(r) \/ RL!Rest(r)
    BY DEF RL!Next
  <1>1. CASE ~Active(q) \/ r # q
    BY <1>1 DEF ReportFailure, ItemTypes, RL!Rest, RL!StatusStays
  <1>2. CASE Active(q) /\ r = q
    <2>1. /\ item'[r] = Close(item[r], "failed")
          /\ runStatus'[r] = Outcomes(Close(item[r], "failed"), TRUE)
      BY <1>2 DEF ReportFailure, ItemTypes
    <2>2. /\ RL!Ended(item'[r])
          /\ \A i \in Item : item[r][i] = "done" => item'[r][i] = "done"
      BY <2>1, CloseEnds DEF Closed
    <2>3. RL!Tells(runStatus'[r], item'[r])
      BY <2>1, <2>2, OutcomesTell
    <2>. QED BY <1>2, <2>2, <2>3 DEF RL!End, RL!MeasuredStays, Active, RL!Active
  <1>. QED BY <1>1, <1>2

LEMMA RecordTerminalPromised ==
    ASSUME ItemTypes, FinishedIffClosed, NEW m \in Report, Known(m.run), RecordTerminal(m)
    PROVE  RL!Next
  <1>. DEFINE q == m.run
              its == [item[q] EXCEPT ![m.idx] = m.status]
              last == Active(q) /\ \A i \in Item : its[i] \in Closed
  <1>. SUFFICES ASSUME NEW r \in Run
                PROVE  RL!Progress(r) \/ RL!End(r) \/ RL!Amend(r) \/ RL!Rest(r)
    BY DEF RL!Next
  <1>1. q \in Run /\ m.idx \in Item /\ m.status \in Closed
    BY DEF Report
  <1>2. CASE Repeat(m)
    BY <1>2 DEF RecordTerminal, RL!Rest, RL!StatusStays
  <1>3. CASE ~Repeat(m)
    <2>1. /\ item' = [item EXCEPT ![q] = its]
          /\ runStatus' = IF last THEN [runStatus EXCEPT ![q] = Outcomes(its, TRUE)]
                                  ELSE runStatus
          /\ runError' = IF last /\ \E i \in Item : its[i] = "cancelled"
                         THEN [runError EXCEPT ![q] = "stopped by user"]
                         ELSE runError
      BY <1>3 DEF RecordTerminal
    <2>2. CASE r # q
      BY <1>1, <2>1, <2>2 DEF ItemTypes, RL!Rest, RL!StatusStays
    <2>3. CASE r = q
      <3>1. item'[r] = its
        BY <1>1, <2>1, <2>3 DEF ItemTypes
      <3>2. \A i \in Item : its[i] = IF i = m.idx THEN m.status ELSE item[r][i]
        BY <1>1, <2>3 DEF ItemTypes
      <3>3. item[r][m.idx] # "done"
        BY <1>3, <2>3 DEF Repeat
      <3>4. RL!MeasuredStays(r)
        BY <3>1, <3>2, <3>3 DEF RL!MeasuredStays
      <3>5. RL!Ended(its) <=> \A i \in Item : its[i] \in Closed
        BY DEF RL!Ended, RL!Closed, Closed
      <3>. HIDE DEF its
      <3>6. CASE last
        <4>1. runStatus'[r] = Outcomes(its, TRUE)
          BY <1>1, <2>1, <2>3, <3>6 DEF ItemTypes
        <4>2. RL!Tells(runStatus'[r], its)
          BY <3>5, <3>6, <4>1, OutcomesTell
        <4>. QED BY <2>3, <3>1, <3>4, <3>5, <3>6, <4>2 DEF RL!End, RL!Active, Active
      <3>7. CASE ~last /\ Active(q)
        BY <2>1, <2>3, <3>1, <3>4, <3>5, <3>7
        DEF RL!Progress, RL!Active, Active, RL!StatusStays
      <3>8. CASE ~Active(q)
        <4>1. runStatus[r] \in FinalStatus
          BY <1>1, <2>3, <3>8 DEF Known, Active, FinalStatus, ItemTypes, RunStatus
        <4>2. \A i \in Item : item[r][i] \in Closed
          BY <1>1, <2>3, <4>1 DEF FinishedIffClosed, Known, Final
        <4>3. RL!Ended(its)
          BY <1>1, <3>2, <3>5, <4>2
        <4>4. runStatus' = runStatus /\ runError' = runError
          BY <2>1, <3>8
        <4>. QED BY <3>1, <3>4, <4>1, <4>3, <4>4
                 DEF RL!Amend, RL!StatusStays, RL!FinalStatus, FinalStatus
      <3>. QED BY <3>6, <3>7, <3>8
    <2>. QED BY <2>2, <2>3
  <1>. QED BY <1>2, <1>3

LEMMA TickPromised ==
    ASSUME ItemTypes, NEW q \in Run, NEW k \in Item, TickApplies(q, k),
           item' = [item EXCEPT ![q][k] = "active"], UNCHANGED <<runStatus, runError>>
    PROVE  RL!Next
  <1>. SUFFICES ASSUME NEW r \in Run PROVE RL!Progress(r) \/ RL!Rest(r)
    BY DEF RL!Next
  <1>1. CASE r # q
    BY <1>1 DEF ItemTypes, RL!Rest, RL!StatusStays
  <1>2. CASE r = q
    <2>1. \A i \in Item : item'[r][i] = IF i = k THEN "active" ELSE item[r][i]
      BY <1>2 DEF ItemTypes
    <2>2. item[r][k] # "done" /\ RL!Active(r)
      BY <1>2 DEF TickApplies, Active, RL!Active, Closed
    <2>3. RL!MeasuredStays(r)
      BY <2>1, <2>2 DEF RL!MeasuredStays
    <2>4. ~RL!Ended(item'[r])
      BY <2>1 DEF RL!Ended, RL!Closed
    <2>. QED BY <2>2, <2>3, <2>4 DEF RL!Progress, RL!StatusStays
  <1>. QED BY <1>1, <1>2

LEMMA RowsPromised ==
    ASSUME ItemTypes, FinishedIffClosed, Untouched, RowStep
    PROVE  RL!Next
  <1>1. CASE UNCHANGED <<item, runStatus, runError>>
    BY <1>1 DEF RL!Next, RL!Rest, RL!StatusStays
  <1>2. ASSUME NEW q \in Run, ~Known(q), Rows(q, "scheduled") PROVE RL!Next
    <2>. SUFFICES ASSUME NEW r \in Run PROVE RL!Schedule(r) \/ RL!Rest(r)
      BY DEF RL!Next
    <2>. QED BY <1>2 DEF Rows, Known, Untouched, ItemTypes, RL!Schedule, RL!Rest, RL!StatusStays
  <1>3. ASSUME NEW q \in Run, Known(q), runStatus[q] \notin FinalStatus, Rows(q, "running")
        PROVE  RL!Next
    <2>. SUFFICES ASSUME NEW r \in Run PROVE RL!Start(r) \/ RL!Rest(r)
      BY DEF RL!Next
    <2>1. RL!Active(q)
      BY <1>3 DEF Known, FinalStatus, ItemTypes, RunStatus, RL!Active
    <2>. QED BY <1>3, <2>1 DEF Rows, ItemTypes, RL!Start, RL!Rest, RL!StatusStays
  <1>. QED BY <1>1, <1>2, <1>3, ReconcilePromised, ReportFailurePromised,
              RecordTerminalPromised, TickPromised DEF RowStep
-----------------------------------------------------------------------------
(* What every step of the lifecycle preserves. *)

LEMMA LifecycleStep ==
    ASSUME ItemTypes, ItemTypes', FinishedIffClosed, Untouched, RL!Next
    PROVE  /\ FinishedIffClosed'
           /\ Untouched'
           /\ \A r \in Run : Known(r) => Known(r)'
           /\ \A r \in Run : Final(r) => /\ runStatus'[r] = runStatus[r]
                                         /\ runError'[r] = runError[r]
           /\ \A r \in Run, i \in Item : item[r][i] = "done" => item'[r][i] = "done"
  <1>. DEFINE Kept(r) ==
                /\ Known(r) => Known(r)'
                /\ Final(r) => runStatus'[r] = runStatus[r] /\ runError'[r] = runError[r]
                /\ \A i \in Item : item[r][i] = "done" => item'[r][i] = "done"
                /\ Known(r)' => (Final(r)' <=> \A i \in Item : item'[r][i] \in Closed)
                /\ ~Known(r)' => \A i \in Item : item'[r][i] = "queued"
  <1>1. ASSUME NEW r \in Run PROVE Kept(r)
    <2>. USE DEF Known, Final, FinalStatus, Closed
    <2>1. /\ Known(r) => (Final(r) <=> \A i \in Item : item[r][i] \in Closed)
          /\ ~Known(r) => \A i \in Item : item[r][i] = "queued"
      BY DEF FinishedIffClosed, Untouched
    <2>2. CASE RL!Schedule(r)
      <3>1. \E i \in Item : item'[r][i] \notin Closed
        BY <2>2, FirstItem DEF RL!Schedule
      <3>. QED BY <2>2, <3>1 DEF RL!Schedule
    <2>3. CASE RL!Start(r)
      BY <2>1, <2>3 DEF RL!Start, RL!Active
    <2>4. CASE RL!Progress(r)
      BY <2>4 DEF RL!Progress, RL!Active, RL!StatusStays, RL!MeasuredStays, RL!Ended, RL!Closed
    <2>5. CASE RL!End(r)
      BY <2>5 DEF RL!End, RL!Active, RL!Tells, RL!FinalStatus, RL!MeasuredStays, RL!Ended,
                  RL!Closed
    <2>6. CASE RL!Amend(r)
      BY <2>6 DEF RL!Amend, RL!FinalStatus, RL!StatusStays, RL!MeasuredStays, RL!Ended,
                  RL!Closed
    <2>7. CASE RL!Rest(r)
      BY <2>1, <2>7 DEF RL!Rest, RL!StatusStays
    <2>. QED BY <2>2, <2>3, <2>4, <2>5, <2>6, <2>7 DEF RL!Next
  <1>. QED BY <1>1 DEF FinishedIffClosed, Untouched, Known, Final

-----------------------------------------------------------------------------
(* Whatever names a run keeps naming a triggered one. *)

EndedStatus == {"completed", "failed", "cancelled"}

(* A job row appears with its run, and one that ended stays ended. *)
JobKept(j) ==
    /\ jobStatus'[j] # "absent" => jobStatus[j] # "absent" \/ Known(j[1])'
    /\ jobStatus[j] \in EndedStatus => jobStatus'[j] \notin Live

LEMMA SameJobs == UNCHANGED jobStatus => \A j \in Job : JobKept(j)
  BY DEF JobKept, EndedStatus, Live

LEMMA CancelKept ==
    ASSUME NEW js, NEW R, NEW j \in Job
    PROVE  /\ CancelPending(js, R)[j] \in {js[j], "cancelled"}
           /\ js[j] # "pending" => CancelPending(js, R)[j] = js[j]
  BY DEF CancelPending

LEMMA CancelJobs ==
    ASSUME NEW R, jobStatus' = CancelPending(jobStatus, R)
    PROVE  \A j \in Job : JobKept(j)
  BY CancelKept DEF JobKept, EndedStatus, Live

LEMMA BrowserJobs == ASSUME Types, Named, Browser PROVE \A j \in Job : JobKept(j)
  <1>1. ASSUME NEW r \in Run, Trigger(r) PROVE \A j \in Job : JobKept(j)
    <2>. SUFFICES ASSUME NEW j \in Job PROVE JobKept(j)
      OBVIOUS
    <2>1. CASE j = <<r, "bench">> \/ j = <<r, "install">>
      <3>1. jobStatus[j] = "absent"
        BY <1>1, <2>1 DEF Trigger, Named, Known
      <3>2. Known(j[1])'
        BY <1>1, <2>1 DEF Trigger, Known, Types, ItemTypes
      <3>. QED BY <3>1, <3>2 DEF JobKept, EndedStatus
    <2>2. CASE ~(j = <<r, "bench">> \/ j = <<r, "install">>)
      <3>1. jobStatus'[j] = jobStatus[j]
        BY <1>1, <2>2 DEF Trigger
      <3>. QED BY <3>1 DEF JobKept, EndedStatus, Live
    <2>. QED BY <2>1, <2>2
  <1>2. ASSUME NEW r \in Run, Stop(r) PROVE \A j \in Job : JobKept(j)
    BY <1>2, CancelJobs DEF Stop
  <1>3. ASSUME (\E r \in Run : Pause(r)) \/ Resume PROVE \A j \in Job : JobKept(j)
    BY <1>3, SameJobs DEF Pause, Resume
  <1>. QED BY <1>1, <1>2, <1>3 DEF Browser

LEMMA QueueJobs == ASSUME Types, Queue PROVE \A j \in Job : JobKept(j)
  <1>1. ASSUME NEW p \in polls, ClaimNext(p) PROVE \A j \in Job : JobKept(j)
    <2>1. PICK k \in Claimable : jobStatus' = [jobStatus EXCEPT ![k] = "claimed"]
      BY <1>1 DEF ClaimNext
    <2>. QED BY <2>1 DEF Claimable, JobKept, EndedStatus, Live, Types, JobTypes
  <1>2. ASSUME ResponseClosed PROVE \A j \in Job : JobKept(j)
    <2>1. \/ UNCHANGED jobStatus
          \/ /\ jobStatus[sending.job] = "claimed"
             /\ jobStatus' = [jobStatus EXCEPT ![sending.job] = "pending"]
      BY <1>2 DEF ResponseClosed
    <2>. QED BY <2>1, SameJobs DEF JobKept, EndedStatus, Live, Types, JobTypes
  <1>3. ASSUME LongPoll \/ PollAgain \/ DeadPollEnds \/ Deliver \/ ResponseLost
        PROVE  \A j \in Job : JobKept(j)
    BY <1>3, SameJobs DEF LongPoll, PollAgain, DeadPollEnds, Deliver, ResponseLost, dbVars
  <1>. QED BY <1>1, <1>2, <1>3 DEF Queue

LEMMA QuietJobs == ASSUME Heartbeat \/ Execute \/ World PROVE \A j \in Job : JobKept(j)
  BY SameJobs
  DEF Heartbeat, BeatSend, BeatReceive, BeatReturn, OrphanBeatLost, Execute, Prepare,
      NextItem, FinishItem, Hang, FinishInstall, FinishJob, World, Outage, Reconnect,
      Crash, Restart, Tick, dbVars

(* A claimed job fails, and its sibling goes off the queue with it. *)
LEMMA FailJobs ==
    ASSUME JobTypes, NEW k \in Job, jobStatus[k] = "claimed",
           jobStatus' = CancelPending([jobStatus EXCEPT ![k] = "failed"], {k[1]})
    PROVE  \A j \in Job : JobKept(j)
  <1>. SUFFICES ASSUME NEW j \in Job PROVE JobKept(j)
    OBVIOUS
  <1>. DEFINE js == [jobStatus EXCEPT ![k] = "failed"]
  <1>1. js[j] = IF j = k THEN "failed" ELSE jobStatus[j]
    BY DEF JobTypes
  <1>2. jobStatus' = CancelPending(js, {k[1]})
    OBVIOUS
  <1>. HIDE DEF js
  <1>3. /\ jobStatus'[j] \in {js[j], "cancelled"}
        /\ js[j] # "pending" => jobStatus'[j] = js[j]
    BY <1>2, CancelKept
  <1>. QED BY <1>1, <1>3 DEF JobKept, EndedStatus, Live

LEMMA DeliveriesJobs == ASSUME Types, Deliveries PROVE \A j \in Job : JobKept(j)
  <1>1. ASSUME Complete PROVE \A j \in Job : JobKept(j)
    <2>1. cur \in Job /\ RecordOutcome(cur, result = "done")
      BY <1>1 DEF Complete, Types, Attached, Busy
    <2>2. CASE jobStatus[cur] # "claimed"
      BY <2>1, <2>2, SameJobs DEF RecordOutcome
    <2>3. CASE jobStatus[cur] = "claimed" /\ result = "done"
      <3>1. jobStatus' = [jobStatus EXCEPT ![cur] = "completed"]
        BY <2>1, <2>3 DEF RecordOutcome
      <3>. QED BY <2>1, <2>3, <3>1 DEF JobKept, EndedStatus, Live, Types, JobTypes
    <2>4. CASE jobStatus[cur] = "claimed" /\ result # "done"
      <3>1. jobStatus' = CancelPending([jobStatus EXCEPT ![cur] = "failed"], {cur[1]})
        BY <2>1, <2>4 DEF RecordOutcome
      <3>. QED BY <2>1, <2>4, <3>1, FailJobs DEF Types
    <2>. QED BY <2>2, <2>3, <2>4
  <1>2. ASSUME \/ ReportItem \/ ReportTimesOut \/ ReportGivenUp \/ CompleteGivenUp
               \/ \E m \in late : LateReport(m)
               \/ \E t \in ticks : ProgressTick(t)
        PROVE  \A j \in Job : JobKept(j)
    BY <1>2, SameJobs
    DEF ReportItem, ReportTimesOut, ReportGivenUp, CompleteGivenUp, LateReport,
        ProgressTick, dbVars
  <1>. QED BY <1>1, <1>2 DEF Deliveries

LEMMA MaintenanceJobs == ASSUME Types, Maintenance PROVE \A j \in Job : JobKept(j)
  <1>1. ASSUME ReapExpiredLeases PROVE \A j \in Job : JobKept(j)
    <2>1. PICK benchFirst \in SUBSET Run :
        LET earlier(j) == (j[2] = "bench") = (j[1] \in benchFirst)
            swept == [j \in Job |->
                IF j \in Doomed THEN "failed"
                ELSE IF j \in Expired
                THEN IF Sibling(j) \in Doomed /\ earlier(j) THEN "cancelled" ELSE "pending"
                ELSE IF jobStatus[j] = "pending" /\ Sibling(j) \in Doomed THEN "cancelled"
                ELSE jobStatus[j]]
            counted == [j \in Job |->
                IF j \in Expired \ Doomed THEN attempts[j] + 1 ELSE attempts[j]]
            stuck == Stuck(swept, counted)
        IN  jobStatus' = CancelPending([j \in Job |->
                             IF j \in stuck THEN "failed" ELSE swept[j]],
                             {j[1] : j \in stuck})
      BY <1>1 DEF ReapExpiredLeases
    <2>. DEFINE earlier(j) == (j[2] = "bench") = (j[1] \in benchFirst)
                swept == [j \in Job |->
                    IF j \in Doomed THEN "failed"
                    ELSE IF j \in Expired
                    THEN IF Sibling(j) \in Doomed /\ earlier(j) THEN "cancelled" ELSE "pending"
                    ELSE IF jobStatus[j] = "pending" /\ Sibling(j) \in Doomed THEN "cancelled"
                    ELSE jobStatus[j]]
                counted == [j \in Job |->
                    IF j \in Expired \ Doomed THEN attempts[j] + 1 ELSE attempts[j]]
                stuck == Stuck(swept, counted)
                ended == [j \in Job |-> IF j \in stuck THEN "failed" ELSE swept[j]]
    <2>. SUFFICES ASSUME NEW j \in Job PROVE JobKept(j)
      OBVIOUS
    <2>2. jobStatus' = CancelPending(ended, {k[1] : k \in stuck})
      BY <2>1
    <2>3. j \in Expired \cup Doomed => jobStatus[j] = "claimed"
      BY DEF Expired, Doomed
    <2>4. jobStatus[j] \notin {"claimed", "pending"} => swept[j] = jobStatus[j]
      BY <2>3
    <2>5. j \in stuck => swept[j] = "pending"
      BY DEF Stuck
    <2>6. ended[j] = IF j \in stuck THEN "failed" ELSE swept[j]
      OBVIOUS
    <2>. HIDE DEF swept, counted, stuck, ended
    <2>7. /\ jobStatus'[j] \in {ended[j], "cancelled"}
          /\ ended[j] # "pending" => jobStatus'[j] = ended[j]
      BY <2>2, CancelKept
    <2>. QED BY <2>4, <2>5, <2>6, <2>7 DEF JobKept, EndedStatus, Live
  <1>2. ASSUME StopStalledRun PROVE \A j \in Job : JobKept(j)
    <2>1. cur \in Job /\ jobStatus[cur] = "claimed"
      BY <1>2 DEF StopStalledRun, Types, Attached, Busy
    <2>2. jobStatus' = CancelPending([jobStatus EXCEPT ![cur] = "failed"], {cur[1]})
      BY <1>2 DEF StopStalledRun
    <2>. QED BY <2>1, <2>2, FailJobs DEF Types
  <1>3. ASSUME EndLongPause PROVE \A j \in Job : JobKept(j)
    BY <1>3, CancelJobs DEF EndLongPause
  <1>4. ASSUME NEW r \in Run, FinalizeOrphanedRun(r) PROVE \A j \in Job : JobKept(j)
    BY <1>4, SameJobs DEF FinalizeOrphanedRun
  <1>. QED BY <1>1, <1>2, <1>3, <1>4 DEF Maintenance

LEMMA StepJobs == ASSUME Types, Named, [Next]_vars PROVE \A j \in Job : JobKept(j)
  <1>1. CASE UNCHANGED vars
    BY <1>1, SameJobs DEF vars, dbVars
  <1>. QED BY <1>1, BrowserJobs, QueueJobs, QuietJobs, DeliveriesJobs, MaintenanceJobs DEF Next

LEMMA NamedStep ==
    ASSUME Types, Types', Named, \A r \in Run : Known(r) => Known(r)', [Next]_vars
    PROVE  Named'
  <1>1. \A j \in Job : jobStatus'[j] # "absent" => Known(j[1])'
    BY StepJobs, JobParts DEF JobKept, Named
  <1>2. cur' \in {cur, None} \/ (sending # None /\ cur' = sending.job)
    BY DEF Next, vars, Browser, Trigger, Stop, Pause, Resume, Queue, LongPoll, PollAgain,
           DeadPollEnds, ClaimNext, Deliver, ResponseLost, ResponseClosed, Heartbeat, BeatSend,
           BeatReceive, BeatReturn, OrphanBeatLost, Execute, Prepare, NextItem, FinishItem,
           Hang, FinishInstall, FinishJob, Deliveries, ReportItem, ReportTimesOut,
           ReportGivenUp, LateReport, ProgressTick, Complete, CompleteGivenUp, Dismiss, World,
           Outage, Reconnect, Crash, Restart, Tick, Maintenance, ReapExpiredLeases,
           StopStalledRun, EndLongPause, FinalizeOrphanedRun, dbVars, netVars, workerVars
  <1>3. \/ sending' = None
        \/ sending # None /\ sending'.job = sending.job
        \/ \E j \in Claimable : sending'.job = j
    <2>1. CASE \E p \in polls : ClaimNext(p)
      BY <2>1 DEF ClaimNext
    <2>2. CASE Sever
      BY <2>2 DEF Sever, Types, NetTypes, Claim
    <2>3. ASSUME ~ \E p \in polls : ClaimNext(p), ~Sever PROVE sending' \in {sending, None}
      BY <2>3
      DEF Next, vars, Browser, Trigger, Stop, Pause, Resume, Queue, LongPoll, PollAgain,
          DeadPollEnds, Deliver, ResponseLost, ResponseClosed, Heartbeat, BeatSend,
          BeatReceive, BeatReturn, OrphanBeatLost, Execute, Prepare, NextItem, FinishItem,
          Hang, FinishInstall, FinishJob, Deliveries, ReportItem, ReportTimesOut,
          ReportGivenUp, LateReport, ProgressTick, Complete, CompleteGivenUp, World, Outage,
          Reconnect, Crash, Restart, Tick, Maintenance, ReapExpiredLeases, StopStalledRun,
          EndLongPause, FinalizeOrphanedRun, dbVars, netVars
    <2>. QED BY <2>1, <2>2, <2>3
  <1>4. ticks' \subseteq ticks \/ (cur # None /\ ticks' = {<<cur[1], at'>>})
    <2>1. CASE NextItem
      BY <2>1, NoneAssumption DEF NextItem, Types, Attached, Busy
    <2>2. ASSUME ~NextItem PROVE ticks' \subseteq ticks
      BY <2>2
      DEF Next, vars, Browser, Trigger, Stop, Pause, Resume, Queue, LongPoll, PollAgain,
          DeadPollEnds, ClaimNext, Deliver, ResponseLost, ResponseClosed, Heartbeat, BeatSend,
          BeatReceive, BeatReturn, OrphanBeatLost, Execute, Prepare, FinishItem, Hang,
          FinishInstall, FinishJob, Deliveries, ReportItem, ReportTimesOut, ReportGivenUp,
          LateReport, ProgressTick, Complete, CompleteGivenUp, World, Outage, Reconnect,
          Crash, Restart, Tick, Maintenance, ReapExpiredLeases, StopStalledRun,
          EndLongPause, FinalizeOrphanedRun, dbVars, netVars
    <2>. QED BY <2>1, <2>2
  <1>5. late' \subseteq late \/ (cur # None /\ late' \subseteq late \cup {ThisReport})
    <2>1. CASE ReportTimesOut \/ Crash
      BY <2>1, NoneAssumption DEF ReportTimesOut, Crash, Types, Attached, Busy
    <2>2. ASSUME ~ReportTimesOut, ~Crash PROVE late' \subseteq late
      BY <2>2
      DEF Next, vars, Browser, Trigger, Stop, Pause, Resume, Queue, LongPoll, PollAgain,
          DeadPollEnds, ClaimNext, Deliver, ResponseLost, ResponseClosed, Heartbeat, BeatSend,
          BeatReceive, BeatReturn, OrphanBeatLost, Execute, Prepare, NextItem, FinishItem,
          Hang, FinishInstall, FinishJob, Deliveries, ReportItem, ReportGivenUp, LateReport,
          ProgressTick, Complete, CompleteGivenUp, World, Outage, Reconnect, Restart, Tick,
          Maintenance, ReapExpiredLeases, StopStalledRun, EndLongPause, FinalizeOrphanedRun,
          dbVars, netVars
    <2>. QED BY <2>1, <2>2
  <1>6. cur' # None => Known(cur[1])'
    BY <1>2, JobParts DEF Types, WorkerTypes, NetTypes, Claim, Named
  <1>7. sending' # None => Known(sending.job[1])'
    BY <1>3, JobParts DEF Types, NetTypes, Claim, Claimable, Named
  <1>8. \A t \in ticks' : Known(t[1])'
    BY <1>4, JobParts DEF Types, WorkerTypes, NetTypes, Named
  <1>9. \A m \in late' : Known(m.run)'
    BY <1>5, JobParts DEF Types, WorkerTypes, NetTypes, Named, ThisReport, Report
  <1>. QED BY <1>1, <1>6, <1>7, <1>8, <1>9 DEF Named, Known

-----------------------------------------------------------------------------
(* The invariant, and the theorems *)

Inv == Types /\ Named /\ Untouched /\ FinishedIffClosed

LEMMA InitInv == Init => Inv
  <1>. SUFFICES ASSUME Init PROVE Inv
    OBVIOUS
  <1>1. Types
    BY InitTypes, TypeParts DEF Types, Attached, Busy, Init
  <1>2. Named /\ Untouched
    BY DEF Init, Named, Untouched, Known
  <1>3. FinishedIffClosed
    BY DEF Init, FinishedIffClosed
  <1>. QED BY <1>1, <1>2, <1>3 DEF Inv

LEMMA StepInv ==
    ASSUME Inv, [Next]_vars
    PROVE  /\ Inv'
           /\ RL!Next
           /\ \A r \in Run : Final(r) => /\ runStatus'[r] = runStatus[r]
                                         /\ runError'[r] = runError[r]
           /\ \A r \in Run, i \in Item : item[r][i] = "done" => item'[r][i] = "done"
  <1>1. Types'
    BY StepTypes DEF Inv
  <1>2. RL!Next
    BY StepRows, RowsPromised DEF Inv, Types
  <1>. QED BY <1>1, <1>2, LifecycleStep, NamedStep DEF Inv, Types

THEOREM InvHolds == Spec => []Inv
  <1>1. Inv /\ [Next]_vars => Inv'
    BY StepInv
  <1>. QED BY InitInv, <1>1, PTL DEF Spec

(* A run reads as finished exactly when all its items are: no order of     *)
(* reports, ticks, stops, crashes and sweeps (repo.ts finalizeTest,        *)
(* recordTestItemTerminal, updateTestItemTick; reaper.ts) separates them.  *)
THEOREM FinishedWhenClosed == Spec => []FinishedIffClosed
  <1>1. Inv => FinishedIffClosed
    BY DEF Inv
  <1>. QED BY InvHolds, <1>1, PTL

(* A finished run keeps its outcome and its note, whoever reports or sweeps *)
(* later (the isFinishedTest returns of repo.ts).                          *)
THEOREM OutcomeKept == Spec => OutcomeIsFinal
  <1>1. Inv /\ [Next]_vars =>
            [\A r \in Run : Final(r) => /\ runStatus'[r] = runStatus[r]
                                        /\ runError'[r] = runError[r]]_vars
    BY StepInv
  <1>. QED BY InvHolds, <1>1, PTL DEF Spec, OutcomeIsFinal

(* A measured item stays measured: duplicated, reordered and re-executed   *)
(* reports cannot take a result back (repo.ts recordTestItemTerminal).     *)
THEOREM MeasuredKept == Spec => DoneItemStaysDone
  <1>1. Inv /\ [Next]_vars =>
            [\A r \in Run, i \in Item : item[r][i] = "done" => item'[r][i] = "done"]_vars
    BY StepInv
  <1>. QED BY InvHolds, <1>1, PTL DEF Spec, DoneItemStaysDone

(* A job that completed, failed or was cancelled is never handed out or    *)
(* requeued again (repo.ts claimNextJob, markJobCompleted, returnToPending, *)
(* unclaimJob and the sweeps of reaper.ts).                                *)
THEOREM JobsEndOnce == Spec => EndedJobStaysEnded
  <1>1. Inv /\ [Next]_vars =>
            [\A j \in Job : jobStatus[j] \in {"completed", "failed", "cancelled"} =>
                jobStatus'[j] \notin Live]_vars
    BY StepJobs DEF Inv, JobKept, EndedStatus
  <1>. QED BY InvHolds, <1>1, PTL DEF Spec, EndedJobStaysEnded

(* The queue, with all its faults, keeps the promise a reader of the run   *)
(* rows relies on: it implements RunLifecycle.                             *)
THEOREM Implements == Spec => Lifecycle
  <1>1. Init => RL!Init
    BY DEF Init, RL!Init
  <1>2. Inv /\ [Next]_vars => [RL!Next]_(RL!vars)
    BY StepInv
  <1>. QED BY InvHolds, <1>1, <1>2, PTL DEF Spec, Lifecycle, RL!Spec

-----------------------------------------------------------------------------
(* The job a worker executes *)

WorkingPc == {"preparing", "choosing", "running", "reporting"}
Ends(r) == runStatus'[r] \in FinalStatus
Flying(b) == b # None /\ b.phase # "orphan"

Completes(j) == Complete /\ j = cur /\ result = "done" /\ UNCHANGED <<item, runStatus>>

(* What a step can do to a job's status, and who does it. *)
JobMove(j) ==
    \/ jobStatus'[j] = jobStatus[j]
    \/ jobStatus[j] = "absent" /\ jobStatus'[j] = "pending" /\ ~Known(j[1])
    \/ /\ jobStatus[j] = "pending" /\ jobStatus'[j] \in {"failed", "cancelled"}
       /\ attempts[j] = 0 /\ jobStatus[Sibling(j)] = "pending" =>
             jobStatus'[Sibling(j)] # "pending"
    \/ /\ jobStatus[j] = "pending" /\ jobStatus'[j] = "claimed" /\ sending'.job = j
       /\ Oldest(j, Claimable)
    \/ /\ jobStatus[j] = "claimed" /\ j \in Expired
       /\ jobStatus'[j] \in {"pending", "failed", "cancelled"}
       /\ jobStatus'[j] = "pending" => attempts'[j] > 0
       /\ Offline => jobStatus'[j] # "pending" /\ Ends(j[1])
    \/ /\ jobStatus[j] = "claimed" /\ j = cur /\ pc \in Busy
       /\ \/ jobStatus'[j] \in {"failed", "cancelled"}
          \/ jobStatus'[j] = "completed" /\ Completes(j)
       /\ (hung /\ Ends(j[1])) \/ pc' \notin WorkingPc
    \/ ResponseClosed /\ j = sending.job

LEMMA ReconcileEnds ==
    ASSUME ItemTypes, NEW R, NEW note, Reconcile(R, note), NEW r \in Run, r \in R, Known(r)
    PROVE  Ends(r)
  <1>. DEFINE its == [q \in Run |->
                   IF q \in Unfinished(R) THEN Close(item[q], "cancelled") ELSE item[q]]
  <1>1. runStatus'[r] = IF r \in Unfinished(R) THEN Outcomes(its[r], FALSE) ELSE runStatus[r]
    BY DEF Reconcile
  <1>2. Outcomes(its[r], FALSE) \in FinalStatus
    BY OutcomesFinal
  <1>3. r \notin Unfinished(R) => runStatus[r] \in FinalStatus
    BY DEF Unfinished, Active, Known, FinalStatus, ItemTypes, RunStatus
  <1>. QED BY <1>1, <1>2, <1>3 DEF Ends

LEMMA CancelMoves ==
    ASSUME NEW R, jobStatus' = CancelPending(jobStatus, R), NEW j \in Job
    PROVE  JobMove(j)
  <1>1. CancelPending(jobStatus, R)[j] = IF j[1] \in R /\ jobStatus[j] = "pending"
                                         THEN "cancelled" ELSE jobStatus[j]
    BY DEF CancelPending
  <1>2. Sibling(j) \in Job /\ Sibling(j)[1] = j[1]
    BY JobParts DEF Sibling
  <1>3. CancelPending(jobStatus, R)[Sibling(j)] =
            IF j[1] \in R /\ jobStatus[Sibling(j)] = "pending"
            THEN "cancelled" ELSE jobStatus[Sibling(j)]
    BY <1>2 DEF CancelPending
  <1>. QED BY <1>1, <1>3 DEF JobMove, EndedStatus

LEMMA BrowserMoves == ASSUME Types, Named, Browser, NEW j \in Job PROVE JobMove(j)
  <1>1. ASSUME NEW r \in Run, Trigger(r) PROVE JobMove(j)
    <2>1. j[1] = r => jobStatus[j] = "absent" /\ ~Known(j[1])
      BY <1>1 DEF Trigger, Named, Known
    <2>2. j[1] # r => jobStatus'[j] = jobStatus[j]
      BY <1>1 DEF Trigger
    <2>3. jobStatus'[j] \in {"pending", jobStatus[j]}
      BY <1>1 DEF Trigger
    <2>. QED BY <2>1, <2>2, <2>3 DEF JobMove
  <1>2. ASSUME NEW r \in Run, Stop(r) PROVE JobMove(j)
    BY <1>2, CancelMoves DEF Stop
  <1>. QED BY <1>1, <1>2 DEF Browser, Pause, Resume, JobMove

LEMMA QueueMoves == ASSUME Types, Queue, NEW j \in Job PROVE JobMove(j)
  <1>1. ASSUME NEW p \in polls, ClaimNext(p) PROVE JobMove(j)
    <2>1. PICK k \in Claimable :
            /\ Oldest(k, Claimable)
            /\ jobStatus' = [jobStatus EXCEPT ![k] = "claimed"]
            /\ sending' = [job |-> k, poll |-> p,
                           todo |-> {i \in Item : item[k[1]][i] \notin Closed}]
      BY <1>1 DEF ClaimNext
    <2>2. sending'.job = k /\ jobStatus[k] = "pending"
      BY <2>1 DEF Claimable
    <2>. QED BY <2>1, <2>2 DEF JobMove, Types, JobTypes
  <1>2. ASSUME ResponseClosed PROVE JobMove(j)
    BY <1>2 DEF ResponseClosed, JobMove, Types, JobTypes
  <1>. QED BY <1>1, <1>2
           DEF Queue, LongPoll, PollAgain, DeadPollEnds, Deliver, ResponseLost, dbVars, JobMove

LEMMA FailMoves ==
    ASSUME JobTypes, cur \in Job, pc \in Busy, jobStatus[cur] = "claimed",
           jobStatus' = CancelPending([jobStatus EXCEPT ![cur] = "failed"], {cur[1]}),
           (hung /\ Ends(cur[1])) \/ pc' \notin WorkingPc, NEW j \in Job
    PROVE  JobMove(j)
  <1>. DEFINE js == [jobStatus EXCEPT ![cur] = "failed"]
  <1>1. js[j] = IF j = cur THEN "failed" ELSE jobStatus[j]
    BY DEF JobTypes
  <1>2. jobStatus' = CancelPending(js, {cur[1]})
    OBVIOUS
  <1>. HIDE DEF js
  <1>3. jobStatus'[j] = IF j[1] = cur[1] /\ js[j] = "pending" THEN "cancelled" ELSE js[j]
    BY <1>2 DEF CancelPending
  <1>4. Sibling(j) \in Job /\ Sibling(j)[1] = j[1]
    BY JobParts DEF Sibling
  <1>5. jobStatus'[Sibling(j)] = IF j[1] = cur[1] /\ js[Sibling(j)] = "pending"
                                 THEN "cancelled" ELSE js[Sibling(j)]
    BY <1>2, <1>4 DEF CancelPending
  <1>. QED BY <1>1, <1>3, <1>5 DEF JobMove, EndedStatus

LEMMA DeliveriesMoves == ASSUME Types, Deliveries, NEW j \in Job PROVE JobMove(j)
  <1>1. ASSUME Complete PROVE JobMove(j)
    <2>1. cur \in Job /\ pc \in Busy /\ RecordOutcome(cur, result = "done")
      BY <1>1 DEF Complete, Types, Attached, Busy
    <2>2. pc' \notin WorkingPc
      BY <1>1 DEF Complete, Dismiss, WorkingPc
    <2>3. CASE jobStatus[cur] # "claimed"
      BY <2>1, <2>3 DEF RecordOutcome, JobMove
    <2>4. CASE jobStatus[cur] = "claimed" /\ result = "done"
      <3>1. Completes(cur)
        BY <1>1, <2>1, <2>4 DEF Complete, RecordOutcome, Completes
      <3>2. jobStatus' = [jobStatus EXCEPT ![cur] = "completed"]
        BY <2>1, <2>4 DEF RecordOutcome
      <3>. QED BY <2>1, <2>2, <2>4, <3>1, <3>2 DEF JobMove, Types, JobTypes
    <2>5. CASE jobStatus[cur] = "claimed" /\ result # "done"
      BY <2>1, <2>2, <2>5, FailMoves DEF RecordOutcome, Types
    <2>. QED BY <2>3, <2>4, <2>5
  <1>. QED BY <1>1
           DEF Deliveries, ReportItem, ReportTimesOut, ReportGivenUp, CompleteGivenUp,
               LateReport, ProgressTick, dbVars, JobMove

LEMMA ReapMoves == ASSUME Types, Named, ReapExpiredLeases, NEW j \in Job PROVE JobMove(j)
  <1>1. PICK benchFirst \in SUBSET Run :
        LET earlier(k) == (k[2] = "bench") = (k[1] \in benchFirst)
            swept == [k \in Job |->
                IF k \in Doomed THEN "failed"
                ELSE IF k \in Expired
                THEN IF Sibling(k) \in Doomed /\ earlier(k) THEN "cancelled" ELSE "pending"
                ELSE IF jobStatus[k] = "pending" /\ Sibling(k) \in Doomed THEN "cancelled"
                ELSE jobStatus[k]]
            counted == [k \in Job |->
                IF k \in Expired \ Doomed THEN attempts[k] + 1 ELSE attempts[k]]
            stuck == Stuck(swept, counted)
            over == {k[1] : k \in Doomed \cup stuck}
        IN  /\ jobStatus' = CancelPending([k \in Job |->
                                IF k \in stuck THEN "failed" ELSE swept[k]],
                                {k[1] : k \in stuck})
            /\ attempts' = counted
            /\ Reconcile(over, "lost")
    BY DEF ReapExpiredLeases
  <1>. DEFINE earlier(k) == (k[2] = "bench") = (k[1] \in benchFirst)
              swept == [k \in Job |->
                  IF k \in Doomed THEN "failed"
                  ELSE IF k \in Expired
                  THEN IF Sibling(k) \in Doomed /\ earlier(k) THEN "cancelled" ELSE "pending"
                  ELSE IF jobStatus[k] = "pending" /\ Sibling(k) \in Doomed THEN "cancelled"
                  ELSE jobStatus[k]]
              counted == [k \in Job |->
                  IF k \in Expired \ Doomed THEN attempts[k] + 1 ELSE attempts[k]]
              stuck == Stuck(swept, counted)
              ended == [k \in Job |-> IF k \in stuck THEN "failed" ELSE swept[k]]
              over == {k[1] : k \in Doomed \cup stuck}
  <1>2. /\ jobStatus' = CancelPending(ended, {k[1] : k \in stuck})
        /\ attempts' = counted /\ Reconcile(over, "lost")
    BY <1>1
  <1>3. \A k \in Job : k \in Expired \cup Doomed => jobStatus[k] = "claimed" /\ k \in Expired
    BY DEF Expired, Doomed
  <1>4. Sibling(j) \in Job /\ Sibling(Sibling(j)) = j /\ Sibling(j)[1] = j[1]
    BY JobParts DEF Sibling, Job
  <1>5. \A k \in Job :
            jobStatus'[k] = IF ended[k] = "pending" /\ \E q \in stuck : q[1] = k[1]
                            THEN "cancelled" ELSE ended[k]
    BY <1>2 DEF CancelPending
  <1>6. CASE j \in Doomed
    <2>1. ended[j] = "failed" /\ j[1] \in over
      BY <1>6 DEF Stuck
    <2>. HIDE DEF ended, over
    <2>2. Ends(j[1])
      BY <1>2, <1>3, <1>6, <2>1, ReconcileEnds, JobParts DEF Named, Types
    <2>. QED BY <1>3, <1>5, <1>6, <2>1, <2>2 DEF JobMove
  <1>7. CASE j \in Expired \ Doomed
    <2>1. /\ swept[j] \in {"pending", "cancelled"}
          /\ swept[j] = "cancelled" => Sibling(j) \in Doomed
          /\ counted[j] = attempts[j] + 1
      BY <1>7
    <2>2. counted[j] >= 1 /\ counted[j] > 0
      BY <2>1, AttemptsAssumption DEF Types, JobTypes
    <2>3. Offline /\ swept[j] = "pending" => j \in stuck
      BY <2>2 DEF Stuck
    <2>4. ended[j] \in {"pending", "failed", "cancelled"}
      BY <2>1
    <2>5. Offline => ended[j] # "pending" /\ j[1] \in over
      BY <1>4, <2>1, <2>3
    <2>6. Offline => Ends(j[1])
      <3>. HIDE DEF ended, over
      <3>. QED BY <1>2, <1>3, <1>7, <2>5, ReconcileEnds, JobParts DEF Named, Types
    <2>. HIDE DEF ended, swept, stuck, over
    <2>. QED BY <1>2, <1>3, <1>5, <1>7, <2>2, <2>4, <2>5, <2>6 DEF JobMove
  <1>8. CASE j \notin Expired /\ jobStatus[j] # "pending"
    <2>1. j \notin Doomed
      BY <1>8, <1>3
    <2>2. swept[j] = jobStatus[j] /\ j \notin stuck
      BY <1>8, <2>1 DEF Stuck
    <2>3. ended[j] = jobStatus[j]
      BY <2>2
    <2>. HIDE DEF ended
    <2>. QED BY <1>5, <1>8, <2>3 DEF JobMove
  <1>9. CASE jobStatus[j] = "pending"
    <2>. DEFINE s == Sibling(j)
    <2>1. j \notin Expired /\ j \notin Doomed
      BY <1>3, <1>9
    <2>2. ended[j] \in {"pending", "failed", "cancelled"}
      BY <1>9, <2>1
    <2>3. ASSUME attempts[j] = 0, jobStatus[s] = "pending", jobStatus'[j] # "pending"
          PROVE  jobStatus'[s] # "pending"
      <3>1. s \notin Expired /\ s \notin Doomed
        BY <1>3, <1>4, <2>3
      <3>2. swept[j] = "pending" /\ counted[j] = 0
        BY <1>9, <2>1, <2>3, <3>1
      <3>3. j \notin stuck
        BY <3>2 DEF Stuck
      <3>4. ended[j] = "pending"
        BY <3>2, <3>3
      <3>. HIDE DEF ended, stuck
      <3>5. \E q \in stuck : q[1] = j[1]
        BY <1>5, <2>3, <3>4
      <3>. QED BY <1>4, <1>5, <3>5
    <2>. HIDE DEF ended, stuck
    <2>. QED BY <1>5, <1>9, <2>2, <2>3 DEF JobMove
  <1>. QED BY <1>6, <1>7, <1>8, <1>9

LEMMA MaintenanceMoves == ASSUME Types, Named, Maintenance, NEW j \in Job PROVE JobMove(j)
  <1>1. CASE ReapExpiredLeases
    BY <1>1, ReapMoves
  <1>2. ASSUME StopStalledRun PROVE JobMove(j)
    <2>1. cur \in Job /\ pc \in Busy /\ jobStatus[cur] = "claimed"
      BY <1>2 DEF StopStalledRun, Types, Attached, Busy
    <2>2. Ends(cur[1])
      BY <1>2, <2>1, ReconcileEnds, JobParts DEF StopStalledRun, Types, Named
    <2>3. hung
      BY <1>2 DEF StopStalledRun
    <2>. QED BY <1>2, <2>1, <2>2, <2>3, FailMoves DEF StopStalledRun, Types
  <1>3. ASSUME EndLongPause PROVE JobMove(j)
    BY <1>3, CancelMoves DEF EndLongPause
  <1>. QED BY <1>1, <1>2, <1>3 DEF Maintenance, FinalizeOrphanedRun, JobMove

LEMMA StepMoves == ASSUME Types, Named, [Next]_vars, NEW j \in Job PROVE JobMove(j)
  <1>1. CASE Heartbeat \/ Execute \/ World \/ UNCHANGED vars
    BY <1>1
    DEF Heartbeat, BeatSend, BeatReceive, BeatReturn, OrphanBeatLost, Execute, Prepare,
        NextItem, FinishItem, Hang, FinishInstall, FinishJob, World, Outage, Reconnect,
        Crash, Restart, Tick, vars, dbVars, JobMove
  <1>. QED BY <1>1, BrowserMoves, QueueMoves, DeliveriesMoves, MaintenanceMoves DEF Next

(* A worker executes a job it holds, or one whose outcome is already known: *)
(* a claim on its way has not been taken back, no other claim of the job   *)
(* is on the wire, and a heartbeat names the job under way or an ended one. *)
KeptHeld == cur # None => jobStatus[cur] \in {"claimed"} \cup EndedStatus
StillHeld == cur # None /\ pc \in WorkingPc /\ jobStatus[cur] # "claimed" => Final(cur[1])
LiveClaim == sending # None /\ sending.poll = "live" => jobStatus[sending.job] = "claimed"
NotTwice == sending # None /\ cur # None => sending.job # cur
BeatNeedsLink == ~link => ~Flying(beat)
BeatsOwn ==
    Flying(beat) /\ beat.job # None /\ beat.job # cur => jobStatus[beat.job] \in EndedStatus
HeldInv == KeptHeld /\ StillHeld /\ LiveClaim /\ NotTwice /\ BeatNeedsLink /\ BeatsOwn

CurMove ==
    \/ Deliver
    \/ cur' = cur /\ (pc' \in WorkingPc => pc \in WorkingPc)
    \/ cur' = None /\ (Crash \/ CompleteGivenUp \/ Complete)

LEMMA StepCur == ASSUME [Next]_vars PROVE CurMove
  BY DEF CurMove, WorkingPc, Next, vars, Browser, Trigger, Stop, Pause, Resume, Queue, LongPoll,
         PollAgain, DeadPollEnds, ClaimNext, ResponseLost, ResponseClosed, Heartbeat,
         BeatSend, BeatReceive, BeatReturn, OrphanBeatLost, Execute, Prepare, NextItem,
         FinishItem, Hang, FinishInstall, FinishJob, Deliveries, ReportItem, ReportTimesOut,
         ReportGivenUp, LateReport, ProgressTick, Complete, CompleteGivenUp, Dismiss, World,
         Outage, Reconnect, Crash, Restart, Tick, Maintenance, ReapExpiredLeases,
         StopStalledRun, EndLongPause, FinalizeOrphanedRun, dbVars, netVars, workerVars

SendMove ==
    \/ sending' = None
    \/ /\ sending # None /\ sending'.job = sending.job /\ sending'.todo = sending.todo
       /\ sending'.poll \in {sending.poll, "dead"}
    \/ \E k \in Claimable :
          /\ sending'.job = k /\ sending'.todo = {i \in Item : item[k[1]][i] \notin Closed}
          /\ jobStatus'[k] = "claimed" /\ UNCHANGED item

LEMMA StepSend == ASSUME Types, [Next]_vars PROVE SendMove
  <1>1. CASE \E p \in polls : ClaimNext(p)
    <2>1. PICK k \in Claimable, p \in polls :
            /\ jobStatus' = [jobStatus EXCEPT ![k] = "claimed"]
            /\ sending' = [job |-> k, poll |-> p,
                           todo |-> {i \in Item : item[k[1]][i] \notin Closed}]
            /\ UNCHANGED item
      BY <1>1 DEF ClaimNext
    <2>. QED BY <2>1 DEF SendMove, Claimable, Types, JobTypes
  <1>2. CASE Sever
    BY <1>2 DEF Sever, SendMove, Types, NetTypes, Claim
  <1>3. ASSUME ~ \E p \in polls : ClaimNext(p), ~Sever PROVE sending' \in {sending, None}
    BY <1>3
    DEF Next, vars, Browser, Trigger, Stop, Pause, Resume, Queue, LongPoll, PollAgain,
        DeadPollEnds, Deliver, ResponseLost, ResponseClosed, Heartbeat, BeatSend,
        BeatReceive, BeatReturn, OrphanBeatLost, Execute, Prepare, NextItem, FinishItem,
        Hang, FinishInstall, FinishJob, Deliveries, ReportItem, ReportTimesOut,
        ReportGivenUp, LateReport, ProgressTick, Complete, CompleteGivenUp, World, Outage,
        Reconnect, Crash, Restart, Tick, Maintenance, ReapExpiredLeases, StopStalledRun,
        EndLongPause, FinalizeOrphanedRun, dbVars, netVars
  <1>. QED BY <1>1, <1>2, <1>3 DEF SendMove

BeatMove ==
    \/ ~Flying(beat')
    \/ Flying(beat) /\ beat'.job = beat.job
    \/ beat'.job = cur /\ cur' = cur /\ link /\ link' = link

LEMMA StepBeat == ASSUME Types, [Next]_vars PROVE BeatMove
  <1>1. CASE Sever
    BY <1>1 DEF Sever, BeatMove, Flying, Types, NetTypes, Beat
  <1>2. CASE BeatSend
    BY <1>2 DEF BeatSend, BeatMove, Connected, workerVars
  <1>3. CASE BeatReceive
    BY <1>3 DEF BeatReceive, BeatMove, Flying
  <1>4. ASSUME ~BeatSend, ~BeatReceive, ~Sever PROVE beat' \in {beat, None}
    BY <1>4
    DEF Next, vars, Browser, Trigger, Stop, Pause, Resume, Queue, LongPoll, PollAgain,
        DeadPollEnds, ClaimNext, Deliver, ResponseLost, ResponseClosed, Heartbeat,
        BeatReturn, OrphanBeatLost, Execute, Prepare, NextItem, FinishItem,
        Hang, FinishInstall, FinishJob, Deliveries, ReportItem, ReportTimesOut,
        ReportGivenUp, LateReport, ProgressTick, Complete, CompleteGivenUp, World, Outage,
        Reconnect, Crash, Restart, Tick, Maintenance, ReapExpiredLeases, StopStalledRun,
        EndLongPause, FinalizeOrphanedRun, dbVars, netVars
  <1>. QED BY <1>1, <1>2, <1>3, <1>4 DEF BeatMove, Flying

LEMMA StepLink == ASSUME Types, [Next]_vars, ~link' PROVE ~link \/ ~Flying(beat')
  <1>1. CASE Outage
    BY <1>1 DEF Outage, Sever, Flying, Types, NetTypes, Beat
  <1>2. ASSUME ~Outage PROVE link' = link \/ link' = TRUE
    BY <1>2
    DEF Next, vars, Browser, Trigger, Stop, Pause, Resume, Queue, LongPoll, PollAgain,
        DeadPollEnds, ClaimNext, Deliver, ResponseLost, ResponseClosed, Heartbeat, BeatSend,
        BeatReceive, BeatReturn, OrphanBeatLost, Execute, Prepare, NextItem, FinishItem,
        Hang, FinishInstall, FinishJob, Deliveries, ReportItem, ReportTimesOut,
        ReportGivenUp, LateReport, ProgressTick, Complete, CompleteGivenUp, World,
        Reconnect, Crash, Restart, Tick, Maintenance, ReapExpiredLeases, StopStalledRun,
        EndLongPause, FinalizeOrphanedRun, dbVars, netVars
  <1>. QED BY <1>1, <1>2

HeldBasis == Types /\ Named /\ OnePoll /\ Fresh

LEMMA KeptHeldStep ==
    ASSUME HeldBasis, HeldInv, [Next]_vars
    PROVE  KeptHeld' /\ (cur # None => jobStatus'[cur] \in {"claimed"} \cup EndedStatus)
  <1>. USE DEF HeldBasis, HeldInv
  <1>1. cur # None => jobStatus'[cur] \in {"claimed"} \cup EndedStatus
    <2>. SUFFICES ASSUME cur # None PROVE jobStatus'[cur] \in {"claimed"} \cup EndedStatus
      OBVIOUS
    <2>1. cur \in Job /\ jobStatus[cur] \in {"claimed"} \cup EndedStatus
      BY DEF Types, WorkerTypes, KeptHeld
    <2>2. JobMove(cur)
      BY <2>1, StepMoves
    <2>3. cur \in Expired => Offline
      BY <2>1, TimeAssumption DEF Fresh, InStep, Held, Expired, Offline, Types, JobTypes
    <2>4. ResponseClosed => cur # sending.job
      BY DEF ResponseClosed, NotTwice
    <2>. QED BY <2>1, <2>2, <2>3, <2>4 DEF JobMove, EndedStatus
  <1>2. ASSUME Deliver PROVE KeptHeld'
    BY <1>2 DEF Deliver, LiveClaim, KeptHeld, dbVars
  <1>. QED BY <1>1, <1>2, StepCur DEF CurMove, KeptHeld

LEMMA StillHeldStep ==
    ASSUME HeldBasis, HeldInv, \A r \in Run : Final(r) => Ends(r), [Next]_vars PROVE StillHeld'
  <1>. USE DEF HeldBasis, HeldInv
  <1>1. ASSUME Deliver PROVE StillHeld'
    BY <1>1 DEF Deliver, LiveClaim, StillHeld, dbVars
  <1>2. ASSUME cur' = cur, pc' \in WorkingPc => pc \in WorkingPc PROVE StillHeld'
    <2>. SUFFICES ASSUME cur # None, pc' \in WorkingPc, jobStatus'[cur] # "claimed"
                  PROVE  Ends(cur[1])
      BY <1>2 DEF StillHeld, Ends, Final
    <2>1. cur \in Job /\ cur[1] \in Run
      BY JobParts DEF Types, WorkerTypes
    <2>2. JobMove(cur)
      BY <2>1, StepMoves
    <2>3. cur \in Expired => Offline
      BY <2>1, TimeAssumption DEF Fresh, InStep, Held, Expired, Offline, Types, JobTypes
    <2>4. ResponseClosed => cur # sending.job
      BY DEF ResponseClosed, NotTwice
    <2>5. jobStatus[cur] \in {"claimed"} \cup EndedStatus
      BY DEF KeptHeld
    <2>6. CASE jobStatus[cur] = "claimed"
      BY <1>2, <2>1, <2>2, <2>3, <2>4, <2>6 DEF JobMove, EndedStatus
    <2>7. CASE jobStatus[cur] # "claimed"
      BY <1>2, <2>1, <2>7 DEF StillHeld
    <2>. QED BY <2>6, <2>7
  <1>. QED BY <1>1, <1>2, StepCur DEF CurMove, StillHeld

LEMMA ClaimStep ==
    ASSUME HeldBasis, HeldInv, [Next]_vars PROVE LiveClaim' /\ NotTwice'
  <1>. USE DEF HeldBasis, HeldInv
  <1>1. cur' \in {cur, None} \/ Deliver
    BY StepCur DEF CurMove
  <1>2. ASSUME Deliver PROVE LiveClaim' /\ NotTwice'
    BY <1>2 DEF Deliver, LiveClaim, NotTwice
  <1>3. ASSUME NEW k \in Claimable, sending'.job = k, jobStatus'[k] = "claimed", ~Deliver
        PROVE  LiveClaim' /\ NotTwice'
    <2>1. cur # None => cur # k
      BY <1>3 DEF KeptHeld, Claimable, EndedStatus
    <2>. QED BY <1>1, <1>3, <2>1 DEF LiveClaim, NotTwice
  <1>4. ASSUME sending # None, sending'.job = sending.job,
               sending'.poll \in {sending.poll, "dead"}, ~Deliver
        PROVE  LiveClaim' /\ NotTwice'
    <2>1. NotTwice'
      BY <1>1, <1>4 DEF NotTwice
    <2>2. LiveClaim'
      <3>. SUFFICES ASSUME sending.poll = "live" PROVE jobStatus'[sending.job] = "claimed"
        BY <1>4 DEF LiveClaim
      <3>1. sending.job \in Job /\ jobStatus[sending.job] = "claimed"
        BY <1>4 DEF Types, NetTypes, Claim, LiveClaim
      <3>2. JobMove(sending.job)
        BY <3>1, StepMoves
      <3>3. pc \notin Busy
        BY <1>4 DEF OnePoll, Busy
      <3>4. sending.job # None
        BY <3>1, NoneAssumption
      <3>5. sending.job \notin Expired
        BY <1>4, <3>1, <3>4, TimeAssumption DEF Fresh, FreshClaim, Held, Expired
      <3>. QED BY <3>1, <3>2, <3>3, <3>5 DEF JobMove, ResponseClosed
    <2>. QED BY <2>1, <2>2
  <1>5. ASSUME sending' = None PROVE LiveClaim' /\ NotTwice'
    BY <1>5 DEF LiveClaim, NotTwice
  <1>. QED BY <1>2, <1>3, <1>4, <1>5, StepSend DEF SendMove

LEMMA BeatsOwnStep ==
    ASSUME HeldBasis, HeldInv, [Next]_vars PROVE BeatsOwn' /\ BeatNeedsLink'
  <1>. USE DEF HeldBasis, HeldInv
  <1>1. BeatNeedsLink'
    <2>1. CASE ~link
      BY <2>1, StepBeat, StepLink DEF BeatNeedsLink, BeatMove
    <2>2. CASE link
      BY <2>2, StepLink DEF BeatNeedsLink
    <2>. QED BY <2>1, <2>2
  <1>2. BeatsOwn'
    <2>1. CASE ~Flying(beat')
      BY <2>1 DEF BeatsOwn
    <2>2. CASE beat'.job = cur /\ cur' = cur
      BY <2>2 DEF BeatsOwn
    <2>3. CASE Flying(beat) /\ beat'.job = beat.job
      <3>. SUFFICES ASSUME beat.job # None, beat.job # cur', Flying(beat')
                    PROVE  jobStatus'[beat.job] \in EndedStatus
        BY <2>3 DEF BeatsOwn
      <3>1. beat.job \in Job
        BY <2>3 DEF Flying, Types, NetTypes, Beat
      <3>2. CASE beat.job # cur
        <4>1. jobStatus[beat.job] \in EndedStatus
          BY <2>3, <3>2 DEF BeatsOwn
        <4>2. JobMove(beat.job)
          BY <3>1, StepMoves
        <4>3. ResponseClosed => jobStatus'[beat.job] = jobStatus[beat.job]
          BY <3>1, <4>1 DEF ResponseClosed, EndedStatus, Types, JobTypes
        <4>. QED BY <4>1, <4>2, <4>3 DEF JobMove, EndedStatus
      <3>3. CASE beat.job = cur
        <4>1. CASE Complete
          <5>1. RecordOutcome(cur, result = "done")
            BY <4>1 DEF Complete
          <5>2. jobStatus[cur] \in {"claimed"} \cup EndedStatus
            BY <3>1, <3>3 DEF KeptHeld
          <5>3. CASE jobStatus[cur] # "claimed"
            BY <3>3, <5>1, <5>2, <5>3 DEF RecordOutcome
          <5>4. CASE jobStatus[cur] = "claimed" /\ result = "done"
            BY <3>1, <3>3, <5>1, <5>4 DEF RecordOutcome, EndedStatus, Types, JobTypes
          <5>5. CASE jobStatus[cur] = "claimed" /\ result # "done"
            <6>. DEFINE js == [jobStatus EXCEPT ![cur] = "failed"]
            <6>1. jobStatus' = CancelPending(js, {cur[1]})
              BY <5>1, <5>5 DEF RecordOutcome
            <6>2. js[cur] = "failed"
              BY <3>1, <3>3 DEF Types, JobTypes
            <6>. HIDE DEF js
            <6>. QED BY <3>1, <3>3, <6>1, <6>2, CancelKept DEF EndedStatus
          <5>. QED BY <5>3, <5>4, <5>5
        <4>2. CASE Crash
          BY <2>3, <4>2 DEF Crash, Sever, Flying, Types, NetTypes, Beat
        <4>3. CASE CompleteGivenUp
          BY <2>3, <4>3 DEF CompleteGivenUp, BeatNeedsLink
        <4>4. CASE Deliver
          BY <3>1, <3>3, <4>4, NoneAssumption DEF Deliver, OnePoll, Busy
        <4>5. CASE cur' = cur
          BY <3>3, <4>5
        <4>. QED BY <4>1, <4>2, <4>3, <4>4, <4>5, StepCur DEF CurMove
      <3>. QED BY <3>2, <3>3
    <2>. QED BY <2>1, <2>2, <2>3, StepBeat DEF BeatMove
  <1>. QED BY <1>1, <1>2

LEMMA StepHeld ==
    ASSUME HeldBasis, HeldInv, \A r \in Run : Final(r) => Ends(r), [Next]_vars
    PROVE  HeldInv'
  BY KeptHeldStep, StillHeldStep, ClaimStep, BeatsOwnStep DEF HeldInv

-----------------------------------------------------------------------------
(* Why a run was stopped, when no pause can expire *)

Excused(r) == r \in userStopped \/ Final(r)
Measuring == cur # None /\ pc \in WorkingPc /\ cur[2] = "bench"

(* Everything that can cancel an item of an unfinished run goes back to a   *)
(* user's stop: the flag on the job, the answer to a heartbeat, the flag in *)
(* the worker, the report it prepares, the reports still on their way.     *)
Unpaused == ~pauseRequested
Asked == \A j \in Job : cancelRequested[j] => j[1] \in userStopped
ItemsMeant == \A r \in Run, i \in Item : item[r][i] = "cancelled" => Excused(r)
LateMeant == \A m \in late : m.status = "cancelled" => Excused(m.run)
AnswerMeant ==
    Measuring /\ beat # None /\ beat.phase = "response" /\ beat.cancel /\ beat.job = cur
        => Excused(cur[1])
FlagMeant == Measuring /\ stopFlag => Excused(cur[1])
ReportMeant == pc = "reporting" /\ result = "cancelled" => Excused(cur[1])
BenchOnly == pc \in {"preparing", "choosing", "reporting"} => cur # None /\ cur[2] = "bench"

Meant == /\ Unpaused /\ Asked /\ ItemsMeant /\ LateMeant /\ AnswerMeant /\ FlagMeant
         /\ ReportMeant /\ BenchOnly /\ StoppedByUserIsAccurate

MeantBasis ==
    /\ HeldBasis /\ HeldInv /\ "pause" \notin Event
    /\ HeldBasis' /\ \A r \in Run : Final(r) => Ends(r)

LEMMA StepUnpaused == ASSUME MeantBasis, Unpaused, [Next]_vars PROVE Unpaused'
  BY DEF MeantBasis, Unpaused, Next, vars, Browser, Trigger, Stop, Pause, Resume, Queue, LongPoll,
         PollAgain, DeadPollEnds, ClaimNext, Deliver, ResponseLost, ResponseClosed, Heartbeat,
         BeatSend, BeatReceive, BeatReturn, OrphanBeatLost, Execute, Prepare, NextItem,
         FinishItem, Hang, FinishInstall, FinishJob, Deliveries, ReportItem, ReportTimesOut,
         ReportGivenUp, LateReport, ProgressTick, Complete, CompleteGivenUp, World,
         Outage, Reconnect, Crash, Restart, Tick, Maintenance, ReapExpiredLeases,
         StopStalledRun, EndLongPause, FinalizeOrphanedRun, dbVars, Rationed

LEMMA StepAsked ==
    ASSUME MeantBasis, Unpaused, Asked, [Next]_vars PROVE Asked' /\ userStopped \subseteq userStopped'
  <1>1. ASSUME NEW r \in Run, Stop(r) PROVE Asked' /\ userStopped \subseteq userStopped'
    BY <1>1 DEF Stop, Asked
  <1>2. ASSUME ~ \E r \in Run : Stop(r) PROVE UNCHANGED <<cancelRequested, userStopped>>
    BY <1>2
    DEF Unpaused, Next, vars, Browser, Trigger, Pause, Resume, Queue, LongPoll,
         PollAgain, DeadPollEnds, ClaimNext, Deliver, ResponseLost, ResponseClosed, Heartbeat,
         BeatSend, BeatReceive, BeatReturn, OrphanBeatLost, Execute, Prepare, NextItem,
         FinishItem, Hang, FinishInstall, FinishJob, Deliveries, ReportItem, ReportTimesOut,
         ReportGivenUp, LateReport, ProgressTick, Complete, CompleteGivenUp, World,
         Outage, Reconnect, Crash, Restart, Tick, Maintenance, ReapExpiredLeases,
         StopStalledRun, EndLongPause, FinalizeOrphanedRun, dbVars
  <1>. QED BY <1>1, <1>2 DEF Asked

LEMMA StaysExcused ==
    ASSUME \A r \in Run : Final(r) => Ends(r), userStopped \subseteq userStopped',
           NEW r \in Run, Excused(r)
    PROVE  r \in userStopped' \/ Ends(r)
  BY DEF Excused

(* What a step may write into the rows. *)
RowsMeant ==
    /\ \A r \in Run, i \in Item : item'[r][i] = "cancelled" =>
            item[r][i] = "cancelled" \/ r \in userStopped' \/ Ends(r)
    /\ \A r \in Run : runError'[r] = "stopped by user" =>
            runError[r] = "stopped by user" \/ r \in userStopped'

LEMMA ReconcileMeant ==
    ASSUME ItemTypes, NEW R, NEW note, Reconcile(R, note),
           note = "stopped by user" => R \subseteq userStopped'
    PROVE  RowsMeant
  <1>. DEFINE its == [r \in Run |->
                   IF r \in Unfinished(R) THEN Close(item[r], "cancelled") ELSE item[r]]
  <1>1. /\ item' = its
        /\ \A r \in Run : runStatus'[r] = IF r \in Unfinished(R)
                                          THEN Outcomes(its[r], FALSE) ELSE runStatus[r]
        /\ \A r \in Run : runError'[r] \in {note, runError[r]}
        /\ \A r \in Run : r \notin Unfinished(R) => runError'[r] = runError[r]
    BY DEF Reconcile
  <1>2. \A r \in Run : r \in Unfinished(R) => r \in R /\ Ends(r)
    BY <1>1, OutcomesFinal DEF Unfinished, Ends
  <1>3. \A r \in Run, i \in Item : item'[r][i] = "cancelled" => item[r][i] = "cancelled" \/ Ends(r)
    BY <1>1, <1>2
  <1>4. \A r \in Run : runError'[r] = "stopped by user" =>
            runError[r] = "stopped by user" \/ r \in userStopped'
    BY <1>1, <1>2
  <1>. QED BY <1>3, <1>4 DEF RowsMeant

LEMMA RecordMeant ==
    ASSUME ItemTypes, ItemsMeant, NEW m \in Report, RecordTerminal(m),
           m.status = "cancelled" => Excused(m.run),
           userStopped \subseteq userStopped', \A r \in Run : Final(r) => Ends(r)
    PROVE  RowsMeant
  <1>. DEFINE r == m.run
              its == [item[r] EXCEPT ![m.idx] = m.status]
              last == Active(r) /\ \A i \in Item : its[i] \in Closed
  <1>1. r \in Run /\ m.idx \in Item
    BY DEF Report
  <1>2. CASE Repeat(m)
    BY <1>2 DEF RecordTerminal, RowsMeant
  <1>3. CASE ~Repeat(m)
    <2>1. /\ item' = [item EXCEPT ![r] = its]
          /\ runError' = IF last /\ \E i \in Item : its[i] = "cancelled"
                         THEN [runError EXCEPT ![r] = "stopped by user"]
                         ELSE runError
      BY <1>3 DEF RecordTerminal
    <2>2. \A i \in Item : its[i] = "cancelled" => Excused(r)
      BY <1>1 DEF ItemTypes, ItemsMeant
    <2>3. \A q \in Run : item'[q] = IF q = r THEN its ELSE item[q]
      BY <2>1 DEF ItemTypes
    <2>4. \A q \in Run, i \in Item : item'[q][i] = "cancelled" =>
              item[q][i] = "cancelled" \/ q \in userStopped' \/ Ends(q)
      BY <2>2, <2>3, StaysExcused
    <2>5. ASSUME last, NEW i \in Item, its[i] = "cancelled" PROVE r \in userStopped'
      <3>1. ~Final(r)
        BY <2>5 DEF Active, Final, FinalStatus
      <3>. QED BY <2>2, <2>5, <3>1 DEF Excused
    <2>. HIDE DEF its, last
    <2>6. \A q \in Run : runError'[q] = "stopped by user" =>
              runError[q] = "stopped by user" \/ q \in userStopped'
      BY <2>1, <2>5 DEF ItemTypes
    <2>. QED BY <2>4, <2>6 DEF RowsMeant
  <1>. QED BY <1>2, <1>3

LEMMA FailureMeant ==
    ASSUME ItemTypes, NEW r \in Run, ReportFailure(r)
    PROVE  RowsMeant
  <1>1. CASE Active(r)
    <2>1. /\ item' = [item EXCEPT ![r] = Close(item[r], "failed")]
          /\ runError' = [runError EXCEPT ![r] = "job failed"]
      BY <1>1 DEF ReportFailure
    <2>2. \A i \in Item : Close(item[r], "failed")[i] \in {item[r][i], "failed"}
      BY DEF Close
    <2>. QED BY <2>1, <2>2 DEF RowsMeant, ItemTypes
  <1>2. CASE ~Active(r)
    BY <1>2 DEF ReportFailure, RowsMeant
  <1>. QED BY <1>1, <1>2

LEMMA SameMeant == UNCHANGED <<item, runError>> => RowsMeant
  BY DEF RowsMeant

LEMMA StepRowsMeant == ASSUME MeantBasis, Meant, [Next]_vars PROVE RowsMeant
  <1>. USE DEF MeantBasis, HeldBasis, Types
  <1>1. ASSUME NEW r \in Run, Stop(r) PROVE RowsMeant
    <2>. DEFINE S == {q \in Run : Batch[q] = Batch[r] /\ Active(q)}
                signal == {q \in S : Claimed(q) /\ ~Offline}
    <2>1. Reconcile(S \ signal, "stopped by user") /\ S \subseteq userStopped'
      BY <1>1 DEF Stop
    <2>. HIDE DEF S, signal
    <2>2. S \ signal \subseteq userStopped'
      BY <2>1
    <2>. QED BY <2>1, <2>2, ReconcileMeant
  <1>2. CASE Maintenance
    <2>1. \E R : Reconcile(R, "lost")
      BY <1>2 DEF Maintenance, ReapExpiredLeases, StopStalledRun, EndLongPause, FinalizeOrphanedRun
    <2>2. "lost" # "stopped by user"
      OBVIOUS
    <2>. QED BY <2>1, <2>2, ReconcileMeant
  <1>3. userStopped \subseteq userStopped'
    BY StepAsked DEF Meant
  <1>4. CASE ReportItem
    <2>1. ThisReport \in Report /\ RecordTerminal(ThisReport)
      BY <1>4, ThisReportType DEF ReportItem, Attached, Busy
    <2>2. ThisReport.status = "cancelled" => Excused(ThisReport.run)
      BY <1>4 DEF ReportItem, Meant, ReportMeant, ThisReport
    <2>. QED BY <1>3, <2>1, <2>2, RecordMeant DEF Meant
  <1>5. ASSUME NEW m \in late, LateReport(m) PROVE RowsMeant
    <2>1. m \in Report /\ RecordTerminal(m)
      BY <1>5 DEF LateReport, NetTypes
    <2>2. m.status = "cancelled" => Excused(m.run)
      BY DEF Meant, LateMeant
    <2>. QED BY <1>3, <2>1, <2>2, RecordMeant DEF Meant
  <1>6. CASE Complete
    <2>1. cur \in Job /\ cur[1] \in Run
      BY <1>6, JobParts DEF Complete, Attached, Busy
    <2>2. ReportFailure(cur[1]) \/ UNCHANGED <<item, runError>>
      BY <1>6 DEF Complete, RecordOutcome
    <2>. QED BY <2>1, <2>2, FailureMeant, SameMeant
  <1>7. ASSUME NEW t \in ticks, ProgressTick(t) PROVE RowsMeant
    <2>1. UNCHANGED runError /\ (UNCHANGED item \/ item' = [item EXCEPT ![t[1]][t[2]] = "active"])
      BY <1>7 DEF ProgressTick
    <2>2. t[1] \in Run /\ t[2] \in Item
      BY <1>7 DEF NetTypes
    <2>3. CASE UNCHANGED item
      BY <2>1, <2>3, SameMeant
    <2>4. CASE item' = [item EXCEPT ![t[1]][t[2]] = "active"]
      <3>1. \A r \in Run, i \in Item : item'[r][i] \in {item[r][i], "active"}
        BY <2>2, <2>4 DEF ItemTypes
      <3>. QED BY <2>1, <3>1 DEF RowsMeant
    <2>. QED BY <2>1, <2>3, <2>4
  <1>8. CASE UNCHANGED vars
    BY <1>8, SameMeant DEF vars, dbVars
  <1>9. ASSUME \/ \E r \in Run : Trigger(r) \/ Pause(r)
               \/ Resume \/ Queue \/ Heartbeat \/ Execute \/ World
               \/ ReportTimesOut \/ ReportGivenUp \/ CompleteGivenUp
        PROVE  RowsMeant
    BY <1>9, SameMeant
    DEF Trigger, Pause, Resume, Queue, LongPoll,
        PollAgain, DeadPollEnds, ClaimNext, Deliver, ResponseLost, ResponseClosed, Heartbeat,
        BeatSend, BeatReceive, BeatReturn, OrphanBeatLost, Execute, Prepare, NextItem,
        FinishItem, Hang, FinishInstall, FinishJob, ReportTimesOut, ReportGivenUp,
        CompleteGivenUp, World, Outage, Reconnect, Crash, Restart, Tick, dbVars
  <1>. QED BY <1>1, <1>2, <1>4, <1>5, <1>6, <1>7, <1>8, <1>9 DEF Next, Browser, Deliveries

LEMMA StepReports ==
    ASSUME Types, [Next]_vars
    PROVE  late' \subseteq late \/ (pc = "reporting" /\ late' \subseteq late \cup {ThisReport})
  BY DEF Next, vars, Browser, Trigger, Stop, Pause, Resume, Queue, LongPoll, PollAgain,
         DeadPollEnds, ClaimNext, Deliver, ResponseLost, ResponseClosed, Heartbeat, BeatSend,
         BeatReceive, BeatReturn, OrphanBeatLost, Execute, Prepare, NextItem, FinishItem, Hang,
         FinishInstall, FinishJob, Deliveries, ReportItem, ReportTimesOut, ReportGivenUp,
         LateReport, ProgressTick, Complete, CompleteGivenUp, World, Outage, Reconnect, Crash,
         Restart, Tick, Maintenance, ReapExpiredLeases, StopStalledRun, EndLongPause,
         FinalizeOrphanedRun, dbVars, netVars

LEMMA StepPhase ==
    ASSUME [Next]_vars, pc' \in {"preparing", "choosing", "reporting"}, ~Deliver
    PROVE  /\ cur' = cur
           /\ \/ pc \in {"preparing", "choosing", "reporting"}
              \/ FinishItem
           /\ pc' = "reporting" =>
                \/ NextItem /\ (stopFlag \/ result' # "cancelled")
                \/ FinishItem
                \/ UNCHANGED <<pc, result>>
  BY DEF Next, vars, Browser, Trigger, Stop, Pause, Resume, Queue, LongPoll, PollAgain,
         DeadPollEnds, ClaimNext, ResponseLost, ResponseClosed, Heartbeat, BeatSend,
         BeatReceive, BeatReturn, OrphanBeatLost, Execute, Prepare, NextItem, Hang,
         FinishInstall, FinishJob, FinishItem, Deliveries, ReportItem, ReportTimesOut, ReportGivenUp,
         LateReport, ProgressTick, Complete, CompleteGivenUp, Dismiss, World, Outage, Reconnect,
         Crash, Restart, Tick, Maintenance, ReapExpiredLeases, StopStalledRun, EndLongPause,
         FinalizeOrphanedRun, workerVars

LEMMA StepFlag ==
    ASSUME [Next]_vars, stopFlag'
    PROVE  stopFlag \/ (BeatReturn /\ Stops(beat))
  BY DEF Next, vars, Browser, Trigger, Stop, Pause, Resume, Queue, LongPoll, PollAgain,
         DeadPollEnds, ClaimNext, Deliver, ResponseLost, ResponseClosed, Heartbeat, BeatSend,
         BeatReceive, BeatReturn, OrphanBeatLost, Execute, Prepare, NextItem, FinishItem, Hang,
         FinishInstall, FinishJob, Deliveries, ReportItem, ReportTimesOut, ReportGivenUp,
         LateReport, ProgressTick, Complete, CompleteGivenUp, Dismiss, World, Outage, Reconnect,
         Crash, Restart, Tick, Maintenance, ReapExpiredLeases, StopStalledRun, EndLongPause,
         FinalizeOrphanedRun, workerVars

LEMMA StepAnswer ==
    ASSUME Types, [Next]_vars, beat' # None, beat'.phase = "response"
    PROVE  beat' = beat \/ BeatReceive
  <1>1. CASE Sever
    BY <1>1 DEF Sever, Types, NetTypes, Beat
  <1>2. CASE BeatSend
    BY <1>2 DEF BeatSend
  <1>3. ASSUME ~BeatSend, ~BeatReceive, ~Sever PROVE beat' \in {beat, None}
    BY <1>3
    DEF Next, vars, Browser, Trigger, Stop, Pause, Resume, Queue, LongPoll, PollAgain,
        DeadPollEnds, ClaimNext, Deliver, ResponseLost, ResponseClosed, Heartbeat,
        BeatReturn, OrphanBeatLost, Execute, Prepare, NextItem, FinishItem,
        Hang, FinishInstall, FinishJob, Deliveries, ReportItem, ReportTimesOut,
        ReportGivenUp, LateReport, ProgressTick, Complete, CompleteGivenUp, World, Outage,
        Reconnect, Crash, Restart, Tick, Maintenance, ReapExpiredLeases, StopStalledRun,
        EndLongPause, FinalizeOrphanedRun, dbVars, netVars
  <1>. QED BY <1>1, <1>2, <1>3

LEMMA StepBench == ASSUME Types, BenchOnly, [Next]_vars PROVE BenchOnly'
  <1>1. CASE Deliver
    BY <1>1, NoneAssumption DEF Deliver, BenchOnly, Types, NetTypes, Claim, Job
  <1>2. CASE ~Deliver
    BY <1>2, StepPhase, NoneAssumption DEF BenchOnly, FinishItem, Types, Attached, Busy
  <1>. QED BY <1>1, <1>2

LEMMA StepMeant == ASSUME MeantBasis, Meant, [Next]_vars PROVE Meant'
  <1>. USE DEF MeantBasis, HeldBasis, Meant
  <1>1. /\ userStopped \subseteq userStopped'
        /\ \A r \in Run : Excused(r) => r \in userStopped' \/ Ends(r)
    BY StepAsked, StaysExcused
  <1>2. Unpaused' /\ Asked'
    BY StepUnpaused, StepAsked
  <1>3. ItemsMeant' /\ StoppedByUserIsAccurate'
    BY <1>1, StepRowsMeant
    DEF RowsMeant, ItemsMeant, StoppedByUserIsAccurate, Excused, Ends, Final
  <1>4. LateMeant'
    <2>1. \A m \in late' : m.status = "cancelled" => m.run \in Run /\ Excused(m.run)
      BY StepReports, JobParts DEF LateMeant, ReportMeant, ThisReport, Types, NetTypes, Report,
                              Attached, Busy
    <2>. QED BY <1>1, <2>1 DEF LateMeant, Excused, Ends, Final
  <1>5. Measuring' => Deliver \/ (Measuring /\ cur' = cur /\ cur[1] \in Run)
    BY StepCur, JobParts DEF CurMove, Measuring, Types, WorkerTypes
  <1>6. BenchOnly'
    BY StepBench
  <1>7. FlagMeant'
    <2>1. CASE Deliver
      BY <2>1 DEF Deliver, FlagMeant
    <2>2. ASSUME Measuring, cur' = cur, cur[1] \in Run, stopFlag'
          PROVE  cur[1] \in userStopped' \/ Ends(cur[1])
      <3>1. stopFlag => Excused(cur[1])
        BY <2>2 DEF FlagMeant
      <3>2. BeatReturn /\ Stops(beat) => Excused(cur[1])
        BY <2>2 DEF BeatReturn, Stops, AnswerMeant
      <3>. QED BY <1>1, <2>2, <3>1, <3>2, StepFlag
    <2>. QED BY <1>5, <2>1, <2>2 DEF FlagMeant, Excused, Ends, Final
  <1>8. AnswerMeant'
    <2>. SUFFICES ASSUME Measuring', beat' # None, beat'.phase = "response", beat'.cancel,
                         beat'.job = cur'
                  PROVE  cur'[1] \in userStopped' \/ runStatus'[cur'[1]] \in FinalStatus
      BY DEF AnswerMeant, Excused, Final
    <2>1. CASE Deliver
      <3>1. beat' = beat /\ cur = None /\ cur' = sending.job /\ sending # None
            /\ sending.poll = "live"
        BY <2>1 DEF Deliver, OnePoll, Busy
      <3>2. jobStatus[sending.job] = "claimed" /\ sending.job # None
        BY <3>1, NoneAssumption DEF HeldInv, LiveClaim, Types, NetTypes, Claim
      <3>3. jobStatus[sending.job] \in EndedStatus
        BY <3>1, <3>2 DEF HeldInv, BeatsOwn, Flying
      <3>. QED BY <3>2, <3>3 DEF EndedStatus
    <2>2. CASE Measuring /\ cur' = cur /\ cur[1] \in Run
      <3>1. CASE beat' = beat
        BY <1>1, <2>2, <3>1 DEF AnswerMeant, Ends
      <3>2. CASE BeatReceive
        <4>1. beat.job = cur /\ (jobStatus[cur] = "claimed" => cancelRequested[cur])
          BY <2>2, <3>2 DEF BeatReceive, Measuring
        <4>2. cur \in Job
          BY <2>2 DEF Measuring, Types, WorkerTypes
        <4>3. Excused(cur[1])
          BY <2>2, <4>1, <4>2 DEF Asked, HeldInv, StillHeld, Measuring, Excused
        <4>. QED BY <1>1, <2>2, <4>3 DEF Ends
      <3>. QED BY <3>1, <3>2, StepAnswer
    <2>. QED BY <1>5, <2>1, <2>2
  <1>9. ReportMeant'
    <2>. SUFFICES ASSUME pc' = "reporting", result' = "cancelled"
                  PROVE  cur'[1] \in userStopped' \/ runStatus'[cur'[1]] \in FinalStatus
      BY DEF ReportMeant, Excused, Final
    <2>1. ~Deliver
      BY DEF Deliver
    <2>2. cur' = cur /\ cur \in Job /\ cur[1] \in Run
      BY <2>1, StepPhase, JobParts DEF FinishItem, Types, Attached, Busy
    <2>3. Excused(cur[1])
      <3>1. CASE NextItem /\ stopFlag
        BY <2>2, <3>1, NoneAssumption DEF NextItem, FlagMeant, Measuring, WorkingPc, BenchOnly
      <3>2. CASE FinishItem
        <4>1. stopFlag
          BY <3>2, OutcomeAssumption DEF FinishItem
        <4>. QED BY <2>2, <3>2, <4>1, NoneAssumption
                 DEF FinishItem, FlagMeant, Measuring, WorkingPc
      <3>3. CASE UNCHANGED <<pc, result>>
        BY <3>3 DEF ReportMeant
      <3>. QED BY <2>1, <3>1, <3>2, <3>3, StepPhase
    <2>. QED BY <1>1, <2>2, <2>3 DEF Ends
  <1>. QED BY <1>2, <1>3, <1>4, <1>6, <1>7, <1>8, <1>9

LEMMA FinalStays == ASSUME Inv, [Next]_vars PROVE \A r \in Run : Final(r) => Ends(r)
  BY StepInv DEF Final, Ends

HeldAll == Inv /\ OnePoll /\ Fresh /\ HeldInv

LEMMA InitHeld == Init => HeldAll
  BY InitInv
  DEF Init, HeldAll, OnePoll, Fresh, FreshClaim, FreshStart, InStep, Held, HeldInv, KeptHeld,
      StillHeld, LiveClaim, NotTwice, BeatNeedsLink, BeatsOwn, Flying

LEMMA StepHeldAll == HeldAll /\ [Next]_vars => HeldAll'
  <1>. SUFFICES ASSUME HeldAll, [Next]_vars PROVE HeldAll'
    OBVIOUS
  <1>1. Inv' /\ Types /\ Types' /\ Named
    BY StepInv DEF HeldAll, Inv
  <1>2. OnePoll' /\ Fresh'
    BY <1>1, StepPoll, StepFresh DEF HeldAll
  <1>3. HeldInv'
    BY <1>1, FinalStays, StepHeld DEF HeldAll, HeldBasis
  <1>. QED BY <1>1, <1>2, <1>3 DEF HeldAll

(* A run that reads "stopped by user" was stopped by one, whatever crashes,  *)
(* outages, lost claims and late reports there are, as long as nobody pauses *)
(* the worker (repo.ts finalizeTest, extendLeaseAndGetFlags; reaper.ts).     *)
THEOREM StopIsTheUsers == ASSUME "pause" \notin Event PROVE Spec => []StoppedByUserIsAccurate
  <1>1. Init => HeldAll /\ Meant
    <2>. SUFFICES ASSUME Init PROVE HeldAll /\ Meant
      OBVIOUS
    <2>1. Unpaused /\ Asked /\ LateMeant /\ BenchOnly
      BY DEF Init, Unpaused, Asked, LateMeant, BenchOnly
    <2>2. AnswerMeant /\ FlagMeant /\ ReportMeant
      BY DEF Init, AnswerMeant, FlagMeant, ReportMeant, Measuring
    <2>3. ItemsMeant /\ StoppedByUserIsAccurate
      BY DEF Init, ItemsMeant, StoppedByUserIsAccurate
    <2>. QED BY <2>1, <2>2, <2>3, InitHeld DEF Meant
  <1>2. HeldAll /\ Meant /\ [Next]_vars => (HeldAll /\ Meant)'
    BY StepHeldAll, StepMeant, FinalStays DEF MeantBasis, HeldBasis, HeldAll, Inv
  <1>3. Meant => StoppedByUserIsAccurate
    BY DEF Meant
  <1>. QED BY <1>1, <1>2, <1>3, PTL DEF Spec

-----------------------------------------------------------------------------
(* What a completed benchmark job has visited, when no outage makes the     *)
(* worker give a report up                                                 *)

Shut(r, i) == item[r][i] \in Closed

SentVisits ==
    sending # None /\ sending.job[2] = "bench" =>
        \A i \in Item : i \in sending.todo \/ Shut(sending.job[1], i)
CurVisits ==
    cur # None /\ cur[2] = "bench" =>
        \A i \in Item : \/ i \in todo \/ Shut(cur[1], i)
                        \/ pc \in {"running", "reporting"} /\ i = at
DoneVisits == pc = "finishing" /\ cur[2] = "bench" /\ result = "done" => todo = {}
Visited == link /\ SentVisits /\ CurVisits /\ DoneVisits /\ CompletedMeansFinished

LEMMA StepShut ==
    ASSUME Inv, [Next]_vars, NEW r \in Run, NEW i \in Item, Shut(r, i)
    PROVE  item'[r][i] \in Closed
  <1>. USE DEF Shut, Inv, Types, ItemTypes
  <1>1. CASE UNCHANGED item
    BY <1>1
  <1>2. ASSUME NEW q \in Run, NEW s, Rows(q, s) PROVE item'[r][i] \in Closed
    BY <1>2 DEF Rows
  <1>3. ASSUME NEW R \in SUBSET Run, NEW note \in RunError, Reconcile(R, note)
        PROVE  item'[r][i] \in Closed
    BY <1>3 DEF Reconcile, Close
  <1>4. ASSUME NEW q \in Run, ReportFailure(q) PROVE item'[r][i] \in Closed
    BY <1>4 DEF ReportFailure, Close
  <1>5. ASSUME NEW m \in Report, RecordTerminal(m) PROVE item'[r][i] \in Closed
    <2>1. m.run \in Run /\ m.idx \in Item /\ m.status \in Closed
      BY DEF Report
    <2>2. UNCHANGED item \/ item' = [item EXCEPT ![m.run] = [item[m.run] EXCEPT ![m.idx] = m.status]]
      BY <1>5 DEF RecordTerminal
    <2>. QED BY <2>1, <2>2
  <1>6. ASSUME NEW q \in Run, NEW k \in Item, TickApplies(q, k),
               item' = [item EXCEPT ![q][k] = "active"]
        PROVE  item'[r][i] \in Closed
    BY <1>6 DEF TickApplies
  <1>. QED BY <1>1, <1>2, <1>3, <1>4, <1>5, <1>6, StepRows DEF RowStep

LEMMA StepVisit ==
    ASSUME [Next]_vars
    PROVE  \/ cur' = None \/ Deliver \/ NextItem \/ ReportItem \/ ReportGivenUp
           \/ /\ UNCHANGED <<cur, todo, at>>
              /\ pc \in {"running", "reporting"} =>
                    pc' \in {"running", "reporting"} \/ cur[2] = "install"
  BY DEF Next, vars, Browser, Trigger, Stop, Pause, Resume, Queue, LongPoll, PollAgain,
         DeadPollEnds, ClaimNext, ResponseLost, ResponseClosed, Heartbeat, BeatSend,
         BeatReceive, BeatReturn, OrphanBeatLost, Execute, Prepare, Hang,
         FinishInstall, FinishJob, FinishItem, Deliveries, ReportTimesOut,
         LateReport, ProgressTick, Complete, CompleteGivenUp, Dismiss, World, Outage, Reconnect,
         Crash, Restart, Tick, Maintenance, ReapExpiredLeases, StopStalledRun, EndLongPause,
         FinalizeOrphanedRun, workerVars

LEMMA StepDone ==
    ASSUME [Next]_vars, pc' = "finishing", cur'[2] = "bench", result' = "done"
    PROVE  todo' = {} \/ UNCHANGED <<pc, cur, todo, result>>
  BY DEF Next, vars, Browser, Trigger, Stop, Pause, Resume, Queue, LongPoll, PollAgain,
         DeadPollEnds, ClaimNext, Deliver, ResponseLost, ResponseClosed, Heartbeat, BeatSend,
         BeatReceive, BeatReturn, OrphanBeatLost, Execute, Prepare, NextItem, Hang,
         FinishInstall, FinishJob, FinishItem, Deliveries, ReportItem, ReportTimesOut, ReportGivenUp,
         LateReport, ProgressTick, Complete, CompleteGivenUp, Dismiss, World, Outage, Reconnect,
         Crash, Restart, Tick, Maintenance, ReapExpiredLeases, StopStalledRun, EndLongPause,
         FinalizeOrphanedRun, workerVars

LEMMA StepLinked == ASSUME [Next]_vars, link, "outage" \notin Event PROVE link'
  BY DEF Next, vars, Browser, Trigger, Stop, Pause, Resume, Queue, LongPoll, PollAgain,
         DeadPollEnds, ClaimNext, Deliver, ResponseLost, ResponseClosed, Heartbeat, BeatSend,
         BeatReceive, BeatReturn, OrphanBeatLost, Execute, Prepare, NextItem, Hang,
         FinishInstall, FinishJob, FinishItem, Deliveries, ReportItem, ReportTimesOut, ReportGivenUp,
         LateReport, ProgressTick, Complete, CompleteGivenUp, World, Outage, Reconnect,
         Crash, Restart, Tick, Maintenance, ReapExpiredLeases, StopStalledRun, EndLongPause,
         FinalizeOrphanedRun, netVars, Rationed

LEMMA StepCurVisits ==
    ASSUME HeldAll, Visited, [Next]_vars PROVE CurVisits'
  <1>. USE DEF HeldAll, Inv, Visited
  <1>. SUFFICES ASSUME cur' # None, cur'[2] = "bench", NEW i \in Item, i \notin todo'
                PROVE  item'[cur'[1]][i] \in Closed \/ (pc' \in {"running", "reporting"} /\ i = at')
    BY DEF CurVisits, Shut
  <1>1. CASE Deliver
    <2>1. cur' = sending.job /\ todo' = sending.todo /\ item' = item /\ sending # None
      BY <1>1 DEF Deliver, dbVars
    <2>. QED BY <2>1 DEF SentVisits, Shut
  <1>2. CASE NextItem
    <2>1. cur' = cur /\ item' = item /\ pc = "choosing" /\ todo' = todo \ {at'}
          /\ pc' \in {"running", "reporting"}
      BY <1>2 DEF NextItem, dbVars
    <2>. QED BY <2>1 DEF CurVisits, Shut
  <1>3. CASE ReportItem
    <2>1. /\ cur' = cur /\ todo' = todo /\ cur \in Job /\ cur[1] \in Run
          /\ ThisReport \in Report /\ RecordTerminal(ThisReport)
      BY <1>3, ThisReportType, JobParts DEF ReportItem, Types, Attached, Busy
    <2>2. item'[cur[1]][at] \in Closed
      <3>1. CASE Repeat(ThisReport)
        BY <2>1, <3>1 DEF RecordTerminal, Repeat, ThisReport, Types, WorkerTypes, Closed
      <3>2. CASE ~Repeat(ThisReport)
        <4>1. item' = [item EXCEPT ![cur[1]] = [item[cur[1]] EXCEPT ![at] = result]]
          BY <2>1, <3>2 DEF RecordTerminal, ThisReport
        <4>2. at \in Item /\ result \in Closed
          BY DEF Types, WorkerTypes
        <4>3. item'[cur[1]][at] = result
          BY <2>1, <4>1, <4>2 DEF Types, ItemTypes
        <4>. QED BY <4>2, <4>3
      <3>. QED BY <3>1, <3>2
    <2>. QED BY <2>1, <2>2, StepShut DEF CurVisits, Shut
  <1>4. CASE ReportGivenUp
    BY <1>4 DEF ReportGivenUp
  <1>5. ASSUME UNCHANGED <<cur, todo, at>>,
               pc \in {"running", "reporting"} =>
                    pc' \in {"running", "reporting"} \/ cur[2] = "install"
        PROVE  item'[cur'[1]][i] \in Closed \/ (pc' \in {"running", "reporting"} /\ i = at')
    <2>1. cur[1] \in Run
      BY <1>5, JobParts DEF Types, WorkerTypes
    <2>2. Shut(cur[1], i) \/ (pc \in {"running", "reporting"} /\ i = at)
      BY <1>5 DEF CurVisits
    <2>. QED BY <1>5, <2>1, <2>2, StepShut
  <1>. QED BY <1>1, <1>2, <1>3, <1>4, <1>5, StepVisit

LEMMA StepVisited ==
    ASSUME HeldAll, Visited, "outage" \notin Event, [Next]_vars PROVE Visited'
  <1>. USE DEF HeldAll, Inv, Visited
  <1>1. SentVisits'
    <2>1. CASE sending' = None
      BY <2>1 DEF SentVisits
    <2>2. CASE /\ sending # None /\ sending'.job = sending.job /\ sending'.todo = sending.todo
               /\ sending'.poll \in {sending.poll, "dead"}
      <3>1. sending.job[1] \in Run
        BY <2>2, JobParts DEF Types, NetTypes, Claim
      <3>. QED BY <2>2, <3>1, StepShut DEF SentVisits, Shut
    <2>3. CASE \E k \in Claimable :
            /\ sending'.job = k /\ sending'.todo = {i \in Item : item[k[1]][i] \notin Closed}
            /\ jobStatus'[k] = "claimed" /\ UNCHANGED item
      BY <2>3 DEF SentVisits, Shut
    <2>. QED BY <2>1, <2>2, <2>3, StepSend DEF SendMove
  <1>2. CurVisits'
    BY StepCurVisits
  <1>3. DoneVisits'
    BY StepDone DEF DoneVisits
  <1>4. CompletedMeansFinished'
    <2>. SUFFICES ASSUME NEW r \in Run, jobStatus'[<<r, "bench">>] = "completed" PROVE Ends(r)
      BY DEF CompletedMeansFinished, Final, Ends
    <2>. DEFINE j == <<r, "bench">>
    <2>1. j \in Job
      BY DEF Job
    <2>4. jobStatus[j] = "completed" \/ Completes(j)
      <3>1. JobMove(j)
        BY <2>1, StepMoves
      <3>. QED BY <2>1, <3>1 DEF JobMove, ResponseClosed, Types, JobTypes
    <2>2. CASE jobStatus[j] = "completed"
      BY <2>2, FinalStays DEF CompletedMeansFinished
    <2>3. CASE Completes(j)
      <3>1. pc = "finishing" /\ result = "done" /\ cur = j /\ runStatus' = runStatus
        BY <2>3 DEF Completes, Complete
      <3>2. todo = {} /\ cur # None
        BY <2>1, <3>1, NoneAssumption DEF DoneVisits
      <3>3. \A i \in Item : item[r][i] \in Closed
        BY <3>1, <3>2 DEF CurVisits, Shut
      <3>4. runStatus[r] # "absent"
        BY <3>1, <3>2 DEF Named, Known
      <3>. QED BY <3>1, <3>3, <3>4 DEF FinishedIffClosed, Final, Ends
    <2>. QED BY <2>2, <2>3, <2>4
  <1>. QED BY <1>1, <1>2, <1>3, <1>4, StepLinked

(* A benchmark job that was reported complete has closed its run: the items *)
(* skipped as completed_idx were closed when the job was claimed and stay   *)
(* so, and each of the others was reported (worker index.ts                 *)
(* executeBenchmarkJob, repo.ts recordTestItemTerminal, markJobCompleted).  *)
(* With an outage the worker may give a report up.                         *)
THEOREM CompleteIsFinished == ASSUME "outage" \notin Event PROVE Spec => []CompletedMeansFinished
  <1>1. Init => HeldAll /\ Visited
    <2>. SUFFICES ASSUME Init PROVE HeldAll /\ Visited
      OBVIOUS
    <2>1. CompletedMeansFinished
      BY DEF Init, CompletedMeansFinished, Job
    <2>. QED BY <2>1, InitHeld DEF Init, Visited, SentVisits, CurVisits, DoneVisits
  <1>2. HeldAll /\ Visited /\ [Next]_vars => (HeldAll /\ Visited)'
    BY StepHeldAll, StepVisited
  <1>3. Visited => CompletedMeansFinished
    BY DEF Visited
  <1>. QED BY <1>1, <1>2, <1>3, PTL DEF Spec

-----------------------------------------------------------------------------
(* Jobs that never reached the worker, when every claim's answer is flushed *)

NeverClaimed(j) == jobStatus[j] \in {"absent", "pending"} /\ attempts[j] = 0

(* What acts for a job has been claimed; an install is claimed before its   *)
(* run's benchmark; and a stop only flags a job that was claimed.          *)
ActsForClaimed ==
    /\ sending # None => ~NeverClaimed(sending.job)
    /\ cur # None => ~NeverClaimed(cur)
    /\ \A m \in late : ~NeverClaimed(<<m.run, "bench">>)
InstallFirst ==
    \A r \in Run : NeverClaimed(<<r, "install">>) /\ jobStatus[<<r, "install">>] = "pending"
        => NeverClaimed(<<r, "bench">>)
FlagsClaimed == \A j \in Job : NeverClaimed(j) => ~cancelRequested[j]
NoneYet == \A j \in Job : jobStatus[j] = "absent" => attempts[j] = 0

Orderly == /\ ActsForClaimed /\ InstallFirst /\ FlagsClaimed /\ NoneYet /\ BenchOnly
           /\ NoFreshJobForFinishedRun

LEMMA StepAttempts ==
    ASSUME Types, [Next]_vars, NEW j \in Job
    PROVE  attempts'[j] = attempts[j] \/ (j \in Expired /\ attempts'[j] = attempts[j] + 1)
  <1>1. CASE ReapExpiredLeases
    <2>1. attempts' = [k \in Job |-> IF k \in Expired \ Doomed THEN attempts[k] + 1 ELSE attempts[k]]
      BY <1>1 DEF ReapExpiredLeases
    <2>. QED BY <2>1
  <1>2. ASSUME ~ReapExpiredLeases PROVE UNCHANGED attempts
    BY <1>2
    DEF Next, vars, Browser, Trigger, Stop, Pause, Resume, Queue, LongPoll, PollAgain,
         DeadPollEnds, ClaimNext, Deliver, ResponseLost, ResponseClosed, Heartbeat, BeatSend,
         BeatReceive, BeatReturn, OrphanBeatLost, Execute, Prepare, NextItem, FinishItem, Hang,
         FinishInstall, FinishJob, Deliveries, ReportItem, ReportTimesOut, ReportGivenUp,
         LateReport, ProgressTick, Complete, CompleteGivenUp, World, Outage, Reconnect, Crash,
         Restart, Tick, Maintenance, StopStalledRun, EndLongPause, FinalizeOrphanedRun, dbVars
  <1>. QED BY <1>1, <1>2

LEMMA AlwaysFlushed == ASSUME "unflushed" \notin Event PROVE ~ResponseClosed
  BY DEF ResponseClosed, Rationed

LEMMA NeverBefore ==
    ASSUME Types, Named, NoneYet, "unflushed" \notin Event, [Next]_vars, NEW j \in Job,
           NeverClaimed(j)'
    PROVE  NeverClaimed(j)
  <1>1. JobMove(j) /\ ~ResponseClosed
    BY StepMoves, AlwaysFlushed
  <1>2. attempts[j] \in Nat
    BY AttemptsAssumption DEF Types, JobTypes
  <1>3. attempts[j] = 0
    BY <1>2, StepAttempts DEF NeverClaimed
  <1>. QED BY <1>1, <1>3 DEF NeverClaimed, JobMove

LEMMA StepOrder ==
    ASSUME Types, Named, Orderly, "unflushed" \notin Event, [Next]_vars PROVE InstallFirst'
  <1>. SUFFICES ASSUME NEW r \in Run, NeverClaimed(<<r, "install">>)',
                       jobStatus'[<<r, "install">>] = "pending"
                PROVE  NeverClaimed(<<r, "bench">>)'
    BY DEF InstallFirst
  <1>. DEFINE i == <<r, "install">>
              b == <<r, "bench">>
  <1>1. /\ i \in Job /\ b \in Job /\ i # b /\ i[1] = r /\ b[1] = r
        /\ b[2] = "bench" /\ Sibling(b) = i
    BY DEF Job, Sibling
  <1>2. NeverClaimed(i) /\ JobMove(i) /\ JobMove(b) /\ ~ResponseClosed
    BY <1>1, NeverBefore, StepMoves, AlwaysFlushed DEF Orderly
  <1>3. NeverClaimed(b)
    <2>1. CASE jobStatus[i] = "pending"
      BY <1>2, <2>1 DEF Orderly, InstallFirst
    <2>2. CASE jobStatus[i] # "pending"
      <3>1. ~Known(r)
        BY <1>1, <1>2, <2>2 DEF JobMove, NeverClaimed
      <3>. QED BY <1>1, <3>1 DEF Named, Orderly, NoneYet, NeverClaimed
    <2>. QED BY <2>1, <2>2
  <1>4. attempts'[b] = 0
    BY <1>1, <1>3, StepAttempts DEF NeverClaimed, Expired
  <1>5. jobStatus'[b] \in {"absent", "pending"}
    <2>1. CASE jobStatus[b] = "absent"
      BY <1>2, <2>1 DEF JobMove
    <2>2. CASE jobStatus[b] = "pending"
      <3>1. jobStatus[i] = "pending"
        BY <1>1, <1>2, <2>2 DEF JobMove, NeverClaimed, Named
      <3>2. i \in Claimable
        BY <1>1, <1>2, <3>1 DEF Claimable, Orderly, FlagsClaimed
      <3>3. ~Oldest(b, Claimable)
        BY <1>1, <3>2, SizesAssumption DEF Oldest, Before, Run
      <3>. QED BY <1>1, <1>2, <1>3, <2>2, <3>1, <3>3 DEF JobMove, NeverClaimed
    <2>. QED BY <1>3, <2>1, <2>2 DEF NeverClaimed
  <1>. QED BY <1>4, <1>5 DEF NeverClaimed

LEMMA StepFlags ==
    ASSUME Types, Named, Orderly, "unflushed" \notin Event, [Next]_vars PROVE FlagsClaimed'
  <1>. SUFFICES ASSUME NEW j \in Job, NeverClaimed(j)' PROVE ~cancelRequested'[j]
    BY DEF FlagsClaimed
  <1>1. NeverClaimed(j) /\ ~cancelRequested[j]
    BY NeverBefore DEF Orderly, FlagsClaimed
  <1>2. cancelRequested'[j] => cancelRequested[j] \/ jobStatus[j] = "claimed"
    <2>1. ASSUME NEW r \in Run, Stop(r)
          PROVE  cancelRequested'[j] => cancelRequested[j] \/ jobStatus[j] = "claimed"
      BY <2>1 DEF Stop
    <2>2. CASE EndLongPause
      BY <2>2 DEF EndLongPause
    <2>3. ASSUME ~ \E r \in Run : Stop(r), ~EndLongPause PROVE UNCHANGED cancelRequested
      BY <2>3
      DEF Next, vars, Browser, Trigger, Pause, Resume, Queue, LongPoll, PollAgain,
          DeadPollEnds, ClaimNext, Deliver, ResponseLost, ResponseClosed, Heartbeat, BeatSend,
          BeatReceive, BeatReturn, OrphanBeatLost, Execute, Prepare, NextItem, FinishItem, Hang,
          FinishInstall, FinishJob, Deliveries, ReportItem, ReportTimesOut, ReportGivenUp,
          LateReport, ProgressTick, Complete, CompleteGivenUp, World, Outage, Reconnect, Crash,
          Restart, Tick, Maintenance, ReapExpiredLeases, StopStalledRun, FinalizeOrphanedRun, dbVars
    <2>. QED BY <2>1, <2>2, <2>3
  <1>. QED BY <1>1, <1>2 DEF NeverClaimed

LEMMA StepActs ==
    ASSUME Types, Named, Orderly, "unflushed" \notin Event, [Next]_vars PROVE ActsForClaimed'
  <1>1. sending' # None => ~NeverClaimed(sending.job)'
    <2>1. ASSUME sending # None, sending'.job = sending.job PROVE ~NeverClaimed(sending.job)'
      <3>1. PICK k \in Job : k = sending.job
        BY <2>1 DEF Types, NetTypes, Claim
      <3>2. ~NeverClaimed(k)'
        BY <2>1, <3>1, NeverBefore DEF Orderly, ActsForClaimed
      <3>. QED BY <2>1, <3>1, <3>2 DEF NeverClaimed
    <2>2. ASSUME NEW k \in Claimable, sending'.job = k, jobStatus'[k] = "claimed"
          PROVE  ~NeverClaimed(sending.job)'
      BY <2>2 DEF NeverClaimed
    <2>. QED BY <2>1, <2>2, StepSend DEF SendMove
  <1>2. cur' # None => ~NeverClaimed(cur)'
    <2>1. CASE Deliver
      <3>1. sending # None /\ cur' = sending.job /\ UNCHANGED <<jobStatus, attempts>>
        BY <2>1 DEF Deliver, dbVars
      <3>. QED BY <3>1 DEF Orderly, ActsForClaimed, NeverClaimed
    <2>2. ASSUME cur' = cur, cur # None PROVE ~NeverClaimed(cur)'
      <3>1. PICK k \in Job : k = cur
        BY <2>2 DEF Types, WorkerTypes
      <3>2. ~NeverClaimed(k)'
        BY <2>2, <3>1, NeverBefore DEF Orderly, ActsForClaimed
      <3>. QED BY <2>2, <3>1, <3>2 DEF NeverClaimed
    <2>. QED BY <2>1, <2>2, StepCur DEF CurMove
  <1>3. ASSUME NEW m \in late' PROVE ~NeverClaimed(<<m.run, "bench">>)'
    <2>1. CASE m \in late
      <3>1. <<m.run, "bench">> \in Job
        BY <2>1 DEF Types, NetTypes, Report, Job
      <3>. QED BY <2>1, <3>1, NeverBefore DEF Orderly, ActsForClaimed
    <2>2. CASE pc = "reporting" /\ m = ThisReport
      <3>1. cur \in Job /\ cur # None /\ cur = <<m.run, "bench">>
        BY <2>2 DEF Types, WorkerTypes, Orderly, BenchOnly, ThisReport, Job
      <3>2. <<m.run, "bench">> \in Job /\ ~NeverClaimed(<<m.run, "bench">>)
        BY <3>1 DEF Orderly, ActsForClaimed
      <3>. QED BY <3>2, NeverBefore DEF Orderly
    <2>. QED BY <2>1, <2>2, StepReports
  <1>. QED BY <1>1, <1>2, <1>3 DEF ActsForClaimed

LEMMA ReconcileOnly ==
    ASSUME NEW R, NEW note, Reconcile(R, note), NEW r \in Run, ~Final(r), Ends(r)
    PROVE  r \in R
  BY DEF Reconcile, Unfinished, Final, Ends

LEMMA CancelNone ==
    ASSUME NEW js, NEW R, NEW j \in Job, j[1] \in R
    PROVE  CancelPending(js, R)[j] # "pending"
  BY DEF CancelPending

(* Whoever ends a run takes its pending jobs off the queue, but for the     *)
(* last report: the run's jobs have all been claimed by then.              *)
EndsByReport(r) ==
    UNCHANGED jobStatus /\ \E m \in Report : m.run = r /\ (m \in late \/ (pc = "reporting" /\ m = ThisReport))

LEMMA ReapClears ==
    ASSUME Types, ReapExpiredLeases, NEW r \in Run, ~Final(r), Ends(r),
           NEW j \in Job, j[1] = r, NeverClaimed(j)'
    PROVE  jobStatus'[j] # "pending"
  <1>1. PICK benchFirst \in SUBSET Run :
        LET earlier(k) == (k[2] = "bench") = (k[1] \in benchFirst)
            swept == [k \in Job |->
                IF k \in Doomed THEN "failed"
                ELSE IF k \in Expired
                THEN IF Sibling(k) \in Doomed /\ earlier(k) THEN "cancelled" ELSE "pending"
                ELSE IF jobStatus[k] = "pending" /\ Sibling(k) \in Doomed THEN "cancelled"
                ELSE jobStatus[k]]
            counted == [k \in Job |->
                IF k \in Expired \ Doomed THEN attempts[k] + 1 ELSE attempts[k]]
            stuck == Stuck(swept, counted)
            over == {k[1] : k \in Doomed \cup stuck}
        IN  /\ jobStatus' = CancelPending([k \in Job |->
                                IF k \in stuck THEN "failed" ELSE swept[k]],
                                {k[1] : k \in stuck})
            /\ attempts' = counted
            /\ Reconcile(over, "lost")
    BY DEF ReapExpiredLeases
  <1>. DEFINE earlier(k) == (k[2] = "bench") = (k[1] \in benchFirst)
              swept == [k \in Job |->
                  IF k \in Doomed THEN "failed"
                  ELSE IF k \in Expired
                  THEN IF Sibling(k) \in Doomed /\ earlier(k) THEN "cancelled" ELSE "pending"
                  ELSE IF jobStatus[k] = "pending" /\ Sibling(k) \in Doomed THEN "cancelled"
                  ELSE jobStatus[k]]
              counted == [k \in Job |->
                  IF k \in Expired \ Doomed THEN attempts[k] + 1 ELSE attempts[k]]
              stuck == Stuck(swept, counted)
              ended == [k \in Job |-> IF k \in stuck THEN "failed" ELSE swept[k]]
              over == {k[1] : k \in Doomed \cup stuck}
  <1>2. /\ jobStatus' = CancelPending(ended, {k[1] : k \in stuck})
        /\ attempts' = counted /\ Reconcile(over, "lost")
    BY <1>1
  <1>3. PICK k \in Doomed \cup stuck : k[1] = j[1]
    <2>. HIDE DEF stuck
    <2>1. j[1] \in over
      <3>. HIDE DEF over
      <3>. QED BY <1>2, ReconcileOnly
    <2>. QED BY <2>1
  <1>4. CASE k \in stuck
    <2>. HIDE DEF stuck, ended
    <2>. QED BY <1>2, <1>3, <1>4, CancelNone
  <1>5. CASE k \in Doomed
    <2>1. k \in Job /\ (j = k \/ k = Sibling(j))
      BY <1>3, <1>5 DEF Doomed, Expired, Sibling, Job
    <2>2. j \notin Expired \/ j \in Doomed
      <3>1. counted[j] = 0 /\ attempts[j] \in Nat
        BY <1>2, AttemptsAssumption DEF NeverClaimed, Types, JobTypes
      <3>. QED BY <3>1
    <2>3. swept[j] # "pending"
      BY <1>5, <2>1, <2>2 DEF Doomed
    <2>4. ended[j] # "pending"
      BY <2>3
    <2>. HIDE DEF ended, stuck
    <2>. QED BY <1>2, <2>4, CancelKept
  <1>. QED BY <1>3, <1>4, <1>5

LEMMA EndClears ==
    ASSUME Types, Named, [Next]_vars, NEW r \in Run, Known(r), ~Final(r), Ends(r),
           NEW j \in Job, j[1] = r, NeverClaimed(j)'
    PROVE  jobStatus'[j] # "pending" \/ EndsByReport(r)
  <1>1. ASSUME NEW q \in Run, Stop(q) PROVE jobStatus'[j] # "pending"
    <2>. DEFINE S == {p \in Run : Batch[p] = Batch[q] /\ Active(p)}
                signal == {p \in S : Claimed(p) /\ ~Offline}
    <2>1. jobStatus' = CancelPending(jobStatus, S) /\ Reconcile(S \ signal, "stopped by user")
      BY <1>1 DEF Stop
    <2>. HIDE DEF S, signal
    <2>2. r \in S
      BY <2>1, ReconcileOnly
    <2>. QED BY <2>1, <2>2, CancelNone
  <1>2. CASE ReapExpiredLeases
    BY <1>2, ReapClears
  <1>3. CASE StopStalledRun
    <2>1. r = cur[1]
      BY <1>3, ReconcileOnly DEF StopStalledRun
    <2>. QED BY <1>3, <2>1, CancelNone DEF StopStalledRun
  <1>4. CASE EndLongPause
    <2>. DEFINE held == {q \in Run : \E k \in JobsOf(q) : jobStatus[k] \in Live}
                signal == {q \in held : Claimed(q)}
    <2>1. jobStatus' = CancelPending(jobStatus, held) /\ Reconcile(held \ signal, "lost")
      BY <1>4 DEF EndLongPause
    <2>. HIDE DEF held, signal
    <2>2. r \in held
      BY <2>1, ReconcileOnly
    <2>. QED BY <2>1, <2>2, CancelNone
  <1>5. ASSUME NEW q \in Run, FinalizeOrphanedRun(q) PROVE jobStatus'[j] # "pending"
    <2>1. r = q
      BY <1>5, ReconcileOnly DEF FinalizeOrphanedRun
    <2>2. j \in JobsOf(q)
      BY <2>1 DEF JobsOf, Job
    <2>. QED BY <1>5, <2>2 DEF FinalizeOrphanedRun, Live
  <1>6. CASE Complete
    <2>1. cur \in Job /\ RecordOutcome(cur, result = "done")
      BY <1>6 DEF Complete, Types, Attached, Busy
    <2>2. jobStatus[cur] = "claimed" /\ result # "done"
      BY <2>1 DEF RecordOutcome, Final, Ends
    <2>3. ReportFailure(cur[1])
      BY <2>1, <2>2 DEF RecordOutcome
    <2>4. r = cur[1]
      BY <2>3 DEF ReportFailure, Final, Ends, Types, ItemTypes
    <2>. QED BY <2>1, <2>2, <2>4, CancelNone DEF RecordOutcome
  <1>7. ASSUME NEW m \in Report, RecordTerminal(m) PROVE m.run = r
    BY <1>7 DEF RecordTerminal, Final, Ends, Types, ItemTypes
  <1>8. CASE ReportItem
    <2>1. ThisReport \in Report /\ RecordTerminal(ThisReport) /\ pc = "reporting" /\ UNCHANGED jobStatus
      BY <1>8, ThisReportType DEF ReportItem, Types, Attached, Busy
    <2>. QED BY <1>7, <2>1 DEF EndsByReport
  <1>9. ASSUME NEW m \in late, LateReport(m) PROVE EndsByReport(r)
    <2>1. m \in Report /\ RecordTerminal(m) /\ UNCHANGED jobStatus
      BY <1>9 DEF LateReport, Types, NetTypes
    <2>. QED BY <1>7, <2>1 DEF EndsByReport
  <1>10. ASSUME NEW q \in Run, Trigger(q) PROVE FALSE
    BY <1>10 DEF Trigger, Final, Ends, Types, ItemTypes, FinalStatus
  <1>11. ASSUME NEW p \in polls, ClaimNext(p) PROVE FALSE
    <2>1. PICK k \in Claimable : runStatus' \in {runStatus, [runStatus EXCEPT ![k[1]] = "running"]}
      BY <1>11 DEF ClaimNext
    <2>. QED BY <2>1 DEF Final, Ends, FinalStatus, Types, ItemTypes
  <1>12. ASSUME ~Complete, ~StopStalledRun, ~ReapExpiredLeases, ~EndLongPause, ~ReportItem,
                ~ \E q \in Run : Stop(q) \/ Trigger(q) \/ FinalizeOrphanedRun(q),
                ~ \E p \in polls : ClaimNext(p), ~ \E m \in late : LateReport(m)
         PROVE  UNCHANGED runStatus
    BY <1>12
    DEF Next, vars, Browser, Pause, Resume, Queue, LongPoll, PollAgain,
        DeadPollEnds, Deliver, ResponseLost, ResponseClosed, Heartbeat, BeatSend, BeatReceive,
        BeatReturn, OrphanBeatLost, Execute, Prepare, NextItem, FinishItem,
        Hang, FinishInstall, FinishJob, Deliveries, ReportTimesOut,
        ReportGivenUp, ProgressTick, CompleteGivenUp, World, Outage,
        Reconnect, Crash, Restart, Tick, Maintenance, dbVars
  <1>13. ~UNCHANGED runStatus
    BY DEF Final, Ends
  <1>. QED BY <1>1, <1>2, <1>3, <1>4, <1>5, <1>6, <1>8, <1>9, <1>10, <1>11, <1>12, <1>13

LEMMA StepNoFresh ==
    ASSUME Inv, Orderly, "unflushed" \notin Event, [Next]_vars PROVE NoFreshJobForFinishedRun'
  <1>. USE DEF Inv
  <1>. SUFFICES ASSUME NEW j \in Job, Ends(j[1]), jobStatus'[j] = "pending", attempts'[j] = 0
                PROVE  FALSE
    <2>1. \A j \in Job : attempts'[j] \in Nat
      BY StepTypes, AttemptsAssumption DEF Types, JobTypes
    <2>. QED BY <2>1 DEF NoFreshJobForFinishedRun, Final, Ends
  <1>. DEFINE r == j[1]
  <1>1. r \in Run /\ NeverClaimed(j)' /\ NeverClaimed(j)
    BY JobParts, NeverBefore DEF NeverClaimed, Orderly
  <1>2. Known(r)
    <2>1. RL!Next
      BY StepInv
    <2>. QED BY <1>1, <2>1 DEF RL!Next, RL!Schedule, RL!Start, RL!Progress, RL!End, RL!Amend,
                              RL!Rest, RL!StatusStays, RL!Active, RL!FinalStatus, Known, Ends, FinalStatus
  <1>3. jobStatus[j] = "pending"
    <2>1. JobMove(j) /\ ~ResponseClosed
      BY StepMoves, AlwaysFlushed
    <2>. QED BY <1>1, <1>2, <2>1 DEF JobMove, NeverClaimed
  <1>4. ~Final(r)
    BY <1>1, <1>3 DEF Orderly, NoFreshJobForFinishedRun, NeverClaimed
  <1>5. EndsByReport(r)
    BY <1>1, <1>2, <1>4, EndClears
  <1>6. ~NeverClaimed(<<r, "bench">>)
    <2>1. PICK m \in Report : m.run = r /\ (m \in late \/ (pc = "reporting" /\ m = ThisReport))
      BY <1>5 DEF EndsByReport
    <2>2. CASE m \in late
      BY <2>1, <2>2 DEF Orderly, ActsForClaimed
    <2>3. CASE pc = "reporting" /\ m = ThisReport
      <3>1. cur \in Job /\ cur # None /\ cur = <<r, "bench">>
        BY <2>1, <2>3 DEF Types, WorkerTypes, Orderly, BenchOnly, ThisReport, Job
      <3>. QED BY <3>1 DEF Orderly, ActsForClaimed
    <2>. QED BY <2>1, <2>2, <2>3
  <1>7. j = <<r, "install">> \/ j = <<r, "bench">>
    BY DEF Job
  <1>. QED BY <1>1, <1>3, <1>6, <1>7 DEF Orderly, InstallFirst

(* When every answered claim was flushed, a job that was never handed out   *)
(* cannot fire against a finished run: whoever finished it took it off the *)
(* queue (repo.ts cancelPendingJobsForTest and its callers, reaper.ts).    *)
THEOREM NothingFresh == ASSUME "unflushed" \notin Event PROVE Spec => []NoFreshJobForFinishedRun
  <1>1. Init => Inv /\ Orderly
    <2>. SUFFICES ASSUME Init PROVE Inv /\ Orderly
      OBVIOUS
    <2>1. ActsForClaimed /\ BenchOnly
      BY DEF Init, ActsForClaimed, BenchOnly
    <2>2. InstallFirst
      BY DEF Init, InstallFirst, NeverClaimed, Job
    <2>3. FlagsClaimed /\ NoneYet /\ NoFreshJobForFinishedRun
      BY DEF Init, FlagsClaimed, NoneYet, NoFreshJobForFinishedRun
    <2>. QED BY <2>1, <2>2, <2>3, InitInv DEF Orderly
  <1>2. Inv /\ Orderly /\ [Next]_vars => (Inv /\ Orderly)'
    <2>. SUFFICES ASSUME Inv, Orderly, [Next]_vars PROVE (Inv /\ Orderly)'
      OBVIOUS
    <2>1. NoneYet'
      <3>. SUFFICES ASSUME NEW j \in Job, jobStatus'[j] = "absent" PROVE attempts'[j] = 0
        BY DEF NoneYet
      <3>1. jobStatus[j] = "absent"
        <4>1. JobMove(j) /\ ~ResponseClosed
          BY StepMoves, AlwaysFlushed DEF Inv
        <4>. QED BY <4>1 DEF JobMove
      <3>. QED BY <3>1, StepAttempts DEF Orderly, NoneYet, Expired, Inv
    <2>2. Inv'
      BY StepInv
    <2>. QED BY <2>1, <2>2, StepActs, StepOrder, StepFlags, StepBench, StepNoFresh DEF Orderly, Inv
  <1>3. Orderly => NoFreshJobForFinishedRun
    BY DEF Orderly
  <1>. QED BY <1>1, <1>2, <1>3, PTL DEF Spec

-----------------------------------------------------------------------------
(* Whose items a stop cancels, when nothing but a crash takes a worker's   *)
(* job away: no outage, hung process or expired pause                      *)

(* A worker that works is heard of in time, and holds the job it executes. *)
Answered == beat # None /\ beat.phase = "response"
Steady ==
    /\ link /\ ~hung
    /\ beaten \/ Answered => silence = 0
    /\ pc \in Busy \cup {"polling"} => ~Offline
Owned == cur # None /\ pc \in WorkingPc => jobStatus[cur] = "claimed"

LEMMA StepReach ==
    ASSUME "outage" \notin Event, "hang" \notin Event, link, ~hung, [Next]_vars
    PROVE  link' /\ ~hung'
  <1>1. ~Outage /\ ~Hang
    BY DEF Outage, Hang, Rationed
  <1>2. link'
    BY StepLinked
  <1>3. ~hung'
    BY <1>1 DEF Next, vars, Browser, Trigger, Stop, Pause, Resume, Queue, LongPoll,
         PollAgain, DeadPollEnds, ClaimNext, Deliver, ResponseLost, ResponseClosed, Heartbeat,
         BeatSend, BeatReceive, BeatReturn, OrphanBeatLost, Execute, Prepare, NextItem,
         FinishItem, FinishInstall, FinishJob, Deliveries, ReportItem, ReportTimesOut,
         ReportGivenUp, LateReport, ProgressTick, Complete, CompleteGivenUp, Dismiss, World,
         Outage, Reconnect, Crash, Restart, Tick, Maintenance, ReapExpiredLeases,
         StopStalledRun, EndLongPause, FinalizeOrphanedRun, dbVars, netVars, workerVars
  <1>. QED BY <1>2, <1>3

(* What a step does to the time since the worker was last heard of. *)
SilenceMove ==
    \/ silence' = 0
    \/ UNCHANGED silence /\ (beaten' => beaten \/ BeatReturn)
    \/ Tick

LEMMA StepSilence == ASSUME [Next]_vars PROVE SilenceMove
  BY DEF SilenceMove, Next, vars, Browser, Trigger, Stop, Pause, Resume, Queue, LongPoll,
         PollAgain, DeadPollEnds, ClaimNext, Deliver, ResponseLost, ResponseClosed, Heartbeat,
         BeatSend, BeatReceive, OrphanBeatLost, Execute, Prepare, NextItem,
         FinishItem, Hang, FinishInstall, FinishJob, Deliveries, ReportItem, ReportTimesOut,
         ReportGivenUp, LateReport, ProgressTick, Complete, CompleteGivenUp, World,
         Outage, Reconnect, Crash, Restart, Maintenance, ReapExpiredLeases,
         StopStalledRun, EndLongPause, FinalizeOrphanedRun, dbVars, netVars, BeatReturn

LEMMA StepAwake ==
    ASSUME [Next]_vars, pc' \in Busy \cup {"polling"}
    PROVE  pc \in Busy \cup {"polling"} \/ silence' = 0
  BY DEF Busy, Next, vars, Browser, Trigger, Stop, Pause, Resume, Queue, LongPoll,
         PollAgain, DeadPollEnds, ClaimNext, Deliver, ResponseLost, ResponseClosed, Heartbeat,
         BeatSend, BeatReceive, BeatReturn, OrphanBeatLost, Execute, Prepare, NextItem,
         FinishItem, Hang, FinishInstall, FinishJob, Deliveries, ReportItem, ReportTimesOut,
         ReportGivenUp, LateReport, ProgressTick, Complete, CompleteGivenUp, Dismiss, World,
         Outage, Reconnect, Crash, Restart, Tick, Maintenance, ReapExpiredLeases,
         StopStalledRun, EndLongPause, FinalizeOrphanedRun, workerVars

LEMMA StepSteady ==
    ASSUME "outage" \notin Event, "hang" \notin Event, Types, Steady, [Next]_vars
    PROVE  Steady'
  <1>. USE DEF Steady
  <1>1. link' /\ ~hung'
    BY StepReach
  <1>2. Answered' => Answered \/ BeatReceive
    BY StepAnswer DEF Answered
  <1>3. CASE silence' = 0
    BY <1>1, <1>3, TimeAssumption DEF Offline
  <1>4. CASE UNCHANGED silence /\ (beaten' => beaten \/ BeatReturn)
    <2>1. beaten' \/ Answered' => silence' = 0
      BY <1>2, <1>4 DEF BeatReturn, BeatReceive, Answered
    <2>2. pc' \in Busy \cup {"polling"} => ~Offline'
      BY <1>4, StepAwake, TimeAssumption DEF Offline
    <2>. QED BY <1>1, <2>1, <2>2
  <1>5. CASE Tick
    <2>1. ~beaten' /\ ~Answered' /\ UNCHANGED pc
      BY <1>5 DEF Tick, Answered, workerVars
    <2>2. pc \in Busy \cup {"polling"} => silence' = 1
      <3>. SUFFICES ASSUME pc \in Busy \cup {"polling"} PROVE silence' = 1
        OBVIOUS
      <3>1. Connected
        BY DEF Connected, Busy
      <3>. QED BY <1>5, <3>1, TimeAssumption DEF Tick, Offline
    <2>. QED BY <1>1, <2>1, <2>2, TimeAssumption DEF Offline
  <1>. QED BY <1>3, <1>4, <1>5, StepSilence DEF SilenceMove

LEMMA StepOwned ==
    ASSUME HeldBasis, HeldInv, Steady, Owned, [Next]_vars PROVE Owned'
  <1>. USE DEF HeldBasis, HeldInv
  <1>1. ASSUME Deliver PROVE Owned'
    BY <1>1 DEF Deliver, LiveClaim, Owned, dbVars
  <1>2. ASSUME cur' = cur, pc' \in WorkingPc => pc \in WorkingPc PROVE Owned'
    <2>. SUFFICES ASSUME cur # None, pc' \in WorkingPc PROVE jobStatus'[cur] = "claimed"
      BY <1>2 DEF Owned
    <2>1. cur \in Job /\ jobStatus[cur] = "claimed"
      BY <1>2 DEF Types, WorkerTypes, Owned
    <2>2. JobMove(cur)
      BY <2>1, StepMoves
    <2>3. cur \notin Expired
      BY <1>2, <2>1, TimeAssumption
      DEF Steady, WorkingPc, Busy, Fresh, InStep, Held, Expired, Offline, Types, JobTypes
    <2>4. ResponseClosed => cur # sending.job
      BY DEF ResponseClosed, NotTwice
    <2>. QED BY <1>2, <2>1, <2>2, <2>3, <2>4 DEF JobMove, Steady
  <1>. QED BY <1>1, <1>2, StepCur DEF CurMove, Owned

(* Everything that can cancel an item goes back to a user's stop of its own *)
(* run, or to a sweep that ended the run and says so.                       *)
Spared(r) == r \in userStopped \/ (Final(r) /\ runError[r] = "lost")
ItemsSpared == \A r \in Run, i \in Item : item[r][i] = "cancelled" => Spared(r)
LateSpared == \A m \in late : m.status = "cancelled" => m.run \in userStopped
AnswerSpared ==
    Measuring /\ Answered /\ beat.cancel /\ beat.job = cur => cur[1] \in userStopped
FlagSpared == Measuring /\ stopFlag => cur[1] \in userStopped
ReportSpared == pc = "reporting" /\ result = "cancelled" => cur[1] \in userStopped

Spares == /\ Steady /\ Owned /\ Unpaused /\ Asked /\ BenchOnly
          /\ ItemsSpared /\ LateSpared /\ AnswerSpared /\ FlagSpared /\ ReportSpared

SparesBasis == MeantBasis /\ "outage" \notin Event /\ "hang" \notin Event

(* What a step may write into the rows. *)
RowsSpared ==
    \A r \in Run, i \in Item : item'[r][i] = "cancelled" =>
        item[r][i] = "cancelled" \/ r \in userStopped' \/ (Ends(r) /\ runError'[r] = "lost")

LEMMA ReconcileSpares ==
    ASSUME ItemTypes, NEW R, NEW note, Reconcile(R, note),
           note = "lost" \/ R \subseteq userStopped'
    PROVE  RowsSpared
  <1>. DEFINE its == [r \in Run |->
                   IF r \in Unfinished(R) THEN Close(item[r], "cancelled") ELSE item[r]]
  <1>1. /\ item' = its
        /\ \A r \in Run : runStatus'[r] = IF r \in Unfinished(R)
                                          THEN Outcomes(its[r], FALSE) ELSE runStatus[r]
        /\ \A r \in Run : r \in Unfinished(R) /\ (\E i \in Item : its[r][i] = "cancelled")
                => runError'[r] = note
    BY DEF Reconcile
  <1>2. \A r \in Run : r \in Unfinished(R) => r \in R /\ Ends(r)
    BY <1>1, OutcomesFinal DEF Unfinished, Ends
  <1>3. \A r \in Run : r \notin Unfinished(R) => its[r] = item[r]
    OBVIOUS
  <1>. HIDE DEF its
  <1>. QED BY <1>1, <1>2, <1>3 DEF RowsSpared

LEMMA RecordSpares ==
    ASSUME ItemTypes, NEW m \in Report, RecordTerminal(m),
           m.status = "cancelled" => m.run \in userStopped'
    PROVE  RowsSpared
  <1>1. item' = item \/ item' = [item EXCEPT ![m.run] = [item[m.run] EXCEPT ![m.idx] = m.status]]
    BY DEF RecordTerminal
  <1>2. m.run \in Run /\ m.idx \in Item
    BY DEF Report
  <1>3. \A r \in Run, i \in Item :
            item'[r][i] \in {item[r][i]} \/ (r = m.run /\ item'[r][i] = m.status)
    BY <1>1, <1>2 DEF ItemTypes
  <1>. QED BY <1>3 DEF RowsSpared

LEMMA FailureSpares ==
    ASSUME ItemTypes, NEW r \in Run, ReportFailure(r) PROVE RowsSpared
  <1>1. CASE Active(r)
    <2>1. item' = [item EXCEPT ![r] = Close(item[r], "failed")]
      BY <1>1 DEF ReportFailure
    <2>2. \A i \in Item : Close(item[r], "failed")[i] \in {item[r][i], "failed"}
      BY DEF Close
    <2>. QED BY <2>1, <2>2 DEF RowsSpared, ItemTypes
  <1>2. CASE ~Active(r)
    BY <1>2 DEF ReportFailure, RowsSpared
  <1>. QED BY <1>1, <1>2

LEMMA SameSpares == UNCHANGED item => RowsSpared
  BY DEF RowsSpared

LEMMA StepRowsSpared == ASSUME SparesBasis, Spares, [Next]_vars PROVE RowsSpared
  <1>. USE DEF SparesBasis, MeantBasis, HeldBasis, Types, Spares
  <1>1. ASSUME NEW r \in Run, Stop(r) PROVE RowsSpared
    <2>. DEFINE S == {q \in Run : Batch[q] = Batch[r] /\ Active(q)}
                signal == {q \in S : Claimed(q) /\ ~Offline}
    <2>1. Reconcile(S \ signal, "stopped by user") /\ S \subseteq userStopped'
      BY <1>1 DEF Stop
    <2>. HIDE DEF S, signal
    <2>2. S \ signal \subseteq userStopped'
      BY <2>1
    <2>. QED BY <2>1, <2>2, ReconcileSpares
  <1>2. CASE Maintenance
    <2>1. \E R : Reconcile(R, "lost")
      BY <1>2 DEF Maintenance, ReapExpiredLeases, StopStalledRun, EndLongPause, FinalizeOrphanedRun
    <2>. QED BY <2>1, ReconcileSpares
  <1>3. userStopped \subseteq userStopped'
    BY StepAsked
  <1>4. CASE ReportItem
    <2>1. ThisReport \in Report /\ RecordTerminal(ThisReport)
      BY <1>4, ThisReportType DEF ReportItem, Attached, Busy
    <2>2. ThisReport.status = "cancelled" => ThisReport.run \in userStopped'
      BY <1>3, <1>4 DEF ReportItem, ReportSpared, ThisReport
    <2>. QED BY <2>1, <2>2, RecordSpares
  <1>5. ASSUME NEW m \in late, LateReport(m) PROVE RowsSpared
    <2>1. m \in Report /\ RecordTerminal(m)
      BY <1>5 DEF LateReport, NetTypes
    <2>2. m.status = "cancelled" => m.run \in userStopped'
      BY <1>3 DEF LateSpared
    <2>. QED BY <2>1, <2>2, RecordSpares
  <1>6. CASE Complete
    <2>1. cur \in Job /\ cur[1] \in Run
      BY <1>6, JobParts DEF Complete, Attached, Busy
    <2>2. ReportFailure(cur[1]) \/ UNCHANGED item
      BY <1>6 DEF Complete, RecordOutcome
    <2>. QED BY <2>1, <2>2, FailureSpares, SameSpares
  <1>7. ASSUME NEW t \in ticks, ProgressTick(t) PROVE RowsSpared
    <2>1. UNCHANGED item \/ item' = [item EXCEPT ![t[1]][t[2]] = "active"]
      BY <1>7 DEF ProgressTick
    <2>2. t[1] \in Run /\ t[2] \in Item
      BY <1>7 DEF NetTypes
    <2>3. \A r \in Run, i \in Item : item'[r][i] \in {item[r][i], "active"}
      BY <2>1, <2>2 DEF ItemTypes
    <2>. QED BY <2>3 DEF RowsSpared
  <1>8. CASE UNCHANGED vars
    BY <1>8, SameSpares DEF vars, dbVars
  <1>9. ASSUME \/ \E r \in Run : Trigger(r) \/ Pause(r)
               \/ Resume \/ Queue \/ Heartbeat \/ Execute \/ World
               \/ ReportTimesOut \/ ReportGivenUp \/ CompleteGivenUp
        PROVE  RowsSpared
    BY <1>9, SameSpares
    DEF Trigger, Pause, Resume, Queue, LongPoll,
        PollAgain, DeadPollEnds, ClaimNext, Deliver, ResponseLost, ResponseClosed, Heartbeat,
        BeatSend, BeatReceive, BeatReturn, OrphanBeatLost, Execute, Prepare, NextItem,
        FinishItem, Hang, FinishInstall, FinishJob, ReportTimesOut, ReportGivenUp,
        CompleteGivenUp, World, Outage, Reconnect, Crash, Restart, Tick, dbVars
  <1>. QED BY <1>1, <1>2, <1>4, <1>5, <1>6, <1>7, <1>8, <1>9 DEF Next, Browser, Deliveries

LEMMA StepSpares ==
    ASSUME SparesBasis, Spares, [Next]_vars,
           \A r \in Run : Final(r) => Ends(r) /\ runError'[r] = runError[r]
    PROVE  Spares'
  <1>. USE DEF SparesBasis, MeantBasis, HeldBasis, Spares
  <1>1. Steady' /\ Owned' /\ Unpaused' /\ Asked' /\ BenchOnly'
    BY StepSteady, StepOwned, StepUnpaused, StepAsked, StepBench
  <1>2. userStopped \subseteq userStopped'
    BY StepAsked
  <1>3. ItemsSpared'
    BY <1>2, StepRowsSpared DEF RowsSpared, ItemsSpared, Spared, Ends, Final
  <1>4. LateSpared'
    BY <1>2, StepReports DEF LateSpared, ReportSpared, ThisReport
  <1>5. Measuring' => Deliver \/ (Measuring /\ cur' = cur /\ cur \in Job)
    BY StepCur DEF CurMove, Measuring, Types, WorkerTypes
  <1>6. FlagSpared'
    <2>1. CASE Deliver
      BY <2>1 DEF Deliver, FlagSpared
    <2>2. ASSUME Measuring, cur' = cur, stopFlag' PROVE cur[1] \in userStopped'
      <3>1. stopFlag => cur[1] \in userStopped
        BY <2>2 DEF FlagSpared
      <3>2. BeatReturn /\ Stops(beat) => cur[1] \in userStopped
        BY <2>2 DEF BeatReturn, Stops, AnswerSpared, Answered
      <3>. QED BY <1>2, <2>2, <3>1, <3>2, StepFlag
    <2>. QED BY <1>5, <2>1, <2>2 DEF FlagSpared
  <1>7. AnswerSpared'
    <2>. SUFFICES ASSUME Measuring', beat' # None, beat'.phase = "response", beat'.cancel,
                         beat'.job = cur'
                  PROVE  cur'[1] \in userStopped'
      BY DEF AnswerSpared, Answered
    <2>1. CASE Deliver
      <3>1. beat' = beat /\ cur = None /\ cur' = sending.job /\ sending # None
            /\ sending.poll = "live"
        BY <2>1 DEF Deliver, OnePoll, Busy
      <3>2. jobStatus[sending.job] = "claimed" /\ sending.job # None
        BY <3>1, NoneAssumption DEF HeldInv, LiveClaim, Types, NetTypes, Claim
      <3>3. jobStatus[sending.job] \in EndedStatus
        BY <3>1, <3>2 DEF HeldInv, BeatsOwn, Flying
      <3>. QED BY <3>2, <3>3 DEF EndedStatus
    <2>2. CASE Measuring /\ cur' = cur /\ cur \in Job
      <3>1. CASE beat' = beat
        BY <1>2, <2>2, <3>1 DEF AnswerSpared, Answered
      <3>2. CASE BeatReceive
        <4>1. beat.job = cur /\ (jobStatus[cur] = "claimed" => cancelRequested[cur])
          BY <2>2, <3>2 DEF BeatReceive, Measuring
        <4>2. cur[1] \in userStopped
          BY <2>2, <4>1 DEF Asked, Owned, Measuring
        <4>. QED BY <1>2, <2>2, <4>2
      <3>. QED BY <3>1, <3>2, StepAnswer
    <2>. QED BY <1>5, <2>1, <2>2
  <1>8. ReportSpared'
    <2>. SUFFICES ASSUME pc' = "reporting", result' = "cancelled"
                  PROVE  cur'[1] \in userStopped'
      BY DEF ReportSpared
    <2>1. ~Deliver
      BY DEF Deliver
    <2>2. cur' = cur
      BY <2>1, StepPhase
    <2>3. cur[1] \in userStopped
      <3>1. CASE NextItem /\ stopFlag
        BY <3>1, NoneAssumption DEF NextItem, FlagSpared, Measuring, WorkingPc, BenchOnly
      <3>2. CASE FinishItem
        <4>1. stopFlag
          BY <3>2, OutcomeAssumption DEF FinishItem
        <4>2. cur # None
          BY <3>2, NoneAssumption DEF FinishItem, Types, Attached, Busy
        <4>. QED BY <3>2, <4>1, <4>2, NoneAssumption
                 DEF FinishItem, FlagSpared, Measuring, WorkingPc
      <3>3. CASE UNCHANGED <<pc, result>>
        BY <3>3 DEF ReportSpared
      <3>. QED BY <2>1, <3>1, <3>2, <3>3, StepPhase
    <2>. QED BY <1>2, <2>2, <2>3
  <1>. QED BY <1>1, <1>3, <1>4, <1>6, <1>7, <1>8

(* A stop cancels items of the run it names and of no other, whatever jobs  *)
(* are queued behind it and whatever crashes, cut claims and late reports   *)
(* there are (index.ts requestStop, queue.ts heartbeat, tests.ts stop).     *)
THEOREM StopReachesItsRun ==
    ASSUME "pause" \notin Event, "outage" \notin Event, "hang" \notin Event
    PROVE  Spec => []StopSparesOtherRuns
  <1>1. Init => HeldAll /\ Spares
    <2>. SUFFICES ASSUME Init PROVE HeldAll /\ Spares
      OBVIOUS
    <2>1. Steady /\ Owned
      BY TimeAssumption DEF Init, Steady, Owned, Answered, Offline, Busy
    <2>2. Unpaused /\ Asked /\ BenchOnly
      BY DEF Init, Unpaused, Asked, BenchOnly
    <2>3. ItemsSpared /\ LateSpared /\ AnswerSpared /\ FlagSpared /\ ReportSpared
      BY DEF Init, ItemsSpared, LateSpared, AnswerSpared, FlagSpared, ReportSpared, Measuring
    <2>. QED BY <2>1, <2>2, <2>3, InitHeld DEF Spares
  <1>2. HeldAll /\ Spares /\ [Next]_vars => (HeldAll /\ Spares)'
    <2>. SUFFICES ASSUME HeldAll, Spares, [Next]_vars PROVE (HeldAll /\ Spares)'
      OBVIOUS
    <2>1. HeldAll'
      BY StepHeldAll
    <2>2. \A r \in Run : Final(r) => Ends(r) /\ runError'[r] = runError[r]
      BY StepInv, FinalStays DEF HeldAll
    <2>3. Spares'
      BY <2>1, <2>2, StepSpares DEF SparesBasis, MeantBasis, HeldBasis, HeldAll, Inv
    <2>. QED BY <2>1, <2>3
  <1>3. Spares => StopSparesOtherRuns
    BY DEF Spares, ItemsSpared, Spared, StopSparesOtherRuns
  <1>. QED BY <1>1, <1>2, <1>3, PTL DEF Spec

=============================================================================
