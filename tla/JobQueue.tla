------------------------------ MODULE JobQueue ------------------------------
(***************************************************************************)
(* The persistent pull queue that drives every benchmark run: the server's *)
(* worker_jobs/runs/run_items tables, the long-poll and heartbeat routes,  *)
(* the reaper, the browser's trigger/stop/pause routes and one worker's    *)
(* execution loop, joined by connections that can die at any point.        *)
(*                                                                         *)
(* A job belongs to one worker for life (every query filters on worker_id) *)
(* so one worker is modelled; several would be independent copies.  Time   *)
(* is a Tick of one heartbeat interval.                                    *)
(***************************************************************************)
EXTENDS Integers, FiniteSets

CONSTANTS
    NRuns,          \* runs a user may trigger, in the order of their numbers
    NItems,         \* items (sweep combinations) of every run
    NeedsInstall,   \* runs triggered with a build the worker lacks
    Batch,          \* Batch[r]: the root a run shares with its siblings
    Outcome,        \* what measuring an item can end in
    MaxAttempts,    \* reaper.ts MAX_ATTEMPTS
    OfflineTicks,   \* OFFLINE_AFTER_MS, in heartbeat intervals
    LeaseTicks,     \* LEASE_MS, in heartbeat intervals
    None,           \* no job, no message
    Event,          \* the faults and interventions of an instance
    MaxEvents       \* bound on their number

Run == 1..NRuns
Item == 1..NItems
Job == Run \X {"install", "bench"}

EventKind == {"stop", "pause", "crash", "outage", "unflushed", "late", "hang"}

ASSUME SizesAssumption == NRuns \in Nat \ {0} /\ NItems \in Nat \ {0}
ASSUME InstallAssumption == NeedsInstall \subseteq Run
ASSUME BatchAssumption == Batch \in [Run -> Run]
ASSUME NoneAssumption == None \notin Job
ASSUME OutcomeAssumption == Outcome \subseteq {"done", "failed", "skipped"}
ASSUME AttemptsAssumption == MaxAttempts \in Nat
ASSUME TimeAssumption ==
    /\ OfflineTicks \in Nat \ {0}
    /\ LeaseTicks \in Nat
    /\ OfflineTicks < LeaseTicks
ASSUME EventAssumption == Event \subseteq EventKind /\ MaxEvents \in Nat

-----------------------------------------------------------------------------
VARIABLES
    (* the database *)
    runStatus,        \* runs.status, "absent" before the trigger
    runError,         \* which note runs.error carries
    item,             \* run_items.status
    jobStatus,        \* worker_jobs.status, "absent" before the enqueue
    attempts,         \* worker_jobs.attempts
    cancelRequested,  \* worker_jobs.cancel_requested
    lease,            \* ticks left until worker_jobs.lease_expires_at
    pauseRequested,   \* workers.pause_requested
    activeJob,        \* workers.active_job_id
    silence,          \* ticks since workers.last_heartbeat_at
    (* the connections *)
    link,             \* the worker can reach the server
    polls,            \* long-polls the server holds open; "dead": nobody reads it
    sending,          \* the claim response being written
    beat,             \* the heartbeat in flight
    beaten,           \* a heartbeat was answered since the last tick
    ticks,            \* progress ticks in flight
    late,             \* terminal reports whose sender timed out
    (* the worker process *)
    pc,               \* where workerMain is
    cur,              \* currentJobReport.job_id
    todo,             \* items not in the claim's completed_idx, still to visit
    at,               \* the item being executed or reported
    result,           \* the report to send, for the item or the job
    stopFlag,         \* stopRequested
    pauseFlag,        \* pauseRequested
    hung,             \* the benchmark process makes no progress
    installed,        \* runs whose build is on the worker's disk
    (* history and bounds *)
    userStopped,      \* runs a user stopped while they were active
    events            \* faults and interventions so far

dbVars == <<runStatus, runError, item, jobStatus, attempts, cancelRequested,
            lease, pauseRequested, activeJob, silence>>
netVars == <<link, polls, sending, beat, beaten, ticks, late>>
workerVars == <<pc, cur, todo, at, result, stopFlag, pauseFlag, hung, installed>>
vars == <<dbVars, netVars, workerVars, userStopped, events>>

RunStatus == {"absent", "scheduled", "running", "done", "partial", "failed", "cancelled"}
RunError == {"", "stopped by user", "lost", "job failed"}
JobStatus == {"absent", "pending", "claimed", "completed", "failed", "cancelled"}
WorkerPc == {"down", "idle", "polling", "preparing", "choosing", "running",
             "reporting", "finishing"}
Closed == {"done", "failed", "skipped", "cancelled"}  \* terminal item statuses
ItemStatus == {"queued", "active"} \cup Closed
Report == [run : Run, idx : Item, status : Closed]
Claim == [job : Job, todo : SUBSET Item, poll : {"live", "dead"}]
Beat == [phase : {"request", "response", "orphan"}, job : Job \cup {None},
         cancel : BOOLEAN, pause : BOOLEAN]

TypeOK ==
    /\ runStatus \in [Run -> RunStatus]
    /\ runError \in [Run -> RunError]
    /\ item \in [Run -> [Item -> ItemStatus]]
    /\ jobStatus \in [Job -> JobStatus]
    /\ attempts \in [Job -> 0..MaxAttempts]
    /\ cancelRequested \in [Job -> BOOLEAN]
    /\ lease \in [Job -> 0..LeaseTicks]
    /\ pauseRequested \in BOOLEAN
    /\ activeJob \in Job \cup {None}
    /\ silence \in 0..(OfflineTicks + 1)
    /\ link \in BOOLEAN
    /\ polls \subseteq {"live", "dead"}
    /\ sending \in Claim \cup {None}
    /\ beat \in Beat \cup {None}
    /\ beaten \in BOOLEAN
    /\ ticks \subseteq Run \X Item
    /\ late \subseteq Report
    /\ pc \in WorkerPc
    /\ cur \in Job \cup {None}
    /\ todo \subseteq Item
    /\ at \in Item
    /\ result \in Closed
    /\ stopFlag \in BOOLEAN
    /\ pauseFlag \in BOOLEAN
    /\ hung \in BOOLEAN
    /\ installed \subseteq Run
    /\ userStopped \subseteq Run
    /\ events \in 0..MaxEvents

Rationed(e) == e \in Event /\ events < MaxEvents /\ events' = events + 1

-----------------------------------------------------------------------------
(* What the queries select. *)

FinalStatus == {"done", "partial", "failed", "cancelled"}
Live == {"pending", "claimed"}                        \* non-terminal job statuses

Active(r) == runStatus[r] \in {"scheduled", "running"}
JobsOf(r) == {<<r, "install">>, <<r, "bench">>}
Sibling(j) == <<j[1], IF j[2] = "install" THEN "bench" ELSE "install">>
Claimed(r) == \E j \in JobsOf(r) : jobStatus[j] = "claimed"
Offline == silence > OfflineTicks
Connected == link /\ pc # "down"

(* FIFO: runs are triggered in order, a run's install before its benchmark. *)
Before(j, k) == j[1] < k[1] \/ (j[1] = k[1] /\ j[2] = "install")
Claimable == {j \in Job : jobStatus[j] = "pending" /\ ~cancelRequested[j]}
Oldest(j, J) == j \in J /\ \A k \in J : j = k \/ Before(j, k)

-----------------------------------------------------------------------------
(* finalizeTest and its callers, as functions of the item rows. *)

Close(its, s) == [i \in Item |-> IF its[i] \in Closed THEN its[i] ELSE s]

OutcomesUncounted(its, confirmed) ==   \* slip: reconciled is partial, whatever is done
    LET all(S) == \A i \in Item : its[i] \in S
    IN  IF \E i \in Item : its[i] = "cancelled"
        THEN IF confirmed THEN "cancelled" ELSE "partial"
        ELSE IF all({"failed"}) THEN "failed"
        ELSE IF all({"done", "skipped"}) THEN "done" ELSE "partial"
(* confirmed: no cancelReason was given, so a cancelled item means a stop. *)
Outcomes(its, confirmed) ==
    LET some(s) == \E i \in Item : its[i] = s
        all(S) == \A i \in Item : its[i] \in S
    IN  IF some("cancelled")
        THEN IF ~confirmed /\ some("done") THEN "partial" ELSE "cancelled"
        ELSE IF ~some("done") /\ ~some("skipped") THEN "failed"
        ELSE IF all({"done", "skipped"}) THEN "done" ELSE "partial"

(* reconcileStaleTest of every run of R, under the given note: a finished  *)
(* run is left alone.                                                      *)
UnfinishedAll(R) == R   \* slip: the isFinishedTest return forgotten
Unfinished(R) == {r \in R : Active(r)}

Reconcile(R, note) ==
    LET its == [r \in Run |->
                   IF r \in Unfinished(R) THEN Close(item[r], "cancelled") ELSE item[r]]
    IN  /\ item' = its
        /\ runStatus' = [r \in Run |-> IF r \in Unfinished(R)
                                       THEN Outcomes(its[r], FALSE) ELSE runStatus[r]]
        /\ runError' = [r \in Run |->
                IF r \in Unfinished(R) /\ \E i \in Item : its[r][i] = "cancelled"
                THEN note ELSE runError[r]]

(* reportJobFailure *)
ReportFailure(r) ==
    IF Active(r)
    THEN LET its == Close(item[r], "failed")
         IN  /\ item' = [item EXCEPT ![r] = its]
             /\ runStatus' = [runStatus EXCEPT ![r] = Outcomes(its, TRUE)]
             /\ runError' = [runError EXCEPT ![r] = "job failed"]
    ELSE UNCHANGED <<item, runStatus, runError>>

(* recordTestItemTerminal: a repeat, or anything after "done", is a no-op;  *)
(* the run is finalized with its last open item, once.                     *)
RepeatSame(m) == item[m.run][m.idx] = m.status   \* slip: "done" may be overwritten
Repeat(m) == item[m.run][m.idx] \in {"done", m.status}

RecordTerminal(m) ==
    LET r == m.run
        its == [item[r] EXCEPT ![m.idx] = m.status]
        last == Active(r) /\ \A i \in Item : its[i] \in Closed
    IN  IF Repeat(m)
        THEN UNCHANGED <<item, runStatus, runError>>
        ELSE /\ item' = [item EXCEPT ![r] = its]
             /\ runStatus' = IF last THEN [runStatus EXCEPT ![r] = Outcomes(its, TRUE)]
                                     ELSE runStatus
             /\ runError' = IF last /\ \E i \in Item : its[i] = "cancelled"
                            THEN [runError EXCEPT ![r] = "stopped by user"]
                            ELSE runError

(* cancelPendingJobsForTest for every run of R *)
CancelPendingRequeued(js, R) ==   \* slip: only jobs that had run before
    [j \in Job |-> IF j[1] \in R /\ js[j] = "pending" /\ attempts[j] > 0
                   THEN "cancelled" ELSE js[j]]
CancelPending(js, R) ==
    [j \in Job |-> IF j[1] \in R /\ js[j] = "pending" THEN "cancelled" ELSE js[j]]

(* markJobFailed, markJobCompleted, returnToPending, unclaimJob clear       *)
(* active_job_id only where it still names the job.                        *)
Release(J) == activeJob' = IF activeJob \in J THEN None ELSE activeJob

ExtendShort(j) == lease' = [lease EXCEPT ![j] = OfflineTicks]   \* slip: the wrong constant
Extend(j) == lease' = [lease EXCEPT ![j] = LeaseTicks]

-----------------------------------------------------------------------------
(* Browser requests. *)

(* The tail of the trigger route: the run, its items and its jobs appear at *)
(* once.  The route refuses an offline worker.                             *)
Trigger(r) ==
    /\ runStatus[r] = "absent"
    /\ \A q \in Run : q < r => runStatus[q] # "absent"
    /\ ~Offline
    /\ runStatus' = [runStatus EXCEPT ![r] = "scheduled"]
    /\ jobStatus' = [j \in Job |->
            IF j = <<r, "bench">> \/ (j = <<r, "install">> /\ r \in NeedsInstall)
            THEN "pending" ELSE jobStatus[j]]
    /\ UNCHANGED <<runError, item, attempts, cancelRequested, lease, pauseRequested,
                   activeJob, silence, netVars, workerVars, userStopped, events>>

(* stopTestHandler: stopOneRun for the run and its active siblings.  Where *)
(* nothing is claimed, or the worker is offline, the run is reconciled on  *)
(* the spot; otherwise the claimed job is flagged and the worker reports.  *)
Stop(r) ==
    LET S == {q \in Run : Batch[q] = Batch[r] /\ Active(q)}
        signal == {q \in S : Claimed(q) /\ ~Offline}
    IN  /\ S # {}
        /\ Rationed("stop")
        /\ jobStatus' = CancelPending(jobStatus, S)
        /\ Reconcile(S \ signal, "stopped by user")
        /\ cancelRequested' = [j \in Job |->
                cancelRequested[j] \/ (j[1] \in signal /\ jobStatus[j] = "claimed")]
        /\ userStopped' = userStopped \cup S
        /\ UNCHANGED <<attempts, lease, pauseRequested, activeJob, silence, netVars,
                       workerVars>>

Pause(r) ==
    /\ runStatus[r] = "running"
    /\ ~pauseRequested
    /\ Rationed("pause")
    /\ pauseRequested' = TRUE
    /\ UNCHANGED <<runStatus, runError, item, jobStatus, attempts, cancelRequested, lease,
                   activeJob, silence, netVars, workerVars, userStopped>>

Resume ==
    /\ pauseRequested
    /\ pauseRequested' = FALSE
    /\ UNCHANGED <<runStatus, runError, item, jobStatus, attempts, cancelRequested, lease,
                   activeJob, silence, netVars, workerVars, userStopped, events>>

-----------------------------------------------------------------------------
(* The long-poll: claim, response, and the response that is never read.    *)

(* POST /api/worker/queue: an idle worker's poll is a heartbeat with no job. *)
LongPoll ==
    /\ pc = "idle" /\ link
    /\ pc' = "polling"
    /\ polls' = polls \cup {"live"}
    /\ silence' = 0
    /\ activeJob' = None
    /\ UNCHANGED <<runStatus, runError, item, jobStatus, attempts, cancelRequested, lease,
                   pauseRequested, link, sending, beat, beaten, ticks, late, cur, todo, at,
                   result, stopFlag, pauseFlag, hung, installed, userStopped, events>>

(* The 204 at LONG_POLL_MS, and the next poll that follows it at once.  A  *)
(* poll that could have claimed already has: every enqueue wakes it and a  *)
(* timer retries every BACKSTOP_MS.                                        *)
PollAgain ==
    /\ "live" \in polls /\ Claimable = {}
    /\ silence' = 0
    /\ activeJob' = None
    /\ UNCHANGED <<runStatus, runError, item, jobStatus, attempts, cancelRequested, lease,
                   pauseRequested, netVars, workerVars, userStopped, events>>

(* The server notices, or times out, a connection nobody reads any more. *)
DeadPollEnds ==
    /\ "dead" \in polls
    /\ polls' = polls \ {"dead"}
    /\ UNCHANGED <<dbVars, link, sending, beat, beaten, ticks, late, workerVars,
                   userStopped, events>>

(* claimNextJob, for the poll p, and the response it starts to write. *)
ClaimNext(p) ==
    /\ p \in polls /\ sending = None
    /\ \E j \in Claimable :
        LET r == j[1]
        IN  /\ Oldest(j, Claimable)
            /\ jobStatus' = [jobStatus EXCEPT ![j] = "claimed"]
            /\ Extend(j)
            /\ activeJob' = j
            /\ IF j[2] = "bench"
               THEN /\ runStatus' = IF runStatus[r] \in FinalStatus THEN runStatus
                                    ELSE [runStatus EXCEPT ![r] = "running"]
                    /\ pauseRequested' = FALSE
               ELSE UNCHANGED <<runStatus, pauseRequested>>
            /\ sending' = [job |-> j, poll |-> p,
                           todo |-> {i \in Item : item[r][i] \notin Closed}]
    /\ polls' = polls \ {p}
    /\ UNCHANGED <<runError, item, attempts, cancelRequested, silence, link, beat, beaten,
                   ticks, late, workerVars, userStopped, events>>

(* workerMain takes the job up and clears what an earlier one left behind. *)
Deliver ==
    /\ sending # None /\ sending.poll = "live" /\ pc = "polling"
    /\ cur' = sending.job
    /\ todo' = sending.todo
    /\ pc' = IF sending.job[2] = "install" THEN "running" ELSE "preparing"
    /\ stopFlag' = FALSE /\ pauseFlag' = FALSE
    /\ sending' = None
    /\ UNCHANGED <<dbVars, link, polls, beat, beaten, ticks, late, at, result, hung,
                   installed, userStopped, events>>

(* The bytes were flushed to a connection nobody reads: the claim stands. *)
ResponseLost ==
    /\ sending # None /\ sending.poll = "dead"
    /\ sending' = None
    /\ UNCHANGED <<dbVars, link, polls, beat, beaten, ticks, late, workerVars,
                   userStopped, events>>

(* sendClaimedJob's close listener: the connection died before the flush,  *)
(* so unclaimJob puts the job back without counting an attempt.            *)
ResponseClosed ==
    /\ sending # None /\ sending.poll = "dead"
    /\ Rationed("unflushed")
    /\ LET j == sending.job
       IN  IF jobStatus[j] = "claimed"
           THEN /\ jobStatus' = [jobStatus EXCEPT ![j] = "pending"]
                /\ lease' = [lease EXCEPT ![j] = 0]
                /\ Release({j})
           ELSE UNCHANGED <<jobStatus, lease, activeJob>>
    /\ sending' = None
    /\ UNCHANGED <<runStatus, runError, item, attempts, cancelRequested, pauseRequested,
                   silence, link, polls, beat, beaten, ticks, late, workerVars, userStopped>>

-----------------------------------------------------------------------------
(* The heartbeat, a loop of its own beside the job. *)

BeatSend ==
    /\ Connected /\ beat = None /\ ~beaten
    /\ beat' = [phase |-> "request", job |-> cur, cancel |-> FALSE, pause |-> FALSE]
    /\ UNCHANGED <<dbVars, link, polls, sending, beaten, ticks, late, workerVars,
                   userStopped, events>>

(* recordHeartbeat and extendLeaseAndGetFlags: a job this worker no longer *)
(* holds is answered like a cancelled one.                                 *)
BeatReceive ==
    /\ beat # None /\ beat.phase \in {"request", "orphan"}
    /\ LET j == beat.job
           held == j # None /\ jobStatus[j] = "claimed"
       IN  /\ silence' = 0
           /\ activeJob' = j
           /\ IF held THEN Extend(j) ELSE UNCHANGED lease
           /\ beat' = IF beat.phase = "orphan" THEN None
                      ELSE [phase |-> "response", job |-> j,
                            cancel |-> j # None /\ (held => cancelRequested[j]),
                            pause |-> pauseRequested]
    /\ UNCHANGED <<runStatus, runError, item, jobStatus, attempts, cancelRequested,
                   pauseRequested, link, polls, sending, beaten, ticks, late, workerVars,
                   userStopped, events>>

(* heartbeatTick's second half.  requestStop ignores a job that is not the *)
(* one running now; the pause flag is taken as it comes.                   *)
StopsAny(b) == b.cancel /\ cur # None   \* slip: the job id is not compared
Stops(b) == b.cancel /\ b.job = cur

BeatReturn ==
    /\ beat # None /\ beat.phase = "response" /\ Connected
    /\ stopFlag' = (stopFlag \/ Stops(beat))
    /\ pauseFlag' = beat.pause
    /\ beaten' = TRUE
    /\ beat' = None
    /\ UNCHANGED <<dbVars, link, polls, sending, ticks, late, pc, cur, todo, at, result,
                   hung, installed, userStopped, events>>

OrphanBeatLost ==
    /\ beat # None /\ beat.phase = "orphan"
    /\ beat' = None
    /\ UNCHANGED <<dbVars, link, polls, sending, beaten, ticks, late, workerVars,
                   userStopped, events>>

-----------------------------------------------------------------------------
(* The worker's execution of one job. *)

(* executeBenchmarkJob up to its item loop; it throws when the build or the *)
(* model file is missing, and otherwise resets both flags once more.       *)
Prepare ==
    /\ pc = "preparing"
    /\ \/ /\ cur[1] \in NeedsInstall => cur[1] \in installed
          /\ pc' = "choosing"
          /\ stopFlag' = FALSE /\ pauseFlag' = FALSE
          /\ UNCHANGED result
       \/ /\ pc' = "finishing"
          /\ result' = "failed"
          /\ UNCHANGED <<stopFlag, pauseFlag>>
    /\ UNCHANGED <<dbVars, netVars, cur, todo, at, hung, installed, userStopped, events>>

(* The head of the item loop: a stop cancels the item unstarted, a pause   *)
(* holds here, and starting it sends a progress tick nobody waits for (one *)
(* in flight: a newer tick replaces one still on its way).                 *)
NextItem ==
    /\ pc = "choosing"
    /\ stopFlag \/ ~pauseFlag
    /\ at' \in {i \in todo : \A k \in todo : i <= k}
    /\ todo' = todo \ {at'}
    /\ IF stopFlag
       THEN pc' = "reporting" /\ result' = "cancelled" /\ UNCHANGED ticks
       ELSE pc' = "running" /\ ticks' = {<<cur[1], at'>>} /\ UNCHANGED result
    /\ UNCHANGED <<dbVars, link, polls, sending, beat, beaten, late, cur, stopFlag,
                   pauseFlag, hung, installed, userStopped, events>>

(* A stop SIGKILLs the process: the item reports "cancelled", unless its   *)
(* measurement was already complete.                                       *)
FinishItem ==
    /\ pc = "running" /\ cur[2] = "bench"
    /\ hung => stopFlag
    /\ result' \in IF stopFlag THEN {"cancelled"} \cup (Outcome \cap {"done"}) ELSE Outcome
    /\ pc' = "reporting"
    /\ hung' = FALSE
    /\ UNCHANGED <<dbVars, netVars, cur, todo, at, stopFlag, pauseFlag, installed,
                   userStopped, events>>

Hang ==
    /\ pc = "running" /\ cur[2] = "bench" /\ ~hung
    /\ Rationed("hang")
    /\ hung' = TRUE
    /\ UNCHANGED <<dbVars, netVars, pc, cur, todo, at, result, stopFlag, pauseFlag,
                   installed, userStopped>>

(* executeInstallBuildJob never looks at the stop flag. *)
FinishInstall ==
    /\ pc = "running" /\ cur[2] = "install"
    /\ \/ result' = "done" /\ installed' = installed \cup {cur[1]}
       \/ result' = "failed" /\ UNCHANGED installed
    /\ pc' = "finishing"
    /\ UNCHANGED <<dbVars, netVars, cur, todo, at, stopFlag, pauseFlag, hung,
                   userStopped, events>>

FinishJob ==
    /\ pc = "choosing" /\ todo = {}
    /\ pc' = "finishing"
    /\ result' = "done"
    /\ UNCHANGED <<dbVars, netVars, cur, todo, at, stopFlag, pauseFlag, hung, installed,
                   userStopped, events>>

-----------------------------------------------------------------------------
(* Reports.  safeItemTerminal and reportJobOutcome retry for about a       *)
(* minute, longer than it takes the server to call the worker offline.     *)

ThisReport == [run |-> cur[1], idx |-> at, status |-> result]

ReportItem ==
    /\ pc = "reporting" /\ link
    /\ RecordTerminal(ThisReport)
    /\ pc' = "choosing"
    /\ result' = "done"
    /\ UNCHANGED <<jobStatus, attempts, cancelRequested, lease, pauseRequested, activeJob,
                   silence, netVars, cur, todo, at, stopFlag, pauseFlag, hung,
                   installed, userStopped, events>>

(* The request times out at the worker but may still reach the server. *)
ReportTimesOut ==
    /\ pc = "reporting" /\ link
    /\ Rationed("late")
    /\ late' = late \cup {ThisReport}
    /\ UNCHANGED <<dbVars, link, polls, sending, beat, beaten, ticks, workerVars, userStopped>>

ReportGivenUp ==
    /\ pc = "reporting" /\ ~link /\ Offline
    /\ pc' = "choosing"
    /\ UNCHANGED <<dbVars, netVars, cur, todo, at, result, stopFlag, pauseFlag, hung,
                   installed, userStopped, events>>

LateReport(m) ==
    /\ m \in late
    /\ late' = late \ {m}
    /\ RecordTerminal(m)
    /\ UNCHANGED <<jobStatus, attempts, cancelRequested, lease, pauseRequested, activeJob,
                   silence, link, polls, sending, beat, beaten, ticks, workerVars,
                   userStopped, events>>

(* updateTestItemTick, guarded against reports that overtook it. *)
TickAlways(r, i) == TRUE   \* slip: neither guard
TickWhileActive(r, i) == Active(r)   \* slip: no guard on the item
TickApplies(r, i) == Active(r) /\ item[r][i] \notin Closed

ProgressTick(t) ==
    /\ t \in ticks
    /\ ticks' = ticks \ {t}
    /\ \/ UNCHANGED item  \* lost: nobody retries a tick
       \/ /\ TickApplies(t[1], t[2])
          /\ item' = [item EXCEPT ![t[1]][t[2]] = "active"]
    /\ UNCHANGED <<runStatus, runError, jobStatus, attempts, cancelRequested, lease,
                   pauseRequested, activeJob, silence, link, polls, sending, beat, beaten,
                   late, workerVars, userStopped, events>>

(* POST /api/worker/jobs/:jobId/complete *)
RecordOutcome(j, ok) ==
    IF jobStatus[j] # "claimed"
    THEN UNCHANGED <<runStatus, runError, item, jobStatus, lease, activeJob>>
    ELSE /\ jobStatus' = IF ok THEN [jobStatus EXCEPT ![j] = "completed"]
                         ELSE CancelPending([jobStatus EXCEPT ![j] = "failed"], {j[1]})
         /\ IF ok THEN UNCHANGED <<item, runStatus, runError>> ELSE ReportFailure(j[1])
         /\ lease' = [lease EXCEPT ![j] = 0]
         /\ Release({j})

Dismiss ==  \* workerMain's finally
    /\ pc' = "idle"
    /\ cur' = None
    /\ todo' = {}
    /\ stopFlag' = FALSE /\ pauseFlag' = FALSE
    /\ hung' = FALSE
    /\ at' = 1 /\ result' = "done"

(* The answer may be lost: the worker then asks again. *)
Complete ==
    /\ pc = "finishing" /\ link
    /\ RecordOutcome(cur, result = "done")
    /\ \/ Dismiss /\ UNCHANGED events
       \/ /\ Rationed("late")
          /\ UNCHANGED <<pc, cur, todo, at, result, stopFlag, pauseFlag, hung>>
    /\ UNCHANGED <<attempts, cancelRequested, pauseRequested, silence, netVars,
                   installed, userStopped>>

CompleteGivenUp ==
    /\ pc = "finishing" /\ ~link /\ Offline
    /\ Dismiss
    /\ UNCHANGED <<dbVars, netVars, installed, userStopped, events>>

-----------------------------------------------------------------------------
(* Connections, processes and time. *)

(* What the death of a connection, or of the worker, does to its messages. *)
Sever ==
    /\ polls' = IF "live" \in polls THEN {"dead"} ELSE polls
    /\ sending' = IF sending # None THEN [sending EXCEPT !.poll = "dead"] ELSE sending
    /\ beat' = IF beat = None \/ beat.phase = "response" THEN None
               ELSE [beat EXCEPT !.phase = "orphan"]

Outage ==
    /\ Connected
    /\ Rationed("outage")
    /\ link' = FALSE
    /\ Sever
    /\ pc' = IF pc = "polling" THEN "idle" ELSE pc
    /\ UNCHANGED <<dbVars, beaten, ticks, late, cur, todo, at, result, stopFlag, pauseFlag,
                   hung, installed, userStopped>>

Reconnect ==
    /\ ~link
    /\ link' = TRUE
    /\ UNCHANGED <<dbVars, polls, sending, beat, beaten, ticks, late, workerVars,
                   userStopped, events>>

(* The process dies with all it knows; its last report may be on the wire. *)
Crash ==
    /\ pc # "down"
    /\ Rationed("crash")
    /\ late' \in IF pc = "reporting" /\ link THEN {late, late \cup {ThisReport}} ELSE {late}
    /\ Sever
    /\ pc' = "down"
    /\ cur' = None
    /\ todo' = {}
    /\ stopFlag' = FALSE /\ pauseFlag' = FALSE /\ hung' = FALSE
    /\ at' = 1 /\ result' = "done"
    /\ UNCHANGED <<dbVars, link, beaten, ticks, installed, userStopped>>

Restart ==
    /\ pc = "down"
    /\ pc' = "idle"
    /\ UNCHANGED <<dbVars, netVars, cur, todo, at, result, stopFlag, pauseFlag, hung,
                   installed, userStopped, events>>

(* One heartbeat interval.  A connected worker has had its heartbeat       *)
(* answered by the end of it, and a request or response is delivered or    *)
(* lost long before; the server keeps no poll open until its worker counts as offline.       *)
Tick ==
    /\ Connected => beaten
    /\ sending = None /\ beat = None
    /\ "dead" \in polls => silence + 1 < OfflineTicks
    /\ beaten' = FALSE
    /\ silence' = IF Offline THEN silence ELSE silence + 1
    /\ lease' = [j \in Job |-> IF lease[j] > 0 THEN lease[j] - 1 ELSE 0]
    /\ UNCHANGED <<runStatus, runError, item, jobStatus, attempts, cancelRequested,
                   pauseRequested, activeJob, link, polls, sending, beat, ticks, late,
                   workerVars, userStopped, events>>

-----------------------------------------------------------------------------
(* The maintenance sweep. *)

ExpiredAnyStatus ==   \* slip: the status filter forgotten
    {j \in Job : jobStatus[j] \notin {"absent", "pending"} /\ lease[j] = 0}
Expired == {j \in Job : jobStatus[j] = "claimed" /\ lease[j] = 0}
DoomedByAttempts == {j \in Expired : attempts[j] >= MaxAttempts}   \* slip: a stop is forgotten
Doomed == {j \in Expired : cancelRequested[j] \/ attempts[j] >= MaxAttempts}

(* listStuckPendingJobsForOfflineWorkers, over the rows as they are then *)
StuckTwice(js, att) == {j \in Job : Offline /\ js[j] = "pending" /\ att[j] >= 2}   \* slip: off by one
Stuck(js, att) == {j \in Job : Offline /\ js[j] = "pending" /\ att[j] >= 1}

(* reapExpiredLeases.  Each expired job is abandoned (failed, its run      *)
(* reconciled, its pending sibling cancelled) or returned to pending; then *)
(* so is every pending job of an offline worker that had already been      *)
(* requeued.  The expired rows come in no fixed order: benchFirst names    *)
(* the runs whose benchmark comes before its install.                      *)
ReapExpiredLeases ==
    \E benchFirst \in SUBSET Run :
        LET earlier(j) == (j[2] = "bench") = (j[1] \in benchFirst)
            swept == [j \in Job |->
                IF j \in Doomed THEN "failed"
                ELSE IF j \in Expired
                THEN IF Sibling(j) \in Doomed /\ earlier(j) THEN "cancelled" ELSE "pending"
                ELSE IF jobStatus[j] = "pending" /\ Sibling(j) \in Doomed THEN "cancelled"
                ELSE jobStatus[j]]
            counted == [j \in Job |->
                IF j \in Expired \ Doomed THEN attempts[j] + 1 ELSE attempts[j]]
            stuck == Stuck(swept, counted)
            over == {j[1] : j \in Doomed \cup stuck}
        IN  /\ Expired \cup stuck # {}
            /\ jobStatus' = CancelPending([j \in Job |->
                                IF j \in stuck THEN "failed" ELSE swept[j]],
                                {j[1] : j \in stuck})
            /\ attempts' = counted
            /\ Reconcile(over, "lost")
            /\ Release(Expired \cup stuck)
            /\ UNCHANGED <<cancelRequested, lease, pauseRequested, silence, netVars,
                           workerVars, userStopped, events>>

(* stopStalledRuns, first half: heartbeats keep the lease of a job whose   *)
(* process makes no progress.                                              *)
StopStalledRun ==
    /\ hung /\ jobStatus[cur] = "claimed" /\ ~pauseRequested
    /\ jobStatus' = CancelPending([jobStatus EXCEPT ![cur] = "failed"], {cur[1]})
    /\ lease' = [lease EXCEPT ![cur] = 0]
    /\ Reconcile({cur[1]}, "lost")
    /\ Release({cur})
    /\ UNCHANGED <<attempts, cancelRequested, pauseRequested, silence, netVars, workerVars,
                   userStopped, events>>

(* stopStalledRuns, second half: a forgotten pause ends its runs. *)
EndLongPause ==
    LET held == {r \in Run : \E j \in JobsOf(r) : jobStatus[j] \in Live}
        signal == {r \in held : Claimed(r)}
    IN  /\ pauseRequested
        /\ sending = None  \* the claim of seven days ago has long arrived
        /\ pauseRequested' = FALSE
        /\ jobStatus' = CancelPending(jobStatus, held)
        /\ cancelRequested' = [j \in Job |->
                cancelRequested[j] \/ (j[1] \in signal /\ jobStatus[j] = "claimed")]
        /\ Reconcile(held \ signal, "lost")
        /\ UNCHANGED <<attempts, lease, activeJob, silence, netVars, workerVars,
                       userStopped, events>>

(* finalizeOrphanedRuns: every job ended, yet an item was never reported. *)
FinalizeOrphanedRun(r) ==
    /\ Active(r)
    /\ \A j \in JobsOf(r) : jobStatus[j] \notin Live
    /\ Reconcile({r}, "lost")
    /\ UNCHANGED <<jobStatus, attempts, cancelRequested, lease, pauseRequested, activeJob,
                   silence, netVars, workerVars, userStopped, events>>

-----------------------------------------------------------------------------
Init ==
    /\ runStatus = [r \in Run |-> "absent"]
    /\ runError = [r \in Run |-> ""]
    /\ item = [r \in Run |-> [i \in Item |-> "queued"]]
    /\ jobStatus = [j \in Job |-> "absent"]
    /\ attempts = [j \in Job |-> 0]
    /\ cancelRequested = [j \in Job |-> FALSE]
    /\ lease = [j \in Job |-> 0]
    /\ pauseRequested = FALSE
    /\ activeJob = None
    /\ silence = 0
    /\ link = TRUE
    /\ polls = {}
    /\ sending = None
    /\ beat = None
    /\ beaten = FALSE
    /\ ticks = {}
    /\ late = {}
    /\ pc = "idle"
    /\ cur = None
    /\ todo = {}
    /\ at = 1
    /\ result = "done"
    /\ stopFlag = FALSE
    /\ pauseFlag = FALSE
    /\ hung = FALSE
    /\ installed = {}
    /\ userStopped = {}
    /\ events = 0

Browser == (\E r \in Run : Trigger(r) \/ Stop(r) \/ Pause(r)) \/ Resume
Queue == LongPoll \/ PollAgain \/ DeadPollEnds \/ (\E p \in polls : ClaimNext(p))
         \/ Deliver \/ ResponseLost \/ ResponseClosed
Heartbeat == BeatSend \/ BeatReceive \/ BeatReturn \/ OrphanBeatLost
Execute == Prepare \/ NextItem \/ FinishItem \/ Hang \/ FinishInstall \/ FinishJob
Deliveries == ReportItem \/ ReportTimesOut \/ ReportGivenUp \/ (\E m \in late : LateReport(m))
              \/ (\E t \in ticks : ProgressTick(t)) \/ Complete \/ CompleteGivenUp
World == Outage \/ Reconnect \/ Crash \/ Restart \/ Tick
Maintenance == ReapExpiredLeases \/ StopStalledRun \/ EndLongPause
               \/ \E r \in Run : FinalizeOrphanedRun(r)

Next == Browser \/ Queue \/ Heartbeat \/ Execute \/ Deliveries \/ World \/ Maintenance

Spec == Init /\ [][Next]_vars

(* The worker's loops, the server's timers and the network keep going; a   *)
(* crashed worker is restarted by its service manager and an outage ends.  *)
(* Nothing obliges the user, nor an event to happen.                       *)
Fairness ==
    /\ WF_vars(LongPoll) /\ WF_vars(DeadPollEnds)
    /\ WF_vars(\E p \in polls : ClaimNext(p))
    /\ WF_vars(Deliver) /\ WF_vars(ResponseLost)
    /\ WF_vars(BeatSend) /\ WF_vars(BeatReceive) /\ WF_vars(BeatReturn)
    /\ WF_vars(Prepare) /\ WF_vars(NextItem) /\ WF_vars(FinishItem)
    /\ WF_vars(FinishInstall) /\ WF_vars(FinishJob)
    /\ WF_vars(ReportItem) /\ WF_vars(ReportGivenUp)
    /\ WF_vars(Complete) /\ WF_vars(CompleteGivenUp)
    /\ WF_vars(Reconnect) /\ WF_vars(Restart) /\ WF_vars(Tick)
    /\ WF_vars(Maintenance)

FairSpec == Spec /\ Fairness

-----------------------------------------------------------------------------
(* Safety *)

Final(r) == runStatus[r] \in FinalStatus

(* A run is finished exactly when every one of its items is: no late tick, *)
(* repeated report or sweep leaves a finished run with an open item, or a  *)
(* fully reported run waiting for another report.                          *)
FinishedIffClosed ==
    \A r \in Run : runStatus[r] # "absent" =>
        (Final(r) <=> \A i \in Item : item[r][i] \in Closed)

(* A job that never reached the worker cannot fire against a finished run: *)
(* whatever finished the run took its unclaimed sibling off the queue.     *)
NoFreshJobForFinishedRun ==
    \A j \in Job : Final(j[1]) /\ jobStatus[j] = "pending" => attempts[j] > 0

(* The lease is wide enough: while a worker executes a claimed job, its    *)
(* lease runs out only after the worker has come to count as offline.      *)
LeaseOutlivesWorker ==
    cur # None => (cur \in Expired => Offline)

(* "stopped by user" is only ever said of a run a user stopped. *)
StoppedByUserIsAccurate ==
    \A r \in Run : runError[r] = "stopped by user" => r \in userStopped

(* A benchmark job reported complete has left no item of its run open: the *)
(* items it skipped were closed when it was claimed, and stay closed.      *)
CompletedMeansFinished ==
    \A r \in Run : jobStatus[<<r, "bench">>] = "completed" => Final(r)

(* A stop reaches the run it names and no other: an item is cancelled only *)
(* in a run a user stopped or the server lost.                             *)
StopSparesOtherRuns ==
    \A r \in Run, i \in Item :
        item[r][i] = "cancelled" => r \in userStopped \/ runError[r] = "lost"

(* A run's install and benchmark jobs are never claimed simultaneously. *)
OneClaimPerRun ==
    \A r \in Run : ~ \A j \in JobsOf(r) : jobStatus[j] = "claimed"

(* A cancelled job is never requeued: pending, it could be claimed by nobody. *)
CancelledNeverRequeued ==
    \A j \in Job : cancelRequested[j] => jobStatus[j] # "pending"

(* A machine that is executing a job reads busy: only an idle or offline   *)
(* one may be removed, and removing it deletes its jobs.                   *)
BusyWhileExecuting ==
    cur # None /\ jobStatus[cur] = "claimed" /\ ~Offline => activeJob # None

(* A finished run keeps its outcome: no late report, repeated stop, sweep  *)
(* or re-executed job relabels it.                                         *)
OutcomeIsFinal ==
    [][\A r \in Run : Final(r) => /\ runStatus'[r] = runStatus[r]
                                  /\ runError'[r] = runError[r]]_vars

(* A measured item stays measured, whatever a later execution reports. *)
DoneItemStaysDone ==
    [][\A r \in Run, i \in Item : item[r][i] = "done" => item'[r][i] = "done"]_vars

(* A job that ended is never handed out or requeued again. *)
EndedJobStaysEnded ==
    [][\A j \in Job : jobStatus[j] \in {"completed", "failed", "cancelled"} =>
            jobStatus'[j] \notin Live]_vars

(* A heartbeat for a job whose run was reconciled tells the worker to stop. *)
ReconciledRunIsStopped ==
    [][\A j \in Job :
          /\ beat # None /\ beat' # None
          /\ beat.phase = "request" /\ beat'.phase = "response" /\ beat.job = j
          /\ runError[j[1]] \in {"stopped by user", "lost"}
          => beat'.cancel]_vars

(* The pause flag is the machine's, so only the run it executes may set it. *)
PauseHitsItsOwnRun ==
    [][\A r \in Run : Pause(r) /\ cur # None => cur[1] = r]_vars

(* Every step of the queue is one the run's readers were promised: a run is *)
(* triggered, progresses, ends once with an outcome that tells what became *)
(* of its items, and later reports may only correct a closed item.         *)
RL == INSTANCE RunLifecycle WITH
        Run <- Run, Item <- Item,
        runStatus <- runStatus, runError <- runError, item <- item
Lifecycle == RL!Spec

(* Liveness *)

(* Every triggered run comes to an end. *)
EveryRunEnds == \A r \in Run : runStatus[r] = "scheduled" ~> Final(r)

(* So does every job, those of finished runs included. *)
EveryJobEnds == \A j \in Job : jobStatus[j] = "pending" ~> jobStatus[j] \notin Live

(* Whatever crashes, outages, hung processes, stops and forgotten pauses do:   *)
(* the leases, the sweeps and the retries end every run and every job.         *)
EverythingEnds == EveryRunEnds /\ EveryJobEnds
=============================================================================
