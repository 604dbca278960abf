------------------------------ MODULE Downloads ------------------------------
(***************************************************************************)
(* Downloading one model file to one machine: the jobs a user queues for   *)
(* it, the worker's concurrent pool, the .part file that a later attempt   *)
(* resumes, and pause and cancel, which travel on the heartbeat.           *)
(*                                                                         *)
(* The worker polls for the next job while downloads run, so unlike in     *)
(* JobQueue a worker may be handed a job it is still executing.  A job's   *)
(* attempts tell its executions apart.  A Tick is one heartbeat interval.  *)
(***************************************************************************)
EXTENDS Integers, Sequences, FiniteSets

CONSTANTS
    NJobs,          \* times a user queues the file
    Size,           \* chunks of the file
    MaxDownloads,   \* config.max_concurrent_downloads
    MaxAttempts,    \* reaper.ts MAX_ATTEMPTS
    OfflineTicks,   \* OFFLINE_AFTER_MS, in heartbeat intervals
    LeaseTicks,     \* LEASE_MS, in heartbeat intervals
    None,
    Event,          \* the faults and interventions of an instance
    MaxEvents       \* bound on their number

Job == 1..NJobs
Execution == Job \X (0..MaxAttempts)   \* and the inode it may create

EventKind == {"pause", "pause queued", "cancel", "overlap", "crash", "outage",
              "unflushed", "no range", "broken stream", "refused"}

ASSUME SizesAssumption == NJobs \in Nat \ {0} /\ Size \in Nat \ {0}
ASSUME PoolAssumption == MaxDownloads \in Nat \ {0}
ASSUME AttemptsAssumption == MaxAttempts \in Nat
ASSUME NoneAssumption == None \notin Execution /\ None \notin Job
ASSUME TimeAssumption ==
    /\ OfflineTicks \in Nat \ {0}
    /\ LeaseTicks \in Nat
    /\ OfflineTicks < LeaseTicks
ASSUME EventAssumption == Event \subseteq EventKind /\ MaxEvents \in Nat

-----------------------------------------------------------------------------
VARIABLES
    (* the database *)
    jobStatus,        \* worker_jobs.status, "absent" before the enqueue
    attempts,         \* worker_jobs.attempts, counting lease expiries
    cancelRequested,  \* jobs with worker_jobs.cancel_requested
    discardRequested, \* jobs with worker_jobs.discard_requested
    lease,            \* ticks left until worker_jobs.lease_expires_at
    silence,          \* ticks since workers.last_heartbeat_at
    registered,       \* the model catalog has the file
    (* the connections to the server *)
    link,             \* the worker can reach the server
    sending,          \* the execution a claim response starts
    beat,             \* the heartbeat in flight
    beaten,           \* a heartbeat was answered since the last tick
    (* the worker process *)
    up,               \* it runs
    reports,          \* keys of activeDownloadReports
    controller,       \* activeDownloadControllers: whose signal a stop aborts
    discards,         \* discardRequestedJobIds
    pool,             \* keys of activeDownloadJobs
    pc,               \* where an execution is
    pos,              \* the offset it resumes from, then the next it writes
    file,             \* the inode its write stream has open
    appending,        \* executions whose stream was opened with flag "a"
    aborted,          \* executions whose signal fired
    verified,         \* executions that reported a verified file
    (* the disk *)
    content,          \* of every inode, by chunk; 0 is a hole
    part, target,     \* the inodes of the two names
    shared,           \* history: executions and inodes of transfers that overlapped
    events

dbVars == <<jobStatus, attempts, cancelRequested, discardRequested, lease, silence, registered>>
netVars == <<link, sending, beat, beaten>>
mapVars == <<up, reports, controller, discards, pool>>
execVars == <<pc, pos, file, appending, aborted, verified>>
diskVars == <<content, part, target, shared>>
vars == <<dbVars, netVars, mapVars, execVars, diskVars, events>>

JobStatus == {"absent", "pending", "claimed", "completed", "failed", "cancelled"}
Stage == {"none", "fetching", "streaming", "hashing", "calling", "rejecting",
          "failing", "completing", "over"}
Ended == {"completed", "failed", "cancelled"}
Live == {"pending", "claimed"}
Running == Stage \ {"none", "over"}
Beat == [phase : {"request", "response"}, jobs : SUBSET Job, cancel : SUBSET Job,
         discard : SUBSET Job]

TypeOK ==
    /\ jobStatus \in [Job -> JobStatus]
    /\ attempts \in [Job -> 0..MaxAttempts]
    /\ cancelRequested \subseteq Job
    /\ discardRequested \subseteq cancelRequested
    /\ lease \in [Job -> 0..LeaseTicks]
    /\ silence \in 0..(OfflineTicks + 1)
    /\ registered \in BOOLEAN
    /\ link \in BOOLEAN
    /\ sending \in Execution \cup {None}
    /\ beat \in Beat \cup {None}
    /\ beaten \in BOOLEAN
    /\ up \in BOOLEAN
    /\ reports \subseteq Job
    /\ controller \in [Job -> Execution \cup {None}]
    /\ discards \subseteq Job
    /\ pool \subseteq Job
    /\ pc \in [Execution -> Stage]
    /\ pos \in [Execution -> Nat]
    /\ file \in [Execution -> Execution \cup {None}]
    /\ appending \subseteq Execution
    /\ aborted \subseteq Execution
    /\ verified \subseteq Execution
    /\ content \in [Execution -> Seq(0..Size)]
    /\ part \in Execution \cup {None}
    /\ target \in Execution \cup {None}
    /\ shared \subseteq Execution
    /\ events \in 0..MaxEvents

Rationed(e) == e \in Event /\ events < MaxEvents /\ events' = events + 1

Offline == silence > OfflineTicks
Connected == link /\ up
Underway == {e \in Execution : pc[e] \in Running}
Transferring == {e \in Execution : pc[e] \in {"fetching", "streaming"}}
Whole == [i \in 1..Size |-> i]
Bytes(f) == IF f = None THEN 0 ELSE Len(content[f])

-----------------------------------------------------------------------------
(* Browser requests. *)

(* The Download button, and Resume, which is the same request.  A patient  *)
(* user waits for the earlier download of the file to be over.             *)
Enqueue(j) ==
    /\ jobStatus[j] = "absent"
    /\ \A k \in Job : k < j => jobStatus[k] # "absent"
    /\ ~Offline
    /\ IF Underway = {} /\ \A k \in Job : jobStatus[k] \notin Live
       THEN UNCHANGED events
       ELSE Rationed("overlap")
    /\ jobStatus' = [jobStatus EXCEPT ![j] = "pending"]
    /\ UNCHANGED <<attempts, cancelRequested, discardRequested, lease, silence, registered,
                   netVars, mapVars, execVars, diskVars>>

(* requestCancel, whatever the status of the job. *)
Pause(j) ==
    /\ jobStatus[j] \in Live /\ j \notin cancelRequested
    /\ Rationed(IF jobStatus[j] = "pending" THEN "pause queued" ELSE "pause")
    /\ cancelRequested' = cancelRequested \cup {j}
    /\ UNCHANGED <<jobStatus, attempts, discardRequested, lease, silence, registered,
                   netVars, mapVars, execVars, diskVars>>

Cancel(j) ==
    /\ jobStatus[j] # "absent" /\ j \notin discardRequested
    /\ Rationed("cancel")
    /\ IF jobStatus[j] = "pending"
       THEN /\ jobStatus' = [jobStatus EXCEPT ![j] = "cancelled"]
            /\ UNCHANGED <<cancelRequested, discardRequested>>
       ELSE /\ cancelRequested' = cancelRequested \cup {j}
            /\ discardRequested' = discardRequested \cup {j}
            /\ UNCHANGED jobStatus
    /\ UNCHANGED <<attempts, lease, silence, registered, netVars, mapVars, execVars, diskVars>>

-----------------------------------------------------------------------------
(* The queue. *)

CanPoll == Cardinality(pool) < MaxDownloads
Claimable == {j \in Job : jobStatus[j] = "pending" /\ j \notin cancelRequested}

(* A poll is a heartbeat too; with nothing to hand out it changes no more. *)
PollIdle ==
    /\ Connected /\ CanPoll /\ sending = None
    /\ Claimable = {}
    /\ silence' = 0
    /\ UNCHANGED <<jobStatus, attempts, cancelRequested, discardRequested, lease, registered,
                   netVars, mapVars, execVars, diskVars, events>>

Claim(j) ==
    /\ Connected /\ CanPoll /\ sending = None
    /\ j \in Claimable /\ \A k \in Claimable : j <= k
    /\ jobStatus' = [jobStatus EXCEPT ![j] = "claimed"]
    /\ lease' = [lease EXCEPT ![j] = LeaseTicks]
    /\ silence' = 0
    /\ sending' = <<j, attempts[j]>>
    /\ UNCHANGED <<attempts, cancelRequested, discardRequested, registered, link, beat,
                   beaten, mapVars, execVars, diskVars, events>>

(* runDownloadJob, and executeDownloadModelJob up to its first await: what  *)
(* it finds on the disk is settled here.  It does not ask whether another  *)
(* execution is transferring the file: if one is, both of them, and the     *)
(* .part they may write, are remembered as shared.                         *)
Deliver ==
    /\ Connected /\ sending # None
    /\ LET j == sending[1]
       IN  /\ reports' = reports \cup {j}
           /\ pool' = pool \cup {j}
           /\ controller' = [controller EXCEPT ![j] = sending]
    /\ IF target # None
       THEN pc' = [pc EXCEPT ![sending] = "hashing"] /\ UNCHANGED <<pos, shared>>
       ELSE /\ pc' = [pc EXCEPT ![sending] = "fetching"]
            /\ pos' = [pos EXCEPT ![sending] = Bytes(part)]
            /\ shared' = IF Transferring = {} THEN shared
                         ELSE shared \cup Transferring \cup ({sending, part} \ {None})
    /\ sending' = None
    /\ UNCHANGED <<dbVars, link, beat, beaten, up, discards, file, appending, aborted,
                   verified, content, part, target, events>>

-----------------------------------------------------------------------------
(* executeDownloadModelJob. *)

At(e, stage) == up /\ pc[e] = stage

(* Its catch block: only an abort that is also a discard deletes the .part. *)
Fail(e) ==
    /\ pc' = [pc EXCEPT ![e] = "failing"]
    /\ pos' = [pos EXCEPT ![e] = 0]
    /\ file' = [file EXCEPT ![e] = None]
    /\ appending' = appending \ {e}
    /\ part' = IF e \in aborted /\ e[1] \in discards THEN None ELSE part
    /\ UNCHANGED <<dbVars, netVars, mapVars, aborted, verified, content, target, shared>>

AppendsIfResuming(e, status) == pos[e] > 0   \* slip: trusts its own resumeFrom
Appends(e, status) == status = 206

(* createWriteStream(partPath): "a" keeps what the name holds, "w" truncates. *)
(* A full answer (200) starts at byte 0, a partial one (206) where it was    *)
(* asked to.                                                                 *)
Open(e, status) ==
    LET f == IF part = None THEN e ELSE part
        append == Appends(e, status)
    IN  /\ part' = f
        /\ file' = [file EXCEPT ![e] = f]
        /\ content' = IF append /\ part # None THEN content ELSE [content EXCEPT ![f] = <<>>]
        /\ appending' = IF append THEN appending \cup {e} ELSE appending
        /\ pos' = IF status = 206 THEN pos ELSE [pos EXCEPT ![e] = 0]
        /\ pc' = [pc EXCEPT ![e] = "streaming"]
        /\ UNCHANGED <<dbVars, netVars, mapVars, aborted, verified, target, shared>>

(* The answer to the request, which has a Range header if there is a .part. *)
Fetched(e) ==
    /\ At(e, "fetching") /\ e \notin aborted
    /\ \/ pos[e] = 0 /\ Open(e, 200) /\ UNCHANGED events
       \/ pos[e] > 0 /\ Rationed("no range") /\ Open(e, 200)
       \/ pos[e] \in 1..(Size - 1) /\ Open(e, 206) /\ UNCHANGED events
       \/ pos[e] >= Size /\ Fail(e) /\ UNCHANGED events      \* 416

(* A stream opened with "w" writes at its own offset, over what is there. *)
Written(c, at, chunk) ==
    [i \in 1..(IF Len(c) > at THEN Len(c) ELSE at + 1) |->
        IF i = at + 1 THEN chunk ELSE IF i <= Len(c) THEN c[i] ELSE 0]

Write(e) ==
    /\ At(e, "streaming") /\ e \notin aborted /\ pos[e] < Size
    /\ LET f == file[e]
           chunk == pos[e] + 1
       IN  content' = [content EXCEPT ![f] =
                IF e \in appending THEN Append(@, chunk) ELSE Written(@, pos[e], chunk)]
    /\ pos' = [pos EXCEPT ![e] = @ + 1]
    /\ UNCHANGED <<dbVars, netVars, mapVars, pc, file, appending, aborted, verified, part,
                   target, shared, events>>

(* renameSync moves whatever the name holds by now. *)
Finish(e) ==
    /\ At(e, "streaming") /\ e \notin aborted /\ pos[e] = Size
    /\ UNCHANGED events
    /\ IF part = None
       THEN Fail(e)
       ELSE /\ target' = part
            /\ part' = None
            /\ pc' = [pc EXCEPT ![e] = "hashing"]
            /\ pos' = [pos EXCEPT ![e] = 0]
            /\ file' = [file EXCEPT ![e] = None]
            /\ appending' = appending \ {e}
            /\ UNCHANGED <<dbVars, netVars, mapVars, aborted, verified, content, shared>>

(* fetch and pipeline reject: the signal fired, or the connection broke. *)
AbortSeen(e) ==
    /\ At(e, "fetching") \/ At(e, "streaming")
    /\ e \in aborted
    /\ Fail(e) /\ UNCHANGED events

BrokenStream(e) ==
    /\ At(e, "fetching") \/ At(e, "streaming")
    /\ Rationed("broken stream")
    /\ Fail(e)

Hash(e) ==
    /\ At(e, "hashing")
    /\ pc' = [pc EXCEPT ![e] = IF content[target] = Whole THEN "calling" ELSE "rejecting"]
    /\ UNCHANGED <<dbVars, netVars, mapVars, pos, file, appending, aborted, verified,
                   diskVars, events>>

(* safeReportDownloadResult and safeReportJobOutcome are out of retries: the *)
(* server was out of reach for as long as they go on, or it answered each of *)
(* them with an error (400, 404, 409, 500).                                *)
CanGiveUp == ~link /\ Offline
GivesUp == \/ CanGiveUp /\ UNCHANGED events
           \/ link /\ Rationed("refused")

CallOk(e) ==
    /\ At(e, "calling") /\ link
    /\ registered' = TRUE
    /\ verified' = verified \cup {e}
    /\ pc' = [pc EXCEPT ![e] = "completing"]
    /\ UNCHANGED <<jobStatus, attempts, cancelRequested, discardRequested, lease, silence,
                   netVars, mapVars, pos, file, appending, aborted, diskVars, events>>

GivenUpPasses(e) ==   \* slip: success though the server never answered
    /\ verified' = verified \cup {e}
    /\ pc' = [pc EXCEPT ![e] = "completing"]
    /\ UNCHANGED <<dbVars, netVars, mapVars, pos, file, appending, aborted, diskVars>>
GivenUpFails(e) == Fail(e)

CallGivenUp(e) == At(e, "calling") /\ GivesUp /\ GivenUpFails(e)

RejectReported(e) ==
    /\ At(e, "rejecting") /\ (link \/ CanGiveUp)
    /\ Fail(e) /\ UNCHANGED events

FailReported(e) ==
    /\ At(e, "failing") /\ (link \/ CanGiveUp)
    /\ pc' = [pc EXCEPT ![e] = "completing"]
    /\ UNCHANGED <<dbVars, netVars, mapVars, pos, file, appending, aborted, verified,
                   diskVars, events>>

(* runDownloadJob's finally: by job, whichever execution the entries are of. *)
Dismiss(e) ==
    /\ pc' = [pc EXCEPT ![e] = "over"]
    /\ aborted' = aborted \ {e}
    /\ reports' = reports \ {e[1]}
    /\ controller' = [controller EXCEPT ![e[1]] = None]
    /\ discards' = discards \ {e[1]}
    /\ pool' = pool \ {e[1]}
    /\ UNCHANGED <<attempts, cancelRequested, discardRequested, lease, silence, registered,
                   netVars, up, pos, file, appending, verified, diskVars>>

(* The job is marked by the first report; a repeated one changes nothing. *)
JobReported(e) ==
    IF jobStatus[e[1]] # "claimed" THEN jobStatus
    ELSE [jobStatus EXCEPT ![e[1]] = IF e \in verified THEN "completed" ELSE "failed"]

Complete(e) ==
    /\ At(e, "completing") /\ link
    /\ jobStatus' = JobReported(e)
    /\ Dismiss(e)
    /\ UNCHANGED events

CompleteGivenUp(e) ==
    /\ At(e, "completing") /\ GivesUp
    /\ UNCHANGED jobStatus
    /\ Dismiss(e)

-----------------------------------------------------------------------------
(* The heartbeat. *)

BeatSend ==
    /\ Connected /\ beat = None
    /\ beat' = [phase |-> "request", jobs |-> reports, cancel |-> {}, discard |-> {}]
    /\ UNCHANGED <<dbVars, link, sending, beaten, mapVars, execVars, diskVars, events>>

Lapsed(jobs) == {j \in jobs : jobStatus[j] # "claimed"}
DiscardsAll(jobs) == cancelRequested \cap jobs   \* slip: a pause deletes, too
Discards(jobs) == (discardRequested \cap jobs) \ Lapsed(jobs)

BeatReceive ==
    /\ beat # None /\ beat.phase = "request"
    /\ silence' = 0
    /\ lease' = [j \in Job |-> IF j \in beat.jobs \ Lapsed(beat.jobs) THEN LeaseTicks
                               ELSE lease[j]]
    /\ beat' = [beat EXCEPT !.phase = "response",
                            !.cancel = Lapsed(beat.jobs) \cup (cancelRequested \cap beat.jobs),
                            !.discard = Discards(beat.jobs)]
    /\ UNCHANGED <<jobStatus, attempts, cancelRequested, discardRequested, registered, link,
                   sending, beaten, mapVars, execVars, diskVars, events>>

BeatReturnFrees ==   \* slip: a stopped download gives its slot back at once
    /\ beat # None /\ beat.phase = "response"
    /\ discards' = discards \cup beat.discard
    /\ aborted' = aborted \cup ({controller[j] : j \in beat.cancel \cup beat.discard} \ {None})
    /\ pool' = pool \ (beat.cancel \cup beat.discard)
    /\ beaten' = TRUE
    /\ beat' = None
    /\ UNCHANGED <<dbVars, link, sending, up, reports, controller, pc, pos, file, appending,
                   verified, diskVars, events>>

(* The signal of an execution is found by its job, as is everything else. *)
BeatReturn ==
    /\ beat # None /\ beat.phase = "response"
    /\ discards' = discards \cup beat.discard
    /\ aborted' = aborted \cup ({controller[j] : j \in beat.cancel \cup beat.discard} \ {None})
    /\ beaten' = TRUE
    /\ beat' = None
    /\ UNCHANGED <<dbVars, link, sending, up, reports, controller, pool, pc, pos, file,
                   appending, verified, diskVars, events>>

-----------------------------------------------------------------------------
(* Connections, processes and time. *)

(* What breaks the connection may break it after a report was applied.     *)
Sever ==
    /\ sending' = None /\ beat' = None
    /\ \/ UNCHANGED <<jobStatus, registered>>
       \/ \E e \in Underway : /\ pc[e] = "calling" /\ registered' = TRUE
                              /\ UNCHANGED jobStatus
       \/ \E e \in Underway : /\ pc[e] = "completing" /\ jobStatus' = JobReported(e)
                              /\ UNCHANGED registered
    /\ UNCHANGED <<attempts, cancelRequested, discardRequested, lease, silence>>

Outage ==
    /\ Connected
    /\ Rationed("outage")
    /\ link' = FALSE
    /\ Sever
    /\ UNCHANGED <<beaten, mapVars, execVars, diskVars>>

(* The claim response is cut before it is flushed, and the claim undone. *)
ResponseClosed ==
    /\ sending # None
    /\ Rationed("unflushed")
    /\ jobStatus' = IF jobStatus[sending[1]] = "claimed"
                    THEN [jobStatus EXCEPT ![sending[1]] = "pending"] ELSE jobStatus
    /\ sending' = None
    /\ UNCHANGED <<attempts, cancelRequested, discardRequested, lease, silence, registered,
                   link, beat, beaten, mapVars, execVars, diskVars>>

Reconnect ==
    /\ ~link
    /\ link' = TRUE
    /\ UNCHANGED <<dbVars, sending, beat, beaten, mapVars, execVars, diskVars, events>>

Crash ==
    /\ up
    /\ Rationed("crash")
    /\ up' = FALSE
    /\ IF link THEN Sever ELSE UNCHANGED <<dbVars, sending, beat>>
    /\ reports' = {} /\ discards' = {} /\ pool' = {}
    /\ controller' = [j \in Job |-> None]
    /\ pc' = [e \in Execution |-> IF pc[e] \in Running THEN "over" ELSE pc[e]]
    /\ pos' = [e \in Execution |-> 0]
    /\ file' = [e \in Execution |-> None]
    /\ appending' = {} /\ aborted' = {}
    /\ UNCHANGED <<link, beaten, verified, diskVars>>

Restart ==
    /\ ~up
    /\ up' = TRUE
    /\ UNCHANGED <<dbVars, netVars, reports, controller, discards, pool, execVars, diskVars,
                   events>>

(* One heartbeat interval: a connected worker had its heartbeat answered,  *)
(* and no message stays on the wire for longer.                            *)
Tick ==
    /\ Connected => beaten
    /\ sending = None /\ beat = None
    /\ silence' = IF Offline THEN silence ELSE silence + 1
    /\ lease' = [j \in Job |-> IF lease[j] = 0 THEN 0 ELSE lease[j] - 1]
    /\ beaten' = FALSE
    /\ UNCHANGED <<jobStatus, attempts, cancelRequested, discardRequested, registered, link,
                   sending, beat, mapVars, execVars, diskVars, events>>

-----------------------------------------------------------------------------
(* reapExpiredLeases: lapsed leases, then what its worker left pending. *)

DoomedByAttempts(j) == attempts[j] >= MaxAttempts   \* slip: forgets the pause
Doomed(j) == j \in cancelRequested \/ attempts[j] >= MaxAttempts

Expired == {j \in Job : jobStatus[j] = "claimed" /\ lease[j] = 0}

Reap ==
    LET back == {j \in Expired : ~Doomed(j)}
        counted == [j \in Job |-> IF j \in back THEN attempts[j] + 1 ELSE attempts[j]]
        stuck == {j \in Job : /\ Offline /\ counted[j] >= 1
                              /\ jobStatus[j] = "pending" \/ j \in back}
    IN  /\ Expired \cup stuck # {}
        /\ attempts' = counted
        /\ jobStatus' = [j \in Job |-> IF j \in (Expired \ back) \cup stuck THEN "failed"
                                       ELSE IF j \in back THEN "pending" ELSE jobStatus[j]]
        /\ UNCHANGED <<cancelRequested, discardRequested, lease, silence, registered, netVars,
                       mapVars, execVars, diskVars, events>>

-----------------------------------------------------------------------------
Init ==
    /\ jobStatus = [j \in Job |-> "absent"]
    /\ attempts = [j \in Job |-> 0]
    /\ cancelRequested = {} /\ discardRequested = {}
    /\ lease = [j \in Job |-> 0]
    /\ silence = 0
    /\ registered = FALSE
    /\ link = TRUE /\ sending = None /\ beat = None /\ beaten = FALSE
    /\ up = TRUE
    /\ reports = {} /\ discards = {} /\ pool = {}
    /\ controller = [j \in Job |-> None]
    /\ pc = [e \in Execution |-> "none"]
    /\ pos = [e \in Execution |-> 0]
    /\ file = [e \in Execution |-> None]
    /\ appending = {} /\ aborted = {} /\ verified = {}
    /\ content = [e \in Execution |-> <<>>]
    /\ part = None /\ target = None /\ shared = {}
    /\ events = 0

Browser == \E j \in Job : Enqueue(j) \/ Pause(j) \/ Cancel(j)
Queue == PollIdle \/ (\E j \in Job : Claim(j)) \/ Deliver \/ ResponseClosed
Transfer(e) == Fetched(e) \/ Write(e) \/ Finish(e) \/ AbortSeen(e) \/ Hash(e)
Report(e) == CallOk(e) \/ CallGivenUp(e) \/ RejectReported(e) \/ FailReported(e)
             \/ Complete(e) \/ CompleteGivenUp(e)
Heartbeat == BeatSend \/ BeatReceive \/ BeatReturn
World == Outage \/ Reconnect \/ Crash \/ Restart \/ Tick

Next == Browser \/ Queue \/ Heartbeat \/ World \/ Reap
        \/ \E e \in Execution : Transfer(e) \/ Report(e) \/ BrokenStream(e)

Spec == Init /\ [][Next]_vars

(* The worker's loops, the remote server, the sweeps and time go on, a     *)
(* crashed worker is restarted and an outage ends.  Heartbeats are seconds *)
(* apart, so they cannot keep time from passing between them.              *)
Fairness ==
    /\ WF_vars(\E j \in Job : Claim(j)) /\ WF_vars(Deliver)
    /\ WF_vars(BeatSend) /\ WF_vars(BeatReceive) /\ WF_vars(BeatReturn)
    /\ \A e \in Execution : WF_vars(Transfer(e)) /\ WF_vars(Report(e))
    /\ WF_vars(Reconnect) /\ WF_vars(Restart) /\ SF_vars(Tick) /\ WF_vars(Reap)

FairSpec == Spec /\ Fairness

-----------------------------------------------------------------------------
(* Safety *)

(* What stands under the model's name is the whole file, in order, however *)
(* many resumed and restarted transfers it was put together from, unless   *)
(* two of them had the file open at once.                                  *)
TargetIsRight == target # None /\ target \notin shared => content[target] = Whole

(* The code does not keep two transfers of a file apart, so it is not       *)
(* always right.                                                           *)
TargetIsAlwaysRight == target # None => content[target] = Whole

(* A download reported complete is one the catalog knows about. *)
CompletedIsRegistered == \A j \in Job : jobStatus[j] = "completed" => registered

(* The worker counts a download against its slots, renews its lease and can *)
(* stop it until it is over.  All three go by job id, so it can lose hold   *)
(* of a download only to another execution of the same job.                *)
Repeats(e) == {d \in Execution : d # e /\ d[1] = e[1] /\ pc[d] # "none"}
DownloadsAreHeld ==
    \A e \in Underway :
        /\ e[1] \in pool \cap reports \/ \E d \in Repeats(e) : pc[d] = "over"
        /\ controller[e[1]] = e \/ Repeats(e) # {}

(* The slots are exceeded by at most one for every time a job was handed    *)
(* out again after its lease expired.                                      *)
HandedOutAgain == {e \in Execution : e[2] > 0 /\ pc[e] # "none"}
PoolHoldsLimit == Cardinality(Underway) <= MaxDownloads + Cardinality(HandedOutAgain)

(* They can be exceeded, since the pool counts jobs.                       *)
SlotsAreTheLimit == Cardinality(Underway) <= MaxDownloads

(* A pause, crash or failure keeps the bytes for a resume: the .part goes   *)
(* away by becoming the model or by a cancel of the download that had it.   *)
OnlyCancelDeletes ==
    [][part # None /\ part' # part =>
          \/ target' = part
          \/ \E e \in Underway : pc'[e] = "failing" /\ e[1] \in discardRequested]_vars

(* The server does not let two executions of a job both report results. *)
OneReports == \A d, e \in verified : d[1] = e[1] => d = e

(* A .part left over by any earlier attempt can be resumed: there are bytes *)
(* left to ask for.                                                        *)
ResumeHasBytes == \A e \in Underway : pc[e] = "fetching" => pos[e] < Size

(* Once everything is quiet, a file whose last download was cancelled has   *)
(* left nothing to resume.                                                 *)
Quiet == /\ up /\ Underway = {} /\ sending = None /\ beat = None
         /\ \A j \in Job : jobStatus[j] \notin Live
CancelLeavesNothing ==
    Quiet /\ (\A j \in Job : jobStatus[j] # "absent" => j \in discardRequested) => part = None

(* Liveness: every queued download ends. *)
EveryDownloadEnds == \A j \in Job : jobStatus[j] = "pending" ~> jobStatus[j] \in Ended
=============================================================================
