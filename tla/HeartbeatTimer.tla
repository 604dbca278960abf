--------------------------- MODULE HeartbeatTimer ---------------------------
(***************************************************************************)
(* The worker's heartbeat schedule: a setTimeout that each heartbeat sets  *)
(* again when it ends, and kickHeartbeatSoon, by which workerMain and the  *)
(* download pool pull the next one forward.  Nothing but the variable      *)
(* heartbeatTimer connects the two, so the timers are modelled one by one. *)
(***************************************************************************)
EXTENDS Integers, FiniteSets

CONSTANTS
    Timer,          \* timer handles: a bound on the loops that can exist
    MaxDownloads    \* config.max_concurrent_downloads

ASSUME TimerAssumption == Timer # {}
ASSUME DownloadsAssumption == MaxDownloads \in Nat \ {0}

VARIABLES
    armed,          \* timeouts set and not yet fired
    flying,         \* fired timeouts whose heartbeatTick has not ended
    heartbeatTimer, \* the variable of that name
    delay,          \* what each handle was last set to
    serial,         \* the job workerMain awaits
    downloads       \* size of activeDownloadJobs and activeDownloadReports

vars == <<armed, flying, heartbeatTimer, delay, serial, downloads>>

Delay == {"kick", "fast", "slow"}       \* 300 ms, 2 s, 10 s
Serial == {"none", "install", "other"}

TypeOK ==
    /\ armed \subseteq Timer
    /\ flying \subseteq Timer
    /\ heartbeatTimer \in Timer
    /\ delay \in [Timer -> Delay]
    /\ serial \in Serial
    /\ downloads \in 0..MaxDownloads

Fresh == Timer \ (armed \cup flying \cup {heartbeatTimer})

(* Downloads, and a serial install in its downloading or extracting phase. *)
FastLane(s, d) == d > 0 \/ s = "install"

-----------------------------------------------------------------------------
(* setTimeout fires: heartbeatTick begins and awaits the server. *)
Fire(t) ==
    /\ t \in armed
    /\ armed' = armed \ {t}
    /\ flying' = flying \cup {t}
    /\ UNCHANGED <<heartbeatTimer, delay, serial, downloads>>

(* heartbeatTick's finally, whatever became of the request. *)
AnswerForDownloads(t) ==   \* slip: the fast lane forgets a serial install
    /\ t \in flying
    /\ \E u \in Fresh :
        /\ armed' = armed \cup {u}
        /\ heartbeatTimer' = u
        /\ delay' = [delay EXCEPT ![u] = IF downloads > 0 THEN "fast" ELSE "slow"]
    /\ flying' = flying \ {t}
    /\ UNCHANGED <<serial, downloads>>
Answer(t) ==
    /\ t \in flying
    /\ \E u \in Fresh :
        /\ armed' = armed \cup {u}
        /\ heartbeatTimer' = u
        /\ delay' = [delay EXCEPT ![u] = IF FastLane(serial, downloads) THEN "fast" ELSE "slow"]
    /\ flying' = flying \ {t}
    /\ UNCHANGED <<serial, downloads>>

(* kickHeartbeatSoon: clearing a timeout that has already fired is a no-op. *)
(* One handle is spared so that every heartbeat can end: the bound on loops. *)
KickOnlyClears ==   \* slip: the pending heartbeat is cleared and not set again
    /\ armed' = armed \ {heartbeatTimer}
    /\ UNCHANGED <<heartbeatTimer, delay, flying>>
Kick ==
    \E u \in Fresh :
        /\ Fresh # {u}
        /\ armed' = (armed \ {heartbeatTimer}) \cup {u}
        /\ heartbeatTimer' = u
        /\ delay' = [delay EXCEPT ![u] = "kick"]
        /\ UNCHANGED flying

(* workerMain polls only with a download slot free and no serial job; a    *)
(* download runs beside the loop, any other job inside it.                 *)
CanPoll == serial = "none" /\ downloads < MaxDownloads

ClaimSerial ==
    /\ CanPoll
    /\ serial' \in Serial \ {"none"}
    /\ UNCHANGED downloads
    /\ Kick

FinishSerial ==
    /\ serial # "none"
    /\ serial' = "none"
    /\ UNCHANGED downloads
    /\ Kick

ClaimDownload ==
    /\ CanPoll
    /\ downloads' = downloads + 1
    /\ UNCHANGED serial
    /\ Kick

FinishDownload ==
    /\ downloads > 0
    /\ downloads' = downloads - 1
    /\ UNCHANGED <<armed, flying, heartbeatTimer, delay, serial>>

-----------------------------------------------------------------------------
Init ==  \* startHeartbeatLoop, called before workerMain
    /\ heartbeatTimer \in Timer
    /\ armed = {heartbeatTimer}
    /\ flying = {}
    /\ delay = [t \in Timer |-> "slow"]
    /\ serial = "none"
    /\ downloads = 0

Beat == \E t \in Timer : Fire(t) \/ Answer(t)
Jobs == ClaimSerial \/ FinishSerial \/ ClaimDownload \/ FinishDownload

Next == Beat \/ Jobs

Spec == Init /\ [][Next]_vars

-----------------------------------------------------------------------------
(* However kicks and heartbeats interleave, one is always due: a worker    *)
(* never falls silent for good.                                            *)
AlwaysDue == armed \cup flying # {}

(* A job with byte progress never waits out an idle interval: a heartbeat  *)
(* is on its way, or due within the fast one, for as long as it lasts.     *)
FastLaneIsFast ==
    FastLane(serial, downloads) => flying # {} \/ \E t \in armed : delay[t] # "slow"

(* A kick pulls the next heartbeat forward and leaves the idle rate as it  *)
(* was: there is one loop.                                                 *)
OneLoop == Cardinality(armed) <= 1
=============================================================================
