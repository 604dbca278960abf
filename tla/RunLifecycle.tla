---------------------------- MODULE RunLifecycle ----------------------------
(***************************************************************************)
(* What the server promises of a run to whoever reads its rows: it is      *)
(* triggered once, its items close one by one, it ends once and with an    *)
(* outcome that tells what became of them.  Who ends it (the worker, the   *)
(* user, the reaper, a failed job) is left to JobQueue.                    *)
(***************************************************************************)
CONSTANTS Run, Item

VARIABLES
    runStatus,      \* runs.status, "absent" before the trigger
    runError,       \* the note in runs.error
    item            \* run_items.status

vars == <<runStatus, runError, item>>

Closed == {"done", "failed", "skipped", "cancelled"}
FinalStatus == {"done", "partial", "failed", "cancelled"}

Active(r) == runStatus[r] \in {"scheduled", "running"}
Ended(its) == \A i \in Item : its[i] \in Closed

(* finalizeTest's outcome and the items it was derived from. *)
Tells(s, its) ==
    /\ s \in FinalStatus
    /\ s = "done" <=> \A i \in Item : its[i] \in {"done", "skipped"}
    /\ s = "failed" => \A i \in Item : its[i] = "failed"
    /\ s = "partial" => \E i \in Item : its[i] \in {"done", "skipped"}
    /\ s = "cancelled" => \E i \in Item : its[i] = "cancelled"

-----------------------------------------------------------------------------
(* What may happen to one run in a step; others may change with it.        *)

MeasuredStays(r) == \A i \in Item : item[r][i] = "done" => item'[r][i] = "done"
StatusStays(r) == runStatus'[r] = runStatus[r] /\ runError'[r] = runError[r]

Schedule(r) ==
    /\ runStatus[r] = "absent" /\ runStatus'[r] = "scheduled"
    /\ \A i \in Item : item[r][i] = "queued"
    /\ item'[r] = item[r] /\ runError'[r] = runError[r]

Start(r) ==
    /\ Active(r) /\ runStatus'[r] = "running"
    /\ item'[r] = item[r] /\ runError'[r] = runError[r]

Progress(r) ==
    /\ Active(r) /\ StatusStays(r)
    /\ MeasuredStays(r) /\ ~Ended(item'[r])

End(r) ==
    /\ Active(r) /\ Tells(runStatus'[r], item'[r])
    /\ MeasuredStays(r) /\ Ended(item'[r])

(* A report that comes after the end: it may correct its item, no more. *)
Amend(r) ==
    /\ runStatus[r] \in FinalStatus /\ StatusStays(r)
    /\ MeasuredStays(r) /\ Ended(item'[r])

Rest(r) == StatusStays(r) /\ item'[r] = item[r]

Init ==
    /\ runStatus = [r \in Run |-> "absent"]
    /\ runError = [r \in Run |-> ""]
    /\ item = [r \in Run |-> [i \in Item |-> "queued"]]

Next == \A r \in Run :
    Schedule(r) \/ Start(r) \/ Progress(r) \/ End(r) \/ Amend(r) \/ Rest(r)

Spec == Init /\ [][Next]_vars
=============================================================================
