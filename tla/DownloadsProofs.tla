-------------------------- MODULE DownloadsProofs --------------------------
(* Theorems about Downloads, for every number of jobs, chunks and slots,   *)
(* every bound and every choice of events.                                 *)
EXTENDS Downloads, SequenceTheorems, FiniteSetTheorems, TLAPS

-----------------------------------------------------------------------------
(* Type correctness *)

DbTypes ==
    /\ jobStatus \in [Job -> JobStatus]
    /\ attempts \in [Job -> 0..MaxAttempts]
    /\ cancelRequested \subseteq Job
    /\ discardRequested \subseteq cancelRequested
    /\ lease \in [Job -> 0..LeaseTicks]
    /\ silence \in 0..(OfflineTicks + 1)
    /\ registered \in BOOLEAN
NetTypes ==
    /\ link \in BOOLEAN
    /\ sending \in Execution \cup {None}
    /\ beat \in Beat \cup {None}
    /\ beaten \in BOOLEAN
MapTypes ==
    /\ up \in BOOLEAN
    /\ reports \subseteq Job
    /\ controller \in [Job -> Execution \cup {None}]
    /\ discards \subseteq Job
    /\ pool \subseteq Job
ExecTypes ==
    /\ pc \in [Execution -> Stage]
    /\ pos \in [Execution -> Nat]
    /\ file \in [Execution -> Execution \cup {None}]
    /\ appending \subseteq Execution
    /\ aborted \subseteq Execution
    /\ verified \subseteq Execution
DiskTypes ==
    /\ content \in [Execution -> Seq(0..Size)]
    /\ part \in Execution \cup {None}
    /\ target \in Execution \cup {None}
    /\ shared \subseteq Execution
EventTypes == events \in 0..MaxEvents

LEMMA TypeParts ==
    TypeOK <=> DbTypes /\ NetTypes /\ MapTypes /\ ExecTypes /\ DiskTypes /\ EventTypes
  BY DEF TypeOK, DbTypes, NetTypes, MapTypes, ExecTypes, DiskTypes, EventTypes

LEMMA Together ==
    ASSUME DbTypes', NetTypes', MapTypes', ExecTypes', DiskTypes', EventTypes'
    PROVE  TypeOK'
  BY DEF TypeOK, DbTypes, NetTypes, MapTypes, ExecTypes, DiskTypes, EventTypes

LEMMA KeepsDb == ASSUME DbTypes, UNCHANGED dbVars PROVE DbTypes'
  BY DEF DbTypes, dbVars
LEMMA KeepsNet == ASSUME NetTypes, UNCHANGED netVars PROVE NetTypes'
  BY DEF NetTypes, netVars
LEMMA KeepsMap == ASSUME MapTypes, UNCHANGED mapVars PROVE MapTypes'
  BY DEF MapTypes, mapVars
LEMMA KeepsExec == ASSUME ExecTypes, UNCHANGED execVars PROVE ExecTypes'
  BY DEF ExecTypes, execVars
LEMMA KeepsDisk == ASSUME DiskTypes, UNCHANGED diskVars PROVE DiskTypes'
  BY DEF DiskTypes, diskVars
LEMMA KeepsEvents ==
    ASSUME EventTypes, (\E k \in EventKind : Rationed(k)) \/ UNCHANGED events
    PROVE  EventTypes'
  BY EventAssumption DEF EventTypes, Rationed

LEMMA InitTypes == Init => TypeOK
  <1>. SUFFICES ASSUME Init PROVE TypeOK
    OBVIOUS
  <1>1. DbTypes
    <2>1. 0 \in 0..MaxAttempts /\ 0 \in 0..LeaseTicks /\ 0 \in 0..(OfflineTicks + 1)
      BY AttemptsAssumption, TimeAssumption
    <2>. QED BY <2>1 DEF Init, DbTypes, JobStatus
  <1>2. NetTypes /\ MapTypes /\ DiskTypes
    <2>1. <<>> \in Seq(0..Size)
      OBVIOUS
    <2>. QED BY <2>1 DEF Init, NetTypes, MapTypes, DiskTypes
  <1>3. ExecTypes /\ EventTypes
    BY EventAssumption DEF Init, ExecTypes, EventTypes, Stage
  <1>. QED BY <1>1, <1>2, <1>3, TypeParts

(* The database. *)

LEMMA ReportedType ==
    ASSUME DbTypes, NEW e \in Execution
    PROVE  JobReported(e) \in [Job -> JobStatus]
  BY DEF DbTypes, JobReported, JobStatus

LEMMA SeverDb == ASSUME DbTypes, Sever PROVE DbTypes'
  <1>1. jobStatus' \in [Job -> JobStatus]
    BY ReportedType DEF Sever, Underway, DbTypes
  <1>2. registered' \in BOOLEAN
    BY DEF Sever, DbTypes
  <1>. QED BY <1>1, <1>2 DEF Sever, DbTypes

LEMMA BrowserTypes == ASSUME TypeOK, Browser PROVE TypeOK'
  <1>1. UNCHANGED <<netVars, mapVars, execVars, diskVars>>
    BY DEF Browser, Enqueue, Pause, Cancel
  <1>2. (\E k \in EventKind : Rationed(k)) \/ UNCHANGED events
    BY DEF Browser, Enqueue, Pause, Cancel, EventKind
  <1>3. DbTypes'
    BY TypeParts DEF Browser, Enqueue, Pause, Cancel, DbTypes, JobStatus
  <1>. QED BY <1>1, <1>2, <1>3, TypeParts, Together, KeepsNet, KeepsMap, KeepsExec, KeepsDisk, KeepsEvents

LEMMA ClaimTypes == ASSUME TypeOK, NEW j \in Job, Claim(j) PROVE TypeOK'
  <1>. USE TypeParts
  <1>1. UNCHANGED <<mapVars, execVars, diskVars, events>>
    BY DEF Claim
  <1>2. DbTypes'
    BY TimeAssumption DEF Claim, DbTypes, JobStatus
  <1>3. <<j, attempts[j]>> \in Execution
    BY DEF DbTypes, Execution
  <1>4. NetTypes'
    BY <1>3 DEF Claim, NetTypes
  <1>. QED BY <1>1, <1>2, <1>4, Together, KeepsMap, KeepsExec, KeepsDisk, KeepsEvents

LEMMA BytesType == ASSUME DiskTypes PROVE Bytes(part) \in Nat
  <1>1. CASE part = None
    BY <1>1 DEF Bytes
  <1>2. CASE part \in Execution
    <2>1. content[part] \in Seq(0..Size)
      BY <1>2 DEF DiskTypes
    <2>. QED BY <1>2, <2>1, NoneAssumption DEF Bytes
  <1>. QED BY <1>1, <1>2 DEF DiskTypes

LEMMA DeliverTypes == ASSUME TypeOK, Deliver PROVE TypeOK'
  <1>. USE TypeParts
  <1>1. UNCHANGED <<dbVars, events>>
    BY DEF Deliver
  <1>2. sending \in Execution /\ sending[1] \in Job
    BY DEF Deliver, NetTypes, Execution
  <1>3. NetTypes'
    BY DEF Deliver, NetTypes
  <1>4. MapTypes'
    BY <1>2 DEF Deliver, MapTypes
  <1>5. pc' \in [Execution -> Stage]
    BY DEF Deliver, ExecTypes, Stage
  <1>6. pos' \in [Execution -> Nat]
    BY <1>2, BytesType DEF Deliver, ExecTypes
  <1>7. ExecTypes'
    BY <1>5, <1>6 DEF Deliver, ExecTypes
  <1>8. DiskTypes'
    <2>1. Transferring \cup ({sending, part} \ {None}) \subseteq Execution
      BY <1>2 DEF Transferring, DiskTypes
    <2>2. shared' \subseteq Execution
      BY <2>1 DEF Deliver, DiskTypes
    <2>. QED BY <2>2 DEF Deliver, DiskTypes
  <1>. QED BY <1>1, <1>3, <1>4, <1>7, <1>8, Together, KeepsDb, KeepsEvents

LEMMA QueueTypes == ASSUME TypeOK, Queue PROVE TypeOK'
  <1>. USE TypeParts
  <1>1. CASE PollIdle
    <2>1. DbTypes'
      BY <1>1, TimeAssumption DEF PollIdle, DbTypes
    <2>2. UNCHANGED <<netVars, mapVars, execVars, diskVars, events>>
      BY <1>1 DEF PollIdle
    <2>. QED BY <2>1, <2>2, Together, KeepsNet, KeepsMap, KeepsExec, KeepsDisk, KeepsEvents
  <1>2. CASE ResponseClosed
    <2>1. DbTypes'
      BY <1>2 DEF ResponseClosed, DbTypes, JobStatus
    <2>2. NetTypes'
      BY <1>2 DEF ResponseClosed, NetTypes
    <2>3. UNCHANGED <<mapVars, execVars, diskVars>> /\ \E k \in EventKind : Rationed(k)
      BY <1>2 DEF ResponseClosed, EventKind
    <2>. QED BY <2>1, <2>2, <2>3, Together, KeepsMap, KeepsExec, KeepsDisk, KeepsEvents
  <1>. QED BY <1>1, <1>2, ClaimTypes, DeliverTypes DEF Queue

(* The execution of a download. *)

LEMMA FailTypes ==
    ASSUME TypeOK, NEW e \in Execution, Fail(e),
           (\E k \in EventKind : Rationed(k)) \/ UNCHANGED events
    PROVE  TypeOK'
  <1>. USE TypeParts
  <1>1. UNCHANGED <<dbVars, netVars, mapVars>>
    BY DEF Fail
  <1>2. ExecTypes'
    BY DEF Fail, ExecTypes, Stage
  <1>3. DiskTypes'
    BY DEF Fail, DiskTypes
  <1>. QED BY <1>1, <1>2, <1>3, Together, KeepsDb, KeepsNet, KeepsMap, KeepsEvents

LEMMA OpenTypes ==
    ASSUME TypeOK, NEW e \in Execution, NEW a, Open(e, a),
           (\E k \in EventKind : Rationed(k)) \/ UNCHANGED events
    PROVE  TypeOK'
  <1>. USE TypeParts
  <1>. DEFINE f == IF part = None THEN e ELSE part
  <1>1. UNCHANGED <<dbVars, netVars, mapVars>>
    BY DEF Open
  <1>2. f \in Execution
    BY DEF DiskTypes
  <1>3. ExecTypes'
    BY <1>2 DEF Open, ExecTypes, Stage
  <1>4. DiskTypes'
    <2>1. <<>> \in Seq(0..Size)
      OBVIOUS
    <2>. QED BY <1>2, <2>1 DEF Open, DiskTypes
  <1>. QED BY <1>1, <1>3, <1>4, Together, KeepsDb, KeepsNet, KeepsMap, KeepsEvents

LEMMA FetchedTypes == ASSUME TypeOK, NEW e \in Execution, Fetched(e) PROVE TypeOK'
  <1>1. (\E k \in EventKind : Rationed(k)) \/ UNCHANGED events
    BY DEF Fetched, EventKind
  <1>2. Fail(e) \/ Open(e, 200) \/ Open(e, 206)
    BY DEF Fetched
  <1>. QED BY <1>1, <1>2, FailTypes, OpenTypes, Zenon

(* A stream writes the file it opened. *)
Opened == \A e \in Execution : pc[e] = "streaming" => file[e] # None

LEMMA WriteTypes == ASSUME TypeOK, Opened, NEW e \in Execution, Write(e) PROVE TypeOK'
  <1>. USE TypeParts
  <1>. DEFINE f == file[e]
              c == content[f]
              chunk == pos[e] + 1
  <1>1. UNCHANGED <<dbVars, netVars, mapVars, events>>
    BY DEF Write
  <1>2. f \in Execution /\ c \in Seq(0..Size)
    BY DEF Write, At, Opened, ExecTypes, DiskTypes
  <1>3. pos[e] \in Nat /\ chunk \in 0..Size
    BY SizesAssumption DEF Write, ExecTypes
  <1>4. Append(c, chunk) \in Seq(0..Size)
    BY <1>2, <1>3
  <1>5. Written(c, pos[e], chunk) \in Seq(0..Size)
    <2>. DEFINE n == IF Len(c) > pos[e] THEN Len(c) ELSE pos[e] + 1
    <2>1. n \in Nat
      BY <1>2, <1>3
    <2>2. \A i \in 1..n : (IF i = pos[e] + 1 THEN chunk ELSE IF i <= Len(c) THEN c[i] ELSE 0)
                          \in 0..Size
      BY <1>2, <1>3, SizesAssumption
    <2>3. Written(c, pos[e], chunk) \in [1..n -> 0..Size]
      BY <2>2 DEF Written
    <2>. HIDE DEF n
    <2>. QED BY <2>1, <2>3, SeqDef
  <1>6. DiskTypes'
    <2>1. content' = [content EXCEPT ![f] = IF e \in appending THEN Append(c, chunk)
                                           ELSE Written(c, pos[e], chunk)]
      BY DEF Write
    <2>2. content' \in [Execution -> Seq(0..Size)]
      BY <1>4, <1>5, <2>1 DEF DiskTypes
    <2>. QED BY <2>2 DEF Write, DiskTypes
  <1>7. ExecTypes'
    BY <1>3 DEF Write, ExecTypes
  <1>. QED BY <1>1, <1>6, <1>7, Together, KeepsDb, KeepsNet, KeepsMap, KeepsEvents

LEMMA FinishTypes == ASSUME TypeOK, NEW e \in Execution, Finish(e) PROVE TypeOK'
  <1>. USE TypeParts
  <1>1. CASE part = None
    BY <1>1, FailTypes DEF Finish
  <1>2. CASE part # None
    <2>1. UNCHANGED <<dbVars, netVars, mapVars, events>>
      BY <1>2 DEF Finish
    <2>2. ExecTypes'
      BY <1>2 DEF Finish, ExecTypes, Stage
    <2>3. DiskTypes'
      BY <1>2 DEF Finish, DiskTypes
    <2>. QED BY <2>1, <2>2, <2>3, Together, KeepsDb, KeepsNet, KeepsMap, KeepsEvents
  <1>. QED BY <1>1, <1>2

LEMMA ReportTypes == ASSUME TypeOK, NEW e \in Execution, Report(e) PROVE TypeOK'
  <1>. USE TypeParts
  <1>0. GivesUp => (\E k \in EventKind : Rationed(k)) \/ UNCHANGED events
    BY DEF GivesUp, EventKind
  <1>1. CASE CallGivenUp(e) \/ RejectReported(e)
    BY <1>0, <1>1, FailTypes DEF CallGivenUp, GivenUpFails, RejectReported
  <1>2. CASE CallOk(e) \/ FailReported(e)
    <2>1. UNCHANGED <<netVars, mapVars, diskVars, events>>
      BY <1>2 DEF CallOk, FailReported
    <2>2. DbTypes'
      BY <1>2, KeepsDb DEF CallOk, FailReported, DbTypes
    <2>3. ExecTypes'
      BY <1>2 DEF CallOk, FailReported, ExecTypes, Stage
    <2>. QED BY <2>1, <2>2, <2>3, Together, KeepsNet, KeepsMap, KeepsDisk, KeepsEvents
  <1>3. CASE Complete(e) \/ CompleteGivenUp(e)
    <2>1. Dismiss(e)
      BY <1>3 DEF Complete, CompleteGivenUp
    <2>2. UNCHANGED <<netVars, diskVars>> /\ ((\E k \in EventKind : Rationed(k)) \/ UNCHANGED events)
      BY <1>0, <1>3, <2>1 DEF Dismiss, Complete, CompleteGivenUp
    <2>3. jobStatus' \in [Job -> JobStatus]
      BY <1>3, ReportedType DEF Complete, CompleteGivenUp, DbTypes
    <2>4. DbTypes'
      BY <2>1, <2>3 DEF Dismiss, DbTypes
    <2>5. MapTypes' /\ ExecTypes'
      BY <2>1 DEF Dismiss, MapTypes, ExecTypes, Stage
    <2>. QED BY <2>2, <2>4, <2>5, Together, KeepsNet, KeepsDisk, KeepsEvents
  <1>. QED BY <1>1, <1>2, <1>3 DEF Report

LEMMA ExecutionTypes ==
    ASSUME TypeOK, Opened, NEW e \in Execution, Transfer(e) \/ BrokenStream(e)
    PROVE  TypeOK'
  <1>. USE TypeParts
  <1>1. CASE AbortSeen(e) \/ BrokenStream(e)
    <2>1. "broken stream" \in EventKind
      BY DEF EventKind
    <2>. QED BY <1>1, <2>1, FailTypes DEF AbortSeen, BrokenStream
  <1>2. CASE Hash(e)
    <2>1. UNCHANGED <<dbVars, netVars, mapVars, diskVars, events>>
      BY <1>2 DEF Hash
    <2>2. ExecTypes'
      BY <1>2 DEF Hash, ExecTypes, Stage
    <2>. QED BY <2>1, <2>2, Together, KeepsDb, KeepsNet, KeepsMap, KeepsDisk, KeepsEvents
  <1>. QED BY <1>1, <1>2, FetchedTypes, WriteTypes, FinishTypes DEF Transfer

(* The heartbeat, the world and the sweep. *)

LEMMA BeatParts ==
    ASSUME NEW b \in Beat
    PROVE  b.jobs \subseteq Job /\ b.cancel \subseteq Job /\ b.discard \subseteq Job
  BY DEF Beat

LEMMA HeartbeatTypes == ASSUME TypeOK, Heartbeat PROVE TypeOK'
  <1>. USE TypeParts
  <1>1. CASE BeatSend
    <2>1. UNCHANGED <<dbVars, mapVars, execVars, diskVars, events>>
      BY <1>1 DEF BeatSend
    <2>2. NetTypes'
      BY <1>1 DEF BeatSend, NetTypes, Beat, MapTypes
    <2>. QED BY <2>1, <2>2, Together, KeepsDb, KeepsMap, KeepsExec, KeepsDisk, KeepsEvents
  <1>2. CASE BeatReceive
    <2>1. UNCHANGED <<mapVars, execVars, diskVars, events>>
      BY <1>2 DEF BeatReceive
    <2>2. beat \in Beat
      BY <1>2 DEF BeatReceive, NetTypes
    <2>3. Lapsed(beat.jobs) \subseteq Job /\ Discards(beat.jobs) \subseteq Job
          /\ cancelRequested \cap beat.jobs \subseteq Job
      BY <2>2, BeatParts DEF Lapsed, Discards
    <2>4. NetTypes'
      BY <1>2, <2>2, <2>3 DEF BeatReceive, NetTypes, Beat
    <2>5. DbTypes'
      BY <1>2, TimeAssumption DEF BeatReceive, DbTypes
    <2>. QED BY <2>1, <2>4, <2>5, Together, KeepsMap, KeepsExec, KeepsDisk, KeepsEvents
  <1>3. CASE BeatReturn
    <2>1. UNCHANGED <<dbVars, diskVars, events>>
      BY <1>3 DEF BeatReturn
    <2>2. beat \in Beat
      BY <1>3 DEF BeatReturn, NetTypes
    <2>3. NetTypes'
      BY <1>3 DEF BeatReturn, NetTypes
    <2>4. MapTypes'
      BY <1>3, <2>2, BeatParts DEF BeatReturn, MapTypes
    <2>5. aborted' \subseteq Execution
      BY <1>3, <2>2, BeatParts DEF BeatReturn, MapTypes, ExecTypes
    <2>6. ExecTypes'
      BY <1>3, <2>5 DEF BeatReturn, ExecTypes
    <2>. QED BY <2>1, <2>3, <2>4, <2>6, Together, KeepsDb, KeepsDisk, KeepsEvents
  <1>. QED BY <1>1, <1>2, <1>3 DEF Heartbeat

LEMMA WorldTypes == ASSUME TypeOK, World PROVE TypeOK'
  <1>. USE TypeParts
  <1>1. CASE Outage
    <2>1. UNCHANGED <<mapVars, execVars, diskVars>> /\ \E k \in EventKind : Rationed(k)
      BY <1>1 DEF Outage, EventKind
    <2>2. NetTypes' /\ DbTypes'
      BY <1>1, SeverDb DEF Outage, Sever, NetTypes
    <2>. QED BY <2>1, <2>2, Together, KeepsMap, KeepsExec, KeepsDisk, KeepsEvents
  <1>2. CASE Crash
    <2>1. UNCHANGED diskVars /\ \E k \in EventKind : Rationed(k)
      BY <1>2 DEF Crash, EventKind
    <2>2. DbTypes'
      BY <1>2, SeverDb, KeepsDb DEF Crash
    <2>3. NetTypes'
      BY <1>2 DEF Crash, Sever, NetTypes
    <2>4. MapTypes'
      BY <1>2 DEF Crash, MapTypes
    <2>5. ExecTypes'
      BY <1>2 DEF Crash, ExecTypes, Stage
    <2>. QED BY <2>1, <2>2, <2>3, <2>4, <2>5, Together, KeepsDisk, KeepsEvents
  <1>3. CASE Reconnect \/ Restart
    <2>1. UNCHANGED <<dbVars, execVars, diskVars, events>>
      BY <1>3 DEF Reconnect, Restart
    <2>2. NetTypes' /\ MapTypes'
      BY <1>3 DEF Reconnect, Restart, netVars, mapVars, NetTypes, MapTypes
    <2>. QED BY <2>1, <2>2, Together, KeepsDb, KeepsExec, KeepsDisk, KeepsEvents
  <1>4. CASE Tick
    <2>1. UNCHANGED <<mapVars, execVars, diskVars, events>>
      BY <1>4 DEF Tick
    <2>2. NetTypes'
      BY <1>4 DEF Tick, NetTypes
    <2>3. silence' \in 0..(OfflineTicks + 1) /\ lease' \in [Job -> 0..LeaseTicks]
      BY <1>4, TimeAssumption DEF Tick, DbTypes, Offline
    <2>4. DbTypes'
      BY <1>4, <2>3 DEF Tick, DbTypes
    <2>. QED BY <2>1, <2>2, <2>4, Together, KeepsMap, KeepsExec, KeepsDisk, KeepsEvents
  <1>. QED BY <1>1, <1>2, <1>3, <1>4 DEF World

(* A lease expiry is counted only below the limit. *)
LEMMA ReapTypes == ASSUME TypeOK, Reap PROVE TypeOK'
  <1>. USE TypeParts
  <1>1. UNCHANGED <<netVars, mapVars, execVars, diskVars, events>>
    BY DEF Reap
  <1>2. jobStatus' \in [Job -> JobStatus]
    BY DEF Reap, DbTypes, JobStatus
  <1>3. attempts' \in [Job -> 0..MaxAttempts]
    BY AttemptsAssumption DEF Reap, DbTypes, Doomed
  <1>4. DbTypes'
    BY <1>2, <1>3 DEF Reap, DbTypes
  <1>. QED BY <1>1, <1>4, Together, KeepsNet, KeepsMap, KeepsExec, KeepsDisk, KeepsEvents

LEMMA OpenedStep == TypeOK /\ Opened /\ [Next]_vars => Opened'
  <1>. SUFFICES ASSUME TypeOK, Opened, [Next]_vars PROVE Opened'
    OBVIOUS
  <1>0. pc \in [Execution -> Stage] /\ file \in [Execution -> Execution \cup {None}]
        /\ part \in Execution \cup {None} /\ sending \in Execution \cup {None}
    BY DEF TypeOK
  <1>. USE <1>0, NoneAssumption DEF Opened
  <1>1. CASE UNCHANGED <<pc, file>>
    BY <1>1
  <1>2. CASE Deliver
    BY <1>2 DEF Deliver
  <1>3. CASE Crash
    BY <1>3 DEF Crash, Running, Stage
  <1>4. ASSUME NEW e \in Execution, Fail(e) PROVE Opened'
    BY <1>4 DEF Fail
  <1>5. ASSUME NEW e \in Execution, NEW a, Open(e, a) PROVE Opened'
    BY <1>5 DEF Open
  <1>6. ASSUME NEW e \in Execution, Transfer(e) \/ BrokenStream(e) PROVE Opened'
    <2>1. CASE Fetched(e) \/ AbortSeen(e) \/ BrokenStream(e)
      BY <2>1, <1>4, <1>5 DEF Fetched, AbortSeen, BrokenStream
    <2>2. CASE Finish(e)
      BY <2>2, <1>4 DEF Finish
    <2>3. CASE Write(e) \/ Hash(e)
      BY <2>3 DEF Write, Hash
    <2>. QED BY <1>6, <2>1, <2>2, <2>3 DEF Transfer
  <1>7. ASSUME NEW e \in Execution, Report(e) PROVE Opened'
    <2>1. CASE CallGivenUp(e) \/ RejectReported(e)
      BY <2>1, <1>4 DEF CallGivenUp, GivenUpFails, RejectReported
    <2>2. CASE CallOk(e) \/ FailReported(e) \/ Complete(e) \/ CompleteGivenUp(e)
      BY <2>2 DEF CallOk, FailReported, Complete, CompleteGivenUp, Dismiss
    <2>. QED BY <1>7, <2>1, <2>2 DEF Report
  <1>8. CASE Browser \/ PollIdle \/ (\E j \in Job : Claim(j)) \/ ResponseClosed \/ Heartbeat
    BY <1>1, <1>8 DEF Browser, Enqueue, Pause, Cancel, PollIdle, Claim, ResponseClosed,
                      Heartbeat, BeatSend, BeatReceive, BeatReturn, execVars
  <1>9. CASE Outage \/ Reconnect \/ Restart \/ Tick \/ Reap \/ UNCHANGED vars
    BY <1>1, <1>9 DEF Outage, Reconnect, Restart, Tick, Reap, execVars, vars
  <1>. QED BY <1>2, <1>3, <1>6, <1>7, <1>8, <1>9 DEF Next, Queue, World

TypeInv == TypeOK /\ Opened

LEMMA TypeStep == TypeInv /\ [Next]_vars => TypeInv'
  <1>. SUFFICES ASSUME TypeOK, Opened, [Next]_vars PROVE TypeOK' /\ Opened'
    BY DEF TypeInv
  <1>1. ASSUME UNCHANGED vars PROVE TypeOK'
    <2>1. UNCHANGED <<dbVars, netVars, mapVars, execVars, diskVars, events>>
      BY <1>1 DEF vars
    <2>. QED BY <2>1, TypeParts, Together, KeepsDb, KeepsNet, KeepsMap, KeepsExec, KeepsDisk, KeepsEvents
  <1>2. TypeOK'
    BY <1>1, BrowserTypes, QueueTypes, HeartbeatTypes, WorldTypes, ReapTypes, ExecutionTypes,
       ReportTypes DEF Next
  <1>. QED BY <1>2, OpenedStep

LEMMA InitTypeInv == Init => TypeInv
  <1>1. Init => Opened
    BY DEF Init, Opened
  <1>. QED BY <1>1, InitTypes DEF TypeInv

(* Every variable keeps its type; in particular no job is requeued more    *)
(* than MaxAttempts times (server/src/reaper.ts reapExpiredLeases).        *)
THEOREM TypeCorrect == Spec => []TypeOK
  <1>1. TypeInv => TypeOK
    BY DEF TypeInv
  <1>. QED BY <1>1, InitTypeInv, TypeStep, PTL DEF Spec

-----------------------------------------------------------------------------
(* What is reported complete is registered.                                *)

Known == (verified # {} => registered) /\ CompletedIsRegistered

LEMMA ReportedKnown ==
    ASSUME TypeOK, Known, NEW e \in Execution, jobStatus' = JobReported(e), registered' = registered
    PROVE  CompletedIsRegistered'
  BY DEF TypeOK, Known, JobReported, CompletedIsRegistered

LEMMA SeverKnown ==
    ASSUME TypeOK, Known, Sever
    PROVE  CompletedIsRegistered' /\ (registered => registered')
  <1>1. CASE UNCHANGED <<jobStatus, registered>>
    BY <1>1 DEF Known, CompletedIsRegistered
  <1>2. CASE \E e \in Underway : registered' = TRUE /\ UNCHANGED jobStatus
    BY <1>2 DEF CompletedIsRegistered
  <1>3. CASE \E e \in Underway : jobStatus' = JobReported(e) /\ UNCHANGED registered
    BY <1>3, ReportedKnown DEF Underway
  <1>. QED BY <1>1, <1>2, <1>3 DEF Sever

LEMMA KnownStep == TypeOK /\ Known /\ [Next]_vars => Known'
  <1>. SUFFICES ASSUME TypeOK, Known, [Next]_vars PROVE Known'
    OBVIOUS
  <1>0. jobStatus \in [Job -> JobStatus]
    BY DEF TypeOK
  <1>. USE DEF Known, dbVars
  <1>1. CASE UNCHANGED vars
    BY <1>1 DEF vars, execVars, CompletedIsRegistered
  <1>2. CASE Browser
    <2>1. ASSUME NEW j \in Job, Enqueue(j) PROVE Known'
      BY <1>0, <2>1 DEF Enqueue, execVars, CompletedIsRegistered
    <2>2. ASSUME NEW j \in Job, Pause(j) PROVE Known'
      BY <2>2 DEF Pause, execVars, CompletedIsRegistered
    <2>3. ASSUME NEW j \in Job, Cancel(j) PROVE Known'
      BY <1>0, <2>3 DEF Cancel, execVars, CompletedIsRegistered
    <2>. QED BY <1>2, <2>1, <2>2, <2>3 DEF Browser
  <1>3. CASE Queue
    BY <1>0, <1>3 DEF Queue, PollIdle, Claim, Deliver, ResponseClosed, execVars,
                      CompletedIsRegistered
  <1>4. CASE Heartbeat
    BY <1>4 DEF Heartbeat, BeatSend, BeatReceive, BeatReturn, execVars, CompletedIsRegistered
  <1>5. CASE Outage \/ Crash
    <2>1. Sever \/ UNCHANGED dbVars
      BY <1>5 DEF Outage, Crash
    <2>2. verified' = verified
      BY <1>5 DEF Outage, Crash, execVars
    <2>. QED BY <2>1, <2>2, SeverKnown DEF CompletedIsRegistered
  <1>6. CASE Reconnect \/ Restart \/ Tick \/ Reap
    BY <1>6 DEF Reconnect, Restart, Tick, Reap, execVars, CompletedIsRegistered
  <1>7. ASSUME NEW e \in Execution, Transfer(e) \/ BrokenStream(e) PROVE Known'
    BY <1>7 DEF Transfer, BrokenStream, Fetched, Write, Finish, AbortSeen, Hash, Open, Fail,
                CompletedIsRegistered
  <1>8. ASSUME NEW e \in Execution, Report(e) PROVE Known'
    <2>1. CASE CallOk(e)
      BY <2>1 DEF CallOk, CompletedIsRegistered
    <2>2. CASE CallGivenUp(e) \/ RejectReported(e) \/ FailReported(e)
      BY <2>2 DEF CallGivenUp, GivenUpFails, RejectReported, FailReported, Fail,
                  CompletedIsRegistered
    <2>3. CASE Complete(e) \/ CompleteGivenUp(e)
      BY <2>3, ReportedKnown DEF Complete, CompleteGivenUp, Dismiss, CompletedIsRegistered
    <2>. QED BY <1>8, <2>1, <2>2, <2>3 DEF Report
  <1>. QED BY <1>1, <1>2, <1>3, <1>4, <1>5, <1>6, <1>7, <1>8 DEF Next, World

(* A download job ends "completed" only if the catalog has its file: not by *)
(* a report given up, a repeated or lost report, a crash or a second       *)
(* execution (worker/src/index.ts executeDownloadModelJob,                 *)
(* safeReportDownloadResult).                                              *)
THEOREM NothingLostOnSuccess == Spec => []CompletedIsRegistered
  <1>1. Init => Known
    BY DEF Init, Known, CompletedIsRegistered
  <1>2. Known => CompletedIsRegistered
    BY DEF Known
  <1>. QED BY <1>1, <1>2, KnownStep, TypeCorrect, PTL DEF Spec

-----------------------------------------------------------------------------
(* Only a cancel deletes.                                                  *)

(* What the worker believes discarded, or is being told so, is.            *)
Meant == discards \subseteq discardRequested
         /\ (beat # None => beat.discard \subseteq discardRequested)

LEMMA FailMeant == ASSUME Meant, NEW e, Fail(e)
                   PROVE  Meant'
  BY DEF Meant, Fail, dbVars, netVars, mapVars

LEMMA MeantStep == Meant /\ [Next]_vars => Meant'
  <1>. SUFFICES ASSUME Meant, [Next]_vars PROVE Meant'
    OBVIOUS
  <1>. USE DEF dbVars, netVars, mapVars
  <1>1. CASE UNCHANGED vars
    BY <1>1 DEF vars, Meant
  <1>2. CASE Browser
    BY <1>2 DEF Browser, Enqueue, Pause, Cancel, Meant
  <1>3. CASE Queue
    BY <1>3 DEF Queue, PollIdle, Claim, Deliver, ResponseClosed, Meant
  <1>4. CASE BeatSend
    BY <1>4 DEF BeatSend, Meant
  <1>5. CASE BeatReceive
    <2>1. beat'.discard = Discards(beat.jobs)
      BY <1>5 DEF BeatReceive
    <2>. QED BY <1>5, <2>1 DEF BeatReceive, Discards, Meant
  <1>6. CASE BeatReturn
    BY <1>6 DEF BeatReturn, Meant
  <1>7. CASE Outage \/ Crash
    BY <1>7 DEF Outage, Crash, Sever, Meant
  <1>8. CASE Reconnect \/ Restart \/ Tick \/ Reap
    BY <1>8 DEF Reconnect, Restart, Tick, Reap, Meant
  <1>9. ASSUME NEW e \in Execution, Transfer(e) \/ BrokenStream(e) PROVE Meant'
    <2>1. CASE Fail(e)
      BY <2>1, FailMeant
    <2>2. CASE ~Fail(e)
      BY <1>9, <2>2 DEF Transfer, BrokenStream, Fetched, Write, Finish, AbortSeen, Hash,
                        Open, Meant
    <2>. QED BY <2>1, <2>2
  <1>10. ASSUME NEW e \in Execution, Report(e) PROVE Meant'
    <2>1. CASE CallGivenUp(e) \/ RejectReported(e)
      BY <2>1, FailMeant DEF CallGivenUp, GivenUpFails, RejectReported
    <2>2. CASE CallOk(e) \/ FailReported(e)
      BY <2>2 DEF CallOk, FailReported, Meant
    <2>3. CASE Complete(e) \/ CompleteGivenUp(e)
      BY <2>3 DEF Complete, CompleteGivenUp, Dismiss, Meant
    <2>. QED BY <1>10, <2>1, <2>2, <2>3 DEF Report
  <1>. QED BY <1>1, <1>2, <1>3, <1>4, <1>5, <1>6, <1>7, <1>8, <1>9, <1>10
       DEF Next, World, Heartbeat

(* The step OnlyCancelDeletes allows. *)
Kept == part # None /\ part' # part =>
          \/ target' = part
          \/ \E e \in Underway : pc'[e] = "failing" /\ e[1] \in discardRequested

(* An execution that fails is under way, and says so. *)
LEMMA FailKept ==
    ASSUME Meant, pc \in [Execution -> Stage], NEW e \in Execution, pc[e] \in Running, Fail(e)
    PROVE  Kept
  <1>1. pc'[e] = "failing" /\ e \in Underway
    BY DEF Fail, Underway
  <1>2. part' = part \/ e[1] \in discardRequested
    BY DEF Fail, Meant
  <1>. QED BY <1>1, <1>2 DEF Kept

LEMMA KeptStep == Meant /\ pc \in [Execution -> Stage] /\ [Next]_vars => Kept
  <1>. SUFFICES ASSUME Meant, pc \in [Execution -> Stage], [Next]_vars PROVE Kept
    OBVIOUS
  <1>. USE DEF diskVars
  <1>1. CASE UNCHANGED vars
    BY <1>1 DEF vars, Kept
  <1>2. CASE Browser \/ Queue \/ Heartbeat \/ World \/ Reap
    BY <1>2 DEF Browser, Enqueue, Pause, Cancel, Queue, PollIdle, Claim, Deliver,
                ResponseClosed, Heartbeat, BeatSend, BeatReceive, BeatReturn, World,
                Outage, Crash, Reconnect, Restart, Tick, Reap, Kept
  <1>3. ASSUME NEW e \in Execution, Transfer(e) \/ BrokenStream(e) PROVE Kept
    <2>1. pc[e] \in Running
      BY <1>3 DEF Transfer, BrokenStream, Fetched, Write, Finish, AbortSeen, Hash, At,
                  Running, Stage
    <2>2. CASE Fail(e)
      BY <2>1, <2>2, FailKept
    <2>3. CASE ~Fail(e)
      BY <1>3, <2>3 DEF Transfer, BrokenStream, Fetched, Write, Finish, AbortSeen, Hash,
                        Open, Kept
    <2>. QED BY <2>2, <2>3
  <1>4. ASSUME NEW e \in Execution, Report(e) PROVE Kept
    <2>1. pc[e] \in Running
      BY <1>4 DEF Report, CallOk, CallGivenUp, RejectReported, FailReported, Complete,
                  CompleteGivenUp, At, Running, Stage
    <2>2. CASE CallGivenUp(e) \/ RejectReported(e)
      BY <2>1, <2>2, FailKept DEF CallGivenUp, GivenUpFails, RejectReported
    <2>3. CASE CallOk(e) \/ FailReported(e) \/ Complete(e) \/ CompleteGivenUp(e)
      BY <2>3 DEF CallOk, FailReported, Complete, CompleteGivenUp, Dismiss, Kept
    <2>. QED BY <1>4, <2>2, <2>3 DEF Report
  <1>. QED BY <1>1, <1>2, <1>3, <1>4 DEF Next

(* A .part is only ever deleted by an execution of a cancelled job: not by *)
(* a pause, a crash, a failure, a stale heartbeat or another download of   *)
(* the file (worker/src/index.ts requestDownloadDiscard and the catch      *)
(* block of executeDownloadModelJob).                                      *)
THEOREM PartialsAreKept == Spec => OnlyCancelDeletes
  <1>1. Init => Meant
    BY DEF Init, Meant
  <1>2. TypeOK => pc \in [Execution -> Stage]
    BY DEF TypeOK
  <1>3. TypeOK /\ Meant /\ [Next]_vars => [Kept]_vars
    BY <1>2, KeptStep
  <1>. QED BY <1>1, <1>3, MeantStep, TypeCorrect, PTL DEF Spec, OnlyCancelDeletes, Kept

-----------------------------------------------------------------------------
(* Every execution is a new one.                                           *)

Waiting == {"absent", "pending"}

(* The attempts of a job are ahead of its executions while it waits, so     *)
(* that what a claim response carries has never run.                       *)
Fresh ==
    /\ \A e \in Execution : pc[e] # "none" =>
          /\ e[2] <= attempts[e[1]]
          /\ jobStatus[e[1]] \in Waiting => e[2] < attempts[e[1]]
    /\ sending # None =>
          /\ pc[sending] = "none"
          /\ sending[2] <= attempts[sending[1]]
          /\ jobStatus[sending[1]] = "claimed" => sending[2] = attempts[sending[1]]
          /\ jobStatus[sending[1]] \in Waiting => sending[2] < attempts[sending[1]]

LEMMA Pairs ==
    ASSUME NEW e \in Execution
    PROVE  e[1] \in Job /\ e[2] \in 0..MaxAttempts /\ e = <<e[1], e[2]>>
  BY DEF Execution

(* Steps that hand nothing out and put no job back. *)
NothingNew ==
    /\ attempts' = attempts /\ sending' \in {sending, None}
    /\ \A e \in Execution : pc'[e] = "none" <=> pc[e] = "none"
    /\ \A j \in Job : /\ jobStatus'[j] \in Waiting => jobStatus[j] \in Waiting
                      /\ jobStatus'[j] = "claimed" => jobStatus[j] = "claimed"

LEMMA FreshKept == ASSUME TypeOK, Fresh, NothingNew PROVE Fresh'
  <1>1. sending # None => sending \in Execution
    BY DEF TypeOK
  <1>. QED BY <1>1, Pairs DEF Fresh, NothingNew

LEMMA ReportedNew ==
    ASSUME TypeOK, NEW e \in Execution, jobStatus' = JobReported(e)
    PROVE  \A j \in Job : /\ jobStatus'[j] \in Waiting => jobStatus[j] \in Waiting
                          /\ jobStatus'[j] = "claimed" => jobStatus[j] = "claimed"
  BY DEF TypeOK, JobReported, Waiting

LEMMA SeverNew ==
    ASSUME TypeOK, Sever
    PROVE  /\ attempts' = attempts /\ sending' = None
           /\ \A j \in Job : /\ jobStatus'[j] \in Waiting => jobStatus[j] \in Waiting
                             /\ jobStatus'[j] = "claimed" => jobStatus[j] = "claimed"
  <1>1. jobStatus' = jobStatus \/ \E e \in Execution : jobStatus' = JobReported(e)
    BY DEF Sever, Underway
  <1>. QED BY <1>1, ReportedNew DEF Sever

(* What an execution under way does to the stages. *)
LEMMA StageStep ==
    ASSUME TypeOK, NEW e \in Execution, Transfer(e) \/ BrokenStream(e) \/ Report(e)
    PROVE  /\ pc[e] \in Running /\ attempts' = attempts /\ sending' = sending
           /\ pc' = pc \/ \E s \in Stage \ {"none"} : pc' = [pc EXCEPT ![e] = s]
  <1>0. pc[e] \in Running
    BY DEF Transfer, BrokenStream, Report, Fetched, Write, Finish, AbortSeen, Hash, CallOk,
           CallGivenUp, RejectReported, FailReported, Complete, CompleteGivenUp, At, Running, Stage
  <1>1. CASE Fail(e)
    BY <1>0, <1>1 DEF Fail, Stage, dbVars, netVars
  <1>2. CASE Transfer(e) /\ ~Fail(e)
    <2>1. CASE Fetched(e)
      <3>1. Open(e, 200) \/ Open(e, 206)
        BY <1>2, <2>1 DEF Fetched
      <3>2. ASSUME NEW s, Open(e, s)
            PROVE  /\ attempts' = attempts /\ sending' = sending
                   /\ pc' = [pc EXCEPT ![e] = "streaming"]
        BY <3>2 DEF Open, dbVars, netVars
      <3>. QED BY <1>0, <3>1, <3>2 DEF Stage
    <2>2. CASE Write(e)
      BY <1>0, <2>2 DEF Write, dbVars, netVars
    <2>3. CASE Finish(e)
      BY <1>0, <1>2, <2>3 DEF Finish, Stage, dbVars, netVars
    <2>4. CASE AbortSeen(e)
      BY <1>2, <2>4 DEF AbortSeen
    <2>5. CASE Hash(e)
      BY <1>0, <2>5 DEF Hash, Stage, dbVars, netVars
    <2>. QED BY <1>2, <2>1, <2>2, <2>3, <2>4, <2>5 DEF Transfer
  <1>3. CASE Report(e) /\ ~Fail(e)
    BY <1>0, <1>3 DEF Report, CallOk, CallGivenUp, GivenUpFails, RejectReported, FailReported,
                      Complete, CompleteGivenUp, Dismiss, Stage, dbVars, netVars
  <1>. QED BY <1>1, <1>2, <1>3 DEF BrokenStream

LEMMA ExecutionNew ==
    ASSUME TypeOK, NEW e \in Execution, Transfer(e) \/ BrokenStream(e) \/ Report(e)
    PROVE  NothingNew
  <1>1. \A d \in Execution : pc'[d] = "none" <=> pc[d] = "none"
    BY StageStep DEF TypeOK, Running
  <1>2. jobStatus' = jobStatus \/ jobStatus' = JobReported(e)
    BY DEF Transfer, BrokenStream, Report, Fetched, Open, Fail, Write, Finish, AbortSeen, Hash,
           CallOk, CallGivenUp, GivenUpFails, RejectReported, FailReported, Complete,
           CompleteGivenUp, Dismiss, dbVars
  <1>3. \A j \in Job : /\ jobStatus'[j] \in Waiting => jobStatus[j] \in Waiting
                       /\ jobStatus'[j] = "claimed" => jobStatus[j] = "claimed"
    BY <1>2, ReportedNew
  <1>. QED BY <1>1, <1>3, StageStep DEF NothingNew

LEMMA FreshStep == TypeOK /\ Fresh /\ [Next]_vars => Fresh'
  <1>. SUFFICES ASSUME TypeOK, Fresh, [Next]_vars PROVE Fresh'
    OBVIOUS
  <1>0. /\ pc \in [Execution -> Stage] /\ jobStatus \in [Job -> JobStatus]
        /\ attempts \in [Job -> 0..MaxAttempts] /\ sending \in Execution \cup {None}
    BY DEF TypeOK
  <1>. USE DEF dbVars, netVars, execVars
  <1>1. CASE Browser \/ PollIdle \/ Heartbeat \/ Reconnect \/ Restart \/ Tick \/ UNCHANGED vars
    <2>1. NothingNew
      BY <1>0, <1>1 DEF Browser, Enqueue, Pause, Cancel, PollIdle, Heartbeat, BeatSend,
            BeatReceive, BeatReturn, Reconnect, Restart, Tick, vars, NothingNew, Waiting
    <2>. QED BY <2>1, FreshKept
  <1>2. ASSUME NEW j \in Job, Claim(j) PROVE Fresh'
    <2>1. /\ jobStatus[j] = "pending" /\ jobStatus' = [jobStatus EXCEPT ![j] = "claimed"]
          /\ sending' = <<j, attempts[j]>> /\ UNCHANGED <<pc, attempts>>
      BY <1>2 DEF Claim, Claimable
    <2>2. <<j, attempts[j]>> \in Execution /\ attempts[j] \in Nat
      BY <1>0, AttemptsAssumption DEF Execution
    <2>3. pc[<<j, attempts[j]>>] = "none"
      BY <2>1, <2>2 DEF Fresh, Waiting
    <2>. QED BY <1>0, <2>1, <2>2, <2>3, Pairs DEF Fresh, Waiting
  <1>3. CASE Deliver
    <2>1. /\ sending \in Execution /\ sending' = None /\ UNCHANGED <<jobStatus, attempts>>
          /\ \A e \in Execution : e # sending => pc'[e] = pc[e]
      BY <1>0, <1>3 DEF Deliver
    <2>. QED BY <2>1, NoneAssumption DEF Fresh
  <1>4. CASE ResponseClosed
    <2>. DEFINE j == sending[1]
    <2>1. /\ sending \in Execution /\ sending' = None /\ UNCHANGED <<pc, attempts>>
          /\ j \in Job
      BY <1>0, <1>4, Pairs DEF ResponseClosed
    <2>2. CASE jobStatus[j] # "claimed"
      <3>1. jobStatus' = jobStatus
        BY <1>4, <2>2 DEF ResponseClosed
      <3>. QED BY <2>1, <3>1 DEF Fresh
    <2>3. CASE jobStatus[j] = "claimed"
      <3>1. jobStatus' = [jobStatus EXCEPT ![j] = "pending"]
        BY <1>4, <2>3 DEF ResponseClosed
      <3>2. sending = <<j, attempts[j]>> /\ pc[sending] = "none"
        <4>1. sending # None /\ sending = <<j, sending[2]>>
          BY <2>1, NoneAssumption, Pairs
        <4>2. sending[2] = attempts[j] /\ pc[sending] = "none"
          BY <2>3, <4>1 DEF Fresh
        <4>. QED BY <4>1, <4>2
      <3>3. ASSUME NEW e \in Execution, pc[e] # "none", e[1] = j PROVE e[2] < attempts[j]
        <4>1. e[2] <= attempts[j] /\ e = <<j, e[2]>>
          BY <3>3, Pairs DEF Fresh
        <4>2. e[2] # attempts[j]
          BY <3>2, <3>3, <4>1
        <4>. QED BY <1>0, <2>1, <4>1, <4>2, Pairs, AttemptsAssumption
      <3>4. \A e \in Execution : pc[e] # "none" /\ e[1] # j => jobStatus'[e[1]] = jobStatus[e[1]]
        BY <1>0, <3>1, Pairs
      <3>. QED BY <2>1, <3>3, <3>4 DEF Fresh
    <2>. QED BY <2>2, <2>3
  <1>5. CASE Reap
    <2>1. UNCHANGED <<pc, sending>>
      BY <1>5 DEF Reap
    <2>2. \A j \in Job :
             \/ attempts'[j] = attempts[j] /\ jobStatus'[j] = jobStatus[j]
             \/ attempts'[j] >= attempts[j] /\ jobStatus'[j] = "failed"
             \/ attempts'[j] = attempts[j] + 1 /\ jobStatus'[j] = "pending"
      BY <1>0, <1>5 DEF Reap
    <2>3. \A j \in Job : attempts[j] \in Nat /\ attempts'[j] \in Nat
      BY <1>0, <2>2, <1>5, AttemptsAssumption DEF Reap
    <2>. QED BY <1>0, <2>1, <2>2, <2>3, Pairs, AttemptsAssumption DEF Fresh, Waiting
  <1>6. CASE Outage \/ Crash
    <2>1. \A e \in Execution : pc'[e] = "none" <=> pc[e] = "none"
      BY <1>0, <1>6 DEF Outage, Crash, Running, Stage
    <2>2. Sever \/ UNCHANGED <<attempts, sending, jobStatus>>
      BY <1>6 DEF Outage, Crash
    <2>3. NothingNew
      BY <2>1, <2>2, SeverNew DEF NothingNew
    <2>. QED BY <2>3, FreshKept
  <1>7. ASSUME NEW e \in Execution, Transfer(e) \/ BrokenStream(e) \/ Report(e) PROVE Fresh'
    BY <1>7, ExecutionNew, FreshKept
  <1>. QED BY <1>1, <1>2, <1>3, <1>4, <1>5, <1>6, <1>7 DEF Next, Queue, World

-----------------------------------------------------------------------------
(* The pool.                                                               *)

(* The jobs that take a slot: of the executions in the pool, and of the one *)
(* a claim response is on its way with.                                    *)
Taken == pool \cup {j \in Job : sending # None /\ j = sending[1]}

Room == Cardinality(Taken) <= MaxDownloads

LEMMA TakenFinite == ASSUME TypeOK PROVE IsFiniteSet(Taken) /\ Taken \subseteq Job /\ IsFiniteSet(Job)
  <1>1. Taken \subseteq Job
    BY DEF TypeOK, Taken
  <1>2. IsFiniteSet(Job)
    BY FS_Interval, SizesAssumption DEF Job
  <1>. QED BY <1>1, <1>2, FS_Subset

(* A step that takes no slot. *)
LEMMA RoomKept == ASSUME TypeOK, Room, Taken' \subseteq Taken PROVE Room'
  <1>1. IsFiniteSet(Taken') /\ Cardinality(Taken') <= Cardinality(Taken)
    BY TakenFinite, FS_Subset
  <1>2. Cardinality(Taken') \in Nat /\ Cardinality(Taken) \in Nat
    BY <1>1, TakenFinite, FS_CardinalityType
  <1>3. Cardinality(Taken') <= MaxDownloads
    BY <1>1, <1>2, PoolAssumption DEF Room
  <1>. QED BY <1>3 DEF Room

LEMMA ClaimRoom == ASSUME TypeOK, NEW j \in Job, Claim(j) PROVE Room'
  <1>1. Taken' \subseteq pool \cup {j}
    BY DEF Claim, mapVars, Taken
  <1>2. IsFiniteSet(pool) /\ Cardinality(pool) \in Nat
    BY TakenFinite, FS_Subset, FS_CardinalityType DEF TypeOK
  <1>3. IsFiniteSet(pool \cup {j}) /\ Cardinality(pool \cup {j}) <= Cardinality(pool) + 1
    BY <1>2, FS_AddElement
  <1>4. IsFiniteSet(Taken') /\ Cardinality(Taken') <= Cardinality(pool \cup {j})
    BY <1>1, <1>3, FS_Subset
  <1>5. Cardinality(Taken') \in Nat /\ Cardinality(pool \cup {j}) \in Nat
    BY <1>3, <1>4, FS_CardinalityType
  <1>6. Cardinality(pool) < MaxDownloads
    BY DEF Claim, CanPoll
  <1>7. Cardinality(Taken') <= MaxDownloads
    BY <1>2, <1>3, <1>4, <1>5, <1>6, PoolAssumption
  <1>. QED BY <1>7 DEF Room

LEMMA RoomStep == TypeOK /\ Room /\ [Next]_vars => Room'
  <1>. SUFFICES ASSUME TypeOK, Room, [Next]_vars PROVE Room'
    OBVIOUS
  <1>. USE DEF netVars, mapVars
  <1>1. ASSUME pool' \subseteq pool, sending' \in {sending, None} PROVE Room'
    <2>1. Taken' \subseteq Taken
      BY <1>1 DEF Taken
    <2>. QED BY <2>1, RoomKept
  <1>2. CASE Browser \/ PollIdle \/ ResponseClosed \/ Heartbeat \/ Reap \/ World \/ UNCHANGED vars
    BY <1>1, <1>2 DEF Browser, Enqueue, Pause, Cancel, PollIdle, ResponseClosed, Heartbeat,
          BeatSend, BeatReceive, BeatReturn, Reap, World, Outage, Reconnect, Crash, Restart,
          Tick, Sever, vars, dbVars
  <1>3. CASE Deliver
    <2>1. Taken' \subseteq Taken
      BY <1>3 DEF Deliver, Taken, TypeOK, Execution
    <2>. QED BY <2>1, RoomKept
  <1>4. ASSUME NEW e \in Execution, Transfer(e) \/ BrokenStream(e) \/ Report(e) PROVE Room'
    <2>1. pool' \subseteq pool
      BY <1>4 DEF Transfer, BrokenStream, Report, Fetched, Open, Fail, Write, Finish, AbortSeen,
            Hash, CallOk, CallGivenUp, GivenUpFails, RejectReported, FailReported, Complete,
            CompleteGivenUp, Dismiss
    <2>. QED BY <1>1, <1>4, <2>1, StageStep
  <1>. QED BY <1>2, <1>3, <1>4, ClaimRoom DEF Next, Queue

(* Executions that started stay started, and the ended ones ended. *)
Lasting ==
    \A e \in Execution : /\ pc[e] # "none" => pc'[e] # "none"
                         /\ pc[e] = "over" => pc'[e] = "over"

LEMMA HeldKept ==
    ASSUME TypeOK, DownloadsAreHeld, Lasting, Underway' \subseteq Underway,
           UNCHANGED <<pool, reports, controller>>
    PROVE  DownloadsAreHeld'
  <1>1. ASSUME NEW e \in Execution
        PROVE  /\ Repeats(e) \subseteq Repeats(e)'
               /\ \A d \in Repeats(e) : pc[d] = "over" => pc'[d] = "over"
    BY DEF Repeats, Lasting
  <1>2. \A e \in Underway' : e \in Execution
    BY DEF Underway
  <1>3. ASSUME NEW e \in Underway'
        PROVE  /\ e[1] \in pool \cap reports \/ \E d \in Repeats(e)' : pc'[d] = "over"
               /\ controller[e[1]] = e \/ Repeats(e)' # {}
    BY <1>1, <1>2, <1>3 DEF DownloadsAreHeld
  <1>. QED BY <1>3 DEF DownloadsAreHeld

LEMMA DeliverHeld ==
    ASSUME TypeOK, Fresh, DownloadsAreHeld, Deliver
    PROVE  DownloadsAreHeld'
  <1>1. /\ sending \in Execution /\ sending # None /\ sending[1] \in Job
        /\ pc[sending] = "none" /\ pc'[sending] \in {"hashing", "fetching"}
        /\ \A d \in Execution : d # sending => pc'[d] = pc[d]
    BY Pairs DEF TypeOK, Fresh, Deliver
  <1>2. /\ reports' = reports \cup {sending[1]} /\ pool' = pool \cup {sending[1]}
        /\ controller' = [controller EXCEPT ![sending[1]] = sending]
    BY DEF Deliver
  <1>3. \A e \in Underway' : e \in Execution /\ (e \in Underway \/ e = sending)
    BY <1>1 DEF Underway
  <1>4. ASSUME NEW e \in Execution
        PROVE  /\ Repeats(e) \subseteq Repeats(e)'
               /\ \A d \in Repeats(e) : pc[d] = "over" => pc'[d] = "over"
               /\ e # sending /\ e[1] = sending[1] => sending \in Repeats(e)'
    BY <1>1 DEF Repeats
  <1>5. controller'[sending[1]] = sending
        /\ \A j \in Job : j # sending[1] => controller'[j] = controller[j]
    BY <1>1, <1>2 DEF TypeOK
  <1>6. ASSUME NEW e \in Underway'
        PROVE  /\ e[1] \in pool' \cap reports' \/ \E d \in Repeats(e)' : pc'[d] = "over"
               /\ controller'[e[1]] = e \/ Repeats(e)' # {}
    <2>1. e \in Execution /\ e[1] \in Job
      BY <1>3, Pairs
    <2>2. CASE e = sending
      BY <1>2, <1>5, <2>2
    <2>3. CASE e # sending
      <3>1. /\ e[1] \in pool \cap reports \/ \E d \in Repeats(e) : pc[d] = "over"
            /\ controller[e[1]] = e \/ Repeats(e) # {}
        BY <1>3, <2>3 DEF DownloadsAreHeld
      <3>. QED BY <1>2, <1>4, <1>5, <2>1, <2>3, <3>1
    <2>. QED BY <2>2, <2>3
  <1>. QED BY <1>6 DEF DownloadsAreHeld

LEMMA DismissHeld ==
    ASSUME TypeOK, DownloadsAreHeld, NEW e \in Execution, pc[e] \in Running, Dismiss(e)
    PROVE  DownloadsAreHeld'
  <1>1. /\ pc'[e] = "over" /\ \A d \in Execution : d # e => pc'[d] = pc[d]
        /\ pool' = pool \ {e[1]} /\ reports' = reports \ {e[1]}
        /\ controller' = [controller EXCEPT ![e[1]] = None]
    BY DEF Dismiss, TypeOK
  <1>2. \A d \in Underway' : d \in Execution /\ d \in Underway /\ d # e
    BY <1>1 DEF Underway, Running
  <1>3. ASSUME NEW d \in Execution
        PROVE  /\ Repeats(d) \subseteq Repeats(d)'
               /\ \A x \in Repeats(d) : pc[x] = "over" => pc'[x] = "over"
               /\ d # e /\ d[1] = e[1] => e \in Repeats(d)'
    BY <1>1 DEF Repeats, Running
  <1>4. ASSUME NEW d \in Underway'
        PROVE  /\ d[1] \in pool' \cap reports' \/ \E x \in Repeats(d)' : pc'[x] = "over"
               /\ controller'[d[1]] = d \/ Repeats(d)' # {}
    <2>1. d \in Execution /\ d[1] \in Job /\ d # e
      BY <1>2, Pairs
    <2>2. CASE d[1] = e[1]
      BY <1>1, <1>3, <2>1, <2>2
    <2>3. CASE d[1] # e[1]
      <3>1. /\ d[1] \in pool \cap reports \/ \E x \in Repeats(d) : pc[x] = "over"
            /\ controller[d[1]] = d \/ Repeats(d) # {}
        BY <1>2 DEF DownloadsAreHeld
      <3>2. controller'[d[1]] = controller[d[1]]
        BY <1>1, <2>1, <2>3 DEF TypeOK
      <3>. QED BY <1>1, <1>3, <2>1, <2>3, <3>1, <3>2
    <2>. QED BY <2>2, <2>3
  <1>. QED BY <1>4 DEF DownloadsAreHeld

LEMMA HeldStep == TypeOK /\ Fresh /\ DownloadsAreHeld /\ [Next]_vars => DownloadsAreHeld'
  <1>. SUFFICES ASSUME TypeOK, Fresh, DownloadsAreHeld, [Next]_vars PROVE DownloadsAreHeld'
    OBVIOUS
  <1>. USE DEF mapVars, execVars
  <1>1. ASSUME UNCHANGED <<pc, pool, reports, controller>> PROVE DownloadsAreHeld'
    BY <1>1 DEF DownloadsAreHeld, Underway, Repeats
  <1>2. CASE Browser \/ PollIdle \/ ResponseClosed \/ (\E j \in Job : Claim(j)) \/ Heartbeat
             \/ Reap \/ UNCHANGED vars
    BY <1>1, <1>2 DEF Browser, Enqueue, Pause, Cancel, PollIdle, ResponseClosed, Claim,
          Heartbeat, BeatSend, BeatReceive, BeatReturn, Reap, vars
  <1>3. CASE Outage \/ Reconnect \/ Restart \/ Tick
    BY <1>1, <1>3 DEF Outage, Reconnect, Restart, Tick
  <1>4. CASE Crash
    <2>1. Underway' = {}
      BY <1>4 DEF Crash, Underway, Running, Stage, TypeOK
    <2>. QED BY <2>1 DEF DownloadsAreHeld
  <1>5. ASSUME NEW e \in Execution, Transfer(e) \/ BrokenStream(e) \/ Report(e)
        PROVE  DownloadsAreHeld'
    <2>0. pc[e] \in Running
      BY <1>5, StageStep
    <2>1. CASE Complete(e) \/ CompleteGivenUp(e)
      BY <2>0, <2>1, DismissHeld DEF Complete, CompleteGivenUp
    <2>2. CASE ~(Complete(e) \/ CompleteGivenUp(e))
      <3>1. UNCHANGED <<pool, reports, controller>>
        BY <1>5, <2>2 DEF Transfer, BrokenStream, Report, Fetched, Open, Fail, Write, Finish,
              AbortSeen, Hash, CallOk, CallGivenUp, GivenUpFails, RejectReported, FailReported
      <3>2. \A d \in Execution : d # e => pc'[d] = pc[d]
        BY <1>5, StageStep DEF TypeOK
      <3>3. pc'[e] # "none"
        BY <1>5, <2>0, StageStep DEF TypeOK, Running
      <3>4. Lasting /\ Underway' \subseteq Underway
        BY <2>0, <3>2, <3>3 DEF Lasting, Underway, Running
      <3>. QED BY <3>1, <3>4, HeldKept
    <2>. QED BY <2>1, <2>2
  <1>. QED BY <1>2, <1>3, <1>4, <1>5, DeliverHeld DEF Next, Queue, World

(* A download that is under way takes a slot, is renewed and can be stopped *)
(* to its end, whatever pauses, cancels, outages and other downloads come  *)
(* between, unless its job was handed out a second time                    *)
(* (worker/src/index.ts runDownloadJob, activeDownloadJobs).                *)
THEOREM HeldToTheEnd == Spec => []DownloadsAreHeld
  <1>1. Init => Fresh /\ DownloadsAreHeld
    BY NoneAssumption DEF Init, Fresh, DownloadsAreHeld, Underway, Running
  <1>. QED BY <1>1, FreshStep, HeldStep, TypeCorrect, PTL DEF Spec

LEMMA ExecutionFinite == IsFiniteSet(Execution)
  <1>1. IsFiniteSet(Job) /\ IsFiniteSet(0..MaxAttempts)
    BY FS_Interval, SizesAssumption, AttemptsAssumption DEF Job
  <1>. QED BY <1>1, FS_Product DEF Execution

(* Every execution under way has a slot of its own, or a second execution  *)
(* of a job to blame: itself, or the one that gave its slot away.          *)
LEMMA SlotOrRepeat ==
    ASSUME TypeOK, DownloadsAreHeld, Room
    PROVE  PoolHoldsLimit
  <1>. DEFINE Slots == {e \in Execution : e[2] = 0 /\ e[1] \in pool}
              Own == {e \in Underway : e[2] > 0 \/ e[1] \in pool}
              Blamed(e) == CHOOSE d \in Repeats(e) : pc[d] = "over"
              f == [e \in Underway |-> IF e \in Own THEN e ELSE Blamed(e)]
              g == [e \in Slots |-> e[1]]
  <1>1. ASSUME NEW e \in Underway
        PROVE  e \in Execution /\ e[2] \in Nat /\ pc[e] \notin {"none", "over"}
    BY Pairs, AttemptsAssumption DEF Underway, Running
  <1>2. ASSUME NEW e \in Underway, e \notin Own
        PROVE  /\ e[2] = 0 /\ Blamed(e) \in Execution /\ Blamed(e)[1] = e[1]
               /\ Blamed(e)[2] \in Nat /\ Blamed(e)[2] > 0 /\ pc[Blamed(e)] = "over"
    <2>1. e[2] = 0 /\ e[1] \notin pool
      BY <1>1, <1>2
    <2>2. \E d \in Repeats(e) : pc[d] = "over"
      BY <2>1 DEF DownloadsAreHeld
    <2>3. Blamed(e) \in Repeats(e) /\ pc[Blamed(e)] = "over"
      BY <2>2
    <2>. HIDE DEF Blamed
    <2>4. Blamed(e) \in Execution /\ Blamed(e) # e /\ Blamed(e)[1] = e[1]
      BY <2>3 DEF Repeats
    <2>5. Blamed(e)[2] \in Nat /\ Blamed(e)[2] # 0
      BY <1>1, <2>1, <2>4, Pairs, AttemptsAssumption
    <2>. QED BY <2>1, <2>3, <2>4, <2>5
  <1>3. f \in Injection(Underway, Slots \cup HandedOutAgain)
    <2>. HIDE DEF Blamed
    <2>1. ASSUME NEW e \in Underway PROVE f[e] \in Slots \cup HandedOutAgain
      BY <1>1, <1>2 DEF HandedOutAgain
    <2>2. ASSUME NEW d \in Underway, NEW e \in Underway, f[d] = f[e] PROVE d = e
      <3>1. CASE d \in Own /\ e \in Own
        BY <2>2, <3>1
      <3>2. CASE d \notin Own /\ e \notin Own
        BY <1>1, <1>2, <2>2, <3>2, Pairs
      <3>3. CASE d \in Own /\ e \notin Own
        BY <1>1, <1>2, <2>2, <3>3
      <3>4. CASE d \notin Own /\ e \in Own
        BY <1>1, <1>2, <2>2, <3>4
      <3>. QED BY <3>1, <3>2, <3>3, <3>4
    <2>3. f \in [Underway -> Slots \cup HandedOutAgain]
      BY <2>1
    <2>. HIDE DEF f
    <2>. QED BY <2>2, <2>3 DEF Injection, IsInjective
  <1>4. IsFiniteSet(Slots) /\ IsFiniteSet(HandedOutAgain) /\ IsFiniteSet(pool)
    <2>1. Slots \subseteq Execution /\ HandedOutAgain \subseteq Execution /\ pool \subseteq Taken
      BY DEF HandedOutAgain, Taken
    <2>. QED BY <2>1, ExecutionFinite, TakenFinite, FS_Subset
  <1>5. Cardinality(Slots) <= Cardinality(pool)
    <2>1. \A d, e \in Slots : g[d] = g[e] => d = e
      BY Pairs
    <2>2. g \in [Slots -> pool]
      OBVIOUS
    <2>. HIDE DEF g, Slots
    <2>3. g \in Injection(Slots, pool)
      BY <2>1, <2>2 DEF Injection, IsInjective
    <2>. QED BY <1>4, <2>3, FS_Injection
  <1>6. Cardinality(pool) <= Cardinality(Taken)
    BY TakenFinite, FS_Subset DEF Taken
  <1>. HIDE DEF Slots, f, Own, Blamed
  <1>7. /\ IsFiniteSet(Slots \cup HandedOutAgain)
        /\ Cardinality(Slots \cup HandedOutAgain)
              = Cardinality(Slots) + Cardinality(HandedOutAgain)
                - Cardinality(Slots \cap HandedOutAgain)
    BY <1>4, FS_Union
  <1>8. Cardinality(Underway) <= Cardinality(Slots \cup HandedOutAgain) /\ IsFiniteSet(Underway)
    BY <1>3, <1>7, FS_Injection
  <1>9. IsFiniteSet(Slots \cap HandedOutAgain)
    BY <1>4, FS_Subset
  <1>10. /\ Cardinality(Slots \cap HandedOutAgain) \in Nat /\ Cardinality(Slots) \in Nat
         /\ Cardinality(HandedOutAgain) \in Nat /\ Cardinality(pool) \in Nat
         /\ Cardinality(Taken) \in Nat /\ Cardinality(Underway) \in Nat
    BY <1>4, <1>8, <1>9, TakenFinite, FS_CardinalityType
  <1>11. Cardinality(Underway) <= MaxDownloads + Cardinality(HandedOutAgain)
    BY <1>5, <1>6, <1>7, <1>8, <1>10, PoolAssumption DEF Room
  <1>. QED BY <1>11 DEF PoolHoldsLimit

(* The worker runs no more downloads at a time than it has slots, except   *)
(* one for every time a job came back to it because its lease expired: the *)
(* pool is keyed by job id and holds two executions of a job as one, and   *)
(* the first to end takes the slot of both (worker/src/index.ts workerMain, *)
(* runDownloadJob).                                                        *)
THEOREM LimitIsKept == Spec => []PoolHoldsLimit
  <1>1. Init => Room
    <2>1. Init => Taken = {}
      BY DEF Init, Taken
    <2>2. Cardinality({}) = 0
      BY FS_EmptySet
    <2>. QED BY <2>1, <2>2, PoolAssumption DEF Room
  <1>. QED BY <1>1, RoomStep, SlotOrRepeat, HeldToTheEnd, TypeCorrect, PTL DEF Spec

-----------------------------------------------------------------------------
(* The file that gets the model's name.                                    *)

Moving == {"fetching", "streaming"}   \* the stages of Transferring
Ascending(c) == Len(c) <= Size /\ \A i \in 1..Len(c) : c[i] = i

(* Transfers that overlap are known to, and so is a .part they can have;    *)
(* one that is alone began before there was a model.                       *)
Apart ==
    /\ \A e \in shared : pc[e] # "none"
    /\ part # None => pc[part] # "none"
    /\ \A e \in Execution : pc[e] \in {"hashing", "calling", "rejecting"} => target # None
    /\ \A d, e \in Execution : pc[d] \in Moving /\ pc[e] \in Moving /\ d # e => e \in shared
    /\ \A e \in Execution : pc[e] \in Moving /\ e \in shared => part = None \/ part \in shared
    /\ \A e \in Execution : pc[e] \in Moving /\ e \notin shared => target = None
    /\ \A e \in Execution : pc[e] = "streaming" /\ e \in shared => file[e] \in shared

(* A transfer that is alone is at the end of the .part, and a .part that    *)
(* only such transfers wrote is a beginning of the file.                   *)
InOrder ==
    /\ \A e \in Execution : pc[e] = "fetching" /\ e \notin shared => pos[e] = Bytes(part)
    /\ \A e \in Execution : pc[e] = "streaming" /\ e \notin shared =>
          part # None /\ file[e] = part /\ pos[e] = Len(content[part])
    /\ part # None /\ part \notin shared => Ascending(content[part])
    /\ TargetIsRight

FileInv == Apart /\ InOrder

(* A transfer that ends, or an execution that is not transferring, leaves   *)
(* the others as they were; of the .part it deletes it was the only owner. *)
LEMMA StageChange ==
    ASSUME TypeOK, FileInv, NEW e \in Execution,
           pc[e] \in Running, pc'[e] \in Stage \ (Moving \cup {"none"}),
           \A d \in Execution : d # e => pc'[d] = pc[d] /\ file'[d] = file[d] /\ pos'[d] = pos[d],
           pc'[e] \in {"hashing", "calling", "rejecting"} => target # None,
           part' \in {part, None}, UNCHANGED <<content, target, shared>>,
           part' # part => pc[e] \in Moving \/ target # None
    PROVE  FileInv'
  <1>1. \A d \in Execution : pc'[d] \in Moving => d # e /\ pc[d] \in Moving
    BY DEF Moving
  <1>2. \A d \in Execution : pc'[d] \in Moving /\ d \notin shared => part' = part
    BY <1>1 DEF FileInv, Apart
  <1>3. Apart'
    <2>1. shared \subseteq Execution /\ (part # None => part \in Execution)
      BY DEF TypeOK
    <2>2. (\A d \in shared : pc'[d] # "none") /\ (part' # None => pc'[part'] # "none")
      BY <2>1 DEF FileInv, Apart
    <2>3. \A d \in Execution : pc'[d] \in {"hashing", "calling", "rejecting"} => target # None
      BY DEF FileInv, Apart
    <2>. QED BY <1>1, <2>2, <2>3 DEF FileInv, Apart, Moving
  <1>4. InOrder'
    <2>1. ASSUME NEW d \in Execution, pc'[d] = "fetching", d \notin shared
          PROVE  pos'[d] = Bytes(part)'
      <3>1. pos[d] = Bytes(part) /\ pos'[d] = pos[d] /\ part' = part
        BY <1>1, <1>2, <2>1 DEF FileInv, InOrder, Moving
      <3>. QED BY <3>1 DEF Bytes
    <2>2. ASSUME NEW d \in Execution, pc'[d] = "streaming", d \notin shared
          PROVE  part' # None /\ file'[d] = part' /\ pos'[d] = Len(content[part'])
      BY <1>1, <1>2, <2>2 DEF FileInv, InOrder, Moving
    <2>3. part' # None /\ part' \notin shared => Ascending(content[part'])
      BY DEF FileInv, InOrder
    <2>. QED BY <2>1, <2>2, <2>3 DEF FileInv, InOrder, TargetIsRight, Ascending
  <1>. QED BY <1>3, <1>4 DEF FileInv

LEMMA FailFile ==
    ASSUME TypeOK, FileInv, NEW e \in Execution, Fail(e),
           pc[e] \in Moving \cup {"calling", "rejecting"}
    PROVE  FileInv'
  <1>1. /\ pc'[e] = "failing"
        /\ \A d \in Execution : d # e => pc'[d] = pc[d] /\ file'[d] = file[d] /\ pos'[d] = pos[d]
        /\ part' \in {part, None} /\ UNCHANGED <<content, target, shared>>
    BY DEF Fail, TypeOK
  <1>2. pc[e] \in Running /\ (pc[e] \in Moving \/ target # None)
    BY DEF Moving, Running, Stage, FileInv, Apart
  <1>. QED BY <1>1, <1>2, StageChange DEF Stage, Moving

LEMMA BytesOfPart ==
    ASSUME TypeOK, part # None
    PROVE  part \in Execution /\ content[part] \in Seq(0..Size) /\ Bytes(part) = Len(content[part])
           /\ Len(content[part]) \in Nat
  BY DEF TypeOK, Bytes

LEMMA DeliverFile == ASSUME TypeOK, Fresh, FileInv, Deliver PROVE FileInv'
  <1>1. /\ sending \in Execution /\ sending # None /\ pc[sending] = "none"
        /\ UNCHANGED <<content, part, target, file>>
        /\ \A d \in Execution : d # sending => pc'[d] = pc[d] /\ pos'[d] = pos[d]
        /\ sending \notin shared
    BY DEF TypeOK, Fresh, Deliver, FileInv, Apart
  <1>2. Bytes(part)' = Bytes(part) /\ shared \subseteq Execution /\ part \in Execution \cup {None}
    BY <1>1 DEF Bytes, TypeOK
  <1>. USE DEF Moving
  <1>3. CASE target # None
    <2>1. pc'[sending] = "hashing" /\ shared' = shared
      BY <1>1, <1>3 DEF Deliver, TypeOK
    <2>2. Apart'
      BY <1>1, <1>2, <1>3, <2>1 DEF FileInv, Apart
    <2>3. InOrder'
      BY <1>1, <1>2, <2>1 DEF FileInv, InOrder, TargetIsRight, Ascending
    <2>. QED BY <2>2, <2>3 DEF FileInv
  <1>4. CASE target = None /\ Transferring = {}
    <2>1. /\ pc'[sending] = "fetching" /\ shared' = shared /\ pos'[sending] = Bytes(part)
          /\ \A d \in Execution : pc[d] \notin Moving
      BY <1>1, <1>4 DEF Deliver, TypeOK, Transferring
    <2>2. Apart'
      BY <1>1, <1>2, <1>4, <2>1 DEF FileInv, Apart
    <2>3. InOrder'
      BY <1>1, <1>2, <2>1 DEF FileInv, InOrder, TargetIsRight, Ascending
    <2>. QED BY <2>2, <2>3 DEF FileInv
  <1>5. CASE target = None /\ Transferring # {}
    <2>1. /\ pc'[sending] = "fetching"
          /\ shared' = shared \cup Transferring \cup ({sending, part} \ {None})
      BY <1>1, <1>5 DEF Deliver, TypeOK
    <2>2. \A d \in Execution : pc'[d] \in Moving => d \in shared'
      BY <1>1, <2>1 DEF Transferring
    <2>3. part # None => part \in shared'
      BY <2>1
    <2>4. ASSUME NEW d \in Execution, pc'[d] = "streaming" PROVE file[d] \in shared'
      <3>1. pc[d] = "streaming"
        BY <1>1, <2>1, <2>4
      <3>. QED BY <2>1, <2>3, <3>1 DEF FileInv, Apart, InOrder
    <2>5. \A d \in shared' : pc'[d] # "none"
      <3>1. ASSUME NEW d \in shared' PROVE d = sending \/ d = part \/ pc[d] # "none"
        BY <2>1, <3>1 DEF FileInv, Apart, Transferring
      <3>2. part # None => pc[part] # "none"
        BY DEF FileInv, Apart
      <3>3. shared' \subseteq Execution /\ pc'[sending] # "none"
        BY <1>1, <1>2, <2>1 DEF Transferring
      <3>4. ASSUME NEW d \in shared' PROVE pc'[d] # "none"
        <4>1. CASE d = sending
          BY <3>3, <4>1
        <4>2. CASE d # sending
          <5>1. d = part => part # None
            BY <1>2, <3>3, NoneAssumption
          <5>. QED BY <1>1, <3>1, <3>2, <3>3, <4>2, <5>1
        <4>. QED BY <4>1, <4>2
      <3>. QED BY <3>4
    <2>6. Apart'
      BY <1>1, <1>5, <2>1, <2>2, <2>3, <2>4, <2>5 DEF FileInv, Apart
    <2>7. InOrder'
      BY <1>1, <1>5, <2>2, <2>3 DEF InOrder, TargetIsRight
    <2>. QED BY <2>6, <2>7 DEF FileInv
  <1>. QED BY <1>3, <1>4, <1>5

(* Whoever else transfers while e does is shared, and e with it. *)
LEMMA Company ==
    ASSUME FileInv, NEW e \in Execution, pc[e] \in Moving
    PROVE  \A d \in Execution : pc[d] \in Moving /\ d # e => d \in shared /\ e \in shared
  BY DEF FileInv, Apart

LEMMA OpenFile ==
    ASSUME TypeOK, FileInv, NEW e \in Execution, NEW status \in {200, 206},
           pc[e] = "fetching", Open(e, status),
           status = 206 => pos[e] \in 1..(Size - 1)
    PROVE  FileInv'
  <1>. DEFINE f == IF part = None THEN e ELSE part
  <1>. USE DEF Moving
  <1>0. content \in [Execution -> Seq(0..Size)] /\ f \in Execution /\ f # None
        /\ pos \in [Execution -> Nat] /\ pc \in [Execution -> Stage]
        /\ file \in [Execution -> Execution \cup {None}] /\ shared \subseteq Execution
    BY NoneAssumption DEF TypeOK
  <1>1. \A d \in Execution : pc[d] \in Moving /\ d # e => d \in shared /\ e \in shared
    BY Company
  <1>2. /\ pc'[e] = "streaming" /\ \A d \in Execution : d # e => pc'[d] = pc[d]
        /\ file'[e] = f /\ \A d \in Execution : d # e => file'[d] = file[d] /\ pos'[d] = pos[d]
        /\ part' = f /\ target' = target /\ shared' = shared
    BY <1>0 DEF Open
  <1>3. content' \in {content, [content EXCEPT ![f] = <<>>]}
    BY DEF Open
  <1>4. e \in shared => f \in shared
    BY DEF FileInv, Apart
  <1>5. pc'[f] # "none"
    BY <1>0, <1>2 DEF FileInv, Apart
  <1>6. Apart'
    <2>1. \A d \in shared : pc'[d] # "none"
      BY <1>0, <1>2 DEF FileInv, Apart
    <2>2. \A d \in Execution : (pc'[d] \in Moving /\ d \in shared) => f \in shared
      BY <1>1, <1>2, <1>4
    <2>. HIDE DEF f
    <2>. QED BY <1>1, <1>2, <1>4, <1>5, <2>1, <2>2 DEF FileInv, Apart
  <1>7. CASE e \in shared
    <2>1. f \in shared
      BY <1>4, <1>7
    <2>2. target # None /\ target \notin shared => content'[target] = content[target]
      BY <1>0, <1>3, <2>1 DEF TypeOK
    <2>3. \A d \in Execution : pc'[d] \in Moving => d \in shared
      BY <1>1, <1>2, <1>7
    <2>4. InOrder'
      BY <1>2, <2>1, <2>2, <2>3 DEF FileInv, InOrder, TargetIsRight
    <2>. QED BY <1>6, <2>4 DEF FileInv
  <1>8. CASE e \notin shared
    <2>1. target = None /\ pos[e] = Bytes(part) /\ \A d \in Execution : pc[d] \in Moving => d = e
      BY <1>1, <1>8 DEF FileInv, Apart, InOrder
    <2>2. pos'[e] = Len(content'[f]) /\ (f \notin shared => Ascending(content'[f]))
      <3>1. CASE status = 206
        <4>1. pos[e] = Bytes(part) /\ pos[e] # 0
          BY <2>1, <3>1, SizesAssumption
        <4>2. part # None
          BY <4>1 DEF Bytes
        <4>3. content' = content /\ pos' = pos
          BY <3>1, <4>2 DEF Open, Appends
        <4>. QED BY <4>1, <4>2, <4>3, BytesOfPart DEF FileInv, InOrder
      <3>2. CASE status = 200
        <4>1. content' = [content EXCEPT ![f] = <<>>] /\ pos' = [pos EXCEPT ![e] = 0]
          BY <3>2 DEF Open, Appends
        <4>2. content'[f] = <<>> /\ pos'[e] = 0
          BY <1>0, <4>1
        <4>. QED BY <4>2, SizesAssumption DEF Ascending
      <3>. QED BY <3>1, <3>2
    <2>3. \A d \in Execution : pc'[d] \in Moving => d = e
      BY <1>2, <2>1
    <2>. HIDE DEF f
    <2>4. InOrder'
      BY <1>0, <1>2, <2>1, <2>2, <2>3 DEF InOrder, TargetIsRight
    <2>. QED BY <1>6, <2>4 DEF FileInv
  <1>. QED BY <1>7, <1>8

(* What a write at the end of a file makes of it. *)
LEMMA Extended ==
    ASSUME NEW c \in Seq(0..Size), Len(c) < Size
    PROVE  \A x \in {Append(c, Len(c) + 1), Written(c, Len(c), Len(c) + 1)} :
              Len(x) = Len(c) + 1 /\ (Ascending(c) => Ascending(x))
  <1>. DEFINE n == Len(c)
  <1>0. n \in Nat /\ n + 1 \in Nat
    OBVIOUS
  <1>1. /\ Len(Append(c, n + 1)) = n + 1
        /\ \A i \in 1..(n + 1) : Append(c, n + 1)[i] = IF i = n + 1 THEN n + 1 ELSE c[i]
    OBVIOUS
  <1>. DEFINE w == Written(c, n, n + 1)
  <1>2. w = [i \in 1..(n + 1) |-> IF i = n + 1 THEN n + 1 ELSE c[i]]
    BY <1>0 DEF Written
  <1>3. Len(w) = n + 1
    <2>1. DOMAIN w = 1..(n + 1) /\ w \in Seq(0..Size)
      <3>1. \A i \in 1..(n + 1) : (IF i = n + 1 THEN n + 1 ELSE c[i]) \in 0..Size
        BY <1>0, SizesAssumption
      <3>2. w \in [1..(n + 1) -> 0..Size]
        BY <1>2, <3>1
      <3>. HIDE DEF w, n
      <3>. QED BY <1>0, <3>2, SeqDef
    <2>. HIDE DEF w, n
    <2>. QED BY <1>0, <2>1, LenProperties
  <1>4. \A i \in 1..(n + 1) : w[i] = IF i = n + 1 THEN n + 1 ELSE c[i]
    BY <1>2
  <1>5. ASSUME NEW x, Len(x) = n + 1,
               \A i \in 1..(n + 1) : x[i] = IF i = n + 1 THEN n + 1 ELSE c[i]
        PROVE  Ascending(c) => Ascending(x)
    BY <1>0, <1>5, SizesAssumption DEF Ascending
  <1>. HIDE DEF w
  <1>. QED BY <1>1, <1>3, <1>4, <1>5 DEF w

LEMMA WriteFile == ASSUME TypeOK, Opened, FileInv, NEW e \in Execution, Write(e) PROVE FileInv'
  <1>. DEFINE f == file[e]
              c == content[f]
              x == content'[f]
  <1>. USE DEF Moving
  <1>0. /\ content \in [Execution -> Seq(0..Size)] /\ pos \in [Execution -> Nat]
        /\ file \in [Execution -> Execution \cup {None}] /\ shared \subseteq Execution
    BY DEF TypeOK
  <1>1. /\ pc[e] = "streaming" /\ pos[e] < Size
        /\ UNCHANGED <<pc, file, part, target, shared>>
        /\ pos'[e] = pos[e] + 1 /\ \A d \in Execution : d # e => pos'[d] = pos[d]
    BY <1>0 DEF Write, At
  <1>2. f \in Execution /\ f # None /\ c \in Seq(0..Size)
    BY <1>0, <1>1, NoneAssumption DEF Opened
  <1>3. /\ x \in {Append(c, pos[e] + 1), Written(c, pos[e], pos[e] + 1)}
        /\ \A g \in Execution : g # f => content'[g] = content[g]
    BY <1>0, <1>2 DEF Write
  <1>4. Apart'
    BY <1>1 DEF FileInv, Apart
  <1>5. \A d \in Execution : pc[d] \in Moving /\ d # e => d \in shared /\ e \in shared
    BY <1>1, Company
  <1>6. CASE e \in shared
    <2>1. f \in shared /\ \A d \in Execution : pc[d] \in Moving => d \in shared
      BY <1>1, <1>5, <1>6 DEF FileInv, Apart
    <2>2. /\ part # None /\ part \notin shared => content'[part] = content[part]
          /\ target # None /\ target \notin shared => content'[target] = content[target]
      BY <1>3, <2>1 DEF TypeOK
    <2>3. InOrder'
      BY <1>1, <2>1, <2>2 DEF FileInv, InOrder, TargetIsRight
    <2>. QED BY <1>4, <2>3 DEF FileInv
  <1>7. CASE e \notin shared
    <2>1. target = None /\ part # None /\ f = part /\ pos[e] = Len(c)
      BY <1>1, <1>7 DEF FileInv, Apart, InOrder
    <2>2. Len(x) = Len(c) + 1 /\ (Ascending(c) => Ascending(x))
      BY <1>1, <1>2, <1>3, <2>1, Extended
    <2>3. \A d \in Execution : pc[d] \in Moving => d = e
      BY <1>5, <1>7
    <2>4. InOrder'
      BY <1>1, <2>1, <2>2, <2>3 DEF FileInv, InOrder, TargetIsRight
    <2>. QED BY <1>4, <2>4 DEF FileInv
  <1>. QED BY <1>6, <1>7

LEMMA FinishFile ==
    ASSUME TypeOK, FileInv, NEW e \in Execution, Finish(e), part # None
    PROVE  FileInv'
  <1>. USE DEF Moving
  <1>1. /\ pc[e] = "streaming" /\ pos[e] = Size /\ target' = part /\ part' = None
        /\ UNCHANGED <<content, shared>> /\ pc'[e] = "hashing"
        /\ \A d \in Execution : d # e => pc'[d] = pc[d] /\ file'[d] = file[d] /\ pos'[d] = pos[d]
    BY DEF Finish, At, TypeOK
  <1>2. \A d \in Execution : pc'[d] \in Moving => d # e /\ pc[d] \in Moving /\ d \in shared
    BY <1>1, Company
  <1>3. part \notin shared => content[part] = Whole
    <2>1. part \notin shared => e \notin shared
      BY <1>1 DEF FileInv, Apart
    <2>2. content[part] \in Seq(0..Size)
      BY BytesOfPart
    <2>3. part \notin shared => Len(content[part]) = Size /\ Ascending(content[part])
      BY <1>1, <2>1 DEF FileInv, InOrder
    <2>. QED BY <2>2, <2>3 DEF Whole, Ascending
  <1>4. \A d \in shared : pc'[d] # "none"
    BY <1>1 DEF FileInv, Apart, TypeOK
  <1>5. Apart'
    BY <1>1, <1>2, <1>4 DEF FileInv, Apart
  <1>6. InOrder'
    BY <1>1, <1>2, <1>3 DEF InOrder, TargetIsRight, Whole
  <1>. QED BY <1>5, <1>6 DEF FileInv

LEMMA FileStep == TypeInv /\ Fresh /\ FileInv /\ [Next]_vars => FileInv'
  <1>. SUFFICES ASSUME TypeOK, Opened, Fresh, FileInv, [Next]_vars PROVE FileInv'
    BY DEF TypeInv
  <1>. USE DEF execVars, diskVars
  <1>1. ASSUME UNCHANGED <<pc, pos, file, content, part, target, shared>> PROVE FileInv'
    BY <1>1 DEF FileInv, Apart, InOrder, TargetIsRight, Bytes, Ascending
  <1>2. CASE Browser \/ Heartbeat \/ Reap \/ UNCHANGED vars
    BY <1>1, <1>2 DEF Browser, Enqueue, Pause, Cancel, Heartbeat, BeatSend, BeatReceive,
                      BeatReturn, Reap, vars
  <1>3. CASE PollIdle \/ ResponseClosed \/ (\E j \in Job : Claim(j))
    BY <1>1, <1>3 DEF PollIdle, ResponseClosed, Claim
  <1>4. CASE Outage \/ Reconnect \/ Restart \/ Tick
    BY <1>1, <1>4 DEF Outage, Reconnect, Restart, Tick
  <1>5. CASE Crash
    <2>1. /\ \A e \in Execution : pc'[e] \in {"none", "over"} /\ (pc[e] # "none" => pc'[e] # "none")
          /\ UNCHANGED <<content, part, target, shared>>
      BY <1>5 DEF Crash, Running, Stage, TypeOK
    <2>2. shared \subseteq Execution /\ part \in Execution \cup {None}
      BY DEF TypeOK
    <2>3. Apart'
      BY <2>1, <2>2 DEF FileInv, Apart, Moving
    <2>4. InOrder'
      BY <2>1 DEF FileInv, InOrder, TargetIsRight, Ascending
    <2>. QED BY <2>3, <2>4 DEF FileInv
  <1>6. ASSUME NEW e \in Execution, UNCHANGED <<content, part, target, shared>>,
               pc[e] \in Running \ Moving, pc'[e] \in {"calling", "rejecting", "completing", "over"},
               pc'[e] \in {"calling", "rejecting"} => pc[e] = "hashing",
               UNCHANGED <<pos, file>>, \A d \in Execution : d # e => pc'[d] = pc[d]
        PROVE  FileInv'
    <2>1. pc'[e] \in {"calling", "rejecting"} => target # None
      BY <1>6 DEF FileInv, Apart
    <2>. QED BY <1>6, <2>1, StageChange DEF Stage, Moving
  <1>7. ASSUME NEW e \in Execution, Transfer(e) \/ BrokenStream(e) PROVE FileInv'
    <2>1. CASE Fail(e)
      <3>1. pc[e] \in Moving
        BY <1>7, <2>1 DEF Transfer, BrokenStream, Fetched, Write, Finish, AbortSeen, Hash, Fail,
                          At, Moving, TypeOK
      <3>. QED BY <2>1, <3>1, FailFile
    <2>2. CASE Fetched(e) /\ ~Fail(e)
      <3>1. pc[e] = "fetching"
        BY <2>2 DEF Fetched, At
      <3>2. Open(e, 200) \/ (pos[e] \in 1..(Size - 1) /\ Open(e, 206))
        BY <2>2 DEF Fetched
      <3>. QED BY <3>1, <3>2, OpenFile
    <2>3. CASE Write(e)
      BY <2>3, WriteFile
    <2>4. CASE Finish(e) /\ ~Fail(e)
      BY <2>4, FinishFile DEF Finish
    <2>5. CASE Hash(e)
      <3>1. /\ pc[e] = "hashing" /\ UNCHANGED <<pos, file, content, part, target, shared>>
            /\ \E s \in {"calling", "rejecting"} : pc' = [pc EXCEPT ![e] = s]
        BY <2>5 DEF Hash, At
      <3>. QED BY <1>6, <3>1 DEF TypeOK, Running, Stage, Moving
    <2>. QED BY <1>7, <2>1, <2>2, <2>3, <2>4, <2>5 DEF Transfer, AbortSeen, BrokenStream
  <1>8. ASSUME NEW e \in Execution, Report(e) PROVE FileInv'
    <2>1. CASE CallGivenUp(e) \/ RejectReported(e)
      BY <2>1, FailFile DEF CallGivenUp, GivenUpFails, RejectReported, At
    <2>2. CASE CallOk(e) \/ FailReported(e) \/ Complete(e) \/ CompleteGivenUp(e)
      <3>1. /\ pc[e] \in {"calling", "failing", "completing"}
            /\ UNCHANGED <<pos, file, content, part, target, shared>>
            /\ \E s \in {"completing", "over"} : pc' = [pc EXCEPT ![e] = s]
        BY <2>2 DEF CallOk, FailReported, Complete, CompleteGivenUp, Dismiss, At
      <3>. QED BY <1>6, <3>1 DEF TypeOK, Running, Stage, Moving
    <2>. QED BY <1>8, <2>1, <2>2 DEF Report
  <1>. QED BY <1>2, <1>3, <1>4, <1>5, <1>7, <1>8, DeliverFile DEF Next, Queue, World

(* The file that gets the model's name is whole and in order, however many *)
(* downloads, pauses, cancels, crashes, outages, second executions, ignored *)
(* ranges and broken streams it was put together from, and whatever other  *)
(* transfers of it came to before, unless two of them overlapped in it     *)
(* (worker/src/index.ts executeDownloadModelJob).                           *)
THEOREM TargetIsPutTogether == Spec => []TargetIsRight
  <1>1. Init => Fresh /\ FileInv
    BY NoneAssumption DEF Init, Fresh, FileInv, Apart, InOrder, TargetIsRight, Moving
  <1>2. FileInv => TargetIsRight
    BY DEF FileInv, InOrder
  <1>3. TypeInv => TypeOK
    BY DEF TypeInv
  <1>. QED BY <1>1, <1>2, <1>3, FreshStep, FileStep, InitTypeInv, TypeStep, PTL DEF Spec
=============================================================================
