------------------------ MODULE HeartbeatTimerProofs ------------------------
(* Theorems about HeartbeatTimer, for any number of loops and of download  *)
(* slots.                                                                  *)
EXTENDS HeartbeatTimer, TLAPS

(* A heartbeat ends with one set; so does a kick. *)
Sets(d) ==
    \E u \in Fresh :
        /\ u \in armed'
        /\ heartbeatTimer' = u
        /\ delay' = [delay EXCEPT ![u] = d]

Inv == TypeOK /\ AlwaysDue /\ FastLaneIsFast

LEMMA KickStep ==
    ASSUME TypeOK, Kick
    PROVE  /\ armed' \subseteq Timer /\ flying' \subseteq Timer
           /\ heartbeatTimer' \in Timer /\ delay' \in [Timer -> Delay]
           /\ Sets("kick")
  BY DEF TypeOK, Kick, Fresh, Delay, Sets

LEMMA SetKeeps ==
    ASSUME TypeOK, NEW d \in Delay, Sets(d),
           d = "slow" => ~FastLane(serial', downloads')
    PROVE  AlwaysDue' /\ FastLaneIsFast'
  <1>1. PICK u \in Timer : u \in armed' /\ delay' = [delay EXCEPT ![u] = d]
    BY DEF Sets, Fresh
  <1>2. delay'[u] = d
    BY <1>1 DEF TypeOK
  <1>. QED BY <1>1, <1>2 DEF AlwaysDue, FastLaneIsFast

LEMMA StepInv == Inv /\ [Next]_vars => Inv'
  <1>. SUFFICES ASSUME Inv, [Next]_vars PROVE Inv'
    OBVIOUS
  <1>. USE DEF Inv
  <1>1. CASE UNCHANGED vars
    BY <1>1 DEF vars, TypeOK, AlwaysDue, FastLaneIsFast
  <1>2. ASSUME NEW t \in Timer, Fire(t) PROVE Inv'
    BY <1>2 DEF Fire, TypeOK, AlwaysDue, FastLaneIsFast
  <1>3. ASSUME NEW t \in Timer, Answer(t) PROVE Inv'
    <2>. DEFINE d == IF FastLane(serial, downloads) THEN "fast" ELSE "slow"
    <2>1. d \in Delay /\ Sets(d) /\ UNCHANGED <<serial, downloads>>
      BY <1>3 DEF Answer, Sets, Delay
    <2>2. TypeOK'
      BY <1>3 DEF Answer, TypeOK, Fresh, Delay
    <2>3. d = "slow" => ~FastLane(serial', downloads')
      BY <2>1
    <2>. HIDE DEF d
    <2>. QED BY <2>1, <2>2, <2>3, SetKeeps
  <1>4. ASSUME ClaimSerial \/ FinishSerial \/ ClaimDownload PROVE Inv'
    <2>1. Kick
      BY <1>4 DEF ClaimSerial, FinishSerial, ClaimDownload
    <2>2. serial' \in Serial /\ downloads' \in 0..MaxDownloads
      BY <1>4, DownloadsAssumption
      DEF ClaimSerial, FinishSerial, ClaimDownload, CanPoll, TypeOK, Serial
    <2>. QED BY <2>1, <2>2, KickStep, SetKeeps DEF TypeOK, Delay
  <1>5. ASSUME FinishDownload PROVE Inv'
    <2>1. downloads' \in 0..MaxDownloads
      BY <1>5, DownloadsAssumption DEF FinishDownload, TypeOK
    <2>2. FastLane(serial', downloads') => FastLane(serial, downloads)
      BY <1>5 DEF FinishDownload, FastLane
    <2>. QED BY <1>5, <2>1, <2>2 DEF FinishDownload, TypeOK, AlwaysDue, FastLaneIsFast
  <1>. QED BY <1>1, <1>2, <1>3, <1>4, <1>5 DEF Next, Beat, Jobs

LEMMA InitInv == Init => Inv
  BY DownloadsAssumption DEF Init, Inv, TypeOK, AlwaysDue, FastLaneIsFast, FastLane, Delay, Serial

THEOREM InvHolds == Spec => []Inv
  BY InitInv, StepInv, PTL DEF Spec

(* Every variable of the schedule keeps its type. *)
THEOREM TypeCorrect == Spec => []TypeOK
  <1>1. Inv => TypeOK
    BY DEF Inv
  <1>. QED BY InvHolds, <1>1, PTL

(* However claims, finished jobs and heartbeats interleave around the one  *)
(* variable heartbeatTimer (worker.ts kickHeartbeatSoon, heartbeatTick), a *)
(* heartbeat is due or under way: a worker never falls silent for good.    *)
THEOREM NeverSilent == Spec => []AlwaysDue
  <1>1. Inv => AlwaysDue
    BY DEF Inv
  <1>. QED BY InvHolds, <1>1, PTL

(* While a download or an install has byte progress to report, no state    *)
(* leaves the worker with only idle-rate heartbeats (worker.ts             *)
(* heartbeatTick's choice of interval, kickHeartbeatSoon).                 *)
THEOREM ProgressIsPrompt == Spec => []FastLaneIsFast
  <1>1. Inv => FastLaneIsFast
    BY DEF Inv
  <1>. QED BY InvHolds, <1>1, PTL
=============================================================================
