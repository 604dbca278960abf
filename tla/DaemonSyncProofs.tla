-------------------------- MODULE DaemonSyncProofs --------------------------
(* Theorems about DaemonSync, for every set of keys and models, every size *)
(* of the spool and of a batch, every bound and every choice of events.    *)
EXTENDS DaemonSync, SequenceTheorems, FiniteSetTheorems, TLAPS

-----------------------------------------------------------------------------
(* The usage rows.                                                          *)

(* What the server has or has had. *)
Kept == recorded \cup forgotten

Rows ==
    /\ made \in Nat
    /\ Kept \subseteq 1..made /\ lost \subseteq 1..made /\ fresh \subseteq 1..made
    /\ spool.rows \subseteq 1..made /\ disk.rows \subseteq 1..made
    /\ spool.dropped \in Nat /\ disk.dropped \in Nat
    /\ spool = [rows |-> spool.rows, dropped |-> spool.dropped]
    /\ disk = [rows |-> disk.rows, dropped |-> disk.dropped]

(* What an answer acknowledges the server has, or had. *)
AckedIsKept == answer # None => answer.acked \subseteq Kept

(* The rows nobody has any more, before and after a crash. *)
Missing == (1..made) \ (Kept \cup spool.rows \cup lost)
MissingOnDisk == (1..made) \ (Kept \cup disk.rows \cup lost \cup fresh)

Accounted ==
    /\ Cardinality(Missing) <= spool.dropped
    /\ Cardinality(MissingOnDisk) <= disk.dropped
    /\ disk.dropped <= spool.dropped

(* What the calls carry are rows that were made. *)
Carried ==
    /\ request # None => request.batch \subseteq 1..made
    /\ stray # None => stray.batch \subseteq 1..made

Usage == Rows /\ AckedIsKept /\ Accounted

LEMMA Fewer ==
    ASSUME NEW n \in Nat, NEW S \in SUBSET (1..n), NEW T \in SUBSET S
    PROVE  Cardinality(T) \in Nat /\ Cardinality(S) \in Nat /\ Cardinality(T) <= Cardinality(S)
  <1>1. IsFiniteSet(1..n)
    BY FS_Interval
  <1>2. IsFiniteSet(S)
    BY <1>1, FS_Subset
  <1>. QED BY <1>2, FS_Subset, FS_CardinalityType

LEMMA OneMore ==
    ASSUME NEW n \in Nat, NEW S \in SUBSET (1..n), NEW x, NEW T \in SUBSET (S \cup {x})
    PROVE  Cardinality(T) <= Cardinality(S) + 1
  <1>1. IsFiniteSet(1..n)
    BY FS_Interval
  <1>2. IsFiniteSet(S) /\ Cardinality(S) \in Nat
    BY <1>1, FS_Subset, FS_CardinalityType
  <1>3. IsFiniteSet(S \cup {x}) /\ Cardinality(S \cup {x}) <= Cardinality(S) + 1
    <2>1. /\ IsFiniteSet(S \cup {x})
          /\ Cardinality(S \cup {x}) = IF x \in S THEN Cardinality(S) ELSE Cardinality(S) + 1
      BY <1>2, FS_AddElement
    <2>2. Cardinality(S) <= Cardinality(S) + 1 /\ Cardinality(S) + 1 <= Cardinality(S) + 1
          /\ Cardinality(S) <= Cardinality(S)
      BY <1>2
    <2>. QED BY <2>1, <2>2, Zenon
  <1>4. Cardinality(T) <= Cardinality(S \cup {x}) /\ IsFiniteSet(T)
    BY <1>3, FS_Subset
  <1>. QED BY <1>2, <1>3, <1>4, FS_CardinalityType

LEMMA InitUsage == Init => Usage
  <1>. SUFFICES ASSUME Init PROVE Usage
    OBVIOUS
  <1>1. Missing = {} /\ MissingOnDisk = {}
    BY DEF Init, Missing, MissingOnDisk
  <1>2. Cardinality({}) = 0
    BY FS_EmptySet
  <1>. QED BY <1>1, <1>2 DEF Init, Usage, Rows, Kept, AckedIsKept, Accounted

(* Only a crash and a new row can add to what is missing. *)
LEMMA NoneLost ==
    ASSUME Usage, Rows', made' = made,
           Missing' \subseteq Missing, MissingOnDisk' \subseteq MissingOnDisk,
           UNCHANGED <<spool.dropped, disk.dropped>>
    PROVE  Accounted'
  <1>1. Missing \in SUBSET (1..made) /\ MissingOnDisk \in SUBSET (1..made) /\ made \in Nat
    BY DEF Usage, Rows, Missing, MissingOnDisk
  <1>2. Cardinality(Missing') <= Cardinality(Missing) /\ Cardinality(Missing) \in Nat
        /\ Cardinality(Missing') \in Nat
    BY <1>1, Fewer
  <1>3. Cardinality(MissingOnDisk') <= Cardinality(MissingOnDisk) /\ Cardinality(MissingOnDisk) \in Nat
        /\ Cardinality(MissingOnDisk') \in Nat
    BY <1>1, Fewer
  <1>. QED BY <1>2, <1>3 DEF Usage, Accounted, Rows

LEMMA Untouched ==
    ASSUME Usage, UNCHANGED spoolVars, Kept' = Kept,
           answer' = answer \/ answer' = None
    PROVE  Usage'
  BY DEF Usage, spoolVars, Rows, AckedIsKept, Accounted, Missing, MissingOnDisk

(* Rows the server has are missing no more. *)
LEMMA MoreRecorded ==
    ASSUME Usage, UNCHANGED spoolVars, NEW batch \in SUBSET (1..made),
           Kept' = Kept \cup batch,
           answer' = answer \/ (answer' # None /\ answer'.acked \subseteq batch)
    PROVE  Usage'
  <1>1. Rows'
    BY DEF Usage, Rows, spoolVars
  <1>2. Missing' \subseteq Missing /\ MissingOnDisk' \subseteq MissingOnDisk
    BY DEF Missing, MissingOnDisk, spoolVars
  <1>3. AckedIsKept'
    BY DEF Usage, AckedIsKept
  <1>. QED BY <1>1, <1>2, <1>3, NoneLost DEF Usage, spoolVars

(* The disk has what the memory has. *)
LEMMA Saved ==
    ASSUME Usage, UNCHANGED <<spool, made, lost, Kept>>, disk' = spool, fresh' = {},
           answer' = answer \/ answer' = None
    PROVE  Usage'
  <1>1. MissingOnDisk' = Missing /\ Missing' = Missing
    BY DEF Missing, MissingOnDisk
  <1>2. Rows' /\ AckedIsKept'
    BY DEF Usage, Rows, AckedIsKept
  <1>. QED BY <1>1, <1>2 DEF Usage, Accounted, Rows

LEMMA ServeUsage == ASSUME Usage, Serve PROVE Usage'
  <1>. DEFINE oldest == IF Full THEN {Oldest(spool.rows)} ELSE {}
  <1>1. made \in Nat /\ made' = made + 1 /\ made' \in Nat
    BY DEF Usage, Rows, Serve
  <1>2. /\ spool'.rows = (spool.rows \ oldest) \cup {made'}
        /\ spool'.dropped = spool.dropped + (IF Full THEN 1 ELSE 0)
        /\ spool' = [rows |-> spool'.rows, dropped |-> spool'.dropped]
    BY DEF Serve, Spooled
  <1>3. UNCHANGED <<Kept, disk, lost, answer>> /\ fresh' = fresh \cup {made'}
    BY DEF Serve, serverVars, netVars, Kept
  <1>4. 1..made' = (1..made) \cup {made'}
    BY <1>1
  <1>5. Rows'
    <2>1. spool'.rows \subseteq 1..made'
      BY <1>2, <1>4 DEF Usage, Rows
    <2>2. Kept' \subseteq 1..made' /\ lost' \subseteq 1..made' /\ fresh' \subseteq 1..made'
          /\ disk'.rows \subseteq 1..made'
      BY <1>3, <1>4 DEF Usage, Rows
    <2>. QED BY <1>1, <1>2, <1>3, <2>1, <2>2 DEF Usage, Rows
  <1>6. Missing' \subseteq Missing \cup oldest
    BY <1>2, <1>3, <1>4 DEF Missing
  <1>7. MissingOnDisk' \subseteq MissingOnDisk
    BY <1>3, <1>4 DEF MissingOnDisk
  <1>8. Missing \in SUBSET (1..made) /\ MissingOnDisk \in SUBSET (1..made)
        /\ Missing' \in SUBSET (1..made')
    BY DEF Missing, MissingOnDisk
  <1>9. Cardinality(MissingOnDisk') <= Cardinality(MissingOnDisk)
        /\ Cardinality(MissingOnDisk) \in Nat /\ Cardinality(MissingOnDisk') \in Nat
    BY <1>1, <1>7, <1>8, Fewer
  <1>10. Cardinality(Missing) \in Nat /\ Cardinality(Missing') \in Nat
    BY <1>1, <1>8, Fewer
  <1>11. Cardinality(Missing') <= Cardinality(Missing) + (IF Full THEN 1 ELSE 0)
    <2>1. CASE Full
      <3>1. Missing' \in SUBSET (Missing \cup {Oldest(spool.rows)})
        BY <2>1, <1>6
      <3>. QED BY <2>1, <3>1, <1>1, <1>8, OneMore
    <2>2. CASE ~Full
      <3>1. Missing' \in SUBSET Missing
        BY <2>2, <1>6
      <3>2. Cardinality(Missing') <= Cardinality(Missing)
        BY <3>1, <1>1, <1>8, Fewer
      <3>. QED BY <2>2, <3>2, <1>10
    <2>. QED BY <2>1, <2>2
  <1>. HIDE DEF oldest
  <1>12. Accounted'
    BY <1>2, <1>3, <1>9, <1>10, <1>11 DEF Usage, Rows, Accounted
  <1>. QED BY <1>3, <1>5, <1>12 DEF Usage, AckedIsKept

LEMMA ReceiveUsage == ASSUME Usage, Receive PROVE Usage'
  <1>1. /\ spool' = [spool EXCEPT !.rows = @ \ answer.acked]
        /\ disk' = spool' /\ fresh' = {} /\ answer' = None
        /\ UNCHANGED <<made, lost, Kept>> /\ answer # None
    BY DEF Receive, Flush, serverVars, Kept
  <1>2. spool'.rows = spool.rows \ answer.acked /\ spool'.dropped = spool.dropped
        /\ spool' = [rows |-> spool'.rows, dropped |-> spool'.dropped]
    BY <1>1 DEF Usage, Rows
  <1>3. answer.acked \subseteq Kept
    BY <1>1 DEF Usage, AckedIsKept
  <1>4. Missing' = Missing /\ MissingOnDisk' = Missing
    BY <1>1, <1>2, <1>3 DEF Missing, MissingOnDisk
  <1>5. Rows'
    BY <1>1, <1>2 DEF Usage, Rows
  <1>. QED BY <1>1, <1>2, <1>4, <1>5 DEF Usage, Rows, Accounted, AckedIsKept

(* What was never written goes to lost; the rest is what the disk had. *)
LEMMA CrashUsage == ASSUME Usage, Crash PROVE Usage'
  <1>1. /\ spool' = disk /\ lost' = lost \cup fresh /\ fresh' = {} /\ answer' = None
        /\ UNCHANGED <<made, disk, Kept>>
    BY DEF Crash, Kept
  <1>2. Missing' = MissingOnDisk /\ MissingOnDisk' = MissingOnDisk
    BY <1>1 DEF Missing, MissingOnDisk
  <1>. QED BY <1>1, <1>2 DEF Usage, Rows, Accounted, AckedIsKept

LEMMA UsageStep == ASSUME Usage, Carried, [Next]_vars PROVE Usage'
  <1>1. CASE UNCHANGED vars
    BY <1>1, Untouched DEF vars, serverVars, netVars, Kept
  <1>2. CASE Owner
    <2>1. UNCHANGED <<spoolVars, Kept, answer>>
      BY <1>2 DEF Owner, PutGateway, CreateKey, RevokeKey, AskLoad, AskUnload, PutSampling, ReAdd, netVars, Kept
    <2>. QED BY <2>1, Untouched
  <1>3. CASE Handle
    <2>1. /\ Kept' = Kept \cup request.batch /\ request.batch \in SUBSET (1..made)
          /\ UNCHANGED spoolVars
          /\ answer' = Answers(request, request.batch)
      BY <1>3 DEF Handle, Carried, Kept
    <2>2. answer'.acked = request.batch
      BY <2>1 DEF Answers
    <2>3. answer' = answer \/ (answer' # None /\ answer'.acked \subseteq request.batch) \/ answer' = None
      BY <2>2
    <2>4. CASE answer' = None
      <3>1. Rows' /\ AckedIsKept'
        BY <2>1, <2>4 DEF Usage, Rows, spoolVars, AckedIsKept
      <3>2. Missing' \subseteq Missing /\ MissingOnDisk' \subseteq MissingOnDisk
        BY <2>1 DEF Missing, MissingOnDisk, spoolVars
      <3>. QED BY <2>1, <3>1, <3>2, NoneLost DEF Usage, spoolVars
    <2>. QED BY <2>1, <2>3, <2>4, MoreRecorded
  <1>4. CASE OverBudget
    <2>1. UNCHANGED <<spoolVars, Kept>> /\ answer' = Answers(request, {})
      BY <1>4 DEF OverBudget, serverVars, Kept
    <2>2. answer'.acked = {}
      BY <2>1 DEF Answers
    <2>3. Rows' /\ AckedIsKept'
      BY <2>1, <2>2 DEF Usage, Rows, spoolVars, AckedIsKept
    <2>4. Missing' = Missing /\ MissingOnDisk' = MissingOnDisk
      BY <2>1 DEF Missing, MissingOnDisk, spoolVars
    <2>. QED BY <2>1, <2>3, <2>4 DEF Usage, Accounted, spoolVars
  <1>5. CASE HandleStray
    <2>1. Kept' = Kept \cup stray.batch /\ stray.batch \in SUBSET (1..made)
          /\ UNCHANGED <<spoolVars, answer>>
      BY <1>5 DEF HandleStray, Carried, Kept
    <2>. QED BY <2>1, MoreRecorded
  <1>6. CASE Receive
    BY <1>6, ReceiveUsage
  <1>7. CASE SendTelemetry \/ Applied
    <2>1. UNCHANGED <<spoolVars, Kept, answer>>
      BY <1>7 DEF SendTelemetry, Applied, serverVars, Kept
    <2>. QED BY <2>1, Untouched
  <1>8. CASE TimesOut
    BY <1>8, Saved DEF TimesOut, serverVars, Kept
  <1>9. CASE Main
    <2>1. CASE Claim \/ SkipOld \/ EndLoad \/ EndUnload
      <3>1. UNCHANGED <<spoolVars, Kept, answer>>
        BY <2>1 DEF Claim, SkipOld, EndLoad, EndUnload, serverVars, netVars, Kept
      <3>. QED BY <3>1, Untouched
    <2>2. CASE ApplyLoad
      <3>1. /\ UNCHANGED <<spool, made, lost, Kept, answer>>
            /\ (disk' = spool /\ fresh' = {}) \/ UNCHANGED <<disk, fresh>>
        BY <2>2 DEF ApplyLoad, serverVars, netVars, Kept
      <3>2. CASE disk' = spool /\ fresh' = {}
        BY <3>1, <3>2, Saved
      <3>3. CASE UNCHANGED <<disk, fresh>>
        <4>1. UNCHANGED spoolVars
          BY <3>1, <3>3 DEF spoolVars
        <4>. QED BY <3>1, <4>1, Untouched
      <3>. QED BY <3>1, <3>2, <3>3
    <2>. QED BY <1>9, <2>1, <2>2 DEF Main
  <1>10. CASE Listener
    <2>1. UNCHANGED <<spoolVars, Kept, answer>>
      BY <1>10 DEF Listener, ApplyNow, Bind, serverVars, netVars, Kept
    <2>. QED BY <2>1, Untouched
  <1>11. CASE Serve
    BY <1>11, ServeUsage
  <1>12. CASE Crash
    BY <1>12, CrashUsage
  <1>. QED BY <1>1, <1>2, <1>3, <1>4, <1>5, <1>6, <1>7, <1>8, <1>9, <1>10, <1>11, <1>12
    DEF Next, Server, Loop

LEMMA CarriedStep == ASSUME Usage, Carried, [Next]_vars PROVE Carried'
  <1>1. made \in Nat /\ (made' = made \/ made' = made + 1)
    <2>1. CASE Serve
      BY <2>1 DEF Usage, Rows, Serve
    <2>2. CASE ~Serve
      BY <2>2 DEF Usage, Rows, Next, vars, spoolVars, Owner, PutGateway, CreateKey, RevokeKey, AskLoad,
         AskUnload, PutSampling, ReAdd, Server, Handle, OverBudget, HandleStray, Loop, SendTelemetry,
         Receive, Applied, TimesOut, Main, Claim, SkipOld, ApplyLoad, EndLoad, EndUnload, Listener,
         ApplyNow, Bind, Crash
    <2>. QED BY <2>1, <2>2
  <1>2. \A S : S \subseteq 1..made => S \subseteq 1..made'
    BY <1>1
  <1>3. CASE SendTelemetry
    <2>1. request'.batch = UsageBatch /\ stray' = stray
      BY <1>3 DEF SendTelemetry
    <2>2. UsageBatch \subseteq 1..made
      BY DEF UsageBatch, Usage, Rows
    <2>. QED BY <2>1, <2>2, <1>2 DEF Carried
  <1>4. CASE ~SendTelemetry
    <2>1. request' \in {request, None} /\ stray' \in {stray, request, None}
      BY <1>4 DEF Next, vars, netVars, Owner, PutGateway, CreateKey, RevokeKey, AskLoad,
         AskUnload, PutSampling, ReAdd, Server, Handle, OverBudget, HandleStray, Loop,
         Receive, Applied, TimesOut, Main, Claim, SkipOld, ApplyLoad, EndLoad, EndUnload, Listener,
         ApplyNow, Bind, Serve, Crash
    <2>. QED BY <2>1, <1>2 DEF Carried
  <1>. QED BY <1>3, <1>4

(* Every usage row is recorded (or was, until its machine was deleted),    *)
(* spooled, lost with a crash before it was ever written, or counted as    *)
(* dropped: through lost, late and repeated calls, a full budget, a full   *)
(* spool and any number of crashes and of machines added again.            *)
THEOREM EveryRowIsAccounted == Spec => []NothingLost
  <1>1. Init => Usage /\ Carried
    BY InitUsage DEF Init, Carried
  <1>2. Usage /\ Carried /\ [Next]_vars => (Usage /\ Carried)'
    BY UsageStep, CarriedStep
  <1>3. Usage => NothingLost
    BY DEF Usage, Accounted, Missing, Kept, NothingLost
  <1>. QED BY <1>1, <1>2, <1>3, PTL DEF Spec

-----------------------------------------------------------------------------
(* The listener.  What the server stores, the worker stores and what is on  *)
(* its way from one to the other never opens the endpoint without a key.    *)

AnyConfig == [version : Nat, host : Host, keys : SUBSET Key, model : OptModel]
Closed(h, ks) == h = "open" => ks # {}
Sound == {c \in AnyConfig : Closed(c.host, c.keys)}
SoundJob ==
    {j \in [kind : {"load", "unload"}, config : AnyConfig \cup {None}, model : OptModel,
            cancelled : BOOLEAN, applied : BOOLEAN] :
        j.kind = "load" => j.config \in Sound}

Stored ==
    /\ version \in Nat /\ host \in Host /\ keys \in SUBSET Key
    /\ Closed(host, keys)
OnTheWay ==
    /\ pending \in Seq(SoundJob) /\ job \in SoundJob \cup {None}
    /\ answer # None => answer.config \in Sound \cup {None}
    /\ request # None => request.loaded \in OptModel
    /\ config \in Sound \cup {None} /\ loaded \in OptModel

(* The queue ends with the stored configuration's address, and the listener *)
(* is where the settings say or nowhere.                                    *)
Follows ==
    /\ applying \in Seq(Host)
    /\ config = None => applying = <<>> /\ settings = None
    /\ config # None /\ applying # <<>> => applying[Len(applying)] = config.host
    /\ config # None /\ applying = <<>> => settings = config.host
    /\ listener \in {None, settings}
    /\ binding => applying # <<>> /\ settings = Head(applying) /\ listener = None

LEMMA SoundIsSome == None \notin Sound
  BY NoneAssumption DEF Sound, AnyConfig

LEMMA Built == ASSUME Stored, NEW m \in OptModel PROVE BuildConfig(m) \in Sound
  BY DEF Stored, BuildConfig, Sound, AnyConfig, Closed

LEMMA InitListener == Init => Stored /\ OnTheWay /\ Follows
  BY DEF Init, Stored, OnTheWay, Follows, Closed, Host, OptModel

LEMMA OwnerListener ==
    ASSUME Stored, OnTheWay, Owner
    PROVE  Stored' /\ OnTheWay'
  <1>1. \A x \in SoundJob : <<x>> \in Seq(SoundJob)
    OBVIOUS
  <1>2. CASE \E h \in Host : PutGateway(h)
    BY <1>2 DEF PutGateway, BumpConfig, Stored, OnTheWay, Closed, netVars
  <1>3. CASE \E k \in Key : CreateKey(k)
    BY <1>3 DEF CreateKey, BumpConfig, Stored, OnTheWay, Closed, netVars
  <1>4. CASE \E k \in Key : RevokeKey(k)
    BY <1>4 DEF RevokeKey, BumpConfig, Stored, OnTheWay, Closed, Host, netVars
  <1>5. ASSUME NEW m \in Model, AskLoad(m) PROVE Stored' /\ OnTheWay'
    <2>1. Stored'
      BY <1>5 DEF AskLoad, BumpConfig, Stored, Closed, Host
    <2>2. job' \in SoundJob \cup {None}
      BY <1>5 DEF AskLoad, Supersede, OnTheWay, SoundJob
    <2>3. DEFINE c == BuildConfig(m)'
    <2>4. c = [version |-> version', host |-> host', keys |-> keys', model |-> m]
      BY DEF BuildConfig
    <2>5. c \in Sound /\ c \in AnyConfig
      BY <2>1, <2>4 DEF Stored, Sound, AnyConfig, OptModel
    <2>6. [kind |-> "load", config |-> c, model |-> m, cancelled |-> FALSE, applied |-> FALSE]
            \in SoundJob
      BY <2>5 DEF SoundJob, OptModel
    <2>7. pending' \in Seq(SoundJob)
      BY <1>5, <1>1, <2>6 DEF AskLoad, Enqueued
    <2>. QED BY <1>5, <2>1, <2>2, <2>7 DEF AskLoad, OnTheWay, netVars
  <1>6. CASE AskUnload
    <2>1. job' \in SoundJob \cup {None}
      BY <1>6 DEF AskUnload, Supersede, OnTheWay, SoundJob
    <2>2. [kind |-> "unload", config |-> None, model |-> None, cancelled |-> FALSE, applied |-> FALSE]
            \in SoundJob
      BY DEF SoundJob, OptModel
    <2>3. pending' \in Seq(SoundJob)
      BY <1>6, <1>1, <2>2 DEF AskUnload, Enqueued
    <2>. QED BY <1>6, <2>1, <2>3 DEF AskUnload, OnTheWay, Stored, netVars
  <1>7. CASE PutSampling
    BY <1>7 DEF PutSampling, BumpConfig, Stored, OnTheWay, netVars
  <1>8. CASE ReAdd
    <2>1. job' \in SoundJob \cup {None}
      BY <1>8 DEF ReAdd, OnTheWay, SoundJob
    <2>. QED BY <1>8, <2>1 DEF ReAdd, Stored, OnTheWay, Closed, Host, netVars
  <1>. QED BY <1>2, <1>3, <1>4, <1>5, <1>6, <1>7, <1>8 DEF Owner

LEMMA SoundStep == ASSUME Stored, OnTheWay, [Next]_vars PROVE Stored' /\ OnTheWay'
  <1>1. CASE UNCHANGED vars
    BY <1>1 DEF vars, serverVars, netVars, Stored, OnTheWay
  <1>2. CASE Owner
    BY <1>2, OwnerListener
  <1>3. CASE Server \/ HandleStray
    <2>1. UNCHANGED <<version, host, keys, pending, job, config, loaded>>
      BY <1>3 DEF Server, Handle, OverBudget, HandleStray, serverVars
    <2>2. Stored'
      BY <2>1 DEF Stored
    <2>3. CASE Server
      <3>1. PICK acked : answer' = Answers(request, acked) /\ request # None /\ request' = None
        BY <2>3 DEF Server, Handle, OverBudget
      <3>2. answer'.config \in Sound \cup {None}
        <4>1. request.loaded \in OptModel
          BY <3>1 DEF OnTheWay
        <4>2. answer'.config = IF Behind(request) THEN BuildConfig(request.loaded) ELSE None
          BY <3>1 DEF Answers
        <4>3. BuildConfig(request.loaded) \in Sound
          BY <4>1, Built
        <4>. QED BY <4>2, <4>3
      <3>. QED BY <2>1, <2>2, <3>1, <3>2 DEF OnTheWay
    <2>4. CASE HandleStray
      BY <2>1, <2>2, <2>4 DEF HandleStray, OnTheWay
    <2>. QED BY <1>3, <2>3, <2>4
  <1>4. CASE Loop \/ TimesOut \/ Serve \/ Listener
    <2>1. UNCHANGED <<version, host, keys, pending, job, loaded>>
      BY <1>4 DEF Loop, SendTelemetry, Receive, Applied, TimesOut, Serve, Listener, ApplyNow, Bind, serverVars
    <2>2. answer' \in {answer, None}
      BY <1>4 DEF Loop, SendTelemetry, Receive, Applied, TimesOut, Serve, Listener, ApplyNow, Bind, netVars
    <2>3. request' # None => request' = request \/ request'.loaded = loaded
      <3>1. CASE SendTelemetry
        BY <3>1 DEF SendTelemetry
      <3>2. CASE ~SendTelemetry
        BY <1>4, <3>2 DEF Loop, Receive, Applied, TimesOut, Serve, Listener, ApplyNow, Bind, netVars
      <3>. QED BY <3>1, <3>2
    <2>4. config' = config \/ (answer # None /\ answer.config # None /\ config' = answer.config)
      BY <1>4 DEF Loop, SendTelemetry, Receive, Applied, TimesOut, Serve, Listener, ApplyNow, Bind, ApplyConfig
    <2>. QED BY <2>1, <2>2, <2>3, <2>4 DEF Stored, OnTheWay
  <1>5. CASE Main
    <2>1. Stored' /\ UNCHANGED <<answer, request>>
      BY <1>5 DEF Main, Claim, SkipOld, ApplyLoad, EndLoad, EndUnload, Stored, serverVars, netVars
    <2>2. CASE Claim
      <3>1. Head(pending) \in SoundJob /\ Tail(pending) \in Seq(SoundJob)
        BY <2>2 DEF Claim, OnTheWay
      <3>. QED BY <2>1, <2>2, <3>1 DEF Claim, OnTheWay
    <2>3. CASE SkipOld \/ EndLoad \/ EndUnload
      <3>1. loaded' \in OptModel /\ job' = None /\ UNCHANGED <<pending, config>>
        BY <2>3 DEF SkipOld, EndLoad, EndUnload, OnTheWay, SoundJob, OptModel, serverVars
      <3>. QED BY <2>1, <3>1 DEF OnTheWay
    <2>4. CASE ApplyLoad
      <3>1. job' \in SoundJob /\ job.config \in Sound
        BY <2>4 DEF ApplyLoad, OnTheWay, SoundJob
      <3>2. config' \in {config, job.config} /\ UNCHANGED <<pending, loaded>>
        BY <2>4 DEF ApplyLoad, ApplyConfig, serverVars
      <3>. QED BY <2>1, <3>1, <3>2 DEF OnTheWay
    <2>. QED BY <1>5, <2>2, <2>3, <2>4 DEF Main
  <1>6. CASE Crash
    <2>1. Stored' /\ job' = None /\ request' = None /\ answer' = None /\ config' = config /\ loaded' = None
      BY <1>6 DEF Crash, Stored
    <2>2. pending' \in Seq(SoundJob)
      <3>1. job # None => [job EXCEPT !.applied = FALSE] \in SoundJob
        BY DEF OnTheWay, SoundJob
      <3>2. job # None => <<[job EXCEPT !.applied = FALSE]>> \in Seq(SoundJob)
        BY <3>1
      <3>3. job # None => <<[job EXCEPT !.applied = FALSE]>> \o pending \in Seq(SoundJob)
        BY <3>2, ConcatProperties DEF OnTheWay
      <3>. QED BY <1>6, <3>3 DEF Crash, OnTheWay
    <2>. QED BY <2>1, <2>2 DEF OnTheWay, OptModel
  <1>. QED BY <1>1, <1>2, <1>3, <1>4, <1>5, <1>6 DEF Next

(* A configuration applied is the last thing the queue has to do. *)
LEMMA Applies ==
    ASSUME OnTheWay, Follows, NEW c \in Sound, applying' = Append(applying, c.host),
           config' = c, UNCHANGED <<settings, listener, binding>>
    PROVE  Follows'
  <1>1. c.host \in Host /\ c # None
    BY SoundIsSome DEF Sound, AnyConfig
  <1>2. /\ applying' \in Seq(Host) /\ applying' # <<>>
        /\ applying'[Len(applying')] = c.host
        /\ applying # <<>> => Head(applying') = Head(applying)
    BY <1>1, AppendProperties DEF Follows
  <1>. QED BY <1>1, <1>2 DEF Follows

(* The head of the queue is done with. *)
LEMMA Popped ==
    ASSUME Follows, applying # <<>>, applying' = Tail(applying), config' = config,
           settings' = Head(applying), listener' \in {None, settings'}, binding' = FALSE
    PROVE  Follows'
  <1>1. applying \in Seq(Host) /\ Len(applying) >= 1
    BY EmptySeq DEF Follows
  <1>2. applying' \in Seq(Host) /\ Len(applying') = Len(applying) - 1
    BY <1>1, HeadTailProperties
  <1>3. config # None
    BY DEF Follows
  <1>4. CASE applying' = <<>>
    <2>1. Len(applying') = 0
      BY <1>2, <1>4, EmptySeq
    <2>2. Len(applying) = 1 /\ Head(applying) = applying[1]
      BY <1>1, <1>2, <2>1, HeadTailProperties
    <2>. QED BY <1>3, <1>4, <2>2 DEF Follows
  <1>5. CASE applying' # <<>>
    <2>1. Len(applying') >= 1 /\ applying'[Len(applying')] = applying[Len(applying)]
      BY <1>1, <1>2, <1>5, EmptySeq, HeadTailProperties
    <2>. QED BY <1>2, <1>3, <1>5, <2>1 DEF Follows
  <1>. QED BY <1>4, <1>5

LEMMA FollowsStep == ASSUME OnTheWay, Follows, [Next]_vars PROVE Follows'
  <1>1. CASE UNCHANGED <<config, gatewayVars>>
    BY <1>1 DEF gatewayVars, Follows
  <1>2. CASE Receive
    <2>1. CASE answer.config = None
      BY <1>2, <2>1, <1>1 DEF Receive, gatewayVars
    <2>2. CASE answer.config # None
      BY <1>2, <2>2, Applies DEF Receive, ApplyConfig, OnTheWay
    <2>. QED BY <2>1, <2>2
  <1>3. CASE ApplyLoad
    <2>1. job.config \in Sound
      BY <1>3 DEF ApplyLoad, OnTheWay, SoundJob
    <2>2. CASE IsNewer
      BY <1>3, <2>1, <2>2, Applies DEF ApplyLoad, ApplyConfig
    <2>3. CASE ~IsNewer
      <3>1. config \in Sound
        BY <2>3 DEF IsNewer, OnTheWay
      <3>. QED BY <1>3, <2>3, <3>1, Applies DEF ApplyLoad
    <2>. QED BY <2>2, <2>3
  <1>4. CASE ApplyNow
    <2>1. /\ config' = config /\ ~binding /\ applying # <<>> /\ settings' = Head(applying)
          /\ listener' \in {listener, None}
          /\ listener' # None => settings = settings'
      <3>. DEFINE h == Head(applying)
      <3>1. /\ applying # <<>> /\ ~binding /\ settings' = h /\ config' = config
            /\ listener' = IF ~Refused(h) /\ SameAddress(h) THEN listener ELSE None
        BY <1>4 DEF ApplyNow
      <3>2. SameAddress(h) => settings = h
        BY DEF SameAddress
      <3>. HIDE DEF h
      <3>3. listener' \in {listener, None} /\ (listener' # None => settings = h)
        BY <3>1, <3>2
      <3>. QED BY <3>1, <3>3 DEF h
    <2>2. listener' \in {None, settings'}
      BY <2>1 DEF Follows
    <2>3. CASE binding'
      <3>1. applying' = applying /\ listener' = None
        BY <1>4, <2>3 DEF ApplyNow, SameAddress
      <3>. QED BY <2>1, <2>3, <3>1 DEF Follows
    <2>4. CASE ~binding'
      <3>1. applying' = Tail(applying) /\ binding' = FALSE
        BY <1>4, <2>4 DEF ApplyNow
      <3>. QED BY <2>1, <2>2, <3>1, Popped
    <2>. QED BY <2>3, <2>4
  <1>5. CASE Bind
    BY <1>5, Popped DEF Bind, Follows, serverVars
  <1>6. CASE Crash
    <2>1. /\ config' = config /\ settings' = None /\ listener' = None /\ binding' = FALSE
          /\ applying' = IF config = None THEN <<>> ELSE <<config.host>>
      BY <1>6 DEF Crash
    <2>2. config # None => config.host \in Host
      BY DEF OnTheWay, Sound, AnyConfig
    <2>. QED BY <2>1, <2>2 DEF Follows
  <1>7. CASE UNCHANGED vars \/ Owner \/ Server \/ HandleStray
    BY <1>7, <1>1 DEF vars, Owner, PutGateway, CreateKey, RevokeKey, AskLoad, AskUnload, PutSampling,
       ReAdd, Server, Handle, OverBudget, HandleStray
  <1>8. CASE SendTelemetry \/ Applied \/ TimesOut \/ Serve
    BY <1>8, <1>1 DEF SendTelemetry, Applied, TimesOut, Serve
  <1>9. CASE Claim \/ SkipOld \/ EndLoad \/ EndUnload
    BY <1>9, <1>1 DEF Claim, SkipOld, EndLoad, EndUnload
  <1>. QED BY <1>2, <1>3, <1>4, <1>5, <1>6, <1>7, <1>8, <1>9 DEF Next, Loop, Main, Listener

(* With its queue empty the gateway listens where the stored configuration  *)
(* says or nowhere: whatever the order in which telemetry and queued loads  *)
(* bring configurations, whichever binds fail and wherever the worker       *)
(* crashes.                                                                 *)
THEOREM ListenerFollowsAlways == Spec => []ListenerFollows
  <1>1. Init => Stored /\ OnTheWay /\ Follows
    BY InitListener
  <1>2. Stored /\ OnTheWay /\ Follows /\ [Next]_vars => (Stored /\ OnTheWay /\ Follows)'
    BY SoundStep, FollowsStep
  <1>3. Follows => ListenerFollows
    BY DEF Follows, ListenerFollows
  <1>. QED BY <1>1, <1>2, <1>3, PTL DEF Spec

(* Neither side ever stores an endpoint that is open beyond the machine     *)
(* without a key: revoking the last key closes it, and no configuration     *)
(* that is queued, answered late or brought back by a crash undoes that.    *)
THEOREM OpenNeedsKeys == Spec => []OpenHasKeys
  <1>1. Init => Stored /\ OnTheWay
    BY InitListener
  <1>2. Stored /\ OnTheWay /\ [Next]_vars => (Stored /\ OnTheWay)'
    BY SoundStep
  <1>3. Stored /\ OnTheWay => OpenHasKeys
    BY DEF Stored, OnTheWay, Sound, Closed, OpenHasKeys
  <1>. QED BY <1>1, <1>2, <1>3, PTL DEF Spec

=============================================================================
