------------------------ MODULE MachineIdentityProofs ------------------------
(* Theorems about MachineIdentity, for any number of rows, installs,        *)
(* tokens, codes and accounts, and every choice of faults.                  *)
EXTENDS MachineIdentity, TLAPS

-----------------------------------------------------------------------------
(* The invariant. *)

Tables ==
    /\ machine \in [Row -> Install \cup {None}] /\ owner \in [Row -> User \cup {None}]
    /\ code \in [Row -> Code \cup {None}] /\ key \in [Row -> Install \cup {None}]
    /\ attempts \subseteq Attempt /\ sessions \subseteq Session /\ sanctioned \subseteq Row
Locals ==
    /\ install \in Install /\ disk \in OptToken /\ mem \in OptToken
    /\ flow \in [Caller -> Flow] /\ events \in Nat

(* One caller at a time talks about tokens and codes. *)
Alone ==
    /\ \A c, d \in Caller : flow[c] # NoFlow /\ flow[d] # NoFlow => c = d
    /\ pc = "down" => NoneInFlight
    /\ pc # "running" => flow["heartbeat"] = NoFlow
    /\ pc \in {"registering", "running"} => mem \in Token

(* What trust rests on. *)
Rooted ==
    /\ \A r \in Row : code[r] # None \/ Owned(r) => machine[r] # None
    /\ \A r \in sanctioned : Owned(r)
    /\ \A r \in Row : Owned(r) /\ key[r] # None => r \in sanctioned
    /\ \A a \in attempts : Owned(a.row) /\ (a.approved => a.row \in sanctioned)

(* The code the worker has of a machine's first enrolment is older than     *)
(* anything else that could bring that machine a session.                   *)
Holds(c, x) ==
    \/ flow[c].stage = "poll" /\ flow[c].arg = x
    \/ flow[c].stage = "start" /\ flow[c].phase = "response" /\ flow[c].got = x
Untried(r) ==
    /\ \A s \in sessions : s.row # r
    /\ \A a \in attempts : a.row # r
    /\ Owned(r) => r \in sanctioned
HeldIsUntried ==
    \A c \in Caller, r \in Row : code[r] # None /\ Holds(c, code[r]) => Untried(r)

(* Where the calls' arguments come from. *)
CallsAreSound ==
    \A c \in Caller :
        /\ flow[c].stage = "poll" => flow[c].arg \in Code
        /\ At(c, "start", "response") => flow[c].got \in Code
        /\ At(c, "refresh", "request") => flow[c].arg = mem /\ mem \in Token
        /\ Ok(c, "refresh") \/ Ok(c, "poll") =>
              flow[c].got \in Token /\ \A s \in sessions : s.prev # flow[c].got

Trust == Tables /\ Rooted /\ RevokedStaysOut /\ OneSession
Inv == Trust /\ Locals /\ Alone /\ HeldIsUntried /\ CallsAreSound /\ PresentsCurrent

-----------------------------------------------------------------------------
LEMMA Outside ==
    ASSUME NEW x, NEW S, NEW used, NEW n \in Nat, S = 1..n, FirstOutside(x, S, used)
    PROVE  x \in S /\ x \notin used /\ x \in Int
  BY DEF FirstOutside

LEMMA AskIsFlow ==
    ASSUME NEW stage \in {"refresh", "start", "poll"}, NEW arg \in Token \cup Code \cup {None},
           NEW signed \in BOOLEAN
    PROVE  /\ Ask(stage, arg, signed) \in Flow
           /\ Ask(stage, arg, signed).stage = stage
           /\ Ask(stage, arg, signed).phase = "request"
           /\ Ask(stage, arg, signed).arg = arg
  BY DEF Ask, Flow

LEMMA NoFlowIsFlow == NoFlow \in Flow /\ NoFlow.stage = "none" /\ NoFlow.phase = "none"
  BY DEF NoFlow, Flow

LEMMA FreshTokens ==
    ASSUME NEW got, FreshToken(got)
    PROVE  /\ got \in Token
           /\ \A s \in sessions : s.pair # got /\ s.prev # got
  BY Outside, SizesAssumption DEF FreshToken, Token

LEMMA FreshCodes ==
    ASSUME NEW got, FreshCode(got)
    PROVE  /\ got \in Code /\ got # None
           /\ \A r \in Row : code[r] # got
           /\ \A a \in attempts : a.code # got
  <1>1. got \in Code /\ got \notin Codes /\ got \in Int
    BY Outside, SizesAssumption DEF FreshCode, Code
  <1>2. got # None
    BY <1>1, NoneAssumption
  <1>. QED BY <1>1, <1>2 DEF Codes

-----------------------------------------------------------------------------
(* The server's requests. *)

LEMMA TrustRevoked ==
    ASSUME Trust, NEW R \in SUBSET Row, RevokeTrust(R), UNCHANGED <<machine, owner, code>>
    PROVE  /\ Trust'
           /\ sessions' = {s \in sessions : s.row \notin R}
           /\ attempts' = {a \in attempts : a.row \notin R}
           /\ sanctioned' = sanctioned \ R
  <1>1. /\ sessions' = {s \in sessions : s.row \notin R}
        /\ key' = [r \in Row |-> IF r \in R THEN None ELSE key[r]]
        /\ attempts' = {a \in attempts : a.row \notin R}
        /\ sanctioned' = sanctioned \ R
    BY DEF RevokeTrust, WithoutAttempts
  <1>2. RevokedStaysOut' /\ OneSession'
    BY <1>1 DEF Trust, RevokedStaysOut, OneSession
  <1>3. Rooted'
    BY <1>1 DEF Trust, Rooted, Owned
  <1>4. Tables'
    BY <1>1 DEF Trust, Tables
  <1>. QED BY <1>1, <1>2, <1>3, <1>4 DEF Trust

(* A rotation trades one session's token for another; a replay revokes.     *)
LEMMA RefreshStep ==
    ASSUME Trust, NEW t, NEW verdict, NEW got, Refresh(t, verdict, got)
    PROVE  /\ Trust'
           /\ UNCHANGED <<machine, owner, code>>
           /\ verdict = "ok" => got \in Token /\ \A s \in sessions' : s.prev # got
           /\ verdict \in {"ok", "refused"}
           /\ got \in Token \cup {None}
           /\ verdict # "ok" => sessions' \subseteq sessions
           /\ sanctioned' # sanctioned => \E s \in sessions : s.prev = t
  <1>. DEFINE replayed == {s \in sessions : s.prev = t}
              current == {s \in sessions : s.pair = t}
  <1>1. CASE replayed # {}
    <2>1. PICK R \in SUBSET Row : RevokeTrust(R) /\ verdict = "refused" /\ got = None
                                  /\ UNCHANGED <<machine, owner, code>>
      <3>1. {s.row : s \in replayed} \in SUBSET Row
        BY DEF Trust, Tables, Session
      <3>. QED BY <1>1, <3>1 DEF Refresh
    <2>. QED BY <1>1, <2>1, TrustRevoked
  <1>2. CASE replayed = {} /\ (current = {} \/ t \in stale)
    BY <1>2 DEF Refresh, rowVars, Trust, Tables, Rooted, Owned, RevokedStaysOut, OneSession
  <1>3. CASE replayed = {} /\ current # {} /\ t \notin stale
    <2>1. /\ FreshToken(got) /\ verdict = "ok"
          /\ sessions' = (sessions \ current) \cup
                             {[row |-> s.row, pair |-> got, prev |-> t] : s \in current}
          /\ UNCHANGED <<machine, owner, code, key, attempts, sanctioned>>
      BY <1>3 DEF Refresh, rowVars
    <2>2. got \in Token /\ \A s \in sessions : s.pair # got /\ s.prev # got
      BY <2>1, FreshTokens
    <2>3. t \in Token /\ t # got
      BY <1>3, <2>2 DEF Trust, Tables, Session
    <2>4. sessions' \subseteq Session
      BY <2>1, <2>2, <2>3 DEF Trust, Tables, Session, OptToken
    <2>5. \A s \in sessions' : \E o \in sessions : o.row = s.row /\ (s = o \/ s = [row |-> o.row, pair |-> got, prev |-> t])
      BY <2>1
    <2>6. OneSession'
      <3>. SUFFICES ASSUME NEW s \in sessions', NEW q \in sessions', s.row = q.row PROVE s = q
        BY DEF OneSession
      <3>1. PICK o \in sessions : o.row = s.row /\ ((s = o /\ o \notin current) \/ (s = [row |-> o.row, pair |-> got, prev |-> t] /\ o \in current))
        BY <2>1
      <3>2. PICK p \in sessions : p.row = q.row /\ ((q = p /\ p \notin current) \/ (q = [row |-> p.row, pair |-> got, prev |-> t] /\ p \in current))
        BY <2>1
      <3>3. o = p
        BY <3>1, <3>2 DEF Trust, OneSession
      <3>. QED BY <3>1, <3>2, <3>3
    <2>7. RevokedStaysOut'
      BY <2>1, <2>5 DEF Trust, RevokedStaysOut
    <2>8. Rooted' /\ Tables'
      BY <2>1, <2>4 DEF Trust, Rooted, Owned, Tables
    <2>9. \A s \in sessions' : s.prev # got
      BY <2>1, <2>2, <2>3
    <2>. QED BY <2>1, <2>2, <2>6, <2>7, <2>8, <2>9 DEF Trust
  <1>. QED BY <1>1, <1>2, <1>3

(* A new code is nobody's, or that of a row nobody owns. *)
LEMMA StartStep ==
    ASSUME Trust, Locals, NEW proof \in BOOLEAN, NEW verdict, NEW got, NEW signed,
           Start(proof, verdict, got, signed)
    PROVE  /\ Trust'
           /\ verdict = "ok" /\ got \in Code /\ signed \in BOOLEAN
           /\ UNCHANGED <<sessions, sanctioned>>
           /\ \A r \in Row : code'[r] # code[r] => ~Owned(r) /\ code'[r] = got
           /\ \A r \in Row : code'[r] = got => Untried(r)'
  <1>. DEFINE known == {r \in Row : machine[r] = install}
  <1>1. /\ verdict = "ok" /\ got \in Code /\ got # None
        /\ UNCHANGED <<owner, sessions, sanctioned>>
        /\ \A r \in Row : code[r] # got
        /\ install \in Install /\ install # None
    BY FreshCodes, NoneAssumption DEF Start, Locals, Install
  <1>2. ASSUME NEW r \in Row, ~Owned(r), 
               machine' = [machine EXCEPT ![r] = install] \/ (machine' = machine /\ machine[r] = install),
               code' = [code EXCEPT ![r] = got], key' = [key EXCEPT ![r] = install],
               UNCHANGED attempts, signed = FALSE
        PROVE  /\ Trust' /\ signed \in BOOLEAN
               /\ \A q \in Row : code'[q] # code[q] => ~Owned(q) /\ code'[q] = got
               /\ \A q \in Row : code'[q] = got => Untried(q)'
    <2>1. r \notin sanctioned
      BY <1>2 DEF Trust, Rooted
    <2>2. Tables'
      BY <1>1, <1>2 DEF Trust, Tables
    <2>3. Rooted'
      BY <1>1, <1>2, <2>1 DEF Trust, Rooted, Owned, Tables
    <2>4. RevokedStaysOut' /\ OneSession'
      BY <1>1 DEF Trust, RevokedStaysOut, OneSession
    <2>5. Untried(r)'
      BY <1>1, <1>2, <2>1 DEF Untried, Trust, Rooted, RevokedStaysOut, Owned
    <2>. QED BY <1>1, <1>2, <2>2, <2>3, <2>4, <2>5 DEF Trust, Tables
  <1>3. CASE known = {}
    <2>1. PICK r \in Row : /\ machine[r] = None
                           /\ machine' = [machine EXCEPT ![r] = install]
                           /\ code' = [code EXCEPT ![r] = got]
                           /\ key' = [key EXCEPT ![r] = install]
                           /\ signed = FALSE /\ UNCHANGED attempts
      BY <1>3 DEF Start
    <2>2. ~Owned(r)
      BY <2>1 DEF Trust, Rooted
    <2>. QED BY <1>1, <1>2, <2>1, <2>2
  <1>4. ASSUME NEW r \in known, ~Owned(r), code' = [code EXCEPT ![r] = got],
               key' = [key EXCEPT ![r] = install], signed = FALSE, UNCHANGED <<machine, attempts>>
        PROVE  /\ Trust' /\ signed \in BOOLEAN
               /\ \A q \in Row : code'[q] # code[q] => ~Owned(q) /\ code'[q] = got
               /\ \A q \in Row : code'[q] = got => Untried(q)'
    BY <1>2, <1>4
  <1>5. ASSUME NEW r \in known, Owned(r), signed = Proves(r, proof),
               NEW others \in Kept(r, signed),
               attempts' = others \cup {[row |-> r, code |-> got, key |-> install,
                                         approved |-> signed, signed |-> signed]},
               UNCHANGED <<machine, code, key>>
        PROVE  /\ Trust' /\ signed \in BOOLEAN
               /\ \A q \in Row : code'[q] # code[q] => ~Owned(q) /\ code'[q] = got
               /\ \A q \in Row : code'[q] = got => Untried(q)'
    <2>1. others \subseteq attempts /\ signed \in BOOLEAN
      BY <1>5 DEF Kept, Proves
    <2>2. signed => r \in sanctioned
      BY <1>1, <1>5 DEF Proves, Trust, Rooted
    <2>3. attempts' \subseteq Attempt
      BY <1>1, <1>5, <2>1 DEF Trust, Tables, Attempt
    <2>4. Rooted'
      BY <1>1, <1>5, <2>1, <2>2 DEF Trust, Rooted, Owned
    <2>5. RevokedStaysOut' /\ OneSession' /\ Tables'
      BY <1>1, <1>5, <2>3 DEF Trust, RevokedStaysOut, OneSession, Tables
    <2>. QED BY <1>1, <1>5, <2>1, <2>4, <2>5 DEF Trust
  <1>. QED BY <1>1, <1>3, <1>4, <1>5 DEF Start

(* A session comes of a first enrolment nobody tried before, or of an       *)
(* attempt its owner approved.                                              *)
LEMMA RedeemStep ==
    ASSUME Trust, NEW c \in Code, NEW verdict, NEW got, Redeem(c, verdict, got),
           \A r \in Row : code[r] = c => Untried(r)
    PROVE  /\ Trust' /\ got \in Token \cup {None}
           /\ verdict = "ok" => got \in Token
           /\ verdict \in {"ok", "pending", "expired"}
           /\ \A s \in sessions' : s \in sessions \/ s.prev = None
           /\ got # None => \A s \in sessions' : s.prev # got
           /\ sanctioned' = sanctioned
           /\ \A r \in Row : code'[r] = c => Untried(r)'
  <1>. DEFINE first == {r \in Row : code[r] = c}
              again == {a \in attempts : a.code = c /\ c \notin lapsed}
              new(r) == [row |-> r, pair |-> got, prev |-> None]
  <1>1. CASE verdict \in {"expired", "pending"} /\ got = None /\ UNCHANGED <<dbVars, sanctioned>>
    BY <1>1 DEF dbVars, rowVars, Trust, Tables, Rooted, Owned, RevokedStaysOut, OneSession, Untried
  <1>2. ASSUME NEW r \in first, Owned(r), FreshToken(got), sessions' = sessions \cup {new(r)},
               code' = [code EXCEPT ![r] = None], verdict = "ok",
               UNCHANGED <<machine, owner, key, attempts, clocks, sanctioned>>
        PROVE  /\ Trust' /\ got \in Token /\ \A s \in sessions' : s.prev # got
               /\ \A s \in sessions' : s \in sessions \/ s.prev = None
               /\ sanctioned' = sanctioned
               /\ \A q \in Row : code'[q] = c => Untried(q)'
    <2>1. got \in Token /\ got # None /\ \A s \in sessions : s.prev # got
      BY <1>2, FreshTokens, NoneAssumption DEF Token
    <2>2. Untried(r)
      BY <1>2
    <2>3. new(r) \in Session
      BY <1>2, <2>1 DEF Session, OptToken
    <2>4. Tables'
      BY <1>2, <2>3 DEF Trust, Tables
    <2>5. Rooted'
      BY <1>2 DEF Trust, Rooted, Owned, Tables
    <2>6. RevokedStaysOut' /\ OneSession'
      BY <1>2, <2>2 DEF Trust, RevokedStaysOut, OneSession, Untried
    <2>7. c # None
      BY NoneAssumption DEF Code
    <2>8. ASSUME NEW q \in Row, code'[q] = c PROVE Untried(q)'
      <3>1. q # r /\ code[q] = c
        BY <1>2, <2>7, <2>8 DEF Trust, Tables
      <3>. QED BY <1>2, <3>1 DEF Untried, Owned
    <2>. QED BY <1>2, <2>1, <2>4, <2>5, <2>6, <2>8 DEF Trust
  <1>3. ASSUME NEW a \in again, first = {}, a.approved, FreshToken(got),
               sessions' = OtherSessions(a.row) \cup {new(a.row)}, verdict = "ok",
               attempts' \subseteq attempts,
               key' = key \/ key' = [key EXCEPT ![a.row] = a.key],
               UNCHANGED <<machine, owner, code, clocks, sanctioned>>
        PROVE  /\ Trust' /\ got \in Token /\ \A s \in sessions' : s.prev # got
               /\ \A s \in sessions' : s \in sessions \/ s.prev = None
               /\ sanctioned' = sanctioned
               /\ \A q \in Row : code'[q] = c => Untried(q)'
    <2>1. got \in Token /\ got # None /\ \A s \in sessions : s.prev # got
      BY <1>3, FreshTokens, NoneAssumption DEF Token
    <2>2. a.row \in Row /\ a.key \in Install /\ a.row \in sanctioned
      BY <1>3 DEF Trust, Tables, Attempt, Rooted
    <2>3. new(a.row) \in Session
      BY <2>1, <2>2 DEF Session, OptToken
    <2>4. Tables'
      BY <1>3, <2>2, <2>3 DEF Trust, Tables, OtherSessions
    <2>5. Rooted'
      BY <1>3, <2>2 DEF Trust, Rooted, Owned, Tables
    <2>6. RevokedStaysOut' /\ OneSession'
      BY <1>3, <2>2 DEF Trust, RevokedStaysOut, OneSession, OtherSessions
    <2>7. \A q \in Row : code'[q] # c
      BY <1>3
    <2>8. \A s \in sessions' : s.prev # got /\ (s \in sessions \/ s.prev = None)
      BY <1>3, <2>1 DEF OtherSessions
    <2>. QED BY <1>3, <2>1, <2>4, <2>5, <2>6, <2>7, <2>8 DEF Trust
  <1>4. CASE \E r \in first : /\ Owned(r) /\ FreshToken(got)
                               /\ sessions' = sessions \cup {new(r)}
                               /\ code' = [code EXCEPT ![r] = None] /\ verdict = "ok"
                               /\ UNCHANGED <<machine, owner, key, attempts, clocks, sanctioned>>
    BY <1>2, <1>4
  <1>5. CASE /\ first = {} /\ verdict = "ok"
             /\ UNCHANGED <<machine, owner, code, clocks, sanctioned>>
             /\ \E a \in again :
                   /\ a.approved /\ FreshToken(got)
                   /\ sessions' = OtherSessions(a.row) \cup {new(a.row)}
                   /\ IF a.signed
                      THEN attempts' = attempts \ {a} /\ UNCHANGED key
                      ELSE /\ attempts' = {b \in attempts : b.row # a.row}
                           /\ key' = [key EXCEPT ![a.row] = a.key]
    <2>1. PICK a \in again :
                   /\ a.approved /\ FreshToken(got)
                   /\ sessions' = OtherSessions(a.row) \cup {new(a.row)}
                   /\ attempts' \subseteq attempts
                   /\ key' = key \/ key' = [key EXCEPT ![a.row] = a.key]
      BY <1>5
    <2>. QED BY <1>3, <1>5, <2>1 DEF OtherSessions
  <1>. QED BY <1>1, <1>4, <1>5 DEF Redeem

-----------------------------------------------------------------------------
(* The worker's side. *)

LEMMA UnansweredIsFlow ==
    ASSUME NEW f \in Flow
    PROVE  /\ Unanswered(f) \in Flow /\ Unanswered(f).stage = f.stage
           /\ Unanswered(f).phase = "failed" /\ Unanswered(f).arg = f.arg
  BY DEF Unanswered, Flow

LEMMA Idle == ASSUME NEW c \in Caller, flow[c] = NoFlow
              PROVE  \A stage, phase : stage # "none" => ~At(c, stage, phase) /\ ~Ok(c, stage)
                     /\ \A x : ~Holds(c, x)
  BY NoFlowIsFlow DEF At, Ok, Holds

(* Whoever is in the middle of something is the only one. *)
LEMMA Only ==
    ASSUME Alone, NEW c \in Caller, flow[c].phase # "none"
    PROVE  /\ \A d \in Caller \ {c} : flow[d] = NoFlow
           /\ pc # "down" /\ (pc # "running" => c = "queue")
  BY NoFlowIsFlow DEF Alone, NoneInFlight, Caller

LEMMA NotOk ==
    ASSUME Inv, NEW c \in Caller, flow[c].phase # "none", ~Ok(c, "refresh")
    PROVE  torn \/ \A s \in sessions : s.prev = None \/ s.prev \notin {disk, mem}
  <1>1. \A d \in Caller : ~Ok(d, "refresh")
    BY Only, Idle DEF Inv
  <1>. QED BY <1>1 DEF Inv, PresentsCurrent

LEMMA HandleStep == ASSUME Inv, NEW c \in Caller, Handle(c) PROVE Inv'
  <1>. DEFINE f == flow[c]
  <1>0. PICK verdict \in {"ok", "refused", "pending", "expired"},
             got \in Token \cup Code \cup {None}, signed \in BOOLEAN, proof \in BOOLEAN :
               /\ \/ f.stage = "refresh" /\ Refresh(f.arg, verdict, got) /\ ~signed /\ proof
                  \/ f.stage = "start" /\ Start(proof, verdict, got, signed)
                  \/ f.stage = "poll" /\ Redeem(f.arg, verdict, got) /\ signed = f.signed /\ proof
               /\ IF proof THEN UNCHANGED events ELSE Rationed("lost")
               /\ flow' = [flow EXCEPT ![c] = Answered(f, verdict, got, signed)]
    BY Zenon DEF Handle
  <1>1.        /\ \/ f.stage = "refresh" /\ Refresh(f.arg, verdict, got)
                  \/ f.stage = "start" /\ Start(proof, verdict, got, signed)
                  \/ f.stage = "poll" /\ Redeem(f.arg, verdict, got)
               /\ events' = events \/ events' = events + 1
               /\ flow' = [flow EXCEPT ![c] = Answered(f, verdict, got, signed)]
    BY <1>0 DEF Rationed
  <1>2. f.phase = "request" /\ UNCHANGED <<pc, install, disk, mem, loop, torn>>
    BY DEF Handle
  <1>3. /\ \A d \in Caller \ {c} : flow[d] = NoFlow /\ flow'[d] = NoFlow
        /\ pc # "down" /\ (pc # "running" => c = "queue")
    BY <1>1, <1>2, Only DEF Inv, Locals
  <1>4. /\ f \in Flow /\ flow'[c] \in Flow /\ flow'[c].stage = f.stage
        /\ flow'[c].phase = "response" /\ flow'[c].arg = f.arg
        /\ flow'[c].verdict = verdict /\ flow'[c].got = got
    <2>1. f \in Flow /\ flow'[c] = Answered(f, verdict, got, signed)
      BY <1>1 DEF Inv, Locals
    <2>2. f.stage \in {"none", "refresh", "start", "poll"} /\ f.arg \in Token \cup Code \cup {None}
      BY <2>1 DEF Flow
    <2>. QED BY <2>1, <2>2 DEF Answered, Flow
  <1>5. Locals'
    BY <1>1, <1>2, <1>4 DEF Inv, Locals
  <1>6. Alone'
    BY <1>2, <1>3 DEF Inv, Alone, NoneInFlight, Caller
  <1>7. \A d \in Caller \ {c} : \A x : ~Holds(d, x)'
    BY <1>3, NoFlowIsFlow DEF Holds
  <1>8. torn \/ \A s \in sessions : s.prev = None \/ s.prev \notin {disk, mem}
    BY <1>2, NotOk DEF Ok, At
  <1>9. ASSUME /\ f.stage = "poll" => f.arg \in Code
               /\ f.stage = "start" => got \in Code
               /\ f.stage \in {"refresh", "poll"} /\ verdict = "ok" =>
                     got \in Token /\ \A s \in sessions' : s.prev # got
        PROVE  CallsAreSound'
    <2>1. ASSUME NEW d \in Caller \ {c}
          PROVE  flow'[d].stage = "none"
      BY <1>3, NoFlowIsFlow
    <2>. QED BY <1>4, <1>9, <2>1 DEF CallsAreSound, At, Ok
  <1>10. CASE f.stage = "refresh"
    <2>1. Refresh(f.arg, verdict, got)
      BY <1>1, <1>10
    <2>2. /\ Trust' /\ (verdict = "ok" => got \in Token /\ \A s \in sessions' : s.prev # got)
          /\ (verdict # "ok" => sessions' \subseteq sessions)
      BY <2>1, RefreshStep DEF Inv
    <2>3. HeldIsUntried'
      BY <1>4, <1>7, <1>10 DEF HeldIsUntried, Holds
    <2>4. CallsAreSound'
      BY <1>9, <1>10, <2>2
    <2>5. PresentsCurrent'
      BY <1>2, <1>4, <1>8, <1>10, <2>2 DEF PresentsCurrent, Ok, At
    <2>. QED BY <1>5, <1>6, <2>2, <2>3, <2>4, <2>5 DEF Inv
  <1>11. CASE f.stage = "start"
    <2>1. Start(proof, verdict, got, signed)
      BY <1>1, <1>11
    <2>2. /\ Trust' /\ got \in Code /\ sessions' = sessions
          /\ \A r \in Row : code'[r] = got => Untried(r)'
      BY <2>1, StartStep DEF Inv
    <2>3. \A x : Holds(c, x)' => x = got
      BY <1>4, <1>11 DEF Holds
    <2>4. HeldIsUntried'
      BY <1>7, <2>2, <2>3 DEF HeldIsUntried
    <2>5. CallsAreSound'
      BY <1>9, <1>11, <2>2
    <2>6. PresentsCurrent'
      BY <1>2, <1>8, <2>2 DEF PresentsCurrent
    <2>. QED BY <1>5, <1>6, <2>2, <2>4, <2>5, <2>6 DEF Inv
  <1>12. CASE f.stage = "poll"
    <2>1. Redeem(f.arg, verdict, got)
      BY <1>1, <1>12
    <2>2. f.arg \in Code
      BY <1>12 DEF Inv, CallsAreSound
    <2>3. \A r \in Row : code[r] = f.arg => Untried(r)
      <3>1. f.arg # None
        BY <2>2, NoneAssumption DEF Code
      <3>. QED BY <1>12, <3>1 DEF Inv, HeldIsUntried, Holds
    <2>4. /\ Trust' /\ (verdict = "ok" => got \in Token)
          /\ \A s \in sessions' : s \in sessions \/ s.prev = None
          /\ got # None => \A s \in sessions' : s.prev # got
          /\ \A r \in Row : code'[r] = f.arg => Untried(r)'
      BY <2>1, <2>2, <2>3, RedeemStep DEF Inv
    <2>5. \A x : Holds(c, x)' => x = f.arg
      BY <1>4, <1>12 DEF Holds
    <2>6. HeldIsUntried'
      BY <1>7, <2>4, <2>5 DEF HeldIsUntried
    <2>7. CallsAreSound'
      <3>1. verdict = "ok" => got \in Token /\ got # None
        BY <2>4, NoneAssumption DEF Token
      <3>. QED BY <1>9, <1>12, <2>2, <2>4, <3>1
    <2>8. PresentsCurrent'
      BY <1>2, <1>8, <2>4 DEF PresentsCurrent
    <2>. QED BY <1>5, <1>6, <2>4, <2>6, <2>7, <2>8 DEF Inv
  <1>. QED BY <1>1, <1>10, <1>11, <1>12

LEMMA TrustKept ==
    ASSUME Inv, UNCHANGED <<rowVars, attempts, sessions, sanctioned>>
    PROVE  Trust' /\ \A r \in Row : Untried(r) => Untried(r)'
  BY DEF Inv, Trust, Tables, rowVars, Rooted, Owned, RevokedStaysOut, OneSession, Untried

(* The caller that talks goes on to say something else, or stops. *)
LEMMA Talks ==
    ASSUME Inv, NEW c \in Caller, NEW g \in Flow, flow' = [flow EXCEPT ![c] = g],
           \A d \in Caller \ {c} : flow[d] = NoFlow,
           UNCHANGED <<rowVars, attempts, sessions, sanctioned, install>>, events' \in Nat,
           disk' \in OptToken, mem' \in OptToken,
           pc' \in {"registering", "running"} => mem' \in Token,
           pc' = "down" => g = NoFlow, pc' # "running" => c = "queue" \/ g = NoFlow,
           g.stage = "poll" => g.arg \in Code /\ Holds(c, g.arg),
           g.stage = "refresh" /\ g.phase = "request" => g.arg = mem' /\ mem' \in Token,
           g.phase # "response",
           torn' \/ \A s \in sessions : s.prev = None \/ s.prev \notin {disk', mem'}
    PROVE  Inv'
  <1>1. Trust' /\ \A r \in Row : Untried(r) => Untried(r)'
    BY TrustKept
  <1>2. Locals'
    BY DEF Inv, Locals
  <1>3. flow'[c] = g /\ \A d \in Caller \ {c} : flow'[d] = NoFlow
    BY DEF Inv, Locals
  <1>4. Alone'
    BY <1>3 DEF Alone, NoneInFlight, Caller
  <1>5. \A d \in Caller : \A x : Holds(d, x)' => d = c /\ Holds(c, x)
    BY <1>3, NoFlowIsFlow DEF Holds
  <1>6. HeldIsUntried'
    BY <1>1, <1>5 DEF Inv, HeldIsUntried, rowVars
  <1>7. CallsAreSound'
    BY <1>3, NoFlowIsFlow DEF CallsAreSound, At, Ok
  <1>8. PresentsCurrent'
    BY DEF PresentsCurrent
  <1>. QED BY <1>1, <1>2, <1>4, <1>6, <1>7, <1>8 DEF Inv

(* Nobody talks any more. *)
LEMMA Silent ==
    ASSUME Inv, flow' \in [Caller -> Flow], \A c \in Caller : flow'[c] = NoFlow,
           UNCHANGED <<rowVars, attempts, sessions, sanctioned>>, events' \in Nat,
           install' \in Install, disk' \in OptToken, mem' \in OptToken,
           pc' \in {"registering", "running"} => mem' \in Token,
           torn' \/ \A s \in sessions : s.prev = None \/ s.prev \notin {disk', mem'}
    PROVE  Inv'
  <1>1. Trust'
    BY TrustKept
  <1>2. Locals' /\ Alone'
    BY DEF Locals, Alone, NoneInFlight, Caller
  <1>3. HeldIsUntried' /\ CallsAreSound'
    BY NoFlowIsFlow DEF HeldIsUntried, Holds, CallsAreSound, At, Ok
  <1>4. PresentsCurrent'
    BY DEF PresentsCurrent
  <1>. QED BY <1>1, <1>2, <1>3, <1>4 DEF Inv

(* The database changes behind the worker's back. *)
LEMMA Behind ==
    ASSUME Inv, UNCHANGED <<workerVars, torn>>, events' \in Nat, Trust',
           sessions' \subseteq sessions,
           \A c \in Caller, r \in Row : code'[r] # None /\ Holds(c, code'[r]) => Untried(r)'
    PROVE  Inv'
  <1>1. Locals' /\ Alone'
    BY DEF Inv, Locals, Alone, NoneInFlight, workerVars
  <1>2. HeldIsUntried'
    BY DEF HeldIsUntried, Holds, workerVars
  <1>3. CallsAreSound'
    BY DEF Inv, CallsAreSound, At, Ok, workerVars
  <1>4. PresentsCurrent'
    BY DEF Inv, PresentsCurrent, At, Ok, workerVars
  <1>. QED BY <1>1, <1>2, <1>3, <1>4 DEF Inv

-----------------------------------------------------------------------------
LEMMA InitInv == Init => Inv
  <1>. SUFFICES ASSUME Init PROVE Inv
    OBVIOUS
  <1>1. PICK legacy \in BOOLEAN, u \in User :
          /\ machine = [r \in Row |-> IF legacy /\ r = 1 THEN 1 ELSE None]
          /\ owner = [r \in Row |-> IF legacy /\ r = 1 THEN u ELSE None]
          /\ sessions = IF legacy THEN {[row |-> 1, pair |-> 1, prev |-> None]} ELSE {}
          /\ disk = IF legacy THEN 1 ELSE None
          /\ sanctioned = IF legacy THEN {1} ELSE {}
    BY DEF Init
  <1>2. 1 \in Row /\ 1 \in Install /\ 1 \in Token /\ 1 # None /\ u # None
    BY SizesAssumption, NoneAssumption DEF Row, Install, Token
  <1>3. Tables
    BY <1>1, <1>2 DEF Init, Tables, Session, OptToken
  <1>4. Rooted
    BY <1>1, <1>2 DEF Init, Rooted, Owned
  <1>5. RevokedStaysOut /\ OneSession
    BY <1>1, <1>2 DEF RevokedStaysOut, OneSession
  <1>6. Locals
    BY <1>1, <1>2, NoFlowIsFlow DEF Init, Locals, OptToken
  <1>7. Alone /\ HeldIsUntried /\ CallsAreSound
    BY NoFlowIsFlow DEF Init, Alone, NoneInFlight, HeldIsUntried, Holds, CallsAreSound, At, Ok, Caller
  <1>8. PresentsCurrent
    BY <1>1 DEF PresentsCurrent
  <1>. QED BY <1>3, <1>4, <1>5, <1>6, <1>7, <1>8 DEF Inv, Trust

LEMMA BootStep == ASSUME Inv, Boot PROVE Inv'
  <1>1. /\ pc = "down" /\ mem' = disk
        /\ UNCHANGED <<dbVars, install, disk, loop, sanctioned, torn, events>>
    BY DEF Boot
  <1>2. \A c \in Caller : flow[c] = NoFlow
    BY <1>1 DEF Inv, Alone, NoneInFlight
  <1>3. torn \/ \A s \in sessions : s.prev = None \/ s.prev \notin {disk, mem'}
    <2>1. \A c \in Caller : ~Ok(c, "refresh")
      BY <1>2, Idle
    <2>. QED BY <1>1, <2>1 DEF Inv, PresentsCurrent
  <1>4. CASE disk # None
    <2>1. disk \in Token /\ pc' = "registering" /\ flow' = flow
      BY <1>4 DEF Boot, Inv, Locals, OptToken
    <2>. QED BY <1>1, <1>2, <1>3, <2>1, Silent DEF dbVars, Inv, Locals
  <1>5. CASE disk = None
    <2>. DEFINE g == Ask("start", None, FALSE)
    <2>1. pc' = "enrolling" /\ flow' = [flow EXCEPT !["queue"] = g]
      BY <1>5 DEF Boot
    <2>2. g \in Flow /\ g.stage = "start" /\ g.phase = "request"
      BY AskIsFlow
    <2>. HIDE DEF g
    <2>. QED BY <1>1, <1>2, <1>3, <2>1, <2>2, Talks DEF dbVars, Inv, Locals, Caller
  <1>. QED BY <1>4, <1>5

LEMMA RegisterKeyStep == ASSUME Inv, RegisterKey PROVE Inv'
  <1>1. /\ pc = "registering" /\ flow["queue"] = NoFlow
        /\ UNCHANGED <<machine, owner, code, attempts, sessions, clocks, install,
                       disk, mem, loop, sanctioned, torn, events>>
    BY DEF RegisterKey
  <1>2. (\A c \in Caller : flow[c] = NoFlow) /\ mem \in Token
    BY <1>1 DEF Inv, Alone, Caller
  <1>3. torn \/ \A s \in sessions : s.prev = None \/ s.prev \notin {disk, mem}
    <2>1. \A c \in Caller : ~Ok(c, "refresh")
      BY <1>2, Idle
    <2>. QED BY <2>1 DEF Inv, PresentsCurrent
  <1>4. CASE Accepted(mem)
    <2>1. /\ key' = [r \in Row |-> IF key[r] = None /\ \E s \in sessions : s.row = r /\ s.pair = mem
                                   THEN install ELSE key[r]]
          /\ pc' = "running" /\ flow' = flow
      BY <1>4 DEF RegisterKey
    <2>2. Trust'
      <3>1. Tables'
        BY <1>1, <2>1 DEF Inv, Trust, Tables, Locals
      <3>2. Rooted'
        BY <1>1, <2>1 DEF Inv, Trust, Rooted, Owned, RevokedStaysOut
      <3>. QED BY <1>1, <3>1, <3>2 DEF Inv, Trust, RevokedStaysOut, OneSession
    <2>3. Locals' /\ Alone' /\ HeldIsUntried' /\ CallsAreSound' /\ PresentsCurrent'
      BY <1>1, <1>2, <1>3, <2>1, NoFlowIsFlow DEF Inv, Locals, Alone, NoneInFlight, HeldIsUntried, Holds,
         CallsAreSound, At, Ok, PresentsCurrent
    <2>. QED BY <2>2, <2>3 DEF Inv
  <1>5. CASE ~Accepted(mem)
    <2>. DEFINE g == Ask("refresh", mem, FALSE)
    <2>1. flow' = [flow EXCEPT !["queue"] = g] /\ UNCHANGED <<key, pc>>
      BY <1>5 DEF RegisterKey
    <2>2. g \in Flow /\ g.stage = "refresh" /\ g.phase = "request" /\ g.arg = mem
      BY <1>2 DEF Ask, Flow
    <2>. HIDE DEF g
    <2>. QED BY <1>1, <1>2, <1>3, <2>1, <2>2, Talks DEF rowVars, Inv, Locals, Caller
  <1>. QED BY <1>4, <1>5

LEMMA RefreshAuthStep == ASSUME Inv, NEW c \in Caller, RefreshAuth(c) PROVE Inv'
  <1>1. /\ pc = "running"
        /\ UNCHANGED <<dbVars, pc, install, disk, mem, sanctioned, torn, events>>
        /\ flow' = IF NoneInFlight THEN [flow EXCEPT ![c] = Ask("refresh", mem, FALSE)] ELSE flow
    BY DEF RefreshAuth
  <1>2. CASE NoneInFlight
    <2>. DEFINE g == Ask("refresh", mem, FALSE)
    <2>1. flow' = [flow EXCEPT ![c] = g] /\ mem \in Token /\ \A d \in Caller : flow[d] = NoFlow
      BY <1>1, <1>2 DEF NoneInFlight, Inv, Alone
    <2>2. g \in Flow /\ g.stage = "refresh" /\ g.phase = "request" /\ g.arg = mem
      BY <2>1 DEF Ask, Flow
    <2>3. torn \/ \A s \in sessions : s.prev = None \/ s.prev \notin {disk, mem}
      <3>1. \A d \in Caller : ~Ok(d, "refresh")
        BY <2>1, Idle
      <3>. QED BY <3>1 DEF Inv, PresentsCurrent
    <2>. HIDE DEF g
    <2>. QED BY <1>1, <2>1, <2>2, <2>3, Talks DEF dbVars, Inv, Locals
  <1>3. CASE ~NoneInFlight
    BY <1>1, <1>3, TrustKept DEF dbVars, Inv, Locals, Alone, NoneInFlight, HeldIsUntried, Holds,
       CallsAreSound, At, Ok, PresentsCurrent, rowVars
  <1>. QED BY <1>2, <1>3

LEMMA AdoptStep == ASSUME Inv, NEW c \in Caller, Adopt(c) PROVE Inv'
  <1>1. /\ Ok(c, "refresh") \/ Ok(c, "poll")
        /\ disk' = flow[c].got /\ mem' = flow[c].got
        /\ flow' = [flow EXCEPT ![c] = NoFlow]
        /\ pc' = IF pc = "enrolling" THEN "registering" ELSE pc
        /\ UNCHANGED <<dbVars, install, sanctioned, torn, events>>
    BY DEF Adopt, Persisted
  <1>2. flow[c].got \in Token /\ \A s \in sessions : s.prev # flow[c].got
    BY <1>1 DEF Inv, CallsAreSound
  <1>3. (\A d \in Caller \ {c} : flow[d] = NoFlow) /\ pc # "down"
    BY <1>1, Only DEF Inv, Ok, At
  <1>. QED BY <1>1, <1>2, <1>3, NoFlowIsFlow, Talks DEF dbVars, OptToken, Inv, Locals

LEMMA ContinueStep == ASSUME Inv, NEW c \in Caller, Continue(c) PROVE Inv'
  <1>1. /\ UNCHANGED <<dbVars, pc, install, disk, mem, loop, sanctioned, torn, events>>
        /\ flow[c].phase # "none" /\ ~Ok(c, "refresh")
    BY DEF Continue, At, Ok
  <1>2. PICK g \in Flow : /\ flow' = [flow EXCEPT ![c] = g] /\ g.phase = "request"
                          /\ g.stage \in {"start", "poll"}
                          /\ g.stage = "poll" => g.arg \in Code /\ Holds(c, g.arg)
    <2>1. CASE At(c, "refresh", "response") /\ flow' = [flow EXCEPT ![c] = Ask("start", None, FALSE)]
      BY <2>1, AskIsFlow
    <2>2. CASE Ok(c, "start") /\ flow' = [flow EXCEPT ![c] = Ask("poll", flow[c].got, flow[c].signed)]
      <3>1. flow[c].got \in Code /\ Holds(c, flow[c].got) /\ flow[c].signed \in BOOLEAN
        BY <2>2 DEF Inv, CallsAreSound, Ok, At, Holds, Locals, Flow
      <3>. DEFINE g == Ask("poll", flow[c].got, flow[c].signed)
      <3>2. g \in Flow /\ g.stage = "poll" /\ g.phase = "request" /\ g.arg = flow[c].got
        BY <3>1 DEF Ask, Flow
      <3>. QED BY <2>2, <3>1, <3>2
    <2>3. CASE At(c, "poll", "response") /\ flow' = [flow EXCEPT ![c] = Ask("poll", flow[c].arg, FALSE)]
      <3>1. flow[c].arg \in Code /\ Holds(c, flow[c].arg)
        BY <2>3 DEF Inv, CallsAreSound, At, Holds
      <3>. DEFINE g == Ask("poll", flow[c].arg, FALSE)
      <3>2. g \in Flow /\ g.stage = "poll" /\ g.phase = "request" /\ g.arg = flow[c].arg
        BY <3>1 DEF Ask, Flow
      <3>. QED BY <2>3, <3>1, <3>2
    <2>. QED BY <2>1, <2>2, <2>3 DEF Continue
  <1>3. /\ \A d \in Caller \ {c} : flow[d] = NoFlow
        /\ pc # "down" /\ (pc # "running" => c = "queue")
    BY <1>1, Only DEF Inv
  <1>4. torn \/ \A s \in sessions : s.prev = None \/ s.prev \notin {disk, mem}
    BY <1>1, NotOk
  <1>. QED BY <1>1, <1>2, <1>3, <1>4, Talks DEF dbVars, Inv, Locals, Alone

LEMMA AbandonStep ==
    ASSUME Inv, NEW c \in Caller, Abandon(c), flow[c].phase # "none", ~Ok(c, "refresh"),
           UNCHANGED <<rowVars, attempts, sessions, install, disk, mem, sanctioned, torn, events>>
    PROVE  Inv'
  <1>1. /\ flow' = [flow EXCEPT ![c] = NoFlow]
        /\ pc' = CASE pc = "enrolling" -> "down" [] pc = "registering" -> "running" [] OTHER -> pc
    BY DEF Abandon
  <1>2. /\ \A d \in Caller \ {c} : flow[d] = NoFlow
        /\ pc # "down" /\ (pc # "running" => c = "queue")
    BY Only DEF Inv
  <1>3. torn \/ \A s \in sessions : s.prev = None \/ s.prev \notin {disk, mem}
    BY NotOk
  <1>4. pc' \in {"registering", "running"} => mem \in Token
    BY <1>1 DEF Inv, Alone
  <1>. QED BY <1>1, <1>2, <1>3, <1>4, NoFlowIsFlow, Talks DEF Inv, Locals

LEMMA TimesOutStep == ASSUME Inv, NEW c \in Caller, TimesOut(c) PROVE Inv'
  <1>1. /\ flow[c].phase # "none" /\ flow' = [flow EXCEPT ![c] = Unanswered(flow[c])]
        /\ torn' = (torn \/ Ok(c, "refresh")) /\ events' = events + 1
        /\ UNCHANGED <<dbVars, pc, install, disk, mem, loop, sanctioned>>
    BY DEF TimesOut, Rationed
  <1>2. /\ \A d \in Caller \ {c} : flow[d] = NoFlow
        /\ pc # "down" /\ (pc # "running" => c = "queue")
    BY <1>1, Only DEF Inv
  <1>. DEFINE g == Unanswered(flow[c])
  <1>3. g \in Flow /\ g.stage = flow[c].stage /\ g.phase = "failed" /\ g.arg = flow[c].arg
    BY UnansweredIsFlow DEF Inv, Locals
  <1>4. g.stage = "poll" => g.arg \in Code /\ Holds(c, g.arg)
    BY <1>3 DEF Inv, CallsAreSound, Holds
  <1>5. torn' \/ \A s \in sessions : s.prev = None \/ s.prev \notin {disk, mem}
    BY <1>1, NotOk
  <1>. HIDE DEF g
  <1>6. flow' = [flow EXCEPT ![c] = g]
    BY <1>1 DEF g
  <1>7. /\ UNCHANGED <<rowVars, attempts, sessions, sanctioned, install>> /\ events' \in Nat
        /\ disk' \in OptToken /\ mem' \in OptToken /\ disk' = disk /\ mem' = mem
        /\ pc' \in {"registering", "running"} => mem' \in Token
    BY <1>1 DEF dbVars, Inv, Locals, Alone
  <1>. QED BY <1>1, <1>2, <1>3, <1>4, <1>5, <1>6, <1>7, Talks

LEMMA DownStep == ASSUME Inv, Crash \/ Reinstall PROVE Inv'
  <1>1. /\ flow' = [c \in Caller |-> NoFlow] /\ mem' = None
        /\ UNCHANGED <<dbVars, sanctioned>> /\ events' = events + 1 /\ pc' = "down"
        /\ install' \in Install /\ disk' \in {disk, None}
    <2>1. CASE Crash
      BY <2>1 DEF Crash, Rationed, Inv, Locals
    <2>2. CASE Reinstall
      BY <2>2, SizesAssumption DEF Reinstall, Rationed, Inv, Locals, Install
    <2>. QED BY <2>1, <2>2
  <1>2. torn' \/ \A s \in sessions : s.prev = None \/ s.prev \notin {disk', mem'}
    BY <1>1 DEF Inv, PresentsCurrent, Crash, Reinstall
  <1>. QED BY <1>1, <1>2, NoFlowIsFlow, Silent DEF dbVars, Inv, Locals, OptToken

-----------------------------------------------------------------------------
(* The owner. *)

LEMMA ApproveStep == ASSUME Inv, NEW u \in User, Approve(u) PROVE Inv'
  <1>1. UNCHANGED <<machine, code, key, sessions, workerVars, torn, events>>
    BY DEF Approve
  <1>2. u # None
    BY NoneAssumption
  <1>3. ASSUME NEW r \in Row, code[r] # None, ~Owned(r), owner' = [owner EXCEPT ![r] = u],
               sanctioned' = sanctioned \cup {r}, UNCHANGED attempts
        PROVE  Trust' /\ \A q \in Row : Untried(q) => Untried(q)'
    <2>1. Tables'
      BY <1>1, <1>3 DEF Inv, Trust, Tables
    <2>2. Rooted'
      BY <1>1, <1>2, <1>3 DEF Inv, Trust, Tables, Rooted, Owned
    <2>3. RevokedStaysOut' /\ OneSession'
      BY <1>1, <1>3 DEF Inv, Trust, RevokedStaysOut, OneSession
    <2>. QED BY <1>1, <1>3, <2>1, <2>2, <2>3 DEF Inv, Trust, Tables, Untried, Owned
  <1>4. ASSUME NEW a \in attempts, owner[a.row] = u,
               attempts' = (attempts \ {a}) \cup {[a EXCEPT !.approved = TRUE]},
               sanctioned' = sanctioned \cup {a.row}, UNCHANGED owner
        PROVE  Trust' /\ \A q \in Row : Untried(q) => Untried(q)'
    <2>1. [a EXCEPT !.approved = TRUE] \in Attempt /\ [a EXCEPT !.approved = TRUE].row = a.row
          /\ a.row \in Row
      BY DEF Inv, Trust, Tables, Attempt
    <2>2. Tables'
      BY <1>1, <1>4, <2>1 DEF Inv, Trust, Tables
    <2>3. Rooted'
      BY <1>1, <1>2, <1>4, <2>1 DEF Inv, Trust, Rooted, Owned
    <2>4. RevokedStaysOut' /\ OneSession'
      BY <1>1, <1>4 DEF Inv, Trust, RevokedStaysOut, OneSession
    <2>. QED BY <1>1, <1>4, <2>1, <2>2, <2>3, <2>4 DEF Trust, Untried, Owned
  <1>5. Trust' /\ \A q \in Row : Untried(q) => Untried(q)'
    BY <1>3, <1>4 DEF Approve
  <1>6. \A c \in Caller, r \in Row : code'[r] # None /\ Holds(c, code'[r]) => Untried(r)'
    BY <1>1, <1>5 DEF Inv, HeldIsUntried
  <1>. QED BY <1>1, <1>5, <1>6, Behind DEF Inv, Locals

LEMMA MergeStep ==
    ASSUME Inv, NEW u \in User, NEW p \in Row, NEW t \in Row, Merge(u, p, t)
    PROVE  Inv'
  <1>1. /\ code[p] # None /\ ~Owned(p) /\ owner[t] = u /\ p # t
        /\ machine' = [machine EXCEPT ![p] = None, ![t] = machine[p]]
        /\ code' = [code EXCEPT ![p] = None, ![t] = code[p]]
        /\ key' = [key EXCEPT ![p] = None, ![t] = key[p]]
        /\ sessions' = {s \in sessions : s.row # t}
        /\ attempts' = {a \in attempts : a.row # t}
        /\ sanctioned' = sanctioned \cup {t}
        /\ UNCHANGED <<owner, workerVars, torn, events>>
    BY NoneAssumption DEF Merge, Owned
  <1>2. /\ \A r \in Row \ {p, t} : machine'[r] = machine[r] /\ code'[r] = code[r] /\ key'[r] = key[r]
        /\ machine'[p] = None /\ code'[p] = None /\ key'[p] = None
        /\ machine'[t] = machine[p] /\ code'[t] = code[p] /\ key'[t] = key[p]
    BY <1>1 DEF Inv, Trust, Tables
  <1>3. Tables'
    BY <1>1 DEF Inv, Trust, Tables
  <1>4. Owned(t) /\ machine[p] # None
    BY <1>1, NoneAssumption DEF Inv, Trust, Rooted, Owned
  <1>5. Rooted'
    <2>1. \A r \in Row : code'[r] # None \/ Owned(r)' => machine'[r] # None
      BY <1>1, <1>2, <1>4 DEF Inv, Trust, Rooted, Owned
    <2>2. \A r \in sanctioned' : Owned(r)'
      BY <1>1, <1>4 DEF Inv, Trust, Rooted, Owned
    <2>3. \A r \in Row : Owned(r)' /\ key'[r] # None => r \in sanctioned'
      BY <1>1, <1>2 DEF Inv, Trust, Rooted, Owned
    <2>4. \A a \in attempts' : Owned(a.row)' /\ (a.approved => a.row \in sanctioned')
      BY <1>1 DEF Inv, Trust, Rooted, Owned
    <2>. QED BY <2>1, <2>2, <2>3, <2>4 DEF Rooted
  <1>6. RevokedStaysOut' /\ OneSession'
    BY <1>1 DEF Inv, Trust, RevokedStaysOut, OneSession
  <1>7. ASSUME NEW c \in Caller, NEW r \in Row, code'[r] # None, Holds(c, code'[r])
        PROVE  Untried(r)'
    <2>1. CASE r = t
      BY <1>1, <2>1 DEF Untried
    <2>2. CASE r # t
      <3>1. code'[r] = code[r]
        BY <1>2, <1>7, <2>2
      <3>. QED BY <1>1, <1>7, <3>1 DEF Inv, HeldIsUntried, Untried, Owned
    <2>. QED BY <2>1, <2>2
  <1>. QED BY <1>1, <1>3, <1>5, <1>6, <1>7, Behind DEF Inv, Trust, Locals

LEMMA RevokeStep == ASSUME Inv, NEW u \in User, NEW r \in Row, Revoke(u, r) PROVE Inv'
  <1>1. /\ \E s \in sessions : s.row = r
        /\ RevokeTrust({r}) /\ events' = events + 1
        /\ UNCHANGED <<machine, owner, code, workerVars, torn>>
    BY DEF Revoke, Rationed
  <1>2. /\ Trust' /\ sessions' = {s \in sessions : s.row \notin {r}}
        /\ attempts' = {a \in attempts : a.row \notin {r}} /\ sanctioned' = sanctioned \ {r}
    BY <1>1, TrustRevoked DEF Inv
  <1>3. \A c \in Caller, q \in Row : code'[q] # None /\ Holds(c, code'[q]) => Untried(q)'
    BY <1>1, <1>2 DEF Inv, HeldIsUntried, Untried, Owned
  <1>. QED BY <1>1, <1>2, <1>3, Behind DEF Inv, Locals

LEMMA DeleteStep == ASSUME Inv, NEW u \in User, NEW r \in Row, Delete(u, r) PROVE Inv'
  <1>1. /\ machine' = [machine EXCEPT ![r] = None] /\ owner' = [owner EXCEPT ![r] = None]
        /\ code' = [code EXCEPT ![r] = None] /\ events' = events + 1
        /\ sessions' = {s \in sessions : s.row # r}
        /\ key' = [q \in Row |-> IF q = r THEN None ELSE key[q]]
        /\ attempts' = {a \in attempts : a.row # r} /\ sanctioned' = sanctioned \ {r}
        /\ UNCHANGED <<workerVars, torn>>
    BY DEF Delete, Rationed, RevokeTrust, WithoutAttempts
  <1>2. Tables'
    BY <1>1 DEF Inv, Trust, Tables
  <1>3. Rooted'
    BY <1>1 DEF Inv, Trust, Tables, Rooted, Owned
  <1>4. RevokedStaysOut' /\ OneSession'
    BY <1>1 DEF Inv, Trust, RevokedStaysOut, OneSession
  <1>5. \A c \in Caller, q \in Row : code'[q] # None /\ Holds(c, code'[q]) => Untried(q)'
    BY <1>1 DEF Inv, Trust, Tables, HeldIsUntried, Untried, Owned
  <1>. QED BY <1>1, <1>2, <1>3, <1>4, <1>5, Behind DEF Inv, Trust, Locals

-----------------------------------------------------------------------------
(* Time. *)

LEMMA ClockStep == ASSUME Inv, Sleep \/ CodeExpires \/ Prune PROVE Inv'
  <1>1. CASE Sleep \/ CodeExpires
    <2>1. UNCHANGED <<rowVars, attempts, sessions, workerVars, sanctioned, torn>> /\ events' = events + 1
      BY <1>1 DEF Sleep, CodeExpires, Rationed
    <2>2. Trust' /\ \A r \in Row : Untried(r) => Untried(r)'
      BY <2>1, TrustKept
    <2>3. \A c \in Caller, r \in Row : code'[r] # None /\ Holds(c, code'[r]) => Untried(r)'
      BY <2>1, <2>2 DEF Inv, HeldIsUntried, rowVars
    <2>. QED BY <2>1, <2>2, <2>3, Behind DEF Inv, Locals
  <1>2. CASE Prune
    <2>1. /\ sessions' \subseteq sessions /\ attempts' \subseteq attempts
          /\ code' = [r \in Row |-> IF ~Owned(r) /\ code[r] \in lapsed THEN None ELSE code[r]]
          /\ UNCHANGED <<machine, owner, key, workerVars, sanctioned, torn, events>>
      BY <1>2 DEF Prune
    <2>2. Trust'
      BY <2>1 DEF Inv, Trust, Tables, Rooted, Owned, RevokedStaysOut, OneSession
    <2>3. \A c \in Caller, r \in Row : code'[r] # None /\ Holds(c, code'[r]) => Untried(r)'
      BY <2>1 DEF Inv, HeldIsUntried, Untried, Owned
    <2>. QED BY <2>1, <2>2, <2>3, Behind DEF Inv, Locals
  <1>. QED BY <1>1, <1>2

LEMMA Step == ASSUME Inv, [Next]_vars PROVE Inv'
  <1>1. CASE UNCHANGED vars \/ \E c \in Caller : CallRefused(c)
    <2>1. UNCHANGED <<dbVars, pc, install, disk, mem, flow, sanctioned, torn, events>>
      BY <1>1 DEF vars, workerVars, CallRefused
    <2>. QED BY <2>1, TrustKept DEF dbVars, rowVars, Inv, Locals, Alone, NoneInFlight,
            HeldIsUntried, Holds, CallsAreSound, At, Ok, PresentsCurrent
  <1>2. ASSUME NEW c \in Caller, RefreshAuth(c) \/ Handle(c) \/ Adopt(c) \/ Continue(c) PROVE Inv'
    BY <1>2, RefreshAuthStep, HandleStep, AdoptStep, ContinueStep
  <1>3. ASSUME NEW c \in Caller, Throw(c) \/ Deadline(c) PROVE Inv'
    <2>1. /\ Abandon(c) /\ flow[c].phase # "none" /\ ~Ok(c, "refresh")
          /\ UNCHANGED <<rowVars, attempts, sessions, install, disk, mem, sanctioned, torn, events>>
      BY <1>3 DEF Throw, Deadline, At, Ok, dbVars
    <2>. QED BY <2>1, AbandonStep
  <1>4. CASE Boot \/ RegisterKey
    BY <1>4, BootStep, RegisterKeyStep
  <1>5. CASE Owner
    BY <1>5, ApproveStep, RevokeStep, DeleteStep, MergeStep DEF Owner
  <1>6. CASE World
    BY <1>6, TimesOutStep, DownStep, ClockStep DEF World
  <1>. QED BY <1>1, <1>2, <1>3, <1>4, <1>5, <1>6 DEF Next, Worker

THEOREM Inductive == Spec => []Inv
  BY InitInv, Step, PTL DEF Spec

(* After an owner revokes or deletes a machine it has no session until the  *)
(* owner approves it again: codes started, attempts approved and keys       *)
(* registered before, redeemed, replayed or delayed in any order, give none. *)
THEOREM RevokedMachinesStayOut == Spec => []RevokedStaysOut
  <1>1. Inv => RevokedStaysOut
    BY DEF Inv, Trust
  <1>. QED BY <1>1, Inductive, PTL

(* However it enrolled, reconnected or was merged, a machine has one session. *)
THEOREM MachineHasOneSession == Spec => []OneSession
  <1>1. Inv => OneSession
    BY DEF Inv, Trust
  <1>. QED BY <1>1, Inductive, PTL

(* The worker never presents a token its machine rotated away from, unless  *)
(* the answer to that rotation is still on its way or was lost.             *)
THEOREM WorkerPresentsCurrent == Spec => []PresentsCurrent
  <1>1. Inv => PresentsCurrent
    BY DEF Inv
  <1>. QED BY <1>1, Inductive, PTL

(* A replay is what revokes a machine without its owner, and only after the *)
(* answer of a rotation was lost is a token replayed.                       *)
LEMMA RevokesByReplay ==
    ASSUME Inv, [Next]_vars, NEW r \in Row, r \in sanctioned, r \notin sanctioned'
    PROVE  torn \/ events' # events
  <1>. SUFFICES ASSUME events' = events PROVE torn
    OBVIOUS
  <1>1. events + 1 # events
    BY DEF Inv, Locals
  <1>2. PICK c \in Caller : Handle(c)
    BY <1>1 DEF Next, vars, Worker, Boot, RegisterKey, CallRefused, RefreshAuth, Adopt, Continue, Throw,
       Deadline, Owner, Approve, Revoke, Delete, Merge, World, TimesOut, Crash, Reinstall, Sleep,
       CodeExpires, Prune, Rationed
  <1>3. flow[c].phase = "request" /\ ~Ok(c, "refresh")
    BY <1>2 DEF Handle, Ok, At
  <1>. DEFINE f == flow[c]
  <1>4. PICK verdict \in {"ok", "refused", "pending", "expired"},
             got \in Token \cup Code \cup {None}, signed \in BOOLEAN, proof \in BOOLEAN :
               /\ \/ f.stage = "refresh" /\ Refresh(f.arg, verdict, got) /\ ~signed /\ proof
                  \/ f.stage = "start" /\ Start(proof, verdict, got, signed)
                  \/ f.stage = "poll" /\ Redeem(f.arg, verdict, got) /\ signed = f.signed /\ proof
               /\ IF proof THEN UNCHANGED events ELSE Rationed("lost")
               /\ flow' = [flow EXCEPT ![c] = Answered(f, verdict, got, signed)]
    BY <1>2, Zenon DEF Handle
  <1>5. flow[c].stage = "refresh" /\ Refresh(flow[c].arg, verdict, got)
    BY <1>4 DEF Start, Redeem, dbVars
  <1>6. \E s \in sessions : s.prev = flow[c].arg
    BY <1>5, RefreshStep DEF Inv
  <1>7. flow[c].arg = mem /\ mem # None
    BY <1>3, <1>5, NoneAssumption DEF Inv, CallsAreSound, At, Token
  <1>. QED BY <1>3, <1>6, <1>7, NotOk

THEOREM OwnersRevoke == Spec => OnlyOwnerRevokes
  <1>1. Inv /\ [Next]_vars =>
           [\A r \in Row : r \in sanctioned /\ r \notin sanctioned' => torn \/ events' # events]_vars
    BY RevokesByReplay
  <1>. QED BY <1>1, Inductive, PTL DEF Spec, OnlyOwnerRevokes

=============================================================================
