--------------------------- MODULE MachineIdentity ---------------------------
(***************************************************************************)
(* How a machine keeps its identity at the server: device enrolment and    *)
(* the owner's approval, reconnecting with the machine key, sessions and   *)
(* their rotation, revocation.  One physical machine; reinstalling its     *)
(* worker gives it a new machine_id and key (the next Install), which the  *)
(* owner may merge into the machine's old row.  Its heartbeat and queue    *)
(* loops share one session.  A session's access and refresh token are      *)
(* minted together and are one token here, as are device and user code.    *)
(***************************************************************************)
EXTENDS Integers, FiniteSets

CONSTANTS
    NRows,         \* bound on rows of workers that exist at once
    NInstalls,     \* bound on installs, each with its machine_id and key
    User,          \* accounts that may type a code in
    MaxTokens,     \* bound on token pairs in use at once
    MaxCodes,      \* bound on enrolment codes in use at once
    MaxPending,    \* MAX_PENDING_REENROLMENTS
    None,          \* null
    Event,         \* the faults and interventions of an instance
    MaxEvents      \* bound on their number

Row == 1..NRows
Install == 1..NInstalls
Token == 1..MaxTokens
Code == 1..MaxCodes
Caller == {"heartbeat", "queue"}
EventKind == {"crash", "lost", "sleep", "code expires",
              "reinstall", "revoke", "delete"}

ASSUME SizesAssumption ==
    /\ NRows \in Nat \ {0} /\ NInstalls \in Nat \ {0}
    /\ MaxTokens \in Nat \ {0} /\ MaxCodes \in Nat /\ MaxPending \in Nat \ {0}
ASSUME NoneAssumption == None \notin Int /\ None \notin User
ASSUME EventAssumption == Event \subseteq EventKind /\ MaxEvents \in Nat

VARIABLES
    (* the database *)
    machine,     \* workers.machine_id, the install that reported it
    owner,       \* workers.user_id, set together with approved_at
    code,        \* workers.enrolment_code_hash
    key,         \* workers.public_key, the install it belongs to
    attempts,    \* worker_reenrolments
    sessions,    \* sessions with is_worker
    stale,       \* tokens whose expires_at has passed
    lapsed,      \* codes whose enrolment_expires_at or expires_at has
    (* the worker *)
    pc,          \* where the process is
    install,     \* config.json: machine_id and key
    disk,        \* config.json: session_token and refresh_token
    mem,         \* authToken and refreshToken
    loop,        \* where each loop is with a refused call
    flow,        \* the refresh or enrolment a caller drives
    (* the network, history and bounds *)
    sanctioned,  \* rows approved by their owner since trust was last revoked
    torn,        \* a rotation's answer never reached config.json
    events       \* faults and interventions so far

rowVars == <<machine, owner, code, key>>
clocks == <<stale, lapsed>>
dbVars == <<rowVars, attempts, sessions, clocks>>
workerVars == <<pc, install, disk, mem, loop, flow>>
vars == <<dbVars, workerVars, sanctioned, torn, events>>

OptToken == Token \cup {None}
Attempt == [row : Row, code : Code, key : Install, approved : BOOLEAN, signed : BOOLEAN]
Session == [row : Row, pair : Token, prev : OptToken]
Flow == [stage : {"none", "refresh", "start", "poll"},
         phase : {"none", "request", "response", "failed"},
         arg : Token \cup Code \cup {None}, got : Token \cup Code \cup {None},
         verdict : {"none", "ok", "refused", "pending", "expired"}, signed : BOOLEAN]

TypeOK ==
    /\ machine \in [Row -> Install \cup {None}]
    /\ owner \in [Row -> User \cup {None}]
    /\ code \in [Row -> Code \cup {None}]
    /\ key \in [Row -> Install \cup {None}]
    /\ attempts \subseteq Attempt
    /\ \A r \in Row : Cardinality({a \in attempts : a.row = r /\ ~a.approved}) <= MaxPending
    /\ sessions \subseteq Session
    /\ stale \subseteq Token /\ lapsed \subseteq Code
    /\ pc \in {"down", "enrolling", "registering", "running"}
    /\ install \in Install
    /\ disk \in OptToken /\ mem \in OptToken
    /\ loop \in [Caller -> {"idle", "refused", "waiting"}]
    /\ flow \in [Caller -> Flow]
    /\ sanctioned \subseteq Row
    /\ torn \in BOOLEAN
    /\ events \in 0..MaxEvents

Rationed(e) == e \in Event /\ events < MaxEvents /\ events' = events + 1
Owned(r) == owner[r] # None

(* Random tokens and codes never repeat; here one that nobody refers to any *)
(* more may.                                                                *)
Flows(phase) == {flow[c] : c \in {d \in Caller : flow[d].stage \in phase}}
FirstOutside(x, S, used) == x \in S /\ \A y \in 1..x : y \in used <=> y < x
Codes == ({code[r] : r \in Row} \cup {a.code : a \in attempts}) \ {None}
FreshToken(t) == FirstOutside(t, Token,
    {disk, mem} \cup {s.pair : s \in sessions} \cup {s.prev : s \in sessions}
        \cup {f.arg : f \in Flows({"refresh"})} \cup {f.got : f \in Flows({"refresh", "poll"})})
FreshCode(x) == FirstOutside(x, Code,
    Codes \cup lapsed \cup {f.arg : f \in Flows({"poll"})} \cup {f.got : f \in Flows({"start"})})

Accepted(t) == \E s \in sessions : s.pair = t /\ t \notin stale   \* authenticateWorker

-----------------------------------------------------------------------------
(* The server: what each request does to the database, and its verdict.    *)

(* revokeTrust: sessions end, the key is forgotten, attempts are dropped. *)
KeepsAttempts(R) == attempts   \* slip: what was already approved stays
WithoutAttempts(R) == {a \in attempts : a.row \notin R}

RevokeTrust(R) ==
    /\ sessions' = {s \in sessions : s.row \notin R}
    /\ key' = [r \in Row |-> IF r \in R THEN None ELSE key[r]]
    /\ attempts' = WithoutAttempts(R)
    /\ sanctioned' = sanctioned \ R

(* POST /api/auth/refresh.  A token that was already rotated away revokes  *)
(* the machine; an expired one is refused, but only after touch has moved  *)
(* its expiry.                                                             *)
Refresh(t, verdict, got) ==
    LET replayed == {s \in sessions : s.prev = t}
        current == {s \in sessions : s.pair = t}
    IN  IF replayed # {}
        THEN /\ RevokeTrust({s.row : s \in replayed})
             /\ verdict = "refused" /\ got = None
             /\ UNCHANGED <<machine, owner, code, clocks>>
        ELSE IF current = {} \/ t \in stale
        THEN /\ stale' = IF current = {} THEN stale ELSE stale \ {t}
             /\ verdict = "refused" /\ got = None
             /\ UNCHANGED <<rowVars, attempts, sessions, lapsed, sanctioned>>
        ELSE /\ FreshToken(got)
             /\ sessions' = (sessions \ current) \cup
                    {[row |-> s.row, pair |-> got, prev |-> t] : s \in current}
             /\ verdict = "ok"
             /\ UNCHANGED <<rowVars, attempts, clocks, sanctioned>>

(* provesMachineKey: every install signs with its own key. *)
ProvesNothing(r, proof) == FALSE   \* slip: the key on record is never found
Proves(r, proof) == proof /\ key[r] = install

(* createReenrolment: an unsigned attempt pushes the oldest unapproved ones *)
(* of its machine out; here any may be the oldest.                         *)
Kept(r, signed) ==
    LET waiting == {a \in attempts : a.row = r /\ ~a.approved}
    IN  IF signed THEN {attempts}
        ELSE {(attempts \ waiting) \cup some : some \in
                 {W \in SUBSET waiting : \/ W = waiting /\ Cardinality(W) < MaxPending
                                        \/ Cardinality(W) = MaxPending - 1}}

(* POST /api/device/challenge and /api/device/start: a new row, a new code *)
(* on a row nobody owns, or an attempt beside a row that has an owner.     *)
(* Without a challenge in time the start carries no proof.                 *)
Start(proof, verdict, got, signed) ==
    LET known == {r \in Row : machine[r] = install}
    IN  /\ verdict = "ok" /\ FreshCode(got)
        /\ \/ /\ known = {}
              /\ \E r \in Row : /\ machine[r] = None
                                /\ \A q \in 1..(r - 1) : machine[q] # None
                                /\ machine' = [machine EXCEPT ![r] = install]
                                /\ code' = [code EXCEPT ![r] = got]
                                /\ key' = [key EXCEPT ![r] = install]
              /\ signed = FALSE
              /\ UNCHANGED attempts
           \/ \E r \in known :
                  /\ ~Owned(r)
                  /\ code' = [code EXCEPT ![r] = got]
                  /\ key' = [key EXCEPT ![r] = install]
                  /\ signed = FALSE
                  /\ UNCHANGED <<machine, attempts>>
           \/ \E r \in known :
                  /\ Owned(r)
                  /\ signed = Proves(r, proof)
                  /\ \E others \in Kept(r, signed) :
                        attempts' = others \cup
                            {[row |-> r, code |-> got, key |-> install,
                                   approved |-> signed, signed |-> signed]}
                  /\ UNCHANGED <<machine, code, key>>
        /\ UNCHANGED <<owner, sessions, clocks, sanctioned>>

KeepsSessions(r) == sessions   \* slip: the old session lives on
OtherSessions(r) == {s \in sessions : s.row # r}   \* redeemReenrolment

(* POST /api/device/token: a code of a first enrolment, or of an attempt. *)
Redeem(c, verdict, got) ==
    LET first == {r \in Row : code[r] = c}
        again == {a \in attempts : a.code = c /\ c \notin lapsed}
        new(r) == [row |-> r, pair |-> got, prev |-> None]
        refuse(v) == /\ verdict = v /\ got = None
                     /\ UNCHANGED <<dbVars, sanctioned>>
    IN  \/ first = {} /\ again = {} /\ refuse("expired")
        \/ first # {} /\ c \in lapsed /\ refuse("expired")
        \/ /\ c \notin lapsed
           /\ \E r \in first : ~Owned(r)
           /\ refuse("pending")
        \/ first = {} /\ (\E a \in again : ~a.approved) /\ refuse("pending")
        \/ /\ c \notin lapsed
           /\ \E r \in first :
                  /\ Owned(r) /\ FreshToken(got)
                  /\ sessions' = sessions \cup {new(r)}
                  /\ code' = [code EXCEPT ![r] = None]
           /\ verdict = "ok"
           /\ UNCHANGED <<machine, owner, key, attempts, clocks, sanctioned>>
        \/ /\ first = {}
           /\ \E a \in again :
                  /\ a.approved /\ FreshToken(got)
                  /\ sessions' = OtherSessions(a.row) \cup {new(a.row)}
                  /\ IF a.signed
                     THEN attempts' = attempts \ {a} /\ UNCHANGED key
                     ELSE /\ attempts' = {b \in attempts : b.row # a.row}
                          /\ key' = [key EXCEPT ![a.row] = a.key]
           /\ verdict = "ok"
           /\ UNCHANGED <<machine, owner, code, clocks, sanctioned>>

-----------------------------------------------------------------------------
(* The worker.  A caller drives at most one request at a time, through the *)
(* stages of refreshAuth and startSignedEnrolment; the enrolment at boot   *)
(* runs on the queue's thread.                                             *)

NoFlow == [stage |-> "none", phase |-> "none", arg |-> None, verdict |-> "none",
           got |-> None, signed |-> FALSE]
Ask(stage, arg, signed) == [stage |-> stage, phase |-> "request", arg |-> arg,
                            verdict |-> "none", got |-> None, signed |-> signed]
Answered(f, answer, thing, signed) == [stage |-> f.stage, phase |-> "response", arg |-> f.arg,
                                       verdict |-> answer, got |-> thing, signed |-> signed]
Unanswered(f) == [stage |-> f.stage, phase |-> "failed", arg |-> f.arg,
                  verdict |-> "none", got |-> None, signed |-> FALSE]
At(c, stage, phase) == flow[c].stage = stage /\ flow[c].phase = phase
Ok(c, stage) == At(c, stage, "response") /\ flow[c].verdict = "ok"

(* ensureAuthCredential *)
Boot ==
    /\ pc = "down"
    /\ mem' = disk
    /\ IF disk # None
       THEN pc' = "registering" /\ UNCHANGED flow
       ELSE pc' = "enrolling" /\ flow' = [flow EXCEPT !["queue"] = Ask("start", None, FALSE)]
    /\ UNCHANGED <<dbVars, install, disk, loop, sanctioned, torn, events>>

(* ensureMachineKeyRegistered: the server keeps the first key it gets. *)
RegisterKey ==
    /\ pc = "registering" /\ flow["queue"] = NoFlow
    /\ IF Accepted(mem)
       THEN /\ key' = [r \in Row |-> IF key[r] = None
                                        /\ \E s \in sessions : s.row = r /\ s.pair = mem
                                     THEN install ELSE key[r]]
            /\ pc' = "running" /\ UNCHANGED flow
       ELSE /\ flow' = [flow EXCEPT !["queue"] = Ask("refresh", mem, FALSE)]
            /\ UNCHANGED <<key, pc>>
    /\ UNCHANGED <<machine, owner, code, attempts, sessions, clocks, install,
                   disk, mem, loop, sanctioned, torn, events>>

(* A call of a running worker changes nothing here unless it is refused; *)
(* the refusal may take a while to come back.                            *)
CallRefused(c) ==
    /\ pc = "running" /\ loop[c] = "idle"
    /\ ~Accepted(mem)
    /\ loop' = [loop EXCEPT ![c] = "refused"]
    /\ UNCHANGED <<dbVars, pc, install, disk, mem, flow, sanctioned, torn, events>>

(* refreshAuth: one refresh at a time, whoever asks. *)
NobodyElse == TRUE   \* slip: no refreshInFlight
NoneInFlight == \A c \in Caller : flow[c] = NoFlow

RefreshAuth(c) ==
    /\ pc = "running" /\ loop[c] = "refused"
    /\ loop' = [loop EXCEPT ![c] = "waiting"]
    /\ flow' = IF NoneInFlight THEN [flow EXCEPT ![c] = Ask("refresh", mem, FALSE)] ELSE flow
    /\ UNCHANGED <<dbVars, pc, install, disk, mem, sanctioned, torn, events>>

(* The request reaches the server and is answered. *)
Handle(c) ==
    LET f == flow[c]
    IN  /\ f.phase = "request"
        /\ \E verdict \in {"ok", "refused", "pending", "expired"},
             got \in Token \cup Code \cup {None}, signed, proof \in BOOLEAN :
               /\ \/ f.stage = "refresh" /\ Refresh(f.arg, verdict, got) /\ ~signed /\ proof
                  \/ f.stage = "start" /\ Start(proof, verdict, got, signed)
                  \/ f.stage = "poll" /\ Redeem(f.arg, verdict, got) /\ signed = f.signed /\ proof
               /\ IF proof THEN UNCHANGED events ELSE Rationed("lost")
               /\ flow' = [flow EXCEPT ![c] = Answered(f, verdict, got, signed)]
        /\ UNCHANGED <<pc, install, disk, mem, loop, torn>>

(* persistConfig *)
NotPersisted(c) == disk   \* slip: config.json keeps the old pair
Persisted(c) == flow[c].got

(* adoptSession, or the end of a refresh: persisted before it is used. *)
Adopt(c) ==
    /\ Ok(c, "refresh") \/ Ok(c, "poll")
    /\ disk' = Persisted(c) /\ mem' = flow[c].got
    /\ flow' = [flow EXCEPT ![c] = NoFlow]
    /\ loop' = [b \in Caller |-> IF loop[b] = "waiting" THEN "idle" ELSE loop[b]]
    /\ pc' = IF pc = "enrolling" THEN "registering" ELSE pc
    /\ UNCHANGED <<dbVars, install, sanctioned, torn, events>>

(* The next request: reconnectAfterLostSession after a refused refresh, an *)
(* unsigned start when there was no challenge, polling until the code is   *)
(* approved.  A signed attempt that has expired is polled once more.       *)
Continue(c) ==
    /\ \/ /\ At(c, "refresh", "response") /\ flow[c].verdict = "refused"
          /\ flow' = [flow EXCEPT ![c] = Ask("start", None, FALSE)]
       \/ /\ Ok(c, "start")
          /\ flow' = [flow EXCEPT ![c] = Ask("poll", flow[c].got, flow[c].signed)]
       \/ /\ At(c, "poll", "response")
          /\ \/ flow[c].verdict = "pending"
             \/ flow[c].verdict = "expired" /\ flow[c].signed
          /\ flow' = [flow EXCEPT ![c] = Ask("poll", flow[c].arg, FALSE)]
    /\ UNCHANGED <<dbVars, pc, install, disk, mem, loop, sanctioned, torn, events>>

(* An exception: at boot it ends the process, while a key is registered it *)
(* is caught, and in the loops whoever waited tries again later.           *)
Abandon(c) ==
    /\ flow' = [flow EXCEPT ![c] = NoFlow]
    /\ loop' = [b \in Caller |-> IF loop[b] = "waiting" THEN "idle" ELSE loop[b]]
    /\ pc' = CASE pc = "enrolling" -> "down"
               [] pc = "registering" -> "running"
               [] OTHER -> pc

Throw(c) ==
    /\ \/ At(c, "refresh", "failed") \/ At(c, "start", "failed") \/ At(c, "poll", "failed")
       \/ At(c, "poll", "response") /\ flow[c].verdict = "expired" /\ ~flow[c].signed
    /\ Abandon(c)
    /\ UNCHANGED <<dbVars, install, disk, mem, sanctioned, torn, events>>

(* A code lives 15 minutes and the sweep runs every 15 seconds: before the *)
(* next code expires the last one has been pruned.                         *)
Swept == stale = {} /\ \A x \in lapsed : \E r \in Row : Owned(r) /\ code[r] = x

(* awaitHumanApproval's deadline is the code's own. *)
Deadline(c) ==
    /\ Swept
    /\ At(c, "poll", "response") /\ flow[c].verdict = "pending"
    /\ lapsed' = lapsed \cup ({flow[c].arg} \cap Codes)
    /\ Abandon(c)
    /\ UNCHANGED <<rowVars, attempts, sessions, stale, install, disk, mem,
                   sanctioned, torn, events>>

-----------------------------------------------------------------------------
(* The owner. *)

(* POST /api/device/approve.  Only the row's owner may approve an attempt, *)
(* and a row that nobody owns becomes the approver's.                      *)
Approve(u) ==
    /\ \/ \E r \in Row :
             /\ code[r] # None /\ code[r] \notin lapsed
             /\ ~Owned(r)
             /\ owner' = [owner EXCEPT ![r] = u]
             /\ sanctioned' = sanctioned \cup {r}
             /\ UNCHANGED attempts
       \/ \E a \in attempts :
             /\ owner[a.row] = u
             /\ ~a.approved /\ a.code \notin lapsed
             /\ attempts' = (attempts \ {a}) \cup {[a EXCEPT !.approved = TRUE]}
             /\ sanctioned' = sanctioned \cup {a.row}
             /\ UNCHANGED owner
    /\ UNCHANGED <<machine, code, key, sessions, clocks, workerVars,
                   torn, events>>

(* The same with merge_into: the owner's old row t of this machine takes   *)
(* over the identity of the pending row p.                                 *)
Merge(u, p, t) ==
    /\ code[p] # None /\ code[p] \notin lapsed
    /\ ~Owned(p) /\ owner[t] = u
    /\ machine' = [machine EXCEPT ![p] = None, ![t] = machine[p]]
    /\ code' = [code EXCEPT ![p] = None, ![t] = code[p]]
    /\ key' = [key EXCEPT ![p] = None, ![t] = key[p]]
    /\ sessions' = {s \in sessions : s.row # t}
    /\ attempts' = {a \in attempts : a.row # t}
    /\ sanctioned' = sanctioned \cup {t}
    /\ UNCHANGED <<owner, clocks, workerVars, torn, events>>

(* DELETE /api/sessions/:id and revoke-all, for a machine with a session. *)
Revoke(u, r) ==
    /\ Rationed("revoke")
    /\ owner[r] = u /\ \E s \in sessions : s.row = r
    /\ RevokeTrust({r})
    /\ UNCHANGED <<machine, owner, code, clocks, workerVars, torn>>

(* DELETE /api/workers/:id *)
Delete(u, r) ==
    /\ Rationed("delete")
    /\ owner[r] = u
    /\ machine' = [machine EXCEPT ![r] = None]
    /\ owner' = [owner EXCEPT ![r] = None]
    /\ code' = [code EXCEPT ![r] = None]
    /\ RevokeTrust({r})
    /\ UNCHANGED <<clocks, workerVars, torn>>

-----------------------------------------------------------------------------
(* Faults and time. *)

(* An answer, or the request itself, is lost: the worker times out. *)
TimesOut(c) ==
    /\ flow[c].phase \in {"request", "response"}
    /\ Rationed("lost")
    /\ flow' = [flow EXCEPT ![c] = Unanswered(@)]
    /\ torn' = (torn \/ Ok(c, "refresh"))
    /\ UNCHANGED <<dbVars, pc, install, disk, mem, loop, sanctioned>>

Crash ==
    /\ pc # "down"
    /\ Rationed("crash")
    /\ pc' = "down" /\ mem' = None
    /\ flow' = [c \in Caller |-> NoFlow]
    /\ loop' = [c \in Caller |-> "idle"]
    /\ torn' = (torn \/ \E c \in Caller : Ok(c, "refresh"))
    /\ UNCHANGED <<dbVars, install, disk, sanctioned>>

(* The worker's folder is deleted and set up anew. *)
Reinstall ==
    /\ install < NInstalls
    /\ Rationed("reinstall")
    /\ pc' = "down" /\ mem' = None /\ disk' = None
    /\ install' = install + 1
    /\ flow' = [c \in Caller |-> NoFlow]
    /\ loop' = [c \in Caller |-> "idle"]
    /\ UNCHANGED <<dbVars, sanctioned, torn>>

(* Ninety days without a call: every token has expired.  Fifteen minutes: *)
(* a code.                                                                 *)
Sleep ==
    /\ Rationed("sleep")
    /\ stale' = {s.pair : s \in sessions}
    /\ lapsed' = Codes
    /\ UNCHANGED <<rowVars, attempts, sessions, workerVars, sanctioned, torn>>

CodeExpires ==
    /\ Swept /\ Rationed("code expires")
    /\ \E x \in Codes : lapsed' = lapsed \cup {x}
    /\ UNCHANGED <<rowVars, attempts, sessions, stale, workerVars, sanctioned, torn>>

(* The maintenance sweep's five prunes, every fifteen seconds. *)
Prune ==
    /\ sessions' = {s \in sessions : s.pair \notin stale}
    /\ attempts' = {a \in attempts : a.code \notin lapsed}
    /\ code' = [r \in Row |-> IF ~Owned(r) /\ code[r] \in lapsed THEN None ELSE code[r]]
    /\ stale' = {} /\ lapsed' = {code'[r] : r \in Row} \cap lapsed
    /\ clocks' # clocks
    /\ UNCHANGED <<machine, owner, key, workerVars, sanctioned, torn, events>>

-----------------------------------------------------------------------------
(* A machine not known yet, or one enrolled before keys existed. *)
Init ==
    /\ \E legacy \in BOOLEAN, u \in User :
          /\ machine = [r \in Row |-> IF legacy /\ r = 1 THEN 1 ELSE None]
          /\ owner = [r \in Row |-> IF legacy /\ r = 1 THEN u ELSE None]
          /\ sessions = IF legacy THEN {[row |-> 1, pair |-> 1, prev |-> None]} ELSE {}
          /\ disk = IF legacy THEN 1 ELSE None
          /\ sanctioned = IF legacy THEN {1} ELSE {}
    /\ code = [r \in Row |-> None]
    /\ key = [r \in Row |-> None]
    /\ attempts = {} /\ stale = {} /\ lapsed = {}
    /\ pc = "down" /\ install = 1 /\ mem = None
    /\ loop = [c \in Caller |-> "idle"]
    /\ flow = [c \in Caller |-> NoFlow]
    /\ torn = FALSE /\ events = 0

Worker ==
    \/ Boot \/ RegisterKey
    \/ \E c \in Caller : CallRefused(c) \/ RefreshAuth(c) \/ Handle(c)
                          \/ Adopt(c) \/ Continue(c) \/ Throw(c) \/ Deadline(c)

Owner == \E u \in User :
    \/ Approve(u)
    \/ \E r \in Row : Revoke(u, r) \/ Delete(u, r) \/ \E p \in Row : Merge(u, p, r)

World ==
    \/ \E c \in Caller : TimesOut(c)
    \/ Crash \/ Reinstall \/ Sleep \/ CodeExpires \/ Prune

Next == Worker \/ Owner \/ World
Spec == Init /\ [][Next]_vars

(* The worker and the server keep going, and a worker that went down is *)
(* started again; its owner owes nothing.                               *)
Fairness ==
    /\ WF_vars(Boot) /\ WF_vars(RegisterKey) /\ WF_vars(Prune)
    /\ \A c \in Caller : /\ WF_vars(CallRefused(c)) /\ WF_vars(RefreshAuth(c))
                          /\ WF_vars(Handle(c)) /\ WF_vars(Adopt(c))
                          /\ WF_vars(Continue(c)) /\ WF_vars(Throw(c))
                          /\ SF_vars(Deadline(c))
FairSpec == Spec /\ Fairness

-----------------------------------------------------------------------------
(* Safety *)

(* A machine has a session only if its owner approved it after its trust   *)
(* was last revoked: no code, attempt or key from before brings it back.   *)
RevokedStaysOut == \A s \in sessions : s.row \in sanctioned

(* However it reconnected, a machine has one session. *)
OneSession == \A s, t \in sessions : s.row = t.row => s = t

(* What the worker holds is never a token its machine already rotated away *)
(* from, but while the answer of a rotation is still on its way or if that *)
(* answer was lost.                                                        *)
PresentsCurrent ==
    \/ torn \/ \E c \in Caller : Ok(c, "refresh")
    \/ \A s \in sessions : s.prev = None \/ s.prev \notin {disk, mem}

(* Nobody but the owner takes a machine's trust away, unless the answer to *)
(* a rotation was lost.                                                    *)
OnlyOwnerRevokes ==
    [][\A r \in Row : r \in sanctioned /\ r \notin sanctioned' => torn \/ events' # events]_vars

(* A machine whose key the server trusts gets a session again without its  *)
(* owner, however long it slept and whatever was lost on the way.          *)
Trusted == \E r \in Row : machine[r] = install /\ Owned(r) /\ key[r] = install
Connected == pc = "running" /\ Accepted(mem)
ComesBack == Trusted ~> (Connected \/ ~Trusted)
=============================================================================
