------------------------------ MODULE RateLimit ------------------------------
(***************************************************************************)
(* The server's share of the Hugging Face quota: acquireRateLimitSlot and  *)
(* recordRateLimit (server/src/hf-rate-limit.ts) around every hfFetch      *)
(* (server/src/hf.ts), for one bucket.  The hub counts requests in fixed   *)
(* windows nobody here knows the start of; the server counts what it       *)
(* admitted in a sliding one, and believes what the last answer said.      *)
(*                                                                         *)
(* Times are ticks from now: a window is Window of them, and the jitter of *)
(* a sleep is that a sleeper may wake late.  A request reaches the hub in  *)
(* the tick it was admitted in; its answer may take for ever.              *)
(***************************************************************************)
EXTENDS Integers, FiniteSets, FiniteSetsExt

CONSTANTS
    Caller,      \* concurrent users of hfFetch
    MaxCalls,    \* bound: calls made in all
    Window,      \* WINDOW_MS
    Limit,       \* the tier's quota, the bucket's limit
    Margin,      \* SAFETY_MARGIN
    Reserve,     \* the headroom admission leaves: SAFETY_MARGIN, or 5% if that is less
    Headers,     \* what an answer may say of the quota
    Retries,     \* of a call that is refused
    Mishap,      \* what may go wrong in an instance, each once ...
    MaxMishaps   \* ... and so many of them

ASSUME WindowAssumption == Window \in Nat \ {0}
ASSUME LimitAssumption ==
    /\ {Limit, Margin, Reserve} \subseteq Nat
    /\ Reserve <= Margin /\ Margin < Limit
ASSUME CallAssumption ==
    {MaxCalls, Retries, MaxMishaps} \subseteq Nat /\ IsFiniteSet(Caller)
ASSUME HeadersAssumption == Headers \subseteq {"full", "no reset", "none"}
ASSUME MishapAssumption == Mishap \subseteq {"elsewhere", "restart", "failed"}

Unknown == -1

VARIABLES
    admitted,  \* the bucket's entries: how many were admitted a ticks ago or later
    remaining, \* r= of the last answer
    resetIn,   \* resetAtMs: ticks until it, 0 once it has passed
    stage,     \* where a caller's hfFetch is
    sleep,     \* ... and how long it still sleeps before it looks at the bucket
    forget,    \* ... to forget a remaining that has no reset time
    answer,    \* ... and the answer on its way
    retries,   \* ... its retries left
    calls,     \* calls made
    elapsed, used, \* the hub's window, and what it counted in it
    mishaps    \* what went wrong

bucket == <<admitted, remaining, resetIn>>
callers == <<stage, sleep, forget, answer, retries, calls>>
hub == <<elapsed, used>>
limitVars == <<bucket, callers, hub, mishaps>>

Ages == 0..(Window - 1)
InWindow == admitted[Window - 1]
Oldest == Min({a \in Ages : admitted[a] = InWindow})

Unlucky(m) ==
    /\ m \in Mishap \ mishaps /\ Cardinality(mishaps) < MaxMishaps
    /\ mishaps' = mishaps \cup {m}

-----------------------------------------------------------------------------
(* acquireRateLimitSlot: one turn of its loop, at the call or after a sleep. *)

SleepFor(c, n, forgets) ==
    /\ sleep' = [sleep EXCEPT ![c] = n]
    /\ forget' = [forget EXCEPT ![c] = forgets]
    /\ UNCHANGED <<stage, admitted>>

Admit(c) ==
    /\ admitted' = [a \in Ages |-> admitted[a] + 1]
    /\ stage' = [stage EXCEPT ![c] = "sent"]
    /\ forget' = [forget EXCEPT ![c] = FALSE]
    /\ UNCHANGED sleep

Call(c) ==
    /\ stage[c] = "idle" /\ calls < MaxCalls
    /\ stage' = [stage EXCEPT ![c] = "waiting"]
    /\ calls' = calls + 1
    /\ retries' = [retries EXCEPT ![c] = Retries]
    /\ UNCHANGED <<bucket, sleep, forget, answer, hub, mishaps>>

StaleNever == FALSE   \* slip: what the last answer said is believed for ever
Stale == resetIn = 0

Room == Limit - InWindow > Reserve

Acquire(c) ==
    /\ stage[c] = "waiting" /\ sleep[c] = 0
    /\ LET reset == IF Stale THEN Unknown ELSE resetIn
           known == IF Stale \/ (forget[c] /\ resetIn = Unknown) THEN Unknown ELSE remaining
           full  == InWindow >= Limit - Margin
       IN  /\ remaining' = known /\ resetIn' = reset
           /\ IF reset > 0 /\ (known = 0 \/ full) THEN SleepFor(c, reset, FALSE)
              ELSE IF known = 0 THEN SleepFor(c, 1, TRUE)
              ELSE IF Room THEN Admit(c)
              ELSE SleepFor(c, Window - Oldest, FALSE)
    /\ UNCHANGED <<answer, retries, calls, hub, mishaps>>

-----------------------------------------------------------------------------
(* The hub. *)

Arrive(c) ==
    /\ stage[c] = "sent"
    /\ LET refused == used >= Limit
       IN  \E h \in Headers :
             answer' = [answer EXCEPT ![c] =
                [refused |-> refused,
                 remaining |-> IF h = "none" THEN Unknown
                               ELSE IF refused THEN 0 ELSE Limit - used - 1,
                 resetIn |-> IF h = "full" THEN Window - elapsed ELSE Unknown]]
    /\ used' = IF used < Limit THEN used + 1 ELSE used
    /\ stage' = [stage EXCEPT ![c] = "answered"]
    /\ UNCHANGED <<bucket, sleep, forget, retries, calls, elapsed, mishaps>>

\* Somebody else uses the same token or address.
Elsewhere ==
    /\ used < Limit /\ Unlucky("elsewhere")
    /\ used' \in (used + 1)..Limit
    /\ UNCHANGED <<bucket, callers, elapsed>>

-----------------------------------------------------------------------------
(* hfFetch after the answer: recordRateLimit, and for a refusal one retry  *)
(* once the window has been reset (or a default wait, without a time).     *)

NoAnswer == [refused |-> FALSE, remaining |-> Unknown, resetIn |-> Unknown]

Return(c) ==
    /\ stage[c] = "answered"
    /\ LET a == answer[c]
           again == a.refused /\ retries[c] > 0
       IN  /\ remaining' = IF a.remaining = Unknown THEN remaining ELSE a.remaining
           /\ resetIn' = IF a.resetIn = Unknown THEN resetIn ELSE a.resetIn
           /\ stage' = [stage EXCEPT ![c] = IF again THEN "waiting" ELSE "idle"]
           /\ sleep' = [sleep EXCEPT ![c] =
                           IF ~again THEN 0 ELSE IF a.resetIn = Unknown THEN 1 ELSE a.resetIn]
           /\ retries' = [retries EXCEPT ![c] = IF again THEN @ - 1 ELSE 0]
    /\ answer' = [answer EXCEPT ![c] = NoAnswer]
    /\ UNCHANGED <<admitted, forget, calls, hub, mishaps>>

\* The request times out or the connection breaks: nothing is learned.
Fail(c) ==
    /\ stage[c] = "answered" /\ Unlucky("failed")
    /\ stage' = [stage EXCEPT ![c] = "idle"]
    /\ answer' = [answer EXCEPT ![c] = NoAnswer]
    /\ retries' = [retries EXCEPT ![c] = 0]
    /\ UNCHANGED <<bucket, sleep, forget, calls, hub>>

\* The bucket is only in memory.
RestartServer ==
    /\ Unlucky("restart")
    /\ admitted' = [a \in Ages |-> 0] /\ remaining' = Unknown /\ resetIn' = Unknown
    /\ stage' = [c \in Caller |-> "idle"]
    /\ sleep' = [c \in Caller |-> 0]
    /\ forget' = [c \in Caller |-> FALSE]
    /\ answer' = [c \in Caller |-> NoAnswer]
    /\ retries' = [c \in Caller |-> 0]
    /\ UNCHANGED <<calls, hub>>

\* prune: an entry is forgotten when it is as old as the window.
AgedEarly == [a \in Ages |->   \* slip: one tick too soon
                IF a = 0 THEN 0 ELSE admitted[Min({a, Window - 2}) - 1]]
Aged == [a \in Ages |-> IF a = 0 THEN 0 ELSE admitted[a - 1]]

TimePasses ==
    /\ \A c \in Caller : stage[c] # "sent"
    /\ admitted' = Aged
    /\ resetIn' = IF resetIn > 0 THEN resetIn - 1 ELSE resetIn
    /\ sleep' = [c \in Caller |-> IF sleep[c] > 0 THEN sleep[c] - 1 ELSE 0]
    /\ elapsed' = (elapsed + 1) % Window
    /\ used' = IF elapsed' = 0 THEN 0 ELSE used
    /\ UNCHANGED <<remaining, stage, forget, answer, retries, calls, mishaps>>

-----------------------------------------------------------------------------
LimitInit ==
    /\ admitted = [a \in Ages |-> 0] /\ remaining = Unknown /\ resetIn = Unknown
    /\ stage = [c \in Caller |-> "idle"]
    /\ sleep = [c \in Caller |-> 0]
    /\ forget = [c \in Caller |-> FALSE]
    /\ answer = [c \in Caller |-> NoAnswer]
    /\ retries = [c \in Caller |-> 0]
    /\ calls = 0
    /\ elapsed \in Ages /\ used = 0 /\ mishaps = {}

Progress(c) == Acquire(c) \/ Arrive(c) \/ Return(c)

LimitNext ==
    \/ \E c \in Caller : Call(c) \/ Progress(c) \/ Fail(c)
    \/ Elsewhere \/ RestartServer \/ TimePasses

LimitSpec == LimitInit /\ [][LimitNext]_limitVars

\* Timers fire, requests are answered or time out, and time passes.
LimitFairSpec ==
    /\ LimitSpec /\ WF_limitVars(TimePasses)
    /\ \A c \in Caller : WF_limitVars(Progress(c))

-----------------------------------------------------------------------------
\* As long as nobody else spends the quota and the bucket is not forgotten, the
\* hub never refuses a request: a sliding window that is never overrun leaves no
\* fixed one overrun, wherever it starts and whoever wakes when.
QuotaKept == mishaps \subseteq {"failed"} => \A c \in Caller : ~answer[c].refused

\* Every call is answered: no refusal, stale answer or answer without a reset
\* time leaves the bucket shut for ever.
EveryCallEnds == \A c \in Caller : stage[c] # "idle" ~> stage[c] = "idle"
=============================================================================
