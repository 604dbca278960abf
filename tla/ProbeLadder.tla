----------------------------- MODULE ProbeLadder -----------------------------
(***************************************************************************)
(* The context test's search: which placement a probe loads next, from the *)
(* loads already made (shared/probeLadder.ts), and the worker's loop that  *)
(* makes them (worker/src/index.ts, executeRunProbeJob).                   *)
(*                                                                         *)
(* Contexts are 1..Contexts, the first the smallest the ladder loads;      *)
(* layer counts are 0..NglMax, and -1 stands for null.  What a load finds  *)
(* is up to the machine: whether llama.cpp's claim fits the free VRAM is   *)
(* settled by most, but a load may spill on one day and not on another, or *)
(* fail for no reason of memory.                                           *)
(***************************************************************************)
EXTENDS Integers, Sequences, FiniteSets, FiniteSetsExt

CONSTANTS
    Mode,      \* the modes an instance runs
    Contexts,  \* number of contexts of the grid
    NglMax,    \* most layers
    MaxLoads,  \* probeMaxLoads
    Cap,       \* upper bounds a plan may give, -1 for none
    Seed,      \* layer counts the estimate may give
    None,
    Trouble,   \* what may go wrong in an instance ...
    MaxTrouble \* ... and how often

ASSUME SizesAssumption ==
    /\ Contexts \in Nat \ {0} /\ NglMax \in Nat \ {0} /\ MaxLoads \in Nat
    /\ Cap \subseteq -1..NglMax /\ Seed \subseteq 0..NglMax
ASSUME ModeAssumption == Mode \subseteq {"frontier", "keep_context", "fixed_offload", "custom"}
ASSUME TroubleAssumption ==
    /\ Trouble \subseteq {"out of memory", "error", "sibling", "stop", "unsupported"}
    /\ MaxTrouble \in Nat

Ctx == 1..Contexts
Ngl == 0..NglMax
Rung == [ctx : Ctx, ngl : Ngl]
ASSUME NoneAssumption == None \notin Rung
Attempt == [ok : BOOLEAN, fits : BOOLEAN, error : BOOLEAN, only : BOOLEAN]

VARIABLES
    mode,
    candidate,  \* the caller's own placement
    listed,     \* --list-devices named the free VRAM
    reports,    \* this build prints its GPU buffers
    stops,      \* frontier: the contexts to settle ...
    planned,    \* ... given, with a seed and a cap each, or taken from the grid
    cap,        \* capNgl, -1 without one
    seed,       \* calculateNgl
    most,       \* most layers whose claim fits, at each context
    history,    \* the loads made of each rung
    end,        \* why the loop ended
    troubles    \* bound: what went wrong so far

input == <<mode, candidate, listed, reports, stops, planned, cap, seed, most>>
vars == <<input, history, end, troubles>>

TypeOK ==
    /\ mode \in Mode /\ candidate \in Rung /\ listed \in BOOLEAN /\ reports \in BOOLEAN
    /\ stops \in SUBSET Ctx /\ stops # {} /\ planned \in BOOLEAN
    /\ cap \in [Ctx -> -1..NglMax] /\ seed \in [Ctx -> Ngl] /\ most \in [Ctx -> -1..NglMax]
    /\ history \in [Rung -> Seq(Attempt)]
    /\ end \in {"searching", "answered", "budget", "stopped", "unsupported"}
    /\ troubles \in 0..MaxTrouble

-----------------------------------------------------------------------------
(* Verdicts *)

At(c, n) == [ctx |-> c, ngl |-> n]
Top(S) == Max(S \cup {-1})
Clamp(x, lo, hi) == Max({lo, Min({x, hi})})
Loads == FoldSet(LAMBDA r, k : k + Len(history[r]), 0, Rung)

Loaded(r) == history[r] # <<>>
OneClean(r) == \E i \in DOMAIN history[r] : history[r][i].ok   \* slip: any of them
Clean(r) == Loaded(r) /\ \A i \in DOMAIN history[r] : history[r][i].ok
Conclusive(r) == {history[r][i] : i \in {j \in DOMAIN history[r] : ~history[r][j].error}}
Fit(r) == \E a \in Conclusive(r) : a.fits
Miss(r) == \E a \in Conclusive(r) : ~a.fits
Control(r) == Len(history[r]) >= 2

(* A step of a search: its answer so far, and the positions it may go to.   *)
Step(value, next) == [value |-> value, resolved |-> next = {}, next |-> next]
Stuck(value) == [value |-> value, resolved |-> FALSE, next |-> {}]

(* predictFitNgl has claims to go by: of one load here, or of two elsewhere *)
(* at one context.  What it makes of them may be any layer count.           *)
Predicts(c) ==
    LET claims(d) == {n \in Ngl : Conclusive(At(d, n)) # {}}
    IN  reports /\ (claims(c) \ {0} # {} \/ \E d \in Ctx : Cardinality(claims(d)) >= 2)

(* fitStep: target 2 at context c, among the contexts considered; between   *)
(* the most layers known to fit and the fewest above that do not.           *)
Narrow(c, lo, hi, opener) ==
    LET tried == {n \in Ngl : Loaded(At(c, n))}
        open == ((lo + 1)..(hi - 1)) \ tried
        middle == Clamp((lo + hi) \div 2, lo + 1, hi - 1)
    IN  IF hi = lo + 1 THEN Step(lo, {})
        ELSE IF open = {} THEN Stuck(lo)
        ELSE IF Predicts(c) THEN Step(lo, open)
        ELSE Step(lo, {IF tried = {} /\ opener # -1 THEN Clamp(opener, lo + 1, hi - 1)
                       ELSE IF middle \in open THEN middle ELSE Max(open)})

\* slip: a miss does not carry up, nor a ceiling
FitHere(c, among, ceiling, opener) ==
    LET lo == Top({n \in Ngl : \E d \in among : d >= c /\ Fit(At(d, n))})
        open == {n \in (lo + 1)..NglMax : ~Loaded(At(c, n))}
    IN  IF open = {} THEN Step(lo, {}) ELSE Step(lo, {Max(open)})
FitStep(c, among, ceiling, opener) ==
    LET lo == Top({n \in Ngl : \E d \in among : d >= c /\ Fit(At(d, n))})
        misses == {n \in Ngl : \E d \in among : d <= c /\ Miss(At(d, n))}
                    \cup (IF ceiling = -1 THEN {} ELSE {ceiling + 1})
        within(l) == Narrow(c, l, Min({m \in misses : m > l} \cup {NglMax + 1}), opener)
    IN  within(lo)

(* cleanStep: target 1 on the positions 0..limit of an axis, at[p] the rung *)
(* of position p.                                                           *)
\* slip: gives up at the first spill
FirstSpill(limit, at, opener) ==
    LET a == Top({p \in 0..limit : Clean(at[p])})
    IN  IF \A p \in 0..limit : ~Loaded(at[p]) THEN Step(-1, {limit} \ {-1})
        ELSE IF a = limit THEN Step(a, {})
        ELSE IF \E p \in (a + 1)..limit : Loaded(at[p]) THEN Step(a, {})
        ELSE Step(a, {a + 1})
CleanStep(limit, at, opener) ==
    LET loaded == {p \in 0..limit : Loaded(at[p])}
        a == Top({p \in loaded : Clean(at[p])})
        above == {p \in loaded : p > a}
        s == Min(above)
        near == {p \in {a + 2, a + 3} : p <= limit /\ p \notin loaded}
    IN  IF limit < 0 THEN Step(-1, {})
        ELSE IF loaded = {}
        THEN Step(-1, {IF opener = -1 THEN limit ELSE Clamp(opener, 0, limit)})
        ELSE IF a = limit THEN Step(a, {})
        ELSE IF above = {} THEN Step(a, {(a + limit + 2) \div 2})
        ELSE IF s > a + 1 THEN Step(a, {(a + s) \div 2})
        ELSE Step(a, IF near = {} THEN {} ELSE {Min(near)})

-----------------------------------------------------------------------------
(* The modes: each says what to load next, which of it only target 2 can    *)
(* use, and what is known so far.                                           *)

Outcome(next, clean, fit) == [next |-> next, only |-> {}, clean |-> clean, fit |-> fit]
Controlled(r) == {r} \ {None}   \* slip: whatever was loaded
ToControl(r) == IF r # None /\ ~Control(r) THEN {r} ELSE {}
Answer(r, fit) == Outcome(ToControl(r), r, fit)

Custom ==
    IF ~Loaded(candidate) THEN Outcome({candidate}, None, None)
    ELSE Outcome({}, IF Clean(candidate) THEN candidate ELSE None,
                 IF listed /\ \E i \in DOMAIN history[candidate] : history[candidate][i].fits
                 THEN candidate ELSE None)

KeepContext ==
    LET c == candidate.ctx
        at == [p \in Ngl |-> At(c, p)]
        fit == FitStep(c, {c}, -1, candidate.ngl)
        clean == CleanStep(IF listed THEN fit.value ELSE NglMax, at,
                           IF listed THEN -1 ELSE candidate.ngl)
        rung(p) == IF p = -1 THEN None ELSE at[p]
        fitting == IF listed THEN rung(fit.value) ELSE None
    IN  IF listed /\ (~fit.resolved \/ fit.value = -1)
        THEN Outcome({at[p] : p \in fit.next}, None, None)
        ELSE IF ~clean.resolved THEN Outcome({at[p] : p \in clean.next}, None, fitting)
        ELSE Answer(rung(clean.value), fitting)

(* fixed_offload: the axis is the grid, position p the context p + 1. *)
FixedOffload ==
    LET at == [p \in 0..(Contexts - 1) |-> At(p + 1, candidate.ngl)]
        known == Top({p \in DOMAIN at : Fit(at[p])})
        first == Min({p \in DOMAIN at : p > known /\ Miss(at[p])} \cup {Contexts})
        middle == IF known = -1 /\ first = Contexts THEN candidate.ctx - 1
                  ELSE IF first = Contexts THEN (known + Contexts + 1) \div 2
                  ELSE (known + first) \div 2
        next == at[Clamp(middle, known + 1, first - 1)]
        clean == CleanStep(IF listed THEN known ELSE Contexts - 1, at,
                           IF listed THEN -1 ELSE candidate.ctx - 1)
        rung(p) == IF p = -1 THEN None ELSE at[p]
        fitting == IF listed THEN rung(known) ELSE None
    IN  IF listed /\ first # known + 1
        THEN Outcome(IF Loaded(next) THEN {} ELSE {next}, None, None)
        ELSE IF listed /\ known = -1 THEN Outcome({}, None, None)
        ELSE IF ~clean.resolved THEN Outcome({at[p] : p \in clean.next}, None, fitting)
        ELSE Answer(rung(clean.value), fitting)

(* frontier: the state of each stop, from the one below. *)
Below(c) == Top({d \in stops : d < c})
MinOf(S) == IF S \ {-1} = {} THEN -1 ELSE Min(S \ {-1})
CapAt(c) == IF planned THEN cap[c] ELSE -1
SeedAt(c, ceiling) ==
    IF Below(c) = -1 THEN seed[c]
    ELSE IF planned THEN MinOf({seed[c], ceiling}) ELSE ceiling

Untouched == [fit |-> Stuck(-1), clean |-> Stuck(-1), limit |-> -1, next |-> {}, only |-> {},
              settled |-> FALSE, nothing |-> FALSE]
Nothing == [Untouched EXCEPT !.fit = Step(-1, {}), !.clean = Step(-1, {}),
                             !.settled = TRUE, !.nothing = TRUE]

(* nextClaimOnly: above what target 1 may still accept here. *)
NotBelow(rungs, answer) == {r \in rungs : r.ngl >= answer}   \* slip: the answer too
ClaimOnly(rungs, answer) == {r \in rungs : r.ngl > answer}

(* Target 1 here, given target 2, once the stop below has its control.      *)
SettleClean(c, first, answer, fit) ==
    LET base == IF first THEN fit.value ELSE Min({answer, fit.value})
        limit == IF CapAt(c) = -1 THEN base ELSE Min({base, CapAt(c)})
        state(clean) ==
            [Untouched EXCEPT
               !.fit = IF listed THEN fit ELSE Stuck(-1),
               !.clean = clean, !.limit = limit, !.settled = clean.resolved,
               !.next = IF ~clean.resolved THEN {At(c, n) : n \in clean.next}
                        ELSE IF c = Max(stops) /\ clean.value # -1
                        THEN ToControl(At(c, clean.value)) ELSE {}]
    IN  state(CleanStep(limit, [p \in Ngl |-> At(c, p)],
                        IF (first \/ planned) /\ ~listed THEN seed[c] ELSE -1))

(* Target 2 here, then the control of the stop below, then target 1 here.   *)
Settle(c, first, below) ==
    LET ceiling == MinOf({IF first THEN -1 ELSE below.fit.value, CapAt(c)})
        answer == IF first THEN -1 ELSE below.clean.value
        pending == IF answer = -1 THEN {} ELSE ToControl(At(Below(c), answer))
        given(fit) ==
            LET here == [Untouched EXCEPT !.fit = IF listed THEN fit ELSE Stuck(-1)]
                rungs == {At(c, n) : n \in fit.next}
            IN  IF ~fit.resolved
                THEN [here EXCEPT !.next = rungs,
                                  !.only = IF first THEN {} ELSE ClaimOnly(rungs, answer)]
                ELSE IF pending # {} THEN [here EXCEPT !.next = pending]
                ELSE IF fit.value = -1 THEN Nothing
                ELSE SettleClean(c, first, answer, fit)
    IN  given(IF listed THEN FitStep(c, Ctx, ceiling, SeedAt(c, ceiling)) ELSE Step(NglMax, {}))

StateAt(at, c) ==   \* given the states at of the stops below
    LET first == Below(c) = -1
        below == IF first THEN Untouched ELSE at[Below(c)]
    IN  IF ~first /\ ~below.settled THEN Untouched
        ELSE IF ~first /\ below.nothing THEN Nothing
        ELSE Settle(c, first, below)
Curve ==
    LET at[c \in stops] == StateAt(at, c)
    IN  [c \in stops |-> at[c]]

(* summarise: the next load, and the headline answers of a curve. *)
Summary(curve) ==
    LET rung(c) == At(c, curve[c].clean.value)
        answers == {c \in stops : curve[c].clean.resolved /\ curve[c].clean.value # -1}
        sure == {c \in answers : Control(rung(c))}
        best == IF sure # {} THEN sure ELSE answers
        fitting == {c \in stops : curve[c].fit.resolved /\ curve[c].fit.value # -1}
    IN  [next  |-> UNION {curve[c].next : c \in stops},
         only  |-> UNION {curve[c].only : c \in stops},
         clean |-> IF best = {} THEN None ELSE rung(Max(best)),
         fit   |-> IF fitting = {} THEN None ELSE At(Max(fitting), curve[Max(fitting)].fit.value)]
Frontier == Summary(Curve)

(* anchorGate: one layer at the smallest context, twice, before anything.   *)
Anchor == At(1, 1)
ProbeOutcome ==
    IF \E i \in DOMAIN history[Anchor] : ~history[Anchor][i].ok THEN Outcome({}, None, None)
    ELSE IF ~Control(Anchor) THEN Outcome({Anchor}, None, None)
    ELSE CASE mode = "custom" -> Custom
           [] mode = "keep_context" -> KeepContext
           [] mode = "fixed_offload" -> FixedOffload
           [] mode = "frontier" -> Frontier

-----------------------------------------------------------------------------
(* The worker's loop *)

Judged == listed /\ reports      \* a claim and a line to hold it against
Fitting(r) == r.ngl <= most[r.ctx]
Trace(ok, fits, error, only) == [ok |-> ok, fits |-> fits, error |-> error, only |-> only]
Full(r, ok) == Trace(ok, IF Judged THEN Fitting(r) ELSE ok, FALSE, FALSE)

(* What a load of r comes back with: its claim, where only that is asked    *)
(* for and it fits, and a spill verdict otherwise.                          *)
Attempts(r, only) ==
    IF Judged /\ Fitting(r) /\ only THEN {Trace(FALSE, TRUE, FALSE, TRUE)}
    ELSE {Full(r, ok) : ok \in IF Fitting(r) THEN BOOLEAN ELSE {FALSE}}

(* ... and what it may come back with instead: a sibling's full load, out   *)
(* of memory whatever the claim said, or a failure that says nothing.       *)
Setback(kind, r) ==
    CASE kind = "sibling" -> {Full(r, TRUE), Full(r, FALSE)}
      [] kind = "out of memory" -> {Trace(FALSE, FALSE, FALSE, FALSE)}
      [] OTHER -> {Trace(FALSE, FALSE, TRUE, FALSE)}

Record(r, a) == history' = [history EXCEPT ![r] = Append(@, a)]
Suffer(kind) ==
    /\ kind \in Trouble /\ troubles < MaxTrouble
    /\ troubles' = troubles + 1

Load ==
    /\ end = "searching" /\ Loads < MaxLoads
    /\ LET outcome == ProbeOutcome
       IN  \E r \in outcome.next : \E a \in Attempts(r, r \in outcome.only) : Record(r, a)
    /\ UNCHANGED <<input, end, troubles>>

LoadTroubled(kind) ==
    /\ end = "searching" /\ Loads < MaxLoads
    /\ Suffer(kind)
    /\ LET outcome == ProbeOutcome
       IN  \E r \in outcome.next : \E a \in Setback(kind, r) :
              /\ kind = "sibling" => Fitting(r) /\ r \in outcome.only
              /\ Record(r, a)
    /\ end' = IF kind = "unsupported" THEN "unsupported" ELSE end
    /\ UNCHANGED input

Conclude ==
    /\ end = "searching"
    /\ end' = IF Loads >= MaxLoads THEN "budget" ELSE "answered"
    /\ Loads >= MaxLoads \/ ProbeOutcome.next = {}
    /\ UNCHANGED <<input, history, troubles>>

(* stopRequested, before a load or in the middle of one, which is discarded. *)
Stop ==
    /\ end = "searching" /\ Suffer("stop")
    /\ end' = "stopped"
    /\ UNCHANGED <<input, history>>

Falling(f) == \A c, d \in Ctx : c < d => f[d] <= f[c]
Init ==
    /\ mode \in Mode
    /\ candidate \in IF mode = "frontier" THEN {Anchor} ELSE Rung
    /\ listed \in BOOLEAN /\ reports \in IF listed THEN BOOLEAN ELSE {FALSE}
    /\ planned \in IF mode = "frontier" THEN BOOLEAN ELSE {FALSE}
    /\ stops \in IF planned THEN (SUBSET Ctx) \ {{}} ELSE {Ctx}
    /\ \E n \in Seed : seed = [c \in Ctx |-> n]
    /\ \E n \in IF planned THEN Cap ELSE {-1} : cap = [c \in Ctx |-> n]
    /\ most \in {f \in [Ctx -> -1..NglMax] : Falling(f)}
    /\ history = [r \in Rung |-> <<>>]
    /\ end = "searching" /\ troubles = 0

Next ==
    \/ Load
    \/ \E kind \in Trouble \ {"stop"} : LoadTroubled(kind)
    \/ Conclude
    \/ Stop
Spec == Init /\ [][Next]_vars

-----------------------------------------------------------------------------
Result == ProbeOutcome
Anchored == Clean(Anchor) /\ Control(Anchor)
Misled ==   \* out of memory, though its claim fits
    \E r \in Rung : \E i \in DOMAIN history[r] :
        Fitting(r) /\ ~history[r][i].error /\ ~history[r][i].fits
Errors == \E r \in Rung : \E i \in DOMAIN history[r] : history[r][i].error

(* The most layers target 2 may answer at a context of the Wizard. *)
Best(c) == Min({most[c]} \cup ({CapAt(d) : d \in {e \in stops : e <= c}} \ {-1}))

(* Target 2 is the truth, whatever was guessed and in whatever order its    *)
(* loads were made: never more layers than fit, and unless a load ran out   *)
(* of memory in spite of its claim, never fewer.                            *)
FitIsRight ==
    Judged /\ Anchored =>
      CASE mode = "frontier" ->
             LET curve == Curve
             IN  \A c \in stops : curve[c].fit.resolved =>
                    /\ curve[c].fit.value <= Best(c)
                    /\ ~Misled => curve[c].fit.value = Best(c)
        [] mode = "fixed_offload" -> Result.fit # None =>
             /\ Fitting(Result.fit)
             /\ ~Misled => \A c \in Ctx : c > Result.fit.ctx => most[c] < Result.fit.ngl
        [] OTHER -> Result.fit # None =>
             /\ Fitting(Result.fit)
             /\ ~Misled /\ mode = "keep_context" => Result.fit.ngl = most[Result.fit.ctx]

(* A no-spill answer was seen: every load of it was clean, twice if the     *)
(* search has nothing left to load and no load in it failed without a       *)
(* reason, and spill was seen right above it, unless nothing above may be   *)
(* loaded.                                                                  *)
CleanIsSeen ==
    LET result == ProbeOutcome
        r == result.clean
        curve == Curve
        spills(q) == Loaded(q) /\ ~Clean(q)
    IN  r # None =>
          /\ \A i \in DOMAIN history[r] : history[r][i].ok
          /\ result.next = {} /\ mode # "custom" /\ ~Errors => Control(r)
          /\ mode = "frontier" => r.ngl = curve[r.ctx].limit \/ spills(At(r.ctx, r.ngl + 1))
          /\ mode = "keep_context" => r.ngl = NglMax \/ (listed /\ r = result.fit)
                                         \/ spills(At(r.ctx, r.ngl + 1))
          /\ mode = "fixed_offload" => r.ctx = Contexts \/ (listed /\ r = result.fit)
                                          \/ spills(At(r.ctx + 1, r.ngl))

(* A load that stopped at its claim, as one target 1 could never use, is    *)
(* indeed never asked for a spill verdict afterwards: no control overturned *)
(* and no search repeated below reaches up to it.                           *)
ClaimOnlySuffices ==
    mode = "frontier" /\ Anchored =>
      LET curve == Curve
      IN  \A c \in stops, n \in Ngl :
            (\E i \in DOMAIN history[At(c, n)] : history[At(c, n)][i].only) => n > curve[c].limit

(* No placement is loaded a third time, so every search ends by itself. *)
AtMostTwice == \A r \in Rung : Len(history[r]) <= 2

(* ... and one with nothing left to load has settled everything it set out  *)
(* to, unless a load failed for a reason that says nothing.                 *)
EndsSettled ==
    Anchored /\ ~Errors =>
      LET result == ProbeOutcome
          curve == Curve
      IN  result.next = {} =>
            /\ mode = "frontier" =>
                  \A c \in stops : /\ curve[c].settled
                                   /\ curve[c].clean.value # -1 =>
                                         Control(At(c, curve[c].clean.value))
            /\ mode \in {"keep_context", "fixed_offload"} /\ listed /\ result.fit = None =>
                  \E r \in Rung : Miss(r)
=============================================================================
