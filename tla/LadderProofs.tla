---------------------------- MODULE LadderProofs ----------------------------
(***************************************************************************)
(* The probe ladder: for every grid of contexts, every model, every plan   *)
(* of caps and seeds and whatever goes wrong, no placement is loaded a     *)
(* third time, target 2 is the truth, target 1 was seen, a search that     *)
(* ends has settled what it set out to, and a load that stopped at its     *)
(* claim is never missed.  And the placements it walks: FromFit inverts    *)
(* ToArgs on every rung of every model's ladder.                           *)
(***************************************************************************)
EXTENDS ProbeLadder, Placement, WellFoundedInduction, TLAPS

-----------------------------------------------------------------------------
(* Numbers.  What the library's induction has to give here is that a set of *)
(* naturals has a least member.                                             *)
LEMMA LeastNatural ==
    ASSUME NEW T \in SUBSET Nat, T # {}
    PROVE  \E x \in T : \A y \in T : x <= y
<1> DEFINE R == OpToRel(<, Nat)
<1>1. IsWellFoundedOn(R, Nat)
  BY NatLessThanWellFounded
<1>2. \A x, y \in Nat : y < x => <<y, x>> \in R
  BY DEF OpToRel
<1> HIDE DEF R
<1>3. PICK x \in T : \A y \in T : <<y, x>> \notin R
  BY <1>1, WFMin
<1>4. ASSUME NEW y \in T PROVE x <= y
  <2>1. ~(y < x)
    BY <1>2, <1>3
  <2> QED  BY <2>1
<1> QED  BY <1>4

LEMMA LeastOf ==
    ASSUME NEW S \in SUBSET Int, S # {}, NEW b \in Int, \A x \in S : b <= x
    PROVE  Min(S) \in S /\ \A x \in S : Min(S) <= x
<1> DEFINE T == {x - b : x \in S}
<1>1. T \in SUBSET Nat /\ T # {}
  <2>1. \A x \in S : x - b \in Nat
    OBVIOUS
  <2> QED  BY <2>1
<1>2. PICK t \in T : \A y \in T : t <= y
  BY <1>1, LeastNatural
<1>3. PICK x \in S : t = x - b
  OBVIOUS
<1>4. ASSUME NEW y \in S PROVE x <= y
  <2>1. y - b \in T /\ y \in Int /\ x \in Int
    OBVIOUS
  <2>2. t <= y - b
    BY <1>2, <2>1
  <2> QED  BY <1>3, <2>1, <2>2
<1> QED  BY <1>4 DEF Min

LEMMA GreatestOf ==
    ASSUME NEW S \in SUBSET Int, S # {}, NEW b \in Int, \A x \in S : x <= b
    PROVE  Max(S) \in S /\ \A x \in S : x <= Max(S)
<1> DEFINE T == {b - x : x \in S}
<1>1. T \in SUBSET Nat /\ T # {}
  <2>1. \A x \in S : b - x \in Nat
    OBVIOUS
  <2> QED  BY <2>1
<1>2. PICK t \in T : \A y \in T : t <= y
  BY <1>1, LeastNatural
<1>3. PICK x \in S : t = b - x
  OBVIOUS
<1>4. ASSUME NEW y \in S PROVE y <= x
  <2>1. b - y \in T /\ y \in Int /\ x \in Int
    OBVIOUS
  <2>2. t <= b - y
    BY <1>2, <2>1
  <2> QED  BY <1>3, <2>1, <2>2
<1> QED  BY <1>4 DEF Max

LEMMA TopIs ==
    ASSUME NEW b \in Int, NEW S \in SUBSET (0..b)
    PROVE  /\ Top(S) \in S \cup {-1} /\ \A x \in S : x <= Top(S)
           /\ Top(S) \in Int /\ Top(S) >= -1 /\ (S # {} => Top(S) \in S)
<1> DEFINE U == S \cup {-1}
           m == IF b < -1 THEN -1 ELSE b
<1>1. U \in SUBSET Int /\ U # {} /\ m \in Int /\ \A x \in U : x <= m
  OBVIOUS
<1>2. Max(U) \in U /\ \A x \in U : x <= Max(U)
  BY <1>1, GreatestOf
<1>3. Top(S) = Max(U)
  BY DEF Top
<1>4. Top(S) \in Int /\ -1 <= Top(S) /\ \A x \in S : x <= Top(S)
  BY <1>1, <1>2, <1>3
<1>5. ASSUME NEW x \in S PROVE Top(S) # -1
  <2>1. x \in 0..b /\ x <= Top(S)
    BY <1>4
  <2> QED  BY <1>4, <2>1
<1> QED  BY <1>2, <1>3, <1>4, <1>5

LEMMA ClampIs ==
    ASSUME NEW x \in Int, NEW lo \in Int, NEW hi \in Int, lo <= hi
    PROVE  Clamp(x, lo, hi) \in lo..hi
<1> DEFINE m == Min({x, hi})
<1>1. m \in {x, hi} /\ m <= hi
  <2>1. {x, hi} \in SUBSET Int /\ {x, hi} # {} /\ \E b \in Int : \A y \in {x, hi} : b <= y
    BY x <= hi \/ hi <= x
  <2> QED  BY <2>1, LeastOf
<1>2. Max({lo, m}) \in {lo, m} /\ lo <= Max({lo, m})
  <2>1. {lo, m} \in SUBSET Int /\ {lo, m} # {} /\ \E b \in Int : \A y \in {lo, m} : y <= b
    BY <1>1
  <2> QED  BY <2>1, GreatestOf
<1> QED  BY <1>1, <1>2 DEF Clamp

LEMMA MinOfIs ==   \* -1 stands for none
    ASSUME NEW x \in Int, NEW y \in Int, x >= -1, y >= -1
    PROVE  /\ MinOf({x, y}) \in {x, y}
           /\ x # -1 => MinOf({x, y}) <= x /\ MinOf({x, y}) # -1
           /\ y # -1 => MinOf({x, y}) <= y /\ MinOf({x, y}) # -1
<1> DEFINE S == {x, y} \ {-1}
<1>1. CASE S = {}
  BY <1>1 DEF MinOf
<1>2. CASE S # {}
  <2>1. S \in SUBSET Int /\ \A z \in S : 0 <= z
    OBVIOUS
  <2>2. Min(S) \in S /\ \A z \in S : Min(S) <= z
    BY <1>2, <2>1, LeastOf
  <2>3. MinOf({x, y}) = Min(S)
    BY <1>2 DEF MinOf
  <2> QED  BY <2>2, <2>3
<1> QED  BY <1>1, <1>2

-----------------------------------------------------------------------------
(* Verdicts and searches. *)

Typed ==
    /\ mode \in Mode /\ candidate \in Rung /\ listed \in BOOLEAN /\ reports \in BOOLEAN
    /\ stops \in SUBSET Ctx /\ stops # {} /\ planned \in BOOLEAN
    /\ cap \in [Ctx -> -1..NglMax] /\ seed \in [Ctx -> Ngl] /\ most \in [Ctx -> -1..NglMax]
    /\ history \in [Rung -> Seq(Attempt)]

LEMMA Sizes == Contexts \in Nat /\ Contexts >= 1 /\ NglMax \in Nat /\ NglMax >= 1
               /\ Ctx = 1..Contexts /\ Ngl = 0..NglMax
  BY SizesAssumption DEF Ctx, Ngl

LEMMA AtIs == ASSUME NEW c \in Ctx, NEW n \in Ngl
              PROVE  At(c, n) \in Rung /\ At(c, n).ctx = c /\ At(c, n).ngl = n
  BY DEF At, Rung

LEMMA RungIs == ASSUME NEW r \in Rung
                PROVE  r.ctx \in Ctx /\ r.ngl \in Ngl /\ r = At(r.ctx, r.ngl)
  BY DEF At, Rung

LEMMA LoadedIs ==
    ASSUME Typed, NEW r \in Rung
    PROVE  /\ history[r] \in Seq(Attempt) /\ Len(history[r]) \in Nat
           /\ DOMAIN history[r] = 1..Len(history[r])
           /\ \A i \in DOMAIN history[r] : history[r][i] \in Attempt
           /\ Loaded(r) <=> Len(history[r]) > 0
           /\ Fit(r) \/ Miss(r) \/ Clean(r) => Loaded(r)
<1>1. /\ history[r] \in Seq(Attempt) /\ Len(history[r]) \in Nat
      /\ DOMAIN history[r] = 1..Len(history[r])
      /\ \A i \in DOMAIN history[r] : history[r][i] \in Attempt
      /\ Loaded(r) <=> Len(history[r]) > 0
  BY DEF Typed, Loaded
<1>2. Fit(r) \/ Miss(r) => Loaded(r)
  BY <1>1 DEF Fit, Miss, Conclusive
<1> QED  BY <1>1, <1>2 DEF Clean

LEMMA StepIs ==
    ASSUME NEW v, NEW next
    PROVE  /\ Step(v, next).value = v /\ Step(v, next).next = next
           /\ Step(v, next).resolved \in BOOLEAN /\ (Step(v, next).resolved <=> next = {})
           /\ Stuck(v).value = v /\ Stuck(v).next = {}
           /\ Stuck(v).resolved \in BOOLEAN /\ ~Stuck(v).resolved
  BY DEF Step, Stuck

(* Between a bound that fits and one that does not, a search is at its end, *)
(* or it loads something new in between, or everything in between is loaded *)
(* and said nothing.                                                        *)
LEMMA NarrowIs ==
    ASSUME Typed, NEW c \in Ctx, NEW lo \in -1..NglMax, NEW hi \in (lo + 1)..(NglMax + 1),
           NEW opener \in Int
    PROVE  LET s == Narrow(c, lo, hi, opener)
           IN  /\ s.value = lo /\ s.resolved \in BOOLEAN /\ (s.resolved <=> hi = lo + 1)
               /\ \A n \in s.next : n \in (lo + 1)..(hi - 1) /\ n \in Ngl /\ ~Loaded(At(c, n))
               /\ ~s.resolved /\ s.next = {} =>
                     hi > lo + 1 /\ \A n \in (lo + 1)..(hi - 1) : Loaded(At(c, n))
<1> DEFINE tried == {n \in Ngl : Loaded(At(c, n))}
           open == ((lo + 1)..(hi - 1)) \ tried
           middle == Clamp((lo + hi) \div 2, lo + 1, hi - 1)
           first == Clamp(opener, lo + 1, hi - 1)
           s == Narrow(c, lo, hi, opener)
<1>1. lo \in Int /\ hi \in Int /\ \A n \in (lo + 1)..(hi - 1) : n \in Ngl
  BY Sizes
<1>2. \A n \in open : n \in (lo + 1)..(hi - 1) /\ n \in Ngl /\ ~Loaded(At(c, n))
  BY <1>1
<1>3. CASE hi = lo + 1
  <2>1. s = Step(lo, {})
    BY <1>3 DEF Narrow
  <2> QED  BY <1>3, <2>1, StepIs
<1>4. CASE hi # lo + 1 /\ open = {}
  <2>1. s = Stuck(lo)
    BY <1>4 DEF Narrow
  <2>2. hi > lo + 1 /\ \A n \in (lo + 1)..(hi - 1) : Loaded(At(c, n))
    BY <1>1, <1>4
  <2>3. s.value = lo /\ s.resolved \in BOOLEAN /\ ~s.resolved /\ s.next = {}
    BY <2>1, StepIs
  <2> HIDE DEF s
  <2> QED  BY <1>4, <2>2, <2>3 DEF s
<1>5. CASE hi # lo + 1 /\ open # {}
  <2>1. lo + 1 <= hi - 1 /\ lo + 1 \in Int /\ hi - 1 \in Int
    BY <1>1, <1>5
  <2>2. first \in (lo + 1)..(hi - 1)
    BY <2>1, ClampIs
  <2>3. Max(open) \in open
    <3>1. open \in SUBSET Int /\ \A n \in open : n <= hi
      BY <1>1
    <3> QED  BY <1>1, <1>5, <3>1, GreatestOf
  <2> DEFINE next == IF Predicts(c) THEN open
                     ELSE {IF tried = {} /\ opener # -1 THEN first
                           ELSE IF middle \in open THEN middle ELSE Max(open)}
  <2>4. s = Step(lo, next)
    BY <1>5 DEF Narrow
  <2>5. next # {} /\ next \subseteq open
    <3>1. tried = {} => first \in open
      BY <2>2
    <3> HIDE DEF first, middle, tried, open
    <3> QED  BY <1>5, <2>3, <3>1
  <2> HIDE DEF next, s
  <2>6. s.value = lo /\ s.resolved \in BOOLEAN /\ ~s.resolved /\ s.next = next
    BY <2>4, <2>5, StepIs
  <2>7. \A n \in next : n \in (lo + 1)..(hi - 1) /\ n \in Ngl /\ ~Loaded(At(c, n))
    BY <1>2, <2>5
  <2> QED  BY <1>5, <2>5, <2>6, <2>7 DEF s
<1> QED  BY <1>3, <1>4, <1>5

(* fitStep: what it takes for the bounds, and that they are the tightest.   *)
FitFound(c, among, ceiling, s, lo, hi) ==
    /\ s.value = lo /\ s.resolved \in BOOLEAN /\ (s.resolved <=> hi = lo + 1)
    /\ \A n \in s.next : n \in (lo + 1)..(hi - 1) /\ n \in Ngl /\ ~Loaded(At(c, n))
    /\ ~s.resolved /\ s.next = {} =>
          hi > lo + 1 /\ \A n \in (lo + 1)..(hi - 1) : Loaded(At(c, n))
    /\ lo = -1 \/ (lo \in Ngl /\ \E d \in among : d >= c /\ Fit(At(d, lo)))
    /\ \A n \in Ngl : (\E d \in among : d >= c /\ Fit(At(d, n))) => n <= lo
    /\ \/ hi = NglMax + 1
       \/ ceiling # -1 /\ hi = ceiling + 1
       \/ hi \in Ngl /\ \E d \in among : d <= c /\ Miss(At(d, hi))
    /\ \A n \in Ngl : n > lo /\ (\E d \in among : d <= c /\ Miss(At(d, n))) => hi <= n
    /\ ceiling # -1 /\ ceiling + 1 > lo => hi <= ceiling + 1

LEMMA FitStepIs ==
    ASSUME Typed, NEW c \in Ctx, NEW among \in SUBSET Ctx, NEW ceiling \in -1..NglMax,
           NEW opener \in Int
    PROVE  \E lo \in -1..NglMax : \E hi \in (lo + 1)..(NglMax + 1) :
             FitFound(c, among, ceiling, FitStep(c, among, ceiling, opener), lo, hi)
<1> DEFINE fits == {n \in Ngl : \E d \in among : d >= c /\ Fit(At(d, n))}
           lo == Top(fits)
           misses == {n \in Ngl : \E d \in among : d <= c /\ Miss(At(d, n))}
                       \cup (IF ceiling = -1 THEN {} ELSE {ceiling + 1})
           above == {m \in misses : m > lo} \cup {NglMax + 1}
           hi == Min(above)
           s == FitStep(c, among, ceiling, opener)
<1>1. /\ lo \in fits \cup {-1} /\ lo \in -1..NglMax /\ \A n \in fits : n <= lo
  <2>1. fits \in SUBSET (0..NglMax)
    BY Sizes
  <2>2. NglMax \in Int
    BY Sizes
  <2>3. lo \in fits \cup {-1} /\ \A n \in fits : n <= lo
    BY <2>1, <2>2, TopIs
  <2> HIDE DEF fits, lo
  <2> QED  BY <2>1, <2>2, <2>3
<1> HIDE DEF lo
<1>2. misses \in SUBSET (0..(NglMax + 1))
  BY Sizes
<1> HIDE DEF misses
<1>3. hi \in above /\ (\A m \in above : hi <= m) /\ hi \in (lo + 1)..(NglMax + 1)
  <2>1. \A m \in above : m \in Int /\ m > lo /\ 0 <= m
    <3> TAKE m \in above
    <3>1. m \in misses \/ m = NglMax + 1
      OBVIOUS
    <3>2. m \in 0..(NglMax + 1)
      BY <1>2, <3>1, Sizes
    <3>3. m > lo
      BY <1>1, Sizes
    <3> QED  BY <3>2, <3>3
  <2>2. above \in SUBSET Int /\ above # {} /\ 0 \in Int /\ NglMax + 1 \in above
    BY <2>1
  <2> HIDE DEF above
  <2>3. hi \in above /\ \A m \in above : hi <= m
    BY <2>1, <2>2, LeastOf
  <2>4. hi \in Int /\ hi > lo /\ hi <= NglMax + 1
    BY <2>1, <2>2, <2>3
  <2> QED  BY <1>1, <2>3, <2>4, Sizes
<1>5. s = Narrow(c, lo, hi, opener)
  BY DEF FitStep, lo, misses
<1> HIDE DEF hi, s
<1>6. /\ s.value = lo /\ s.resolved \in BOOLEAN /\ (s.resolved <=> hi = lo + 1)
      /\ \A n \in s.next : n \in (lo + 1)..(hi - 1) /\ n \in Ngl /\ ~Loaded(At(c, n))
      /\ ~s.resolved /\ s.next = {} =>
            hi > lo + 1 /\ \A n \in (lo + 1)..(hi - 1) : Loaded(At(c, n))
  BY <1>1, <1>3, <1>5, NarrowIs
<1>7. lo = -1 \/ (lo \in Ngl /\ \E d \in among : d >= c /\ Fit(At(d, lo)))
  BY <1>1
<1>8. \A n \in Ngl : (\E d \in among : d >= c /\ Fit(At(d, n))) => n <= lo
  BY <1>1
<1>9. \/ hi = NglMax + 1
      \/ ceiling # -1 /\ hi = ceiling + 1
      \/ hi \in Ngl /\ \E d \in among : d <= c /\ Miss(At(d, hi))
  BY <1>3 DEF misses
<1>10. \A n \in Ngl : n > lo /\ (\E d \in among : d <= c /\ Miss(At(d, n))) => hi <= n
  BY <1>3 DEF misses
<1>11. ceiling # -1 /\ ceiling + 1 > lo => hi <= ceiling + 1
  BY <1>3 DEF misses
<1>12. FitFound(c, among, ceiling, s, lo, hi)
  BY <1>6, <1>7, <1>8, <1>9, <1>10, <1>11 DEF FitFound
<1> QED  BY <1>1, <1>3, <1>12 DEF s

(* cleanStep: an answer was seen, and spill right above it.                 *)
CleanFound(limit, at, s) ==
    /\ s.value \in -1..limit /\ s.resolved \in BOOLEAN /\ (s.resolved <=> s.next = {})
    /\ s.value # -1 => Clean(at[s.value])
    /\ \A p \in 0..limit : Clean(at[p]) => p <= s.value
    /\ \A p \in s.next : p \in 0..limit /\ ~Loaded(at[p])
    /\ s.resolved /\ s.value # limit => Loaded(at[s.value + 1]) /\ ~Clean(at[s.value + 1])
    /\ s.resolved <=> \/ s.value = limit
                      \/ /\ Loaded(at[s.value + 1])
                         /\ \A p \in {s.value + 2, s.value + 3} : p <= limit => Loaded(at[p])
    /\ \A p \in s.next, q \in 0..limit :
          q > s.value /\ Loaded(at[q]) => p <= q \/ p <= s.value + 3

LEMMA CleanStepIs ==
    ASSUME Typed, NEW N \in Nat, NEW limit \in -1..N, NEW at \in [0..N -> Rung],
           NEW opener \in Int
    PROVE  CleanFound(limit, at, CleanStep(limit, at, opener))
<1> DEFINE loaded == {p \in 0..limit : Loaded(at[p])}
           a == Top({p \in loaded : Clean(at[p])})
           above == {p \in loaded : p > a}
           spill == Min(above)
           near == {p \in {a + 2, a + 3} : p <= limit /\ p \notin loaded}
           s == CleanStep(limit, at, opener)
<1>1. \A p \in 0..limit : at[p] \in Rung /\ (Clean(at[p]) => Loaded(at[p]))
  <2>1. \A p \in 0..limit : p \in 0..N
    OBVIOUS
  <2> QED  BY <2>1 DEF Clean
<1>2. /\ a \in Int /\ a >= -1 /\ a <= limit
      /\ a # -1 => a \in loaded /\ Clean(at[a])
      /\ \A p \in 0..limit : Clean(at[p]) => p <= a
  <2> DEFINE good == {p \in loaded : Clean(at[p])}
  <2>1. good \in SUBSET (0..limit) /\ limit \in Int
    OBVIOUS
  <2>2. Top(good) \in good \cup {-1} /\ \A p \in good : p <= Top(good)
    BY <2>1, TopIs
  <2>3. \A p \in 0..limit : Clean(at[p]) => p \in good
    BY <1>1
  <2>4. a = Top(good)
    OBVIOUS
  <2>5. \A p \in good : p \in loaded /\ Clean(at[p]) /\ p \in 0..limit
    OBVIOUS
  <2> HIDE DEF good, a, loaded
  <2>6. (a = -1 \/ a \in good) /\ -1 <= limit /\ limit \in Int
    BY <2>1, <2>2, <2>4, Sizes
  <2>7. CASE a = -1
    BY <2>2, <2>3, <2>4, <2>6, <2>7
  <2>8. CASE a \in good
    <3>1. a \in loaded /\ Clean(at[a]) /\ a \in 0..limit
      BY <2>5, <2>8
    <3>2. a \in Int /\ a >= -1 /\ a <= limit
      BY <2>6, <3>1
    <3> QED  BY <2>2, <2>3, <2>4, <3>1, <3>2
  <2> QED  BY <2>6, <2>7, <2>8
<1> HIDE DEF a
<1>8. limit \in Int /\ limit <= N /\ limit >= -1
  BY Sizes
<1> HIDE DEF s, CleanFound
<1>3. CASE limit < 0
  <2>1. s = Step(-1, {}) /\ limit = -1
    BY <1>3, <1>8 DEF s, CleanStep
  <2>2. s.value = -1 /\ s.resolved \in BOOLEAN /\ s.resolved /\ s.next = {}
    BY <2>1, StepIs
  <2> QED  BY <2>1, <2>2 DEF s, CleanFound
<1>4. CASE limit >= 0 /\ loaded = {}
  <2> DEFINE p0 == IF opener = -1 THEN limit ELSE Clamp(opener, 0, limit)
  <2>1. s = Step(-1, {p0})
    BY <1>4, <1>8 DEF s, CleanStep
  <2>2. s.value = -1 /\ s.resolved \in BOOLEAN /\ ~s.resolved /\ s.next = {p0}
    <3> HIDE DEF p0
    <3>1. {p0} # {}
      OBVIOUS
    <3> QED  BY <2>1, <3>1, StepIs
  <2>3. p0 \in 0..limit
    <3>1. Clamp(opener, 0, limit) \in 0..limit
      <4>1. 0 \in Int /\ 0 <= limit
        BY <1>4
      <4> QED  BY <4>1, <1>8, ClampIs
    <3> QED  BY <1>4, <1>8, <3>1
  <2>4. a = -1
    BY <1>2, <1>4
  <2>5. \A p \in 0..limit : ~Loaded(at[p])
    BY <1>4
  <2> HIDE DEF p0, loaded
  <2> QED  BY <1>2, <1>8, <2>2, <2>3, <2>4, <2>5 DEF s, CleanFound
<1>5. CASE limit >= 0 /\ loaded # {} /\ a = limit
  <2>1. s = Step(a, {})
    BY <1>5, <1>8 DEF s, CleanStep, a
  <2>2. s.value = a /\ s.resolved \in BOOLEAN /\ s.resolved /\ s.next = {}
    BY <2>1, StepIs
  <2> HIDE DEF loaded
  <2> QED  BY <1>2, <1>5, <1>8, <2>2 DEF s, CleanFound
<1>6. CASE limit >= 0 /\ loaded # {} /\ a # limit /\ above = {}
  <2> DEFINE p0 == (a + limit + 2) \div 2
  <2>1. s = Step(a, {p0})
    BY <1>6, <1>8 DEF s, CleanStep, a
  <2>2. s.value = a /\ s.resolved \in BOOLEAN /\ ~s.resolved /\ s.next = {p0}
    BY <2>1, StepIs
  <2>3. p0 \in 0..limit /\ p0 > a
    BY <1>2, <1>6, <1>8
  <2>4. ~Loaded(at[p0])
    BY <1>6, <2>3
  <2>5. (\A q \in 0..limit : q > a => ~Loaded(at[q])) /\ a + 1 \in 0..limit
    BY <1>2, <1>6, <1>8
  <2>6. ~Loaded(at[a + 1])
    BY <1>2, <2>5
  <2> HIDE DEF p0, loaded, above
  <2> QED  BY <1>2, <1>6, <1>8, <2>2, <2>3, <2>4, <2>5, <2>6 DEF s, CleanFound
<1>7. CASE limit >= 0 /\ loaded # {} /\ a # limit /\ above # {}
  <2>1. spill \in above /\ \A p \in above : spill <= p
    <3>1. above \in SUBSET Int /\ above # {} /\ 0 \in Int /\ \A p \in above : 0 <= p
      BY <1>7, <1>8
    <3> HIDE DEF above
    <3> QED  BY <3>1, LeastOf
  <2>2. spill \in 0..limit /\ spill > a /\ Loaded(at[spill])
    BY <2>1
  <2>3. ~Clean(at[spill])
    BY <1>2, <2>2
  <2>4. CASE spill > a + 1
    <3> DEFINE p0 == (a + spill) \div 2
    <3>1. s = Step(a, {p0})
      BY <1>7, <1>8, <2>4 DEF s, CleanStep, a
    <3> HIDE DEF spill
    <3>2. s.value = a /\ s.resolved \in BOOLEAN /\ ~s.resolved /\ s.next = {p0}
      <4> HIDE DEF p0
      <4>1. {p0} # {}
        OBVIOUS
      <4> QED  BY <3>1, <4>1, StepIs
    <3>3. p0 \in 0..limit /\ p0 > a /\ p0 < spill
      BY <1>2, <1>8, <2>2, <2>4
    <3>4. ~Loaded(at[p0])
      <4>1. p0 \notin above /\ p0 \in Int
        BY <1>2, <1>8, <2>1, <2>2, <3>3
      <4> QED  BY <3>3, <4>1
    <3>5. \A q \in 0..limit : q > a /\ Loaded(at[q]) => q \in above
      OBVIOUS
    <3>6. \A q \in 0..limit : q > a /\ Loaded(at[q]) => spill <= q
      <4> HIDE DEF above
      <4> QED  BY <2>1, <3>5
    <3>7. ~Loaded(at[a + 1])
      <4>1. a + 1 \in 0..limit /\ a + 1 > a /\ a + 1 < spill
        BY <1>2, <1>8, <2>2, <2>4
      <4> QED  BY <1>2, <2>2, <3>6, <4>1
    <3>8. \A q \in 0..limit : q > a /\ Loaded(at[q]) => p0 <= q
      BY <1>2, <2>2, <3>3, <3>6
    <3> HIDE DEF p0, loaded, above
    <3> QED  BY <1>2, <1>7, <1>8, <3>2, <3>3, <3>4, <3>7, <3>8 DEF s, CleanFound
  <2>5. CASE ~(spill > a + 1)
    <3> DEFINE next == IF near = {} THEN {} ELSE {Min(near)}
    <3>1. s = Step(a, next)
      <4>1. limit >= 0 /\ loaded # {} /\ a # limit /\ above # {} /\ ~(spill > a + 1)
        BY <1>7, <2>5
      <4>2. ~(limit < 0)
        BY <4>1, <1>8
      <4> QED  BY <4>1, <4>2, Zenon DEF s, CleanStep, a
    <3> HIDE DEF spill
    <3>2. spill = a + 1
      BY <1>2, <1>8, <2>2, <2>5
    <3>3. s.value = a /\ s.resolved \in BOOLEAN /\ (s.resolved <=> next = {}) /\ s.next = next
      <4> HIDE DEF next
      <4> QED  BY <3>1, StepIs
    <3>4. \A p \in near : p \in 0..limit /\ ~Loaded(at[p])
      BY <1>2, <1>8
    <3>5. near # {} => Min(near) \in near
      <4>1. near \in SUBSET Int /\ 0 \in Int /\ \A p \in near : 0 <= p
        <5> HIDE DEF near
        <5>1. \A p \in near : p \in Int /\ 0 <= p
          BY <3>4, <1>8
        <5> QED  BY <5>1
      <4> HIDE DEF near
      <4> QED  BY <4>1, LeastOf
    <3>6. next \subseteq near /\ (next = {} <=> near = {})
      <4> HIDE DEF near
      <4> QED  BY <3>5
    <3>7. near = {} <=> \A p \in {a + 2, a + 3} : p <= limit => Loaded(at[p])
      BY <1>2, <1>8
    <3>13. \A p \in near : p <= a + 3
      BY <1>2
    <3>8. Loaded(at[a + 1]) /\ ~Clean(at[a + 1])
      BY <2>2, <2>3, <3>2
    <3> HIDE DEF next, near, loaded, above
    <3>9. s.resolved <=> \A p \in {s.value + 2, s.value + 3} : p <= limit => Loaded(at[p])
      BY <3>3, <3>6, <3>7
    <3>12. \A p \in s.next : p <= s.value + 3
      BY <1>2, <3>3, <3>6, <3>13
    <3>10. \A p \in s.next : p \in 0..limit /\ ~Loaded(at[p])
      BY <3>3, <3>4, <3>6
    <3>11. s.resolved \in BOOLEAN /\ (s.resolved <=> s.next = {}) /\ s.value = a
      BY <3>3
    <3> QED  BY <1>2, <1>7, <1>8, <3>8, <3>9, <3>10, <3>11, <3>12 DEF s, CleanFound
  <2> QED  BY <2>4, <2>5
<1> QED  BY <1>3, <1>4, <1>5, <1>6, <1>7, <1>8

-----------------------------------------------------------------------------
(* The stops, each from the one below. *)
LEMMA StopsAre ==
    ASSUME Typed
    PROVE  stops \in SUBSET Ctx /\ stops # {} /\ \A c \in stops : c \in Nat /\ c >= 1 /\ c <= Contexts
<1>1. stops \in SUBSET Ctx /\ stops # {}
  BY DEF Typed
<1> QED  BY <1>1, Sizes

LEMMA BelowIs ==
    ASSUME Typed, NEW c \in stops
    PROVE  /\ c \in Ctx /\ c \in Int /\ Below(c) \in Int
           /\ Below(c) = -1 \/ (Below(c) \in stops /\ Below(c) \in Ctx /\ Below(c) < c)
           /\ \A d \in stops : d < c => d <= Below(c) /\ Below(c) # -1
<1> DEFINE S == {d \in stops : d < c}
<1>1. S \in SUBSET (0..Contexts) /\ Contexts \in Int /\ c \in Ctx /\ c \in Int
  BY Sizes, StopsAre
<1>2. Below(c) = Top(S)
  BY DEF Below
<1> HIDE DEF S
<1>3. Below(c) \in S \cup {-1} /\ (\A d \in S : d <= Below(c)) /\ Below(c) \in Int
      /\ (S # {} => Below(c) \in S)
  BY <1>1, <1>2, TopIs
<1>4. -1 \notin S
  BY <1>1
<1> QED  BY <1>1, <1>3, <1>4, StopsAre DEF S

LEMMA StopsInduct ==
    ASSUME Typed, NEW S \in SUBSET stops,
           \A c \in stops : (Below(c) = -1 \/ Below(c) \in S) => c \in S
    PROVE  S = stops
<1> SUFFICES ASSUME S # stops PROVE FALSE
  OBVIOUS
<1> DEFINE bad == stops \ S
<1>1. bad \in SUBSET Nat /\ bad # {}
  BY StopsAre
<1>2. PICK c \in bad : \A d \in bad : c <= d
  BY <1>1, LeastNatural
<1>3. Below(c) # -1 /\ Below(c) \in stops /\ Below(c) < c
  BY <1>2, BelowIs
<1>4. Below(c) \in bad
  BY <1>2, <1>3
<1> QED  BY <1>1, <1>2, <1>3, <1>4

LEMMA StateFrom ==
    ASSUME NEW f, NEW g, NEW c, Below(c) = -1 \/ f[Below(c)] = g[Below(c)]
    PROVE  StateAt(f, c) = StateAt(g, c)
  BY DEF StateAt

LEMMA CurveIs == Typed => Curve = [c \in stops |-> StateAt(Curve, c)]
<1> SUFFICES ASSUME Typed PROVE Curve = [c \in stops |-> StateAt(Curve, c)]
  OBVIOUS
<1> DEFINE Upto(k) == {c \in stops : c <= k}
           Walk(f, k) == f = [c \in Upto(k) |-> StateAt(f, c)]
<1>1. \A k \in 0..Contexts : \E f : Walk(f, k)
  <2> DEFINE bad == {k \in 0..Contexts : \A f : ~Walk(f, k)}
  <2> SUFFICES ASSUME bad # {} PROVE FALSE
    OBVIOUS
  <2>1. bad \in SUBSET Nat
    BY Sizes
  <2>2. PICK k \in bad : \A j \in bad : k <= j
    BY <2>1, LeastNatural
  <2>3. k # 0
    <3> SUFFICES ASSUME k = 0 PROVE FALSE
      OBVIOUS
    <3>1. Upto(0) = {}
      BY StopsAre
    <3> DEFINE f == [c \in {} |-> c]
    <3>2. f = [c \in Upto(0) |-> StateAt(f, c)]
      BY <3>1
    <3> QED  BY <2>2, <3>2
  <2>4. k - 1 \in 0..Contexts /\ k - 1 \notin bad
    BY <2>2, <2>3, Sizes
  <2>5. PICK f : Walk(f, k - 1)
    BY <2>4
  <2> DEFINE g == [c \in Upto(k) |-> StateAt(f, c)]
  <2>6. \A c \in Upto(k) : StateAt(g, c) = StateAt(f, c)
    <3> TAKE c \in Upto(k)
    <3>1. c \in stops /\ c <= k
      OBVIOUS
    <3>2. CASE Below(c) = -1
      BY <3>2, StateFrom
    <3>3. CASE Below(c) # -1
      <4>1. Below(c) \in stops /\ Below(c) < c /\ c \in Int /\ Below(c) \in Int
        BY <3>1, <3>3, BelowIs
      <4>2. k \in Int
        BY <2>2, Sizes
      <4>3. Below(c) \in Upto(k - 1) /\ Below(c) \in Upto(k)
        BY <3>1, <4>1, <4>2
      <4>4. f[Below(c)] = StateAt(f, Below(c)) /\ g[Below(c)] = StateAt(f, Below(c))
        BY <2>5, <4>3
      <4> HIDE DEF g
      <4> QED  BY <4>4, StateFrom
    <3> QED  BY <3>2, <3>3
  <2>7. g = [c \in Upto(k) |-> StateAt(g, c)]
    BY <2>6
  <2>8. Walk(g, k)
    BY <2>7
  <2> HIDE DEF g, Walk
  <2>9. \A h : ~Walk(h, k)
    BY <2>2
  <2> QED  BY <2>8, <2>9
<1>2. Upto(Contexts) = stops /\ Contexts \in 0..Contexts
  BY Sizes, StopsAre
<1>3. PICK g : g = [c \in stops |-> StateAt(g, c)]
  BY <1>1, <1>2
<1> HIDE DEF Walk, Upto
<1> DEFINE P(f) == f = [c \in stops |-> StateAt(f, c)]
           h == CHOOSE f : P(f)
<1>4. P(h)
  <2>1. P(g)
    BY <1>3
  <2> HIDE DEF P
  <2> QED  BY <2>1
<1>5. Curve = [c \in stops |-> h[c]]
  BY DEF Curve
<1> HIDE DEF h
<1>6. Curve = h
  BY <1>4, <1>5
<1> QED  BY <1>4, <1>6

-----------------------------------------------------------------------------
(* The state of a stop, given the one below. *)
Root(c) == Below(c) = -1
Beneath(c) == Curve[Below(c)]
CeilingAt(c) == MinOf({IF Root(c) THEN -1 ELSE Beneath(c).fit.value, CapAt(c)})
FitOf(c) == IF listed THEN FitStep(c, Ctx, CeilingAt(c), SeedAt(c, CeilingAt(c)))
            ELSE Step(NglMax, {})
AnswerBelow(c) == IF Root(c) THEN -1 ELSE Beneath(c).clean.value
Pending(c) == IF AnswerBelow(c) = -1 THEN {} ELSE ToControl(At(Below(c), AnswerBelow(c)))
LimitAt(c) ==
    LET base == IF Root(c) THEN FitOf(c).value ELSE Min({AnswerBelow(c), FitOf(c).value})
    IN  IF CapAt(c) = -1 THEN base ELSE Min({base, CapAt(c)})
CleanAt(c) == CleanStep(LimitAt(c), [p \in Ngl |-> At(c, p)],
                        IF (Root(c) \/ planned) /\ ~listed THEN seed[c] ELSE -1)
FitRungs(c) == {At(c, n) : n \in FitOf(c).next}

Shows(s, fit, clean, limit, next, only) ==
    /\ s.fit = fit /\ s.clean = clean /\ s.limit = limit /\ s.next = next /\ s.only = only

(* Where a stop is: waiting for the one below, with nothing left above it,  *)
(* settling target 2, controlling the stop below, or settling target 1.     *)
Waits(c) == ~Root(c) /\ ~Beneath(c).settled
Void(c) == ~Root(c) /\ Beneath(c).settled /\ Beneath(c).nothing
Opened(c) == Root(c) \/ (Beneath(c).settled /\ ~Beneath(c).nothing)
Fits(c) == Opened(c) /\ ~FitOf(c).resolved
Controls(c) == Opened(c) /\ FitOf(c).resolved /\ Pending(c) # {}
Empty(c) == Void(c) \/ (Opened(c) /\ FitOf(c).resolved /\ Pending(c) = {} /\ FitOf(c).value = -1)
Cleans(c) == Opened(c) /\ FitOf(c).resolved /\ Pending(c) = {} /\ FitOf(c).value # -1

Shown(c) == IF listed THEN FitOf(c) ELSE Stuck(-1)
LastNext(c) ==
    IF ~CleanAt(c).resolved THEN {At(c, n) : n \in CleanAt(c).next}
    ELSE IF c = Max(stops) /\ CleanAt(c).value # -1 THEN ToControl(At(c, CleanAt(c).value))
    ELSE {}

LEMMA StateIs ==
    ASSUME Typed, NEW c \in stops
    PROVE  LET s == Curve[c]
           IN  /\ Waits(c) \/ Fits(c) \/ Controls(c) \/ Empty(c) \/ Cleans(c)
               /\ Waits(c) => /\ Shows(s, Stuck(-1), Stuck(-1), -1, {}, {})
                              /\ s.settled = FALSE /\ s.nothing = FALSE
               /\ Fits(c) => /\ Shows(s, Shown(c), Stuck(-1), -1, FitRungs(c),
                                      IF Root(c) THEN {} ELSE ClaimOnly(FitRungs(c), AnswerBelow(c)))
                             /\ s.settled = FALSE /\ s.nothing = FALSE
               /\ Controls(c) => /\ Shows(s, Shown(c), Stuck(-1), -1, Pending(c), {})
                                 /\ s.settled = FALSE /\ s.nothing = FALSE
               /\ Empty(c) => /\ Shows(s, Step(-1, {}), Step(-1, {}), -1, {}, {})
                              /\ s.settled = TRUE /\ s.nothing = TRUE
               /\ Cleans(c) => /\ Shows(s, Shown(c), CleanAt(c), LimitAt(c), LastNext(c), {})
                               /\ s.settled = CleanAt(c).resolved /\ s.nothing = FALSE
<1>1. Curve[c] = StateAt(Curve, c)
  BY CurveIs
<1> DEFINE s == StateAt(Curve, c)
<1>2. CASE Waits(c)
  <2>1. s = Untouched
    BY <1>2 DEF StateAt, Waits, Root, Beneath
  <2>2. ~Fits(c) /\ ~Controls(c) /\ ~Empty(c) /\ ~Cleans(c)
    BY <1>2 DEF Waits, Void, Opened, Fits, Controls, Empty, Cleans
  <2>3. Shows(s, Stuck(-1), Stuck(-1), -1, {}, {}) /\ s.settled = FALSE /\ s.nothing = FALSE
    <3> HIDE DEF s
    <3> QED  BY <2>1 DEF Untouched, Shows
  <2> QED  BY <1>1, <1>2, <2>2, <2>3
<1>3. CASE Void(c)
  <2>1. s = Nothing
    BY <1>3 DEF StateAt, Void, Root, Beneath
  <2>2. ~Waits(c) /\ ~Fits(c) /\ ~Controls(c) /\ ~Cleans(c) /\ Empty(c)
    BY <1>3 DEF Waits, Void, Opened, Fits, Controls, Empty, Cleans
  <2> QED  BY <1>1, <2>1, <2>2 DEF Nothing, Untouched, Shows
<1>4. CASE Opened(c)
  <2> DEFINE below == IF Root(c) THEN Untouched ELSE Beneath(c)
  <2>1. s = Settle(c, Root(c), below)
    BY <1>4 DEF StateAt, Opened, Root, Beneath
  <2>2. /\ FitOf(c) = (IF listed THEN FitStep(c, Ctx, CeilingAt(c), SeedAt(c, CeilingAt(c)))
                       ELSE Step(NglMax, {}))
        /\ CeilingAt(c) = MinOf({IF Root(c) THEN -1 ELSE below.fit.value, CapAt(c)})
        /\ AnswerBelow(c) = (IF Root(c) THEN -1 ELSE below.clean.value)
    BY DEF FitOf, CeilingAt, AnswerBelow
  <2>3. ~Waits(c) /\ ~Void(c)
    BY <1>4 DEF Waits, Void, Opened
  <2> HIDE DEF below, s
  <2>4. CASE ~FitOf(c).resolved
    <3>1. s = [[Untouched EXCEPT !.fit = Shown(c)] EXCEPT
                  !.next = FitRungs(c),
                  !.only = IF Root(c) THEN {} ELSE ClaimOnly(FitRungs(c), AnswerBelow(c))]
      BY <2>1, <2>2, <2>4 DEF Settle, Shown, FitRungs
    <3>2. Fits(c) /\ ~Controls(c) /\ ~Empty(c) /\ ~Cleans(c)
      BY <1>4, <2>3, <2>4 DEF Fits, Controls, Empty, Cleans
    <3> QED  BY <1>1, <2>3, <3>1, <3>2 DEF Untouched, Shows, s
  <2>5. CASE FitOf(c).resolved /\ Pending(c) # {}
    <3>1. s = [[Untouched EXCEPT !.fit = Shown(c)] EXCEPT !.next = Pending(c)]
      BY <2>1, <2>2, <2>5 DEF Settle, Shown, Pending
    <3>2. Controls(c) /\ ~Fits(c) /\ ~Empty(c) /\ ~Cleans(c)
      BY <1>4, <2>3, <2>5 DEF Fits, Controls, Empty, Cleans
    <3> QED  BY <1>1, <2>3, <3>1, <3>2 DEF Untouched, Shows, s
  <2>6. CASE FitOf(c).resolved /\ Pending(c) = {} /\ FitOf(c).value = -1
    <3>1. s = Nothing
      BY <2>1, <2>2, <2>6 DEF Settle, Pending
    <3>2. Empty(c) /\ ~Fits(c) /\ ~Controls(c) /\ ~Cleans(c)
      BY <1>4, <2>3, <2>6 DEF Fits, Controls, Empty, Cleans
    <3> QED  BY <1>1, <2>3, <3>1, <3>2 DEF Nothing, Untouched, Shows, s
  <2>7. CASE FitOf(c).resolved /\ Pending(c) = {} /\ FitOf(c).value # -1
    <3>1. s = SettleClean(c, Root(c), AnswerBelow(c), FitOf(c))
      BY <2>1, <2>2, <2>7 DEF Settle, Pending
    <3>2. s = [Untouched EXCEPT
                 !.fit = Shown(c), !.clean = CleanAt(c), !.limit = LimitAt(c),
                 !.settled = CleanAt(c).resolved, !.next = LastNext(c)]
      BY <3>1 DEF SettleClean, Shown, CleanAt, LimitAt, LastNext
    <3>3. Cleans(c) /\ ~Fits(c) /\ ~Controls(c) /\ ~Empty(c)
      BY <1>4, <2>3, <2>7 DEF Fits, Controls, Empty, Cleans
    <3> QED  BY <1>1, <2>3, <3>2, <3>3 DEF Untouched, Shows, s
  <2> QED  BY <2>4, <2>5, <2>6, <2>7
<1> QED  BY <1>2, <1>3, <1>4 DEF Waits, Void, Opened

LEMMA MinPair ==
    ASSUME NEW x \in Int, NEW y \in Int
    PROVE  Min({x, y}) \in {x, y} /\ Min({x, y}) <= x /\ Min({x, y}) <= y
<1> DEFINE S == {x, y}
<1>1. S \in SUBSET Int /\ S # {} /\ (\E b \in Int : \A z \in S : b <= z) /\ x \in S /\ y \in S
  BY x <= y \/ y <= x
<1> HIDE DEF S
<1>2. Min(S) \in S /\ \A z \in S : Min(S) <= z
  BY <1>1, LeastOf
<1> QED  BY <1>1, <1>2 DEF S

(* The values of a state are positions of the axis. *)
Placed(s) ==
    /\ s.fit.value \in -1..NglMax /\ s.fit.resolved \in BOOLEAN
    /\ s.clean.value \in -1..NglMax /\ s.clean.resolved \in BOOLEAN
    /\ s.limit \in -1..NglMax /\ s.settled \in BOOLEAN /\ s.nothing \in BOOLEAN

LEMMA CapIs == ASSUME Typed, NEW c \in stops
               PROVE  CapAt(c) \in -1..NglMax /\ CapAt(c) \in Int /\ CapAt(c) >= -1
<1>1. c \in Ctx /\ cap[c] \in -1..NglMax
  BY StopsAre DEF Typed
<1> QED  BY <1>1, Sizes DEF CapAt

LEMMA FitOfIs ==
    ASSUME Typed, NEW c \in stops, Root(c) \/ Placed(Beneath(c))
    PROVE  /\ CeilingAt(c) \in -1..NglMax
           /\ FitOf(c).value \in -1..NglMax /\ FitOf(c).resolved \in BOOLEAN
           /\ \A r \in FitRungs(c) : r \in Rung /\ ~Loaded(r) /\ r.ctx = c
                                     /\ r.ngl \in FitOf(c).next /\ r.ngl > FitOf(c).value
           /\ listed => \E lo \in -1..NglMax : \E hi \in (lo + 1)..(NglMax + 1) :
                           FitFound(c, Ctx, CeilingAt(c), FitOf(c), lo, hi)
           /\ ~listed => FitOf(c).resolved /\ FitOf(c).value = NglMax /\ FitOf(c).next = {}
<1>1. c \in Ctx /\ seed[c] \in Ngl /\ listed \in BOOLEAN
  BY StopsAre DEF Typed
<1>2. CeilingAt(c) \in -1..NglMax
  <2> DEFINE x == IF Root(c) THEN -1 ELSE Beneath(c).fit.value
  <2>1. x \in -1..NglMax /\ x \in Int /\ x >= -1
    BY Sizes DEF Placed
  <2>2. CeilingAt(c) = MinOf({x, CapAt(c)})
    BY DEF CeilingAt
  <2> HIDE DEF x
  <2>3. CeilingAt(c) \in {x, CapAt(c)}
    BY <2>1, <2>2, CapIs, MinOfIs
  <2> QED  BY <2>1, <2>3, CapIs
<1>3. SeedAt(c, CeilingAt(c)) \in Int
  <2>1. seed[c] \in Int /\ seed[c] >= -1 /\ CeilingAt(c) \in Int /\ CeilingAt(c) >= -1
    BY <1>1, <1>2, Sizes
  <2>2. MinOf({seed[c], CeilingAt(c)}) \in {seed[c], CeilingAt(c)}
    BY <2>1, MinOfIs
  <2> QED  BY <2>1, <2>2 DEF SeedAt
<1>4. CASE listed
  <2>1. FitOf(c) = FitStep(c, Ctx, CeilingAt(c), SeedAt(c, CeilingAt(c)))
    BY <1>4 DEF FitOf
  <2>2. Ctx \in SUBSET Ctx
    OBVIOUS
  <2>3. PICK lo \in -1..NglMax : \E hi \in (lo + 1)..(NglMax + 1) :
                FitFound(c, Ctx, CeilingAt(c), FitOf(c), lo, hi)
    BY <1>1, <1>2, <1>3, <2>1, <2>2, FitStepIs
  <2>4. FitOf(c).value = lo /\ FitOf(c).resolved \in BOOLEAN
        /\ \A n \in FitOf(c).next : n > lo /\ n \in Ngl /\ ~Loaded(At(c, n))
    <3>1. lo \in Int
      BY Sizes
    <3>2. PICK hi \in (lo + 1)..(NglMax + 1) : FitFound(c, Ctx, CeilingAt(c), FitOf(c), lo, hi)
      BY <2>3
    <3> QED  BY <3>1, <3>2 DEF FitFound
  <2>5. \A n \in FitOf(c).next : At(c, n) \in Rung /\ At(c, n).ctx = c /\ At(c, n).ngl = n
    BY <1>1, <2>4, AtIs
  <2>6. \A r \in FitRungs(c) : r \in Rung /\ ~Loaded(r) /\ r.ctx = c
                               /\ r.ngl \in FitOf(c).next /\ r.ngl > FitOf(c).value
    BY <2>4, <2>5 DEF FitRungs
  <2> QED  BY <1>2, <1>4, <2>3, <2>4, <2>6
<1>5. CASE ~listed
  <2>1. FitOf(c) = Step(NglMax, {})
    BY <1>5 DEF FitOf
  <2>2. FitOf(c).value = NglMax /\ FitOf(c).resolved \in BOOLEAN /\ FitOf(c).resolved
        /\ FitOf(c).next = {}
    BY <2>1, StepIs
  <2>3. FitRungs(c) = {}
    BY <2>2 DEF FitRungs
  <2> QED  BY <1>2, <1>5, <2>2, <2>3, Sizes
<1> QED  BY <1>1, <1>4, <1>5

LEMMA LimitIs ==
    ASSUME Typed, NEW c \in stops, Root(c) \/ Placed(Beneath(c))
    PROVE  /\ AnswerBelow(c) \in -1..NglMax
           /\ LimitAt(c) \in -1..NglMax /\ LimitAt(c) <= FitOf(c).value
           /\ ~Root(c) => LimitAt(c) <= AnswerBelow(c)
           /\ CapAt(c) # -1 => LimitAt(c) <= CapAt(c)
           /\ \/ LimitAt(c) = FitOf(c).value
              \/ ~Root(c) /\ LimitAt(c) = AnswerBelow(c)
              \/ CapAt(c) # -1 /\ LimitAt(c) = CapAt(c)
<1>1. AnswerBelow(c) \in -1..NglMax /\ AnswerBelow(c) \in Int
  BY Sizes DEF AnswerBelow, Placed
<1>2. FitOf(c).value \in -1..NglMax /\ FitOf(c).value \in Int
  BY FitOfIs, Sizes
<1> DEFINE base == IF Root(c) THEN FitOf(c).value ELSE Min({AnswerBelow(c), FitOf(c).value})
<1>3. /\ base \in -1..NglMax /\ base \in Int /\ base <= FitOf(c).value
      /\ ~Root(c) => base <= AnswerBelow(c)
      /\ base = FitOf(c).value \/ (~Root(c) /\ base = AnswerBelow(c))
  BY <1>1, <1>2, MinPair
<1>4. LimitAt(c) = IF CapAt(c) = -1 THEN base ELSE Min({base, CapAt(c)})
  BY DEF LimitAt
<1> HIDE DEF base
<1>5. Min({base, CapAt(c)}) \in {base, CapAt(c)} /\ Min({base, CapAt(c)}) <= base
      /\ Min({base, CapAt(c)}) <= CapAt(c)
  BY <1>3, CapIs, MinPair
<1>6. CASE CapAt(c) = -1
  BY <1>1, <1>3, <1>4, <1>6
<1>7. CASE CapAt(c) # -1
  BY <1>1, <1>2, <1>3, <1>4, <1>5, <1>7, CapIs
<1> QED  BY <1>6, <1>7

LEMMA CleanAtIs ==
    ASSUME Typed, NEW c \in stops, Root(c) \/ Placed(Beneath(c))
    PROVE  CleanFound(LimitAt(c), [p \in Ngl |-> At(c, p)], CleanAt(c))
<1> DEFINE at == [p \in Ngl |-> At(c, p)]
           opener == IF (Root(c) \/ planned) /\ ~listed THEN seed[c] ELSE -1
<1>1. c \in Ctx /\ opener \in Int
  <2>1. c \in Ctx /\ seed[c] \in Ngl
    BY StopsAre DEF Typed
  <2> QED  BY <2>1, Sizes
<1>2. NglMax \in Nat /\ at \in [0..NglMax -> Rung]
  BY <1>1, AtIs, Sizes
<1>3. LimitAt(c) \in -1..NglMax /\ LimitAt(c) <= NglMax
  BY LimitIs, Sizes
<1>4. CleanAt(c) = CleanStep(LimitAt(c), at, opener)
  BY DEF CleanAt
<1> HIDE DEF at, opener
<1>5. CleanFound(LimitAt(c), at, CleanAt(c))
  BY <1>1, <1>2, <1>3, <1>4, CleanStepIs
<1> QED  BY <1>5 DEF at

LEMMA ToControlIs ==
    ASSUME NEW r \in Rung \cup {None}
    PROVE  \A q \in ToControl(r) : q = r /\ q \in Rung /\ ~Control(q)
<1>1. \A q \in ToControl(r) : q = r /\ r # None /\ ~Control(r)
  BY DEF ToControl
<1> QED  BY <1>1

LEMMA NotLoadedIs ==
    ASSUME Typed, NEW r \in Rung, ~Loaded(r)
    PROVE  ~Control(r)
  BY LoadedIs DEF Control

LEMMA StatePlaced ==
    ASSUME Typed, NEW c \in stops, Root(c) \/ Placed(Beneath(c))
    PROVE  /\ Placed(Curve[c])
           /\ \A r \in Curve[c].next : r \in Rung /\ ~Control(r)
           /\ Curve[c].only \subseteq Curve[c].next
           /\ \A r \in Curve[c].only : ~Loaded(r) /\ r.ctx = c
<1> DEFINE s == Curve[c]
<1>0. c \in Ctx
  BY StopsAre
<1>1. -1 \in -1..NglMax /\ Stuck(-1).value = -1 /\ Step(-1, {}).value = -1
      /\ Stuck(-1).resolved \in BOOLEAN /\ Step(-1, {}).resolved \in BOOLEAN
  BY StepIs, Sizes
<1>2. Shown(c).value \in -1..NglMax /\ Shown(c).resolved \in BOOLEAN
  BY <1>1, FitOfIs DEF Shown
<1>3. CleanFound(LimitAt(c), [p \in Ngl |-> At(c, p)], CleanAt(c)) /\ LimitAt(c) \in -1..NglMax
  BY CleanAtIs, LimitIs
<1>4. CleanAt(c).value \in -1..NglMax /\ CleanAt(c).resolved \in BOOLEAN
      /\ \A n \in CleanAt(c).next : n \in Ngl /\ ~Loaded(At(c, n))
  <2>1. LimitAt(c) \in Int /\ LimitAt(c) <= NglMax /\ NglMax \in Int /\ Ngl = 0..NglMax
    BY <1>3, Sizes
  <2>2. CleanAt(c).value \in -1..LimitAt(c) /\ CleanAt(c).resolved \in BOOLEAN
    BY <1>3 DEF CleanFound
  <2>3. \A n \in CleanAt(c).next : n \in Ngl /\ ~Loaded(At(c, n))
    <3> TAKE n \in CleanAt(c).next
    <3>1. n \in 0..LimitAt(c) /\ ~Loaded([p \in Ngl |-> At(c, p)][n])
      BY <1>3 DEF CleanFound
    <3>2. n \in Ngl
      BY <2>1, <3>1
    <3> QED  BY <3>1, <3>2
  <2> QED  BY <2>1, <2>2, <2>3
<1>5. CASE Waits(c)
  <2>1. Shows(s, Stuck(-1), Stuck(-1), -1, {}, {}) /\ s.settled = FALSE /\ s.nothing = FALSE
    BY <1>5, StateIs
  <2> QED  BY <1>1, <2>1 DEF Shows, Placed
<1>6. CASE Fits(c)
  <2> DEFINE only == IF Root(c) THEN {} ELSE ClaimOnly(FitRungs(c), AnswerBelow(c))
  <2>1. Shows(s, Shown(c), Stuck(-1), -1, FitRungs(c), only)
        /\ s.settled = FALSE /\ s.nothing = FALSE
    BY <1>6, StateIs
  <2>2. \A r \in FitRungs(c) : r \in Rung /\ ~Loaded(r) /\ ~Control(r) /\ r.ctx = c
    BY FitOfIs, NotLoadedIs
  <2>3. only \subseteq FitRungs(c)
    BY DEF ClaimOnly
  <2> HIDE DEF only
  <2> QED  BY <1>1, <1>2, <2>1, <2>2, <2>3 DEF Shows, Placed
<1>7. CASE Controls(c)
  <2>1. Shows(s, Shown(c), Stuck(-1), -1, Pending(c), {})
        /\ s.settled = FALSE /\ s.nothing = FALSE
    BY <1>7, StateIs
  <2>2. \A r \in Pending(c) : r \in Rung /\ ~Control(r)
    <3>1. CASE AnswerBelow(c) = -1
      BY <3>1 DEF Pending
    <3>2. CASE AnswerBelow(c) # -1
      <4>1. AnswerBelow(c) \in Ngl /\ ~Root(c)
        BY <3>2, LimitIs, Sizes DEF AnswerBelow
      <4>2. Below(c) \in Ctx
        BY <4>1, BelowIs DEF Root
      <4>3. At(Below(c), AnswerBelow(c)) \in Rung
        BY <4>1, <4>2, AtIs
      <4>4. Pending(c) = ToControl(At(Below(c), AnswerBelow(c)))
        BY <3>2 DEF Pending
      <4> QED  BY <4>3, <4>4, ToControlIs
    <3> QED  BY <3>1, <3>2
  <2> QED  BY <1>1, <1>2, <2>1, <2>2 DEF Shows, Placed
<1>8. CASE Empty(c)
  <2>1. Shows(s, Step(-1, {}), Step(-1, {}), -1, {}, {}) /\ s.settled = TRUE /\ s.nothing = TRUE
    BY <1>8, StateIs
  <2> QED  BY <1>1, <2>1 DEF Shows, Placed
<1>9. CASE Cleans(c)
  <2>1. Shows(s, Shown(c), CleanAt(c), LimitAt(c), LastNext(c), {})
        /\ s.settled = CleanAt(c).resolved /\ s.nothing = FALSE
    BY <1>9, StateIs
  <2>2. \A r \in LastNext(c) : r \in Rung /\ ~Control(r)
    <3>1. CASE ~CleanAt(c).resolved
      <4>1. LastNext(c) = {At(c, n) : n \in CleanAt(c).next}
        BY <3>1 DEF LastNext
      <4>2. \A n \in CleanAt(c).next : At(c, n) \in Rung /\ ~Control(At(c, n))
        BY <1>0, <1>4, AtIs, NotLoadedIs
      <4> QED  BY <4>1, <4>2
    <3>2. CASE CleanAt(c).resolved /\ c = Max(stops) /\ CleanAt(c).value # -1
      <4>1. CleanAt(c).value \in Ngl
        BY <1>4, <3>2, Sizes
      <4>2. At(c, CleanAt(c).value) \in Rung
        BY <1>0, <4>1, AtIs
      <4>3. LastNext(c) = ToControl(At(c, CleanAt(c).value))
        BY <3>2 DEF LastNext
      <4> QED  BY <4>2, <4>3, ToControlIs
    <3>3. CASE CleanAt(c).resolved /\ ~(c = Max(stops) /\ CleanAt(c).value # -1)
      BY <3>3 DEF LastNext
    <3> QED  BY <3>1, <3>2, <3>3
  <2> QED  BY <1>2, <1>3, <1>4, <2>1, <2>2 DEF Shows, Placed
<1> QED  BY <1>5, <1>6, <1>7, <1>8, <1>9, StateIs

LEMMA CurvePlaced ==
    ASSUME Typed
    PROVE  \A c \in stops : /\ Root(c) \/ (Below(c) \in stops /\ Placed(Beneath(c)))
                            /\ Placed(Curve[c])
                            /\ \A r \in Curve[c].next : r \in Rung /\ ~Control(r)
                            /\ Curve[c].only \subseteq Curve[c].next
                            /\ \A r \in Curve[c].only : ~Loaded(r) /\ r.ctx = c
<1> DEFINE S == {c \in stops : Placed(Curve[c])}
<1>1. \A c \in stops : Below(c) = -1 \/ Below(c) \in stops
  BY BelowIs
<1>2. \A c \in stops : (Below(c) = -1 \/ Below(c) \in S) => c \in S
  BY <1>1, StatePlaced DEF Root, Beneath
<1>3. S \in SUBSET stops
  OBVIOUS
<1> HIDE DEF S
<1>4. S = stops
  BY <1>2, <1>3, StopsInduct
<1>5. \A c \in stops : Placed(Curve[c])
  BY <1>4 DEF S
<1>6. \A c \in stops : Root(c) \/ (Below(c) \in stops /\ Placed(Beneath(c)))
  BY <1>1, <1>5 DEF Root, Beneath
<1> QED  BY <1>5, <1>6, StatePlaced

-----------------------------------------------------------------------------
(* The modes of a hand-picked placement. *)

LEMMA OutcomeIs ==
    ASSUME NEW next, NEW clean, NEW fit
    PROVE  LET o == Outcome(next, clean, fit)
           IN  o.next = next /\ o.only = {} /\ o.clean = clean /\ o.fit = fit
  BY DEF Outcome

LEMMA CandidateIs ==
    ASSUME Typed
    PROVE  /\ candidate \in Rung /\ candidate.ctx \in Ctx /\ candidate.ngl \in Ngl
           /\ listed \in BOOLEAN /\ candidate.ctx \in Int /\ candidate.ngl \in Int
<1>1. candidate \in Rung /\ listed \in BOOLEAN
  BY DEF Typed
<1> QED  BY <1>1, RungIs, Sizes

OnAxis(at, p) == IF p = -1 THEN None ELSE at[p]

KeepFit == FitStep(candidate.ctx, {candidate.ctx}, -1, candidate.ngl)
KeepAxis == [p \in Ngl |-> At(candidate.ctx, p)]
KeepLimit == IF listed THEN KeepFit.value ELSE NglMax
KeepClean == CleanStep(KeepLimit, KeepAxis, IF listed THEN -1 ELSE candidate.ngl)
KeepFitting == IF listed THEN OnAxis(KeepAxis, KeepFit.value) ELSE None

LEMMA KeepIs ==
    KeepContext =
        IF listed /\ (~KeepFit.resolved \/ KeepFit.value = -1)
        THEN Outcome({KeepAxis[p] : p \in KeepFit.next}, None, None)
        ELSE IF ~KeepClean.resolved
        THEN Outcome({KeepAxis[p] : p \in KeepClean.next}, None, KeepFitting)
        ELSE Answer(OnAxis(KeepAxis, KeepClean.value), KeepFitting)
  BY DEF KeepContext, KeepFit, KeepAxis, KeepLimit, KeepClean, KeepFitting, OnAxis

LEMMA KeepFound ==
    ASSUME Typed
    PROVE  /\ \E lo \in -1..NglMax : \E hi \in (lo + 1)..(NglMax + 1) :
                 FitFound(candidate.ctx, {candidate.ctx}, -1, KeepFit, lo, hi)
           /\ KeepFit.value \in -1..NglMax /\ KeepFit.resolved \in BOOLEAN
           /\ \A p \in KeepFit.next : p \in Ngl /\ ~Loaded(KeepAxis[p])
           /\ KeepLimit \in -1..NglMax
           /\ CleanFound(KeepLimit, KeepAxis, KeepClean)
           /\ KeepClean.value \in -1..NglMax
           /\ \A p \in KeepClean.next : p \in Ngl /\ ~Loaded(KeepAxis[p])
           /\ \A p \in Ngl : KeepAxis[p] = At(candidate.ctx, p) /\ KeepAxis[p] \in Rung
<1>1. candidate.ctx \in Ctx /\ candidate.ngl \in Ngl /\ {candidate.ctx} \in SUBSET Ctx
      /\ -1 \in -1..NglMax /\ candidate.ngl \in Int
  BY CandidateIs, Sizes
<1>2. PICK lo \in -1..NglMax : \E hi \in (lo + 1)..(NglMax + 1) :
              FitFound(candidate.ctx, {candidate.ctx}, -1, KeepFit, lo, hi)
  BY <1>1, FitStepIs DEF KeepFit
<1>3. \A p \in Ngl : KeepAxis[p] = At(candidate.ctx, p) /\ KeepAxis[p] \in Rung
  BY <1>1, AtIs DEF KeepAxis
<1>4. KeepFit.value \in -1..NglMax /\ KeepFit.resolved \in BOOLEAN
      /\ \A p \in KeepFit.next : p \in Ngl /\ ~Loaded(KeepAxis[p])
  BY <1>2, <1>3 DEF FitFound
<1>5. KeepLimit \in -1..NglMax /\ KeepLimit <= NglMax
  BY <1>4, Sizes DEF KeepLimit
<1>6. CleanFound(KeepLimit, KeepAxis, KeepClean)
  <2> DEFINE opener == IF listed THEN -1 ELSE candidate.ngl
  <2>1. opener \in Int /\ NglMax \in Nat /\ KeepAxis \in [0..NglMax -> Rung]
    BY <1>1, <1>3, Sizes DEF KeepAxis
  <2>2. KeepClean = CleanStep(KeepLimit, KeepAxis, opener)
    BY DEF KeepClean
  <2> HIDE DEF opener
  <2> QED  BY <1>5, <2>1, <2>2, CleanStepIs
<1>7. KeepClean.value \in -1..NglMax
      /\ \A p \in KeepClean.next : p \in Ngl /\ ~Loaded(KeepAxis[p])
  <2>1. KeepClean.value \in -1..KeepLimit
        /\ \A p \in KeepClean.next : p \in 0..KeepLimit /\ ~Loaded(KeepAxis[p])
    BY <1>6 DEF CleanFound
  <2> QED  BY <1>5, <2>1, Sizes
<1> QED  BY <1>2, <1>3, <1>4, <1>5, <1>6, <1>7

OffAxis == [p \in 0..(Contexts - 1) |-> At(p + 1, candidate.ngl)]
Known == Top({p \in DOMAIN OffAxis : Fit(OffAxis[p])})
FirstMiss == Min({p \in DOMAIN OffAxis : p > Known /\ Miss(OffAxis[p])} \cup {Contexts})
OffMiddle == IF Known = -1 /\ FirstMiss = Contexts THEN candidate.ctx - 1
             ELSE IF FirstMiss = Contexts THEN (Known + Contexts + 1) \div 2
             ELSE (Known + FirstMiss) \div 2
OffNext == OffAxis[Clamp(OffMiddle, Known + 1, FirstMiss - 1)]
OffLimit == IF listed THEN Known ELSE Contexts - 1
OffClean == CleanStep(OffLimit, OffAxis, IF listed THEN -1 ELSE candidate.ctx - 1)
OffFitting == IF listed THEN OnAxis(OffAxis, Known) ELSE None

LEMMA OffloadIs ==
    FixedOffload =
        IF listed /\ FirstMiss # Known + 1
        THEN Outcome(IF Loaded(OffNext) THEN {} ELSE {OffNext}, None, None)
        ELSE IF listed /\ Known = -1 THEN Outcome({}, None, None)
        ELSE IF ~OffClean.resolved
        THEN Outcome({OffAxis[p] : p \in OffClean.next}, None, OffFitting)
        ELSE Answer(OnAxis(OffAxis, OffClean.value), OffFitting)
  BY DEF FixedOffload, OffAxis, Known, FirstMiss, OffMiddle, OffNext, OffLimit, OffClean,
         OffFitting, OnAxis

LEMMA OffloadFound ==
    ASSUME Typed
    PROVE  /\ Known \in -1..(Contexts - 1) /\ (Known # -1 => Fit(OffAxis[Known]))
           /\ \A p \in 0..(Contexts - 1) : Fit(OffAxis[p]) => p <= Known
           /\ FirstMiss \in (Known + 1)..Contexts
           /\ FirstMiss # Contexts => Miss(OffAxis[FirstMiss])
           /\ \A p \in 0..(Contexts - 1) : p > Known /\ Miss(OffAxis[p]) => FirstMiss <= p
           /\ FirstMiss # Known + 1 => \E p \in 0..(Contexts - 1) :
                 OffNext = OffAxis[p] /\ Known < p /\ p < FirstMiss
           /\ CleanFound(OffLimit, OffAxis, OffClean)
           /\ OffLimit \in -1..(Contexts - 1) /\ OffClean.value \in -1..(Contexts - 1)
           /\ \A p \in OffClean.next : p \in 0..(Contexts - 1) /\ ~Loaded(OffAxis[p])
           /\ \A p \in 0..(Contexts - 1) :
                 p + 1 \in Ctx /\ OffAxis[p] = At(p + 1, candidate.ngl) /\ OffAxis[p] \in Rung
<1> DEFINE fits == {p \in DOMAIN OffAxis : Fit(OffAxis[p])}
           misses == {p \in DOMAIN OffAxis : p > Known /\ Miss(OffAxis[p])} \cup {Contexts}
<1>1. DOMAIN OffAxis = 0..(Contexts - 1) /\ Contexts - 1 \in Nat /\ Contexts \in Nat
  BY Sizes DEF OffAxis
<1>2. \A p \in 0..(Contexts - 1) :
         p + 1 \in Ctx /\ OffAxis[p] = At(p + 1, candidate.ngl) /\ OffAxis[p] \in Rung
  <2>1. \A p \in 0..(Contexts - 1) : p + 1 \in Ctx /\ OffAxis[p] = At(p + 1, candidate.ngl)
    BY Sizes DEF OffAxis
  <2> QED  BY <2>1, CandidateIs, AtIs
<1>3. /\ Known \in fits \cup {-1} /\ \A p \in fits : p <= Known
      /\ Known \in -1..(Contexts - 1)
  <2>1. fits \in SUBSET (0..(Contexts - 1)) /\ Contexts - 1 \in Int
    BY <1>1
  <2>2. Known = Top(fits)
    BY DEF Known
  <2> HIDE DEF fits
  <2>3. Known \in fits \cup {-1} /\ \A p \in fits : p <= Known
    BY <2>1, <2>2, TopIs
  <2> QED  BY <1>1, <2>1, <2>3
<1>4. FirstMiss \in misses /\ \A p \in misses : FirstMiss <= p
  <2>1. misses \in SUBSET Int /\ misses # {} /\ 0 \in Int /\ \A p \in misses : 0 <= p
    BY <1>1
  <2>2. FirstMiss = Min(misses)
    BY DEF FirstMiss
  <2> HIDE DEF misses
  <2> QED  BY <2>1, <2>2, LeastOf
<1>5. FirstMiss \in (Known + 1)..Contexts
  <2>1. \A p \in misses : p \in Int /\ p > Known /\ p <= Contexts
    BY <1>1, <1>3
  <2> HIDE DEF misses
  <2>2. FirstMiss \in Int /\ FirstMiss > Known /\ FirstMiss <= Contexts /\ Known \in Int
    BY <1>3, <1>4, <2>1
  <2> QED  BY <1>1, <2>2
<1>6. FirstMiss # Known + 1 => \E p \in 0..(Contexts - 1) :
         OffNext = OffAxis[p] /\ Known < p /\ p < FirstMiss
  <2> SUFFICES ASSUME FirstMiss # Known + 1
               PROVE  \E p \in 0..(Contexts - 1) : OffNext = OffAxis[p] /\ Known < p /\ p < FirstMiss
    OBVIOUS
  <2>1. OffMiddle \in Int
    BY <1>1, <1>3, <1>5, CandidateIs DEF OffMiddle
  <2>2. Known + 1 \in Int /\ FirstMiss - 1 \in Int /\ Known + 1 <= FirstMiss - 1
        /\ Known \in Int /\ FirstMiss \in Int
    BY <1>1, <1>3, <1>5
  <2>3. Clamp(OffMiddle, Known + 1, FirstMiss - 1) \in (Known + 1)..(FirstMiss - 1)
    BY <2>1, <2>2, ClampIs
  <2>4. Clamp(OffMiddle, Known + 1, FirstMiss - 1) \in 0..(Contexts - 1)
    BY <1>1, <1>3, <1>5, <2>2, <2>3
  <2> QED  BY <2>2, <2>3, <2>4 DEF OffNext
<1>7. OffLimit \in -1..(Contexts - 1) /\ OffLimit <= Contexts - 1
  BY <1>1, <1>3 DEF OffLimit
<1>8. CleanFound(OffLimit, OffAxis, OffClean)
  <2> DEFINE opener == IF listed THEN -1 ELSE candidate.ctx - 1
             N == Contexts - 1
  <2>1. opener \in Int /\ OffAxis \in [0..N -> Rung]
    BY <1>2, CandidateIs DEF OffAxis
  <2>2. OffClean = CleanStep(OffLimit, OffAxis, opener)
    BY DEF OffClean
  <2>3. N \in Nat /\ OffLimit <= N /\ OffLimit \in -1..N
    BY <1>1, <1>7
  <2> HIDE DEF opener
  <2> QED  BY <2>1, <2>2, <2>3, CleanStepIs
<1>9. OffClean.value \in -1..(Contexts - 1)
      /\ \A p \in OffClean.next : p \in 0..(Contexts - 1) /\ ~Loaded(OffAxis[p])
  <2>1. OffClean.value \in -1..OffLimit
        /\ \A p \in OffClean.next : p \in 0..OffLimit /\ ~Loaded(OffAxis[p])
    BY <1>8 DEF CleanFound
  <2> QED  BY <1>1, <1>7, <2>1
<1> QED  BY <1>1, <1>2, <1>3, <1>4, <1>5, <1>6, <1>7, <1>8, <1>9

-----------------------------------------------------------------------------
(* Whatever the mode, what is loaded next was not loaded twice.             *)

LEMMA AnchorIs == Anchor \in Rung /\ Anchor.ctx = 1 /\ Anchor.ngl = 1
<1>1. 1 \in Ctx /\ 1 \in Ngl
  BY Sizes
<1> QED  BY <1>1, AtIs DEF Anchor

Gated == (\E i \in DOMAIN history[Anchor] : ~history[Anchor][i].ok) \/ ~Control(Anchor)

LEMMA OutcomeCases ==
    ASSUME Typed
    PROVE  \/ Gated /\ ProbeOutcome.next \subseteq {q \in {Anchor} : ~Control(q)}
                    /\ ProbeOutcome.only = {} /\ ProbeOutcome.clean = None
                    /\ ProbeOutcome.fit = None
           \/ ~Gated /\ mode = "custom" /\ ProbeOutcome = Custom
           \/ ~Gated /\ mode = "keep_context" /\ ProbeOutcome = KeepContext
           \/ ~Gated /\ mode = "fixed_offload" /\ ProbeOutcome = FixedOffload
           \/ ~Gated /\ mode = "frontier" /\ ProbeOutcome = Frontier
<1>1. mode \in {"frontier", "keep_context", "fixed_offload", "custom"}
  BY ModeAssumption DEF Typed
<1>2. CASE \E i \in DOMAIN history[Anchor] : ~history[Anchor][i].ok
  <2>1. ProbeOutcome = Outcome({}, None, None) /\ Gated
    BY <1>2 DEF ProbeOutcome, Gated
  <2> QED  BY <2>1, OutcomeIs
<1>3. CASE ~(\E i \in DOMAIN history[Anchor] : ~history[Anchor][i].ok) /\ ~Control(Anchor)
  <2>1. ProbeOutcome = Outcome({Anchor}, None, None) /\ Gated
    BY <1>3 DEF ProbeOutcome, Gated
  <2> QED  BY <1>3, <2>1, OutcomeIs
<1>4. CASE ~Gated
  <2>1. ProbeOutcome = CASE mode = "custom" -> Custom
                         [] mode = "keep_context" -> KeepContext
                         [] mode = "fixed_offload" -> FixedOffload
                         [] mode = "frontier" -> Frontier
    BY <1>4 DEF ProbeOutcome, Gated
  <2> QED  BY <1>1, <1>4, <2>1
<1> QED  BY <1>2, <1>3, <1>4 DEF Gated

LEMMA CustomNext ==
    ASSUME Typed
    PROVE  \A r \in Custom.next : r \in Rung /\ ~Control(r)
<1>1. CASE ~Loaded(candidate)
  <2>1. Custom = Outcome({candidate}, None, None)
    BY <1>1 DEF Custom
  <2> QED  BY <1>1, <2>1, OutcomeIs, CandidateIs, NotLoadedIs
<1>2. CASE Loaded(candidate)
  <2>1. Custom.next = {}
    BY <1>2, OutcomeIs DEF Custom
  <2> QED  BY <2>1
<1> QED  BY <1>1, <1>2

LEMMA AnswerNext ==
    ASSUME NEW r \in Rung \cup {None}, NEW fit
    PROVE  Answer(r, fit) = Outcome(ToControl(r), r, fit)
           /\ \A q \in Answer(r, fit).next : q \in Rung /\ ~Control(q)
<1>1. Answer(r, fit) = Outcome(ToControl(r), r, fit)
  BY DEF Answer
<1> QED  BY <1>1, OutcomeIs, ToControlIs

LEMMA KeepNext ==
    ASSUME Typed
    PROVE  \A r \in KeepContext.next : r \in Rung /\ ~Control(r)
<1>1. \A p \in Ngl : KeepAxis[p] \in Rung /\ (~Loaded(KeepAxis[p]) => ~Control(KeepAxis[p]))
  BY KeepFound, NotLoadedIs
<1>2. CASE listed /\ (~KeepFit.resolved \/ KeepFit.value = -1)
  <2>1. KeepContext = Outcome({KeepAxis[p] : p \in KeepFit.next}, None, None)
    BY <1>2, KeepIs
  <2> QED  BY <1>1, <2>1, OutcomeIs, KeepFound
<1>3. CASE ~(listed /\ (~KeepFit.resolved \/ KeepFit.value = -1)) /\ ~KeepClean.resolved
  <2>1. KeepContext = Outcome({KeepAxis[p] : p \in KeepClean.next}, None, KeepFitting)
    BY <1>3, KeepIs
  <2> QED  BY <1>1, <2>1, OutcomeIs, KeepFound
<1>4. CASE ~(listed /\ (~KeepFit.resolved \/ KeepFit.value = -1)) /\ KeepClean.resolved
  <2>1. KeepContext = Answer(OnAxis(KeepAxis, KeepClean.value), KeepFitting)
    BY <1>4, KeepIs
  <2>2. KeepClean.value = -1 \/ KeepClean.value \in Ngl
    BY KeepFound, Sizes
  <2>3. OnAxis(KeepAxis, KeepClean.value) \in Rung \cup {None}
    BY <1>1, <2>2 DEF OnAxis
  <2> QED  BY <2>1, <2>3, AnswerNext
<1> QED  BY <1>2, <1>3, <1>4

LEMMA OffloadNext ==
    ASSUME Typed
    PROVE  \A r \in FixedOffload.next : r \in Rung /\ ~Control(r)
<1>1. \A p \in 0..(Contexts - 1) :
         OffAxis[p] \in Rung /\ (~Loaded(OffAxis[p]) => ~Control(OffAxis[p]))
  BY OffloadFound, NotLoadedIs
<1>2. CASE listed /\ FirstMiss # Known + 1
  <2>1. FixedOffload = Outcome(IF Loaded(OffNext) THEN {} ELSE {OffNext}, None, None)
    BY <1>2, OffloadIs
  <2>2. PICK p \in 0..(Contexts - 1) : OffNext = OffAxis[p]
    BY <1>2, OffloadFound
  <2> QED  BY <1>1, <2>1, <2>2, OutcomeIs
<1>3. CASE ~(listed /\ FirstMiss # Known + 1) /\ listed /\ Known = -1
  <2>1. FixedOffload = Outcome({}, None, None)
    BY <1>3, OffloadIs
  <2> QED  BY <2>1, OutcomeIs
<1>4. CASE ~(listed /\ FirstMiss # Known + 1) /\ ~(listed /\ Known = -1) /\ ~OffClean.resolved
  <2>1. FixedOffload = Outcome({OffAxis[p] : p \in OffClean.next}, None, OffFitting)
    BY <1>4, OffloadIs
  <2> QED  BY <1>1, <2>1, OutcomeIs, OffloadFound
<1>5. CASE ~(listed /\ FirstMiss # Known + 1) /\ ~(listed /\ Known = -1) /\ OffClean.resolved
  <2>1. FixedOffload = Answer(OnAxis(OffAxis, OffClean.value), OffFitting)
    BY <1>5, OffloadIs
  <2>2. OffClean.value = -1 \/ OffClean.value \in 0..(Contexts - 1)
    BY OffloadFound, Sizes
  <2>3. OnAxis(OffAxis, OffClean.value) \in Rung \cup {None}
    BY <1>1, <2>2 DEF OnAxis
  <2> QED  BY <2>1, <2>3, AnswerNext
<1> QED  BY <1>2, <1>3, <1>4, <1>5

LEMMA FrontierIs ==
    /\ Frontier.next = UNION {Curve[c].next : c \in stops}
    /\ Frontier.only = UNION {Curve[c].only : c \in stops}
<1> HIDE DEF Curve
<1> QED  BY DEF Frontier, Summary

LEMMA FrontierNext ==
    ASSUME Typed
    PROVE  \A r \in Frontier.next : r \in Rung /\ ~Control(r)
  BY FrontierIs, CurvePlaced

LEMMA NextIsNew ==
    ASSUME Typed
    PROVE  \A r \in ProbeOutcome.next : r \in Rung /\ Len(history[r]) < 2
<1>1. \A r \in ProbeOutcome.next : r \in Rung /\ ~Control(r)
  BY OutcomeCases, AnchorIs, CustomNext, KeepNext, OffloadNext, FrontierNext
<1>2. \A r \in Rung : ~Control(r) => Len(history[r]) < 2
  BY LoadedIs DEF Control
<1> QED  BY <1>1, <1>2

-----------------------------------------------------------------------------
(* The steps of the loop. *)
Ends == {"searching", "answered", "budget", "stopped", "unsupported"}

LEMMA TraceIs ==
    ASSUME NEW ok \in BOOLEAN, NEW fits \in BOOLEAN, NEW error \in BOOLEAN, NEW only \in BOOLEAN
    PROVE  LET a == Trace(ok, fits, error, only)
           IN  a \in Attempt /\ a.ok = ok /\ a.fits = fits /\ a.error = error /\ a.only = only
  BY DEF Trace, Attempt

LEMMA FullIs ==
    ASSUME Typed, NEW r \in Rung, NEW ok \in BOOLEAN
    PROVE  LET a == Full(r, ok)
           IN  /\ a \in Attempt /\ a.ok = ok /\ a.error = FALSE /\ a.only = FALSE
               /\ a.fits = IF Judged THEN Fitting(r) ELSE ok
<1> DEFINE fits == IF Judged THEN Fitting(r) ELSE ok
<1>1. fits \in BOOLEAN
  <2>1. r.ctx \in Ctx /\ r.ngl \in Int /\ most \in [Ctx -> -1..NglMax] /\ NglMax \in Int
    <3>1. most \in [Ctx -> -1..NglMax]
      BY DEF Typed
    <3>2. r.ctx \in Ctx /\ r.ngl \in Ngl
      BY RungIs
    <3> QED  BY <3>1, <3>2, Sizes
  <2>2. most[r.ctx] \in Int
    BY <2>1
  <2>3. Fitting(r) \in BOOLEAN
    BY <2>1, <2>2 DEF Fitting
  <2> QED  BY <2>3
<1>2. Full(r, ok) = Trace(ok, fits, FALSE, FALSE)
  BY DEF Full
<1>3. PICK x \in BOOLEAN : x = IF Judged THEN Fitting(r) ELSE ok
  BY <1>1
<1>4. Full(r, ok) = Trace(ok, x, FALSE, FALSE)
  BY <1>2, <1>3
<1> HIDE DEF fits
<1>5. LET a == Full(r, ok)
      IN  a \in Attempt /\ a.ok = ok /\ a.error = FALSE /\ a.only = FALSE /\ a.fits = x
  BY <1>4 DEF Trace, Attempt
<1> QED  BY <1>3, <1>5

LEMMA AttemptsAre ==
    ASSUME Typed, NEW r \in Rung, NEW only, NEW a \in Attempts(r, only)
    PROVE  \/ Judged /\ Fitting(r) /\ only /\ a = Trace(FALSE, TRUE, FALSE, TRUE) /\ a \in Attempt
           \/ \E ok \in BOOLEAN : a = Full(r, ok) /\ a \in Attempt /\ (ok => Fitting(r))
<1>1. Trace(FALSE, TRUE, FALSE, TRUE) \in Attempt
  BY TraceIs
<1>2. CASE Judged /\ Fitting(r) /\ only
  BY <1>1, <1>2 DEF Attempts
<1>3. CASE ~(Judged /\ Fitting(r) /\ only)
  <2>1. PICK ok \in (IF Fitting(r) THEN BOOLEAN ELSE {FALSE}) : a = Full(r, ok)
    BY <1>3 DEF Attempts
  <2>2. ok \in BOOLEAN /\ (ok => Fitting(r))
    BY <2>1
  <2> QED  BY <2>1, <2>2, FullIs
<1> QED  BY <1>2, <1>3

LEMMA SetbacksAre ==
    ASSUME Typed, NEW r \in Rung, NEW kind, NEW a \in Setback(kind, r)
    PROVE  \/ kind = "sibling" /\ \E ok \in BOOLEAN : a = Full(r, ok) /\ a \in Attempt
           \/ a = Trace(FALSE, FALSE, FALSE, FALSE) /\ a \in Attempt
           \/ a = Trace(FALSE, FALSE, TRUE, FALSE) /\ a \in Attempt
<1>1. Trace(FALSE, FALSE, FALSE, FALSE) \in Attempt /\ Trace(FALSE, FALSE, TRUE, FALSE) \in Attempt
  BY TraceIs
<1>2. Full(r, TRUE) \in Attempt /\ Full(r, FALSE) \in Attempt
  BY FullIs
<1> QED  BY <1>1, <1>2 DEF Setback

LEMMA RecordIs ==
    ASSUME Typed, NEW r \in Rung, NEW a \in Attempt, Record(r, a)
    PROVE  /\ history' \in [Rung -> Seq(Attempt)]
           /\ history'[r] = Append(history[r], a) /\ Len(history'[r]) = Len(history[r]) + 1
           /\ \A q \in Rung : q # r => history'[q] = history[q]
<1>1. history \in [Rung -> Seq(Attempt)]
  BY DEF Typed
<1>2. history[r] \in Seq(Attempt) /\ history' = [history EXCEPT ![r] = Append(history[r], a)]
  BY <1>1 DEF Record
<1>3. Append(history[r], a) \in Seq(Attempt) /\ Len(Append(history[r], a)) = Len(history[r]) + 1
  BY <1>2
<1> QED  BY <1>1, <1>2, <1>3

(* A step of the loop ends it, or makes one load of what is next.           *)
LEMMA StepsAre ==
    ASSUME Typed, [Next]_vars
    PROVE  /\ UNCHANGED input
           /\ \/ UNCHANGED history
              \/ /\ end = "searching"
                 /\ \E r \in ProbeOutcome.next, a \in Attempt :
                       /\ r \in Rung /\ Record(r, a)
                       /\ a \in Attempts(r, r \in ProbeOutcome.only)
                          \/ \E kind \in Trouble : a \in Setback(kind, r)
<1>1. CASE Load
  <2>1. PICK r \in ProbeOutcome.next : \E a \in Attempts(r, r \in ProbeOutcome.only) : Record(r, a)
    BY <1>1 DEF Load
  <2>2. r \in Rung
    BY <2>1, NextIsNew
  <2>3. PICK a \in Attempts(r, r \in ProbeOutcome.only) : Record(r, a)
    BY <2>1
  <2>4. a \in Attempt
    BY <2>2, <2>3, AttemptsAre
  <2> QED  BY <1>1, <2>1, <2>2, <2>3, <2>4 DEF Load
<1>2. ASSUME NEW kind \in Trouble \ {"stop"}, LoadTroubled(kind)
      PROVE  /\ UNCHANGED input /\ end = "searching"
             /\ \E r \in ProbeOutcome.next, a \in Attempt :
                       /\ r \in Rung /\ Record(r, a)
                       /\ \E k \in Trouble : a \in Setback(k, r)
  <2>1. PICK r \in ProbeOutcome.next : \E a \in Setback(kind, r) : Record(r, a)
    BY <1>2 DEF LoadTroubled
  <2>2. r \in Rung
    BY <2>1, NextIsNew
  <2>3. PICK a \in Setback(kind, r) : Record(r, a)
    BY <2>1
  <2>4. a \in Attempt
    BY <2>2, <2>3, SetbacksAre
  <2> QED  BY <1>2, <2>1, <2>2, <2>3, <2>4 DEF LoadTroubled
<1>3. CASE Conclude
  BY <1>3 DEF Conclude
<1>4. CASE Stop
  BY <1>4 DEF Stop
<1>5. CASE UNCHANGED vars
  BY <1>5 DEF vars
<1> QED  BY <1>1, <1>2, <1>3, <1>4, <1>5 DEF Next

LadderInv == TypeOK /\ AtMostTwice

LEMMA TypedIs == TypeOK => Typed
  BY DEF TypeOK, Typed

LEMMA LadderInit == Init => LadderInv
<1> SUFFICES ASSUME Init PROVE LadderInv
  OBVIOUS
<1>1. mode \in Mode /\ candidate \in Rung /\ listed \in BOOLEAN /\ reports \in BOOLEAN
  BY AnchorIs DEF Init
<1>2. stops \in SUBSET Ctx /\ stops # {} /\ planned \in BOOLEAN
  <2>1. Ctx \in SUBSET Ctx /\ Ctx # {}
    BY Sizes
  <2>2. planned \in BOOLEAN /\ stops \in (IF planned THEN (SUBSET Ctx) \ {{}} ELSE {Ctx})
    BY DEF Init
  <2>3. CASE planned
    <3>1. (IF planned THEN (SUBSET Ctx) \ {{}} ELSE {Ctx}) = (SUBSET Ctx) \ {{}}
      BY <2>3
    <3>2. stops \in (SUBSET Ctx) \ {{}}
      BY <2>2, <3>1
    <3> QED  BY <2>2, <3>2
  <2>4. CASE ~planned
    BY <2>1, <2>2, <2>4
  <2> QED  BY <2>3, <2>4
<1>3. cap \in [Ctx -> -1..NglMax] /\ seed \in [Ctx -> Ngl] /\ most \in [Ctx -> -1..NglMax]
  <2>1. Cap \subseteq -1..NglMax /\ Seed \subseteq Ngl /\ -1 \in -1..NglMax
    BY SizesAssumption, Sizes
  <2> QED  BY <2>1 DEF Init
<1>4. history \in [Rung -> Seq(Attempt)] /\ \A r \in Rung : Len(history[r]) = 0
  BY DEF Init
<1>5. end = "searching" /\ troubles \in 0..MaxTrouble
  <2>1. MaxTrouble \in Nat
    BY TroubleAssumption
  <2> QED  BY <2>1 DEF Init
<1> QED  BY <1>1, <1>2, <1>3, <1>4, <1>5 DEF LadderInv, TypeOK, AtMostTwice

LEMMA LadderNext == LadderInv /\ [Next]_vars => LadderInv'
<1> SUFFICES ASSUME LadderInv, [Next]_vars PROVE LadderInv'
  OBVIOUS
<1>1. Typed /\ TypeOK /\ AtMostTwice
  BY TypedIs DEF LadderInv
<1>2. UNCHANGED input
  BY <1>1, StepsAre
<1>3. history' \in [Rung -> Seq(Attempt)] /\ \A r \in Rung : Len(history'[r]) <= 2
  <2>1. CASE UNCHANGED history
    BY <1>1, <2>1 DEF Typed, AtMostTwice
  <2>2. ASSUME NEW r \in ProbeOutcome.next, NEW a \in Attempt, r \in Rung, Record(r, a)
        PROVE  history' \in [Rung -> Seq(Attempt)] /\ \A q \in Rung : Len(history'[q]) <= 2
    <3>1. Len(history[r]) < 2 /\ Len(history[r]) \in Nat
      BY <1>1, <2>2, NextIsNew, LoadedIs
    <3>2. \A q \in Rung : Len(history[q]) <= 2
      BY <1>1 DEF AtMostTwice
    <3> QED  BY <1>1, <2>2, <3>1, <3>2, RecordIs
  <2> QED  BY <1>1, <2>1, <2>2, StepsAre
<1>4. end' \in Ends /\ troubles' \in 0..MaxTrouble
  <2>1. end \in Ends /\ troubles \in 0..MaxTrouble /\ MaxTrouble \in Nat
    BY <1>1, TroubleAssumption DEF TypeOK, Ends
  <2>2. CASE Load
    BY <2>1, <2>2 DEF Load
  <2>3. ASSUME NEW kind \in Trouble \ {"stop"}, LoadTroubled(kind)
        PROVE  end' \in Ends /\ troubles' \in 0..MaxTrouble
    BY <2>1, <2>3 DEF LoadTroubled, Suffer, Ends
  <2>4. CASE Conclude
    BY <2>1, <2>4 DEF Conclude, Ends
  <2>5. CASE Stop
    BY <2>1, <2>5 DEF Stop, Suffer, Ends
  <2>6. CASE UNCHANGED vars
    BY <2>1, <2>6 DEF vars
  <2> QED  BY <2>2, <2>3, <2>4, <2>5, <2>6 DEF Next
<1> QED  BY <1>1, <1>2, <1>3, <1>4 DEF LadderInv, TypeOK, AtMostTwice, Ends, input

(* The worker's probe loop (executeRunProbeJob) makes at most two loads of  *)
(* any placement, whatever the mode and whatever goes wrong, so no search   *)
(* loops; and the ladder's state is always of its types.                    *)
THEOREM LoadsEnd == Spec => [](TypeOK /\ AtMostTwice)
<1>1. Init => LadderInv
  BY LadderInit
<1>2. LadderInv /\ [Next]_vars => LadderInv'
  BY LadderNext
<1> QED  BY <1>1, <1>2, PTL DEF Spec, LadderInv

-----------------------------------------------------------------------------
(* Target 2. *)

(* What a load of each placement can have found, and what was loaded.       *)
Plan == cap[1]
Given ==
    /\ Falling(most)
    /\ \A c \in Ctx : cap[c] = Plan
    /\ planned \/ Plan = -1
    /\ mode # "frontier" => Plan = -1
ClaimsHold ==
    Judged => \A r \in Rung : \A i \in DOMAIN history[r] : history[r][i].fits => Fitting(r)
Capped == Plan # -1 => \A r \in Rung : Loaded(r) => r = Anchor \/ r.ngl <= Plan

LEMMA FitHolds ==
    ASSUME Typed, ClaimsHold, Judged, NEW c \in Ctx, NEW n \in Ngl
    PROVE  /\ Fit(At(c, n)) => n <= most[c]
           /\ Miss(At(c, n)) /\ ~Misled => most[c] < n
           /\ most[c] \in -1..NglMax
<1> DEFINE r == At(c, n)
<1>1. r \in Rung /\ r.ctx = c /\ r.ngl = n
  BY AtIs
<1>2. most[c] \in -1..NglMax
  BY DEF Typed
<1>3. Fitting(r) <=> n <= most[c]
  BY <1>1 DEF Fitting
<1> HIDE DEF r
<1>4. Fit(r) => Fitting(r)
  <2> SUFFICES ASSUME Fit(r) PROVE Fitting(r)
    OBVIOUS
  <2>1. PICK i \in DOMAIN history[r] : history[r][i].fits
    BY DEF Fit, Conclusive
  <2> QED  BY <1>1, <2>1 DEF ClaimsHold
<1>5. Miss(r) /\ ~Misled => ~Fitting(r)
  <2> SUFFICES ASSUME Miss(r), ~Misled, Fitting(r) PROVE FALSE
    OBVIOUS
  <2>1. PICK i \in DOMAIN history[r] : ~history[r][i].error /\ ~history[r][i].fits
    BY DEF Miss, Conclusive
  <2> QED  BY <1>1, <2>1 DEF Misled
<1>6. ~Fitting(r) => most[c] < n
  <2>1. n \in Int /\ most[c] \in Int
    BY <1>2, Sizes
  <2> QED  BY <1>3, <2>1
<1> QED  BY <1>2, <1>3, <1>4, <1>5, <1>6 DEF r

(* The two bounds of a search of target 2 are bounds of the truth.          *)
LEMMA FitBounds ==
    ASSUME Typed, Given, ClaimsHold, Judged, NEW c \in Ctx, NEW among \in SUBSET Ctx,
           NEW ceiling \in -1..NglMax, NEW s, NEW lo \in -1..NglMax,
           NEW hi \in (lo + 1)..(NglMax + 1), FitFound(c, among, ceiling, s, lo, hi)
    PROVE  /\ lo <= most[c]
           /\ ~Misled => most[c] < hi \/ (ceiling # -1 /\ hi = ceiling + 1)
<1>1. most[c] \in -1..NglMax /\ NglMax \in Int /\ lo \in Int /\ hi \in Int /\ c \in Int
  BY Sizes DEF Typed
<1>2. lo <= most[c]
  <2>1. CASE lo = -1
    BY <1>1, <2>1
  <2>2. CASE lo # -1
    <3>1. PICK d \in among : lo \in Ngl /\ d >= c /\ Fit(At(d, lo))
      BY <2>2 DEF FitFound
    <3>2. d \in Ctx /\ d \in Int /\ lo <= most[d] /\ most[d] \in Int
      BY <3>1, FitHolds, Sizes
    <3>3. most[d] <= most[c]
      BY <1>1, <3>1, <3>2 DEF Given, Falling
    <3> QED  BY <1>1, <3>2, <3>3
  <2> QED  BY <2>1, <2>2
<1>3. ASSUME ~Misled, ~(ceiling # -1 /\ hi = ceiling + 1)
      PROVE  most[c] < hi
  <2>1. CASE hi = NglMax + 1
    BY <1>1, <2>1
  <2>2. CASE hi # NglMax + 1
    <3>1. PICK d \in among : hi \in Ngl /\ d <= c /\ Miss(At(d, hi))
      BY <1>3, <2>2 DEF FitFound
    <3>2. d \in Ctx /\ d \in Int /\ most[d] < hi /\ most[d] \in Int
      BY <1>3, <3>1, FitHolds, Sizes
    <3>3. most[c] <= most[d]
      BY <1>1, <3>1, <3>2 DEF Given, Falling
    <3> QED  BY <1>1, <3>2, <3>3
  <2> QED  BY <2>1, <2>2
<1> QED  BY <1>2, <1>3

LEMMA CapAtIs ==
    ASSUME Typed, Given, NEW c \in stops
    PROVE  CapAt(c) = Plan /\ Plan \in -1..NglMax /\ Plan \in Int
<1>1. c \in Ctx /\ 1 \in Ctx
  BY StopsAre, Sizes
<1>2. cap[c] = Plan /\ Plan \in -1..NglMax
  BY <1>1 DEF Given, Typed, Plan
<1> QED  BY <1>2, Sizes DEF CapAt, Given

LEMMA BestIs ==
    ASSUME Typed, Given, NEW c \in stops
    PROVE  /\ Best(c) \in Int /\ Best(c) <= most[c]
           /\ Plan # -1 => Best(c) <= Plan
           /\ Best(c) = most[c] \/ (Plan # -1 /\ Best(c) = Plan)
<1> DEFINE caps == {CapAt(d) : d \in {e \in stops : e <= c}} \ {-1}
           S == {most[c]} \cup caps
<1>1. c \in Ctx /\ c \in Int /\ most[c] \in -1..NglMax /\ NglMax \in Int
  BY StopsAre, Sizes DEF Typed
<1>2. Plan \in -1..NglMax /\ Plan \in Int
  BY CapAtIs
<1>3. caps = {Plan} \ {-1}
  <2>1. \A d \in {e \in stops : e <= c} : CapAt(d) = Plan
    BY CapAtIs
  <2>2. c \in {e \in stops : e <= c}
    BY <1>1
  <2> QED  BY <2>1, <2>2
<1> HIDE DEF caps
<1>4. S \in SUBSET Int /\ S # {} /\ -1 \in Int /\ \A x \in S : -1 <= x
  BY <1>1, <1>2, <1>3
<1>5. Best(c) = Min(S)
  BY DEF Best, caps
<1> HIDE DEF S
<1>6. Best(c) \in S /\ \A x \in S : Best(c) <= x
  BY <1>4, <1>5, LeastOf
<1> QED  BY <1>3, <1>4, <1>6 DEF S

LEMMA OpenedBelow ==
    ASSUME Typed, NEW c \in stops, Opened(c), ~Root(c)
    PROVE  /\ Below(c) \in stops /\ Below(c) < c /\ Cleans(Below(c))
           /\ Beneath(c).fit = Shown(Below(c)) /\ Beneath(c).clean = CleanAt(Below(c))
           /\ CleanAt(Below(c)).resolved /\ AnswerBelow(c) = CleanAt(Below(c)).value
           /\ Beneath(c).limit = LimitAt(Below(c))
<1>1. Below(c) \in stops /\ Below(c) < c
  BY BelowIs DEF Root
<1>2. Beneath(c) = Curve[Below(c)] /\ Beneath(c).settled /\ ~Beneath(c).nothing
  BY DEF Opened, Beneath
<1>3. Cleans(Below(c))
  BY <1>1, <1>2, StateIs
<1> QED  BY <1>1, <1>2, <1>3, StateIs DEF Shows, AnswerBelow

(* A search of target 2 here starts at most where the one below ended, and  *)
(* at most at the plan's cap.                                               *)
LEMMA CeilingHolds ==
    ASSUME Typed, Given, Capped, Plan # 0, listed, NEW c \in stops, Opened(c),
           NEW lo \in -1..NglMax, NEW hi \in (lo + 1)..(NglMax + 1),
           FitFound(c, Ctx, CeilingAt(c), FitOf(c), lo, hi)
    PROVE  /\ Plan # -1 => lo <= Plan /\ hi <= Plan + 1
           /\ ~Root(c) => lo <= Beneath(c).fit.value /\ hi <= Beneath(c).fit.value + 1
           /\ CeilingAt(c) = -1 \/ (CeilingAt(c) = Plan /\ Plan # -1)
                \/ (~Root(c) /\ CeilingAt(c) = Beneath(c).fit.value)
<1> DEFINE x == IF Root(c) THEN -1 ELSE Beneath(c).fit.value
<1>1. /\ c \in Ctx /\ c \in Int /\ lo \in Int /\ hi \in Int /\ NglMax \in Int
      /\ Plan \in -1..NglMax /\ Plan \in Int
  BY StopsAre, Sizes, CapAtIs
<1>2. x \in -1..NglMax /\ x \in Int /\ x >= -1
  BY CurvePlaced, Sizes DEF Placed
<1>3. CeilingAt(c) = MinOf({x, Plan})
  BY CapAtIs DEF CeilingAt
<1>4. ~Root(c) => lo <= x
  <2> SUFFICES ASSUME ~Root(c), lo # -1 PROVE lo <= x
    BY <1>1, <1>2
  <2>1. PICK d \in Ctx : lo \in Ngl /\ d >= c /\ Fit(At(d, lo))
    BY DEF FitFound
  <2> DEFINE b == Below(c)
  <2>2. b \in stops /\ b < c /\ b \in Int /\ x = FitOf(b).value
    BY OpenedBelow, BelowIs DEF Shown
  <2>3. Root(b) \/ Placed(Beneath(b))
    BY <2>2, CurvePlaced
  <2> HIDE DEF b, x
  <2>4. PICK l \in -1..NglMax : \E h \in (l + 1)..(NglMax + 1) :
                FitFound(b, Ctx, CeilingAt(b), FitOf(b), l, h)
    BY <2>2, <2>3, FitOfIs
  <2>5. l = FitOf(b).value /\ \A n \in Ngl : (\E e \in Ctx : e >= b /\ Fit(At(e, n))) => n <= l
    BY <2>4 DEF FitFound
  <2>6. d \in Int /\ d >= b
    BY <1>1, <2>1, <2>2, Sizes
  <2> QED  BY <2>1, <2>2, <2>5, <2>6
<1>5. Plan # -1 => lo <= Plan
  <2> SUFFICES ASSUME Plan # -1, lo # -1 PROVE lo <= Plan
    BY <1>1
  <2>1. PICK d \in Ctx : lo \in Ngl /\ d >= c /\ Fit(At(d, lo))
    BY DEF FitFound
  <2>2. At(d, lo) \in Rung /\ At(d, lo).ngl = lo /\ Loaded(At(d, lo))
    BY <2>1, AtIs, LoadedIs
  <2>3. At(d, lo) = Anchor \/ lo <= Plan
    BY <2>2 DEF Capped
  <2>4. At(d, lo) = Anchor => lo = 1
    BY <2>2, AnchorIs
  <2> QED  BY <1>1, <2>3, <2>4
<1> HIDE DEF x
<1>6. /\ CeilingAt(c) \in {x, Plan} /\ CeilingAt(c) \in Int
      /\ x # -1 => CeilingAt(c) <= x /\ CeilingAt(c) # -1
      /\ Plan # -1 => CeilingAt(c) <= Plan /\ CeilingAt(c) # -1
  <2>1. Plan >= -1
    BY <1>1
  <2>2. /\ MinOf({x, Plan}) \in {x, Plan}
        /\ x # -1 => MinOf({x, Plan}) <= x /\ MinOf({x, Plan}) # -1
        /\ Plan # -1 => MinOf({x, Plan}) <= Plan /\ MinOf({x, Plan}) # -1
    BY <1>1, <1>2, <2>1, MinOfIs
  <2> QED  BY <1>1, <1>2, <1>3, <2>2
<1>7. CeilingAt(c) # -1 /\ CeilingAt(c) + 1 > lo => hi <= CeilingAt(c) + 1
  BY DEF FitFound
<1>8. ~Root(c) => x = Beneath(c).fit.value
  BY DEF x
<1>9. Root(c) => x = -1
  BY DEF x
<1>10. CeilingAt(c) # -1 => lo <= CeilingAt(c)
  BY <1>1, <1>4, <1>5, <1>6, <1>9
<1>11. Plan # -1 => hi <= Plan + 1
  BY <1>1, <1>6, <1>7, <1>10
<1>12. ~Root(c) => x # -1
  <2> SUFFICES ASSUME ~Root(c) PROVE x # -1
    OBVIOUS
  <2>1. Cleans(Below(c)) /\ Beneath(c).fit = FitOf(Below(c))
    BY OpenedBelow DEF Shown
  <2> QED  BY <1>8, <2>1 DEF Cleans
<1>13. ~Root(c) => hi <= x + 1
  BY <1>1, <1>2, <1>6, <1>7, <1>10, <1>12
<1> QED  BY <1>4, <1>5, <1>6, <1>8, <1>9, <1>11, <1>13

LEMMA FrontierFits ==
    ASSUME Typed, Given, ClaimsHold, Capped, Judged, Plan # 0
    PROVE  \A c \in stops : Curve[c].fit.resolved =>
              Curve[c].fit.value <= Best(c) /\ (~Misled => Curve[c].fit.value = Best(c))
<1> DEFINE Right(c) == Curve[c].fit.resolved =>
              Curve[c].fit.value <= Best(c) /\ (~Misled => Curve[c].fit.value = Best(c))
           S == {c \in stops : Right(c)}
<1>1. ASSUME NEW c \in stops, Below(c) = -1 \/ Below(c) \in S PROVE Right(c)
  <2>1. /\ c \in Ctx /\ c \in Int /\ NglMax \in Int /\ most[c] \in -1..NglMax /\ most[c] \in Int
        /\ Plan \in -1..NglMax /\ Plan \in Int
    <3>1. c \in Ctx /\ most[c] \in -1..NglMax
      BY StopsAre DEF Typed
    <3> QED  BY <3>1, Sizes, CapAtIs
  <2>2. /\ Best(c) \in Int /\ Best(c) <= most[c] /\ (Plan # -1 => Best(c) <= Plan)
        /\ Best(c) = most[c] \/ (Plan # -1 /\ Best(c) = Plan)
    BY BestIs
  <2>3. listed
    BY DEF Judged
  <2>4. CASE Waits(c)
    <3>1. Curve[c].fit = Stuck(-1)
      BY <2>4, StateIs DEF Shows
    <3> QED  BY <3>1, StepIs
  <2>5. CASE Fits(c)
    <3>1. Curve[c].fit = FitOf(c)
      BY <2>3, <2>5, StateIs DEF Shows, Shown
    <3> QED  BY <2>5, <3>1 DEF Fits
  <2>6. CASE Opened(c) /\ FitOf(c).resolved
    <3>1. Root(c) \/ Placed(Beneath(c))
      BY CurvePlaced
    <3>2. PICK lo \in -1..NglMax : \E hi \in (lo + 1)..(NglMax + 1) :
                  FitFound(c, Ctx, CeilingAt(c), FitOf(c), lo, hi)
      BY <2>3, <3>1, FitOfIs
    <3>3. PICK hi \in (lo + 1)..(NglMax + 1) : FitFound(c, Ctx, CeilingAt(c), FitOf(c), lo, hi)
      BY <3>2
    <3>4. hi = lo + 1 /\ FitOf(c).value = lo /\ lo \in Int
      BY <2>1, <2>6, <3>3 DEF FitFound
    <3>5. CeilingAt(c) \in -1..NglMax /\ Ctx \in SUBSET Ctx
      BY <3>1, FitOfIs
    <3>6. lo <= most[c] /\ (~Misled => most[c] < hi \/ (CeilingAt(c) # -1 /\ hi = CeilingAt(c) + 1))
      BY <2>1, <3>3, <3>5, FitBounds
    <3>7. /\ Plan # -1 => lo <= Plan
          /\ CeilingAt(c) = -1 \/ (CeilingAt(c) = Plan /\ Plan # -1)
               \/ (~Root(c) /\ CeilingAt(c) = Beneath(c).fit.value)
      BY <2>3, <2>6, <3>3, CeilingHolds
    <3>8. lo <= Best(c)
      BY <2>1, <2>2, <3>4, <3>6, <3>7
    <3>9. ASSUME ~Misled PROVE lo = Best(c)
      <4>1. CASE most[c] < hi
        BY <2>1, <2>2, <3>4, <3>8, <4>1
      <4>2. CASE CeilingAt(c) # -1 /\ lo = CeilingAt(c) /\ CeilingAt(c) = Plan
        BY <2>1, <2>2, <3>8, <4>2
      <4>3. CASE CeilingAt(c) # -1 /\ lo = CeilingAt(c) /\ ~Root(c) /\ lo = Beneath(c).fit.value
        <5> DEFINE b == Below(c)
        <5>1. b \in stops /\ b < c /\ Cleans(b) /\ b \in S /\ Curve[b].fit = FitOf(b)
          BY <1>1, <2>3, <2>6, <4>3, OpenedBelow DEF Root, Beneath, Shown
        <5>2. FitOf(b).resolved /\ lo = Curve[b].fit.value
          BY <4>3, <5>1 DEF Cleans, Beneath
        <5>3. lo = Best(b)
          BY <3>9, <5>1, <5>2
        <5>4. Best(b) <= most[b] /\ Best(b) \in Int /\ (Plan # -1 => Best(b) <= Plan)
              /\ (Best(b) = most[b] \/ (Plan # -1 /\ Best(b) = Plan))
          BY <5>1, BestIs
        <5>5. most[c] <= most[b] /\ most[b] \in Int
          <6>1. b \in Ctx /\ most[b] \in -1..NglMax
            BY <5>1, StopsAre DEF Typed
          <6> QED  BY <2>1, <5>1, <6>1, Sizes DEF Given, Falling
        <5> HIDE DEF b
        <5> QED  BY <2>1, <2>2, <3>8, <5>3, <5>4, <5>5
      <4>4. hi = CeilingAt(c) + 1 => lo = CeilingAt(c)
        BY <3>4, <3>5, Sizes
      <4> QED  BY <3>6, <3>7, <3>9, <4>1, <4>2, <4>3, <4>4
    <3>10. Curve[c].fit = FitOf(c) \/ (lo = -1 /\ Curve[c].fit = Step(-1, {}))
      <4>1. CASE Controls(c) \/ Cleans(c)
        BY <2>3, <4>1, StateIs DEF Shows, Shown
      <4>2. CASE ~Controls(c) /\ ~Cleans(c)
        <5>1. Empty(c) /\ FitOf(c).value = -1
          BY <2>6, <4>2 DEF Controls, Cleans, Empty
        <5> QED  BY <3>4, <5>1, StateIs DEF Shows
      <4> QED  BY <4>1, <4>2
    <3>11. Curve[c].fit.value = lo
      BY <3>4, <3>10, StepIs
    <3> QED  BY <3>8, <3>9, <3>11
  <2>7. CASE Void(c)
    <3> DEFINE b == Below(c)
    <3>1. b \in stops /\ b < c /\ b \in S /\ Curve[b].settled /\ Curve[b].nothing
      BY <1>1, <2>7, BelowIs DEF Void, Root, Beneath
    <3>2. Empty(b) /\ Empty(c)
      BY <2>7, <3>1, StateIs DEF Empty
    <3>3. Curve[b].fit = Step(-1, {}) /\ Curve[c].fit = Step(-1, {})
      BY <3>1, <3>2, StateIs DEF Shows
    <3>4. Curve[b].fit.resolved /\ Curve[b].fit.value = -1 /\ Curve[c].fit.value = -1
      BY <3>3, StepIs
    <3>5. -1 <= Best(c)
      BY <2>1, <2>2
    <3>6. ASSUME ~Misled PROVE Best(c) = -1
      <4>1. Best(b) = -1
        BY <3>1, <3>4, <3>6
      <4>2. most[b] = -1
        <5>1. Best(b) = most[b] \/ (Plan # -1 /\ Best(b) = Plan)
          BY <3>1, BestIs
        <5> QED  BY <2>1, <4>1, <5>1
      <4>3. most[c] <= most[b]
        <5>1. b \in Ctx
          BY <3>1, StopsAre
        <5> QED  BY <2>1, <3>1, <5>1 DEF Given, Falling
      <4> HIDE DEF b
      <4> QED  BY <2>1, <2>2, <3>5, <4>2, <4>3
    <3> QED  BY <3>4, <3>5, <3>6
  <2> QED  BY <2>4, <2>5, <2>6, <2>7, StateIs DEF Fits, Controls, Cleans, Empty
<1>2. \A c \in stops : (Below(c) = -1 \/ Below(c) \in S) => c \in S
  BY <1>1
<1>3. S \in SUBSET stops
  OBVIOUS
<1> HIDE DEF S
<1>4. S = stops
  BY <1>2, <1>3, StopsInduct
<1> QED  BY <1>4 DEF S

LEMMA CleanAtSays ==
    ASSUME Typed, NEW c \in stops
    PROVE  /\ LimitAt(c) \in -1..NglMax /\ LimitAt(c) \in Int
           /\ CleanAt(c).value \in -1..LimitAt(c) /\ CleanAt(c).value \in -1..NglMax
           /\ CleanAt(c).resolved \in BOOLEAN /\ (CleanAt(c).resolved <=> CleanAt(c).next = {})
           /\ CleanAt(c).value # -1 =>
                 CleanAt(c).value \in Ngl /\ Clean(At(c, CleanAt(c).value))
           /\ \A p \in 0..LimitAt(c) : p \in Ngl /\ (Clean(At(c, p)) => p <= CleanAt(c).value)
           /\ \A p \in CleanAt(c).next : p \in 0..LimitAt(c) /\ p \in Ngl /\ ~Loaded(At(c, p))
           /\ CleanAt(c).resolved /\ CleanAt(c).value # LimitAt(c) =>
                 /\ CleanAt(c).value + 1 \in Ngl /\ Loaded(At(c, CleanAt(c).value + 1))
                 /\ ~Clean(At(c, CleanAt(c).value + 1))
           /\ CleanAt(c).resolved <=>
                 \/ CleanAt(c).value = LimitAt(c)
                 \/ /\ Loaded(At(c, CleanAt(c).value + 1))
                    /\ \A p \in {CleanAt(c).value + 2, CleanAt(c).value + 3} :
                          p <= LimitAt(c) => Loaded(At(c, p))
           /\ \A p \in CleanAt(c).next, q \in 0..LimitAt(c) :
                 q > CleanAt(c).value /\ Loaded(At(c, q)) => p <= q \/ p <= CleanAt(c).value + 3
<1> DEFINE at == [p \in Ngl |-> At(c, p)]
           s == CleanAt(c)
           limit == LimitAt(c)
<1>1. (Root(c) \/ Placed(Beneath(c))) /\ NglMax \in Int
  BY CurvePlaced, Sizes
<1>2. CleanFound(limit, at, s)
  BY <1>1, CleanAtIs
<1>3. limit \in -1..NglMax
  BY <1>1, LimitIs
<1>4. limit \in Int /\ s.value \in -1..limit /\ s.value \in -1..NglMax /\ s.value \in Int
  <2>1. limit \in Int /\ limit <= NglMax
    BY <1>1, <1>3
  <2>2. s.value \in -1..limit
    BY <1>2 DEF CleanFound
  <2> HIDE DEF s, limit
  <2> QED  BY <1>1, <2>1, <2>2
<1>5. \A p \in 0..limit : p \in Ngl /\ at[p] = At(c, p)
  BY <1>1, <1>3, Sizes
<1> HIDE DEF at, limit, s
<1>6. s.value # -1 => s.value \in 0..limit /\ Clean(at[s.value])
  BY <1>2, <1>4 DEF CleanFound
<1>7. s.resolved /\ s.value # limit =>
        s.value + 1 \in 0..limit /\ Loaded(at[s.value + 1]) /\ ~Clean(at[s.value + 1])
  BY <1>2, <1>4 DEF CleanFound
<1>8. s.resolved <=> \/ s.value = limit
                    \/ /\ Loaded(at[s.value + 1])
                       /\ \A p \in {s.value + 2, s.value + 3} : p <= limit => Loaded(at[p])
  BY <1>2 DEF CleanFound
<1>10. \A p \in {s.value + 1, s.value + 2, s.value + 3} : p <= limit => at[p] = At(c, p)
  BY <1>4, <1>5
<1>11. s.value # limit => at[s.value + 1] = At(c, s.value + 1)
  BY <1>4, <1>5
<1>12. s.resolved <=> \/ s.value = limit
                     \/ /\ Loaded(At(c, s.value + 1))
                        /\ \A p \in {s.value + 2, s.value + 3} : p <= limit => Loaded(At(c, p))
  BY <1>8, <1>10, <1>11
<1>13. \A p \in s.next, q \in 0..limit :
          q > s.value /\ Loaded(At(c, q)) => p <= q \/ p <= s.value + 3
  BY <1>2, <1>5 DEF CleanFound
<1>9. /\ s.resolved \in BOOLEAN /\ (s.resolved <=> s.next = {})
      /\ \A p \in 0..limit : Clean(at[p]) => p <= s.value
      /\ \A p \in s.next : p \in 0..limit /\ ~Loaded(at[p])
  BY <1>2 DEF CleanFound
<1> QED  BY <1>3, <1>4, <1>5, <1>6, <1>7, <1>9, <1>12, <1>13 DEF s, limit

LEMMA CurveCapped ==
    ASSUME Typed, Given, Capped, Plan # 0, Plan # -1, NEW c \in stops, NEW r \in Curve[c].next
    PROVE  r.ngl <= Plan
<1>1. /\ c \in Ctx /\ CapAt(c) = Plan /\ Plan \in Int /\ NglMax \in Int
      /\ Root(c) \/ Placed(Beneath(c))
  BY StopsAre, CapAtIs, Sizes, CurvePlaced
<1>2. CASE Waits(c) \/ Empty(c)
  BY <1>2, StateIs DEF Shows
<1>3. CASE Fits(c)
  <2>1. r \in FitRungs(c)
    BY <1>3, StateIs DEF Shows
  <2>2. listed /\ Opened(c) /\ r.ngl \in FitOf(c).next
    BY <1>1, <1>3, <2>1, FitOfIs DEF Fits
  <2>3. PICK lo \in -1..NglMax : \E hi \in (lo + 1)..(NglMax + 1) :
                FitFound(c, Ctx, CeilingAt(c), FitOf(c), lo, hi)
    BY <1>1, <2>2, FitOfIs
  <2>4. PICK hi \in (lo + 1)..(NglMax + 1) : FitFound(c, Ctx, CeilingAt(c), FitOf(c), lo, hi)
    BY <2>3
  <2>5. hi <= Plan + 1
    BY <2>2, <2>4, CeilingHolds
  <2>6. r.ngl \in (lo + 1)..(hi - 1)
    BY <2>2, <2>4 DEF FitFound
  <2>7. lo \in Int /\ hi \in Int
    BY <1>1
  <2> QED  BY <1>1, <2>5, <2>6, <2>7
<1>4. CASE Controls(c)
  <2>1. r \in Pending(c) /\ Opened(c)
    BY <1>4, StateIs DEF Shows, Controls
  <2>2. AnswerBelow(c) # -1 /\ ~Root(c) /\ r = At(Below(c), AnswerBelow(c))
    BY <2>1 DEF Pending, ToControl, AnswerBelow
  <2> DEFINE b == Below(c)
  <2>3. b \in stops /\ AnswerBelow(c) = CleanAt(b).value
    BY <2>1, <2>2, OpenedBelow
  <2> HIDE DEF b
  <2>4. Root(b) \/ Placed(Beneath(b))
    BY <2>3, CurvePlaced
  <2>5. LimitAt(b) <= CapAt(b) /\ CapAt(b) = Plan
    BY <2>3, <2>4, LimitIs, CapAtIs
  <2>6. LimitAt(b) \in Int /\ CleanAt(b).value \in -1..LimitAt(b) 
    BY <2>3, CleanAtSays
  <2>7. r.ngl = CleanAt(b).value
    BY <2>2, <2>3 DEF At, b
  <2> QED  BY <1>1, <2>5, <2>6, <2>7
<1>5. CASE Cleans(c)
  <2>1. r \in LastNext(c)
    BY <1>5, StateIs DEF Shows
  <2>2. LimitAt(c) <= Plan
    BY <1>1, LimitIs
  <2>3. LimitAt(c) \in Int /\ CleanAt(c).value \in -1..LimitAt(c)
        /\ \A p \in CleanAt(c).next : p \in 0..LimitAt(c)
    BY CleanAtSays
  <2>4. CASE ~CleanAt(c).resolved
    <3>1. PICK p \in CleanAt(c).next : r = At(c, p)
      BY <2>1, <2>4 DEF LastNext
    <3> QED  BY <1>1, <2>2, <2>3, <3>1 DEF At
  <2>5. CASE CleanAt(c).resolved
    <3>1. r = At(c, CleanAt(c).value)
      BY <2>1, <2>5 DEF LastNext, ToControl
    <3> QED  BY <1>1, <2>2, <2>3, <3>1 DEF At
  <2> QED  BY <2>4, <2>5
<1> QED  BY <1>2, <1>3, <1>4, <1>5, StateIs

LEMMA NextCapped ==
    ASSUME Typed, Given, Capped, Plan # 0, Plan # -1, NEW r \in ProbeOutcome.next
    PROVE  r = Anchor \/ r.ngl <= Plan
<1>1. mode = "frontier"
  BY DEF Given
<1>2. CASE Gated /\ ProbeOutcome.next \subseteq {q \in {Anchor} : ~Control(q)}
  BY <1>2
<1>3. CASE ProbeOutcome = Frontier
  <2>1. PICK c \in stops : r \in Curve[c].next
    BY <1>3, FrontierIs
  <2> QED  BY <2>1, CurveCapped
<1> QED  BY <1>1, <1>2, <1>3, OutcomeCases

(* What was found and what was loaded.                                      *)
LEMMA FoundInit == Init => Given /\ ClaimsHold /\ Capped
<1> SUFFICES ASSUME Init PROVE Given /\ ClaimsHold /\ Capped
  OBVIOUS
<1>1. Given
  <2>1. Falling(most)
    BY DEF Init
  <2>2. PICK n \in (IF planned THEN Cap ELSE {-1}) : cap = [c \in Ctx |-> n]
    BY DEF Init
  <2>3. 1 \in Ctx
    BY Sizes
  <2>4. Plan = n /\ \A c \in Ctx : cap[c] = n
    BY <2>2, <2>3 DEF Plan
  <2>5. planned \/ n = -1
    BY <2>2
  <2>6. mode # "frontier" => ~planned
    BY DEF Init
  <2> QED  BY <2>1, <2>4, <2>5, <2>6 DEF Given
<1>2. \A r \in Rung : history[r] = <<>>
  BY DEF Init
<1> QED  BY <1>1, <1>2 DEF ClaimsHold, Capped, Loaded

LEMMA PlanIsOfCap == Init /\ 0 \notin Cap => Plan # 0
<1> SUFFICES ASSUME Init, 0 \notin Cap PROVE Plan # 0
  OBVIOUS
<1>1. PICK n \in (IF planned THEN Cap ELSE {-1}) : cap = [c \in Ctx |-> n]
  BY DEF Init
<1>2. Plan = n
  BY <1>1, Sizes DEF Plan
<1> QED  BY <1>1, <1>2

LEMMA FoundNext ==
    ASSUME Typed, Given, ClaimsHold, [Next]_vars
    PROVE  Given' /\ ClaimsHold' /\ (Plan' = Plan)
           /\ (Capped /\ Plan # 0 => Capped')
<1>1. UNCHANGED input
  BY StepsAre
<1>2. Given' /\ Plan' = Plan
  BY <1>1 DEF Given, Falling, Plan, input
<1>3. /\ Judged' = Judged /\ \A r : Fitting(r)' = Fitting(r)
  BY <1>1 DEF Judged, Fitting, input
<1>4. CASE UNCHANGED history
  <2>1. ClaimsHold'
    BY <1>3, <1>4 DEF ClaimsHold
  <2>2. Capped => Capped'
    BY <1>2, <1>4 DEF Capped, Loaded
  <2> QED  BY <1>2, <2>1, <2>2
<1>5. ASSUME NEW r \in ProbeOutcome.next, NEW a \in Attempt, r \in Rung, Record(r, a),
             a \in Attempts(r, r \in ProbeOutcome.only) \/ \E kind \in Trouble : a \in Setback(kind, r)
      PROVE  ClaimsHold' /\ (Capped /\ Plan # 0 => Capped')
  <2>1. /\ history'[r] = Append(history[r], a) /\ \A q \in Rung : q # r => history'[q] = history[q]
        /\ history[r] \in Seq(Attempt)
    BY <1>5, RecordIs, LoadedIs
  <2>2. Judged /\ a.fits => Fitting(r)
    <3>1. \A ok \in BOOLEAN : Judged => Full(r, ok).fits = Fitting(r)
      BY <1>5, FullIs
    <3>2. ~Trace(FALSE, FALSE, FALSE, FALSE).fits /\ ~Trace(FALSE, FALSE, TRUE, FALSE).fits
      BY DEF Trace
    <3>3. CASE a \in Attempts(r, r \in ProbeOutcome.only)
      BY <1>5, <3>1, <3>3, AttemptsAre
    <3>4. ASSUME NEW kind \in Trouble, a \in Setback(kind, r) PROVE Judged /\ a.fits => Fitting(r)
      BY <1>5, <3>1, <3>2, <3>4, SetbacksAre
    <3> QED  BY <1>5, <3>3, <3>4
  <2>3. ClaimsHold'
    <3> SUFFICES ASSUME Judged, NEW q \in Rung, NEW i \in DOMAIN history'[q], history'[q][i].fits
                 PROVE  Fitting(q)
      BY <1>3 DEF ClaimsHold
    <3>1. CASE q # r
      BY <2>1, <3>1 DEF ClaimsHold
    <3>2. CASE q = r
      <4>1. i \in 1..(Len(history[r]) + 1)
        BY <2>1, <3>2
      <4>2. CASE i = Len(history[r]) + 1
        <5>1. history'[q][i] = a
          BY <2>1, <3>2, <4>2
        <5> QED  BY <2>2, <3>2, <5>1
      <4>3. CASE i # Len(history[r]) + 1
        <5>1. i \in DOMAIN history[r] /\ history'[q][i] = history[r][i]
          BY <2>1, <3>2, <4>1, <4>3
        <5> QED  BY <1>5, <3>2, <5>1 DEF ClaimsHold
      <4> QED  BY <4>2, <4>3
    <3> QED  BY <3>1, <3>2
  <2>4. Capped /\ Plan # 0 => Capped'
    <3> SUFFICES ASSUME Capped, Plan # 0, Plan # -1, NEW q \in Rung, history'[q] # <<>>
                 PROVE  q = Anchor \/ q.ngl <= Plan
      BY <1>2 DEF Capped, Loaded
    <3>1. CASE q # r
      BY <2>1, <3>1 DEF Capped, Loaded
    <3>2. CASE q = r
      BY <1>5, <3>2, NextCapped
    <3> QED  BY <3>1, <3>2
  <2> QED  BY <2>3, <2>4
<1> QED  BY <1>2, <1>4, <1>5, StepsAre

LEMMA AnchoredIs == Anchored => ~Gated
  BY DEF Anchored, Gated, Clean

LEMMA KeepRight ==
    ASSUME Typed, Given, ClaimsHold, Judged, KeepContext.fit # None
    PROVE  Fitting(KeepContext.fit)
           /\ (~Misled => KeepContext.fit.ngl = most[KeepContext.fit.ctx])
<1> DEFINE c == candidate.ctx
<1>1. listed
  BY DEF Judged
<1>2. ~(~KeepFit.resolved \/ KeepFit.value = -1) /\ KeepContext.fit = KeepFitting
  BY <1>1, KeepIs, OutcomeIs DEF Answer
<1>3. KeepFit.value \in Ngl /\ KeepContext.fit = At(c, KeepFit.value) /\ c \in Ctx
  BY <1>1, <1>2, KeepFound, CandidateIs, Sizes DEF KeepFitting, OnAxis
<1> DEFINE r == KeepContext.fit
<1>4. r \in Rung /\ r.ctx = c /\ r.ngl = KeepFit.value
  BY <1>3, AtIs
<1> HIDE DEF r, c
<1>5. PICK lo \in -1..NglMax : \E hi \in (lo + 1)..(NglMax + 1) :
              FitFound(c, {c}, -1, KeepFit, lo, hi)
  BY KeepFound DEF c
<1>6. PICK hi \in (lo + 1)..(NglMax + 1) : FitFound(c, {c}, -1, KeepFit, lo, hi)
  BY <1>5
<1>7. lo = KeepFit.value /\ hi = lo + 1 /\ lo \in Int
  BY <1>2, <1>6, Sizes DEF FitFound
<1>8. lo <= most[c] /\ (~Misled => most[c] < hi)
  <2>1. {c} \in SUBSET Ctx /\ -1 \in -1..NglMax
    BY <1>3, Sizes
  <2> QED  BY <1>3, <1>6, <2>1, FitBounds
<1>9. most[c] \in Int
  <2>1. most[c] \in -1..NglMax
    BY <1>3 DEF Typed
  <2> QED  BY <2>1, Sizes
<1> QED  BY <1>4, <1>7, <1>8, <1>9 DEF Fitting, r

LEMMA OffloadRight ==
    ASSUME Typed, Given, ClaimsHold, Judged, FixedOffload.fit # None
    PROVE  LET r == FixedOffload.fit
           IN  Fitting(r) /\ (~Misled => \A c \in Ctx : c > r.ctx => most[c] < r.ngl)
<1>1. listed
  BY DEF Judged
<1>2. FirstMiss = Known + 1 /\ Known # -1 /\ FixedOffload.fit = OffFitting
  BY <1>1, OffloadIs, OutcomeIs DEF Answer
<1>3. Known \in 0..(Contexts - 1) /\ Contexts \in Int
  BY <1>2, OffloadFound, Sizes
<1>4. FixedOffload.fit = OffAxis[Known] /\ Fit(OffAxis[Known])
  BY <1>1, <1>2, OffloadFound DEF OffFitting, OnAxis
<1> DEFINE d == Known + 1
           n == candidate.ngl
<1>5. d \in Ctx /\ d \in Int /\ n \in Ngl /\ n \in Int /\ FixedOffload.fit = At(d, n) /\ Fit(At(d, n))
  BY <1>3, <1>4, OffloadFound, CandidateIs
<1> HIDE DEF d, n
<1>6. At(d, n).ctx = d /\ At(d, n).ngl = n
  BY <1>5, AtIs
<1>7. n <= most[d]
  BY <1>5, FitHolds
<1>8. ASSUME ~Misled, NEW c \in Ctx, c > d PROVE most[c] < n
  <2>1. c \in Int /\ c <= Contexts
    BY Sizes
  <2>2. FirstMiss # Contexts /\ FirstMiss \in 0..(Contexts - 1) /\ FirstMiss = d
    BY <1>2, <1>3, <1>8, <2>1 DEF d
  <2>3. Miss(At(d + 1, n)) /\ d + 1 \in Ctx
    BY <2>2, OffloadFound DEF n
  <2>4. most[d + 1] < n /\ most[d + 1] \in Int /\ most[c] \in Int
    <3>1. most[d + 1] < n /\ most[d + 1] \in -1..NglMax /\ most[c] \in -1..NglMax
      BY <1>5, <1>8, <2>3, FitHolds DEF Typed
    <3> QED  BY <3>1, Sizes
  <2>5. most[c] <= most[d + 1]
    <3>1. c = d + 1 \/ c > d + 1
      BY <1>5, <1>8, <2>1
    <3> QED  BY <2>3, <2>4, <3>1 DEF Given, Falling
  <2> QED  BY <1>5, <2>4, <2>5
<1> QED  BY <1>5, <1>6, <1>7, <1>8 DEF Fitting

LEMMA CustomRight ==
    ASSUME Typed, ClaimsHold, Judged, Custom.fit # None
    PROVE  Fitting(Custom.fit)
<1>1. Loaded(candidate)
  BY OutcomeIs DEF Custom
<1>2. Custom.fit = IF listed /\ \E i \in DOMAIN history[candidate] : history[candidate][i].fits
                   THEN candidate ELSE None
  BY <1>1, OutcomeIs DEF Custom
<1>3. PICK i \in DOMAIN history[candidate] : history[candidate][i].fits
  BY <1>2
<1>4. Custom.fit = candidate
  BY <1>2
<1> QED  BY <1>3, <1>4, CandidateIs DEF ClaimsHold

LEMMA FitIsRightHere ==
    Typed /\ Given /\ ClaimsHold /\ Capped /\ Plan # 0 => FitIsRight
<1> SUFFICES ASSUME Typed, Given, ClaimsHold, Capped, Plan # 0, Judged, Anchored
             PROVE  CASE mode = "frontier" ->
                           \A c \in stops : Curve[c].fit.resolved =>
                              /\ Curve[c].fit.value <= Best(c)
                              /\ ~Misled => Curve[c].fit.value = Best(c)
                      [] mode = "fixed_offload" -> Result.fit # None =>
                           /\ Fitting(Result.fit)
                           /\ ~Misled => \A c \in Ctx : c > Result.fit.ctx => most[c] < Result.fit.ngl
                      [] OTHER -> Result.fit # None =>
                           /\ Fitting(Result.fit)
                           /\ ~Misled /\ mode = "keep_context" =>
                                 Result.fit.ngl = most[Result.fit.ctx]
  BY DEF FitIsRight
<1>1. ~Gated /\ Result = ProbeOutcome
  BY AnchoredIs DEF Result
<1>2. mode \in {"frontier", "keep_context", "fixed_offload", "custom"}
  BY ModeAssumption DEF Typed
<1> HIDE DEF Result, ProbeOutcome
<1>3. CASE mode = "frontier"
  <2>1. \A c \in stops : Curve[c].fit.resolved =>
           Curve[c].fit.value <= Best(c) /\ (~Misled => Curve[c].fit.value = Best(c))
    BY FrontierFits
  <2> QED  BY <1>3, <2>1
<1>4. CASE mode = "fixed_offload"
  <2>1. Result = FixedOffload
    BY <1>1, <1>4, OutcomeCases
  <2> QED  BY <1>4, <2>1, OffloadRight
<1>5. CASE mode = "keep_context"
  <2>1. Result = KeepContext
    BY <1>1, <1>5, OutcomeCases
  <2> QED  BY <1>5, <2>1, KeepRight
<1>6. CASE mode = "custom"
  <2>1. Result = Custom
    BY <1>1, <1>6, OutcomeCases
  <2> QED  BY <1>6, <2>1, CustomRight
<1> QED  BY <1>2, <1>3, <1>4, <1>5, <1>6

(* What the ladder answers for target 2 (frontierOutcome, keepContext,      *)
(* fixedOffload) fits, and is the most that fits unless a load ran out of   *)
(* memory in spite of its claim: for every machine, seed, stop and cap of   *)
(* one layer or more.  A cap of 0 is below the anchor, which is loaded all  *)
(* the same: its one layer fits above the cap, and the cap is then no bound.*)
THEOREM FitsAreRight == 0 \notin Cap /\ Spec => []FitIsRight
<1> DEFINE Inv == LadderInv /\ Given /\ ClaimsHold /\ Capped /\ Plan # 0
<1>1. 0 \notin Cap /\ Init => Inv
  BY LadderInit, FoundInit, PlanIsOfCap
<1>2. Inv /\ [Next]_vars => Inv'
  <2> SUFFICES ASSUME Inv, [Next]_vars PROVE Inv'
    OBVIOUS
  <2>1. LadderInv'
    BY LadderNext
  <2>2. Given' /\ ClaimsHold' /\ Plan' = Plan /\ Capped'
    BY FoundNext, TypedIs DEF LadderInv
  <2> QED  BY <2>1, <2>2
<1>3. Inv => FitIsRight
  BY FitIsRightHere, TypedIs DEF LadderInv
<1> HIDE DEF Inv
<1> QED  BY <1>1, <1>2, <1>3, PTL DEF Spec

-----------------------------------------------------------------------------
(* Nothing left to load. *)

LEMMA SaysSomething ==
    ASSUME Typed, ~Errors, NEW r \in Rung, Loaded(r)
    PROVE  Fit(r) \/ Miss(r)
<1>1. Len(history[r]) > 0 /\ DOMAIN history[r] = 1..Len(history[r]) /\ Len(history[r]) \in Nat
  BY LoadedIs
<1>2. 1 \in DOMAIN history[r]
  BY <1>1
<1>3. ~history[r][1].error
  BY <1>2 DEF Errors
<1> QED  BY <1>2, <1>3 DEF Fit, Miss, Conclusive

(* A search of target 2 gets stuck only on loads that said nothing.         *)
LEMMA NeverStuck ==
    ASSUME Typed, ~Errors, NEW c \in Ctx, NEW among \in SUBSET Ctx, c \in among, NEW ceiling,
           NEW s, NEW lo \in -1..NglMax, NEW hi \in (lo + 1)..(NglMax + 1),
           FitFound(c, among, ceiling, s, lo, hi), ~s.resolved
    PROVE  s.next # {}
<1> SUFFICES ASSUME s.next = {} PROVE FALSE
  OBVIOUS
<1>1. lo \in Int /\ hi \in Int /\ NglMax \in Int /\ c \in Int
  BY Sizes
<1>2. lo + 1 \in (lo + 1)..(hi - 1) /\ Loaded(At(c, lo + 1)) /\ hi > lo + 1
  BY <1>1 DEF FitFound
<1>3. lo + 1 \in Ngl
  BY <1>1, <1>2, Sizes
<1>4. Fit(At(c, lo + 1)) \/ Miss(At(c, lo + 1))
  BY <1>2, <1>3, AtIs, SaysSomething
<1>5. ~Fit(At(c, lo + 1))
  BY <1>1, <1>3 DEF FitFound
<1>6. ~Miss(At(c, lo + 1))
  BY <1>1, <1>2, <1>3 DEF FitFound
<1> QED  BY <1>4, <1>5, <1>6

LEMMA StopsTop ==
    ASSUME Typed, NEW c \in stops, c # Max(stops)
    PROVE  \E e \in stops : Below(e) = c /\ c < e
<1>1. stops \in SUBSET Int /\ stops # {} /\ Contexts \in Int /\ \A e \in stops : e <= Contexts
  BY StopsAre, Sizes
<1>2. Max(stops) \in stops /\ \A e \in stops : e <= Max(stops)
  BY <1>1, GreatestOf
<1> DEFINE above == {e \in stops : e > c}
<1>3. above \in SUBSET Int /\ above # {} /\ c \in Int /\ \A e \in above : c <= e
  <2>1. c \in Int /\ c <= Max(stops) /\ Max(stops) \in Int
    BY <1>1, <1>2
  <2>2. Max(stops) \in above
    BY <1>2, <2>1
  <2>3. \A e \in above : e \in Int /\ c <= e
    BY <1>1, <2>1
  <2> QED  BY <2>1, <2>2, <2>3
<1>4. Min(above) \in above /\ \A e \in above : Min(above) <= e
  BY <1>3, LeastOf
<1> DEFINE e == Min(above)
<1>5. e \in stops /\ e > c /\ e \in Int /\ \A d \in stops : d > c => e <= d
  BY <1>1, <1>4
<1> HIDE DEF e, above
<1>6. c <= Below(e) /\ Below(e) # -1
  BY <1>5, BelowIs
<1>7. Below(e) \in stops /\ Below(e) < e /\ Below(e) \in Int
  BY <1>5, <1>6, BelowIs
<1>8. ~(Below(e) > c)
  BY <1>5, <1>7
<1> QED  BY <1>3, <1>5, <1>6, <1>7, <1>8

LEMMA FrontierSettled ==
    ASSUME Typed, ~Errors, \A c \in stops : Curve[c].next = {}
    PROVE  \A c \in stops :
              /\ Curve[c].settled
              /\ Curve[c].clean.value # -1 => Control(At(c, Curve[c].clean.value))
<1> DEFINE S == {c \in stops : Curve[c].settled}
<1>1. ASSUME NEW c \in stops, Opened(c) PROVE FitOf(c).resolved
  <2>1. c \in Ctx /\ (Root(c) \/ Placed(Beneath(c))) /\ Ctx \in SUBSET Ctx
    BY StopsAre, CurvePlaced
  <2> SUFFICES ASSUME ~FitOf(c).resolved PROVE FALSE
    OBVIOUS
  <2>2. listed /\ Fits(c)
    BY <1>1, <2>1, FitOfIs DEF Fits
  <2>3. FitRungs(c) = {}
    BY <2>2, StateIs DEF Shows
  <2>4. FitOf(c).next = {}
    BY <2>3 DEF FitRungs
  <2>5. PICK lo \in -1..NglMax : \E hi \in (lo + 1)..(NglMax + 1) :
                FitFound(c, Ctx, CeilingAt(c), FitOf(c), lo, hi)
    BY <2>1, <2>2, FitOfIs
  <2> QED  BY <2>1, <2>4, <2>5, NeverStuck
<1>2. ASSUME NEW c \in stops, Opened(c) PROVE Pending(c) = {}
  <2> SUFFICES ASSUME Pending(c) # {} PROVE FALSE
    OBVIOUS
  <2>1. Controls(c)
    BY <1>1, <1>2 DEF Controls
  <2> QED  BY <2>1, StateIs DEF Shows
<1>3. ASSUME NEW c \in stops, Below(c) = -1 \/ Below(c) \in S PROVE c \in S
  <2>1. ~Waits(c) /\ ~Fits(c) /\ ~Controls(c)
    BY <1>1, <1>2, <1>3 DEF Waits, Root, Beneath, Fits, Controls
  <2>2. CASE Empty(c)
    BY <2>2, StateIs
  <2>3. CASE Cleans(c)
    <3> SUFFICES ASSUME ~CleanAt(c).resolved PROVE FALSE
      BY <2>3, StateIs
    <3>1. {At(c, n) : n \in CleanAt(c).next} = {}
      BY <2>3, StateIs DEF Shows, LastNext
    <3>2. CleanAt(c).next = {}
      BY <3>1
    <3> QED  BY <3>2, CleanAtSays
  <2> QED  BY <2>1, <2>2, <2>3, StateIs
<1>4. S \in SUBSET stops
  OBVIOUS
<1> HIDE DEF S
<1>5. S = stops
  BY <1>3, <1>4, StopsInduct
<1>6. \A c \in stops : Curve[c].settled
  BY <1>5 DEF S
<1>7. ASSUME NEW c \in stops, Curve[c].clean.value # -1
      PROVE  Control(At(c, Curve[c].clean.value))
  <2> DEFINE r == At(c, Curve[c].clean.value)
  <2>1. Cleans(c)
    <3>1. ~Waits(c) /\ ~Fits(c) /\ ~Controls(c)
      BY <1>6, StateIs
    <3>2. Empty(c) => Curve[c].clean.value = -1
      <4>1. Empty(c) => Curve[c].clean = Step(-1, {})
        BY StateIs DEF Shows
      <4> QED  BY <4>1, StepIs
    <3> QED  BY <1>7, <3>1, <3>2, StateIs
  <2>2. Curve[c].clean = CleanAt(c) /\ CleanAt(c).resolved /\ ~Curve[c].nothing
    BY <1>6, <2>1, StateIs DEF Shows
  <2>3. r \in Rung /\ r # None
    <3>1. r \in Rung
      BY <1>7, <2>2, CleanAtSays, StopsAre, AtIs
    <3> QED  BY <3>1, NoneAssumption
  <2>4. CASE c = Max(stops)
    <3>1. LastNext(c) = ToControl(r)
      BY <1>7, <2>2, <2>4 DEF LastNext
    <3>2. LastNext(c) = {}
      BY <2>1, StateIs DEF Shows
    <3> QED  BY <2>3, <3>1, <3>2 DEF ToControl
  <2>5. CASE c # Max(stops)
    <3>1. PICK e \in stops : Below(e) = c /\ c < e
      BY <2>5, StopsTop
    <3>2. Opened(e) /\ ~Root(e)
      <4>1. c # -1
        BY StopsAre
      <4> QED  BY <1>6, <2>2, <3>1, <4>1 DEF Opened, Root, Beneath
    <3>3. AnswerBelow(e) = Curve[c].clean.value
      BY <3>1, <3>2 DEF AnswerBelow, Beneath
    <3>4. Pending(e) = ToControl(r)
      BY <1>7, <3>1, <3>3 DEF Pending
    <3>5. Pending(e) = {}
      BY <1>2, <3>2
    <3> QED  BY <2>3, <3>4, <3>5 DEF ToControl
  <2> QED  BY <2>4, <2>5
<1> QED  BY <1>6, <1>7

Spills(q) == Loaded(q) /\ ~Clean(q)

LEMMA CleanLoads ==
    ASSUME NEW r, Clean(r)
    PROVE  \A i \in DOMAIN history[r] : history[r][i].ok
  BY DEF Clean

LEMMA KeepClear ==
    ASSUME Typed, KeepContext.clean # None
    PROVE  LET r == KeepContext.clean
           IN  /\ Clean(r)
               /\ KeepContext.next = {} => Control(r)
               /\ r.ngl = NglMax \/ (listed /\ r = KeepContext.fit) \/ Spills(At(r.ctx, r.ngl + 1))
<1>1. /\ ~(listed /\ (~KeepFit.resolved \/ KeepFit.value = -1)) /\ KeepClean.resolved
      /\ KeepContext = Answer(OnAxis(KeepAxis, KeepClean.value), KeepFitting)
  BY KeepIs, OutcomeIs
<1> DEFINE p == KeepClean.value
           r == KeepContext.clean
<1>2. r = OnAxis(KeepAxis, p) /\ KeepContext.next = ToControl(r) /\ KeepContext.fit = KeepFitting
  BY <1>1, OutcomeIs DEF Answer
<1>3. p \in Ngl /\ r = KeepAxis[p] /\ candidate.ctx \in Ctx
  BY <1>2, KeepFound, CandidateIs, Sizes DEF OnAxis
<1>4. r = At(candidate.ctx, p) /\ r \in Rung /\ r.ctx = candidate.ctx /\ r.ngl = p
  BY <1>3, KeepFound, AtIs
<1>5. Clean(r) /\ (p = KeepLimit \/ (Loaded(KeepAxis[p + 1]) /\ ~Clean(KeepAxis[p + 1])))
  <2>1. p # -1
    BY <1>3, Sizes
  <2> QED  BY <1>1, <1>3, <2>1, KeepFound DEF CleanFound
<1>6. p <= KeepLimit /\ KeepLimit <= NglMax /\ p \in Int /\ KeepLimit \in Int /\ NglMax \in Int
  <2>1. p \in -1..KeepLimit /\ KeepLimit \in -1..NglMax
    BY KeepFound DEF CleanFound
  <2> QED  BY <2>1, Sizes
<1> HIDE DEF p, r
<1>7. KeepContext.next = {} => Control(r)
  <2>1. r # None
    BY DEF r
  <2> QED  BY <1>2, <2>1 DEF ToControl
<1>8. CASE p = KeepLimit
  <2>1. CASE listed
    <3>1. p = KeepFit.value
      BY <1>8, <2>1 DEF KeepLimit
    <3>2. KeepFitting = OnAxis(KeepAxis, p)
      BY <2>1, <3>1 DEF KeepFitting
    <3> QED  BY <1>2, <1>5, <1>7, <2>1, <3>2 DEF r
  <2>2. CASE ~listed
    BY <1>4, <1>5, <1>7, <1>8, <2>2 DEF KeepLimit, r
  <2> QED  BY <2>1, <2>2
<1>9. CASE p # KeepLimit
  <2>1. p + 1 \in Ngl
    BY <1>3, <1>6, <1>9, Sizes
  <2>2. KeepAxis[p + 1] = At(candidate.ctx, p + 1)
    BY <2>1, KeepFound
  <2> QED  BY <1>4, <1>5, <1>7, <1>9, <2>2 DEF Spills, r
<1> QED  BY <1>8, <1>9

LEMMA OffloadClear ==
    ASSUME Typed, FixedOffload.clean # None
    PROVE  LET r == FixedOffload.clean
           IN  /\ Clean(r)
               /\ FixedOffload.next = {} => Control(r)
               /\ r.ctx = Contexts \/ (listed /\ r = FixedOffload.fit) \/ Spills(At(r.ctx + 1, r.ngl))
<1>1. /\ ~(listed /\ FirstMiss # Known + 1) /\ ~(listed /\ Known = -1) /\ OffClean.resolved
      /\ FixedOffload = Answer(OnAxis(OffAxis, OffClean.value), OffFitting)
  BY OffloadIs, OutcomeIs
<1> DEFINE p == OffClean.value
           r == FixedOffload.clean
<1>2. r = OnAxis(OffAxis, p) /\ FixedOffload.next = ToControl(r) /\ FixedOffload.fit = OffFitting
  BY <1>1, OutcomeIs DEF Answer
<1>3. p \in 0..(Contexts - 1) /\ r = OffAxis[p] /\ candidate.ngl \in Ngl
  BY <1>2, OffloadFound, CandidateIs, Sizes DEF OnAxis
<1>4. r = At(p + 1, candidate.ngl) /\ r \in Rung /\ r.ctx = p + 1 /\ r.ngl = candidate.ngl
  BY <1>3, OffloadFound, AtIs
<1>5. Clean(r) /\ (p = OffLimit \/ (Loaded(OffAxis[p + 1]) /\ ~Clean(OffAxis[p + 1])))
  <2>1. p # -1
    BY <1>3, Sizes
  <2> QED  BY <1>1, <1>3, <2>1, OffloadFound DEF CleanFound
<1>6. p <= OffLimit /\ OffLimit <= Contexts - 1 /\ p \in Int /\ OffLimit \in Int /\ Contexts \in Int
  <2>1. p \in -1..OffLimit /\ OffLimit \in -1..(Contexts - 1)
    BY OffloadFound DEF CleanFound
  <2> QED  BY <2>1, Sizes
<1> HIDE DEF p, r
<1>7. FixedOffload.next = {} => Control(r)
  <2>1. r # None
    BY DEF r
  <2> QED  BY <1>2, <2>1 DEF ToControl
<1>8. CASE p = OffLimit
  <2>1. CASE listed
    <3>1. p = Known
      BY <1>8, <2>1 DEF OffLimit
    <3>2. OffFitting = OnAxis(OffAxis, p)
      BY <2>1, <3>1 DEF OffFitting
    <3> QED  BY <1>2, <1>5, <1>7, <2>1, <3>2 DEF r
  <2>2. CASE ~listed
    BY <1>4, <1>5, <1>6, <1>7, <1>8, <2>2 DEF OffLimit, r
  <2> QED  BY <2>1, <2>2
<1>9. CASE p # OffLimit
  <2>1. p + 1 \in 0..(Contexts - 1)
    BY <1>3, <1>6, <1>9
  <2>2. OffAxis[p + 1] = At(p + 1 + 1, candidate.ngl)
    BY <2>1, OffloadFound
  <2> QED  BY <1>4, <1>5, <1>7, <1>9, <2>2 DEF Spills, r
<1> QED  BY <1>8, <1>9

(* An answer of the Wizard is that of one of its stops. *)
LEMMA FrontierClear ==
    ASSUME Typed, Frontier.clean # None
    PROVE  \E c \in stops :
              /\ Cleans(c) /\ CleanAt(c).resolved /\ CleanAt(c).value \in Ngl
              /\ Frontier.clean = At(c, CleanAt(c).value)
              /\ Curve[c].clean = CleanAt(c) /\ Curve[c].limit = LimitAt(c)
<1> DEFINE answers == {c \in stops : Curve[c].clean.resolved /\ Curve[c].clean.value # -1}
           sure == {c \in answers : Control(At(c, Curve[c].clean.value))}
           best == IF sure # {} THEN sure ELSE answers
<1>1. Frontier.clean = IF best = {} THEN None ELSE At(Max(best), Curve[Max(best)].clean.value)
  <2> HIDE DEF Curve
  <2> QED  BY DEF Frontier, Summary
<1>2. best # {} /\ best \subseteq answers
  BY <1>1
<1> HIDE DEF best
<1>3. Max(best) \in best
  <2>1. best \in SUBSET Int /\ Contexts \in Int /\ \A c \in best : c <= Contexts
    BY <1>2, StopsAre, Sizes
  <2> QED  BY <1>2, <2>1, GreatestOf
<1>4. PICK c \in answers : Frontier.clean = At(c, Curve[c].clean.value)
  BY <1>1, <1>2, <1>3
<1>5. c \in stops /\ Curve[c].clean.resolved /\ Curve[c].clean.value # -1
  OBVIOUS
<1> HIDE DEF answers
<1>6. Cleans(c)
  <2>1. Curve[c].clean # Stuck(-1) /\ Curve[c].clean # Step(-1, {})
    BY <1>5, StepIs
  <2> QED  BY <1>5, <2>1, StateIs DEF Shows
<1>7. Curve[c].clean = CleanAt(c) /\ Curve[c].limit = LimitAt(c)
  BY <1>5, <1>6, StateIs DEF Shows
<1> QED  BY <1>4, <1>5, <1>6, <1>7, CleanAtSays

LEMMA FrontierClearIs ==
    ASSUME Typed, Frontier.clean # None
    PROVE  LET r == Frontier.clean
           IN  /\ Clean(r)
               /\ Frontier.next = {} /\ ~Errors => Control(r)
               /\ r.ngl = Curve[r.ctx].limit \/ Spills(At(r.ctx, r.ngl + 1))
<1>1. PICK c \in stops : /\ Cleans(c) /\ CleanAt(c).resolved /\ CleanAt(c).value \in Ngl
                         /\ Frontier.clean = At(c, CleanAt(c).value)
                         /\ Curve[c].clean = CleanAt(c) /\ Curve[c].limit = LimitAt(c)
  BY FrontierClear
<1> DEFINE r == Frontier.clean
<1>2. r = At(c, CleanAt(c).value) /\ r.ctx = c /\ r.ngl = CleanAt(c).value /\ Clean(r)
  <2>1. CleanAt(c).value # -1 /\ c \in Ctx
    BY <1>1, StopsAre, Sizes
  <2> QED  BY <1>1, <2>1, AtIs, CleanAtSays
<1>3. r.ngl = Curve[r.ctx].limit \/ Spills(At(r.ctx, r.ngl + 1))
  BY <1>1, <1>2, CleanAtSays DEF Spills
<1>4. Frontier.next = {} /\ ~Errors => Control(r)
  <2> SUFFICES ASSUME Frontier.next = {}, ~Errors PROVE Control(r)
    OBVIOUS
  <2>1. \A d \in stops : Curve[d].next = {}
    BY FrontierIs
  <2>2. CleanAt(c).value # -1
    BY <1>1, Sizes
  <2> QED  BY <1>1, <1>2, <2>1, <2>2, FrontierSettled
<1> QED  BY <1>2, <1>3, <1>4

LEMMA CleanIsSeenHere == Typed => CleanIsSeen
<1> SUFFICES ASSUME Typed, ProbeOutcome.clean # None
             PROVE  LET result == ProbeOutcome
                        r == result.clean
                    IN  /\ \A i \in DOMAIN history[r] : history[r][i].ok
                        /\ result.next = {} /\ mode # "custom" /\ ~Errors => Control(r)
                        /\ mode = "frontier" =>
                              r.ngl = Curve[r.ctx].limit \/ Spills(At(r.ctx, r.ngl + 1))
                        /\ mode = "keep_context" => r.ngl = NglMax \/ (listed /\ r = result.fit)
                                                      \/ Spills(At(r.ctx, r.ngl + 1))
                        /\ mode = "fixed_offload" => r.ctx = Contexts \/ (listed /\ r = result.fit)
                                                      \/ Spills(At(r.ctx + 1, r.ngl))
  BY DEF CleanIsSeen, Spills
<1> HIDE DEF ProbeOutcome
<1>1. CASE mode = "custom" /\ ProbeOutcome = Custom
  <2>1. Loaded(candidate)
    BY <1>1, OutcomeIs DEF Custom
  <2>2. Custom.clean = IF Clean(candidate) THEN candidate ELSE None
    BY <2>1, OutcomeIs DEF Custom
  <2>3. Clean(ProbeOutcome.clean)
    BY <1>1, <2>2
  <2> QED  BY <1>1, <2>3, CleanLoads
<1>2. CASE mode = "keep_context" /\ ProbeOutcome = KeepContext
  <2>1. KeepContext.clean # None
    BY <1>2
  <2> QED  BY <1>2, <2>1, KeepClear, CleanLoads
<1>3. CASE mode = "fixed_offload" /\ ProbeOutcome = FixedOffload
  <2>1. FixedOffload.clean # None
    BY <1>3
  <2> QED  BY <1>3, <2>1, OffloadClear, CleanLoads
<1>4. CASE mode = "frontier" /\ ProbeOutcome = Frontier
  <2>1. Frontier.clean # None
    BY <1>4
  <2> QED  BY <1>4, <2>1, FrontierClearIs, CleanLoads
<1> QED  BY <1>1, <1>2, <1>3, <1>4, OutcomeCases

LEMMA KeepEnds ==
    ASSUME Typed, ~Errors, listed, KeepContext.next = {}, KeepContext.fit = None
    PROVE  \E r \in Rung : Miss(r)
<1>1. \A p \in Ngl : KeepAxis[p] \in Rung /\ KeepAxis[p] # None
  BY KeepFound, NoneAssumption
<1>2. KeepFit.resolved => KeepFit.value = -1
  <2> SUFFICES ASSUME KeepFit.resolved, KeepFit.value # -1 PROVE FALSE
    OBVIOUS
  <2>1. KeepContext.fit = KeepFitting
    BY KeepIs, OutcomeIs DEF Answer
  <2>2. KeepFit.value \in Ngl
    BY KeepFound, Sizes
  <2>3. KeepFitting = KeepAxis[KeepFit.value]
    BY DEF KeepFitting, OnAxis
  <2> QED  BY <1>1, <2>1, <2>2, <2>3
<1>3. KeepFit.next = {}
  <2>1. KeepContext.next = {KeepAxis[p] : p \in KeepFit.next}
    <3>1. listed /\ (~KeepFit.resolved \/ KeepFit.value = -1)
      BY <1>2
    <3>2. KeepContext = Outcome({KeepAxis[p] : p \in KeepFit.next}, None, None)
      BY <3>1, KeepIs
    <3> QED  BY <3>2, OutcomeIs
  <2> QED  BY <2>1
<1> DEFINE c == candidate.ctx
<1>4. PICK lo \in -1..NglMax : \E hi \in (lo + 1)..(NglMax + 1) :
              FitFound(c, {c}, -1, KeepFit, lo, hi)
  BY KeepFound
<1>5. PICK hi \in (lo + 1)..(NglMax + 1) : FitFound(c, {c}, -1, KeepFit, lo, hi)
  BY <1>4
<1>6. KeepFit.resolved
  BY <1>3, <1>5, CandidateIs, NeverStuck
<1>7. hi = 0 /\ c \in Ctx
  BY <1>2, <1>5, <1>6, CandidateIs, Sizes DEF FitFound
<1>8. Miss(At(c, 0)) /\ 0 \in Ngl
  BY <1>5, <1>7, Sizes DEF FitFound
<1> QED  BY <1>7, <1>8, AtIs

LEMMA OffloadEnds ==
    ASSUME Typed, ~Errors, listed, FixedOffload.next = {}, FixedOffload.fit = None
    PROVE  \E r \in Rung : Miss(r)
<1>1. FirstMiss = Known + 1
  <2> SUFFICES ASSUME FirstMiss # Known + 1 PROVE FALSE
    OBVIOUS
  <2>1. Loaded(OffNext)
    BY OffloadIs, OutcomeIs
  <2>2. PICK p \in 0..(Contexts - 1) : OffNext = OffAxis[p] /\ Known < p /\ p < FirstMiss
    BY OffloadFound
  <2>3. Fit(OffAxis[p]) \/ Miss(OffAxis[p])
    BY <2>1, <2>2, OffloadFound, SaysSomething
  <2>4. p <= Known \/ FirstMiss <= p
    BY <2>2, <2>3, OffloadFound
  <2>5. p \in Int /\ Known \in Int /\ FirstMiss \in Int
    <3>1. Known \in -1..(Contexts - 1) /\ FirstMiss \in (Known + 1)..Contexts /\ Contexts \in Int
      BY OffloadFound, Sizes
    <3> QED  BY <2>2, <3>1
  <2> QED  BY <2>2, <2>4, <2>5
<1>2. Known = -1
  <2> SUFFICES ASSUME Known # -1 PROVE FALSE
    OBVIOUS
  <2>1. FixedOffload.fit = OffFitting
    BY <1>1, OffloadIs, OutcomeIs DEF Answer
  <2>2. Known \in 0..(Contexts - 1)
    BY OffloadFound, Sizes
  <2>3. OffFitting = OffAxis[Known] /\ OffAxis[Known] \in Rung
    BY <2>2, OffloadFound DEF OffFitting, OnAxis
  <2> QED  BY <2>1, <2>3, NoneAssumption
<1>3. FirstMiss = 0 /\ FirstMiss # Contexts /\ 0 \in 0..(Contexts - 1)
  BY <1>1, <1>2, Sizes
<1> QED  BY <1>3, OffloadFound

LEMMA EndsSettledHere == Typed => EndsSettled
<1> SUFFICES ASSUME Typed, Anchored, ~Errors, ProbeOutcome.next = {}
             PROVE  /\ mode = "frontier" =>
                         \A c \in stops : /\ Curve[c].settled
                                          /\ Curve[c].clean.value # -1 =>
                                                Control(At(c, Curve[c].clean.value))
                    /\ mode \in {"keep_context", "fixed_offload"} /\ listed
                         /\ ProbeOutcome.fit = None => \E r \in Rung : Miss(r)
  BY DEF EndsSettled
<1>1. ~Gated
  BY AnchoredIs
<1> HIDE DEF ProbeOutcome
<1>2. CASE mode = "custom"
  BY <1>2
<1>3. CASE mode = "keep_context" /\ ProbeOutcome = KeepContext
  <2>1. KeepContext.next = {}
    BY <1>3
  <2> QED  BY <1>3, <2>1, KeepEnds
<1>4. CASE mode = "fixed_offload" /\ ProbeOutcome = FixedOffload
  <2>1. FixedOffload.next = {}
    BY <1>4
  <2> QED  BY <1>4, <2>1, OffloadEnds
<1>5. CASE mode = "frontier" /\ ProbeOutcome = Frontier
  <2>1. \A c \in stops : Curve[c].next = {}
    BY <1>5, FrontierIs
  <2> QED  BY <1>5, <2>1, FrontierSettled
<1> QED  BY <1>1, <1>2, <1>3, <1>4, <1>5, OutcomeCases

(* What the ladder answers for target 1 was loaded without a spill, twice   *)
(* once the search is over, with spill seen right above it (cleanStep and   *)
(* the controls of frontierOutcome).                                        *)
THEOREM AnswersAreSeen == Spec => []CleanIsSeen
<1>1. LadderInv => CleanIsSeen
  BY TypedIs, CleanIsSeenHere DEF LadderInv
<1> QED  BY <1>1, LadderInit, LadderNext, PTL DEF Spec

(* A search with nothing left to load has settled every stop, or missed at  *)
(* all there was, unless a load failed for no reason (frontierOutcome,      *)
(* summarise).                                                              *)
THEOREM EndIsSettled == Spec => []EndsSettled
<1>1. LadderInv => EndsSettled
  BY TypedIs, EndsSettledHere DEF LadderInv
<1> QED  BY <1>1, LadderInit, LadderNext, PTL DEF Spec

-----------------------------------------------------------------------------
(* What a load leaves of the searches made so far. *)

FitFacts ==
    \A c \in stops :
       IF listed
       THEN \E lo \in -1..NglMax : \E hi \in (lo + 1)..(NglMax + 1) :
               FitFound(c, Ctx, CeilingAt(c), FitOf(c), lo, hi)
       ELSE FitOf(c).value = NglMax /\ FitOf(c).resolved

CleanSays(c) ==
    /\ CleanAt(c).value \in -1..LimitAt(c) /\ CleanAt(c).resolved \in BOOLEAN
    /\ CleanAt(c).value # -1 => Clean(At(c, CleanAt(c).value))
    /\ \A p \in 0..LimitAt(c) : Clean(At(c, p)) => p <= CleanAt(c).value
    /\ CleanAt(c).resolved <=>
          \/ CleanAt(c).value = LimitAt(c)
          \/ /\ Loaded(At(c, CleanAt(c).value + 1))
             /\ \A p \in {CleanAt(c).value + 2, CleanAt(c).value + 3} :
                   p <= LimitAt(c) => Loaded(At(c, p))
CleanFacts ==
    \A c \in stops : Cleans(c) =>
       /\ CleanSays(c)
       /\ Curve[c].fit = Shown(c) /\ Curve[c].clean = CleanAt(c) /\ ~Curve[c].nothing
       /\ Curve[c].settled = CleanAt(c).resolved

LEMMA FitFactsHold == Typed => FitFacts
  BY CurvePlaced, FitOfIs DEF FitFacts

LEMMA CleanFactsHold == Typed => CleanFacts
<1> SUFFICES ASSUME Typed, NEW c \in stops, Cleans(c)
             PROVE  /\ CleanSays(c)
                    /\ Curve[c].fit = Shown(c) /\ Curve[c].clean = CleanAt(c) /\ ~Curve[c].nothing
                    /\ Curve[c].settled = CleanAt(c).resolved
  BY DEF CleanFacts
<1>1. CleanSays(c)
  BY CleanAtSays DEF CleanSays
<1> QED  BY <1>1, StateIs DEF Shows

LEMMA FactsStay == Typed' => FitFacts' /\ CleanFacts'
  BY FitFactsHold, CleanFactsHold, PTL

(* A step leaves the history as it is, or adds a load of what was next.     *)
Grows ==
    /\ UNCHANGED input /\ Typed'
    /\ \A q \in Rung : \/ history'[q] = history[q]
                       \/ /\ q \in ProbeOutcome.next
                          /\ \E a \in Attempt : history'[q] = Append(history[q], a)

LEMMA StepsGrow ==
    ASSUME Typed, [Next]_vars
    PROVE  Grows
<1>1. UNCHANGED input
  BY StepsAre
<1>2. CASE UNCHANGED history
  <2>1. Typed'
    BY <1>1, <1>2 DEF Typed, input
  <2> QED  BY <1>1, <1>2, <2>1 DEF Grows
<1>3. ASSUME NEW r \in ProbeOutcome.next, NEW a \in Attempt, r \in Rung, Record(r, a)
      PROVE  Grows
  <2>1. history' \in [Rung -> Seq(Attempt)] /\ history'[r] = Append(history[r], a)
        /\ \A q \in Rung : q # r => history'[q] = history[q]
    BY <1>3, RecordIs
  <2>2. Typed'
    BY <1>1, <2>1 DEF Typed, input
  <2> QED  BY <1>1, <1>3, <2>1, <2>2 DEF Grows
<1> QED  BY <1>2, <1>3, StepsAre

LEMMA Lasting ==
    ASSUME Typed, Grows, NEW q \in Rung
    PROVE  /\ Loaded(q) => Loaded(q)' /\ (Clean(q)' => Clean(q))
           /\ Fit(q) => Fit(q)'
           /\ Miss(q) => Miss(q)'
           /\ Control(q) => Control(q)'
           /\ history'[q] = history[q] => /\ Loaded(q)' <=> Loaded(q)
                                          /\ Clean(q)' <=> Clean(q)
                                          /\ Fit(q)' <=> Fit(q)
<1>1. history[q] \in Seq(Attempt)
  BY LoadedIs
<1>2. CASE history'[q] = history[q]
  <2>1. /\ Loaded(q)' <=> Loaded(q)
        /\ Clean(q)' <=> Clean(q)
        /\ Control(q)' <=> Control(q)
    BY <1>2 DEF Loaded, Clean, Control
  <2>2. Conclusive(q)' = Conclusive(q)
    BY <1>2 DEF Conclusive
  <2> QED  BY <2>1, <2>2 DEF Fit, Miss
<1>3. ASSUME NEW a \in Attempt, history'[q] = Append(history[q], a)
      PROVE  /\ Loaded(q) => Loaded(q)' /\ (Clean(q)' => Clean(q))
             /\ Fit(q) => Fit(q)'
             /\ Miss(q) => Miss(q)'
             /\ Control(q) => Control(q)'
             /\ history'[q] # history[q]
  <2>1. /\ Len(history'[q]) = Len(history[q]) + 1 /\ Len(history[q]) \in Nat
        /\ DOMAIN history'[q] = 1..(Len(history[q]) + 1) /\ DOMAIN history[q] = 1..Len(history[q])
        /\ \A i \in DOMAIN history[q] : i \in DOMAIN history'[q] /\ history'[q][i] = history[q][i]
    BY <1>1, <1>3
  <2>2. Conclusive(q) \subseteq Conclusive(q)'
    BY <2>1 DEF Conclusive
  <2>3. Clean(q)' /\ Loaded(q) => Clean(q)
    BY <2>1 DEF Clean
  <2> QED  BY <1>1, <1>3, <2>1, <2>2, <2>3 DEF Loaded, Control, Fit, Miss
<1> QED  BY <1>2, <1>3 DEF Grows

(* Target 2 falls from stop to stop. *)
LEMMA FitFalls ==
    ASSUME Typed, Given, Capped, Plan # 0, listed
    PROVE  \A c \in stops : Opened(c) =>
              \A d \in stops : d < c =>
                 /\ FitOf(c).value <= FitOf(d).value
                 /\ \A n \in FitOf(c).next : n <= FitOf(d).value
<1> DEFINE Falls(c) == Opened(c) =>
              \A d \in stops : d < c =>
                 /\ FitOf(c).value <= FitOf(d).value
                 /\ \A n \in FitOf(c).next : n <= FitOf(d).value
           S == {c \in stops : Falls(c)}
<1>1. ASSUME NEW c \in stops, Below(c) = -1 \/ Below(c) \in S PROVE c \in S
  <2> SUFFICES ASSUME Opened(c), NEW d \in stops, d < c
               PROVE  /\ FitOf(c).value <= FitOf(d).value
                      /\ \A n \in FitOf(c).next : n <= FitOf(d).value
    OBVIOUS
  <2> DEFINE b == Below(c)
  <2>1. b # -1 /\ b \in S /\ d <= b /\ b \in stops /\ ~Root(c) /\ b \in Int /\ d \in Int
    BY <1>1, BelowIs DEF Root
  <2>2. Cleans(b) /\ Opened(b) /\ Beneath(c).fit.value = FitOf(b).value
    BY <2>1, OpenedBelow DEF Shown, Cleans
  <2>3. PICK lo \in -1..NglMax : \E hi \in (lo + 1)..(NglMax + 1) :
                FitFound(c, Ctx, CeilingAt(c), FitOf(c), lo, hi)
    BY CurvePlaced, FitOfIs
  <2>4. PICK hi \in (lo + 1)..(NglMax + 1) : FitFound(c, Ctx, CeilingAt(c), FitOf(c), lo, hi)
    BY <2>3
  <2>5. lo <= FitOf(b).value /\ hi <= FitOf(b).value + 1
    BY <2>1, <2>2, <2>4, CeilingHolds
  <2>6. FitOf(b).value \in Int /\ FitOf(d).value \in Int /\ lo \in Int /\ hi \in Int
    <3>1. FitOf(b).value \in -1..NglMax /\ FitOf(d).value \in -1..NglMax
      BY <2>1, CurvePlaced, FitOfIs
    <3> QED  BY <3>1, Sizes
  <2>7. FitOf(b).value <= FitOf(d).value
    <3>1. d = b \/ d < b
      BY <2>1
    <3> QED  BY <2>1, <2>2, <2>6, <3>1
  <2>8. FitOf(c).value = lo /\ \A n \in FitOf(c).next : n \in (lo + 1)..(hi - 1)
    BY <2>4 DEF FitFound
  <2> HIDE DEF b
  <2> QED  BY <2>5, <2>6, <2>7, <2>8
<1>2. S \in SUBSET stops
  OBVIOUS
<1> HIDE DEF S
<1>3. S = stops
  BY <1>1, <1>2, StopsInduct
<1> QED  BY <1>3 DEF S

(* Where the next load is, when target 1 is being settled at d or above: at *)
(* most where target 2 was settled, and never again at the stop below.      *)
LEMMA NextWhere ==
    ASSUME Typed, Given, Capped, Plan # 0, NEW d \in stops, Cleans(d),
           NEW r \in Frontier.next
    PROVE  /\ r \in Rung
           /\ listed /\ r.ctx >= d => r.ngl <= FitOf(d).value
           /\ ~Root(d) => r.ctx # Below(d)
           /\ r.ctx = d /\ ~Loaded(r) => r.ngl \in CleanAt(d).next
<1>1. PICK x \in stops : r \in Curve[x].next
  BY FrontierIs
<1>2. r \in Rung /\ r.ctx \in Ctx /\ x \in Ctx /\ x \in Int /\ d \in Ctx /\ d \in Int
  BY <1>1, CurvePlaced, RungIs, StopsAre
<1>3. Opened(d) /\ FitOf(d).resolved /\ Pending(d) = {}
  BY DEF Cleans
<1>4. FitOf(d).value \in Int /\ FitOf(x).value \in Int /\ (Root(x) \/ Placed(Beneath(x)))
  <2>1. FitOf(d).value \in -1..NglMax /\ FitOf(x).value \in -1..NglMax
    BY <1>1, CurvePlaced, FitOfIs
  <2> QED  BY <1>1, <2>1, Sizes, CurvePlaced
<1>5. ~Root(d) => Below(d) \in stops /\ Below(d) < d /\ Cleans(Below(d))
                  /\ CleanAt(Below(d)).resolved /\ Below(d) # Max(stops)
  <2>1. Max(stops) >= d
    <3>1. stops \in SUBSET Int /\ stops # {} /\ Contexts \in Int /\ \A e \in stops : e <= Contexts
      BY StopsAre, Sizes
    <3> QED  BY <3>1, GreatestOf
  <2>2. ~Root(d) => Below(d) \in stops /\ Below(d) < d /\ Cleans(Below(d))
                    /\ CleanAt(Below(d)).resolved
    BY <1>3, OpenedBelow
  <2>3. ~Root(d) => Below(d) \in Int
    BY BelowIs
  <2> QED  BY <1>2, <2>1, <2>2, <2>3
<1>6. CASE Waits(x) \/ Empty(x)
  BY <1>1, <1>6, StateIs DEF Shows
<1>7. CASE Fits(x)
  <2>1. r \in FitRungs(x) /\ Opened(x)
    BY <1>1, <1>7, StateIs DEF Shows, Fits
  <2>2. r.ctx = x /\ r.ngl \in FitOf(x).next
    BY <1>4, <2>1, FitOfIs
  <2>3. x # d /\ (~Root(d) => x # Below(d))
    BY <1>5, <1>7 DEF Fits, Cleans
  <2>4. listed /\ x > d => r.ngl <= FitOf(d).value
    BY <2>1, <2>2, FitFalls
  <2> QED  BY <1>2, <2>2, <2>3, <2>4
<1>8. CASE Controls(x)
  <2> DEFINE b == Below(x)
  <2>1. r \in Pending(x) /\ Opened(x)
    BY <1>1, <1>8, StateIs DEF Shows, Controls
  <2>2. AnswerBelow(x) # -1 /\ ~Root(x) /\ r = At(b, AnswerBelow(x))
    BY <2>1 DEF Pending, ToControl, AnswerBelow
  <2>3. b \in stops /\ b < x /\ Cleans(b) /\ AnswerBelow(x) = CleanAt(b).value /\ b \in Ctx /\ b \in Int
    BY <1>1, <2>1, <2>2, OpenedBelow, StopsAre
  <2>4. r.ctx = b /\ r.ngl = CleanAt(b).value /\ Loaded(r)
    <3>1. CleanAt(b).value \in Ngl /\ Clean(At(b, CleanAt(b).value))
      BY <2>2, <2>3, CleanAtSays
    <3> HIDE DEF b
    <3> QED  BY <2>2, <2>3, <3>1, AtIs DEF Clean
  <2>5. r.ngl <= FitOf(b).value /\ FitOf(b).value \in Int /\ r.ngl \in Int
    <3>1. LimitAt(b) <= FitOf(b).value /\ LimitAt(b) \in Int /\ CleanAt(b).value \in -1..LimitAt(b)
      BY <2>3, CurvePlaced, LimitIs, CleanAtSays
    <3>2. FitOf(b).value \in -1..NglMax
      BY <2>3, CurvePlaced, FitOfIs
    <3> HIDE DEF b
    <3> QED  BY <2>4, <3>1, <3>2, Sizes
  <2>6. listed /\ b >= d => r.ngl <= FitOf(d).value
    <3>1. b = d \/ b > d \/ b < d
      BY <1>2, <2>3
    <3>2. listed /\ b > d => FitOf(b).value <= FitOf(d).value
      BY <2>3, FitFalls DEF Cleans
    <3> HIDE DEF b
    <3> QED  BY <1>2, <1>4, <2>3, <2>5, <3>1, <3>2
  <2>7. ~Root(d) => b # Below(d)
    <3> SUFFICES ASSUME ~Root(d), b = Below(d) PROVE FALSE
      OBVIOUS
    <3>1. x < d => x <= Below(d)
      BY <1>1, BelowIs
    <3>2. d < x => d <= b
      BY <1>1, BelowIs
    <3>3. x = d
      BY <1>2, <1>5, <2>3, <3>1, <3>2
    <3> QED  BY <1>3, <1>8, <3>3 DEF Controls
  <2> QED  BY <1>2, <2>4, <2>6, <2>7
<1>9. CASE Cleans(x)
  <2>1. r \in LastNext(x)
    BY <1>1, <1>9, StateIs DEF Shows
  <2>2. \/ ~CleanAt(x).resolved /\ \E p \in CleanAt(x).next : r = At(x, p)
        \/ /\ CleanAt(x).resolved /\ x = Max(stops) /\ CleanAt(x).value # -1
           /\ r = At(x, CleanAt(x).value)
    BY <2>1 DEF LastNext, ToControl
  <2>3. /\ LimitAt(x) <= FitOf(x).value /\ LimitAt(x) \in Int
        /\ CleanAt(x).value \in -1..LimitAt(x)
        /\ \A p \in CleanAt(x).next : p \in 0..LimitAt(x)
    BY <1>1, <1>4, LimitIs, CleanAtSays
  <2>4. r.ctx = x /\ r.ngl <= FitOf(x).value /\ r.ngl \in Int
    BY <1>4, <2>2, <2>3 DEF At
  <2>5. listed /\ x >= d => r.ngl <= FitOf(d).value
    <3>1. x = d \/ x > d \/ x < d
      BY <1>2
    <3>2. listed /\ x > d => FitOf(x).value <= FitOf(d).value
      BY <1>1, <1>9, FitFalls DEF Cleans
    <3> QED  BY <1>2, <1>4, <2>4, <3>1, <3>2
  <2>6. ~Root(d) => x # Below(d)
    BY <1>5, <2>2
  <2>7. x = d /\ ~Loaded(r) => r.ngl \in CleanAt(d).next
    <3> SUFFICES ASSUME x = d, ~Loaded(r) PROVE r.ngl \in CleanAt(d).next
      OBVIOUS
    <3>1. CASE \E p \in CleanAt(x).next : r = At(x, p)
      BY <3>1 DEF At
    <3>2. CASE CleanAt(x).value # -1 /\ r = At(x, CleanAt(x).value)
      <4>1. Clean(r)
        BY <1>1, <3>2, CleanAtSays
      <4> QED  BY <4>1 DEF Clean
    <3> QED  BY <2>2, <3>1, <3>2
  <2> QED  BY <1>2, <2>4, <2>5, <2>6, <2>7
<1> QED  BY <1>1, <1>6, <1>7, <1>8, <1>9, StateIs

LEMMA InputStays ==
    ASSUME UNCHANGED input
    PROVE  /\ stops' = stops /\ listed' = listed /\ mode' = mode
           /\ \A c \in stops : /\ Below(c)' = Below(c) /\ CapAt(c)' = CapAt(c)
                               /\ Root(c)' <=> Root(c)
<1>1. stops' = stops /\ listed' = listed /\ mode' = mode /\ planned' = planned /\ cap' = cap
  BY DEF input
<1>2. ASSUME NEW c \in stops PROVE Below(c)' = Below(c) /\ CapAt(c)' = CapAt(c)
  BY <1>1 DEF Below, CapAt
<1> QED  BY <1>1, <1>2 DEF Root

(* Target 1 of the stop below is what it was: nothing is loaded there.      *)
LEMMA StaysBelow ==
    ASSUME Typed, Given, Capped, Plan # 0, Grows, ProbeOutcome = Frontier,
           NEW d \in stops, NEW b \in stops, b = Below(d), ~Root(d), Cleans(d),
           Cleans(b)', LimitAt(b)' = LimitAt(b)
    PROVE  (CleanAt(b).value)' = CleanAt(b).value /\ (CleanAt(b).resolved)'
<1>1. Typed' /\ UNCHANGED input
  BY DEF Grows
<1>2. CleanSays(b)' /\ CleanSays(b)
  <2>1. FitFacts' /\ CleanFacts'
    BY <1>1, FactsStay
  <2>2. b \in stops'
    BY <1>1, InputStays
  <2>3. CleanSays(b)'
    BY <2>1, <2>2 DEF CleanFacts
  <2>4. CleanSays(b)
    BY CleanAtSays DEF CleanSays
  <2> QED  BY <2>3, <2>4
<1>3. b \in Ctx /\ LimitAt(b) \in -1..NglMax /\ LimitAt(b) \in Int
  BY StopsAre, CleanAtSays
<1>4. \A p \in Ngl : (Clean(At(b, p))' <=> Clean(At(b, p))) /\ (Loaded(At(b, p))' <=> Loaded(At(b, p)))
  <2> TAKE p \in Ngl
  <2>1. PICK q \in Rung : q = At(b, p) /\ q.ctx = b
    BY <1>3, AtIs
  <2>2. q \notin ProbeOutcome.next
    BY <2>1, NextWhere
  <2>3. history'[q] = history[q]
    BY <2>2 DEF Grows
  <2>4. (Clean(q)' <=> Clean(q)) /\ (Loaded(q)' <=> Loaded(q))
    BY <2>3, Lasting
  <2> QED  BY <2>1, <2>4 DEF Clean, Loaded
<1>5. CleanAt(b).resolved
  BY OpenedBelow DEF Cleans
<1>w. PICK w : w = (CleanAt(b).value)'
  OBVIOUS
<1>v. PICK v : v = CleanAt(b).value
  OBVIOUS
<1>l. PICK l : l = LimitAt(b)
  OBVIOUS
<1>6. /\ v \in -1..l /\ w \in -1..l
      /\ v # -1 => Clean(At(b, v))
      /\ w # -1 => Clean(At(b, w))'
      /\ \A p \in 0..l : Clean(At(b, p)) => p <= v
      /\ \A p \in 0..l : Clean(At(b, p))' => p <= w
      /\ v = l \/ (Loaded(At(b, v + 1)) /\ \A p \in {v + 2, v + 3} : p <= l => Loaded(At(b, p)))
      /\ (CleanAt(b).resolved)' <=>
            w = l \/ (Loaded(At(b, w + 1))' /\ \A p \in {w + 2, w + 3} : p <= l => Loaded(At(b, p))')
  BY <1>2, <1>5, <1>v, <1>w, <1>l DEF CleanSays
<1>7. l \in Int /\ \A p \in 0..l : p \in Ngl
  BY <1>3, <1>l, Sizes
<1>8. v \in Int /\ w \in Int /\ (v # -1 => v \in 0..l) /\ (w # -1 => w \in 0..l)
  BY <1>6, <1>7
<1>9. v = w
  <2>1. v # -1 => v <= w
    BY <1>4, <1>6, <1>7, <1>8
  <2>2. w # -1 => w <= v
    BY <1>4, <1>6, <1>7, <1>8
  <2> QED  BY <1>6, <1>7, <2>1, <2>2
<1>10. \A p \in {v + 1, v + 2, v + 3} : p <= l => p \in Ngl
  BY <1>6, <1>7
<1>11. v # l => v + 1 <= l
  BY <1>6, <1>7
<1>12. (CleanAt(b).resolved)'
  BY <1>4, <1>6, <1>9, <1>10, <1>11
<1> QED  BY <1>9, <1>12, <1>v, <1>w

(* So the stop itself starts from what it started from.                     *)
LEMMA StaysOpen ==
    ASSUME Typed, Given, Capped, Plan # 0, Grows, ProbeOutcome = Frontier,
           NEW d \in stops, NEW b \in stops, b = Below(d), ~Root(d), Cleans(d),
           Cleans(b)', LimitAt(b)' = LimitAt(b), (FitOf(b).value)' = FitOf(b).value
    PROVE  /\ Opened(d)' /\ Pending(d)' = {}
           /\ AnswerBelow(d)' = AnswerBelow(d) /\ CeilingAt(d)' = CeilingAt(d)
<1>1. Typed' /\ UNCHANGED input
  BY DEF Grows
<1>2. b \in stops' /\ stops' = stops /\ Below(d)' = b /\ listed' = listed
      /\ CapAt(d)' = CapAt(d) /\ ~Root(d)'
  BY <1>1, InputStays
<1>3. FitFacts' /\ CleanFacts'
  BY <1>1, FactsStay
<1>4. (CleanAt(b).value)' = CleanAt(b).value /\ (CleanAt(b).resolved)'
  BY StaysBelow
<1>5. /\ Curve[b]'.fit = Shown(b)' /\ Curve[b]'.clean = CleanAt(b)' /\ ~Curve[b]'.nothing
      /\ Curve[b]'.settled = CleanAt(b)'.resolved
  BY <1>2, <1>3 DEF CleanFacts
<1>6. /\ Opened(d) /\ Pending(d) = {} /\ Beneath(d) = Curve[b] /\ Beneath(d)' = Curve[b]'
      /\ Beneath(d).fit = Shown(b) /\ AnswerBelow(d) = CleanAt(b).value
  <2>1. Opened(d) /\ Pending(d) = {} /\ Beneath(d) = Curve[b]
    BY DEF Cleans, Beneath
  <2>2. Beneath(d)' = Curve[b]'
    BY <1>2 DEF Beneath
  <2> QED  BY <2>1, <2>2, OpenedBelow
<1>7. Opened(d)'
  BY <1>4, <1>5, <1>6 DEF Opened
<1>8. AnswerBelow(d)' = AnswerBelow(d)
  BY <1>2, <1>4, <1>5, <1>6 DEF AnswerBelow
<1>9. (Shown(b).value)' = Shown(b).value
  BY <1>2, StepIs DEF Shown
<1>10. CeilingAt(d)' = CeilingAt(d)
  BY <1>2, <1>5, <1>6, <1>9 DEF CeilingAt
<1>11. Pending(d)' = {}
  <2>1. PICK v : v = AnswerBelow(d)
    OBVIOUS
  <2>2. CASE v = -1
    BY <1>8, <2>1, <2>2 DEF Pending
  <2>3. CASE v # -1
    <3>1. v \in Ngl /\ b \in Ctx
      BY <1>6, <2>1, <2>3, CleanAtSays, StopsAre
    <3>2. PICK q \in Rung : q = At(b, v)
      BY <3>1, AtIs
    <3>3. q # None
      BY NoneAssumption
    <3>4. Control(q)
      BY <1>6, <2>1, <2>3, <3>2, <3>3 DEF Pending, ToControl
    <3>5. Control(q)'
      BY <3>4, Lasting
    <3>6. Pending(d)' = (ToControl(q))'
      BY <1>2, <1>8, <2>1, <2>3, <3>2 DEF Pending
    <3> QED  BY <3>5, <3>6 DEF ToControl
  <2> QED  BY <2>2, <2>3
<1> QED  BY <1>7, <1>8, <1>10, <1>11

(* ... and its target 2 is settled where it was.                            *)
LEMMA StaysFit ==
    ASSUME Typed, Given, Capped, Plan # 0, Grows, ProbeOutcome = Frontier,
           NEW d \in stops, Cleans(d), CeilingAt(d)' = CeilingAt(d)
    PROVE  (FitOf(d).value)' = FitOf(d).value /\ (FitOf(d).resolved)'
<1>1. Typed' /\ UNCHANGED input
  BY DEF Grows
<1>2. d \in stops' /\ listed' = listed /\ d \in Ctx /\ d \in Int /\ NglMax \in Int
      /\ Ctx \subseteq Int /\ Ngl = 0..NglMax
  BY <1>1, InputStays, StopsAre, Sizes
<1>3. FitFacts /\ FitFacts'
  BY <1>1, FactsStay, FitFactsHold
<1>4. FitOf(d).resolved
  BY DEF Cleans
<1>5. CASE ~listed
  BY <1>2, <1>3, <1>5 DEF FitFacts
<1>6. CASE listed
  <2>1. PICK c : c = CeilingAt(d)
    OBVIOUS
  <2>2. PICK lo \in -1..NglMax : \E hi \in (lo + 1)..(NglMax + 1) :
                FitFound(d, Ctx, CeilingAt(d), FitOf(d), lo, hi)
    BY <1>3, <1>6 DEF FitFacts
  <2>3. PICK hi \in (lo + 1)..(NglMax + 1) : FitFound(d, Ctx, CeilingAt(d), FitOf(d), lo, hi)
    BY <2>2
  <2>4. /\ FitOf(d).value = lo /\ hi = lo + 1
        /\ lo = -1 \/ (lo \in Ngl /\ \E e \in Ctx : e >= d /\ Fit(At(e, lo)))
        /\ \A n \in Ngl : (\E e \in Ctx : e >= d /\ Fit(At(e, n))) => n <= lo
        /\ \/ hi = NglMax + 1
           \/ c # -1 /\ hi = c + 1
           \/ hi \in Ngl /\ \E e \in Ctx : e <= d /\ Miss(At(e, hi))
    BY <1>4, <2>1, <2>3 DEF FitFound
  <2>5. \E l \in -1..NglMax : \E h \in (l + 1)..(NglMax + 1) :
                (FitFound(d, Ctx, CeilingAt(d), FitOf(d), l, h))'
    BY <1>2, <1>3, <1>6 DEF FitFacts
  <2>6. PICK l \in -1..NglMax : \E h \in (l + 1)..(NglMax + 1) :
                (FitFound(d, Ctx, CeilingAt(d), FitOf(d), l, h))'
    BY <2>5
  <2>7. PICK h \in (l + 1)..(NglMax + 1) : (FitFound(d, Ctx, CeilingAt(d), FitOf(d), l, h))'
    BY <2>6
  <2>8. /\ (FitOf(d).value)' = l /\ ((FitOf(d).resolved)' <=> h = l + 1)
        /\ l = -1 \/ (l \in Ngl /\ \E e \in Ctx : e >= d /\ Fit(At(e, l))')
        /\ \A n \in Ngl : (\E e \in Ctx : e >= d /\ Fit(At(e, n))') => n <= l
        /\ \A n \in Ngl : n > l /\ (\E e \in Ctx : e <= d /\ Miss(At(e, n))') => h <= n
        /\ c # -1 /\ c + 1 > l => h <= c + 1
    BY <2>1, <2>7 DEF FitFound
  <2>9. \A e \in Ctx, n \in Ngl :
           /\ Fit(At(e, n)) => Fit(At(e, n))'
           /\ Miss(At(e, n)) => Miss(At(e, n))'
           /\ e >= d /\ Fit(At(e, n))' => Fit(At(e, n)) \/ n <= lo
    <3> TAKE e \in Ctx, n \in Ngl
    <3>1. PICK q \in Rung : q = At(e, n) /\ q.ctx = e /\ q.ngl = n
      BY AtIs
    <3>2. e >= d /\ Fit(q)' /\ history'[q] # history[q] => n <= lo
      <4> SUFFICES ASSUME e >= d, history'[q] # history[q] PROVE n <= lo
        OBVIOUS
      <4>1. q \in Frontier.next
        BY DEF Grows
      <4> QED  BY <1>6, <2>4, <3>1, <4>1, NextWhere
    <3>3. (Fit(q) => Fit(q)') /\ (Miss(q) => Miss(q)')
          /\ (history'[q] = history[q] => (Fit(q)' <=> Fit(q)))
      BY Lasting
    <3>4. (Fit(At(e, n))' <=> Fit(q)') /\ (Miss(At(e, n))' <=> Miss(q)')
      BY <3>1 DEF Fit, Miss, Conclusive
    <3> QED  BY <3>1, <3>2, <3>3, <3>4
  <2>10. lo <= l
    BY <1>2, <2>4, <2>8, <2>9
  <2>11. l <= lo
    BY <1>2, <2>4, <2>8, <2>9
  <2>12. lo = l /\ lo \in Int /\ h \in Int
    BY <1>2, <2>10, <2>11
  <2>13. h <= lo + 1
    <3>1. CASE hi = NglMax + 1
      BY <1>2, <2>4, <2>12, <3>1
    <3>2. CASE c # -1 /\ hi = c + 1
      <4>1. c \in Int
        BY <1>1, <2>1, CurvePlaced, FitOfIs, Sizes
      <4> QED  BY <1>2, <2>4, <2>8, <2>12, <3>2, <4>1
    <3>3. CASE hi \in Ngl /\ \E e \in Ctx : e <= d /\ Miss(At(e, hi))
      <4>1. \E e \in Ctx : e <= d /\ Miss(At(e, hi))'
        BY <2>9, <3>3
      <4>2. hi > l
        BY <1>2, <2>4, <2>12
      <4>3. h <= hi
        BY <2>8, <3>3, <4>1, <4>2
      <4> QED  BY <2>4, <4>3
    <3> QED  BY <2>4, <3>1, <3>2, <3>3
  <2>14. h = l + 1
    BY <1>2, <2>12, <2>13
  <2> QED  BY <2>4, <2>8, <2>12, <2>14
<1> QED  BY <1>5, <1>6

Stays(d) == Cleans(d)' /\ LimitAt(d)' = LimitAt(d) /\ (FitOf(d).value)' = FitOf(d).value

LEMMA StaysAt ==
    ASSUME Typed, Given, Capped, Plan # 0, Grows, ProbeOutcome = Frontier,
           NEW d \in stops, Cleans(d), Root(d) \/ \E b \in stops : b = Below(d) /\ Stays(b)
    PROVE  Stays(d)
<1>1. Typed' /\ UNCHANGED input
  BY DEF Grows
<1>2. /\ d \in stops' /\ Below(d)' = Below(d) /\ CapAt(d)' = CapAt(d)
      /\ Root(d)' <=> Root(d)
  BY <1>1, InputStays
<1>3. FitOf(d).value # -1
  BY DEF Cleans
<1>4. /\ Opened(d)' /\ Pending(d)' = {}
      /\ AnswerBelow(d)' = AnswerBelow(d) /\ CeilingAt(d)' = CeilingAt(d)
  <2>1. CASE Root(d)
    <3>1. Opened(d)' /\ AnswerBelow(d)' = -1 /\ AnswerBelow(d) = -1
      BY <1>2, <2>1 DEF Opened, AnswerBelow
    <3>2. CeilingAt(d)' = MinOf({-1, CapAt(d)}) /\ CeilingAt(d) = MinOf({-1, CapAt(d)})
      BY <1>2, <2>1 DEF CeilingAt, MinOf
    <3> QED  BY <3>1, <3>2 DEF Pending
  <2>2. CASE ~Root(d)
    <3>1. PICK b \in stops : b = Below(d) /\ Stays(b)
      BY <2>2
    <3>2. Cleans(b)' /\ LimitAt(b)' = LimitAt(b) /\ (FitOf(b).value)' = FitOf(b).value
      BY <3>1 DEF Stays
    <3> QED  BY <2>2, <3>1, <3>2, StaysOpen
  <2> QED  BY <2>1, <2>2
<1>5. (FitOf(d).value)' = FitOf(d).value /\ (FitOf(d).resolved)'
  BY <1>4, StaysFit
<1>6. Cleans(d)'
  BY <1>3, <1>4, <1>5 DEF Cleans
<1>7. LimitAt(d)' = LimitAt(d)
  BY <1>2, <1>4, <1>5 DEF LimitAt
<1> QED  BY <1>5, <1>6, <1>7 DEF Stays

(* A load moves no search of target 1 that has begun.                       *)
LEMMA SearchStays ==
    ASSUME Typed, Given, Capped, Plan # 0, Grows, ProbeOutcome = Frontier
    PROVE  \A d \in stops : Cleans(d) => Stays(d)
<1> DEFINE S == {d \in stops : Cleans(d) => Stays(d)}
<1>1. ASSUME NEW d \in stops, Below(d) = -1 \/ Below(d) \in S PROVE d \in S
  <2> SUFFICES ASSUME Cleans(d) PROVE Stays(d)
    OBVIOUS
  <2>1. CASE Root(d)
    BY <2>1, StaysAt
  <2>2. CASE ~Root(d)
    <3>1. PICK b \in S : b = Below(d)
      BY <1>1, <2>2 DEF Root
    <3>2. Cleans(b)
      BY <2>2, <3>1, OpenedBelow DEF Cleans
    <3>3. b \in stops /\ Stays(b)
      BY <3>1, <3>2
    <3> HIDE DEF S
    <3> QED  BY <3>1, <3>3, StaysAt
  <2> QED  BY <2>1, <2>2
<1>2. S \in SUBSET stops
  OBVIOUS
<1> HIDE DEF S
<1>3. S = stops
  BY <1>1, <1>2, StopsInduct
<1> QED  BY <1>3 DEF S

(* Above n layers the search of target 1 at b has nothing left to find: it  *)
(* has its answer v below, and spill, or a load, on every placement above   *)
(* that it could still go to.                                               *)
OutOfReach(b, n) ==
    /\ Cleans(b)
    /\ \E v \in -1..LimitAt(b) :
          /\ v < n
          /\ \A p \in 0..LimitAt(b) : /\ p > v => ~Clean(At(b, p))
                                      /\ p \in {v + 1, v + 2, v + 3} => Loaded(At(b, p))
Flagged(r) == \E i \in DOMAIN history[r] : history[r][i].only
Unclaimed(c, n) == ~Gated /\ \E b \in stops : b = Below(c) /\ OutOfReach(b, n)
OnlyInv == mode = "frontier" => \A c \in stops, n \in Ngl : Flagged(At(c, n)) => Unclaimed(c, n)

(* What was out of reach stays so ...                                       *)
LEMMA ReachStays ==
    ASSUME Typed, Given, Capped, Plan # 0, Grows, mode = "frontier",
           NEW c \in stops, NEW n \in Ngl, Unclaimed(c, n)
    PROVE  Unclaimed(c, n)'
<1>1. Typed' /\ UNCHANGED input
  BY DEF Grows
<1>2. ProbeOutcome = Frontier /\ ~Gated
  BY OutcomeCases DEF Unclaimed
<1>3. ~Gated'
  <2>1. Len(history[Anchor]) >= 2 /\ Anchor \in Rung
    BY <1>2, AnchorIs DEF Gated, Control
  <2>2. history'[Anchor] = history[Anchor]
    <3>1. Anchor \notin ProbeOutcome.next
      BY <2>1, NextIsNew, LoadedIs
    <3> QED  BY <2>1, <3>1 DEF Grows
  <2> QED  BY <1>2, <2>2 DEF Gated, Control
<1>4. PICK b \in stops : b = Below(c) /\ OutOfReach(b, n)
  BY DEF Unclaimed
<1>5. /\ b \in stops' /\ b = Below(c)' /\ b \in Ctx
  BY <1>1, <1>4, InputStays, StopsAre
<1>6. Cleans(b) /\ Cleans(b)' /\ LimitAt(b)' = LimitAt(b)
  BY <1>2, <1>4, SearchStays DEF OutOfReach, Stays
<1>7. PICK v \in -1..LimitAt(b) :
          /\ v < n
          /\ \A p \in 0..LimitAt(b) : /\ p > v => ~Clean(At(b, p))
                                      /\ p \in {v + 1, v + 2, v + 3} => Loaded(At(b, p))
  BY <1>4 DEF OutOfReach
<1>8. /\ LimitAt(b) \in Int /\ v \in Int /\ CleanAt(b).value \in -1..LimitAt(b)
      /\ \A p \in 0..LimitAt(b) : p \in Ngl
      /\ CleanAt(b).value # -1 => Clean(At(b, CleanAt(b).value))
      /\ \A p \in CleanAt(b).next, q \in 0..LimitAt(b) :
            q > CleanAt(b).value /\ Loaded(At(b, q)) => p <= q \/ p <= CleanAt(b).value + 3
  BY CleanAtSays
<1>9. CleanAt(b).value <= v
  BY <1>7, <1>8
<1>10. ASSUME NEW p \in 0..LimitAt(b)
       PROVE  /\ p > v => ~Clean(At(b, p))'
              /\ p \in {v + 1, v + 2, v + 3} => Loaded(At(b, p))'
  <2>1. PICK q \in Rung : q = At(b, p) /\ q.ctx = b /\ q.ngl = p
    BY <1>5, <1>8, AtIs
  <2>2. Loaded(q) => Loaded(q)'
    BY Lasting
  <2>3. ASSUME p > v, Clean(q)' PROVE FALSE
    <3>1. ~Clean(q)
      BY <1>7, <2>1, <2>3
    <3>2. ~Loaded(q)
      BY <2>3, <3>1, Lasting
    <3>3. q \in Frontier.next
      BY <1>2, <2>3, <3>1, Lasting DEF Grows
    <3>4. p \in CleanAt(b).next
      BY <1>6, <2>1, <3>2, <3>3, NextWhere
    <3>5. p \notin {v + 1, v + 2, v + 3}
      BY <1>7, <2>1, <3>2
    <3>6. p > v + 3 /\ p \in Int
      BY <1>8, <2>3, <3>5
    <3>7. v + 1 \in 0..LimitAt(b) /\ v + 1 > CleanAt(b).value
      BY <1>8, <1>9, <3>6
    <3>8. Loaded(At(b, v + 1))
      BY <1>7, <3>7
    <3>9. p <= v + 1 \/ p <= CleanAt(b).value + 3
      BY <1>8, <3>4, <3>7, <3>8
    <3> QED  BY <1>8, <1>9, <3>6, <3>9
  <2>4. (Clean(At(b, p))' <=> Clean(q)') /\ (Loaded(At(b, p))' <=> Loaded(q)')
    BY <2>1 DEF Clean, Loaded
  <2> QED  BY <1>7, <2>1, <2>2, <2>3, <2>4
<1>11. OutOfReach(b, n)'
  BY <1>6, <1>7, <1>10 DEF OutOfReach
<1> QED  BY <1>3, <1>5, <1>11 DEF Unclaimed

(* ... and what only target 2 asks for is out of reach when it is asked for. *)
LEMMA OnlyIsUnclaimed ==
    ASSUME Typed, mode = "frontier", NEW c \in stops, NEW n \in Ngl,
           At(c, n) \in ProbeOutcome.only
    PROVE  Unclaimed(c, n)
<1>1. ~Gated /\ ProbeOutcome = Frontier
  BY OutcomeCases
<1>2. c \in Ctx /\ At(c, n).ctx = c /\ At(c, n).ngl = n
  BY StopsAre, AtIs
<1>3. PICK x \in stops : At(c, n) \in Curve[x].only
  BY <1>1, FrontierIs
<1>4. x = c
  BY <1>2, <1>3, CurvePlaced
<1>5. Fits(c) /\ ~Root(c) /\ At(c, n) \in ClaimOnly(FitRungs(c), AnswerBelow(c))
  <2>1. Curve[c].only # {}
    BY <1>3, <1>4
  <2>2. Fits(c)
    BY <2>1, StateIs DEF Shows
  <2> QED  BY <1>3, <1>4, <2>1, <2>2, StateIs DEF Shows
<1>6. PICK b \in stops : b = Below(c)
  BY <1>5, BelowIs DEF Root
<1>7. Cleans(b) /\ CleanAt(b).resolved /\ AnswerBelow(c) = CleanAt(b).value
  BY <1>5, <1>6, OpenedBelow DEF Fits
<1>8. n > CleanAt(b).value
  BY <1>2, <1>5, <1>7 DEF ClaimOnly
<1>9. PICK v : v = CleanAt(b).value
  OBVIOUS
<1>10. /\ v \in -1..LimitAt(b) /\ LimitAt(b) \in Int /\ v \in Int
       /\ \A p \in 0..LimitAt(b) : Clean(At(b, p)) => p <= v
       /\ \/ v = LimitAt(b)
          \/ /\ Loaded(At(b, v + 1))
             /\ \A p \in {v + 2, v + 3} : p <= LimitAt(b) => Loaded(At(b, p))
  BY <1>7, <1>9, CleanAtSays
<1>11. v < n
  BY <1>8, <1>9, <1>10, Sizes
<1>12. \A p \in 0..LimitAt(b) : /\ p > v => ~Clean(At(b, p))
                                /\ p \in {v + 1, v + 2, v + 3} => Loaded(At(b, p))
  BY <1>10
<1>13. OutOfReach(b, n)
  BY <1>7, <1>10, <1>11, <1>12 DEF OutOfReach
<1> QED  BY <1>1, <1>6, <1>13 DEF Unclaimed

LEMMA OnlyNext ==
    ASSUME Typed, Given, Capped, Plan # 0, OnlyInv, [Next]_vars
    PROVE  OnlyInv'
<1>1. Grows
  BY StepsGrow
<1>2. Typed' /\ UNCHANGED input /\ stops' = stops /\ mode' = mode
  BY <1>1, InputStays DEF Grows
<1>3. SUFFICES ASSUME mode = "frontier", NEW c \in stops, NEW n \in Ngl, Flagged(At(c, n))'
               PROVE  Unclaimed(c, n)'
  BY <1>2 DEF OnlyInv
<1>4. PICK q \in Rung : q = At(c, n)
  BY StopsAre, AtIs
<1>5. PICK i \in DOMAIN history'[q] : history'[q][i].only
  BY <1>3, <1>4 DEF Flagged
<1>6. Flagged(q) \/ q \in ProbeOutcome.only
  <2>1. CASE history'[q] = history[q]
    BY <1>5, <2>1 DEF Flagged
  <2>2. CASE history'[q] # history[q]
    <3>1. PICK r \in ProbeOutcome.next, a \in Attempt :
             /\ r \in Rung /\ Record(r, a)
             /\ a \in Attempts(r, r \in ProbeOutcome.only)
                \/ \E kind \in Trouble : a \in Setback(kind, r)
      BY <2>2, StepsAre
    <3>2. r = q /\ history'[q] = Append(history[q], a) /\ history[q] \in Seq(Attempt)
      BY <2>2, <3>1, RecordIs, LoadedIs
    <3>3. CASE i \in DOMAIN history[q]
      <4>1. history'[q][i] = history[q][i]
        BY <3>2, <3>3
      <4> QED  BY <1>5, <3>3, <4>1 DEF Flagged
    <3>4. CASE i \notin DOMAIN history[q]
      <4>1. a.only
        <5>1. history'[q][i] = a
          BY <1>5, <3>2, <3>4
        <5> QED  BY <1>5, <5>1
      <4>2. /\ \A ok \in BOOLEAN : ~Full(r, ok).only
            /\ ~Trace(FALSE, FALSE, FALSE, FALSE).only /\ ~Trace(FALSE, FALSE, TRUE, FALSE).only
        BY <3>1, FullIs DEF Trace
      <4>3. \A kind \in Trouble : a \notin Setback(kind, r)
        <5> SUFFICES ASSUME NEW kind \in Trouble, a \in Setback(kind, r) PROVE FALSE
          OBVIOUS
        <5>1. \/ \E ok \in BOOLEAN : a = Full(r, ok)
              \/ a = Trace(FALSE, FALSE, FALSE, FALSE) \/ a = Trace(FALSE, FALSE, TRUE, FALSE)
          BY <3>1, SetbacksAre
        <5> QED  BY <4>1, <4>2, <5>1
      <4>4. a \in Attempts(r, r \in ProbeOutcome.only)
        BY <3>1, <4>3
      <4> QED  BY <3>1, <3>2, <4>1, <4>2, <4>4, AttemptsAre
    <3> QED  BY <3>3, <3>4
  <2> QED  BY <2>1, <2>2
<1>7. Unclaimed(c, n)
  BY <1>3, <1>4, <1>6, OnlyIsUnclaimed DEF OnlyInv
<1> QED  BY <1>1, <1>3, <1>7, ReachStays

LEMMA ClaimOnlyHere ==
    ASSUME Typed, OnlyInv
    PROVE  ClaimOnlySuffices
<1> HIDE DEF Curve
<1> SUFFICES ASSUME mode = "frontier", NEW c \in stops, NEW n \in Ngl, Flagged(At(c, n))
             PROVE  n > Curve[c].limit
  BY DEF ClaimOnlySuffices, Flagged
<1>1. PICK b \in stops : b = Below(c) /\ OutOfReach(b, n)
  BY DEF OnlyInv, Unclaimed
<1>2. n \in Int /\ n >= 0
  BY Sizes
<1>3. CASE ~Cleans(c)
  <2>1. Curve[c].limit = -1
    BY <1>3, StateIs DEF Shows
  <2> QED  BY <1>2, <2>1
<1>4. CASE Cleans(c)
  <2>1. ~Root(c)
    BY <1>1, StopsAre DEF Root
  <2>2. Curve[c].limit = LimitAt(c) /\ AnswerBelow(c) = CleanAt(b).value
    BY <1>1, <1>4, <2>1, StateIs, OpenedBelow DEF Shows, Cleans
  <2>3. LimitAt(c) <= CleanAt(b).value /\ LimitAt(c) \in Int
    BY <2>1, <2>2, CurvePlaced, LimitIs, CleanAtSays
  <2>4. CleanAt(b).value < n
    <3>1. /\ LimitAt(b) \in Int /\ CleanAt(b).value \in -1..LimitAt(b)
          /\ CleanAt(b).value # -1 => Clean(At(b, CleanAt(b).value))
      BY CleanAtSays
    <3> QED  BY <1>1, <1>2, <3>1 DEF OutOfReach
  <2>5. CleanAt(b).value \in Int
    BY CleanAtSays
  <2> QED  BY <1>2, <2>2, <2>3, <2>4, <2>5
<1> QED  BY <1>3, <1>4

(* A load that stopped at its claim (nextClaimOnly) is above everything     *)
(* target 1 may accept at its context, to the end of the search: what the   *)
(* stop below answered when it was asked for is never overturned upwards.   *)
(* The inductive invariant says why: below, spill or a load is on every     *)
(* placement the search there could still go to (OutOfReach).               *)
THEOREM ClaimsSuffice == 0 \notin Cap /\ Spec => []ClaimOnlySuffices
<1> DEFINE Inv == Typed /\ Given /\ ClaimsHold /\ Capped /\ Plan # 0 /\ OnlyInv
<1>1. 0 \notin Cap /\ Init => Inv
  <2> SUFFICES ASSUME 0 \notin Cap, Init PROVE Inv
    OBVIOUS
  <2>1. Typed
    BY LadderInit, TypedIs DEF LadderInv
  <2>2. OnlyInv
    <3>1. \A r \in Rung : history[r] = <<>>
      BY DEF Init
    <3>2. \A c \in stops, n \in Ngl : At(c, n) \in Rung
      BY <2>1, StopsAre, AtIs
    <3> QED  BY <3>1, <3>2 DEF OnlyInv, Flagged
  <2> QED  BY <2>1, <2>2, FoundInit, PlanIsOfCap
<1>2. Inv /\ [Next]_vars => Inv'
  <2> SUFFICES ASSUME Inv, [Next]_vars PROVE Inv'
    OBVIOUS
  <2>1. Typed'
    BY StepsGrow DEF Grows
  <2> QED  BY <2>1, FoundNext, OnlyNext
<1>3. Inv => ClaimOnlySuffices
  BY ClaimOnlyHere
<1> HIDE DEF Inv
<1> QED  BY <1>1, <1>2, <1>3, PTL DEF Spec

-----------------------------------------------------------------------------
(* The placements: what llama.cpp is told, and what its own fit answers.    *)

Model(m) ==
    /\ m.blocks \in Nat /\ m.blocks > 0
    /\ m.moe \in Seq(0..(m.blocks - 1))
    /\ Increasing(m.moe)

\* The entries of a rung of the dense phase: the experts of the blocks on the GPU,
\* and for ATTN the next block.
LEMMA DenseEntries ==
    ASSUME NEW m, Model(m), IsMoe(m), NEW n \in 0..m.blocks, NEW b \in {"none", "ATTN"}
    PROVE  LET args == ToArgs(State("dense", n, 0, b), m)
           IN  /\ args.ngl = IF b = "ATTN" THEN n + 1 ELSE n
               /\ \A e \in args.ot : e.kind \in {"exps", "ATTN"}
               /\ (\E e \in args.ot : e.kind = "ATTN") <=> b = "ATTN"
               /\ \A e \in args.ot : e.block = m.blocks - n => e.kind = "ATTN"
               /\ b = "ATTN" => [block |-> m.blocks - n, kind |-> "ATTN"] \in args.ot
BY DEF ToArgs, State, Exps, GpuBlocks, Model

\* The entries of a rung of the expert phase: one for every block with experts
\* from the boundary's on.
LEMMA ExpertEntries ==
    ASSUME NEW m, Model(m), IsMoe(m), NEW e \in 0..Len(m.moe),
           NEW b \in {"none", "UP", "GATE"}
    PROVE  LET s == State("expert", NglAll(m), e, b)
               args == ToArgs(s, m)
           IN  /\ args.ngl = NglAll(m)
               /\ args.ot = {[block |-> m.moe[i],
                              kind |-> IF i = e + 1 /\ b # "none" THEN b ELSE "exps"]
                             : i \in (e + 1)..Len(m.moe)}
BY DEF ToArgs, State

\* A block with experts is in one place of the list.
LEMMA Once ==
    ASSUME NEW m, Model(m), NEW i \in DOMAIN m.moe, NEW j \in DOMAIN m.moe,
           m.moe[i] = m.moe[j]
    PROVE  i = j
<1>1. DOMAIN m.moe = 1..Len(m.moe) /\ \A k \in DOMAIN m.moe : m.moe[k] \in Int
  BY DEF Model
<1>2. \A k, l \in DOMAIN m.moe : k < l => m.moe[k] < m.moe[l]
  BY DEF Model, Increasing
<1> QED BY <1>1, <1>2

LEMMA DenseRoundTrip ==
    ASSUME NEW m, Model(m), IsMoe(m), NEW drop, NEW s \in DensePhase(m, drop)
    PROVE  FromFit(ToArgs(s, m), m) = s
<1>1. PICK n \in 0..m.blocks, b \in {"none", "ATTN"} :
        /\ s = State("dense", n, 0, b)
        /\ b = "ATTN" => n \in 1..m.blocks /\ HasExperts(m, m.blocks - n)
  <2>1. CASE s \in {State("dense", n, 0, "none") : n \in 0..m.blocks}
    BY <2>1
  <2>2. CASE s \in {State("dense", n, 0, "ATTN") :
               n \in {k \in 1..m.blocks : HasExperts(m, m.blocks - k) /\ "ATTN" \notin drop}}
    BY <2>2 DEF Model
  <2> QED BY <2>1, <2>2 DEF DensePhase
<1> DEFINE args == ToArgs(State("dense", n, 0, b), m)
<1>2. /\ args.ngl = IF b = "ATTN" THEN n + 1 ELSE n
      /\ \A e \in args.ot : e.kind \in {"exps", "ATTN"}
      /\ (\E e \in args.ot : e.kind = "ATTN") <=> b = "ATTN"
      /\ \A e \in args.ot : e.block = m.blocks - n => e.kind = "ATTN"
      /\ b = "ATTN" => [block |-> m.blocks - n, kind |-> "ATTN"] \in args.ot
  BY DenseEntries
<1> HIDE DEF args
<1>3. FitNgl(args, m) = args.ngl
  BY <1>1, <1>2 DEF FitNgl, NglAll, Model
<1>4. CASE args.ngl < NglAll(m)
  BY <1>1, <1>2, <1>3, <1>4 DEF FromFit, args, State, Model
<1>5. CASE args.ngl = NglAll(m)
  <2>1. b = "ATTN" /\ n = m.blocks
    BY <1>1, <1>2, <1>5 DEF NglAll, Model
  <2>2. PICK i \in DOMAIN m.moe : m.moe[i] = 0
    BY <1>1, <2>1 DEF HasExperts, Model
  <2>3. i = 1 /\ 1 \in DOMAIN m.moe
    <3>1. DOMAIN m.moe = 1..Len(m.moe) /\ \A k \in DOMAIN m.moe : m.moe[k] \in Nat
      BY DEF Model
    <3>2. i \in 1..Len(m.moe) /\ 1 \in DOMAIN m.moe /\ Len(m.moe) \in Nat
      BY <2>2, <3>1 DEF Model
    <3>3. Increasing(m.moe)
      BY DEF Model
    <3>4. 1 < i => m.moe[1] < m.moe[i]
      BY <2>2, <3>2, <3>3 DEF Increasing
    <3> QED BY <2>2, <3>1, <3>2, <3>4
  <2>4. 1 \in Real(args, m)
    BY <1>2, <2>1, <2>2, <2>3 DEF Real, Model
  <2>5. First(args, m) = 1
    <3>1. Real(args, m) \subseteq DOMAIN m.moe /\ DOMAIN m.moe = 1..Len(m.moe)
      BY DEF Real, Model
    <3>2. \E k \in Real(args, m) : \A j \in Real(args, m) : k <= j
      BY <2>4, <3>1
    <3>3. /\ First(args, m) \in Real(args, m)
          /\ \A j \in Real(args, m) : First(args, m) <= j
      BY <3>2 DEF First
    <3> QED BY <2>4, <3>1, <3>3
  <2>6. FirstKind(args, m) = "ATTN"
    <3>1. \E e \in args.ot : e.block = m.moe[First(args, m)]
      BY <2>4, <2>5 DEF Real
    <3>2. m.moe[First(args, m)] = m.blocks - n
      BY <2>1, <2>2, <2>3, <2>5 DEF Model
    <3> QED BY <1>2, <3>1, <3>2 DEF FirstKind
  <2>7. Real(args, m) # {} /\ ~(\E e \in args.ot : e.kind \notin {"exps", "ATTN", "UP", "GATE"})
    BY <1>2, <2>4
  <2>8. NglAll(m) - 1 = n /\ ~(NglAll(m) < NglAll(m))
    BY <2>1 DEF NglAll, Model
  <2> QED
    BY <1>1, <1>3, <1>5, <2>1, <2>5, <2>6, <2>7, <2>8 DEF FromFit, args
<1>6. args.ngl \in Int /\ args.ngl <= NglAll(m) /\ NglAll(m) \in Int
  BY <1>1, <1>2 DEF NglAll, Model
<1> QED BY <1>4, <1>5, <1>6

LEMMA ExpertRoundTrip ==
    ASSUME NEW m, Model(m), IsMoe(m), NEW drop, NEW s \in ExpertPhase(m, drop)
    PROVE  FromFit(ToArgs(s, m), m) = s
<1>0. Len(m.moe) \in Nat /\ DOMAIN m.moe = 1..Len(m.moe)
  BY DEF Model
<1>1. PICK e \in 0..Len(m.moe), b \in {"none", "UP", "GATE"} :
        /\ s = State("expert", NglAll(m), e, b)
        /\ b # "none" => e < Len(m.moe)
  <2>1. CASE s \in {State("expert", NglAll(m), e, "none") : e \in 0..Len(m.moe)}
    BY <2>1
  <2>2. CASE s \in {State("expert", NglAll(m), e, b) :
                      e \in 0..(Len(m.moe) - 1), b \in {"UP", "GATE"} \ drop}
    BY <1>0, <2>2
  <2> QED BY <2>1, <2>2 DEF ExpertPhase
<1> DEFINE args == ToArgs(State("expert", NglAll(m), e, b), m)
           entry(i) == [block |-> m.moe[i],
                        kind |-> IF i = e + 1 /\ b # "none" THEN b ELSE "exps"]
<1>2. args.ngl = NglAll(m) /\ args.ot = {entry(i) : i \in (e + 1)..Len(m.moe)}
  BY ExpertEntries
<1> HIDE DEF args
<1>3. FitNgl(args, m) = NglAll(m)
  BY <1>2 DEF FitNgl, NglAll, Model
<1>4. ~(NglAll(m) < NglAll(m)) /\ ~(\E x \in args.ot : x.kind \notin {"exps", "ATTN", "UP", "GATE"})
  BY <1>2 DEF NglAll, Model
<1>5. Real(args, m) = (e + 1)..Len(m.moe)
  <2>1. ASSUME NEW i \in DOMAIN m.moe, NEW j \in (e + 1)..Len(m.moe), m.moe[j] = m.moe[i]
        PROVE  i = j
    BY <1>0, <2>1, Once
  <2>2. ASSUME NEW i \in DOMAIN m.moe, NEW x \in args.ot, x.block = m.moe[i]
        PROVE  i \in (e + 1)..Len(m.moe)
    <3>1. PICK j \in (e + 1)..Len(m.moe) : x = entry(j)
      BY <1>2
    <3> QED BY <2>1, <2>2, <3>1
  <2>3. ASSUME NEW i \in (e + 1)..Len(m.moe)
        PROVE  i \in DOMAIN m.moe /\ \E x \in args.ot : x.block = m.moe[i]
    <3>1. entry(i) \in args.ot /\ entry(i).block = m.moe[i]
      BY <1>2
    <3> QED BY <1>0, <3>1
  <2> QED BY <2>2, <2>3 DEF Real
<1>6. CASE e = Len(m.moe)
  <2>1. Real(args, m) = {} /\ b = "none"
    BY <1>0, <1>1, <1>5, <1>6
  <2> QED BY <1>1, <1>3, <1>4, <1>6, <2>1 DEF FromFit, args
<1>7. CASE e < Len(m.moe)
  <2>1. First(args, m) = e + 1
    <3>0. e \in Nat /\ e + 1 \in Real(args, m)
      BY <1>0, <1>5, <1>7
    <3>1. \E k \in Real(args, m) : \A j \in Real(args, m) : k <= j
      BY <1>0, <1>5, <3>0
    <3>2. /\ First(args, m) \in Real(args, m)
          /\ \A j \in Real(args, m) : First(args, m) <= j
      BY <3>1 DEF First
    <3>3. First(args, m) \in Int /\ First(args, m) >= e + 1
      BY <1>0, <1>5, <3>2
    <3> QED BY <3>0, <3>2, <3>3
  <2>2. FirstKind(args, m) = IF b # "none" THEN b ELSE "exps"
    <3>1. \A x \in args.ot : x.block = m.moe[e + 1] => x = entry(e + 1)
      <4>1. ASSUME NEW i \in (e + 1)..Len(m.moe), m.moe[i] = m.moe[e + 1] PROVE i = e + 1
        BY <1>0, <1>7, <4>1, Once
      <4> QED BY <1>2, <4>1
    <3>2. entry(e + 1) \in args.ot /\ entry(e + 1).block = m.moe[e + 1]
      BY <1>0, <1>2, <1>7
    <3>3. (CHOOSE x \in args.ot : x.block = m.moe[e + 1]) = entry(e + 1)
      BY <3>1, <3>2
    <3>4. entry(e + 1).kind = IF b # "none" THEN b ELSE "exps"
      OBVIOUS
    <3> HIDE DEF entry
    <3> QED BY <2>1, <3>3, <3>4 DEF FirstKind
  <2>3. Real(args, m) # {} /\ First(args, m) - 1 = e
    <3>1. e \in Nat /\ e + 1 \in Real(args, m)
      BY <1>0, <1>5, <1>7
    <3> QED BY <2>1, <3>1
  <2>4. CASE b = "none"
    BY <1>1, <1>3, <1>4, <2>2, <2>3, <2>4 DEF FromFit, args
  <2>5. CASE b # "none"
    <3>1. FirstKind(args, m) = b /\ b # "exps" /\ b # "ATTN"
      BY <1>1, <2>2, <2>5
    <3> QED BY <1>1, <1>3, <1>4, <2>3, <3>1 DEF FromFit, args
  <2> QED BY <2>4, <2>5
<1> QED BY <1>0, <1>6, <1>7

\* Every rung of every ladder is what fit's answer of its shape is taken for
\* (fromFit of toArgs, shared/moePlacement.ts).
THEOREM RoundTrips ==
    ASSUME NEW m, Model(m), NEW drop, NEW s \in PlacementLadder(m, drop)
    PROVE  FromFit(ToArgs(s, m), m) = s
<1>1. CASE IsMoe(m)
  BY <1>1, DenseRoundTrip, ExpertRoundTrip DEF PlacementLadder
<1>2. CASE ~IsMoe(m)
  <2>1. PICK n \in 0..NglAll(m) : s = State("dense", n, 0, "none")
    BY <1>2 DEF PlacementLadder
  <2> QED BY <1>2, <2>1 DEF FromFit, ToArgs, FitNgl, State, NglAll, Model
<1> QED BY <1>1, <1>2

\* The same for the models of any bound.
THEOREM AllRoundTrip == PlacementRoundTrips
<1>1. ASSUME NEW m \in Models PROVE Model(m)
  <2>1. PICK n \in 1..MaxBlocks : m \in [blocks : {n}, fused : BOOLEAN,
            moe : {seq \in UNION {[1..k -> 0..(n - 1)] : k \in 0..n} : Increasing(seq)}]
    BY DEF Models
  <2>2. PICK k \in 0..n : m.moe \in [1..k -> 0..(n - 1)]
    BY <2>1
  <2>3. m.blocks = n /\ n \in Nat /\ n > 0 /\ Increasing(m.moe)
    BY <2>1, BlocksAssumption
  <2> QED BY <2>2, <2>3 DEF Model
<1> QED BY <1>1, RoundTrips DEF PlacementRoundTrips
=============================================================================
