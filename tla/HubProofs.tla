------------------------------ MODULE HubProofs ------------------------------
(* Theorems about the two ways in which the server uses Hugging Face:      *)
(* RateLimit keeps its quota, for any number of callers, any window and    *)
(* any margin, and HfIndex passes no repository, for any catalogue, any    *)
(* batches and any number of edits, lookups, failed pages and crashes.     *)
EXTENDS HfIndex, RateLimit, FiniteSetTheorems, WellFoundedInduction, TLAPS

-----------------------------------------------------------------------------
(* The quota.                                                               *)

Sent == {c \in Caller : stage[c] = "sent"}

LimitTypes ==
    /\ admitted \in [Ages -> Nat] /\ elapsed \in Ages /\ used \in Nat
    /\ stage \in [Caller -> {"idle", "waiting", "sent", "answered"}]
    /\ answer \in [Caller -> [refused : BOOLEAN, remaining : Int, resetIn : Int]]

(* The sliding window never holds more than the limit; and all that the    *)
(* hub counted in its window, whenever that began, or is about to count    *)
(* was admitted within it.                                                 *)
Cumulative == \A a, b \in Ages : a <= b => admitted[a] <= admitted[b]
Covered ==
    mishaps \subseteq {"failed"} =>
        /\ InWindow <= Limit
        /\ used + Cardinality(Sent) <= admitted[elapsed]

QuotaInv == LimitTypes /\ Cumulative /\ Covered /\ QuotaKept

LEMMA SentFinite == IsFiniteSet(Sent) /\ Cardinality(Sent) \in Nat
  BY CallAssumption, FS_Subset, FS_CardinalityType DEF Sent

LEMMA AgeBounds == 0 \in Ages /\ Window - 1 \in Ages /\ Ages \subseteq Nat /\ \A a \in Ages : a <= Window - 1
  BY WindowAssumption DEF Ages

LEMMA Limits ==
    /\ Limit \in Nat /\ Margin \in Nat /\ Reserve \in Nat /\ Reserve <= Margin /\ Margin < Limit
    /\ Window \in Nat /\ Window >= 1
  BY LimitAssumption, WindowAssumption

LEMMA SmallModulus == ASSUME NEW w \in Nat \ {0}, NEW x \in Nat, x < w PROVE x % w = x
  OBVIOUS

LEMMA AcquireQuota == ASSUME QuotaInv, NEW c \in Caller, Acquire(c) PROVE QuotaInv'
  <1>. USE DEF QuotaInv
  <1>1. UNCHANGED <<answer, elapsed, used, mishaps>>
    BY DEF Acquire, hub
  <1>2. QuotaKept'
    BY <1>1 DEF QuotaKept
  <1>3. CASE Room /\ Admit(c)
    <2>1. /\ admitted' = [a \in Ages |-> admitted[a] + 1]
          /\ stage' = [stage EXCEPT ![c] = "sent"]
          /\ InWindow < Limit
      BY <1>3, AgeBounds, Limits DEF Admit, Room, LimitTypes, InWindow
    <2>2. Sent' = Sent \cup {c}
      BY <2>1 DEF Sent, LimitTypes
    <2>3. Cardinality(Sent') <= Cardinality(Sent) + 1 /\ Cardinality(Sent') \in Nat
      <3>1. Cardinality(Sent \cup {c}) = IF c \in Sent THEN Cardinality(Sent) ELSE Cardinality(Sent) + 1
        BY SentFinite, FS_AddElement
      <3>. HIDE DEF QuotaInv
      <3>. QED BY <2>2, <3>1, SentFinite
    <2>4. LimitTypes' /\ Cumulative'
      BY <1>1, <2>1, AgeBounds DEF LimitTypes, Cumulative
    <2>5. Covered'
      BY <1>1, <2>1, <2>3, SentFinite, AgeBounds, Limits DEF Covered, LimitTypes, InWindow
    <2>. QED BY <1>2, <2>4, <2>5
  <1>4. CASE UNCHANGED <<stage, admitted>>
    BY <1>1, <1>2, <1>4 DEF LimitTypes, Cumulative, Covered, InWindow, Sent
  <1>. QED BY <1>3, <1>4 DEF Acquire, SleepFor

LEMMA StageQuota ==
    ASSUME QuotaInv, NEW c \in Caller, Call(c) \/ Arrive(c) \/ Return(c) \/ Fail(c)
    PROVE  QuotaInv'
  <1>. USE DEF QuotaInv
  <1>1. UNCHANGED <<admitted, elapsed>>
    BY DEF Call, Arrive, Return, Fail, bucket, hub
  <1>2. CASE Arrive(c)
    <2>1. /\ stage[c] = "sent" /\ stage' = [stage EXCEPT ![c] = "answered"]
          /\ used' = IF used < Limit THEN used + 1 ELSE used
          /\ UNCHANGED mishaps
          /\ \E a \in [refused : BOOLEAN, remaining : Int, resetIn : Int] :
                a.refused = (used >= Limit) /\ answer' = [answer EXCEPT ![c] = a]
      <3>. DEFINE a(h) == [refused |-> used >= Limit,
                           remaining |-> IF h = "none" THEN Unknown
                                         ELSE IF used >= Limit THEN 0 ELSE Limit - used - 1,
                           resetIn |-> IF h = "full" THEN Window - elapsed ELSE Unknown]
      <3>1. PICK h \in Headers : answer' = [answer EXCEPT ![c] = a(h)]
        BY <1>2 DEF Arrive
      <3>2. a(h) \in [refused : BOOLEAN, remaining : Int, resetIn : Int] /\ a(h).refused = (used >= Limit)
        BY Limits, AgeBounds DEF LimitTypes, Unknown
      <3>. QED BY <1>2, <3>1, <3>2 DEF Arrive
    <2>2. Sent' = Sent \ {c} /\ c \in Sent
      BY <2>1 DEF Sent, LimitTypes
    <2>3. Cardinality(Sent') = Cardinality(Sent) - 1 /\ Cardinality(Sent') \in Nat
      BY <2>2, SentFinite, FS_RemoveElement, FS_CardinalityType
    <2>4. used' + Cardinality(Sent') <= used + Cardinality(Sent) /\ used' \in Nat
      BY <2>1, <2>3, SentFinite, Limits DEF LimitTypes
    <2>5. LimitTypes' /\ Cumulative'
      BY <1>1, <2>1, <2>4 DEF LimitTypes, Cumulative
    <2>6. Covered'
      BY <1>1, <2>1, <2>3, <2>4, SentFinite DEF Covered, LimitTypes, InWindow
    <2>7. mishaps \subseteq {"failed"} => used < Limit
      BY <2>3, SentFinite, AgeBounds, Limits DEF Covered, LimitTypes, Cumulative, InWindow
    <2>8. QuotaKept'
      <3>. SUFFICES ASSUME mishaps' \subseteq {"failed"}, NEW d \in Caller
                    PROVE  ~answer'[d].refused
        BY DEF QuotaKept
      <3>1. ~answer[d].refused /\ ~(used >= Limit)
        BY <2>1, <2>7, Limits DEF QuotaKept, LimitTypes
      <3>. QED BY <2>1, <3>1 DEF LimitTypes
    <2>. QED BY <2>5, <2>6, <2>8
  <1>3. CASE Call(c) \/ Return(c) \/ Fail(c)
    <2>1. /\ used' = used /\ mishaps \subseteq mishaps'
          /\ \E s \in {"idle", "waiting"} : stage' = [stage EXCEPT ![c] = s]
          /\ stage[c] # "sent"
          /\ answer' = answer \/ answer' = [answer EXCEPT ![c] = NoAnswer]
      BY <1>3 DEF Call, Return, Fail, hub, Unlucky
    <2>2. Sent' = Sent
      BY <2>1 DEF Sent, LimitTypes
    <2>3. LimitTypes' /\ Cumulative'
      <3>1. NoAnswer \in [refused : BOOLEAN, remaining : Int, resetIn : Int]
        BY DEF NoAnswer, Unknown
      <3>2. answer' \in [Caller -> [refused : BOOLEAN, remaining : Int, resetIn : Int]]
        BY <2>1, <3>1 DEF LimitTypes
      <3>. QED BY <1>1, <2>1, <3>2 DEF LimitTypes, Cumulative
    <2>4. Covered'
      BY <1>1, <2>1, <2>2 DEF Covered, InWindow
    <2>5. QuotaKept'
      BY <2>1 DEF QuotaKept, NoAnswer, LimitTypes
    <2>. QED BY <2>3, <2>4, <2>5
  <1>. QED BY <1>2, <1>3

LEMMA TimeQuota == ASSUME QuotaInv, TimePasses PROVE QuotaInv'
  <1>. USE DEF QuotaInv
  <1>1. /\ Sent = {} /\ Sent' = {}
        /\ admitted' = [a \in Ages |-> IF a = 0 THEN 0 ELSE admitted[a - 1]]
        /\ elapsed' = (elapsed + 1) % Window
        /\ used' = IF elapsed' = 0 THEN 0 ELSE used
        /\ UNCHANGED <<stage, answer, mishaps>>
    BY DEF TimePasses, Aged, Sent
  <1>2. Cardinality({}) = 0
    BY FS_EmptySet
  <1>3. \A a \in Ages : a # 0 => a - 1 \in Ages
    BY Limits DEF Ages
  <1>4. elapsed' \in Ages /\ elapsed' = IF elapsed = Window - 1 THEN 0 ELSE elapsed + 1
    <2>1. CASE elapsed = Window - 1
      <3>1. elapsed' = Window % Window
        BY <1>1, <2>1, Limits
      <3>. QED BY <2>1, <3>1, Limits DEF Ages
    <2>2. CASE elapsed # Window - 1
      <3>1. elapsed + 1 \in Nat /\ elapsed + 1 < Window
        BY <2>2, Limits DEF LimitTypes, Ages
      <3>2. elapsed' = elapsed + 1
        BY <1>1, <3>1, Limits, SmallModulus
      <3>. QED BY <2>2, <3>1, <3>2, Limits DEF Ages
    <2>. QED BY <2>1, <2>2
  <1>5. admitted' \in [Ages -> Nat]
    BY <1>1, <1>3 DEF LimitTypes
  <1>6. LimitTypes'
    BY <1>1, <1>4, <1>5 DEF LimitTypes
  <1>7. Cumulative'
    BY <1>1, <1>3, AgeBounds DEF Cumulative, LimitTypes
  <1>8. Covered'
    BY <1>1, <1>2, <1>3, <1>4, AgeBounds, Limits DEF Covered, Cumulative, LimitTypes, InWindow
  <1>. QED BY <1>1, <1>6, <1>7, <1>8 DEF QuotaKept

LEMMA QuotaStep == QuotaInv /\ [LimitNext]_limitVars => QuotaInv'
  <1>. SUFFICES ASSUME QuotaInv, [LimitNext]_limitVars PROVE QuotaInv'
    OBVIOUS
  <1>1. CASE UNCHANGED limitVars
    BY <1>1 DEF limitVars, bucket, callers, hub, QuotaInv, LimitTypes, Cumulative, Covered,
                InWindow, Sent, QuotaKept
  <1>2. CASE Elsewhere
    <2>1. used' \in Nat
      BY <1>2, Limits DEF Elsewhere, QuotaInv, LimitTypes
    <2>. QED BY <1>2, <2>1
          DEF Elsewhere, Unlucky, bucket, callers, QuotaInv, LimitTypes, Cumulative, Covered, QuotaKept
  <1>3. CASE RestartServer
    BY <1>3, AgeBounds
    DEF RestartServer, Unlucky, NoAnswer, Unknown, hub, QuotaInv, LimitTypes, Cumulative, Covered, QuotaKept
  <1>. QED BY <1>1, <1>2, <1>3, AcquireQuota, StageQuota, TimeQuota DEF LimitNext, Progress

(* No request is refused, whoever calls and sleeps when and wherever the   *)
(* hub's window begins, while nobody else spends the quota and the bucket  *)
(* is not forgotten.                                                       *)
THEOREM QuotaIsKept == LimitSpec => []QuotaKept
  <1>1. ASSUME LimitInit PROVE QuotaInv
    <2>1. Sent = {} /\ Cardinality(Sent) = 0
      BY <1>1, FS_EmptySet DEF LimitInit, Sent
    <2>2. NoAnswer \in [refused : BOOLEAN, remaining : Int, resetIn : Int] /\ ~NoAnswer.refused
      BY DEF NoAnswer, Unknown
    <2>3. LimitTypes
      BY <1>1, <2>2 DEF LimitInit, LimitTypes
    <2>4. Cumulative /\ Covered
      BY <1>1, <2>1, AgeBounds, Limits DEF LimitInit, Cumulative, Covered, InWindow
    <2>. QED BY <1>1, <2>2, <2>3, <2>4 DEF LimitInit, QuotaInv, QuotaKept
  <1>2. QuotaInv => QuotaKept
    BY DEF QuotaInv
  <1>. QED BY <1>1, <1>2, QuotaStep, PTL DEF LimitSpec

-----------------------------------------------------------------------------
(***************************************************************************)
(* The index.  A marker on disk may still be replaced by what the tick has  *)
(* deferred, by all of it, by a part or by nothing, so the invariant speaks *)
(* of every value a marker may be left with (Left, below): a repository the *)
(* index lags behind is about to be scanned, or comes after all of them in  *)
(* one of the three listings (Kept).                                        *)
(***************************************************************************)

(* The order of a listing. *)
LEMMA Repos == Repo \subseteq Nat \ {0} /\ IsFiniteSet(Repo) /\ Existing \subseteq Repo /\ None \notin Nat
  BY RepoAssumption

LEMMA OrderIs ==
    ASSUME NEW f \in [Repo -> Nat], NEW r \in Repo, NEW s \in Repo, NEW t \in Repo
    PROVE  /\ Newer(f, r, s) \in BOOLEAN
           /\ ~Newer(f, r, r)
           /\ r # s => Newer(f, r, s) \/ Newer(f, s, r)
           /\ ~(Newer(f, r, s) /\ Newer(f, s, r))
           /\ Newer(f, r, s) /\ Newer(f, s, t) => Newer(f, r, t)
           /\ Newer(f, r, s) => f[s] <= f[r]
<1>1. r \in Nat /\ s \in Nat /\ t \in Nat /\ f[r] \in Nat /\ f[s] \in Nat /\ f[t] \in Nat
  BY Repos
<1> QED  BY <1>1 DEF Newer

LEMMA LeastNatural ==
    ASSUME NEW T \in SUBSET Nat, T # {}
    PROVE  \E x \in T : \A y \in T : x <= y
<1> DEFINE R == OpToRel(<, Nat)
<1>1. IsWellFoundedOn(R, Nat)
  BY NatLessThanWellFounded
<1>2. \A x, y \in Nat : y < x => <<y, x>> \in R
  BY DEF OpToRel
<1> HIDE DEF R
<1>3. PICK x \in T : \A y \in T : <<y, x>> \notin R
  BY <1>1, WFMin
<1>4. ASSUME NEW y \in T PROVE x <= y
  <2>1. ~(y < x)
    BY <1>2, <1>3
  <2> QED  BY <2>1
<1> QED  BY <1>4

(* Fewer of a finite set are newer than what is newer. *)
LEMMA SmallerIs ==
    ASSUME NEW S \in SUBSET Repo, NEW U \in SUBSET S
    PROVE  /\ IsFiniteSet(U) /\ Cardinality(U) \in Nat /\ Cardinality(U) <= Cardinality(S)
           /\ Cardinality(U) = Cardinality(S) => U = S
<1>1. IsFiniteSet(S)
  BY Repos, FS_Subset
<1> QED  BY <1>1, FS_Subset, FS_CardinalityType

LEMMA Foremost ==
    ASSUME NEW f \in [Repo -> Nat], NEW S \in SUBSET Repo, S # {}
    PROVE  /\ \E r \in S : \A s \in S : ~Newer(f, s, r)
           /\ \E r \in S : \A s \in S : ~Newer(f, r, s)
<1> DEFINE Up(r) == {s \in S : Newer(f, s, r)}
           Down(r) == {s \in S : Newer(f, r, s)}
           U == {Cardinality(Up(r)) : r \in S}
           D == {Cardinality(Down(r)) : r \in S}
<1>1. \A r \in S : Up(r) \subseteq S /\ Down(r) \subseteq S
  OBVIOUS
<1>2. U \in SUBSET Nat /\ U # {} /\ D \in SUBSET Nat /\ D # {}
  <2>1. \A r \in S : Cardinality(Up(r)) \in Nat /\ Cardinality(Down(r)) \in Nat
    <3> TAKE r \in S
    <3>1. Up(r) \in SUBSET S /\ Down(r) \in SUBSET S
      OBVIOUS
    <3> HIDE DEF Up, Down
    <3> QED  BY <3>1, SmallerIs
  <2> HIDE DEF Up, Down
  <2> QED  BY <2>1
<1>3. ASSUME NEW r \in S, NEW s \in S, Newer(f, s, r)
      PROVE  Cardinality(Up(s)) < Cardinality(Up(r))
  <2>1. Up(s) \subseteq Up(r) /\ s \in Up(r) /\ s \notin Up(s)
    BY <1>3, OrderIs
  <2>2. Up(r) \in SUBSET Repo /\ Up(s) \in SUBSET Repo
    OBVIOUS
  <2> HIDE DEF Up
  <2>3. Cardinality(Up(s)) \in Nat /\ Cardinality(Up(s)) <= Cardinality(Up(r))
        /\ Cardinality(Up(s)) # Cardinality(Up(r)) /\ Cardinality(Up(r)) \in Nat
    BY <2>1, <2>2, SmallerIs
  <2> QED  BY <2>3
<1>4. ASSUME NEW r \in S, NEW s \in S, Newer(f, r, s)
      PROVE  Cardinality(Down(s)) < Cardinality(Down(r))
  <2>1. Down(s) \subseteq Down(r) /\ s \in Down(r) /\ s \notin Down(s)
    BY <1>4, OrderIs
  <2>2. Down(r) \in SUBSET Repo /\ Down(s) \in SUBSET Repo
    OBVIOUS
  <2> HIDE DEF Down
  <2>3. Cardinality(Down(s)) \in Nat /\ Cardinality(Down(s)) <= Cardinality(Down(r))
        /\ Cardinality(Down(s)) # Cardinality(Down(r)) /\ Cardinality(Down(r)) \in Nat
    BY <2>1, <2>2, SmallerIs
  <2> QED  BY <2>3
<1> HIDE DEF Up, Down
<1>5. \E r \in S : \A s \in S : ~Newer(f, s, r)
  <2>1. PICK k \in U : \A j \in U : k <= j
    BY <1>2, LeastNatural
  <2>2. PICK r \in S : k = Cardinality(Up(r))
    OBVIOUS
  <2>3. ASSUME NEW s \in S, Newer(f, s, r) PROVE FALSE
    <3>1. Cardinality(Up(s)) \in U /\ Cardinality(Up(s)) < k
      BY <1>3, <2>2, <2>3
    <3>2. k \in Nat /\ Cardinality(Up(s)) \in Nat /\ k <= Cardinality(Up(s))
      BY <1>2, <2>1, <3>1
    <3> QED  BY <3>1, <3>2
  <2> QED  BY <2>3
<1>6. \E r \in S : \A s \in S : ~Newer(f, r, s)
  <2>1. PICK k \in D : \A j \in D : k <= j
    BY <1>2, LeastNatural
  <2>2. PICK r \in S : k = Cardinality(Down(r))
    OBVIOUS
  <2>3. ASSUME NEW s \in S, Newer(f, r, s) PROVE FALSE
    <3>1. Cardinality(Down(s)) \in D /\ Cardinality(Down(s)) < k
      BY <1>4, <2>2, <2>3
    <3>2. k \in Nat /\ Cardinality(Down(s)) \in Nat /\ k <= Cardinality(Down(s))
      BY <1>2, <2>1, <3>1
    <3> QED  BY <3>1, <3>2
  <2> QED  BY <2>3
<1> QED  BY <1>5, <1>6

LEMMA NewestOf ==
    ASSUME NEW f \in [Repo -> Nat], NEW R \in SUBSET Repo
    PROVE  LET n == Newest({f[r] : r \in R})
           IN  /\ n \in Nat /\ \A r \in R : f[r] <= n
               /\ R = {} => n = 0
               /\ R # {} => \E r \in R : n = f[r]
<1> DEFINE S == {f[r] : r \in R}
<1>1. CASE R = {}
  BY <1>1 DEF Newest
<1>2. CASE R # {}
  <2>1. PICK r \in R : \A s \in R : ~Newer(f, s, r)
    BY <1>2, Foremost
  <2>2. \A s \in R : f[s] <= f[r] /\ f[s] \in Nat
    BY <2>1 DEF Newer
  <2>3. \E t \in S : \A u \in S : u <= t
    BY <2>2
  <2>4. Newest(S) \in S /\ \A u \in S : u <= Newest(S)
    BY <2>3 DEF Newest
  <2> QED  BY <1>2, <2>2, <2>4
<1> QED  BY <1>1, <1>2

LEMMA NewestPair ==
    ASSUME NEW x \in Nat, NEW y \in Nat
    PROVE  Newest({x, y}) \in {x, y} /\ x <= Newest({x, y}) /\ y <= Newest({x, y})
<1>1. \E t \in {x, y} : \A u \in {x, y} : u <= t
  BY x <= y \/ y <= x
<1> QED  BY <1>1 DEF Newest

(* A change of the catalogue is of no earlier time than any before it.      *)
LEMMA MomentsAre ==
    ASSUME created \in [Repo -> Nat], modified \in [Repo -> Nat], NEW r \in Repo, NEW t \in Moments
    PROVE  t \in Nat /\ \A u \in Times : u <= t /\ u \in Nat
<1> DEFINE C == Newest({created[s] : s \in Repo})
           M == Newest({modified[s] : s \in Repo})
<1>1. C \in Nat /\ (\A s \in Repo : created[s] <= C) /\ C \in Times
  BY NewestOf DEF Times
<1>2. M \in Nat /\ (\A s \in Repo : modified[s] <= M) /\ M \in Times
  BY NewestOf DEF Times
<1>3. \A u \in Times : u \in Nat /\ (u <= C \/ u <= M)
  BY <1>1, <1>2 DEF Times
<1> HIDE DEF C, M
<1>4. \E u \in Times : \A v \in Times : v <= u
  <2>1. CASE C <= M
    BY <1>1, <1>2, <1>3, <2>1
  <2>2. CASE M <= C
    BY <1>1, <1>2, <1>3, <2>2
  <2> QED  BY <1>1, <1>2, <2>1, <2>2
<1>5. Newest(Times) \in Times /\ \A v \in Times : v <= Newest(Times)
  <2>1. Times # {}
    BY <1>1
  <2> HIDE DEF Times
  <2> QED  BY <1>4, <2>1 DEF Newest
<1>6. t = Newest(Times) \/ t = Newest(Times) + 1
  BY DEF Moments
<1> QED  BY <1>3, <1>5, <1>6

(* The first n of a set: with one, all that are newer; and all, if they are *)
(* fewer.                                                                   *)
LEMMA FirstAre ==
    ASSUME NEW n \in Nat, NEW f \in [Repo -> Nat], NEW S \in SUBSET Repo
    PROVE  /\ Top(n, f, S) \subseteq S
           /\ \A r \in S, e \in Top(n, f, S) : Newer(f, r, e) => r \in Top(n, f, S)
           /\ n # 0 /\ S # {} => Top(n, f, S) # {}
           /\ Cardinality(S) < n => Top(n, f, S) = S
<1> DEFINE Up(r) == {s \in S : Newer(f, s, r)}
<1>1. Top(n, f, S) = {r \in S : Cardinality(Up(r)) < n}
  BY DEF Top
<1>2. \A r \in S : Up(r) \in SUBSET S
  OBVIOUS
<1>3. ASSUME NEW r \in S, NEW e \in Top(n, f, S), Newer(f, r, e) PROVE r \in Top(n, f, S)
  <2>1. e \in S /\ Cardinality(Up(e)) < n
    BY <1>1
  <2>2. Up(r) \subseteq Up(e) /\ Up(e) \in SUBSET Repo
    BY <1>3, <2>1, OrderIs
  <2>3. Cardinality(Up(r)) <= Cardinality(Up(e)) /\ Cardinality(Up(r)) \in Nat
    <3> HIDE DEF Up
    <3> QED  BY <2>2, SmallerIs
  <2>4. Cardinality(Up(e)) \in Nat
    <3> HIDE DEF Up
    <3> QED  BY <1>2, <2>1, SmallerIs
  <2> HIDE DEF Up
  <2> QED  BY <1>1, <2>1, <2>3, <2>4
<1>4. ASSUME n # 0, S # {} PROVE Top(n, f, S) # {}
  <2>1. PICK r \in S : \A s \in S : ~Newer(f, s, r)
    BY <1>4, Foremost
  <2>2. Up(r) = {}
    BY <2>1
  <2>3. Cardinality(Up(r)) = 0
    BY <2>2, FS_EmptySet
  <2> HIDE DEF Up
  <2> QED  BY <1>1, <1>4, <2>3
<1>5. ASSUME Cardinality(S) < n PROVE Top(n, f, S) = S
  <2>1. \A r \in S : Cardinality(Up(r)) \in Nat /\ Cardinality(Up(r)) <= Cardinality(S)
    <3> HIDE DEF Up
    <3> QED  BY <1>2, SmallerIs
  <2>2. Cardinality(S) \in Nat
    BY SmallerIs
  <2> HIDE DEF Up
  <2> QED  BY <1>1, <1>5, <2>1, <2>2
<1> QED  BY <1>1, <1>3, <1>4, <1>5

Position == (Nat \ {0}) \X Repo

LEMMA CursorIs ==
    ASSUME NEW f \in [Repo -> Nat], NEW c \in Position, content \in [Repo -> Nat]
    PROVE  /\ c[1] \in Nat
           /\ \A r \in Listed : (r \notin After(f, c) => f[r] >= c[1])
           /\ \A r \in After(f, c) : r \in Listed /\ (c # None => f[r] <= c[1])
<1>1. c[1] \in Nat /\ c[2] \in Repo /\ c[2] \in Nat
  BY Repos DEF Position
<1>2. \A r \in Listed : r \in Repo /\ f[r] \in Nat
  BY DEF Listed
<1> QED  BY <1>1, <1>2 DEF After

(* What a listing cut at a position left out comes after that position.     *)
LEMMA CutIs ==
    ASSUME NEW n \in Nat \ {0}, NEW f \in [Repo -> Nat], NEW b \in Nat,
           NEW rest \in SUBSET Listed, NEW above, above = {r \in rest : f[r] >= b},
           above # {}, \A r \in Listed : f[r] # 0
    PROVE  LET found == Top(n, f, above)
           IN  /\ EndOf(f, found) \in Position
               /\ \A r \in rest \ found : r \in After(f, EndOf(f, found))
<1> DEFINE found == Top(n, f, above)
<1>1. above \in SUBSET Repo /\ rest \in SUBSET Repo
  BY DEF Listed
<1>2. /\ found \subseteq above /\ found # {}
      /\ \A r \in above, e \in found : Newer(f, r, e) => r \in found
  BY <1>1, FirstAre
<1> HIDE DEF found
<1>3. PICK h \in found : \A s \in found : ~Newer(f, h, s)
  BY <1>1, <1>2, Foremost
<1>4. \A s \in found \ {h} : Newer(f, s, h)
  BY <1>1, <1>2, <1>3, OrderIs
<1> DEFINE e == CHOOSE r \in found : \A s \in found \ {r} : Newer(f, s, r)
<1>5. e \in found /\ \A s \in found \ {e} : Newer(f, s, e)
  BY <1>4
<1>6. EndOf(f, found) = <<f[e], e>>
  BY DEF EndOf
<1> HIDE DEF e
<1>7. e \in Listed /\ e \in Repo /\ f[e] \in Nat /\ f[e] # 0 /\ f[e] >= b
  BY <1>1, <1>2, <1>5
<1>8. ASSUME NEW r \in rest \ found PROVE r \in After(f, <<f[e], e>>)
  <2>1. r \in Listed /\ r \in Repo /\ f[r] \in Nat /\ r \in Nat /\ e \in Nat /\ r # e
    BY <1>1, <1>5, <1>7, Repos
  <2>2. Newer(f, e, r)
    <3>1. CASE f[r] >= b
      BY <1>2, <1>5, <1>7, <2>1, <3>1, OrderIs
    <3>2. CASE ~(f[r] >= b)
      BY <1>7, <2>1, <3>2 DEF Newer
    <3> QED  BY <3>1, <3>2
  <2> QED  BY <1>7, <2>1, <2>2 DEF Newer, After
<1>9. EndOf(f, found) \in Position
  BY <1>6, <1>7 DEF Position
<1> QED  BY <1>6, <1>8, <1>9 DEF found

(* What a sweep of a listing returns, whole or broken off.                  *)
Swept(f, c, b, out) ==
    /\ out.found \subseteq After(f, c)
    /\ out.complete \in BOOLEAN
    /\ out.complete => \A r \in After(f, c) : f[r] >= b => r \in out.found
    /\ ~out.complete => \A r \in After(f, c) \ out.found : r \in After(f, out.cursor)
    /\ out.cursor \in Position \cup {None}
    /\ out.newest = 0 \/ \E r \in After(f, c) : out.newest = f[r]

LEMMA SweepIs ==
    ASSUME NEW f \in [Repo -> Nat], NEW c \in Position \cup {None}, NEW b \in Nat,
           NEW batch \in Nat \ {0}, \A r \in Listed : f[r] # 0
    PROVE  /\ Swept(f, c, b, Sweep(f, c, b, batch))
           /\ After(f, c) # {} => Sweep(f, c, b, batch).newest # 0
           /\ \A out \in Broken(f, c, b, batch) : Swept(f, c, b, out) /\ ~out.complete
<1> DEFINE rest == After(f, c)
           above == {r \in rest : f[r] >= b}
           Cut(n) == Top(n, f, above)
           top == Newest({f[r] : r \in rest})
<1>1. rest \in SUBSET Listed /\ rest \in SUBSET Repo /\ above \in SUBSET Repo /\ above \in SUBSET rest
  BY DEF After, Listed
<1>2. \A n \in Nat : Cut(n) \subseteq above
  BY <1>1, FirstAre
<1>3. \A n \in Nat \ {0} : above # {} => EndOf(f, Cut(n)) \in Position
                             /\ \A r \in rest \ Cut(n) : r \in After(f, EndOf(f, Cut(n)))
  BY <1>1, CutIs
<1>4. (top = 0 \/ \E r \in rest : top = f[r]) /\ (rest # {} => top # 0)
  <2> HIDE DEF rest
  <2> QED  BY <1>1, NewestOf
<1>5. /\ Cut(batch) \subseteq above /\ (above # {} => Cut(batch) # {})
      /\ Cardinality(above) < batch => Cut(batch) = above
  BY <1>1, FirstAre
<1> DEFINE out == Sweep(f, c, b, batch)
<1>6. /\ out.found = Cut(batch) /\ out.newest = top
      /\ out.complete = (Cardinality(above) < batch \/ Cut(batch) = rest)
      /\ out.cursor = IF Cut(batch) = rest \/ Cut(batch) = {} THEN None ELSE EndOf(f, Cut(batch))
  BY DEF Sweep
<1> HIDE DEF out, top
<1>7. Swept(f, c, b, out)
  <2>1. out.complete => \A r \in rest : f[r] >= b => r \in out.found
    <3>1. \A r \in rest : f[r] >= b => r \in above
      OBVIOUS
    <3> HIDE DEF rest, above, Cut
    <3> QED  BY <1>5, <1>6, <3>1
  <2>2. out.cursor \in Position \cup {None}
    <3>1. Cut(batch) # {} => above # {}
      BY <1>5
    <3> HIDE DEF rest, above, Cut
    <3> QED  BY <1>3, <1>6, <3>1
  <2>3. ~out.complete => \A r \in rest \ out.found : r \in After(f, out.cursor)
    <3>1. \A r \in rest : r \in After(f, None)
      BY DEF After
    <3>2. Cut(batch) # {} => above # {}
      BY <1>5
    <3> HIDE DEF rest, above, Cut
    <3> QED  BY <1>3, <1>6, <3>1, <3>2
  <2>4. out.found \subseteq rest
    BY <1>2, <1>6
  <2>5. out.complete \in BOOLEAN
    BY <1>6
  <2> HIDE DEF above, Cut
  <2> QED  BY <1>4, <1>6, <2>1, <2>2, <2>3, <2>4, <2>5 DEF Swept
<1>8. ASSUME NEW cut \in Broken(f, c, b, batch) PROVE Swept(f, c, b, cut) /\ ~cut.complete
  <2>1. PICK n \in {k \in 0..(batch - 1) : k = 0 \/ (k <= Cardinality(above) /\ Cut(k) # rest)} :
           cut = [found |-> Cut(n), newest |-> IF n = 0 THEN 0 ELSE top, complete |-> FALSE,
                  cursor |-> IF n = 0 THEN c ELSE EndOf(f, Cut(n))]
    BY <1>8 DEF Broken, top
  <2>2. n \in Nat /\ (n # 0 => n <= Cardinality(above))
    BY <2>1
  <2>3. n # 0 => above # {}
    <3>1. Cardinality({}) = 0
      BY FS_EmptySet
    <3> HIDE DEF above, Cut
    <3> QED  BY <2>2, <3>1
  <2>4. cut.found \subseteq rest
    BY <1>2, <2>1, <2>2
  <2>5. /\ cut.found = Cut(n) /\ cut.complete = FALSE
        /\ cut.newest = IF n = 0 THEN 0 ELSE top
        /\ cut.cursor = IF n = 0 THEN c ELSE EndOf(f, Cut(n))
    BY <2>1
  <2> HIDE DEF above, Cut
  <2>6. cut.cursor \in Position \cup {None}
    BY <1>3, <2>2, <2>3, <2>5
  <2>7. \A r \in rest \ cut.found : r \in After(f, cut.cursor)
    BY <1>3, <2>2, <2>3, <2>5
  <2> QED  BY <1>4, <2>4, <2>5, <2>6, <2>7 DEF Swept
<1> QED  BY <1>4, <1>6, <1>7, <1>8 DEF out

-----------------------------------------------------------------------------
(* The deferred writes. *)
Write == [marker : Marks, value : Nat \cup BOOLEAN \cup {None} \cup Position]
WritesOf(writes, marker) ==
    {writes[i].value : i \in {j \in DOMAIN writes : writes[j].marker = marker}}

LEMMA NoWrites == <<>> \in Seq(Write) /\ \A k : WritesOf(<<>>, k) = {}
  BY DEF WritesOf

LEMMA SetWrites ==
    ASSUME NEW m \in Marks, NEW v \in Nat \cup BOOLEAN \cup {None} \cup Position
    PROVE  /\ Set(m, v) \in Seq(Write)
           /\ \A k : WritesOf(Set(m, v), k) = IF k = m THEN {v} ELSE {}
<1> DEFINE w == [marker |-> m, value |-> v]
<1>1. w \in Write /\ w.marker = m /\ w.value = v
  BY DEF Write
<1>2. Set(m, v) = <<w>>
  BY DEF Set
<1> HIDE DEF w
<1>3. <<w>> \in Seq(Write) /\ DOMAIN <<w>> = {1} /\ <<w>>[1] = w
  BY <1>1
<1> QED  BY <1>1, <1>2, <1>3 DEF WritesOf

LEMMA WhenWrites ==
    ASSUME NEW p, NEW w \in Seq(Write)
    PROVE  /\ When(p, w) \in Seq(Write)
           /\ \A k : WritesOf(When(p, w), k) = IF p THEN WritesOf(w, k) ELSE {}
  BY NoWrites DEF When

LEMMA JoinWrites ==
    ASSUME NEW u \in Seq(Write), NEW w \in Seq(Write)
    PROVE  /\ u \o w \in Seq(Write)
           /\ \A k : WritesOf(u \o w, k) = WritesOf(u, k) \cup WritesOf(w, k)
<1> DEFINE s == u \o w
<1>1. /\ s \in Seq(Write) /\ DOMAIN s = 1..(Len(u) + Len(w)) /\ Len(u) \in Nat /\ Len(w) \in Nat
      /\ DOMAIN u = 1..Len(u) /\ DOMAIN w = 1..Len(w)
      /\ \A i \in 1..Len(u) : s[i] = u[i]
      /\ \A i \in 1..Len(w) : s[Len(u) + i] = w[i]
      /\ \A i \in DOMAIN s : i \in 1..Len(u) \/ (i - Len(u) \in 1..Len(w) /\ s[i] = w[i - Len(u)])
  OBVIOUS
<1> HIDE DEF s
<1>2. ASSUME NEW k PROVE WritesOf(s, k) = WritesOf(u, k) \cup WritesOf(w, k)
  <2>1. ASSUME NEW v \in WritesOf(s, k) PROVE v \in WritesOf(u, k) \cup WritesOf(w, k)
    BY <1>1, <2>1 DEF WritesOf
  <2>2. ASSUME NEW v \in WritesOf(u, k) PROVE v \in WritesOf(s, k)
    <3>1. PICK i \in DOMAIN u : u[i].marker = k /\ v = u[i].value
      BY DEF WritesOf
    <3>2. i \in DOMAIN s /\ s[i] = u[i]
      BY <1>1, <3>1
    <3> QED  BY <3>1, <3>2 DEF WritesOf
  <2>3. ASSUME NEW v \in WritesOf(w, k) PROVE v \in WritesOf(s, k)
    <3>1. PICK i \in DOMAIN w : w[i].marker = k /\ v = w[i].value
      BY DEF WritesOf
    <3>2. Len(u) + i \in DOMAIN s /\ s[Len(u) + i] = w[i]
      BY <1>1, <3>1
    <3> QED  BY <3>1, <3>2 DEF WritesOf
  <2> QED  BY <2>1, <2>2, <2>3
<1> QED  BY <1>1, <1>2 DEF s

LEMMA GreatestOf ==
    ASSUME NEW S \in SUBSET Nat, S # {}, NEW b \in Nat, \A x \in S : x <= b
    PROVE  Max(S) \in S
<1> DEFINE T == {b - x : x \in S}
<1>1. T \in SUBSET Nat /\ T # {}
  <2>1. \A x \in S : b - x \in Nat
    OBVIOUS
  <2> QED  BY <2>1
<1>2. PICK t \in T : \A y \in T : t <= y
  BY <1>1, LeastNatural
<1>3. PICK x \in S : t = b - x
  OBVIOUS
<1>4. ASSUME NEW y \in S PROVE y <= x
  <2>1. b - y \in T /\ y \in Int /\ x \in Int
    OBVIOUS
  <2>2. t <= b - y
    BY <1>2, <2>1
  <2> QED  BY <1>3, <2>1, <2>2
<1> QED  BY <1>4 DEF Max

LEMMA LatestIs ==
    ASSUME NEW w \in Seq(Write), NEW k, NEW old
    PROVE  /\ WritesOf(w, k) = {} => Latest(w, k, old) = old
           /\ WritesOf(w, k) # {} => Latest(w, k, old) \in WritesOf(w, k)
<1> DEFINE at == {i \in DOMAIN w : w[i].marker = k}
<1>1. at \in SUBSET Nat /\ Len(w) \in Nat /\ \A i \in at : i <= Len(w)
  OBVIOUS
<1>2. WritesOf(w, k) = {w[i].value : i \in at}
  BY DEF WritesOf
<1>3. Latest(w, k, old) = IF at = {} THEN old ELSE w[Max(at)].value
  BY DEF Latest
<1> HIDE DEF at
<1>4. at # {} => Max(at) \in at
  BY <1>1, GreatestOf
<1> QED  BY <1>2, <1>3, <1>4

LEMMA PartWrites ==
    ASSUME NEW w \in Seq(Write), NEW n \in 1..(Len(w) - 1)
    PROVE  /\ SubSeq(w, 1, n) \in Seq(Write)
           /\ \A k : WritesOf(SubSeq(w, 1, n), k) \subseteq WritesOf(w, k)
<1> DEFINE s == SubSeq(w, 1, n)
<1>1. /\ s \in Seq(Write) /\ DOMAIN s = 1..n /\ DOMAIN w = 1..Len(w) /\ n <= Len(w)
      /\ \A i \in 1..n : s[i] = w[i] /\ i \in 1..Len(w)
  OBVIOUS
<1> HIDE DEF s
<1> QED  BY <1>1 DEF WritesOf, s

LEMMA WrittenIs ==
    ASSUME NEW out, out.cursor \in Position \cup {None}, out.newest \in Nat, out.complete \in BOOLEAN,
           mark.resumeNewest \in Nat, mark.bookmark \in Nat
    PROVE  /\ LET w == BacklogWrites(out)
              IN  /\ w \in Seq(Write)
                  /\ \A k : WritesOf(w, k) =
                        IF k = "cursor" THEN {IF out.complete THEN None ELSE out.cursor}
                        ELSE IF k = "recent" /\ mark.recent = 0 /\ out.newest # 0 THEN {out.newest}
                        ELSE IF k = "walked" /\ out.complete THEN {TRUE} ELSE {}
           /\ LET w == RecentWrites(out)
              IN  /\ w \in Seq(Write)
                  /\ \A k : WritesOf(w, k) =
                        IF k = "recent" /\ out.complete /\ out.newest > mark.recent
                        THEN {out.newest} ELSE {}
           /\ LET w == ChangedWrites(out)
                  newest == Newest({mark.resumeNewest, out.newest})
                  settled == mark.bookmark = 0 \/ out.complete
              IN  /\ w \in Seq(Write)
                  /\ \A k : WritesOf(w, k) =
                        IF k = "resume" THEN {IF settled THEN None ELSE out.cursor}
                        ELSE IF k = "resumeNewest" /\ settled THEN {0}
                        ELSE IF k = "resumeNewest" /\ newest # 0 THEN {newest}
                        ELSE IF k = "bookmark" /\ settled /\ newest > mark.bookmark THEN {newest}
                        ELSE {}
<1>1. {"cursor", "walked", "recent", "bookmark", "resume", "resumeNewest"} = Marks
  BY DEF Marks
<1> DEFINE Value == Nat \cup BOOLEAN \cup {None} \cup Position
           newest == Newest({mark.resumeNewest, out.newest})
           end == IF out.complete THEN None ELSE out.cursor
<1>2. newest \in Nat
  BY NewestPair
<1>3. end \in Value /\ out.cursor \in Value /\ None \in Value /\ TRUE \in Value
      /\ \A n \in Nat : n \in Value
  OBVIOUS
<1> HIDE DEF Value, newest, end
<1>4. \A m \in Marks, v \in Value : /\ Set(m, v) \in Seq(Write)
                                    /\ \A k : WritesOf(Set(m, v), k) = IF k = m THEN {v} ELSE {}
  BY SetWrites DEF Value
<1>5. \A p, w : w \in Seq(Write) =>
         /\ When(p, w) \in Seq(Write)
         /\ \A k : WritesOf(When(p, w), k) = IF p THEN WritesOf(w, k) ELSE {}
  BY WhenWrites
<1>6. \A u, w \in Seq(Write) : /\ u \o w \in Seq(Write)
                               /\ \A k : WritesOf(u \o w, k) = WritesOf(u, k) \cup WritesOf(w, k)
  BY JoinWrites
<1>7. LET w == BacklogWrites(out)
      IN  /\ w \in Seq(Write)
          /\ \A k : WritesOf(w, k) =
                IF k = "cursor" THEN {end}
                ELSE IF k = "recent" /\ mark.recent = 0 /\ out.newest # 0 THEN {out.newest}
                ELSE IF k = "walked" /\ out.complete THEN {TRUE} ELSE {}
  <2> DEFINE c == Set("cursor", end)
             d == Set("recent", out.newest)
             e == Set("walked", TRUE)
             p == mark.recent = 0 /\ out.newest # 0
             wd == When(p, d)
             we == When(out.complete, e)
  <2>1. BacklogWrites(out) = (c \o wd) \o we
    BY DEF BacklogWrites, end
  <2>2. /\ c \in Seq(Write) /\ \A k : WritesOf(c, k) = IF k = "cursor" THEN {end} ELSE {}
        /\ d \in Seq(Write) /\ \A k : WritesOf(d, k) = IF k = "recent" THEN {out.newest} ELSE {}
        /\ e \in Seq(Write) /\ \A k : WritesOf(e, k) = IF k = "walked" THEN {TRUE} ELSE {}
    BY <1>1, <1>3, <1>4
  <2> HIDE DEF c, d, e, p
  <2>3. /\ wd \in Seq(Write) /\ \A k : WritesOf(wd, k) = IF p THEN WritesOf(d, k) ELSE {}
        /\ we \in Seq(Write) /\ \A k : WritesOf(we, k) = IF out.complete THEN WritesOf(e, k) ELSE {}
    BY <1>5, <2>2
  <2> HIDE DEF wd, we
  <2>4. /\ c \o wd \in Seq(Write)
        /\ \A k : WritesOf(c \o wd, k) = WritesOf(c, k) \cup WritesOf(wd, k)
    BY <1>6, <2>2, <2>3
  <2>5. /\ (c \o wd) \o we \in Seq(Write)
        /\ \A k : WritesOf((c \o wd) \o we, k) = WritesOf(c \o wd, k) \cup WritesOf(we, k)
    BY <1>6, <2>3, <2>4
  <2>6. ASSUME NEW k
        PROVE  WritesOf((c \o wd) \o we, k) =
                  WritesOf(c, k) \cup (IF p THEN WritesOf(d, k) ELSE {})
                                \cup (IF out.complete THEN WritesOf(e, k) ELSE {})
    BY <2>3, <2>4, <2>5
  <2>7. ASSUME NEW k
        PROVE  WritesOf((c \o wd) \o we, k) =
                  IF k = "cursor" THEN {end} ELSE IF k = "recent" /\ p THEN {out.newest}
                  ELSE IF k = "walked" /\ out.complete THEN {TRUE} ELSE {}
    <3>1. CASE k = "cursor"
      <4>1. WritesOf(c, k) = {end} /\ WritesOf(d, k) = {} /\ WritesOf(e, k) = {}
        BY <2>2, <3>1
      <4> QED  BY <2>6, <3>1, <4>1
    <3>2. CASE k = "recent"
      BY <2>2, <2>6, <3>2
    <3>3. CASE k = "walked"
      BY <2>2, <2>6, <3>3
    <3>4. CASE k \notin {"cursor", "recent", "walked"}
      BY <2>2, <2>6, <3>4
    <3> QED  BY <3>1, <3>2, <3>3, <3>4
  <2> QED  BY <2>1, <2>5, <2>7 DEF p
<1>8. LET w == RecentWrites(out)
      IN  /\ w \in Seq(Write)
          /\ \A k : WritesOf(w, k) =
                IF k = "recent" /\ out.complete /\ out.newest > mark.recent THEN {out.newest} ELSE {}
  <2> DEFINE d == Set("recent", out.newest)
             p == out.complete /\ out.newest > mark.recent
  <2>1. RecentWrites(out) = When(p, d)
    BY DEF RecentWrites
  <2>2. d \in Seq(Write) /\ \A k : WritesOf(d, k) = IF k = "recent" THEN {out.newest} ELSE {}
    BY <1>1, <1>3, <1>4
  <2> HIDE DEF d, p
  <2>3. When(p, d) \in Seq(Write) /\ \A k : WritesOf(When(p, d), k) = IF p THEN WritesOf(d, k) ELSE {}
    BY <1>5, <2>2
  <2>4. \A k : WritesOf(When(p, d), k) = IF k = "recent" /\ p THEN {out.newest} ELSE {}
    BY <2>2, <2>3
  <2> QED  BY <2>1, <2>3, <2>4 DEF p
<1>9. LET w == ChangedWrites(out)
          settled == mark.bookmark = 0 \/ out.complete
      IN  /\ w \in Seq(Write)
          /\ \A k : WritesOf(w, k) =
                IF k = "resume" THEN {IF settled THEN None ELSE out.cursor}
                ELSE IF k = "resumeNewest" /\ settled THEN {0}
                ELSE IF k = "resumeNewest" /\ newest # 0 THEN {newest}
                ELSE IF k = "bookmark" /\ settled /\ newest > mark.bookmark THEN {newest}
                ELSE {}
  <2> DEFINE a == Set("resume", None)
             z == Set("resumeNewest", 0)
             b == Set("bookmark", newest)
             c == Set("resume", out.cursor)
             d == Set("resumeNewest", newest)
  <2>1. /\ a \in Seq(Write) /\ \A k : WritesOf(a, k) = IF k = "resume" THEN {None} ELSE {}
        /\ z \in Seq(Write) /\ \A k : WritesOf(z, k) = IF k = "resumeNewest" THEN {0} ELSE {}
        /\ b \in Seq(Write) /\ \A k : WritesOf(b, k) = IF k = "bookmark" THEN {newest} ELSE {}
        /\ c \in Seq(Write) /\ \A k : WritesOf(c, k) = IF k = "resume" THEN {out.cursor} ELSE {}
        /\ d \in Seq(Write) /\ \A k : WritesOf(d, k) = IF k = "resumeNewest" THEN {newest} ELSE {}
    BY <1>1, <1>2, <1>3, <1>4
  <2>2. ChangedWrites(out) =
           IF mark.bookmark = 0 THEN (a \o z) \o When(newest # 0, b)
           ELSE IF out.complete THEN (a \o z) \o When(newest > mark.bookmark, b)
           ELSE c \o When(newest # 0, d)
    BY DEF ChangedWrites, newest
  <2> HIDE DEF a, z, b, c, d
  <2>3. /\ a \o z \in Seq(Write)
        /\ \A k : WritesOf(a \o z, k) = WritesOf(a, k) \cup WritesOf(z, k)
    BY <1>6, <2>1
  <2>4. \A p : /\ When(p, b) \in Seq(Write) /\ When(p, d) \in Seq(Write)
               /\ \A k : /\ WritesOf(When(p, b), k) = IF p THEN WritesOf(b, k) ELSE {}
                         /\ WritesOf(When(p, d), k) = IF p THEN WritesOf(d, k) ELSE {}
    BY <1>5, <2>1
  <2>5. \A p : /\ (a \o z) \o When(p, b) \in Seq(Write)
               /\ \A k : WritesOf((a \o z) \o When(p, b), k) =
                            WritesOf(a, k) \cup WritesOf(z, k) \cup (IF p THEN WritesOf(b, k) ELSE {})
    <3> TAKE p
    <3> DEFINE x == a \o z
               y == When(p, b)
    <3>1. x \in Seq(Write) /\ y \in Seq(Write)
          /\ \A k : /\ WritesOf(x, k) = WritesOf(a, k) \cup WritesOf(z, k)
                    /\ WritesOf(y, k) = IF p THEN WritesOf(b, k) ELSE {}
      BY <2>3, <2>4
    <3> HIDE DEF x, y
    <3>2. x \o y \in Seq(Write) /\ \A k : WritesOf(x \o y, k) = WritesOf(x, k) \cup WritesOf(y, k)
      BY <1>6, <3>1
    <3> QED  BY <3>1, <3>2 DEF x, y
  <2>6. \A p : /\ c \o When(p, d) \in Seq(Write)
               /\ \A k : WritesOf(c \o When(p, d), k) =
                            WritesOf(c, k) \cup (IF p THEN WritesOf(d, k) ELSE {})
    BY <1>6, <2>1, <2>4
  <2>7. newest > 0 <=> newest # 0
    BY <1>2
  <2>8. CASE mark.bookmark = 0
    <3>1. ChangedWrites(out) = (a \o z) \o When(newest # 0, b)
      BY <2>2, <2>8
    <3> DEFINE w == (a \o z) \o When(newest # 0, b)
    <3>2. w \in Seq(Write)
      BY <2>5
    <3>3. \A k : WritesOf(w, k) = WritesOf(a, k) \cup WritesOf(z, k) \cup (IF newest # 0 THEN WritesOf(b, k) ELSE {})
      BY <2>5
    <3> HIDE DEF w
    <3>4. ASSUME NEW k
          PROVE  WritesOf(w, k) =
                IF k = "resume" THEN {IF mark.bookmark = 0 \/ out.complete THEN None ELSE out.cursor}
                ELSE IF k = "resumeNewest" /\ (mark.bookmark = 0 \/ out.complete) THEN {0}
                ELSE IF k = "resumeNewest" /\ newest # 0 THEN {newest}
                ELSE IF k = "bookmark" /\ (mark.bookmark = 0 \/ out.complete) /\ newest > mark.bookmark THEN {newest}
                ELSE {}
      <4>1. CASE k = "resume"
        BY <2>1, <2>8, <3>3, <4>1
      <4>2. CASE k = "resumeNewest"
        BY <2>1, <2>8, <3>3, <4>2
      <4>3. CASE k = "bookmark"
        BY <2>1, <2>7, <2>8, <3>3, <4>3
      <4>4. CASE k \notin {"resume", "resumeNewest", "bookmark"}
        BY <2>1, <3>3, <4>4
      <4> QED  BY <4>1, <4>2, <4>3, <4>4
    <3> QED  BY <3>1, <3>2, <3>4 DEF w
  <2>9. CASE mark.bookmark # 0 /\ out.complete
    <3>1. ChangedWrites(out) = (a \o z) \o When(newest > mark.bookmark, b)
      BY <2>2, <2>9
    <3> DEFINE w == (a \o z) \o When(newest > mark.bookmark, b)
    <3>2. w \in Seq(Write)
      BY <2>5
    <3>3. \A k : WritesOf(w, k) = WritesOf(a, k) \cup WritesOf(z, k)
                                      \cup (IF newest > mark.bookmark THEN WritesOf(b, k) ELSE {})
      BY <2>5
    <3> HIDE DEF w
    <3>4. ASSUME NEW k
          PROVE  WritesOf(w, k) =
                IF k = "resume" THEN {IF mark.bookmark = 0 \/ out.complete THEN None ELSE out.cursor}
                ELSE IF k = "resumeNewest" /\ (mark.bookmark = 0 \/ out.complete) THEN {0}
                ELSE IF k = "resumeNewest" /\ newest # 0 THEN {newest}
                ELSE IF k = "bookmark" /\ (mark.bookmark = 0 \/ out.complete) /\ newest > mark.bookmark THEN {newest}
                ELSE {}
      <4>1. CASE k = "resume"
        BY <2>1, <2>9, <3>3, <4>1
      <4>2. CASE k = "resumeNewest"
        BY <2>1, <2>9, <3>3, <4>2
      <4>3. CASE k = "bookmark"
        BY <2>1, <2>7, <2>9, <3>3, <4>3
      <4>4. CASE k \notin {"resume", "resumeNewest", "bookmark"}
        BY <2>1, <3>3, <4>4
      <4> QED  BY <4>1, <4>2, <4>3, <4>4
    <3> QED  BY <3>1, <3>2, <3>4 DEF w
  <2>10. CASE mark.bookmark # 0 /\ ~out.complete
    <3>1. ChangedWrites(out) = c \o When(newest # 0, d)
      BY <2>2, <2>10
    <3> DEFINE w == c \o When(newest # 0, d)
    <3>2. w \in Seq(Write)
      BY <2>6
    <3>3. \A k : WritesOf(w, k) = WritesOf(c, k) \cup (IF newest # 0 THEN WritesOf(d, k) ELSE {})
      BY <2>6
    <3> HIDE DEF w
    <3>4. ASSUME NEW k
          PROVE  WritesOf(w, k) =
                IF k = "resume" THEN {IF mark.bookmark = 0 \/ out.complete THEN None ELSE out.cursor}
                ELSE IF k = "resumeNewest" /\ (mark.bookmark = 0 \/ out.complete) THEN {0}
                ELSE IF k = "resumeNewest" /\ newest # 0 THEN {newest}
                ELSE IF k = "bookmark" /\ (mark.bookmark = 0 \/ out.complete) /\ newest > mark.bookmark THEN {newest}
                ELSE {}
      <4>1. CASE k = "resume"
        BY <2>1, <2>10, <3>3, <4>1
      <4>2. CASE k = "resumeNewest"
        BY <2>1, <2>10, <3>3, <4>2
      <4>3. CASE k = "bookmark"
        BY <2>1, <2>7, <2>10, <3>3, <4>3
      <4>4. CASE k \notin {"resume", "resumeNewest", "bookmark"}
        BY <2>1, <3>3, <4>4
      <4> QED  BY <4>1, <4>2, <4>3, <4>4
    <3> QED  BY <3>1, <3>2, <3>4 DEF w
  <2> QED  BY <2>8, <2>9, <2>10
<1> QED  BY <1>7, <1>8, <1>9 DEF newest, end

-----------------------------------------------------------------------------
(***************************************************************************)
(* The invariant.  What is deferred may be written whole, in part or not   *)
(* at all, so a marker stands for all the values it may be left with.      *)
(***************************************************************************)
MarkRec == [cursor : Position \cup {None}, walked : BOOLEAN, recent : Nat,
            bookmark : Nat, resume : Position \cup {None}, resumeNewest : Nat]

Left(m, w) ==
    [cursor       |-> {m.cursor} \cup WritesOf(w, "cursor"),
     walked       |-> {m.walked} \cup WritesOf(w, "walked"),
     recent       |-> {m.recent} \cup WritesOf(w, "recent"),
     bookmark     |-> {m.bookmark} \cup WritesOf(w, "bookmark"),
     resume       |-> {m.resume} \cup WritesOf(w, "resume"),
     resumeNewest |-> {m.resumeNewest} \cup WritesOf(w, "resumeNewest")]

\* A repository r of the time t comes after the position c of a listing.
Beyond(r, t, c) == c = None \/ t < c[1] \/ (t = c[1] /\ r < c[2])

\* The repository, of these times, is still to come: in the walk, among the
\* newest, among the last modified.
Back(r, t, L) == TRUE \notin L.walked /\ \A c \in L.cursor : Beyond(r, t, c)
Rec(t, L) == L.recent # {0} /\ \A x \in L.recent : x <= t
Book(r, u, L) ==
    /\ L.bookmark # {0} /\ \A x \in L.bookmark : x <= u
    /\ \A c \in L.resume, x \in L.resumeNewest : Beyond(r, u, c) \/ x <= u
ToCome(r, t, u, L) == Back(r, t, L) \/ Rec(t, L) \/ Book(r, u, L)

OnDisk(r) == ToCome(r, created[r], modified[r], Left(mark, <<>>))
Kept(r) == r \in toScan \/ ToCome(r, created[r], modified[r], Left(mark, pending))

IndexTypes ==
    /\ created \in [Repo -> Nat] /\ modified \in [Repo -> Nat] /\ content \in [Repo -> Nat]
    /\ live \in [Repo -> Nat] /\ phase \in {"idle", "recent", "changed", "scan"}
    /\ toScan \subseteq Repo /\ lookups \in Seq(Repo)
    /\ mark \in MarkRec /\ pending \in Seq(Write)
    /\ DOMAIN verifying \subseteq Repo

Timed ==
    /\ Listed # {}
    /\ \A r \in Repo : /\ content[r] # 0 \/ live[r] # 0 \/ r \in toScan => created[r] # 0
                       /\ created[r] # 0 => modified[r] # 0

Bounded(x) == x \in Nat /\ \E u \in Times : x <= u
LeftInv ==
    LET L == Left(mark, pending)
    IN  /\ WritesOf(pending, "walked") \subseteq {TRUE}
        /\ L.cursor \cup L.resume \subseteq Position \cup {None}
        /\ \A x \in L.recent \cup L.bookmark \cup L.resumeNewest : Bounded(x)
        /\ 0 \notin WritesOf(pending, "recent") \cup WritesOf(pending, "bookmark")

Fresh == mark = FreshMarks
Stages ==
    /\ Fresh \/ (mark.bookmark # 0 /\ mark.recent # 0)
    /\ phase = "idle" => toScan = {} /\ pending = <<>>
    /\ phase # "idle" /\ Fresh => WritesOf(pending, "recent") # {}
    /\ phase \in {"recent", "changed"} =>
          /\ WritesOf(pending, "bookmark") = {} /\ WritesOf(pending, "resume") = {}
          /\ WritesOf(pending, "resumeNewest") = {}
    /\ phase = "scan" /\ Fresh => WritesOf(pending, "bookmark") # {}

KeptInv ==
    \A r \in Listed :
       /\ Owed(r) => OnDisk(r) /\ Kept(r)
       /\ Fresh /\ phase \in {"recent", "changed"} => Kept(r)

FetchInv ==
    fetched # None =>
       /\ phase = "scan" /\ fetched.repo \in toScan /\ fetched.content \in Nat
       /\ fetched.repo \in Listed =>
            \/ fetched.content = content[fetched.repo]
            \/ Book(fetched.repo, modified[fetched.repo], Left(mark, pending))
VerifyInv ==
    \A r \in DOMAIN verifying :
       /\ r \in ToSet(lookups) /\ verifying[r] \in Nat /\ created[r] # 0
       /\ verifying[r] = 0 => content[r] = 0

IndexInv == IndexTypes /\ Timed /\ LeftInv /\ Stages /\ KeptInv /\ FetchInv /\ VerifyInv

\* The catalogue is not empty, and neither is a scan given up (its error is
\* not retried) nor a fault met before the first sweep has seeded the bookmark.
Seeded == Existing # {} /\ "scan" \notin Fault /\ "unseeded" \notin Fault

(* What a marker of fewer possible values leaves.                           *)
LEMMA FewerLeft ==
    ASSUME NEW L, NEW M, NEW r, NEW t, NEW u,
           M.cursor \subseteq L.cursor, M.walked \subseteq L.walked,
           M.recent \subseteq L.recent, M.bookmark \subseteq L.bookmark,
           M.resume \subseteq L.resume, M.resumeNewest \subseteq L.resumeNewest,
           M.recent = {0} => L.recent = {0}, M.bookmark = {0} => L.bookmark = {0}
    PROVE  /\ Back(r, t, L) => Back(r, t, M)
           /\ Rec(t, L) => Rec(t, M)
           /\ Book(r, u, L) => Book(r, u, M)
           /\ ToCome(r, t, u, L) => ToCome(r, t, u, M)
<1>1. Back(r, t, L) => Back(r, t, M)
  BY DEF Back
<1>2. Rec(t, L) => Rec(t, M)
  BY DEF Rec
<1>3. Book(r, u, L) => Book(r, u, M)
  BY DEF Book
<1> QED  BY <1>1, <1>2, <1>3 DEF ToCome

LEMMA LeftIs ==
    ASSUME NEW m, NEW w
    PROVE  /\ Left(m, w).cursor = {m.cursor} \cup WritesOf(w, "cursor")
           /\ Left(m, w).walked = {m.walked} \cup WritesOf(w, "walked")
           /\ Left(m, w).recent = {m.recent} \cup WritesOf(w, "recent")
           /\ Left(m, w).bookmark = {m.bookmark} \cup WritesOf(w, "bookmark")
           /\ Left(m, w).resume = {m.resume} \cup WritesOf(w, "resume")
           /\ Left(m, w).resumeNewest = {m.resumeNewest} \cup WritesOf(w, "resumeNewest")
  BY DEF Left

LEMMA NoneLeft ==
    ASSUME NEW m
    PROVE  /\ Left(m, <<>>).cursor = {m.cursor}
           /\ Left(m, <<>>).walked = {m.walked}
           /\ Left(m, <<>>).recent = {m.recent}
           /\ Left(m, <<>>).bookmark = {m.bookmark}
           /\ Left(m, <<>>).resume = {m.resume}
           /\ Left(m, <<>>).resumeNewest = {m.resumeNewest}
  BY LeftIs, NoWrites

LEMMA MarksAre ==
    ASSUME NEW m \in MarkRec
    PROVE  /\ m.cursor \in Position \cup {None} /\ m.walked \in BOOLEAN /\ m.recent \in Nat
           /\ m.bookmark \in Nat /\ m.resume \in Position \cup {None} /\ m.resumeNewest \in Nat
  BY DEF MarkRec

LEMMA FreshAre ==
    /\ FreshMarks.cursor = None /\ FreshMarks.walked = FALSE /\ FreshMarks.recent = 0
    /\ FreshMarks.bookmark = 0 /\ FreshMarks.resume = None /\ FreshMarks.resumeNewest = 0
    /\ FreshMarks \in MarkRec
  BY DEF FreshMarks, MarkRec

(* With fresh markers the walk has everything before it.                    *)
LEMMA FreshOnDisk ==
    ASSUME NEW r, NEW t, NEW u PROVE ToCome(r, t, u, Left(FreshMarks, <<>>))
<1> DEFINE L == Left(FreshMarks, <<>>)
<1>1. L.walked = {FreshMarks.walked} /\ L.cursor = {None}
  BY FreshAre, NoneLeft
<1>2. TRUE \notin {FreshMarks.walked}
  BY FreshAre
<1> HIDE DEF L
<1>3. Back(r, t, L)
  BY <1>1, <1>2 DEF Back, Beyond
<1> QED  BY <1>3 DEF ToCome, L

(* What is on disk is among what may be there.                              *)
LEMMA BookOnDisk ==
    ASSUME NEW m, NEW w, NEW r, NEW t, NEW u, Book(r, u, Left(m, w)), m.bookmark # 0
    PROVE  ToCome(r, t, u, Left(m, <<>>))
  BY LeftIs, NoneLeft DEF ToCome, Book

LEMMA DiskIsAhead ==
    ASSUME IndexTypes, NEW r \in Listed, OnDisk(r) PROVE Ahead(r)
<1> DEFINE L == Left(mark, <<>>)
<1>1. /\ L.cursor = {mark.cursor} /\ L.walked = {mark.walked} /\ L.recent = {mark.recent}
      /\ L.bookmark = {mark.bookmark}
  BY NoneLeft
<1>2. mark.walked \in BOOLEAN /\ mark.recent \in Nat /\ mark.bookmark \in Nat
      /\ created[r] \in Nat /\ modified[r] \in Nat
  BY MarksAre DEF IndexTypes, Listed
<1>3. Back(r, created[r], L) \/ Rec(created[r], L) \/ Book(r, modified[r], L)
  BY DEF OnDisk, ToCome
<1> HIDE DEF L
<1>4. CASE Back(r, created[r], L)
  <2>1. ~mark.walked /\ Beyond(r, created[r], mark.cursor)
    BY <1>1, <1>2, <1>4 DEF Back
  <2> QED  BY <2>1 DEF Ahead, After, Beyond
<1>5. CASE Rec(created[r], L)
  BY <1>1, <1>2, <1>5 DEF Rec, Ahead
<1>6. CASE Book(r, modified[r], L)
  BY <1>1, <1>2, <1>6 DEF Book, Ahead
<1> QED  BY <1>3, <1>4, <1>5, <1>6

LEMMA InvSkipsNothing == IndexInv => NothingSkipped
<1> SUFFICES ASSUME IndexInv, NEW r \in Repo, Owed(r) PROVE Ahead(r)
  BY DEF NothingSkipped
<1>1. r \in Listed /\ OnDisk(r)
  BY DEF IndexInv, KeptInv, Owed
<1> QED  BY <1>1, DiskIsAhead DEF IndexInv

LEMMA IndexStart == Seeded /\ Init => IndexInv
<1> SUFFICES ASSUME Seeded, Init PROVE IndexInv
  OBVIOUS
<1>1. Newest(Existing) \in Nat
  <2> DEFINE f == [r \in Repo |-> r]
  <2>1. f \in [Repo -> Nat] /\ Existing = {f[r] : r \in Existing}
    BY Repos
  <2> HIDE DEF f
  <2> QED  BY <2>1, NewestOf, Repos
<1>2. /\ created \in [Repo -> Nat] /\ modified \in [Repo -> Nat] /\ content \in [Repo -> Nat]
      /\ live \in [Repo -> Nat] /\ mark = FreshMarks /\ phase = "idle" /\ toScan = {}
      /\ pending = <<>> /\ fetched = None /\ DOMAIN verifying = {} /\ lookups = <<>>
  BY <1>1, Repos DEF Init
<1>3. IndexTypes
  BY <1>2, FreshAre, NoWrites DEF IndexTypes
<1>4. Timed
  <2>1. \A r \in Repo : /\ content[r] # 0 => r \in Existing
                        /\ created[r] # 0 => r \in Existing
                        /\ r \in Existing => content[r] # 0 /\ created[r] # 0 /\ modified[r] >= r
                        /\ live[r] = 0 /\ modified[r] \in Nat
    BY <1>2, Repos DEF Init
  <2>2. Listed # {}
    BY <2>1, Repos DEF Listed, Seeded
  <2>3. \A r \in Existing : r \in Nat \ {0}
    BY Repos
  <2> QED  BY <1>2, <2>1, <2>2, <2>3 DEF Timed
<1>5. \A k : WritesOf(pending, k) = {}
  BY <1>2, NoWrites
<1>6. /\ Left(mark, pending).cursor = {None} /\ Left(mark, pending).resume = {None}
      /\ Left(mark, pending).recent = {0} /\ Left(mark, pending).bookmark = {0}
      /\ Left(mark, pending).resumeNewest = {0}
  BY <1>2, NoneLeft, FreshAre
<1>7. Bounded(0)
  <2>1. PICK r : r \in Listed
    BY <1>4 DEF Timed
  <2>2. created[r] \in Nat /\ created[r] \in Times
    BY <1>2, <2>1 DEF Listed, Times
  <2> QED  BY <2>2 DEF Bounded
<1>8. LeftInv
  BY <1>5, <1>6, <1>7 DEF LeftInv
<1>9. Stages
  BY <1>2 DEF Stages, Fresh
<1>10. KeptInv
  BY <1>2, FreshOnDisk DEF KeptInv, OnDisk, Kept
<1>11. FetchInv /\ VerifyInv
  BY <1>2 DEF FetchInv, VerifyInv
<1> QED  BY <1>3, <1>4, <1>8, <1>9, <1>10, <1>11 DEF IndexInv

(* A repository whose time is the latest is before the bookmarks, or before *)
(* the walk that has not begun, or among the newest of the first tick.      *)
LEMMA LatestToCome ==
    ASSUME IndexInv, NEW t \in Nat, \A u \in Times : u \in Nat /\ u <= t, NEW r, NEW e
    PROVE  /\ ToCome(r, e, t, Left(mark, <<>>))
           /\ ~(Fresh /\ phase \in {"recent", "changed"}) => ToCome(r, e, t, Left(mark, pending))
           /\ Fresh /\ phase \in {"recent", "changed"} => Rec(t, Left(mark, pending))
           /\ phase = "scan" => Book(r, t, Left(mark, pending))
<1> DEFINE L == Left(mark, pending)
<1>1. \A x \in L.recent \cup L.bookmark \cup L.resumeNewest : x <= t
  <2> TAKE x \in L.recent \cup L.bookmark \cup L.resumeNewest
  <2>1. x \in Nat /\ \E u \in Times : x <= u
    BY DEF IndexInv, LeftInv, Bounded
  <2> QED  BY <2>1
<1>2. L.bookmark # {0} => Book(r, t, L)
  BY <1>1 DEF Book
<1>3. mark.bookmark # 0 => L.bookmark # {0}
  BY LeftIs
<1>4. WritesOf(pending, "bookmark") # {} => L.bookmark # {0}
  BY LeftIs DEF IndexInv, LeftInv
<1>5. WritesOf(pending, "recent") # {} => L.recent # {0}
  BY LeftIs DEF IndexInv, LeftInv
<1> HIDE DEF L
<1>6. mark.bookmark # 0 => Book(r, t, L)
  BY <1>2, <1>3
<1>7. Fresh \/ mark.bookmark # 0
  BY DEF IndexInv, Stages
<1>8. ToCome(r, e, t, Left(mark, <<>>))
  <2>1. CASE Fresh
    BY <2>1, FreshOnDisk DEF Fresh
  <2>2. CASE mark.bookmark # 0
    BY <1>6, <2>2, BookOnDisk DEF L
  <2> QED  BY <1>7, <2>1, <2>2
<1>9. phase = "scan" => Book(r, t, L)
  BY <1>2, <1>4, <1>6, <1>7 DEF IndexInv, Stages
<1>10. Fresh /\ phase \in {"recent", "changed"} => Rec(t, L)
  <2> SUFFICES ASSUME Fresh, phase \in {"recent", "changed"} PROVE Rec(t, L)
    OBVIOUS
  <2>1. WritesOf(pending, "recent") # {}
    BY DEF IndexInv, Stages
  <2> QED  BY <1>1, <1>5, <2>1 DEF Rec
<1>11. ~(Fresh /\ phase \in {"recent", "changed"}) => ToCome(r, e, t, L)
  <2>1. CASE Fresh /\ phase = "idle"
    <3>1. mark = FreshMarks /\ pending = <<>>
      BY <2>1 DEF IndexInv, Stages, Fresh
    <3> QED  BY <3>1, FreshOnDisk DEF L
  <2>2. CASE phase = "scan"
    BY <1>9, <2>2 DEF ToCome
  <2>3. CASE ~Fresh
    BY <1>6, <1>7, <2>3 DEF ToCome
  <2>4. phase \in {"idle", "recent", "changed", "scan"}
    BY DEF IndexInv, IndexTypes
  <2> QED  BY <2>1, <2>2, <2>3, <2>4
<1> QED  BY <1>8, <1>9, <1>10, <1>11 DEF L

(* An edit of one repository.                                               *)
LEMMA EditKeeps ==
    ASSUME IndexInv, NEW r \in Repo, UNCHANGED <<live, mark, tick, verifying, lookups>>,
           created' \in [Repo -> Nat], modified' \in [Repo -> Nat], content' \in [Repo -> Nat],
           \A s \in Repo \ {r} : /\ created'[s] = created[s] /\ modified'[s] = modified[s]
                                 /\ content'[s] = content[s],
           \A u \in Times : \E v \in Times' : u <= v /\ u \in Nat /\ v \in Nat,
           Listed' # {},
           content'[r] # 0 \/ live[r] # 0 \/ r \in toScan => created'[r] # 0,
           created'[r] # 0 => modified'[r] # 0,
           content'[r] # 0 =>
              /\ Owed(r)' => /\ ToCome(r, created'[r], modified'[r], Left(mark, <<>>))
                             /\ \/ r \in toScan
                                \/ ToCome(r, created'[r], modified'[r], Left(mark, pending))
              /\ Fresh /\ phase \in {"recent", "changed"} =>
                    \/ r \in toScan
                    \/ ToCome(r, created'[r], modified'[r], Left(mark, pending)),
           fetched # None /\ fetched.repo = r /\ content'[r] # 0 =>
              fetched.content = content'[r] \/ Book(r, modified'[r], Left(mark, pending)),
           r \in DOMAIN verifying => created'[r] # 0 /\ (verifying[r] = 0 => content'[r] = 0)
    PROVE  IndexInv'
<1>0. /\ live' = live /\ mark' = mark /\ phase' = phase /\ toScan' = toScan /\ pending' = pending
      /\ fetched' = fetched /\ verifying' = verifying /\ lookups' = lookups
  BY DEF tick
<1>1. \A s \in Repo : s # r => (s \in Listed' <=> s \in Listed)
  BY DEF Listed
<1>2. r \in Listed' <=> content'[r] # 0
  BY DEF Listed
<1>3. \A s : s \in Listed' => s \in Repo
  BY DEF Listed
<1>4. IndexTypes'
  BY <1>0 DEF IndexInv, IndexTypes
<1>5. Timed'
  BY <1>0 DEF IndexInv, Timed
<1>6. LeftInv'
  <2> DEFINE L == Left(mark, pending)
  <2>1. \A x \in L.recent \cup L.bookmark \cup L.resumeNewest : Bounded(x)'
    <3> TAKE x \in L.recent \cup L.bookmark \cup L.resumeNewest
    <3>1. x \in Nat /\ \E u \in Times : x <= u
      BY DEF IndexInv, LeftInv, Bounded
    <3>2. PICK u \in Times : x <= u
      BY <3>1
    <3>3. PICK v \in Times' : u <= v /\ u \in Nat /\ v \in Nat
      OBVIOUS
    <3>4. x <= v
      BY <3>1, <3>2, <3>3
    <3> QED  BY <3>1, <3>3, <3>4 DEF Bounded
  <2> QED  BY <1>0, <2>1 DEF IndexInv, LeftInv
<1>7. Stages'
  BY <1>0 DEF IndexInv, Stages, Fresh
<1>8. KeptInv'
  <2> SUFFICES ASSUME NEW s \in Listed'
               PROVE  /\ Owed(s)' => OnDisk(s)' /\ Kept(s)'
                      /\ Fresh' /\ phase' \in {"recent", "changed"} => Kept(s)'
    BY DEF KeptInv
  <2>1. /\ OnDisk(s)' <=> ToCome(s, created'[s], modified'[s], Left(mark, <<>>))
        /\ Kept(s)' <=> s \in toScan \/ ToCome(s, created'[s], modified'[s], Left(mark, pending))
        /\ Fresh' <=> Fresh
    BY <1>0 DEF OnDisk, Kept, Fresh
  <2>2. CASE s = r
    BY <1>0, <1>2, <2>1, <2>2
  <2>3. CASE s # r
    <3>1. s \in Repo /\ s \in Listed
      BY <1>1, <1>3, <2>3
    <3>2. created'[s] = created[s] /\ modified'[s] = modified[s] /\ content'[s] = content[s]
      BY <2>3, <3>1
    <3>3. Owed(s)' <=> Owed(s)
      BY <1>0, <3>1, <3>2 DEF Owed
    <3>4. /\ OnDisk(s) <=> ToCome(s, created[s], modified[s], Left(mark, <<>>))
          /\ Kept(s) <=> s \in toScan \/ ToCome(s, created[s], modified[s], Left(mark, pending))
      BY DEF OnDisk, Kept
    <3>5. /\ Owed(s) => OnDisk(s) /\ Kept(s)
          /\ Fresh /\ phase \in {"recent", "changed"} => Kept(s)
      BY <3>1 DEF IndexInv, KeptInv
    <3> QED  BY <1>0, <2>1, <3>2, <3>3, <3>4, <3>5
  <2> QED  BY <2>2, <2>3
<1>9. FetchInv'
  <2> SUFFICES ASSUME fetched # None
               PROVE  /\ phase = "scan" /\ fetched.repo \in toScan /\ fetched.content \in Nat
                      /\ fetched.repo \in Listed' =>
                            \/ fetched.content = content'[fetched.repo]
                            \/ Book(fetched.repo, modified'[fetched.repo], Left(mark, pending))
    BY <1>0 DEF FetchInv
  <2>1. /\ phase = "scan" /\ fetched.repo \in toScan /\ fetched.content \in Nat
        /\ fetched.repo \in Listed =>
              \/ fetched.content = content[fetched.repo]
              \/ Book(fetched.repo, modified[fetched.repo], Left(mark, pending))
    BY DEF IndexInv, FetchInv
  <2>2. fetched.repo \in Repo
    BY <2>1 DEF IndexInv, IndexTypes
  <2>3. CASE fetched.repo = r
    BY <1>2, <2>1, <2>3
  <2>4. CASE fetched.repo # r
    BY <1>1, <2>1, <2>2, <2>4
  <2> QED  BY <2>3, <2>4
<1>10. VerifyInv'
  BY <1>0 DEF IndexInv, VerifyInv, IndexTypes
<1> QED  BY <1>4, <1>5, <1>6, <1>7, <1>8, <1>9, <1>10 DEF IndexInv

LEMMA TypesOf ==
    ASSUME IndexInv
    PROVE  /\ created \in [Repo -> Nat] /\ modified \in [Repo -> Nat] /\ content \in [Repo -> Nat]
           /\ live \in [Repo -> Nat] /\ phase \in {"idle", "recent", "changed", "scan"}
           /\ toScan \subseteq Repo /\ mark \in MarkRec /\ pending \in Seq(Write)
           /\ Listed # {} /\ Listed \subseteq Repo
           /\ \A r \in Listed : created[r] # 0 /\ modified[r] # 0
  BY DEF IndexInv, IndexTypes, Timed, Listed

LEMMA LatestMoment ==
    ASSUME IndexInv, NEW r \in Repo, NEW t \in Moments
    PROVE  t \in Nat /\ t # 0 /\ \A u \in Times : u \in Nat /\ u <= t
<1>1. t \in Nat /\ \A u \in Times : u <= t /\ u \in Nat
  BY TypesOf, MomentsAre
<1>2. PICK s : s \in Listed
  BY TypesOf
<1>3. created[s] \in Times /\ created[s] # 0
  BY <1>2, TypesOf DEF Times
<1> QED  BY <1>1, <1>3

LEMMA CreateKeeps == ASSUME IndexInv, NEW r \in Repo, Create(r) PROVE IndexInv'
<1>1. PICK t \in Moments : /\ created' = [created EXCEPT ![r] = t]
                           /\ modified' = [modified EXCEPT ![r] = t]
  BY DEF Create
<1>2. t \in Nat /\ t # 0 /\ \A u \in Times : u \in Nat /\ u <= t
  BY LatestMoment
<1>3. /\ created[r] = 0 /\ content' = [content EXCEPT ![r] = 1]
      /\ UNCHANGED <<live, mark, tick, verifying, lookups>>
  BY DEF Create
<1>4. created' \in [Repo -> Nat] /\ modified' \in [Repo -> Nat] /\ content' \in [Repo -> Nat]
  BY <1>1, <1>2, <1>3, TypesOf
<1>5. created'[r] = t /\ modified'[r] = t /\ content'[r] = 1
  BY <1>1, <1>3, TypesOf
<1>6. \A s \in Repo \ {r} : /\ created'[s] = created[s] /\ modified'[s] = modified[s]
                            /\ content'[s] = content[s]
  BY <1>1, <1>3, TypesOf
<1>7. \A u \in Times : \E v \in Times' : u <= v /\ u \in Nat /\ v \in Nat
  <2>1. t \in Times'
    BY <1>5 DEF Times
  <2> QED  BY <1>2, <2>1
<1>8. r \in Listed'
  BY <1>5 DEF Listed
<1>9. /\ ToCome(r, t, t, Left(mark, <<>>))
      /\ ToCome(r, t, t, Left(mark, pending))
  <2>1. /\ ToCome(r, t, t, Left(mark, <<>>))
        /\ ~(Fresh /\ phase \in {"recent", "changed"}) => ToCome(r, t, t, Left(mark, pending))
        /\ Fresh /\ phase \in {"recent", "changed"} => Rec(t, Left(mark, pending))
    BY <1>2, LatestToCome
  <2> QED  BY <2>1 DEF ToCome
<1>10. ~(fetched # None /\ fetched.repo = r)
  BY <1>3 DEF IndexInv, FetchInv, Timed
<1>11. r \notin DOMAIN verifying
  BY <1>3 DEF IndexInv, VerifyInv
<1> QED  BY <1>2, <1>3, <1>4, <1>5, <1>6, <1>7, <1>8, <1>9, <1>10, <1>11, EditKeeps

LEMMA ModifyKeeps == ASSUME IndexInv, NEW r \in Repo, Modify(r) PROVE IndexInv'
<1>1. PICK t \in Moments : modified' = [modified EXCEPT ![r] = t]
  BY DEF Modify
<1>2. t \in Nat /\ t # 0 /\ \A u \in Times : u \in Nat /\ u <= t
  BY LatestMoment
<1>3. /\ r \in Listed /\ content' = [content EXCEPT ![r] = @ + 1] /\ created' = created
      /\ UNCHANGED <<live, mark, tick, verifying, lookups>>
  BY DEF Modify
<1>4. created' \in [Repo -> Nat] /\ modified' \in [Repo -> Nat] /\ content' \in [Repo -> Nat]
  BY <1>1, <1>2, <1>3, TypesOf
<1>5. created'[r] = created[r] /\ created[r] # 0 /\ modified'[r] = t
      /\ content'[r] # 0 /\ content[r] # 0
  <2>1. content[r] \in Nat /\ content[r] # 0 /\ created[r] # 0
    BY <1>3, TypesOf DEF Listed
  <2> QED  BY <1>1, <1>3, <2>1, TypesOf
<1>6. \A s \in Repo \ {r} : /\ created'[s] = created[s] /\ modified'[s] = modified[s]
                            /\ content'[s] = content[s]
  BY <1>1, <1>3, TypesOf
<1>7. \A u \in Times : \E v \in Times' : u <= v /\ u \in Nat /\ v \in Nat
  <2>1. t \in Times'
    BY <1>5 DEF Times
  <2> QED  BY <1>2, <2>1
<1>8. r \in Listed'
  BY <1>5 DEF Listed
<1> DEFINE e == created[r]
<1>9. /\ ToCome(r, e, t, Left(mark, <<>>))
      /\ ~(Fresh /\ phase \in {"recent", "changed"}) => ToCome(r, e, t, Left(mark, pending))
      /\ phase = "scan" => Book(r, t, Left(mark, pending))
  BY <1>2, LatestToCome
<1>10. Fresh /\ phase \in {"recent", "changed"} =>
          r \in toScan \/ ToCome(r, e, t, Left(mark, pending))
  <2> SUFFICES ASSUME Fresh, phase \in {"recent", "changed"}, r \notin toScan
               PROVE  ToCome(r, e, t, Left(mark, pending))
    OBVIOUS
  <2>1. ToCome(r, e, modified[r], Left(mark, pending))
    BY <1>3 DEF IndexInv, KeptInv, Kept
  <2>2. Left(mark, pending).bookmark = {0}
    BY LeftIs, FreshAre DEF IndexInv, Stages, Fresh
  <2> QED  BY <2>1, <2>2 DEF ToCome, Book
<1>11. fetched # None /\ fetched.repo = r => Book(r, t, Left(mark, pending))
  BY <1>9 DEF IndexInv, FetchInv
<1>12. r \in DOMAIN verifying => verifying[r] # 0
  BY <1>5 DEF IndexInv, VerifyInv
<1> HIDE DEF e
<1>13. created'[r] = e
  BY <1>5 DEF e
<1> QED  BY <1>2, <1>3, <1>4, <1>5, <1>6, <1>7, <1>8, <1>9, <1>10, <1>11, <1>12, <1>13, EditKeeps

LEMMA DeleteKeeps == ASSUME IndexInv, NEW r \in Repo, Delete(r) PROVE IndexInv'
<1>1. /\ r \in Listed /\ Listed # {r} /\ content' = [content EXCEPT ![r] = 0]
      /\ created' = created /\ modified' = modified
      /\ UNCHANGED <<live, mark, tick, verifying, lookups>>
  BY DEF Delete
<1>2. created' \in [Repo -> Nat] /\ modified' \in [Repo -> Nat] /\ content' \in [Repo -> Nat]
  BY <1>1, TypesOf
<1>3. created'[r] # 0 /\ modified'[r] # 0 /\ content'[r] = 0
  BY <1>1, TypesOf
<1>4. \A s \in Repo \ {r} : /\ created'[s] = created[s] /\ modified'[s] = modified[s]
                            /\ content'[s] = content[s]
  BY <1>1, TypesOf
<1>5. Times' = Times /\ \A u \in Times : u \in Nat /\ u <= u
  BY <1>1, TypesOf DEF Times
<1>6. Listed' # {}
  <2>1. PICK s \in Listed : s # r
    BY <1>1
  <2>2. s \in Listed'
    BY <1>4, <2>1 DEF Listed
  <2> QED  BY <2>2
<1> QED  BY <1>1, <1>2, <1>3, <1>4, <1>5, <1>6, EditKeeps

LEMMA JoinedLeft ==
    ASSUME NEW m, NEW u \in Seq(Write), NEW v \in Seq(Write)
    PROVE  /\ u \o v \in Seq(Write)
           /\ Left(m, u \o v).cursor = Left(m, u).cursor \cup WritesOf(v, "cursor")
           /\ Left(m, u \o v).walked = Left(m, u).walked \cup WritesOf(v, "walked")
           /\ Left(m, u \o v).recent = Left(m, u).recent \cup WritesOf(v, "recent")
           /\ Left(m, u \o v).bookmark = Left(m, u).bookmark \cup WritesOf(v, "bookmark")
           /\ Left(m, u \o v).resume = Left(m, u).resume \cup WritesOf(v, "resume")
           /\ Left(m, u \o v).resumeNewest =
                 Left(m, u).resumeNewest \cup WritesOf(v, "resumeNewest")
<1>1. u \o v \in Seq(Write) /\ \A k : WritesOf(u \o v, k) = WritesOf(u, k) \cup WritesOf(v, k)
  BY JoinWrites
<1> QED  BY <1>1, LeftIs

LEMMA AfterIs ==
    ASSUME NEW f, NEW c, NEW r PROVE r \in After(f, c) <=> r \in Listed /\ Beyond(r, f[r], c)
  BY DEF After, Beyond

(* What a sweep does to the invariant: it finds some, and defers some.      *)
LEMMA SweepKeeps ==
    ASSUME IndexInv, UNCHANGED <<catalogue, live, mark, fetched, verifying, lookups>>,
           NEW found \in SUBSET Listed, toScan' = toScan \cup found,
           NEW v \in Seq(Write), pending' = pending \o v,
           phase # "scan", phase' \in {"recent", "changed", "scan"},
           WritesOf(v, "walked") \subseteq {TRUE},
           WritesOf(v, "cursor") \cup WritesOf(v, "resume") \subseteq Position \cup {None},
           \A x \in WritesOf(v, "recent") \cup WritesOf(v, "bookmark")
                        \cup WritesOf(v, "resumeNewest") : Bounded(x),
           0 \notin WritesOf(v, "recent") \cup WritesOf(v, "bookmark"),
           Stages',
           \A r \in Listed : Kept(r) =>
              \/ r \in toScan \cup found
              \/ ToCome(r, created[r], modified[r], Left(mark, pending \o v)),
           Fresh /\ phase' # "scan" => \A r \in Listed : Kept(r)
    PROVE  IndexInv'
<1>0. /\ created' = created /\ modified' = modified /\ content' = content /\ live' = live
      /\ mark' = mark /\ fetched' = fetched /\ verifying' = verifying /\ lookups' = lookups
  BY DEF catalogue
<1>1. Listed' = Listed /\ Times' = Times /\ \A x : Bounded(x)' <=> Bounded(x)
  BY <1>0 DEF Listed, Times, Bounded
<1>2. IndexTypes'
  BY <1>0, TypesOf, JoinWrites DEF IndexInv, IndexTypes
<1>3. Timed'
  BY <1>0, <1>1, TypesOf DEF IndexInv, Timed
<1> DEFINE L == Left(mark, pending)
           M == Left(mark, pending \o v)
<1>4. /\ M.cursor = L.cursor \cup WritesOf(v, "cursor")
      /\ M.recent = L.recent \cup WritesOf(v, "recent")
      /\ M.bookmark = L.bookmark \cup WritesOf(v, "bookmark")
      /\ M.resume = L.resume \cup WritesOf(v, "resume")
      /\ M.resumeNewest = L.resumeNewest \cup WritesOf(v, "resumeNewest")
      /\ \A k : WritesOf(pending \o v, k) = WritesOf(pending, k) \cup WritesOf(v, k)
  <2>1. pending \in Seq(Write)
    BY TypesOf
  <2>2. \A k : WritesOf(pending \o v, k) = WritesOf(pending, k) \cup WritesOf(v, k)
    BY <2>1, JoinWrites
  <2>3. /\ M.cursor = L.cursor \cup WritesOf(v, "cursor")
        /\ M.recent = L.recent \cup WritesOf(v, "recent")
        /\ M.bookmark = L.bookmark \cup WritesOf(v, "bookmark")
        /\ M.resume = L.resume \cup WritesOf(v, "resume")
        /\ M.resumeNewest = L.resumeNewest \cup WritesOf(v, "resumeNewest")
    BY <2>2, LeftIs
  <2> QED  BY <2>2, <2>3
<1>5. M = Left(mark, pending)' /\ pending' = pending \o v
  BY <1>0
<1>6. LeftInv'
  <2>1. /\ WritesOf(pending, "walked") \subseteq {TRUE}
        /\ L.cursor \cup L.resume \subseteq Position \cup {None}
        /\ \A x \in L.recent \cup L.bookmark \cup L.resumeNewest : Bounded(x)
        /\ 0 \notin WritesOf(pending, "recent") \cup WritesOf(pending, "bookmark")
    BY DEF IndexInv, LeftInv
  <2> HIDE DEF L, M
  <2>2. /\ M.cursor \cup M.resume \subseteq Position \cup {None}
        /\ \A x \in M.recent \cup M.bookmark \cup M.resumeNewest : Bounded(x)
    BY <1>4, <2>1
  <2>3. /\ WritesOf(pending \o v, "walked") \subseteq {TRUE}
        /\ 0 \notin WritesOf(pending \o v, "recent") \cup WritesOf(pending \o v, "bookmark")
    <3>1. \A k : WritesOf(pending \o v, k) = WritesOf(pending, k) \cup WritesOf(v, k)
      BY <1>4
    <3>2. WritesOf(pending \o v, "walked") \subseteq {TRUE}
      BY <2>1, <3>1
    <3>3. 0 \notin WritesOf(pending \o v, "recent") \cup WritesOf(pending \o v, "bookmark")
      BY <2>1, <3>1
    <3> QED  BY <3>2, <3>3
  <2>4. \A x : Bounded(x)' <=> Bounded(x)
    BY <1>1
  <2> QED  BY <1>5, <2>2, <2>3, <2>4 DEF LeftInv
<1>7. KeptInv'
  <2> SUFFICES ASSUME NEW r \in Listed
               PROVE  /\ Owed(r)' => OnDisk(r)' /\ Kept(r)'
                      /\ Fresh' /\ phase' \in {"recent", "changed"} => Kept(r)'
    BY <1>1 DEF KeptInv
  <2>1. (Owed(r)' <=> Owed(r)) /\ (OnDisk(r)' <=> OnDisk(r)) /\ (Fresh' <=> Fresh)
    BY <1>0, <1>1 DEF Owed, OnDisk, Fresh
  <2>2. Kept(r)' <=> r \in toScan \cup found \/ ToCome(r, created[r], modified[r], M)
    BY <1>0 DEF Kept
  <2>3. Kept(r) => Kept(r)'
    BY <2>2
  <2>4. Owed(r) => OnDisk(r) /\ Kept(r)
    BY DEF IndexInv, KeptInv
  <2>5. Fresh /\ phase' \in {"recent", "changed"} => Kept(r)
    OBVIOUS
  <2> QED  BY <2>1, <2>3, <2>4, <2>5
<1>8. FetchInv'
  BY <1>0 DEF IndexInv, FetchInv
<1>9. VerifyInv'
  BY <1>0 DEF IndexInv, VerifyInv
<1> QED  BY <1>2, <1>3, <1>6, <1>7, <1>8, <1>9 DEF IndexInv

(* What the sweep of a list by one of the repositories' dates may return.   *)
LEMMA OutcomeIs ==
    ASSUME Seeded, IndexInv, NEW f, f \in {created, modified},
           NEW c \in Position \cup {None}, NEW b \in Nat, NEW batch \in Nat \ {0},
           NEW out, Outcome(f, c, b, batch, out)
    PROVE  /\ out.found \in SUBSET Listed /\ out.complete \in BOOLEAN
           /\ out.cursor \in Position \cup {None}
           /\ \A r \in Listed : Beyond(r, f[r], c) =>
                 /\ out.complete /\ b <= f[r] => r \in out.found
                 /\ ~out.complete => r \in out.found \/ Beyond(r, f[r], out.cursor)
           /\ out.newest \in Nat /\ Bounded(out.newest)
           /\ \A r \in Listed : ~Beyond(r, f[r], c) => out.newest <= f[r]
           /\ Fresh /\ c = None => out.newest # 0
<1>1. f \in [Repo -> Nat] /\ (\A r \in Listed : f[r] # 0) /\ content \in [Repo -> Nat]
      /\ Listed \subseteq Repo /\ \A r \in Repo : f[r] \in Times
  BY TypesOf DEF Times
<1>2. /\ Swept(f, c, b, Sweep(f, c, b, batch))
      /\ After(f, c) # {} => Sweep(f, c, b, batch).newest # 0
      /\ \A o \in Broken(f, c, b, batch) : Swept(f, c, b, o) /\ ~o.complete
  BY <1>1, SweepIs
<1>3. Swept(f, c, b, out)
  BY <1>2 DEF Outcome
<1>4. Fresh => out = Sweep(f, c, b, batch)
  BY FreshAre DEF Outcome, MayFail, Seeded, Fresh
<1>5. \A r : r \in After(f, c) <=> r \in Listed /\ Beyond(r, f[r], c)
  BY AfterIs
<1>6. out.newest \in Nat /\ Bounded(out.newest)
  <2>1. out.newest = 0 \/ \E r \in Repo : out.newest = f[r]
    BY <1>1, <1>3, <1>5 DEF Swept
  <2>2. PICK s \in Listed : TRUE
    BY TypesOf
  <2>3. f[s] \in Nat /\ f[s] \in Times
    BY <1>1
  <2>4. CASE out.newest = 0
    BY <2>3, <2>4 DEF Bounded
  <2>5. CASE \E r \in Repo : out.newest = f[r]
    <3>1. PICK r \in Repo : out.newest = f[r]
      BY <2>5
    <3>2. f[r] \in Nat /\ f[r] \in Times /\ f[r] <= f[r]
      BY <1>1
    <3> QED  BY <3>1, <3>2 DEF Bounded
  <2> QED  BY <2>1, <2>4, <2>5
<1>7. \A r \in Listed : ~Beyond(r, f[r], c) => out.newest <= f[r]
  <2> SUFFICES ASSUME NEW r \in Listed, ~Beyond(r, f[r], c) PROVE out.newest <= f[r]
    OBVIOUS
  <2>1. c \in Position /\ r \notin After(f, c) /\ f[r] \in Nat
    BY <1>1, <1>5 DEF Beyond
  <2>2. c[1] \in Nat /\ f[r] >= c[1] /\ \A s \in After(f, c) : s \in Listed /\ (c # None => f[s] <= c[1])
    BY <1>1, <2>1, CursorIs
  <2>3. c # None
    BY <2>1 DEF Beyond
  <2>4. out.newest = 0 \/ \E s \in After(f, c) : out.newest = f[s]
    BY <1>3 DEF Swept
  <2>5. CASE out.newest = 0
    BY <2>1, <2>5
  <2>6. CASE \E s \in After(f, c) : out.newest = f[s]
    <3>1. PICK s \in After(f, c) : out.newest = f[s]
      BY <2>6
    <3>2. f[s] <= c[1] /\ f[s] \in Nat
      BY <1>1, <2>2, <2>3
    <3> QED  BY <2>1, <2>2, <3>1, <3>2
  <2> QED  BY <2>4, <2>5, <2>6
<1>8. Fresh /\ c = None => out.newest # 0
  <2> SUFFICES ASSUME Fresh, c = None PROVE out.newest # 0
    OBVIOUS
  <2>1. PICK s \in Listed : TRUE
    BY TypesOf
  <2>2. s \in After(f, c)
    BY <1>5 DEF Beyond
  <2> QED  BY <1>2, <1>4, <2>2
<1>9. /\ out.found \subseteq After(f, c) /\ out.complete \in BOOLEAN
      /\ out.complete => \A r \in After(f, c) : f[r] >= b => r \in out.found
      /\ ~out.complete => \A r \in After(f, c) \ out.found : r \in After(f, out.cursor)
      /\ out.cursor \in Position \cup {None}
  BY <1>3 DEF Swept
<1>10. \A r : r \in After(f, out.cursor) <=> r \in Listed /\ Beyond(r, f[r], out.cursor)
  BY AfterIs
<1>11. \A r \in Listed : Beyond(r, f[r], c) =>
                 /\ out.complete /\ b <= f[r] => r \in out.found
                 /\ ~out.complete => r \in out.found \/ Beyond(r, f[r], out.cursor)
  <2> TAKE r \in Listed
  <2>1. f[r] \in Nat
    BY <1>1
  <2> QED  BY <1>5, <1>9, <1>10, <2>1
<1>12. out.found \in SUBSET Listed
  BY <1>5, <1>9
<1> QED  BY <1>6, <1>7, <1>8, <1>9, <1>11, <1>12

LEMMA FreshIs ==
    ASSUME Fresh
    PROVE  /\ mark.cursor = None /\ mark.walked = FALSE /\ mark.recent = 0
           /\ mark.bookmark = 0 /\ mark.resume = None /\ mark.resumeNewest = 0
  BY FreshAre DEF Fresh

LEMMA Batches ==
    BacklogBatch \in Nat \ {0} /\ RecentBatch \in Nat \ {0} /\ ChangedBatch \in Nat \ {0}
  BY SizesAssumption

LEMMA NothingJoined == ASSUME NEW v \in Seq(Write) PROVE <<>> \o v = v /\ v \o <<>> = v
  OBVIOUS

LEMMA WalkKeeps == ASSUME Seeded, IndexInv, BacklogWalk PROVE IndexInv'
<1>1. /\ phase = "idle" /\ phase' = "recent"
      /\ UNCHANGED <<catalogue, live, mark, fetched, verifying, lookups>>
  BY DEF BacklogWalk
<1>2. toScan = {} /\ pending = <<>> /\ mark' = mark
  BY <1>1 DEF IndexInv, Stages
<1>3. /\ mark.cursor \in Position \cup {None} /\ mark.walked \in BOOLEAN /\ mark.recent \in Nat
      /\ mark.bookmark \in Nat /\ mark.resume \in Position \cup {None} /\ mark.resumeNewest \in Nat
  BY TypesOf, MarksAre
<1>4. Fresh => \A r \in Listed : Kept(r)
  BY <1>2, FreshOnDisk DEF Kept, Fresh
<1>5. CASE mark.walked
  <2>1. toScan' = toScan \cup {} /\ pending' = pending \o <<>> /\ <<>> \in Seq(Write)
        /\ \A k : WritesOf(<<>>, k) = {}
    BY <1>2, <1>5, NoWrites, NothingJoined DEF BacklogWalk
  <2>2. pending \o <<>> = pending
    BY <1>2, NoWrites, NothingJoined
  <2>3. ~Fresh /\ ~Fresh'
    BY <1>2, <1>5, FreshIs DEF Fresh
  <2>4. Stages'
    BY <1>1, <1>2, <2>1, <2>2, <2>3 DEF IndexInv, Stages, Fresh
  <2>5. \A r \in Listed : Kept(r) =>
           r \in toScan \cup {} \/ ToCome(r, created[r], modified[r], Left(mark, pending \o <<>>))
    BY <2>2 DEF Kept
  <2> DEFINE v == <<>>
             found == {}
  <2>6. /\ v \in Seq(Write) /\ \A k : WritesOf(v, k) = {}
        /\ toScan' = toScan \cup found /\ pending' = pending \o v /\ found \in SUBSET Listed
        /\ \A r \in Listed : Kept(r) =>
             r \in toScan \cup found \/ ToCome(r, created[r], modified[r], Left(mark, pending \o v))
    BY <2>1, <2>5
  <2> HIDE DEF v, found
  <2> QED  BY <1>1, <1>4, <2>4, <2>6, SweepKeeps
<1>6. CASE ~mark.walked
  <2>1. PICK out : /\ Outcome(created, mark.cursor, 0, BacklogBatch, out)
                   /\ toScan' = out.found /\ pending' = BacklogWrites(out)
    BY <1>6 DEF BacklogWalk
  <2>2. /\ out.found \in SUBSET Listed /\ out.complete \in BOOLEAN
        /\ out.cursor \in Position \cup {None}
        /\ \A r \in Listed : Beyond(r, created[r], mark.cursor) =>
              /\ out.complete /\ 0 <= created[r] => r \in out.found
              /\ ~out.complete => r \in out.found \/ Beyond(r, created[r], out.cursor)
        /\ out.newest \in Nat /\ Bounded(out.newest)
        /\ Fresh /\ mark.cursor = None => out.newest # 0
    BY <1>3, <2>1, Batches, OutcomeIs
  <2> DEFINE end == IF out.complete THEN None ELSE out.cursor
  <2>3. PICK v \in Seq(Write) :
          /\ v = BacklogWrites(out)
          /\ \A k : WritesOf(v, k) =
                        IF k = "cursor" THEN {end}
                        ELSE IF k = "recent" /\ mark.recent = 0 /\ out.newest # 0 THEN {out.newest}
                        ELSE IF k = "walked" /\ out.complete THEN {TRUE} ELSE {}
    BY <1>3, <2>2, WrittenIs
  <2>4. end \in Position \cup {None} /\ (~out.complete => end = out.cursor)
    BY <2>2
  <2>5. /\ WritesOf(v, "cursor") = {end}
        /\ WritesOf(v, "bookmark") = {} /\ WritesOf(v, "resume") = {} /\ WritesOf(v, "resumeNewest") = {}
        /\ WritesOf(v, "recent") = IF mark.recent = 0 /\ out.newest # 0 THEN {out.newest} ELSE {}
        /\ WritesOf(v, "walked") = IF out.complete THEN {TRUE} ELSE {}
    BY <2>3
  <2> HIDE DEF end
  <2>6. /\ WritesOf(v, "walked") \subseteq {TRUE}
        /\ WritesOf(v, "cursor") \cup WritesOf(v, "resume") \subseteq Position \cup {None}
        /\ (\A x \in WritesOf(v, "recent") \cup WritesOf(v, "bookmark")
                        \cup WritesOf(v, "resumeNewest") : Bounded(x))
        /\ 0 \notin WritesOf(v, "recent") \cup WritesOf(v, "bookmark")
    BY <2>2, <2>4, <2>5
  <2>7. /\ toScan' = toScan \cup out.found /\ pending' = pending \o v /\ pending \o v = v
    BY <1>2, <2>1, <2>3, NothingJoined
  <2>8. Stages'
    <3>1. Fresh' <=> Fresh
      BY <1>2 DEF Fresh
    <3>2. Fresh => WritesOf(v, "recent") # {}
      BY <2>2, <2>5, FreshIs
    <3>3. Fresh \/ (mark.bookmark # 0 /\ mark.recent # 0)
      BY DEF IndexInv, Stages
    <3> QED  BY <1>1, <1>2, <2>5, <2>7, <3>1, <3>2, <3>3 DEF Stages
  <2>9. ASSUME NEW r \in Listed, Kept(r), r \notin out.found
        PROVE  ToCome(r, created[r], modified[r], Left(mark, v))
    <3> DEFINE L == Left(mark, pending)
               M == Left(mark, v)
    <3>1. /\ M.cursor = L.cursor \cup {end} /\ L.cursor = {mark.cursor}
          /\ M.bookmark = L.bookmark /\ M.resume = L.resume /\ M.resumeNewest = L.resumeNewest
          /\ L.walked = {mark.walked} /\ L.recent = {mark.recent}
          /\ M.walked = {mark.walked} \cup WritesOf(v, "walked")
          /\ M.recent = {mark.recent} \cup WritesOf(v, "recent")
      <4>1. /\ L.cursor = {mark.cursor} /\ L.walked = {mark.walked} /\ L.recent = {mark.recent}
            /\ L.bookmark = {mark.bookmark} /\ L.resume = {mark.resume}
            /\ L.resumeNewest = {mark.resumeNewest}
        BY <1>2, NoneLeft
      <4>2. /\ M.cursor = {mark.cursor} \cup {end} /\ M.bookmark = {mark.bookmark}
            /\ M.resume = {mark.resume} /\ M.resumeNewest = {mark.resumeNewest}
            /\ M.walked = {mark.walked} \cup WritesOf(v, "walked")
            /\ M.recent = {mark.recent} \cup WritesOf(v, "recent")
        BY <2>5, LeftIs
      <4> QED  BY <4>1, <4>2
    <3> SUFFICES ToCome(r, created[r], modified[r], M)
      OBVIOUS
    <3>2. Back(r, created[r], L) \/ Rec(created[r], L) \/ Book(r, modified[r], L)
      BY <1>2, <2>9 DEF Kept, ToCome
    <3> HIDE DEF L, M
    <3>3. CASE Back(r, created[r], L)
      <4>1. Beyond(r, created[r], mark.cursor)
        BY <3>1, <3>3 DEF Back
      <4>2. created[r] \in Nat
        BY TypesOf
      <4>3. ~out.complete /\ Beyond(r, created[r], end)
        BY <2>2, <2>4, <2>9, <4>1, <4>2
      <4>4. WritesOf(v, "walked") = {}
        BY <2>5, <4>3
      <4>5. TRUE \notin {mark.walked}
        BY <1>6
      <4>6. TRUE \notin M.walked
        BY <3>1, <4>4, <4>5
      <4>7. \A c \in M.cursor : Beyond(r, created[r], c)
        BY <3>1, <4>1, <4>3
      <4> QED  BY <4>6, <4>7 DEF Back, ToCome
    <3>4. CASE Rec(created[r], L)
      <4>1. mark.recent # 0
        BY <3>1, <3>4 DEF Rec
      <4>2. M.recent = L.recent
        BY <2>5, <3>1, <4>1
      <4> QED  BY <3>4, <4>2 DEF Rec, ToCome
    <3>5. CASE Book(r, modified[r], L)
      BY <3>1, <3>5 DEF Book, ToCome
    <3> QED  BY <3>2, <3>3, <3>4, <3>5
  <2>10. \A r \in Listed : Kept(r) =>
            r \in toScan \cup out.found \/ ToCome(r, created[r], modified[r], Left(mark, pending \o v))
    BY <2>7, <2>9
  <2> QED  BY <1>1, <1>4, <2>2, <2>6, <2>7, <2>8, <2>10, SweepKeeps
<1> QED  BY <1>3, <1>5, <1>6

LEMMA RecentKeeps == ASSUME Seeded, IndexInv, RecentSweep PROVE IndexInv'
<1>1. /\ phase = "recent" /\ phase' = "changed"
      /\ UNCHANGED <<catalogue, live, mark, fetched, verifying, lookups>>
  BY DEF RecentSweep
<1>2. /\ mark.cursor \in Position \cup {None} /\ mark.walked \in BOOLEAN /\ mark.recent \in Nat
      /\ mark.bookmark \in Nat /\ mark.resume \in Position \cup {None} /\ mark.resumeNewest \in Nat
  BY TypesOf, MarksAre
<1>3. PICK out : /\ Outcome(created, None, mark.recent, RecentBatch, out)
                 /\ toScan' = toScan \cup out.found /\ pending' = pending \o RecentWrites(out)
  BY DEF RecentSweep
<1>4. /\ out.found \in SUBSET Listed /\ out.complete \in BOOLEAN
      /\ out.cursor \in Position \cup {None}
      /\ \A r \in Listed : Beyond(r, created[r], None) =>
            (out.complete /\ mark.recent <= created[r] => r \in out.found)
      /\ out.newest \in Nat /\ Bounded(out.newest)
  BY <1>2, <1>3, Batches, OutcomeIs
<1> DEFINE p == out.complete /\ out.newest > mark.recent
<1>5. PICK v \in Seq(Write) :
        /\ v = RecentWrites(out)
        /\ \A k : WritesOf(v, k) = IF k = "recent" /\ p THEN {out.newest} ELSE {}
  <2>1. LET w == RecentWrites(out)
        IN  /\ w \in Seq(Write)
            /\ \A k : WritesOf(w, k) =
                  IF k = "recent" /\ out.complete /\ out.newest > mark.recent
                  THEN {out.newest} ELSE {}
    BY <1>2, <1>4, WrittenIs
  <2> QED  BY <2>1
<1>6. p \in BOOLEAN /\ (p => out.complete /\ out.newest # 0)
  BY <1>2, <1>4
<1> HIDE DEF p
<1>7. /\ WritesOf(v, "cursor") = {} /\ WritesOf(v, "walked") = {}
      /\ WritesOf(v, "bookmark") = {} /\ WritesOf(v, "resume") = {} /\ WritesOf(v, "resumeNewest") = {}
      /\ WritesOf(v, "recent") = IF p THEN {out.newest} ELSE {}
  BY <1>5
<1>8. /\ WritesOf(v, "walked") \subseteq {TRUE}
      /\ WritesOf(v, "cursor") \cup WritesOf(v, "resume") \subseteq Position \cup {None}
      /\ (\A x \in WritesOf(v, "recent") \cup WritesOf(v, "bookmark")
                      \cup WritesOf(v, "resumeNewest") : Bounded(x))
      /\ 0 \notin WritesOf(v, "recent") \cup WritesOf(v, "bookmark")
  BY <1>4, <1>6, <1>7
<1>9. pending' = pending \o v /\ toScan' = toScan \cup out.found
      /\ \A k : WritesOf(pending \o v, k) = WritesOf(pending, k) \cup WritesOf(v, k)
  BY <1>3, <1>5, TypesOf, JoinWrites
<1>10. Stages'
  <2>1. Fresh' <=> Fresh
    BY <1>1 DEF Fresh
  <2>2. /\ Fresh \/ (mark.bookmark # 0 /\ mark.recent # 0)
        /\ Fresh => WritesOf(pending, "recent") # {}
        /\ WritesOf(pending, "bookmark") = {} /\ WritesOf(pending, "resume") = {}
        /\ WritesOf(pending, "resumeNewest") = {}
    BY <1>1 DEF IndexInv, Stages
  <2>3. /\ WritesOf(pending', "bookmark") = {} /\ WritesOf(pending', "resume") = {}
        /\ WritesOf(pending', "resumeNewest") = {}
        /\ Fresh => WritesOf(pending', "recent") # {}
    BY <1>7, <1>9, <2>2
  <2> QED  BY <1>1, <2>1, <2>2, <2>3 DEF Stages
<1>11. ASSUME NEW r \in Listed, Kept(r), r \notin toScan, r \notin out.found
       PROVE  ToCome(r, created[r], modified[r], Left(mark, pending \o v))
  <2> DEFINE L == Left(mark, pending)
             M == Left(mark, pending \o v)
  <2>1. /\ M.cursor = L.cursor /\ M.walked = L.walked /\ M.bookmark = L.bookmark
        /\ M.resume = L.resume /\ M.resumeNewest = L.resumeNewest
        /\ M.recent = L.recent \cup WritesOf(v, "recent") /\ mark.recent \in L.recent
    <3>1. /\ L.cursor = {mark.cursor} \cup WritesOf(pending, "cursor")
          /\ L.walked = {mark.walked} \cup WritesOf(pending, "walked")
          /\ L.recent = {mark.recent} \cup WritesOf(pending, "recent")
          /\ L.bookmark = {mark.bookmark} \cup WritesOf(pending, "bookmark")
          /\ L.resume = {mark.resume} \cup WritesOf(pending, "resume")
          /\ L.resumeNewest = {mark.resumeNewest} \cup WritesOf(pending, "resumeNewest")
      BY LeftIs
    <3>2. /\ M.cursor = {mark.cursor} \cup WritesOf(pending \o v, "cursor")
          /\ M.walked = {mark.walked} \cup WritesOf(pending \o v, "walked")
          /\ M.recent = {mark.recent} \cup WritesOf(pending \o v, "recent")
          /\ M.bookmark = {mark.bookmark} \cup WritesOf(pending \o v, "bookmark")
          /\ M.resume = {mark.resume} \cup WritesOf(pending \o v, "resume")
          /\ M.resumeNewest = {mark.resumeNewest} \cup WritesOf(pending \o v, "resumeNewest")
      BY LeftIs
    <3> HIDE DEF L, M
    <3> QED  BY <1>7, <1>9, <3>1, <3>2
  <2> SUFFICES ToCome(r, created[r], modified[r], M)
    OBVIOUS
  <2>2. Back(r, created[r], L) \/ Rec(created[r], L) \/ Book(r, modified[r], L)
    BY <1>11 DEF Kept, ToCome
  <2> HIDE DEF L, M
  <2>3. CASE Back(r, created[r], L)
    BY <2>1, <2>3 DEF Back, ToCome
  <2>4. CASE Book(r, modified[r], L)
    BY <2>1, <2>4 DEF Book, ToCome
  <2>5. CASE Rec(created[r], L)
    <3>1. mark.recent <= created[r]
      BY <2>1, <2>5 DEF Rec
    <3>2. ~out.complete
      BY <1>4, <1>11, <3>1 DEF Beyond
    <3>3. M.recent = L.recent
      BY <1>6, <1>7, <2>1, <3>2
    <3> QED  BY <2>5, <3>3 DEF Rec, ToCome
  <2> QED  BY <2>2, <2>3, <2>4, <2>5
<1>12. \A r \in Listed : Kept(r) =>
          \/ r \in toScan \cup out.found
          \/ ToCome(r, created[r], modified[r], Left(mark, pending \o v))
  BY <1>11
<1>13. Fresh => \A r \in Listed : Kept(r)
  BY <1>1 DEF IndexInv, KeptInv
<1> QED  BY <1>1, <1>4, <1>8, <1>9, <1>10, <1>12, <1>13, SweepKeeps

LEMMA ChangedKeeps == ASSUME Seeded, IndexInv, ChangedSweep PROVE IndexInv'
<1>1. /\ phase = "changed" /\ phase' = "scan"
      /\ UNCHANGED <<catalogue, live, mark, fetched, verifying, lookups>>
  BY DEF ChangedSweep
<1>2. /\ mark.cursor \in Position \cup {None} /\ mark.walked \in BOOLEAN /\ mark.recent \in Nat
      /\ mark.bookmark \in Nat /\ mark.resume \in Position \cup {None} /\ mark.resumeNewest \in Nat
  BY TypesOf, MarksAre
<1>3. PICK out : /\ Outcome(modified, mark.resume, mark.bookmark, ChangedBatch, out)
                 /\ toScan' = toScan \cup out.found /\ pending' = pending \o ChangedWrites(out)
  BY DEF ChangedSweep
<1>4. /\ out.found \in SUBSET Listed /\ out.complete \in BOOLEAN
      /\ out.cursor \in Position \cup {None}
      /\ \A r \in Listed : Beyond(r, modified[r], mark.resume) =>
            /\ out.complete /\ mark.bookmark <= modified[r] => r \in out.found
            /\ ~out.complete => r \in out.found \/ Beyond(r, modified[r], out.cursor)
      /\ out.newest \in Nat /\ Bounded(out.newest)
      /\ \A r \in Listed : ~Beyond(r, modified[r], mark.resume) => out.newest <= modified[r]
      /\ Fresh /\ mark.resume = None => out.newest # 0
  <2>1. modified \in {created, modified}
    OBVIOUS
  <2>2. mark.resume \in Position \cup {None} /\ mark.bookmark \in Nat /\ ChangedBatch \in Nat \ {0}
        /\ Outcome(modified, mark.resume, mark.bookmark, ChangedBatch, out)
    BY <1>2, <1>3, Batches
  <2> DEFINE c == mark.resume
             b == mark.bookmark
             batch == ChangedBatch
             f == modified
  <2>3. f \in {created, modified} /\ c \in Position \cup {None} /\ b \in Nat
        /\ batch \in Nat \ {0} /\ Outcome(f, c, b, batch, out)
    BY <2>1, <2>2
  <2> HIDE DEF c, b, batch, f
  <2>4. /\ out.found \in SUBSET Listed /\ out.complete \in BOOLEAN
        /\ out.cursor \in Position \cup {None}
        /\ \A r \in Listed : Beyond(r, f[r], c) =>
              /\ out.complete /\ b <= f[r] => r \in out.found
              /\ ~out.complete => r \in out.found \/ Beyond(r, f[r], out.cursor)
        /\ out.newest \in Nat /\ Bounded(out.newest)
        /\ \A r \in Listed : ~Beyond(r, f[r], c) => out.newest <= f[r]
        /\ Fresh /\ c = None => out.newest # 0
    BY <2>3, OutcomeIs
  <2> QED  BY <2>4 DEF c, b, f
<1> DEFINE newest == Newest({mark.resumeNewest, out.newest})
           settled == mark.bookmark = 0 \/ out.complete
           end == IF settled THEN None ELSE out.cursor
           p == newest > mark.bookmark
<1>5. PICK v \in Seq(Write) :
        /\ v = ChangedWrites(out)
        /\ \A k : WritesOf(v, k) =
                        IF k = "resume" THEN {end}
                        ELSE IF k = "resumeNewest" /\ settled THEN {0}
                        ELSE IF k = "resumeNewest" /\ newest # 0 THEN {newest}
                        ELSE IF k = "bookmark" /\ settled /\ newest > mark.bookmark THEN {newest}
                        ELSE {}
  <2>1. LET w == ChangedWrites(out)
            n == Newest({mark.resumeNewest, out.newest})
            s == mark.bookmark = 0 \/ out.complete
        IN  /\ w \in Seq(Write)
            /\ \A k : WritesOf(w, k) =
                  IF k = "resume" THEN {IF s THEN None ELSE out.cursor}
                  ELSE IF k = "resumeNewest" /\ s THEN {0}
                  ELSE IF k = "resumeNewest" /\ n # 0 THEN {n}
                  ELSE IF k = "bookmark" /\ s /\ n > mark.bookmark THEN {n}
                  ELSE {}
    BY <1>2, <1>4, WrittenIs
  <2> QED  BY <2>1
<1>6. newest \in {mark.resumeNewest, out.newest} /\ mark.resumeNewest <= newest /\ out.newest <= newest
  BY <1>2, <1>4, NewestPair
<1>7. newest \in Nat /\ settled \in BOOLEAN /\ p \in BOOLEAN /\ (p => newest # 0)
      /\ end \in Position \cup {None} /\ (settled => end = None) /\ (~settled => end = out.cursor)
      /\ (~settled => mark.bookmark # 0 /\ ~out.complete)
      /\ (settled /\ mark.bookmark # 0 => out.complete)
      /\ (mark.bookmark = 0 => settled /\ (p <=> newest # 0))
  BY <1>2, <1>4, <1>6
<1>8. WritesOf(v, "resume") = {end}
  BY <1>5
<1>9. WritesOf(v, "cursor") = {} /\ WritesOf(v, "walked") = {} /\ WritesOf(v, "recent") = {}
  BY <1>5
<1>10. WritesOf(v, "bookmark") = IF settled /\ p THEN {newest} ELSE {}
  BY <1>5
<1>11. WritesOf(v, "resumeNewest") \subseteq {0, newest}
  <2>1. CASE settled
    BY <1>5, <2>1
  <2>2. CASE ~settled /\ newest # 0
    BY <1>5, <2>2
  <2>3. CASE ~settled /\ newest = 0
    BY <1>5, <2>3
  <2> QED  BY <2>1, <2>2, <2>3
<1>12. ASSUME settled PROVE WritesOf(v, "resumeNewest") = {0}
  BY <1>5, <1>12
<1> HIDE DEF newest, settled, end, p
<1>13. Bounded(mark.resumeNewest)
  BY LeftIs DEF IndexInv, LeftInv
<1>14. Bounded(newest) /\ Bounded(0)
  <2>1. Bounded(newest)
    BY <1>4, <1>6, <1>13
  <2>2. PICK u \in Times : newest <= u
    BY <2>1 DEF Bounded
  <2>3. u \in Nat
    BY TypesOf DEF Times
  <2> QED  BY <2>1, <2>3 DEF Bounded
<1>15. /\ WritesOf(v, "walked") \subseteq {TRUE}
      /\ WritesOf(v, "cursor") \cup WritesOf(v, "resume") \subseteq Position \cup {None}
      /\ (\A x \in WritesOf(v, "recent") \cup WritesOf(v, "bookmark")
                      \cup WritesOf(v, "resumeNewest") : Bounded(x))
      /\ 0 \notin WritesOf(v, "recent") \cup WritesOf(v, "bookmark")
  BY <1>7, <1>8, <1>9, <1>10, <1>11, <1>14
<1>16. pending' = pending \o v /\ toScan' = toScan \cup out.found
      /\ \A k : WritesOf(pending \o v, k) = WritesOf(pending, k) \cup WritesOf(v, k)
  BY <1>3, <1>5, TypesOf, JoinWrites
<1>17. /\ Fresh \/ (mark.bookmark # 0 /\ mark.recent # 0)
       /\ Fresh => WritesOf(pending, "recent") # {}
       /\ WritesOf(pending, "bookmark") = {} /\ WritesOf(pending, "resume") = {}
       /\ WritesOf(pending, "resumeNewest") = {}
  BY <1>1 DEF IndexInv, Stages
<1>18. Stages'
  <2>1. Fresh' <=> Fresh
    BY <1>1 DEF Fresh
  <2>2. Fresh => settled /\ p
    BY <1>4, <1>6, <1>7, FreshIs
  <2>3. /\ Fresh => WritesOf(pending', "recent") # {}
        /\ Fresh => WritesOf(pending', "bookmark") # {}
    BY <1>10, <1>16, <1>17, <2>2
  <2> QED  BY <1>1, <1>17, <2>1, <2>3 DEF Stages
<1>19. ASSUME NEW r \in Listed, Kept(r), r \notin toScan, r \notin out.found
       PROVE  ToCome(r, created[r], modified[r], Left(mark, pending \o v))
  <2> DEFINE L == Left(mark, pending)
             M == Left(mark, pending \o v)
  <2>1. /\ M.cursor = L.cursor /\ M.walked = L.walked /\ M.recent = L.recent
        /\ M.bookmark = {mark.bookmark} \cup WritesOf(v, "bookmark")
        /\ M.resume = {mark.resume, end}
        /\ M.resumeNewest = {mark.resumeNewest} \cup WritesOf(v, "resumeNewest")
        /\ L.bookmark = {mark.bookmark} /\ L.resume = {mark.resume}
        /\ L.resumeNewest = {mark.resumeNewest}
    <3>1. /\ L.cursor = {mark.cursor} \cup WritesOf(pending, "cursor")
          /\ L.walked = {mark.walked} \cup WritesOf(pending, "walked")
          /\ L.recent = {mark.recent} \cup WritesOf(pending, "recent")
          /\ L.bookmark = {mark.bookmark} \cup WritesOf(pending, "bookmark")
          /\ L.resume = {mark.resume} \cup WritesOf(pending, "resume")
          /\ L.resumeNewest = {mark.resumeNewest} \cup WritesOf(pending, "resumeNewest")
      BY LeftIs
    <3>2. /\ M.cursor = {mark.cursor} \cup WritesOf(pending \o v, "cursor")
          /\ M.walked = {mark.walked} \cup WritesOf(pending \o v, "walked")
          /\ M.recent = {mark.recent} \cup WritesOf(pending \o v, "recent")
          /\ M.bookmark = {mark.bookmark} \cup WritesOf(pending \o v, "bookmark")
          /\ M.resume = {mark.resume} \cup WritesOf(pending \o v, "resume")
          /\ M.resumeNewest = {mark.resumeNewest} \cup WritesOf(pending \o v, "resumeNewest")
      BY LeftIs
    <3> HIDE DEF L, M
    <3> QED  BY <1>8, <1>9, <1>16, <1>17, <3>1, <3>2
  <2> SUFFICES ToCome(r, created[r], modified[r], M)
    OBVIOUS
  <2>2. Back(r, created[r], L) \/ Rec(created[r], L) \/ Book(r, modified[r], L)
    BY <1>19 DEF Kept, ToCome
  <2> HIDE DEF L, M
  <2>3. CASE Back(r, created[r], L)
    BY <2>1, <2>3 DEF Back, ToCome
  <2>4. CASE Rec(created[r], L)
    BY <2>1, <2>4 DEF Rec, ToCome
  <2>5. CASE Book(r, modified[r], L)
    <3>1. /\ mark.bookmark # 0 /\ mark.bookmark <= modified[r]
          /\ Beyond(r, modified[r], mark.resume) \/ mark.resumeNewest <= modified[r]
      BY <2>1, <2>5 DEF Book
    <3>2. modified[r] \in Nat
      BY TypesOf
    <3>3. CASE Beyond(r, modified[r], mark.resume)
      <4>1. ~settled /\ Beyond(r, modified[r], end)
        BY <1>4, <1>7, <1>19, <3>1, <3>3
      <4>2. M.bookmark = {mark.bookmark}
        BY <1>10, <2>1, <4>1
      <4> QED  BY <2>1, <3>1, <3>3, <4>1, <4>2 DEF Book, ToCome
    <3>4. CASE ~Beyond(r, modified[r], mark.resume)
      <4>1. out.newest <= modified[r] /\ mark.resumeNewest <= modified[r]
        BY <1>4, <3>1, <3>4
      <4>2. newest <= modified[r]
        BY <1>6, <4>1
      <4>3. \A x \in M.resumeNewest \cup M.bookmark : x <= modified[r]
        BY <1>10, <1>11, <2>1, <3>1, <3>2, <4>1, <4>2
      <4>4. M.bookmark # {0}
        BY <2>1, <3>1
      <4> QED  BY <4>3, <4>4 DEF Book, ToCome
    <3> QED  BY <3>3, <3>4
  <2> QED  BY <2>2, <2>3, <2>4, <2>5
<1>20. \A r \in Listed : Kept(r) =>
          \/ r \in toScan \cup out.found
          \/ ToCome(r, created[r], modified[r], Left(mark, pending \o v))
  BY <1>19
<1> QED  BY <1>1, <1>4, <1>15, <1>16, <1>18, <1>20, SweepKeeps

(* The end of a tick, whatever has become of it.                            *)
LEMMA EndKeeps ==
    ASSUME IndexInv, UNCHANGED <<catalogue, live, lookups>>,
           phase' = "idle", toScan' = {}, pending' = <<>>, fetched' = None,
           DOMAIN verifying' \subseteq DOMAIN verifying,
           \A r \in DOMAIN verifying' : verifying'[r] = verifying[r],
           NEW m \in MarkRec, mark' = m,
           \A x \in {m.recent, m.bookmark, m.resumeNewest} : Bounded(x),
           m = FreshMarks \/ (m.bookmark # 0 /\ m.recent # 0),
           \A r \in Listed : Owed(r) => ToCome(r, created[r], modified[r], Left(m, <<>>))
    PROVE  IndexInv'
<1>1. /\ created' = created /\ modified' = modified /\ content' = content /\ live' = live
      /\ lookups' = lookups
  BY DEF catalogue
<1>2. Listed' = Listed /\ Times' = Times /\ \A x : Bounded(x)' <=> Bounded(x)
  BY <1>1 DEF Listed, Times, Bounded
<1>3. IndexTypes'
  BY <1>1, NoWrites DEF IndexInv, IndexTypes
<1>4. Timed'
  BY <1>1, <1>2 DEF IndexInv, Timed
<1>5. \A k : WritesOf(pending', k) = {}
  BY NoWrites
<1>6. LeftInv'
  <2> DEFINE M == Left(m, <<>>)
  <2>1. /\ M.cursor = {m.cursor} /\ M.recent = {m.recent} /\ M.bookmark = {m.bookmark}
        /\ M.resume = {m.resume} /\ M.resumeNewest = {m.resumeNewest}
    BY NoneLeft
  <2>2. m.cursor \in Position \cup {None} /\ m.resume \in Position \cup {None}
    BY MarksAre
  <2>3. Left(mark, pending)' = M
    OBVIOUS
  <2> HIDE DEF M
  <2>4. /\ M.cursor \cup M.resume \subseteq Position \cup {None}
        /\ \A x \in M.recent \cup M.bookmark \cup M.resumeNewest : Bounded(x)
    BY <2>1, <2>2
  <2> QED  BY <1>2, <1>5, <2>3, <2>4 DEF LeftInv
<1>7. Stages'
  BY <1>5 DEF Stages, Fresh
<1>8. KeptInv'
  <2> SUFFICES ASSUME NEW r \in Listed
               PROVE  Owed(r)' => OnDisk(r)' /\ Kept(r)'
    BY <1>2 DEF KeptInv
  <2>1. Owed(r)' <=> Owed(r)
    BY <1>1, <1>2 DEF Owed
  <2> QED  BY <1>1, <2>1 DEF OnDisk, Kept
<1>9. FetchInv'
  BY DEF FetchInv
<1>10. VerifyInv'
  BY <1>1 DEF IndexInv, VerifyInv
<1> QED  BY <1>3, <1>4, <1>6, <1>7, <1>8, <1>9, <1>10 DEF IndexInv

(* What the deferred writes, or those a crash let through, leave on disk.   *)
LEMMA WritesKeep ==
    ASSUME IndexInv, UNCHANGED <<catalogue, live, lookups>>, phase = "scan", toScan = {},
           phase' = "idle", toScan' = {}, pending' = <<>>, fetched' = None,
           DOMAIN verifying' \subseteq DOMAIN verifying,
           \A r \in DOMAIN verifying' : verifying'[r] = verifying[r],
           NEW w \in Seq(Write), \A k : WritesOf(w, k) \subseteq WritesOf(pending, k),
           Fresh => WritesOf(w, "recent") # {} /\ WritesOf(w, "bookmark") # {},
           mark' = Written(w)
    PROVE  IndexInv'
<1> DEFINE m == Written(w)
           L == Left(mark, pending)
           M == Left(m, <<>>)
<1>1. /\ m.cursor \in {mark.cursor} \cup WritesOf(w, "cursor")
      /\ m.walked \in {mark.walked} \cup WritesOf(w, "walked")
      /\ m.recent \in {mark.recent} \cup WritesOf(w, "recent")
      /\ m.bookmark \in {mark.bookmark} \cup WritesOf(w, "bookmark")
      /\ m.resume \in {mark.resume} \cup WritesOf(w, "resume")
      /\ m.resumeNewest \in {mark.resumeNewest} \cup WritesOf(w, "resumeNewest")
      /\ WritesOf(w, "recent") # {} => m.recent \in WritesOf(w, "recent")
      /\ WritesOf(w, "bookmark") # {} => m.bookmark \in WritesOf(w, "bookmark")
      /\ m = [cursor |-> m.cursor, walked |-> m.walked, recent |-> m.recent,
              bookmark |-> m.bookmark, resume |-> m.resume, resumeNewest |-> m.resumeNewest]
  <2>1. \A k, old : /\ WritesOf(w, k) = {} => Latest(w, k, old) = old
                    /\ WritesOf(w, k) # {} => Latest(w, k, old) \in WritesOf(w, k)
    BY LatestIs
  <2>2. /\ m.cursor = Latest(w, "cursor", mark.cursor) /\ m.walked = Latest(w, "walked", mark.walked)
        /\ m.recent = Latest(w, "recent", mark.recent)
        /\ m.bookmark = Latest(w, "bookmark", mark.bookmark)
        /\ m.resume = Latest(w, "resume", mark.resume)
        /\ m.resumeNewest = Latest(w, "resumeNewest", mark.resumeNewest)
    BY DEF Written
  <2>3. m = [cursor |-> m.cursor, walked |-> m.walked, recent |-> m.recent,
              bookmark |-> m.bookmark, resume |-> m.resume, resumeNewest |-> m.resumeNewest]
    BY DEF Written
  <2> HIDE DEF m
  <2> QED  BY <2>1, <2>2, <2>3
<1>2. /\ L.cursor = {mark.cursor} \cup WritesOf(pending, "cursor")
      /\ L.walked = {mark.walked} \cup WritesOf(pending, "walked")
      /\ L.recent = {mark.recent} \cup WritesOf(pending, "recent")
      /\ L.bookmark = {mark.bookmark} \cup WritesOf(pending, "bookmark")
      /\ L.resume = {mark.resume} \cup WritesOf(pending, "resume")
      /\ L.resumeNewest = {mark.resumeNewest} \cup WritesOf(pending, "resumeNewest")
  BY LeftIs
<1> HIDE DEF m, L, M
<1>3. /\ m.cursor \in L.cursor /\ m.walked \in L.walked /\ m.recent \in L.recent
      /\ m.bookmark \in L.bookmark /\ m.resume \in L.resume
      /\ m.resumeNewest \in L.resumeNewest
  BY <1>1, <1>2
<1>4. /\ WritesOf(pending, "walked") \subseteq {TRUE}
      /\ L.cursor \cup L.resume \subseteq Position \cup {None}
      /\ \A x \in L.recent \cup L.bookmark \cup L.resumeNewest : Bounded(x)
      /\ 0 \notin WritesOf(pending, "recent") \cup WritesOf(pending, "bookmark")
      /\ Fresh \/ (mark.bookmark # 0 /\ mark.recent # 0)
  BY DEF IndexInv, LeftInv, Stages, L
<1>5. \A x \in {m.recent, m.bookmark, m.resumeNewest} : x \in Nat /\ Bounded(x)
  BY <1>3, <1>4 DEF Bounded
<1>6. m \in MarkRec
  <2>1. m.walked \in BOOLEAN
    <3>1. mark.walked \in BOOLEAN
      BY TypesOf, MarksAre
    <3>2. m.walked = mark.walked \/ m.walked \in WritesOf(pending, "walked")
      BY <1>1
    <3>3. CASE m.walked = mark.walked
      BY <3>1, <3>3
    <3>4. CASE m.walked \in WritesOf(pending, "walked")
      BY <1>4, <3>4
    <3> QED  BY <3>2, <3>3, <3>4
  <2>2. m.cursor \in Position \cup {None} /\ m.resume \in Position \cup {None}
    BY <1>3, <1>4
  <2> QED  BY <1>1, <1>5, <2>1, <2>2 DEF MarkRec
<1>7. m.recent # 0 /\ m.bookmark # 0
  <2>1. CASE Fresh
    BY <1>1, <1>4, <2>1
  <2>2. CASE ~Fresh
    BY <1>1, <1>4, <2>2
  <2> QED  BY <2>1, <2>2
<1>8. ASSUME NEW r \in Listed, Owed(r) PROVE ToCome(r, created[r], modified[r], M)
  <2>1. ToCome(r, created[r], modified[r], L)
    BY <1>8 DEF IndexInv, KeptInv, Kept, L
  <2>2. /\ M.cursor = {m.cursor} /\ M.walked = {m.walked} /\ M.recent = {m.recent}
        /\ M.bookmark = {m.bookmark} /\ M.resume = {m.resume} /\ M.resumeNewest = {m.resumeNewest}
    BY NoneLeft DEF M
  <2>3. /\ M.cursor \subseteq L.cursor /\ M.recent \subseteq L.recent
        /\ M.bookmark \subseteq L.bookmark /\ M.resume \subseteq L.resume
        /\ M.resumeNewest \subseteq L.resumeNewest /\ M.recent # {0} /\ M.bookmark # {0}
    BY <1>3, <1>7, <2>2
  <2>4. M.walked \subseteq L.walked
    BY <1>3, <2>2
  <2> QED  BY <2>1, <2>3, <2>4, FewerLeft
<1>9. mark' = m
  BY DEF m
<1> QED  BY <1>5, <1>6, <1>7, <1>8, <1>9, EndKeeps DEF M

LEMMA FlushKeeps == ASSUME IndexInv, Flush PROVE IndexInv'
<1>1. /\ phase = "scan" /\ toScan = {} /\ mark' = Written(pending) /\ phase' = "idle"
      /\ pending' = <<>> /\ toScan' = {} /\ fetched' = fetched /\ verifying' = verifying
      /\ UNCHANGED <<catalogue, live, lookups>>
  BY DEF Flush
<1>2. fetched = None
  BY <1>1 DEF IndexInv, FetchInv
<1>3. Fresh => WritesOf(pending, "recent") # {} /\ WritesOf(pending, "bookmark") # {}
  BY <1>1 DEF IndexInv, Stages
<1>4. pending \in Seq(Write)
  BY TypesOf
<1> QED  BY <1>1, <1>2, <1>3, <1>4, WritesKeep

LEMMA TornKeeps == ASSUME Seeded, IndexInv, FlushTorn PROVE IndexInv'
<1>1. /\ phase = "scan" /\ toScan = {} /\ phase' = "idle" /\ MayFail("torn")
      /\ pending' = <<>> /\ toScan' = {} /\ fetched' = fetched /\ verifying' = <<>>
      /\ UNCHANGED <<catalogue, live, lookups>>
  BY DEF FlushTorn
<1>2. fetched = None
  BY <1>1 DEF IndexInv, FetchInv
<1>3. ~Fresh
  BY <1>1, FreshIs DEF MayFail, Seeded
<1>4. PICK n \in 1..(Len(pending) - 1) : mark' = Written(SubSeq(pending, 1, n))
  BY DEF FlushTorn
<1>5. /\ SubSeq(pending, 1, n) \in Seq(Write)
      /\ \A k : WritesOf(SubSeq(pending, 1, n), k) \subseteq WritesOf(pending, k)
  BY TypesOf, PartWrites
<1>6. DOMAIN verifying' = {}
  BY <1>1
<1> QED  BY <1>1, <1>2, <1>3, <1>4, <1>5, <1>6, WritesKeep

LEMMA CrashKeeps == ASSUME IndexInv, Crash PROVE IndexInv'
<1>1. /\ phase' = "idle" /\ toScan' = {} /\ pending' = <<>> /\ fetched' = None
      /\ DOMAIN verifying' = {} /\ mark' = mark /\ UNCHANGED <<catalogue, live, lookups>>
  BY DEF Crash
<1>2. mark \in MarkRec
  BY TypesOf
<1>3. \A x \in {mark.recent, mark.bookmark, mark.resumeNewest} : Bounded(x)
  BY LeftIs DEF IndexInv, LeftInv
<1>4. Fresh \/ (mark.bookmark # 0 /\ mark.recent # 0)
  BY DEF IndexInv, Stages
<1>5. \A r \in Listed : Owed(r) => ToCome(r, created[r], modified[r], Left(mark, <<>>))
  BY DEF IndexInv, KeptInv, OnDisk
<1> QED  BY <1>1, <1>2, <1>3, <1>4, <1>5, EndKeeps DEF Fresh

LEMMA FetchKeeps == ASSUME Seeded, IndexInv, NEW r \in Repo, Fetch(r) PROVE IndexInv'
<1>1. /\ phase = "scan" /\ r \in toScan
      /\ UNCHANGED <<catalogue, live, mark, phase, toScan, pending, verifying, lookups>>
  BY DEF Fetch
<1>2. fetched' = [repo |-> r, content |-> content[r]]
  BY DEF Fetch, Answers, Seeded
<1>3. fetched'.repo = r /\ fetched'.content = content[r] /\ content[r] \in Nat
  BY <1>2, TypesOf
<1>4. IndexTypes' /\ Timed' /\ LeftInv' /\ Stages' /\ KeptInv' /\ VerifyInv'
  <2>1. /\ created' = created /\ modified' = modified /\ content' = content /\ live' = live
        /\ mark' = mark /\ verifying' = verifying /\ lookups' = lookups /\ phase' = phase
        /\ toScan' = toScan /\ pending' = pending
    BY <1>1 DEF catalogue
  <2>2. Listed' = Listed /\ Times' = Times
    BY <2>1 DEF Listed, Times
  <2>3. IndexTypes' /\ Timed' /\ Stages' /\ VerifyInv'
    BY <2>1, <2>2 DEF IndexInv, IndexTypes, Timed, Stages, VerifyInv, Fresh
  <2>4. LeftInv'
    BY <2>1, <2>2 DEF IndexInv, LeftInv, Bounded
  <2>5. KeptInv'
    BY <2>1, <2>2 DEF IndexInv, KeptInv, Owed, OnDisk, Kept, Fresh
  <2> QED  BY <2>3, <2>4, <2>5
<1>5. FetchInv'
  BY <1>1, <1>3 DEF FetchInv, catalogue
<1> QED  BY <1>4, <1>5 DEF IndexInv

(* What is written to the live rows of one repository.                      *)
LEMMA RowsKeep ==
    ASSUME IndexInv, UNCHANGED <<catalogue, mark, phase, pending, lookups>>,
           NEW r \in Repo, NEW n \in Nat, live' = [live EXCEPT ![r] = n],
           created[r] # 0,
           toScan' \in {toScan, toScan \ {r}},
           r \in Listed /\ Owed(r)' =>
              OnDisk(r) /\ ToCome(r, created[r], modified[r], Left(mark, pending)),
           phase \in {"recent", "changed"} => toScan' = toScan,
           DOMAIN verifying' \subseteq DOMAIN verifying,
           \A s \in DOMAIN verifying' : verifying'[s] = verifying[s],
           FetchInv'
    PROVE  IndexInv'
<1>1. /\ created' = created /\ modified' = modified /\ content' = content
      /\ mark' = mark /\ lookups' = lookups /\ phase' = phase /\ pending' = pending
  BY DEF catalogue
<1>2. Listed' = Listed /\ Times' = Times
  BY <1>1 DEF Listed, Times
<1>3. live' \in [Repo -> Nat] /\ live'[r] = n /\ \A s \in Repo \ {r} : live'[s] = live[s]
  BY TypesOf
<1>4. IndexTypes'
  BY <1>1, <1>3 DEF IndexInv, IndexTypes
<1>5. Timed'
  <2>1. toScan' \subseteq toScan
    OBVIOUS
  <2> QED  BY <1>1, <1>2, <1>3, <2>1 DEF IndexInv, Timed
<1>6. LeftInv'
  BY <1>1, <1>2 DEF IndexInv, LeftInv, Bounded
<1>7. Stages'
  <2>1. toScan = {} => toScan' = {}
    OBVIOUS
  <2> QED  BY <1>1, <2>1 DEF IndexInv, Stages, Fresh
<1>8. KeptInv'
  <2> SUFFICES ASSUME NEW s \in Listed
               PROVE  /\ Owed(s)' => OnDisk(s)' /\ Kept(s)'
                      /\ Fresh' /\ phase' \in {"recent", "changed"} => Kept(s)'
    BY <1>2 DEF KeptInv
  <2>1. /\ OnDisk(s)' <=> OnDisk(s)
        /\ Fresh' <=> Fresh
        /\ Kept(s)' <=> s \in toScan' \/ ToCome(s, created[s], modified[s], Left(mark, pending))
        /\ Kept(s) <=> s \in toScan \/ ToCome(s, created[s], modified[s], Left(mark, pending))
    BY <1>1 DEF OnDisk, Fresh, Kept
  <2>2. /\ Owed(s) => OnDisk(s) /\ Kept(s)
        /\ Fresh /\ phase \in {"recent", "changed"} => Kept(s)
    BY DEF IndexInv, KeptInv
  <2>3. Fresh' /\ phase' \in {"recent", "changed"} => Kept(s)'
    BY <1>1, <2>1, <2>2
  <2>4. CASE s = r
    BY <2>1, <2>3, <2>4
  <2>5. CASE s # r
    <3>1. s \in Repo
      BY TypesOf
    <3>2. Owed(s)' <=> Owed(s)
      BY <1>1, <1>2, <1>3, <2>5, <3>1 DEF Owed
    <3>3. s \in toScan' <=> s \in toScan
      BY <2>5
    <3> QED  BY <2>1, <2>2, <2>3, <3>2, <3>3
  <2> QED  BY <2>4, <2>5
<1>9. VerifyInv'
  BY <1>1 DEF IndexInv, VerifyInv
<1> QED  BY <1>4, <1>5, <1>6, <1>7, <1>8, <1>9 DEF IndexInv

LEMMA ApplyKeeps == ASSUME Seeded, IndexInv, Apply PROVE IndexInv'
<1>0. PICK r : r = fetched.repo
  OBVIOUS
<1>1. /\ fetched # None /\ fetched' = None /\ toScan' = toScan \ {r}
      /\ UNCHANGED <<catalogue, mark, phase, pending, verifying, lookups>>
  BY <1>0 DEF Apply
<1>2. /\ phase = "scan" /\ r \in toScan /\ fetched.content \in Nat
      /\ r \in Listed => \/ fetched.content = content[r]
                         \/ Book(r, modified[r], Left(mark, pending))
  BY <1>0, <1>1 DEF IndexInv, FetchInv
<1>3. r \in Repo /\ created[r] # 0
  BY <1>2, TypesOf DEF IndexInv, Timed
<1>4. live' = [live EXCEPT ![r] = fetched.content]
  <2>1. fetched.content # None
    BY <1>2, Repos
  <2> QED  BY <1>0, <2>1 DEF Apply
<1>5. live'[r] = fetched.content
  BY <1>3, <1>4, TypesOf
<1>6. r \in Listed /\ Owed(r)' =>
         OnDisk(r) /\ ToCome(r, created[r], modified[r], Left(mark, pending))
  <2> SUFFICES ASSUME r \in Listed, Owed(r)'
               PROVE  OnDisk(r) /\ ToCome(r, created[r], modified[r], Left(mark, pending))
    OBVIOUS
  <2>1. fetched.content # content[r]
    BY <1>1, <1>5 DEF Owed, catalogue
  <2>2. Book(r, modified[r], Left(mark, pending))
    BY <1>2, <2>1
  <2>3. OnDisk(r)
    <3>1. Fresh \/ mark.bookmark # 0
      BY DEF IndexInv, Stages
    <3> QED  BY <2>2, <3>1, FreshOnDisk, BookOnDisk DEF OnDisk, Fresh
  <2> QED  BY <2>2, <2>3 DEF ToCome
<1>7. FetchInv'
  BY <1>1 DEF FetchInv
<1> QED  BY <1>1, <1>2, <1>3, <1>4, <1>6, <1>7, RowsKeep

LEMMA VerifiedKeeps == ASSUME IndexInv, NEW r \in Repo, Verified(r) PROVE IndexInv'
<1>1. /\ r \in DOMAIN verifying /\ live' = [live EXCEPT ![r] = verifying[r]]
      /\ verifying' = [s \in DOMAIN verifying \ {r} |-> verifying[s]]
      /\ toScan' = toScan /\ fetched' = fetched
      /\ UNCHANGED <<catalogue, mark, phase, pending, lookups>>
  BY DEF Verified, tick
<1>2. /\ r \in ToSet(lookups) /\ verifying[r] \in Nat /\ created[r] # 0
      /\ verifying[r] = 0 => content[r] = 0
  BY <1>1 DEF IndexInv, VerifyInv
<1>3. live'[r] = verifying[r]
  BY <1>1, TypesOf
<1>4. ~(r \in Listed /\ Owed(r)')
  BY <1>1, <1>2, <1>3 DEF Owed, Listed
<1>5. FetchInv'
  BY <1>1 DEF IndexInv, FetchInv, catalogue, Listed
<1> QED  BY <1>1, <1>2, <1>4, <1>5, RowsKeep

LEMMA VerifyKeeps == ASSUME IndexInv, NEW r \in Repo, Verify(r) PROVE IndexInv'
<1>1. /\ live[r] # 0 /\ lookups' = Append(lookups, r)
      /\ verifying' = [s \in DOMAIN verifying \cup {r} |->
                          IF s = r THEN content[r] ELSE verifying[s]]
  BY DEF Verify
<1>2. /\ created' = created /\ modified' = modified /\ content' = content /\ live' = live
      /\ mark' = mark /\ phase' = phase /\ toScan' = toScan /\ pending' = pending
      /\ fetched' = fetched
  BY DEF Verify, catalogue, tick
<1>3. Listed' = Listed /\ Times' = Times
  BY <1>2 DEF Listed, Times
<1>4. lookups' \in Seq(Repo) /\ ToSet(lookups') = ToSet(lookups) \cup {r}
  <2>1. lookups \in Seq(Repo)
    BY DEF IndexInv, IndexTypes
  <2>2. /\ lookups' \in Seq(Repo) /\ Len(lookups') = Len(lookups) + 1
        /\ \A i \in 1..Len(lookups) : lookups'[i] = lookups[i]
        /\ lookups'[Len(lookups) + 1] = r
    BY <1>1, <2>1
  <2>3. DOMAIN lookups = 1..Len(lookups) /\ DOMAIN lookups' = 1..Len(lookups) \cup {Len(lookups) + 1}
    BY <2>1, <2>2
  <2> QED  BY <2>2, <2>3 DEF ToSet
<1>5. DOMAIN verifying' = DOMAIN verifying \cup {r} /\ verifying'[r] = content[r]
      /\ \A s \in DOMAIN verifying : s # r => verifying'[s] = verifying[s]
  BY <1>1
<1>6. IndexTypes'
  BY <1>2, <1>4, <1>5 DEF IndexInv, IndexTypes
<1>7. Timed' /\ Stages'
  BY <1>2, <1>3 DEF IndexInv, Timed, Stages, Fresh
<1>8. LeftInv'
  BY <1>2, <1>3 DEF IndexInv, LeftInv, Bounded
<1>9. KeptInv'
  <2>1. \A s : Owed(s)' => Owed(s)
    BY <1>2, <1>3, <1>4 DEF Owed
  <2> QED  BY <1>2, <1>3, <2>1 DEF IndexInv, KeptInv, OnDisk, Kept, Fresh
<1>10. FetchInv'
  BY <1>2, <1>3 DEF IndexInv, FetchInv
<1>11. VerifyInv'
  <2>1. content[r] \in Nat /\ created[r] # 0
    BY <1>1, TypesOf DEF IndexInv, Timed
  <2> QED  BY <1>2, <1>4, <1>5, <2>1 DEF IndexInv, VerifyInv
<1> QED  BY <1>6, <1>7, <1>8, <1>9, <1>10, <1>11 DEF IndexInv

LEMMA IndexStep == ASSUME Seeded, IndexInv, [Next]_vars PROVE IndexInv'
<1>1. CASE \E r \in Repo : Create(r) \/ Modify(r) \/ Delete(r)
  BY <1>1, CreateKeeps, ModifyKeeps, DeleteKeeps
<1>2. CASE Tick
  BY <1>2, WalkKeeps, RecentKeeps, ChangedKeeps, FetchKeeps, ApplyKeeps, FlushKeeps DEF Tick
<1>3. CASE \E r \in Repo : Verify(r) \/ Verified(r)
  BY <1>3, VerifyKeeps, VerifiedKeeps
<1>4. CASE Crash \/ FlushTorn
  BY <1>4, CrashKeeps, TornKeeps
<1>5. CASE UNCHANGED vars
  <2>1. /\ created' = created /\ modified' = modified /\ content' = content /\ live' = live
        /\ mark' = mark /\ verifying' = verifying /\ lookups' = lookups /\ phase' = phase
        /\ toScan' = toScan /\ pending' = pending /\ fetched' = fetched
    BY <1>5 DEF vars, catalogue, tick
  <2>2. Listed' = Listed /\ Times' = Times
    BY <2>1 DEF Listed, Times
  <2>3. IndexTypes' /\ Timed' /\ Stages' /\ VerifyInv'
    BY <2>1, <2>2 DEF IndexInv, IndexTypes, Timed, Stages, VerifyInv, Fresh
  <2>4. LeftInv'
    BY <2>1, <2>2 DEF IndexInv, LeftInv, Bounded
  <2>5. KeptInv'
    BY <2>1, <2>2 DEF IndexInv, KeptInv, Owed, OnDisk, Kept, Fresh
  <2>6. FetchInv'
    BY <2>1, <2>2 DEF IndexInv, FetchInv
  <2> QED  BY <2>3, <2>4, <2>5, <2>6 DEF IndexInv
<1> QED  BY <1>1, <1>2, <1>3, <1>4, <1>5 DEF Next

(* The index passes no repository for good: one that it does not have as it *)
(* is now is still ahead of a marker on disk, whatever is edited, looked    *)
(* up, cut off by a failing page or interrupted by a crash, half way        *)
(* through the deferred writes too (hf-index.ts, runIndexTick).             *)
THEOREM NothingIsSkipped == Seeded /\ Spec => []NothingSkipped
<1> DEFINE Inv == Seeded /\ IndexInv
<1>1. Seeded /\ Init => Inv
  BY IndexStart
<1>2. Inv /\ [Next]_vars => Inv'
  BY IndexStep DEF Seeded
<1>3. Inv => NothingSkipped
  BY InvSkipsNothing
<1> HIDE DEF Inv
<1> QED  BY <1>1, <1>2, <1>3, PTL DEF Spec
=============================================================================
