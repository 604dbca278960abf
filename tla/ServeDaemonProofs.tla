-------------------------- MODULE ServeDaemonProofs --------------------------
(* Theorems about ServeDaemon, for any models, requests, number of restarts *)
(* and jobs, and every choice of faults.                                    *)
EXTENDS ServeDaemon, SequenceTheorems, FiniteSetTheorems, TLAPS

-----------------------------------------------------------------------------
(* The invariant. *)

Typed ==
    /\ running \in OptProc /\ stopping \in OptProc /\ crashWatch \in BOOLEAN
    /\ suspendedSpec \in OptSpec /\ lastSpec \in OptSpec
    /\ lock \in Seq(Entry) /\ held \in Held
    /\ proc \in [Proc -> Process]
    /\ request \in [Request -> [state : {"none", "reading", "active"}, proc : OptProc]]
    /\ loop \in {"polling", "waiting", "testing"}

(* Whose process may live, by what the holder of the lock is doing. *)
Live(p) == proc[p].life \in {"loading", "up"}
OnlyLive(p) == \A q \in Proc : Live(q) => q = p
Resting == stopping = None /\ OnlyLive(running)
TakingOut ==
    /\ running = None /\ stopping # None /\ OnlyLive(stopping)
    /\ Head(lock).kind \in JobKind
    /\ Head(lock).kind = "suspend" => phase = "suspended"
    /\ phase # "ready"
Starting ==
    /\ stopping = None /\ held.spec \in Spec
    /\ Head(lock).kind \in {"load", "restore", "restart"}
Preparing == Starting /\ running = None /\ OnlyLive(None)
Probing == Starting /\ held.proc # None /\ running = held.proc /\ crashWatch = FALSE /\ OnlyLive(held.proc)
Reading == Starting /\ held.proc # None /\ running \in {held.proc, None} /\ OnlyLive(running)
Cleaning == Starting /\ held.proc # None /\ running = None /\ OnlyLive(held.proc)
Where ==
    /\ lock = <<>> => held.step = "waiting"
    /\ held.step = "waiting" => Resting
    /\ held.step \in {"draining", "killing"} => TakingOut
    /\ held.step = "preparing" => Preparing
    /\ held.step \in {"probing", "answered"} => Probing
    /\ held.step = "reading" => Reading
    /\ held.step = "cleaning" => Cleaning

(* Restarts and loads name a model, and so does what runs. *)
Named ==
    /\ \A i \in DOMAIN lock : lock[i].kind \in {"load", "restart"} => lock[i].spec \in Spec
    /\ running # None => proc[running].spec \in Spec

(* The job of the loop has its place in the queue: what was there before it *)
(* will not start anything new, and a restart that came after it finds the  *)
(* model marked for it.                                                     *)
JobAt(j) ==
    /\ lock[j].kind \in JobKind
    /\ \A i \in DOMAIN lock : i < j => lock[i].kind \notin JobKind /\ ~lock[i].fresh
    /\ \A i \in DOMAIN lock : i > j => lock[i].kind = "restart"
    /\ lock[j].kind = "suspend" /\ j < Len(lock) /\ (j > 1 \/ held.step = "waiting") =>
          suspendedSpec # None
NoJob == \A i \in DOMAIN lock : lock[i].kind \notin JobKind
JobWaits == \E j \in DOMAIN lock : JobAt(j)
NothingStarts ==
    /\ held.step = "waiting" /\ running = None
    /\ \A i \in DOMAIN lock : lock[i].kind = "restart"
    /\ lock # <<>> => phase # "crashed"
Queue ==
    /\ loop = "polling" => NoJob
    /\ loop = "waiting" => JobWaits
    /\ loop = "testing" => NothingStarts

Requests ==
    /\ \A q \in Request : request[q].state = "reading" => request[q].proc # None
    /\ held.step = "killing" => Active = {}

Inv == Typed /\ Where /\ Named /\ Queue /\ Requests

-----------------------------------------------------------------------------
LEMMA SpecIsSome == None \notin Spec /\ None \notin Proc
  BY NoneAssumption

LEMMA DoingIsHeld ==
    ASSUME NEW step \in {"waiting", "draining", "killing", "preparing", "probing",
                         "answered", "reading", "cleaning"},
           NEW s \in OptSpec, NEW p \in OptProc, NEW again \in BOOLEAN,
           NEW why \in {"none", "cancelled", "failed", "bind"}
    PROVE  /\ Doing(step, s, p, again, why) \in Held
           /\ Doing(step, s, p, again, why).step = step
           /\ Doing(step, s, p, again, why).spec = s
           /\ Doing(step, s, p, again, why).proc = p
  BY DEF Doing, Held

LEMMA Nothing == Gone \in Process /\ Gone.life = "gone" /\ Idle \in Held /\ Idle.step = "waiting"
  BY DEF Gone, Process, Idle, Doing, Held, OptSpec, OptProc

LEMMA InitInv == Init => Inv
<1> SUFFICES ASSUME Init PROVE Inv
  OBVIOUS
<1> USE Nothing DEF Init
<1>1. Typed
  <2>1. NoRequest \in [state : {"none", "reading", "active"}, proc : OptProc]
    BY DEF NoRequest, OptProc
  <2>2. lock \in Seq(Entry)
    BY EmptySeq
  <2> QED  BY <2>1, <2>2 DEF Typed, OptProc, OptSpec
<1>2. \A p \in Proc : ~Live(p)
  BY DEF Live
<1>3. lock = <<>> /\ DOMAIN lock = {}
  OBVIOUS
<1>4. Where
  BY <1>2 DEF Where, Resting, OnlyLive
<1>5. Named /\ Queue
  BY <1>3 DEF Named, Queue, NoJob
<1>6. Requests
  BY DEF Requests, NoRequest
<1> QED  BY <1>1, <1>4, <1>5, <1>6 DEF Inv

-----------------------------------------------------------------------------
(* The lock. *)

LEMMA HeadAndTail ==
    ASSUME Typed, lock # <<>>
    PROVE  /\ Len(lock) \in Nat /\ Len(lock) >= 1 /\ DOMAIN lock = 1..Len(lock)
           /\ Head(lock) = lock[1] /\ Head(lock) \in Entry
           /\ \A i \in DOMAIN lock : lock[i] \in Entry
           /\ Tail(lock) \in Seq(Entry) /\ Len(Tail(lock)) = Len(lock) - 1
           /\ DOMAIN Tail(lock) = 1..(Len(lock) - 1)
           /\ \A i \in 1..(Len(lock) - 1) : Tail(lock)[i] = lock[i + 1]
  BY DEF Typed

(* The job at the head, or one that waits behind what is in service. *)
LEMMA ReleaseQueue ==
    ASSUME Inv, lock # <<>>, Release,
           Head(lock).kind = "suspend" \/ loop = "testing" =>
               running' = None /\ (Len(lock) > 1 => phase' # "crashed"),
           loop = "waiting" /\ suspendedSpec # None /\ Background => suspendedSpec' # None
    PROVE  /\ Queue'
           /\ lock' \in Seq(Entry) /\ held' = Idle
           /\ loop' \in {"polling", "waiting", "testing"}
           /\ \A i \in DOMAIN lock' : lock'[i].kind \in {"load", "restart"} => lock'[i].spec \in Spec
<1> DEFINE n == Len(lock)
<1>1. /\ n \in Nat /\ n >= 1 /\ DOMAIN lock = 1..n
      /\ Head(lock) = lock[1] /\ Head(lock) \in Entry
      /\ \A i \in DOMAIN lock : lock[i] \in Entry
      /\ lock' \in Seq(Entry) /\ Len(lock') = n - 1
      /\ DOMAIN lock' = 1..(n - 1)
      /\ \A i \in 1..(n - 1) : lock'[i] = lock[i + 1]
  BY HeadAndTail DEF Inv, Release
<1>2. held' = Idle /\ held'.step = "waiting"
  BY Nothing DEF Release
<1>3. loop \in {"polling", "waiting", "testing"} /\ loop' \in {"polling", "waiting", "testing"}
  BY DEF Inv, Typed, Release
<1>4. \A i \in DOMAIN lock' : lock'[i].kind \in {"load", "restart"} => lock'[i].spec \in Spec
  BY <1>1 DEF Inv, Named
<1>5. Background \/ Head(lock).kind \in JobKind
  BY <1>1 DEF Background, Entry
<1>6. ASSUME Background PROVE Queue'
  <2>1. loop' = loop /\ Head(lock).kind \notin JobKind
    BY <1>6 DEF Release, Background, JobKind
  <2>2. CASE loop = "polling"
    <3>1. NoJob
      BY <2>2 DEF Inv, Queue
    <3>2. NoJob'
      <4> SUFFICES ASSUME NEW i \in DOMAIN lock' PROVE lock'[i].kind \notin JobKind
        BY DEF NoJob
      <4>1. i + 1 \in DOMAIN lock /\ lock'[i] = lock[i + 1]
        BY <1>1
      <4> QED  BY <3>1, <4>1 DEF NoJob
    <3> QED  BY <2>1, <2>2, <3>2 DEF Queue
  <2>3. CASE loop = "testing"
    <3>1. \A i \in DOMAIN lock' : lock'[i].kind = "restart"
      BY <2>3, <1>1 DEF Inv, Queue, NothingStarts
    <3>2. lock' # <<>> => n > 1
      BY <1>1
    <3>3. NothingStarts'
      BY <2>3, <1>2, <3>1, <3>2 DEF NothingStarts
    <3> QED  BY <2>1, <2>3, <3>3 DEF Queue
  <2>4. CASE loop = "waiting"
    <3>1. PICK j \in DOMAIN lock : JobAt(j)
      BY <2>4 DEF Inv, Queue, JobWaits
    <3>2. j \in 2..n
      BY <3>1, <2>1, <1>1 DEF JobAt
    <3> DEFINE k == j - 1
    <3>3. k \in DOMAIN lock' /\ k \in 1..(n - 1) /\ k + 1 = j
      BY <3>2, <1>1
    <3>4. lock'[k] = lock[j] /\ lock'[k].kind \in JobKind
      BY <3>1, <3>3, <1>1 DEF JobAt
    <3>5. \A i \in DOMAIN lock' : i < k => lock'[i].kind \notin JobKind /\ ~lock'[i].fresh
      <4> TAKE i \in DOMAIN lock'
      <4>1. i + 1 \in DOMAIN lock /\ (i < k => i + 1 < j) /\ lock'[i] = lock[i + 1]
        BY <3>3, <3>2, <1>1
      <4> QED  BY <4>1, <3>1 DEF JobAt
    <3>6. \A i \in DOMAIN lock' : i > k => lock'[i].kind = "restart"
      <4> TAKE i \in DOMAIN lock'
      <4>1. i + 1 \in DOMAIN lock /\ (i > k => i + 1 > j) /\ lock'[i] = lock[i + 1]
        BY <3>3, <3>2, <1>1
      <4> QED  BY <4>1, <3>1 DEF JobAt
    <3>7. lock'[k].kind = "suspend" /\ k < Len(lock') => suspendedSpec' # None
      BY <3>1, <3>2, <3>3, <3>4, <1>1, <1>6, <2>4 DEF JobAt
    <3>8. JobAt(k)'
      BY <3>4, <3>5, <3>6, <3>7 DEF JobAt
    <3>9. JobWaits'
      BY <3>3, <3>8 DEF JobWaits
    <3> QED  BY <3>9, <2>1, <2>4 DEF Queue
  <2> QED  BY <2>2, <2>3, <2>4, <1>3
<1>7. ASSUME Head(lock).kind \in JobKind PROVE Queue'
  <2>1. loop = "waiting"
    <3>1. loop # "polling"
      BY <1>7, <1>1 DEF Inv, Queue, NoJob
    <3>2. loop # "testing"
      BY <1>7, <1>1 DEF Inv, Queue, NothingStarts, JobKind
    <3> QED  BY <3>1, <3>2, <1>3
  <2>2. JobAt(1)
    <3>1. PICK j \in DOMAIN lock : JobAt(j)
      BY <2>1 DEF Inv, Queue, JobWaits
    <3>2. j = 1
      BY <3>1, <1>7, <1>1 DEF JobAt
    <3> QED  BY <3>1, <3>2
  <2>3. \A i \in DOMAIN lock' : lock'[i].kind = "restart"
    <3> TAKE i \in DOMAIN lock'
    <3>1. i + 1 \in DOMAIN lock /\ i + 1 > 1 /\ lock'[i] = lock[i + 1]
      BY <1>1
    <3> QED  BY <3>1, <2>2 DEF JobAt
  <2>4. loop' = IF Head(lock).kind = "suspend" THEN "testing" ELSE "polling"
    BY <1>7 DEF Release, Background, JobKind
  <2>5. lock' # <<>> => n > 1
    BY <1>1
  <2>6. CASE Head(lock).kind = "suspend"
    <3>1. NothingStarts'
      BY <2>3, <2>5, <2>6, <1>2 DEF NothingStarts
    <3> QED  BY <2>4, <2>6, <3>1 DEF Queue
  <2>7. CASE Head(lock).kind # "suspend"
    <3>1. NoJob'
      BY <2>3 DEF NoJob, JobKind
    <3> QED  BY <2>4, <2>7, <3>1 DEF Queue
  <2> QED  BY <2>6, <2>7
<1> QED  BY <1>1, <1>2, <1>3, <1>4, <1>5, <1>6, <1>7

LEMMA KeepQueue ==
    ASSUME Inv, lock # <<>>, lock' = lock, loop' = loop, loop # "testing",
           held'.step # "waiting",
           loop = "waiting" /\ suspendedSpec # None /\ Background => suspendedSpec' # None
    PROVE  Queue'
<1>1. CASE loop = "waiting"
  <2>1. PICK j \in DOMAIN lock : JobAt(j)
    BY <1>1 DEF Inv, Queue, JobWaits
  <2>2. j > 1 => Background
    BY <2>1, HeadAndTail DEF Inv, JobAt, Background, Entry
  <2>3. lock'[j].kind = "suspend" /\ j < Len(lock') /\ (j > 1 \/ held'.step = "waiting") =>
            suspendedSpec' # None
    BY <1>1, <2>1, <2>2 DEF JobAt
  <2>4. JobAt(j)'
    BY <2>1, <2>3 DEF JobAt
  <2>5. JobWaits'
    BY <2>1, <2>4 DEF JobWaits
  <2> QED  BY <1>1, <2>5 DEF Queue
<1>2. CASE loop = "polling"
  BY <1>2 DEF Inv, Queue, NoJob
<1> QED  BY <1>1, <1>2 DEF Inv, Typed

LEMMA HeadOfQueue ==   \* who holds the lock while the loop waits or tests
    ASSUME Inv, lock # <<>>
    PROVE  /\ Head(lock) \in Entry /\ Head(lock) = lock[1]
           /\ Head(lock).kind \in {"load", "restart"} => Head(lock).spec \in Spec
           /\ Head(lock).kind \in JobKind => loop = "waiting"
           /\ held.step # "waiting" => loop # "testing"
           /\ loop = "testing" => Head(lock).kind = "restart" /\ phase # "crashed"
           /\ loop = "waiting" /\ Background => ~Head(lock).fresh
<1>1. /\ Head(lock) \in Entry /\ Head(lock) = lock[1] /\ DOMAIN lock = 1..Len(lock)
      /\ Len(lock) \in Nat /\ 1 \in DOMAIN lock
  BY HeadAndTail DEF Inv
<1>2. Head(lock).kind \in {"load", "restart"} => Head(lock).spec \in Spec
  BY <1>1 DEF Inv, Named
<1>3. Head(lock).kind \in JobKind => loop = "waiting"
  BY <1>1 DEF Inv, Queue, NoJob, NothingStarts, Typed, JobKind
<1>4. (held.step # "waiting" => loop # "testing") /\ (loop = "testing" => Head(lock).kind = "restart" /\ phase # "crashed")
  BY <1>1 DEF Inv, Queue, NothingStarts
<1>5. loop = "waiting" /\ Background => ~Head(lock).fresh
  <2> SUFFICES ASSUME loop = "waiting", Background PROVE ~lock[1].fresh
    BY <1>1
  <2>1. PICK j \in DOMAIN lock : JobAt(j)
    BY DEF Inv, Queue, JobWaits
  <2>2. j # 1
    BY <2>1, <1>1 DEF JobAt, Background, JobKind
  <2> QED  BY <2>1, <2>2, <1>1 DEF JobAt
<1> QED  BY <1>1, <1>2, <1>3, <1>4, <1>5

LEMMA Appended ==
    ASSUME Inv, NEW e \in Entry, lock' = Append(lock, e)
    PROVE  /\ lock' \in Seq(Entry) /\ Len(lock) \in Nat /\ DOMAIN lock = 1..Len(lock)
           /\ Len(lock') = Len(lock) + 1 /\ DOMAIN lock' = 1..(Len(lock) + 1)
           /\ \A i \in 1..Len(lock) : lock'[i] = lock[i]
           /\ lock'[Len(lock) + 1] = e
           /\ lock' # <<>>
           /\ lock # <<>> => Head(lock') = Head(lock)
           /\ (e.kind \in {"load", "restart"} => e.spec \in Spec) =>
                \A i \in DOMAIN lock' : lock'[i].kind \in {"load", "restart"} => lock'[i].spec \in Spec
<1>1. lock \in Seq(Entry)
  BY DEF Inv, Typed
<1>2. /\ lock' \in Seq(Entry) /\ Len(lock) \in Nat /\ DOMAIN lock = 1..Len(lock)
      /\ Len(lock') = Len(lock) + 1 /\ DOMAIN lock' = 1..(Len(lock) + 1)
      /\ \A i \in 1..Len(lock) : lock'[i] = lock[i]
      /\ lock'[Len(lock) + 1] = e
      /\ lock' # <<>>
  BY <1>1
<1>3. lock # <<>> => Head(lock') = Head(lock)
  BY <1>1, <1>2
<1>4. \A i \in DOMAIN lock' : i \in DOMAIN lock \/ i = Len(lock) + 1
  BY <1>2
<1> QED  BY <1>2, <1>3, <1>4 DEF Inv, Named

(* What is done while the lock stays with whoever has it. *)
LEMMA WhereKept ==
    ASSUME Inv, UNCHANGED <<running, stopping, crashWatch, phase, held>>,
           lock' = lock \/ (lock' # <<>> /\ (lock # <<>> => Head(lock') = Head(lock))),
           \A p \in Proc : proc'[p].life \in {"loading", "up"} => Live(p)
    PROVE  Where'
<1>1. \A p : OnlyLive(p) => OnlyLive(p)'
  BY DEF OnlyLive, Live
<1>2. lock # <<>> => Head(lock') = Head(lock)
  OBVIOUS
<1>3. lock' = <<>> => lock = <<>>
  OBVIOUS
<1>4. Where
  BY DEF Inv
<1>5. held.step # "waiting" => lock # <<>>
  BY <1>4 DEF Where
<1>6. held.step = "waiting" => Resting'
  BY <1>1, <1>4 DEF Where, Resting
<1>7. held.step \in {"draining", "killing"} => TakingOut'
  BY <1>1, <1>2, <1>4, <1>5 DEF Where, TakingOut
<1>8. Starting /\ lock # <<>> => Starting'
  BY <1>2 DEF Starting
<1>9. held.step = "preparing" => Preparing'
  BY <1>1, <1>4, <1>5, <1>8 DEF Where, Preparing
<1>10. held.step \in {"probing", "answered"} => Probing'
  BY <1>1, <1>4, <1>5, <1>8 DEF Where, Probing
<1>11. held.step = "reading" => Reading'
  BY <1>1, <1>4, <1>5, <1>8 DEF Where, Reading
<1>12. held.step = "cleaning" => Cleaning'
  BY <1>1, <1>4, <1>5, <1>8 DEF Where, Cleaning
<1> QED  BY <1>3, <1>4, <1>6, <1>7, <1>9, <1>10, <1>11, <1>12 DEF Where

LEMMA RequestsKept ==
    ASSUME Inv, UNCHANGED request, held'.step = "killing" => held.step = "killing"
    PROVE  Requests'
  BY DEF Inv, Requests, Active

-----------------------------------------------------------------------------
(* The loop. *)

LEMMA PollEmptyInv == Inv /\ PollEmpty => Inv'
<1> SUFFICES ASSUME Inv, PollEmpty PROVE Inv'
  OBVIOUS
<1> DEFINE e == [kind |-> "restore", spec |-> None, fresh |-> TRUE]
<1>1. e \in Entry /\ e.kind = "restore" /\ lock' = Append(lock, e)
  BY DEF PollEmpty, Entry, OptSpec
<1>2. UNCHANGED <<managerVars, held, loop, lastSpec, proc, request>> /\ loop = "polling"
  BY DEF PollEmpty
<1>3. Typed'
  BY <1>1, <1>2, Appended DEF Inv, Typed, managerVars
<1>4. Where'
  BY <1>1, <1>2, Appended, WhereKept DEF managerVars, Live
<1>5. Named'
  BY <1>1, <1>2, Appended DEF Inv, Named, managerVars
<1>6. NoJob'
  <2>1. NoJob
    BY <1>2 DEF Inv, Queue
  <2> QED  BY <1>1, <2>1, Appended DEF NoJob, JobKind
<1>7. Queue'
  BY <1>2, <1>6 DEF Queue
<1>8. Requests'
  BY <1>2, RequestsKept
<1> QED  BY <1>3, <1>4, <1>5, <1>7, <1>8 DEF Inv

LEMMA PollJobInv ==
    ASSUME Inv, NEW kind \in JobKind, NEW s \in OptSpec, kind = "load" => s \in Spec,
           PollJob(kind, s)
    PROVE  Inv'
<1> DEFINE e == [kind |-> kind, spec |-> s, fresh |-> TRUE]
           old == [i \in DOMAIN lock |-> [lock[i] EXCEPT !.fresh = FALSE]]
           n == Len(lock)
<1>1. e \in Entry /\ e.kind = kind /\ e.spec = s /\ lock' = Append(old, e)
  BY DEF PollJob, Entry
<1>2. UNCHANGED <<managerVars, held, lastSpec, proc, request>> /\ loop = "polling" /\ loop' = "waiting"
  BY DEF PollJob
<1>3. lock \in Seq(Entry) /\ n \in Nat /\ DOMAIN lock = 1..n
  BY DEF Inv, Typed
<1>4. \A i \in 1..n : old[i] \in Entry /\ ~old[i].fresh /\ old[i].kind = lock[i].kind /\ old[i].spec = lock[i].spec
  <2> SUFFICES ASSUME NEW i \in 1..n
               PROVE old[i] \in Entry /\ ~old[i].fresh /\ old[i].kind = lock[i].kind /\ old[i].spec = lock[i].spec
    OBVIOUS
  <2>1. lock[i] \in Entry /\ old[i] = [lock[i] EXCEPT !.fresh = FALSE]
    BY <1>3
  <2> QED  BY <2>1 DEF Entry
<1>5. old \in Seq(Entry) /\ Len(old) = n
  BY <1>3, <1>4
<1>6. /\ lock' \in Seq(Entry) /\ Len(lock') = n + 1 /\ DOMAIN lock' = 1..(n + 1)
      /\ \A i \in 1..n : lock'[i] = old[i]
      /\ lock'[n + 1] = e /\ lock' # <<>>
  BY <1>1, <1>3, <1>5
<1>7. Typed'
  BY <1>2, <1>6 DEF Inv, Typed, managerVars
<1>8. Where'
  <2>1. \A p : OnlyLive(p) => OnlyLive(p)'
    BY <1>2 DEF OnlyLive, Live
  <2>2. lock # <<>> => Head(lock').kind = Head(lock).kind
    <3> SUFFICES ASSUME lock # <<>> PROVE Head(lock').kind = Head(lock).kind
      OBVIOUS
    <3>1. 1 \in 1..n /\ Head(lock) = lock[1] /\ Head(lock') = lock'[1]
      BY <1>3, <1>6
    <3>2. old[1].kind = lock[1].kind
      BY <3>1, <1>4
    <3>3. lock'[1] = old[1]
      BY <3>1, <1>6
    <3> HIDE DEF old
    <3> QED  BY <3>1, <3>2, <3>3
  <2>3. Where /\ (held.step # "waiting" => lock # <<>>)
    BY DEF Inv, Where
  <2>4. held.step = "waiting" => Resting'
    BY <1>2, <2>1, <2>3 DEF Where, Resting, managerVars
  <2>5. held.step \in {"draining", "killing"} => TakingOut'
    BY <1>2, <2>1, <2>2, <2>3 DEF Where, TakingOut, managerVars
  <2>6. Starting /\ lock # <<>> => Starting'
    BY <1>2, <2>2 DEF Starting, managerVars
  <2>7. held.step = "preparing" => Preparing'
    BY <1>2, <2>1, <2>3, <2>6 DEF Where, Preparing, managerVars
  <2>8. held.step \in {"probing", "answered"} => Probing'
    BY <1>2, <2>1, <2>3, <2>6 DEF Where, Probing, managerVars
  <2>9. held.step = "reading" => Reading'
    BY <1>2, <2>1, <2>3, <2>6 DEF Where, Reading, managerVars
  <2>10. held.step = "cleaning" => Cleaning'
    BY <1>2, <2>1, <2>3, <2>6 DEF Where, Cleaning, managerVars
  <2> QED  BY <1>2, <1>6, <2>4, <2>5, <2>7, <2>8, <2>9, <2>10 DEF Where
<1>9. Named'
  <2>1. \A i \in DOMAIN lock' : lock'[i].kind \in {"load", "restart"} => lock'[i].spec \in Spec
    <3> SUFFICES ASSUME NEW i \in DOMAIN lock', lock'[i].kind \in {"load", "restart"}
                 PROVE lock'[i].spec \in Spec
      OBVIOUS
    <3>1. CASE i = n + 1
      BY <3>1, <1>1, <1>6 DEF JobKind
    <3>2. CASE i \in 1..n
      BY <3>2, <1>3, <1>4, <1>6 DEF Inv, Named
    <3> QED  BY <3>1, <3>2, <1>3, <1>6
  <2> QED  BY <2>1, <1>2 DEF Inv, Named, managerVars
<1>10. Queue'
  <2>1. \A i \in 1..n : lock'[i].kind \notin JobKind /\ ~lock'[i].fresh
    BY <1>2, <1>3, <1>4, <1>6 DEF Inv, Queue, NoJob
  <2>2. PICK j \in Nat : j = n + 1
    BY <1>3
  <2>3. \A i \in DOMAIN lock' : (i < j => i \in 1..n) /\ ~(i > j)
    BY <1>3, <1>6, <2>2
  <2>4. j \in DOMAIN lock' /\ ~(j < Len(lock')) /\ lock'[j].kind \in JobKind
    BY <1>1, <1>3, <1>6, <2>2
  <2>5. JobAt(j)'
    BY <2>1, <2>3, <2>4 DEF JobAt
  <2>6. JobWaits'
    BY <2>4, <2>5 DEF JobWaits
  <2> QED  BY <1>2, <2>6 DEF Queue
<1>11. Requests'
  BY <1>2, RequestsKept
<1> QED  BY <1>7, <1>8, <1>9, <1>10, <1>11 DEF Inv

LEMMA TestEndsInv == Inv /\ TestEnds => Inv'
<1> SUFFICES ASSUME Inv, TestEnds PROVE Inv'
  OBVIOUS
<1>1. UNCHANGED <<managerVars, lock, held, lastSpec, proc, request>> /\ loop = "testing" /\ loop' = "polling"
  BY DEF TestEnds
<1>2. Typed' /\ Named'
  BY <1>1 DEF Inv, Typed, Named, managerVars
<1>3. Where'
  BY <1>1, WhereKept DEF managerVars, Live
<1>4. NoJob'
  BY <1>1 DEF Inv, Queue, NothingStarts, NoJob, JobKind
<1>5. Queue'
  BY <1>1, <1>4 DEF Queue
<1>6. Requests'
  BY <1>1, RequestsKept
<1> QED  BY <1>2, <1>3, <1>5, <1>6 DEF Inv

LEMMA QueueKept ==
    ASSUME Inv, UNCHANGED <<lock, loop, held, running, phase, suspendedSpec>>
    PROVE  Queue'
<1>1. \A j : JobAt(j) => JobAt(j)'
  BY DEF JobAt
<1>2. (NoJob => NoJob') /\ (JobWaits => JobWaits') /\ (NothingStarts => NothingStarts')
  BY <1>1 DEF NoJob, JobWaits, NothingStarts
<1> QED  BY <1>2 DEF Inv, Queue

LEMMA RequestStopInv == Inv /\ RequestStop => Inv'
<1> SUFFICES ASSUME Inv, RequestStop PROVE Inv'
  OBVIOUS
<1>1. UNCHANGED <<managerVars, lock, held, loop, lastSpec, request>>
  BY DEF RequestStop
<1>2. \/ proc' = proc
      \/ held.proc \in Proc /\ proc' = [proc EXCEPT ![held.proc].life = "killed"]
  <2>1. held.proc \in OptProc
    BY DEF Inv, Typed, Held
  <2> QED  BY <2>1 DEF RequestStop, OptProc
<1>3. /\ proc' \in [Proc -> Process]
      /\ \A p \in Proc : proc'[p].spec = proc[p].spec /\ (proc'[p].life = proc[p].life \/ proc'[p].life = "killed")
  <2>1. proc \in [Proc -> Process]
    BY DEF Inv, Typed
  <2> QED  BY <1>2, <2>1 DEF Process
<1>4. Typed' /\ Named'
  BY <1>1, <1>3 DEF Inv, Typed, Named, managerVars, OptProc
<1>5. Where'
  BY <1>1, <1>3, WhereKept DEF managerVars, Live
<1>6. Queue' /\ Requests'
  BY <1>1, QueueKept, RequestsKept DEF managerVars
<1> QED  BY <1>4, <1>5, <1>6 DEF Inv

-----------------------------------------------------------------------------
(* Whoever holds the lock. *)

(* What a start, a stop and a release leave. *)
LEMMA Resumed ==
    ASSUME held' = Idle, stopping' = None, OnlyLive(running)'
    PROVE  Where'
  BY Nothing DEF Where, Resting

LEMMA Pushed ==   \* held as the next step needs it
    ASSUME Inv, NEW step \in {"draining", "killing", "preparing", "probing", "cleaning"},
           NEW s \in OptSpec, NEW p \in OptProc, NEW again \in BOOLEAN,
           NEW why \in {"none", "cancelled", "failed", "bind"},
           held' = Doing(step, s, p, again, why)
    PROVE  held' \in Held /\ held'.step = step /\ held'.spec = s /\ held'.proc = p
  BY DoingIsHeld

LEMMA StopRunningInv ==
    ASSUME Inv, At("waiting"), Head(lock).kind \in JobKind, running # None,
           NEW to \in {"suspended", "stopping"}, StopRunning(to),
           Head(lock).kind = "suspend" => to = "suspended",
           suspendedSpec' \in OptSpec, lastSpec' \in OptSpec,
           UNCHANGED <<proc, request>>
    PROVE  Inv'
<1>1. lock # <<>> /\ held.step = "waiting" /\ loop = "waiting"
  BY HeadOfQueue DEF At
<1>2. /\ held' = Doing("draining", None, None, FALSE, "none") /\ phase' = to
      /\ stopping' = running /\ running' = None /\ crashWatch' = FALSE
      /\ UNCHANGED <<lock, loop>>
  BY DEF StopRunning, Keep
<1>3. held' \in Held /\ held'.step = "draining"
  BY <1>2, Pushed DEF OptSpec, OptProc
<1>4. Typed'
  BY <1>2, <1>3 DEF Inv, Typed, OptProc
<1>5. Where'
  <2>1. OnlyLive(running)
    BY <1>1 DEF Inv, Where, Resting
  <2>2. OnlyLive(stopping)'
    BY <2>1, <1>2 DEF OnlyLive, Live
  <2>3. TakingOut'
    BY <1>2, <2>2 DEF TakingOut
  <2> QED  BY <1>1, <1>2, <1>3, <2>3 DEF Where
<1>6. Named'
  BY <1>2 DEF Inv, Named
<1>7. ~Background
  BY DEF Background, JobKind
<1>8. Queue'
  BY <1>1, <1>2, <1>3, <1>7, KeepQueue
<1>9. Requests'
  BY <1>3, RequestsKept
<1> QED  BY <1>4, <1>5, <1>6, <1>8, <1>9 DEF Inv

(* A start begins: load, restore or restart. *)
LEMMA BeginInv ==
    ASSUME Inv, lock # <<>>, loop # "testing", NEW s \in Spec, NEW again \in BOOLEAN,
           held' = Doing("preparing", s, None, again, "none"),
           Head(lock).kind \in {"load", "restore", "restart"},
           running' = None, stopping' = None, crashWatch' \in BOOLEAN, OnlyLive(None)',
           suspendedSpec' \in OptSpec, lastSpec' \in OptSpec,
           loop = "waiting" /\ suspendedSpec # None /\ Background => suspendedSpec' # None,
           proc' \in [Proc -> Process], UNCHANGED <<lock, loop, request>>
    PROVE  Inv'
<1>1. held' \in Held /\ held'.step = "preparing" /\ held'.spec = s
  BY Pushed DEF OptSpec, OptProc
<1>2. Typed'
  BY <1>1 DEF Inv, Typed, OptProc
<1>3. Where'
  <2>1. Preparing'
    BY <1>1 DEF Preparing, Starting, OnlyLive
  <2> QED  BY <1>1, <2>1 DEF Where
<1>4. Named'
  BY DEF Inv, Named
<1>5. Queue'
  BY <1>1, KeepQueue
<1>6. Requests'
  BY <1>1, RequestsKept
<1> QED  BY <1>2, <1>3, <1>4, <1>5, <1>6 DEF Inv

(* The lock is passed on. *)
LEMMA ReleaseInv ==
    ASSUME Inv, lock # <<>>, Release,
           Head(lock).kind = "suspend" \/ loop = "testing" =>
               running' = None /\ (Len(lock) > 1 => phase' # "crashed"),
           loop = "waiting" /\ suspendedSpec # None /\ Background => suspendedSpec' # None,
           stopping' = None, OnlyLive(running)',
           running' \in OptProc, crashWatch' \in BOOLEAN,
           suspendedSpec' \in OptSpec, lastSpec' \in OptSpec,
           proc' \in [Proc -> Process], UNCHANGED request,
           running' # None => proc'[running'].spec \in Spec
    PROVE  Inv'
<1>1. /\ Queue'
      /\ lock' \in Seq(Entry) /\ held' = Idle
      /\ loop' \in {"polling", "waiting", "testing"}
      /\ \A i \in DOMAIN lock' : lock'[i].kind \in {"load", "restart"} => lock'[i].spec \in Spec
  BY ReleaseQueue
<1>2. held' \in Held /\ held'.step = "waiting"
  BY <1>1, Nothing
<1>3. Typed'
  BY <1>1, <1>2 DEF Inv, Typed, OptProc
<1>4. Where'
  BY <1>1, Resumed
<1>5. Named'
  BY <1>1 DEF Named
<1>6. Requests'
  BY <1>2, RequestsKept
<1> QED  BY <1>1, <1>3, <1>4, <1>5, <1>6 DEF Inv

LEMMA AtHead ==
    ASSUME Inv, NEW step, At(step)
    PROVE  /\ lock # <<>> /\ held.step = step
           /\ Typed /\ Where /\ Named /\ Requests
           /\ Head(lock) \in Entry
           /\ Head(lock).kind \in {"load", "restart"} => Head(lock).spec \in Spec
           /\ Head(lock).kind \in JobKind => loop = "waiting"
           /\ step # "waiting" => loop # "testing"
           /\ loop = "testing" => Head(lock).kind = "restart" /\ phase # "crashed" /\ running = None
           /\ loop = "waiting" /\ Background => ~Head(lock).fresh
<1>1. lock # <<>> /\ held.step = step
  BY DEF At
<1>2. loop = "testing" => running = None
  BY DEF Inv, Queue, NothingStarts
<1> QED  BY <1>1, <1>2, HeadOfQueue DEF Inv

LEMMA StartSuspendInv == Inv /\ StartSuspend => Inv'
<1> SUFFICES ASSUME Inv, StartSuspend PROVE Inv'
  OBVIOUS
<1> DEFINE s == IF running # None THEN proc[running].spec ELSE suspendedSpec
<1>1. /\ At("waiting") /\ Head(lock).kind = "suspend"
      /\ UNCHANGED <<stop, lastSpec, proc, request>>
  BY DEF StartSuspend
<1>2. /\ lock # <<>> /\ held.step = "waiting" /\ loop = "waiting"
      /\ stopping = None /\ OnlyLive(running) /\ ~Background
  BY <1>1, AtHead DEF Where, Resting, Background, JobKind
<1>3. /\ running \in OptProc /\ crashWatch \in BOOLEAN /\ suspendedSpec \in OptSpec
      /\ lastSpec \in OptSpec /\ proc \in [Proc -> Process]
      /\ running # None => proc[running].spec \in Spec
  BY DEF Inv, Typed, Named
<1>4. s \in OptSpec
  BY <1>3 DEF OptSpec
<1>5. CASE s = None
  <2>1. Release /\ UNCHANGED managerVars
    BY <1>5 DEF StartSuspend
  <2>2. running = None /\ suspendedSpec = None
    BY <1>3, <1>5, SpecIsSome
  <2>3. ~(Len(lock) > 1)
    <3>1. PICK j \in DOMAIN lock : JobAt(j)
      BY <1>2 DEF Inv, Queue, JobWaits
    <3>2. j = 1
      BY <3>1, <1>1, HeadAndTail, <1>2 DEF Inv, JobAt, JobKind
    <3> QED  BY <3>1, <3>2, <1>1, <1>2, <2>2, HeadAndTail DEF Inv, JobAt
  <2>4. OnlyLive(running)'
    BY <1>1, <1>2, <2>1 DEF OnlyLive, Live, managerVars
  <2> QED  BY <1>1, <1>2, <1>3, <2>1, <2>2, <2>3, <2>4, ReleaseInv DEF managerVars
<1>6. CASE s # None /\ running = None
  <2>1. Owe(s) /\ phase' = "suspended" /\ Release /\ UNCHANGED <<running, stopping, crashWatch>>
    BY <1>6 DEF StartSuspend
  <2>2. OnlyLive(running)'
    BY <1>1, <1>2, <2>1 DEF OnlyLive, Live
  <2>3. suspendedSpec' \in OptSpec
    BY <2>1, <1>4 DEF Owe
  <2> QED  BY <1>1, <1>2, <1>3, <1>6, <2>1, <2>2, <2>3, ReleaseInv
<1>7. CASE s # None /\ running # None
  <2>1. Owe(s) /\ StopRunning("suspended")
    BY <1>7 DEF StartSuspend
  <2>2. suspendedSpec' \in OptSpec
    BY <2>1, <1>4 DEF Owe
  <2> QED  BY <1>1, <1>2, <1>3, <1>7, <2>1, <2>2, StopRunningInv DEF JobKind
<1> QED  BY <1>5, <1>6, <1>7

LEMMA StartLoadInv == Inv /\ StartLoad => Inv'
<1> SUFFICES ASSUME Inv, StartLoad PROVE Inv'
  OBVIOUS
<1>1. At("waiting") /\ Head(lock).kind = "load" /\ UNCHANGED <<proc, request>>
  BY DEF StartLoad
<1>2. /\ lock # <<>> /\ loop = "waiting" /\ Head(lock).spec \in Spec
      /\ stopping = None /\ OnlyLive(running) /\ ~Background
  BY <1>1, AtHead DEF Where, Resting, Background, JobKind
<1>3. /\ crashWatch \in BOOLEAN /\ suspendedSpec \in OptSpec
      /\ lastSpec \in OptSpec /\ proc \in [Proc -> Process]
  BY DEF Inv, Typed
<1>4. CASE running = None
  <2> DEFINE s == Head(lock).spec
  <2>1. LoadNext(s) /\ UNCHANGED <<running, stopping, crashWatch>>
    BY <1>4 DEF StartLoad
  <2>2. OnlyLive(None)'
    BY <1>1, <1>2, <1>4 DEF OnlyLive, Live
  <2>3. /\ held' = Doing("preparing", s, None, FALSE, "none") /\ UNCHANGED <<lock, loop>>
        /\ suspendedSpec' \in OptSpec /\ lastSpec' \in OptSpec
    BY <2>1, <1>2 DEF LoadNext, Keep, OptSpec
  <2> QED  BY <1>1, <1>2, <1>3, <1>4, <2>1, <2>2, <2>3, BeginInv
<1>5. CASE running # None
  BY <1>1, <1>2, <1>3, <1>5, StopRunningInv DEF StartLoad, JobKind
<1> QED  BY <1>4, <1>5

LEMMA StartUnloadInv == Inv /\ StartUnload => Inv'
<1> SUFFICES ASSUME Inv, StartUnload PROVE Inv'
  OBVIOUS
<1>1. /\ At("waiting") /\ Head(lock).kind = "unload" /\ UNCHANGED <<proc, request>>
      /\ suspendedSpec' = None /\ lastSpec' = None
  BY DEF StartUnload, Forget
<1>2. /\ lock # <<>> /\ loop = "waiting"
      /\ stopping = None /\ OnlyLive(running) /\ ~Background
  BY <1>1, AtHead DEF Where, Resting, Background, JobKind
<1>3. crashWatch \in BOOLEAN /\ proc \in [Proc -> Process] /\ None \in OptSpec
  BY DEF Inv, Typed, OptSpec
<1>4. CASE running = None
  <2>1. phase' = "idle" /\ Release /\ UNCHANGED <<running, stopping, crashWatch>>
    BY <1>4 DEF StartUnload
  <2>2. OnlyLive(running)'
    BY <1>1, <1>2, <2>1 DEF OnlyLive, Live
  <2> QED  BY <1>1, <1>2, <1>3, <1>4, <2>1, <2>2, ReleaseInv DEF OptProc
<1>5. CASE running # None
  BY <1>1, <1>2, <1>3, <1>5, StopRunningInv DEF StartUnload, JobKind
<1> QED  BY <1>4, <1>5

LEMMA StartRestoreInv == Inv /\ StartRestore => Inv'
<1> SUFFICES ASSUME Inv, StartRestore PROVE Inv'
  OBVIOUS
<1>1. /\ At("waiting") /\ Head(lock).kind = "restore"
      /\ UNCHANGED <<running, stopping, crashWatch, lastSpec, proc, request>>
  BY DEF StartRestore
<1>2. /\ lock # <<>> /\ Background /\ loop # "testing"
      /\ loop = "waiting" => ~Head(lock).fresh
      /\ stopping = None /\ OnlyLive(running)
  BY <1>1, AtHead DEF Where, Resting, Background
<1>3. /\ running \in OptProc /\ crashWatch \in BOOLEAN /\ suspendedSpec \in OptSpec
      /\ lastSpec \in OptSpec /\ proc \in [Proc -> Process] /\ None \in OptSpec
      /\ running # None => proc[running].spec \in Spec
  BY DEF Inv, Typed, Named, OptSpec
<1>4. OnlyLive(running)'
  BY <1>1, <1>2 DEF OnlyLive, Live
<1>5. CASE ~Head(lock).fresh
  <2>1. Release /\ UNCHANGED suspendedSpec
    BY <1>5 DEF StartRestore
  <2> QED  BY <1>1, <1>2, <1>3, <1>4, <2>1, ReleaseInv
<1>6. CASE Head(lock).fresh /\ (suspendedSpec = None \/ running # None)
  <2>1. Release /\ suspendedSpec' = None
    BY <1>6 DEF StartRestore
  <2> QED  BY <1>1, <1>2, <1>3, <1>4, <1>6, <2>1, ReleaseInv
<1>7. CASE Head(lock).fresh /\ suspendedSpec # None /\ running = None
  <2>1. StartBackground(suspendedSpec) /\ suspendedSpec' = None /\ suspendedSpec \in Spec
    BY <1>3, <1>7 DEF StartRestore, OptSpec
  <2>2. held' = Doing("preparing", suspendedSpec, None, FALSE, "none") /\ UNCHANGED <<lock, loop>>
    BY <2>1 DEF StartBackground, Keep
  <2>3. OnlyLive(None)' /\ running' = None
    BY <1>1, <1>4, <1>7
  <2> QED  BY <1>1, <1>2, <1>3, <1>7, <2>1, <2>2, <2>3, BeginInv
<1> QED  BY <1>5, <1>6, <1>7

LEMMA StartRestartInv == Inv /\ StartRestart => Inv'
<1> SUFFICES ASSUME Inv, StartRestart PROVE Inv'
  OBVIOUS
<1>1. /\ At("waiting") /\ Head(lock).kind = "restart"
      /\ UNCHANGED <<running, stopping, crashWatch, lastSpec, proc, request>>
  BY DEF StartRestart
<1>2. /\ lock # <<>> /\ Background /\ Head(lock).spec \in Spec
      /\ loop = "waiting" => ~Head(lock).fresh
      /\ loop = "testing" => phase # "crashed" /\ running = None
      /\ stopping = None /\ OnlyLive(running)
  BY <1>1, AtHead DEF Where, Resting, Background
<1>3. /\ running \in OptProc /\ crashWatch \in BOOLEAN /\ suspendedSpec \in OptSpec
      /\ lastSpec \in OptSpec /\ proc \in [Proc -> Process] /\ None \in OptSpec
      /\ running # None => proc[running].spec \in Spec
  BY DEF Inv, Typed, Named, OptSpec
<1>4. OnlyLive(running)'
  BY <1>1, <1>2 DEF OnlyLive, Live
<1>5. CASE StillCrashed(Head(lock))
  <2>1. /\ StartBackground(Head(lock).spec) /\ suspendedSpec' = None
        /\ running = None /\ phase = "crashed" /\ Head(lock).fresh
    BY <1>5 DEF StartRestart, StillCrashed
  <2>2. held' = Doing("preparing", Head(lock).spec, None, FALSE, "none") /\ UNCHANGED <<lock, loop>>
    BY <2>1 DEF StartBackground, Keep
  <2>3. OnlyLive(None)' /\ running' = None
    BY <1>1, <1>4, <2>1
  <2> QED  BY <1>1, <1>2, <1>3, <2>1, <2>2, <2>3, BeginInv
<1>6. CASE ~StillCrashed(Head(lock))
  <2>1. Release /\ UNCHANGED <<phase, suspendedSpec>>
    BY <1>6 DEF StartRestart
  <2> QED  BY <1>1, <1>2, <1>3, <1>4, <2>1, ReleaseInv
<1> QED  BY <1>5, <1>6

LEMMA DrainedInv == Inv /\ Drained => Inv'
<1> SUFFICES ASSUME Inv, Drained PROVE Inv'
  OBVIOUS
<1>1. /\ At("draining") /\ UNCHANGED <<managerVars, lock, loop, lastSpec, proc>>
      /\ request' = [q \in Request |-> IF q \in Active THEN NoRequest ELSE request[q]]
      /\ held' = Doing("killing", None, None, FALSE, "none")
  BY DEF Drained, Keep
<1>2. lock # <<>> /\ loop # "testing" /\ TakingOut
  BY <1>1, AtHead DEF Where
<1>3. held' \in Held /\ held'.step = "killing"
  BY <1>1, Pushed DEF OptSpec, OptProc
<1>4. NoRequest \in [state : {"none", "reading", "active"}, proc : OptProc] /\ NoRequest.state = "none"
  BY DEF NoRequest, OptProc
<1>5. request' \in [Request -> [state : {"none", "reading", "active"}, proc : OptProc]]
  BY <1>1, <1>4 DEF Inv, Typed
<1>6. Typed'
  BY <1>1, <1>3, <1>5 DEF Inv, Typed, managerVars
<1>7. Where'
  <2>1. TakingOut'
    BY <1>1, <1>2 DEF TakingOut, OnlyLive, Live, managerVars
  <2> QED  BY <1>1, <1>2, <1>3, <2>1 DEF Where
<1>8. Named'
  BY <1>1 DEF Inv, Named, managerVars
<1>9. Queue'
  BY <1>1, <1>2, <1>3, KeepQueue DEF managerVars
<1>10. Requests'
  <2>1. \A q \in Request : request'[q] = NoRequest \/ (q \notin Active /\ request'[q] = request[q])
    BY <1>1
  <2>2. Active' = {}
    BY <2>1, <1>4 DEF Active
  <2>3. \A q \in Request : request'[q].state = "reading" => request'[q].proc # None
    BY <2>1, <1>4 DEF Inv, Requests
  <2> QED  BY <2>2, <2>3 DEF Requests
<1> QED  BY <1>6, <1>7, <1>8, <1>9, <1>10 DEF Inv

LEMMA Killed ==
    ASSUME Typed, NEW p \in Proc, OnlyLive(p), Kill(p)
    PROVE  proc' \in [Proc -> Process] /\ OnlyLive(None)'
<1>1. proc \in [Proc -> Process] /\ Gone \in Process /\ Gone.life = "gone"
  BY Nothing DEF Typed
<1>2. CASE proc' = [proc EXCEPT ![p] = Gone]
  BY <1>1, <1>2 DEF OnlyLive, Live
<1>3. CASE proc' = [proc EXCEPT ![p].life = "killed"]
  <2>1. proc' \in [Proc -> Process]
    BY <1>1, <1>3 DEF Process
  <2>2. \A q \in Proc : proc'[q].life = IF q = p THEN "killed" ELSE proc[q].life
    BY <1>1, <1>3 DEF Process
  <2> QED  BY <2>1, <2>2 DEF OnlyLive, Live
<1> QED  BY <1>2, <1>3 DEF Kill

LEMMA StoppedInv == Inv /\ Stopped => Inv'
<1> SUFFICES ASSUME Inv, Stopped PROVE Inv'
  OBVIOUS
<1>1. /\ At("killing") /\ UNCHANGED <<running, crashWatch, request>>
      /\ Kill(stopping) /\ stopping' = None
  BY DEF Stopped
<1>2. lock # <<>> /\ loop # "testing" /\ TakingOut
  BY <1>1, AtHead DEF Where
<1>3. /\ crashWatch \in BOOLEAN /\ suspendedSpec \in OptSpec
      /\ lastSpec \in OptSpec /\ stopping \in OptProc
  BY DEF Inv, Typed
<1>4. running = None /\ stopping \in Proc /\ OnlyLive(stopping)
  BY <1>2, <1>3 DEF TakingOut, OptProc
<1>5. proc' \in [Proc -> Process] /\ OnlyLive(None)' /\ running' = None
  BY <1>1, <1>4, Killed DEF Inv
<1>6. OnlyLive(running)'
  BY <1>5 DEF OnlyLive
<1>7. ~Background
  BY <1>2 DEF TakingOut, Background, JobKind
<1>8. CASE Head(lock).kind = "suspend"
  <2>1. Release /\ UNCHANGED <<phase, suspendedSpec, lastSpec>>
    BY <1>8 DEF Stopped
  <2>2. phase = "suspended"
    BY <1>2, <1>8 DEF TakingOut
  <2> QED  BY <1>1, <1>2, <1>3, <1>5, <1>6, <1>7, <2>1, <2>2, ReleaseInv DEF OptProc
<1>9. CASE Head(lock).kind = "unload"
  <2>1. Release /\ UNCHANGED <<suspendedSpec, lastSpec>>
    BY <1>9 DEF Stopped
  <2> QED  BY <1>1, <1>2, <1>3, <1>5, <1>6, <1>7, <1>9, <2>1, ReleaseInv DEF OptProc
<1>10. CASE Head(lock).kind = "load"
  <2> DEFINE s == Head(lock).spec
  <2>1. LoadNext(s)
    BY <1>10 DEF Stopped
  <2>2. s \in Spec
    BY <1>1, <1>10, AtHead
  <2>3. /\ held' = Doing("preparing", s, None, FALSE, "none") /\ UNCHANGED <<lock, loop>>
        /\ suspendedSpec' \in OptSpec /\ lastSpec' \in OptSpec
    BY <2>1, <2>2 DEF LoadNext, Keep, OptSpec
  <2> QED  BY <1>1, <1>2, <1>3, <1>5, <1>7, <1>10, <2>2, <2>3, BeginInv
<1> QED  BY <1>2, <1>8, <1>9, <1>10 DEF TakingOut, JobKind

LEMMA ThrownInv ==
    ASSUME Inv, NEW step, At(step), step # "waiting", Starting,
           NEW why, Thrown(why),
           running' = None, stopping' = None, OnlyLive(None)', crashWatch' \in BOOLEAN,
           lastSpec' \in OptSpec, proc' \in [Proc -> Process], UNCHANGED request
    PROVE  Inv'
<1>1. lock # <<>> /\ loop # "testing"
  BY AtHead
<1>2. Head(lock).kind # "suspend" /\ held.spec \in Spec
  BY DEF Starting
<1>3. Release
  BY DEF Thrown
<1>4. suspendedSpec' = suspendedSpec \/ suspendedSpec' = held.spec
  BY DEF Thrown, Owe
<1>5. /\ suspendedSpec' \in OptSpec
      /\ loop = "waiting" /\ suspendedSpec # None /\ Background => suspendedSpec' # None
  BY <1>2, <1>4, SpecIsSome DEF Inv, Typed, OptSpec
<1>6. OnlyLive(running)'
  BY DEF OnlyLive
<1> QED  BY <1>1, <1>2, <1>3, <1>5, <1>6, ReleaseInv DEF OptProc

LEMMA NotPreparedInv == Inv /\ NotPrepared => Inv'
<1> SUFFICES ASSUME Inv, NotPrepared PROVE Inv'
  OBVIOUS
<1>1. /\ At("preparing") /\ Thrown("failed")
      /\ UNCHANGED <<running, stopping, crashWatch, lastSpec, proc, request>>
  BY DEF NotPrepared
<1>2. Preparing
  BY <1>1, AtHead DEF Where
<1>3. OnlyLive(None)' /\ running = None /\ stopping = None /\ Starting
  BY <1>1, <1>2 DEF Preparing, Starting, OnlyLive, Live
<1>4. crashWatch \in BOOLEAN /\ lastSpec \in OptSpec /\ proc \in [Proc -> Process]
  BY DEF Inv, Typed
<1> QED  BY <1>1, <1>3, <1>4, ThrownInv

LEMMA SpawnInv == Inv /\ Spawn => Inv'
<1> SUFFICES ASSUME Inv, Spawn PROVE Inv'
  OBVIOUS
<1>1. At("preparing") /\ UNCHANGED <<lock, loop, stopping, suspendedSpec, lastSpec, request>>
  BY DEF Spawn, Keep
<1>2. lock # <<>> /\ loop # "testing" /\ Preparing
  BY <1>1, AtHead DEF Where
<1>3. PICK p \in Proc :
          /\ proc' = [proc EXCEPT ![p] = [spec |-> held.spec, life |-> "loading"]]
          /\ running' = p /\ crashWatch' = FALSE
          /\ held' = Doing("probing", held.spec, p, held.retried, "none")
  BY DEF Spawn
<1>4. p # None /\ p \in OptProc /\ held.spec \in Spec
  BY <1>2, SpecIsSome DEF Preparing, Starting, OptProc
<1>5. /\ held' \in Held /\ held'.step = "probing" /\ held'.spec = held.spec /\ held'.proc = p
  <2>1. held.retried \in BOOLEAN /\ held.spec \in OptSpec
    BY DEF Inv, Typed, Held
  <2> QED  BY <1>3, <1>4, <2>1, DoingIsHeld
<1>6. proc' \in [Proc -> Process] /\ OnlyLive(p)' /\ proc'[p].spec = held.spec
  <2>1. proc \in [Proc -> Process] /\ [spec |-> held.spec, life |-> "loading"] \in Process
    BY <1>4 DEF Inv, Typed, Process, OptSpec
  <2>2. OnlyLive(None)
    BY <1>2 DEF Preparing
  <2> QED  BY <1>3, <2>1, <2>2, SpecIsSome DEF OnlyLive, Live
<1>7. Typed'
  BY <1>1, <1>3, <1>4, <1>5, <1>6 DEF Inv, Typed
<1>8. Where'
  <2>1. Probing'
    BY <1>1, <1>2, <1>3, <1>4, <1>5, <1>6 DEF Probing, Preparing, Starting
  <2> QED  BY <1>1, <1>2, <1>5, <2>1 DEF Where
<1>9. Named'
  BY <1>1, <1>3, <1>4, <1>6 DEF Inv, Named
<1>10. Queue'
  BY <1>1, <1>2, <1>5, KeepQueue
<1>11. Requests'
  BY <1>1, <1>5, RequestsKept
<1> QED  BY <1>7, <1>8, <1>9, <1>10, <1>11 DEF Inv

LEMMA NotReadyInv == Inv /\ NotReady => Inv'
<1> SUFFICES ASSUME Inv, NotReady PROVE Inv'
  OBVIOUS
<1>1. /\ At("probing") /\ running' = None
      /\ UNCHANGED <<lock, loop, stopping, crashWatch, suspendedSpec, lastSpec, proc, request>>
  BY DEF NotReady, Keep
<1>2. lock # <<>> /\ loop # "testing" /\ Probing
  BY <1>1, AtHead DEF Where
<1>3. PICK why \in {"cancelled", "failed", "bind"} :
          held' = Doing("cleaning", held.spec, held.proc, held.retried, why)
  BY DEF NotReady
<1>4. held' \in Held /\ held'.step = "cleaning" /\ held'.spec = held.spec /\ held'.proc = held.proc
  <2>1. held.retried \in BOOLEAN /\ held.spec \in OptSpec /\ held.proc \in OptProc
    BY DEF Inv, Typed, Held
  <2> QED  BY <1>3, <2>1, DoingIsHeld
<1>5. Typed'
  BY <1>1, <1>4 DEF Inv, Typed, OptProc
<1>6. Where'
  <2>1. \A p : OnlyLive(p) => OnlyLive(p)'
    BY <1>1 DEF OnlyLive, Live
  <2>2. OnlyLive(held.proc)' 
    BY <1>2, <1>4, <2>1 DEF Probing, OnlyLive, Live
  <2>3. Cleaning'
    BY <1>1, <1>2, <1>4, <2>2 DEF Cleaning, Probing, Starting, OnlyLive, Live
  <2> QED  BY <1>1, <1>2, <1>4, <2>3 DEF Where
<1>7. Named'
  BY <1>1 DEF Inv, Named
<1>8. Queue'
  BY <1>1, <1>2, <1>4, KeepQueue
<1>9. Requests'
  BY <1>1, <1>4, RequestsKept
<1> QED  BY <1>5, <1>6, <1>7, <1>8, <1>9 DEF Inv

LEMMA AnsweredInv == Inv /\ Answered => Inv'
<1> SUFFICES ASSUME Inv, Answered PROVE Inv'
  OBVIOUS
<1>1. /\ At("probing") /\ held' = [held EXCEPT !.step = "answered"]
      /\ UNCHANGED <<managerVars, lock, loop, lastSpec, proc, request>>
  BY DEF Answered, Keep
<1>2. lock # <<>> /\ loop # "testing" /\ Probing
  BY <1>1, AtHead DEF Where
<1>3. held' \in Held /\ held'.step = "answered" /\ held'.spec = held.spec /\ held'.proc = held.proc
  BY <1>1 DEF Inv, Typed, Held
<1>4. Typed' /\ Named'
  BY <1>1, <1>3 DEF Inv, Typed, Named, managerVars
<1>5. Where'
  <2>1. Probing'
    BY <1>1, <1>2, <1>3 DEF Probing, Starting, OnlyLive, Live, managerVars
  <2> QED  BY <1>1, <1>2, <1>3, <2>1 DEF Where
<1>6. Queue' /\ Requests'
  BY <1>1, <1>2, <1>3, KeepQueue, RequestsKept DEF managerVars
<1> QED  BY <1>4, <1>5, <1>6 DEF Inv

LEMMA WatchInv == Inv /\ Watch => Inv'
<1> SUFFICES ASSUME Inv, Watch PROVE Inv'
  OBVIOUS
<1>1. /\ At("answered") /\ held' = [held EXCEPT !.step = "reading"] /\ crashWatch' = TRUE
      /\ UNCHANGED <<running, stopping, suspendedSpec, lock, loop, lastSpec, proc, request>>
  BY DEF Watch, Keep
<1>2. lock # <<>> /\ loop # "testing" /\ Probing
  BY <1>1, AtHead DEF Where
<1>3. held' \in Held /\ held'.step = "reading" /\ held'.spec = held.spec /\ held'.proc = held.proc
  BY <1>1 DEF Inv, Typed, Held
<1>4. Typed' /\ Named'
  BY <1>1, <1>3 DEF Inv, Typed, Named
<1>5. Where'
  <2>1. Reading'
    BY <1>1, <1>2, <1>3 DEF Reading, Probing, Starting, OnlyLive, Live
  <2> QED  BY <1>1, <1>2, <1>3, <2>1 DEF Where
<1>6. Queue' /\ Requests'
  BY <1>1, <1>2, <1>3, KeepQueue, RequestsKept
<1> QED  BY <1>4, <1>5, <1>6 DEF Inv

LEMMA ReadyInv == Inv /\ Ready => Inv'
<1> SUFFICES ASSUME Inv, Ready PROVE Inv'
  OBVIOUS
<1>1. /\ At("reading") /\ Release
      /\ UNCHANGED <<running, stopping, crashWatch, suspendedSpec, lastSpec, proc, request>>
  BY DEF Ready
<1>2. lock # <<>> /\ loop # "testing" /\ Reading
  BY <1>1, AtHead DEF Where
<1>3. /\ Head(lock).kind # "suspend" /\ stopping = None /\ OnlyLive(running)
  BY <1>2 DEF Reading, Starting
<1>4. OnlyLive(running)'
  BY <1>1, <1>3 DEF OnlyLive, Live
<1>5. /\ running \in OptProc /\ crashWatch \in BOOLEAN /\ suspendedSpec \in OptSpec
      /\ lastSpec \in OptSpec /\ proc \in [Proc -> Process]
      /\ running # None => proc[running].spec \in Spec
  BY DEF Inv, Typed, Named
<1> QED  BY <1>1, <1>2, <1>3, <1>4, <1>5, ReleaseInv

LEMMA CleanedInv == Inv /\ Cleaned => Inv'
<1> SUFFICES ASSUME Inv, Cleaned PROVE Inv'
  OBVIOUS
<1>1. /\ At("cleaning") /\ Kill(held.proc)
      /\ UNCHANGED <<running, stopping, crashWatch, lastSpec, request>>
  BY DEF Cleaned
<1>2. lock # <<>> /\ loop # "testing" /\ Cleaning
  BY <1>1, AtHead DEF Where
<1>3. /\ crashWatch \in BOOLEAN /\ suspendedSpec \in OptSpec
      /\ lastSpec \in OptSpec /\ held.proc \in OptProc /\ held.spec \in Spec
  BY <1>2 DEF Inv, Typed, Held, Cleaning, Starting
<1>4. /\ held.proc \in Proc /\ OnlyLive(held.proc) /\ running = None /\ stopping = None /\ Starting
      /\ Head(lock).kind \in {"load", "restore", "restart"}
  BY <1>2, <1>3 DEF Cleaning, Starting, OptProc
<1>5. proc' \in [Proc -> Process] /\ OnlyLive(None)'
  BY <1>1, <1>4, Killed DEF Inv
<1>6. CASE held.why = "bind" /\ ~held.retried
  <2>1. /\ held' = Doing("preparing", held.spec, None, TRUE, "none")
        /\ UNCHANGED <<lock, loop, suspendedSpec>>
    BY <1>6 DEF Cleaned, Keep
  <2> QED  BY <1>1, <1>2, <1>3, <1>4, <1>5, <2>1, BeginInv
<1>7. CASE ~(held.why = "bind" /\ ~held.retried)
  <2>1. Thrown(held.why)
    BY <1>7 DEF Cleaned
  <2> QED  BY <1>1, <1>3, <1>4, <1>5, <2>1, ThrownInv
<1> QED  BY <1>6, <1>7

-----------------------------------------------------------------------------
(* llama-server, the gateway and a restart of the worker. *)

LEMMA LoadedInv == ASSUME Inv, NEW p \in Proc, Loaded(p) PROVE Inv'
<1>1. UNCHANGED <<managerVars, lock, held, loop, lastSpec, request>>
  BY DEF Loaded
<1>2. /\ proc' \in [Proc -> Process]
      /\ \A q \in Proc : proc'[q].spec = proc[q].spec
      /\ \A q \in Proc : proc'[q].life \in {"loading", "up"} => Live(q)
  <2>1. proc \in [Proc -> Process] /\ proc[p].life = "loading" /\ proc' = [proc EXCEPT ![p].life = "up"]
    BY DEF Loaded, Inv, Typed
  <2> QED  BY <2>1 DEF Process, Live
<1>3. Typed' /\ Named'
  BY <1>1, <1>2 DEF Inv, Typed, Named, managerVars, OptProc
<1>4. Where'
  BY <1>1, <1>2, WhereKept DEF managerVars
<1>5. Queue' /\ Requests'
  BY <1>1, QueueKept, RequestsKept DEF managerVars
<1> QED  BY <1>3, <1>4, <1>5 DEF Inv

LEMMA ExitInv == ASSUME Inv, NEW p \in Proc, Exit(p) PROVE Inv'
<1>1. /\ UNCHANGED <<stopping, held, loop, lastSpec, request>>
      /\ Quiet
      /\ proc' = [proc EXCEPT ![p] = IF running = p /\ ~crashWatch
                                     THEN [@ EXCEPT !.life = "gone"] ELSE Gone]
  BY DEF Exit
<1>2. proc \in [Proc -> Process] /\ running \in OptProc /\ suspendedSpec \in OptSpec /\ lock \in Seq(Entry)
  BY DEF Inv, Typed
<1>3. /\ proc' \in [Proc -> Process]
      /\ proc'[p].life = "gone"
      /\ \A q \in Proc : q # p => proc'[q] = proc[q]
      /\ running = p /\ ~crashWatch => proc'[p].spec = proc[p].spec
  BY <1>1, <1>2, Nothing DEF Process
<1>4. \A q \in Proc : proc'[q].life \in {"loading", "up"} => Live(q)
  BY <1>3 DEF Live
<1>5. CASE ~(running = p /\ crashWatch)
  <2>1. UNCHANGED <<running, crashWatch, phase, suspendedSpec, lock>>
    BY <1>5 DEF Exit
  <2>2. Typed'
    BY <1>1, <1>3, <2>1 DEF Inv, Typed
  <2>3. Named'
    BY <1>1, <1>2, <1>3, <1>5, <2>1 DEF Inv, Named, OptProc
  <2>4. Where'
    BY <1>1, <1>4, <2>1, WhereKept
  <2>5. Queue' /\ Requests'
    BY <1>1, <2>1, QueueKept, RequestsKept
  <2> QED  BY <2>2, <2>3, <2>4, <2>5 DEF Inv
<1>6. CASE running = p /\ crashWatch
  <2>1. running' = None /\ crashWatch' = FALSE /\ phase' = "crashed"
    BY <1>6 DEF Exit
  <2>2. running # None /\ proc[p].spec \in Spec /\ loop # "testing"
    BY <1>6, SpecIsSome DEF Inv, Named, Queue, NothingStarts
  <2> DEFINE e == [kind |-> "restart", spec |-> proc[p].spec, fresh |-> TRUE]
  <2>3. \/ UNCHANGED <<suspendedSpec, lock>>
        \/ suspendedSpec' = proc[p].spec /\ lock' = Append(lock, e)
    BY <1>6 DEF Exit
  <2>4. e \in Entry /\ e.kind = "restart" /\ e.spec \in Spec
    BY <2>2 DEF Entry, OptSpec
  <2>5. lock' = lock \/ (lock' # <<>> /\ (lock # <<>> => Head(lock') = Head(lock)))
    BY <2>3, <2>4, Appended
  <2>6. lock' \in Seq(Entry) /\ suspendedSpec' \in OptSpec
    BY <1>2, <2>2, <2>3, <2>4, Appended DEF OptSpec
  <2>7. Typed'
    BY <1>1, <1>3, <2>1, <2>6 DEF Inv, Typed, OptProc
  <2>8. Named'
    <3>1. \A i \in DOMAIN lock' : lock'[i].kind \in {"load", "restart"} => lock'[i].spec \in Spec
      BY <2>3, <2>4, Appended DEF Inv, Named
    <3> QED  BY <2>1, <3>1 DEF Named
  <2>9. \/ lock = <<>> /\ held.step = "waiting" /\ Resting
        \/ lock # <<>> /\ held.step = "reading" /\ Reading
    BY <1>1, <1>6, <2>2 DEF Inv, Typed, Held, Where, Quiet, At, TakingOut, Preparing, Probing, Cleaning
  <2>10. OnlyLive(None)' /\ OnlyLive(running)'
    <3>1. OnlyLive(p)
      BY <1>6, <2>9 DEF Resting, Reading
    <3> QED  BY <1>3, <1>4, <2>1, <3>1 DEF OnlyLive, Live
  <2>11. Where'
    <3>1. CASE lock = <<>> /\ held.step = "waiting" /\ Resting
      <4>1. Resting'
        BY <1>1, <2>10, <3>1 DEF Resting
      <4> QED  BY <1>1, <3>1, <4>1 DEF Where
    <3>2. CASE lock # <<>> /\ held.step = "reading" /\ Reading
      <4>1. Head(lock') = Head(lock) /\ lock' # <<>>
        BY <2>5, <3>2
      <4>2. Reading'
        BY <1>1, <2>1, <2>10, <3>2, <4>1 DEF Reading, Starting
      <4> QED  BY <1>1, <3>2, <4>1, <4>2 DEF Where
    <3> QED  BY <2>9, <3>1, <3>2
  <2>12. Queue'
    <3>1. CASE loop = "polling"
      <4>1. NoJob
        BY <3>1 DEF Inv, Queue
      <4>2. NoJob'
        BY <2>3, <2>4, <4>1, Appended DEF NoJob, JobKind
      <4> QED  BY <1>1, <3>1, <4>2 DEF Queue
    <3>2. CASE loop = "waiting"
      <4>1. PICK j \in DOMAIN lock : JobAt(j)
        BY <3>2 DEF Inv, Queue, JobWaits
      <4>2. CASE UNCHANGED <<suspendedSpec, lock>>
        <5>1. JobAt(j)'
          BY <1>1, <4>1, <4>2 DEF JobAt
        <5> QED  BY <1>1, <3>2, <4>1, <4>2, <5>1 DEF Queue, JobWaits
      <4>3. CASE suspendedSpec' = proc[p].spec /\ lock' = Append(lock, e)
        <5>1. /\ DOMAIN lock = 1..Len(lock) /\ DOMAIN lock' = 1..(Len(lock) + 1) /\ Len(lock) \in Nat
              /\ \A i \in 1..Len(lock) : lock'[i] = lock[i]
              /\ lock'[Len(lock) + 1] = e
          BY <2>4, <4>3, Appended
        <5>2. suspendedSpec' # None /\ j \in DOMAIN lock'
          BY <2>2, <4>1, <4>3, <5>1, SpecIsSome
        <5>3. \A i \in DOMAIN lock' : i \in DOMAIN lock \/ i = Len(lock) + 1
          BY <5>1
        <5>4. JobAt(j)'
          BY <2>4, <4>1, <5>1, <5>2, <5>3 DEF JobAt
        <5> QED  BY <1>1, <3>2, <5>2, <5>4 DEF Queue, JobWaits
      <4> QED  BY <2>3, <4>2, <4>3
    <3> QED  BY <2>2, <3>1, <3>2 DEF Inv, Typed
  <2>13. Requests'
    BY <1>1, RequestsKept
  <2> QED  BY <2>7, <2>8, <2>11, <2>12, <2>13 DEF Inv
<1> QED  BY <1>5, <1>6

LEMMA GatewayInv == ASSUME Inv, NEW q \in Request, Arrive(q) \/ Forward(q) \/ Finish(q) PROVE Inv'
<1>1. UNCHANGED <<managerVars, lock, held, loop, lastSpec, proc>>
  BY DEF Arrive, Forward, Finish
<1>2. request \in [Request -> [state : {"none", "reading", "active"}, proc : OptProc]]
  BY DEF Inv, Typed
<1>3. Upstream \in OptProc /\ NoRequest.state = "none" /\ NoRequest \in [state : {"none", "reading", "active"}, proc : OptProc]
  BY DEF Upstream, NoRequest, OptProc, Inv, Typed
<1>4. \E r : /\ r \in [state : {"none", "reading", "active"}, proc : OptProc]
             /\ request' = [request EXCEPT ![q] = r]
             /\ r.state = "reading" => r.proc # None
             /\ r.state = "active" => Upstream # None
  <2>1. CASE Arrive(q)
    <3> DEFINE r == [state |-> "reading", proc |-> Upstream]
    <3>1. r \in [state : {"none", "reading", "active"}, proc : OptProc] /\ r.state = "reading" /\ r.proc = Upstream
      BY <1>3
    <3>2. request' = [request EXCEPT ![q] = r] /\ Upstream # None
      BY <2>1 DEF Arrive
    <3> QED  BY <3>1, <3>2
  <2>2. CASE Forward(q)
    <3>1. request[q].state = "reading" /\ request[q].proc # None /\ request[q] \in [state : {"none", "reading", "active"}, proc : OptProc]
      BY <1>2, <2>2 DEF Forward, Inv, Requests
    <3> DEFINE r == IF SameUpstream(q) THEN [request[q] EXCEPT !.state = "active"] ELSE NoRequest
    <3>2. request' = [request EXCEPT ![q] = r]
      BY <1>2, <2>2 DEF Forward
    <3>3. CASE SameUpstream(q)
      <4>1. r = [request[q] EXCEPT !.state = "active"] /\ Upstream = request[q].proc
        BY <3>3 DEF SameUpstream
      <4>2. r \in [state : {"none", "reading", "active"}, proc : OptProc] /\ r.state = "active"
        BY <3>1, <4>1
      <4> QED  BY <3>1, <3>2, <4>1, <4>2
    <3>4. CASE ~SameUpstream(q)
      <4>1. r = NoRequest
        BY <3>4
      <4> QED  BY <1>3, <3>2, <4>1
    <3> QED  BY <3>3, <3>4
  <2>3. CASE Finish(q)
    BY <1>3, <2>3 DEF Finish
  <2> QED  BY <2>1, <2>2, <2>3
<1>5. PICK r : /\ r \in [state : {"none", "reading", "active"}, proc : OptProc]
               /\ request' = [request EXCEPT ![q] = r]
               /\ r.state = "reading" => r.proc # None
               /\ r.state = "active" => Upstream # None
  BY <1>4
<1>6. Typed' /\ Named'
  BY <1>1, <1>2, <1>5 DEF Inv, Typed, Named, managerVars
<1>7. Where'
  BY <1>1, WhereKept DEF managerVars, Live
<1>8. Queue'
  BY <1>1, QueueKept DEF managerVars
<1>9. Requests'
  <2>1. \A x \in Request : request'[x] = IF x = q THEN r ELSE request[x]
    BY <1>2, <1>5
  <2>2. \A x \in Request : request'[x].state = "reading" => request'[x].proc # None
    BY <1>5, <2>1 DEF Inv, Requests
  <2>3. held'.step = "killing" => Active' = {}
    <3> SUFFICES ASSUME held.step = "killing" PROVE Active' = {}
      BY <1>1
    <3>1. Upstream = None /\ Active = {}
      BY DEF Inv, Where, TakingOut, Upstream, Requests
    <3> QED  BY <1>5, <2>1, <3>1 DEF Active
  <2> QED  BY <2>2, <2>3 DEF Requests
<1> QED  BY <1>6, <1>7, <1>8, <1>9 DEF Inv

LEMMA RestartInv == Inv /\ Restart => Inv'
<1> SUFFICES ASSUME Inv, Restart PROVE Inv'
  OBVIOUS
<1>1. PICK s \in {None, lastSpec} : Boot(s)
  BY DEF Restart
<1>2. UNCHANGED lastSpec /\ s \in OptSpec /\ lastSpec \in OptSpec
  BY <1>1 DEF Restart, Inv, Typed, OptSpec
<1>3. /\ running' = None /\ stopping' = None /\ crashWatch' = FALSE /\ suspendedSpec' = s
      /\ lock' = <<>> /\ held' = Idle /\ loop' = "polling"
      /\ proc' = [p \in Proc |-> Gone] /\ request' = [q \in Request |-> NoRequest]
  BY <1>1 DEF Boot
<1>4. Typed'
  <2>1. NoRequest \in [state : {"none", "reading", "active"}, proc : OptProc]
    BY DEF NoRequest, OptProc
  <2>2. lock' \in Seq(Entry)
    BY <1>3, EmptySeq
  <2> QED  BY <1>2, <1>3, <2>1, <2>2, Nothing DEF Typed, OptProc
<1>5. OnlyLive(running)'
  BY <1>3, Nothing DEF OnlyLive, Live
<1>6. Where'
  BY <1>3, <1>5, Resumed
<1>7. DOMAIN lock' = {}
  BY <1>3
<1>8. Named' /\ NoJob'
  BY <1>3, <1>7 DEF Named, NoJob
<1>9. Queue'
  BY <1>3, <1>8 DEF Queue
<1>10. Requests'
  BY <1>3, Nothing DEF Requests, NoRequest
<1> QED  BY <1>4, <1>6, <1>8, <1>9, <1>10 DEF Inv

LEMMA WindowPassesInv == Inv /\ WindowPasses => Inv'
<1> SUFFICES ASSUME Inv, WindowPasses PROVE Inv'
  OBVIOUS
<1>1. UNCHANGED <<phase, running, stopping, crashWatch, suspendedSpec, lock, held, loop, lastSpec, proc, request>>
  BY DEF WindowPasses
<1>2. Typed' /\ Named'
  BY <1>1 DEF Inv, Typed, Named
<1>3. Where' /\ Queue' /\ Requests'
  BY <1>1, WhereKept, QueueKept, RequestsKept DEF Live
<1> QED  BY <1>2, <1>3 DEF Inv

LEMMA StutterInv == Inv /\ UNCHANGED vars => Inv'
<1> SUFFICES ASSUME Inv, UNCHANGED vars PROVE Inv'
  OBVIOUS
<1>1. UNCHANGED <<phase, running, stopping, crashWatch, suspendedSpec, lock, held, loop, lastSpec, proc, request>>
  BY DEF vars, managerVars
<1>2. Typed' /\ Named'
  BY <1>1 DEF Inv, Typed, Named
<1>3. Where' /\ Queue' /\ Requests'
  BY <1>1, WhereKept, QueueKept, RequestsKept DEF Live
<1> QED  BY <1>2, <1>3 DEF Inv

-----------------------------------------------------------------------------
(* Every step of the served model, of the loop that works on it and of its  *)
(* clients keeps the invariant.                                             *)
THEOREM ServeInductive == DaemonSpec => []Inv
<1>1. Inv /\ [Next]_vars => Inv'
  <2> SUFFICES ASSUME Inv, [Next]_vars PROVE Inv'
    OBVIOUS
  <2>1. CASE Loop
    <3>1. "suspend" \in JobKind /\ "unload" \in JobKind /\ "load" \in JobKind
          /\ None \in OptSpec /\ Spec \subseteq OptSpec
      BY DEF JobKind, OptSpec
    <3>2. ASSUME NEW s \in Spec, PollJob("load", s) PROVE Inv'
      BY <3>1, <3>2, PollJobInv
    <3>3. CASE PollJob("suspend", None) \/ PollJob("unload", None)
      BY <3>1, <3>3, PollJobInv
    <3> QED  BY <2>1, <3>2, <3>3, PollEmptyInv, TestEndsInv, RequestStopInv DEF Loop
  <2>2. CASE Holder
    BY <2>2, StartSuspendInv, StartLoadInv, StartUnloadInv, StartRestoreInv, StartRestartInv,
       DrainedInv, StoppedInv, NotPreparedInv, SpawnInv, NotReadyInv, AnsweredInv, WatchInv,
       ReadyInv, CleanedInv DEF Holder
  <2>3. CASE Server
    BY <2>3, WindowPassesInv, LoadedInv, ExitInv DEF Server
  <2>4. CASE Gateway
    BY <2>4, GatewayInv DEF Gateway
  <2>5. CASE Restart
    BY <2>5, RestartInv
  <2>6. CASE UNCHANGED vars
    BY <2>6, StutterInv
  <2> QED  BY <2>1, <2>2, <2>3, <2>4, <2>5, <2>6 DEF Next
<1> QED  BY InitInv, <1>1, PTL DEF DaemonSpec

(* While a test runs, no start that was under way, no restart after a crash *)
(* and no restore of the suspended model has put a process on the GPU.      *)
THEOREM TestsHaveTheGpu == DaemonSpec => []GpuIsFree
<1>1. Inv => GpuIsFree
  <2> SUFFICES ASSUME Inv, loop = "testing", NEW p \in Proc
               PROVE proc[p].life \in {"gone", "killed"}
    BY DEF GpuIsFree
  <2>1. OnlyLive(None)
    BY DEF Inv, Queue, NothingStarts, Where, Resting
  <2>2. ~Live(p)
    BY <2>1, SpecIsSome DEF OnlyLive
  <2> QED  BY <2>2 DEF Live, Inv, Typed, Process
<1> QED  BY <1>1, ServeInductive, PTL

(* Never two models in memory at once, whatever retries of a lost port,     *)
(* crashes, restores and loads are under way.                               *)
THEOREM OneModelInMemory == DaemonSpec => []OneModel
<1>1. Inv => OneModel
  <2> SUFFICES ASSUME Inv PROVE OneModel
    OBVIOUS
  <2> DEFINE L == {q \in Proc : proc[q].life \in {"loading", "up"}}
  <2>1. PICK p : OnlyLive(p)
    <3>1. held.step \in {"waiting", "draining", "killing", "preparing", "probing",
                         "answered", "reading", "cleaning"}
      BY DEF Inv, Typed, Held
    <3> QED  BY <3>1 DEF Inv, Where, Resting, TakingOut, Preparing, Probing, Reading, Cleaning
  <2>2. L \subseteq {p}
    BY <2>1 DEF OnlyLive, Live
  <2>3. IsFiniteSet({p}) /\ Cardinality({p}) = 1
    BY FS_Singleton
  <2>4. Cardinality(L) <= 1
    <3>1. Cardinality(L) <= Cardinality({p})
      BY <2>2, <2>3, FS_Subset
    <3> QED  BY <2>3, <3>1
  <2> QED  BY <2>4 DEF OneModel
<1> QED  BY <1>1, ServeInductive, PTL

(* A process is only killed once its requests have ended or were cut by the *)
(* drain's time limit, and none slips in between.                           *)
THEOREM DrainedBeforeKilled == DaemonSpec => []KillsIdle
<1>1. Inv => KillsIdle
  BY DEF Inv, Requests, KillsIdle
<1> QED  BY <1>1, ServeInductive, PTL

-----------------------------------------------------------------------------
(* Who answers for the model that is owed, in every step of the manager.    *)
Bringing == {"preparing", "probing", "answered", "reading", "cleaning"}
WhoHasIt ==
    owed # None =>
        /\ held.step = "waiting" =>
              IF running = None THEN suspendedSpec = owed ELSE proc[running].spec = owed
        /\ held.step \in {"draining", "killing"} => suspendedSpec = owed
        /\ held.step = "reading" /\ running = None => suspendedSpec = owed
        /\ held.step \in Bringing => held.spec = owed
(* While it is out of service, a restart that may still go ahead is its own *)
(* one: that of another model would put it out of mind.                     *)
RestartsAgree ==
    owed # None /\ (running = None \/ held.step # "waiting") =>
        \A i \in DOMAIN lock : lock[i].kind = "restart" /\ lock[i].fresh => lock[i].spec = owed
StartsItsOwn ==
    held.step \in {"probing", "answered", "reading"} /\ running # None =>
        proc[running].spec = held.spec
(* Behind a job there is only the restart of a crash that left nothing in   *)
(* service, and what has the lock then is on its way out.                   *)
JobIsLast ==
    \A j \in DOMAIN lock :
        lock[j].kind \in JobKind /\ j < Len(lock) /\ (j > 1 \/ held.step = "waiting") =>
            running = None /\ held.step \in {"waiting", "reading"}
Dropped ==
    lock # <<>> /\ held.step # "waiting" /\ Head(lock).kind \in {"load", "unload"} => owed = None

Owing == WhoHasIt /\ RestartsAgree /\ StartsItsOwn /\ JobIsLast /\ Dropped

LEMMA OwingInit == Init => Owing
<1> SUFFICES ASSUME Init PROVE Owing
  OBVIOUS
<1>1. DOMAIN lock = {} /\ lock = <<>> /\ owed = None /\ held.step = "waiting"
  BY Nothing DEF Init
<1> QED  BY <1>1 DEF Owing, WhoHasIt, RestartsAgree, StartsItsOwn, JobIsLast, Dropped, Bringing

LEMMA OwingKept ==
    ASSUME Inv, Owing, UNCHANGED <<running, held, owed, suspendedSpec, lock>>,
           running # None => proc'[running].spec = proc[running].spec
    PROVE  Owing'
<1>1. WhoHasIt'
  BY DEF Owing, WhoHasIt
<1>2. RestartsAgree'
  BY DEF Owing, RestartsAgree
<1>3. StartsItsOwn'
  BY DEF Owing, StartsItsOwn
<1>4. JobIsLast'
  BY DEF Owing, JobIsLast
<1>5. Dropped'
  BY DEF Owing, Dropped
<1> QED  BY <1>1, <1>2, <1>3, <1>4, <1>5 DEF Owing

(* No job is followed by a restart unless the crash is still being handled. *)
LEMMA NoneBehind ==
    ASSUME Inv, Owing, lock # <<>>,
           \/ held.step \notin {"waiting", "reading"}
           \/ Head(lock).kind \in JobKind
           \/ Background /\ Head(lock).fresh,
           NEW j \in DOMAIN lock, lock[j].kind \in JobKind, j > 1
    PROVE  ~(j < Len(lock))
<1>1. /\ Len(lock) \in Nat /\ DOMAIN lock = 1..Len(lock) /\ Head(lock) = lock[1] /\ 1 \in DOMAIN lock
  BY HeadAndTail DEF Inv
<1>2. loop = "waiting"
  BY DEF Inv, Typed, Queue, NoJob, NothingStarts, JobKind
<1>3. CASE held.step \notin {"waiting", "reading"}
  BY <1>3 DEF Owing, JobIsLast
<1>4. CASE Head(lock).kind \in JobKind
  <2>1. PICK k \in DOMAIN lock : JobAt(k)
    BY <1>2 DEF Inv, Queue, JobWaits
  <2>2. k = 1
    BY <2>1, <1>1, <1>4 DEF JobAt
  <2> QED  BY <2>1, <2>2, <1>1 DEF JobAt, JobKind
<1>5. CASE Background /\ Head(lock).fresh
  BY <1>2, <1>5, HeadOfQueue
<1> QED  BY <1>3, <1>4, <1>5

(* The lock stays with who has it, or he takes it up. *)
LEMMA OwingHeld ==
    ASSUME Inv, Owing, lock # <<>>, lock' = lock, held'.step # "waiting",
           \/ held.step \notin {"waiting", "reading"}
           \/ Head(lock).kind \in JobKind
           \/ Background /\ Head(lock).fresh,
           WhoHasIt', StartsItsOwn',
           owed' # None => owed' = owed /\ RestartsAgree',
           Head(lock).kind \in {"load", "unload"} => owed' = None
    PROVE  Owing'
<1>1. JobIsLast'
  <2> SUFFICES ASSUME NEW j \in DOMAIN lock, lock[j].kind \in JobKind, j < Len(lock), j > 1
               PROVE FALSE
    BY DEF JobIsLast
  <2> QED  BY NoneBehind
<1>2. Dropped'
  BY DEF Dropped
<1>3. RestartsAgree'
  BY DEF RestartsAgree
<1> QED  BY <1>1, <1>2, <1>3 DEF Owing

(* The restarts behind are as they were while its model is out of service. *)
LEMMA SameRestarts ==
    ASSUME Owing, lock' = lock, owed' = owed, running = None \/ held.step # "waiting"
    PROVE  RestartsAgree'
  BY DEF Owing, RestartsAgree

(* A start begins, or begins again. *)
LEMMA OwingBegun ==
    ASSUME Inv, Owing, lock # <<>>, NEW s \in OptSpec, NEW again \in BOOLEAN,
           held' = Doing("preparing", s, None, again, "none"),
           running' = None, UNCHANGED lock,
           \/ held.step \notin {"waiting", "reading"}
           \/ Head(lock).kind \in JobKind
           \/ Background /\ Head(lock).fresh,
           owed' # None => owed' = owed /\ s = owed /\ (running = None \/ held.step # "waiting"),
           Head(lock).kind \in {"load", "unload"} => owed' = None
    PROVE  Owing'
<1>1. held'.step = "preparing" /\ held'.spec = s
  BY Pushed DEF OptProc
<1>2. WhoHasIt'
  BY <1>1 DEF WhoHasIt
<1>3. StartsItsOwn'
  BY <1>1 DEF StartsItsOwn
<1>4. owed' # None => RestartsAgree'
  BY SameRestarts
<1> QED  BY <1>1, <1>2, <1>3, <1>4, OwingHeld

(* The lock is passed on. *)
LEMMA OwingReleased ==
    ASSUME Inv, Owing, lock # <<>>, Release,
           running = None => running' = None,
           owed' # None => IF running' = None THEN suspendedSpec' = owed'
                                               ELSE proc'[running'].spec = owed',
           owed' # None /\ running' = None =>
               owed' = owed /\ (running = None \/ held.step # "waiting")
    PROVE  Owing'
<1>1. held'.step = "waiting" /\ lock' = Tail(lock)
  BY Nothing DEF Release
<1>2. /\ Len(lock) \in Nat /\ DOMAIN lock = 1..Len(lock)
      /\ Len(lock') = Len(lock) - 1 /\ DOMAIN lock' = 1..(Len(lock) - 1)
      /\ \A i \in 1..(Len(lock) - 1) : lock'[i] = lock[i + 1]
  BY <1>1, HeadAndTail DEF Inv
<1>3. WhoHasIt'
  BY <1>1 DEF WhoHasIt, Bringing
<1>4. RestartsAgree'
  <2> SUFFICES ASSUME owed' # None, running' = None, NEW i \in DOMAIN lock',
                      lock'[i].kind = "restart", lock'[i].fresh
               PROVE lock'[i].spec = owed'
    BY <1>1 DEF RestartsAgree
  <2>1. i + 1 \in DOMAIN lock /\ lock'[i] = lock[i + 1]
    BY <1>2
  <2> QED  BY <2>1 DEF Owing, RestartsAgree
<1>5. JobIsLast'
  <2> SUFFICES ASSUME NEW j \in DOMAIN lock', lock'[j].kind \in JobKind, j < Len(lock')
               PROVE running' = None
    BY <1>1 DEF JobIsLast
  <2>1. j + 1 \in DOMAIN lock /\ lock'[j] = lock[j + 1] /\ j + 1 < Len(lock) /\ j + 1 > 1
    BY <1>2
  <2> QED  BY <2>1 DEF Owing, JobIsLast
<1> QED  BY <1>1, <1>3, <1>4, <1>5 DEF Owing, StartsItsOwn, Dropped

LEMMA PollEmptyOwing == Inv /\ Owing /\ PollEmpty => Owing'
<1> SUFFICES ASSUME Inv, Owing, PollEmpty PROVE Owing'
  OBVIOUS
<1> DEFINE e == [kind |-> "restore", spec |-> None, fresh |-> TRUE]
<1>1. e \in Entry /\ e.kind = "restore" /\ lock' = Append(lock, e)
  BY DEF PollEmpty, Entry, OptSpec
<1>2. UNCHANGED <<running, suspendedSpec, held, proc, owed>> /\ loop = "polling"
  BY DEF PollEmpty, managerVars
<1>3. /\ Len(lock) \in Nat /\ DOMAIN lock = 1..Len(lock) /\ DOMAIN lock' = 1..(Len(lock) + 1)
      /\ \A i \in 1..Len(lock) : lock'[i] = lock[i]
      /\ lock'[Len(lock) + 1] = e
      /\ lock # <<>> => Head(lock') = Head(lock)
  BY <1>1, Appended
<1>4. \A i \in DOMAIN lock' : i \in DOMAIN lock \/ i = Len(lock) + 1
  BY <1>3
<1>5. RestartsAgree'
  BY <1>1, <1>2, <1>3, <1>4 DEF Owing, RestartsAgree
<1>6. JobIsLast'
  BY <1>1, <1>2, <1>3, <1>4 DEF Inv, Queue, NoJob, JobIsLast, JobKind
<1>7. WhoHasIt' /\ StartsItsOwn'
  BY <1>2 DEF Owing, WhoHasIt, StartsItsOwn
<1>8. Dropped'
  BY <1>2, <1>3 DEF Owing, Dropped, Inv, Where
<1> QED  BY <1>5, <1>6, <1>7, <1>8 DEF Owing

LEMMA PollJobOwing ==
    ASSUME Inv, Owing, NEW kind \in JobKind, NEW s \in OptSpec, PollJob(kind, s)
    PROVE  Owing'
<1> DEFINE e == [kind |-> kind, spec |-> s, fresh |-> TRUE]
           old == [i \in DOMAIN lock |-> [lock[i] EXCEPT !.fresh = FALSE]]
           n == Len(lock)
<1>1. e \in Entry /\ e.kind = kind /\ lock' = Append(old, e)
  BY DEF PollJob, Entry
<1>2. UNCHANGED <<running, suspendedSpec, held, proc, owed>> /\ loop = "polling"
  BY DEF PollJob, managerVars
<1>3. lock \in Seq(Entry) /\ n \in Nat /\ DOMAIN lock = 1..n
  BY DEF Inv, Typed
<1>4. \A i \in 1..n : old[i] \in Entry /\ ~old[i].fresh /\ old[i].kind = lock[i].kind
  <2> SUFFICES ASSUME NEW i \in 1..n
               PROVE old[i] \in Entry /\ ~old[i].fresh /\ old[i].kind = lock[i].kind
    OBVIOUS
  <2>1. lock[i] \in Entry /\ old[i] = [lock[i] EXCEPT !.fresh = FALSE]
    BY <1>3
  <2> QED  BY <2>1 DEF Entry
<1>5. old \in Seq(Entry) /\ Len(old) = n
  BY <1>3, <1>4
<1>6. /\ Len(lock') = n + 1 /\ DOMAIN lock' = 1..(n + 1) /\ lock' # <<>>
      /\ \A i \in 1..n : lock'[i] = old[i]
      /\ lock'[n + 1] = e
      /\ Head(lock') = lock'[1]
  BY <1>1, <1>3, <1>5
<1>7. \A i \in 1..n : ~lock'[i].fresh /\ lock'[i].kind = lock[i].kind
  BY <1>4, <1>6
<1>8. \A i \in DOMAIN lock' : i \in 1..n \/ i = n + 1
  BY <1>3, <1>6
<1> HIDE DEF old, e
<1>9. lock'[n + 1].kind \in JobKind
  BY <1>1, <1>6
<1>10. RestartsAgree'
  BY <1>7, <1>8, <1>9 DEF RestartsAgree, JobKind
<1>11. JobIsLast'
  <2>1. \A i \in 1..n : lock'[i].kind \notin JobKind
    BY <1>2, <1>3, <1>7 DEF Inv, Queue, NoJob
  <2> QED  BY <2>1, <1>3, <1>6, <1>8 DEF JobIsLast
<1>12. WhoHasIt' /\ StartsItsOwn'
  BY <1>2 DEF Owing, WhoHasIt, StartsItsOwn
<1>13. Dropped'
  <2> SUFFICES ASSUME held.step # "waiting", Head(lock').kind \in {"load", "unload"}
               PROVE owed = None
    BY <1>2 DEF Dropped
  <2>1. lock # <<>>
    BY DEF Inv, Where
  <2>2. 1 \in 1..n /\ Head(lock) = lock[1]
    BY <2>1, <1>3
  <2>3. Head(lock').kind = Head(lock).kind
    BY <2>2, <1>6, <1>7
  <2> QED  BY <2>1, <2>3 DEF Owing, Dropped
<1> QED  BY <1>10, <1>11, <1>12, <1>13 DEF Owing

LEMMA StartSuspendOwing == Inv /\ Owing /\ StartSuspend => Owing'
<1> SUFFICES ASSUME Inv, Owing, StartSuspend PROVE Owing'
  OBVIOUS
<1> DEFINE s == IF running # None THEN proc[running].spec ELSE suspendedSpec
<1>1. /\ At("waiting") /\ Head(lock).kind = "suspend" /\ lock # <<>> /\ held.step = "waiting"
      /\ UNCHANGED <<proc, owed>>
  BY DEF StartSuspend, At
<1>2. owed # None => s = owed
  BY <1>1 DEF Owing, WhoHasIt
<1>3. running # None => s # None
  BY SpecIsSome DEF Inv, Named
<1>4. CASE s = None
  <2>1. Release /\ UNCHANGED managerVars /\ owed = None /\ running = None
    BY <1>2, <1>3, <1>4 DEF StartSuspend
  <2> QED  BY <1>1, <2>1, OwingReleased DEF managerVars
<1>5. CASE s # None /\ running = None
  <2>1. Release /\ suspendedSpec' = s /\ running' = running
    BY <1>5 DEF StartSuspend, Owe
  <2> QED  BY <1>1, <1>2, <1>5, <2>1, OwingReleased
<1>6. CASE s # None /\ running # None
  <2>1. suspendedSpec' = s /\ StopRunning("suspended")
    BY <1>6 DEF StartSuspend, Owe
  <2>2. /\ running' = None /\ UNCHANGED lock
        /\ held' = Doing("draining", None, None, FALSE, "none")
    BY <2>1 DEF StopRunning, Keep
  <2>3. held'.step = "draining"
    BY <2>2 DEF Doing
  <2>4. WhoHasIt'
    BY <1>1, <1>2, <2>1, <2>3 DEF WhoHasIt, Bringing
  <2>5. StartsItsOwn'
    BY <2>3 DEF StartsItsOwn
  <2>6. RestartsAgree'
    <3>1. PICK j \in DOMAIN lock : JobAt(j)
      BY <1>1, AtHead DEF Inv, Queue, JobWaits, JobKind
    <3>2. DOMAIN lock = 1..Len(lock) /\ Len(lock) \in Nat /\ Head(lock) = lock[1] /\ 1 \in DOMAIN lock
      BY <1>1, HeadAndTail DEF Inv
    <3>3. j = 1
      BY <1>1, <3>1, <3>2 DEF JobAt, JobKind
    <3>4. ~(1 < Len(lock))
      BY <1>1, <1>6, <3>1, <3>2, <3>3 DEF Owing, JobIsLast, JobAt
    <3>5. \A i \in DOMAIN lock : lock[i].kind = "suspend"
      BY <1>1, <3>2, <3>4
    <3> QED  BY <2>2, <3>5 DEF RestartsAgree
  <2> QED  BY <1>1, <2>2, <2>3, <2>4, <2>5, <2>6, OwingHeld DEF JobKind
<1> QED  BY <1>4, <1>5, <1>6

(* What a load or an unload ends, nobody is owed any more. *)
LEMMA OwingNothing ==
    ASSUME Inv, Owing, lock # <<>>, Head(lock).kind \in JobKind,
           lock' = lock, owed' = None, held'.step # "waiting", running' = None
    PROVE  Owing'
<1>1. WhoHasIt' /\ StartsItsOwn'
  BY DEF WhoHasIt, StartsItsOwn
<1> QED  BY <1>1, OwingHeld

LEMMA StartLoadOwing == Inv /\ Owing /\ StartLoad => Owing'
<1> SUFFICES ASSUME Inv, Owing, StartLoad PROVE Owing'
  OBVIOUS
<1>1. Head(lock).kind \in JobKind /\ lock # <<>>
  BY DEF StartLoad, At, JobKind
<1>2. lock' = lock /\ owed' = None /\ running' = None
  BY DEF StartLoad, LoadNext, StopRunning, Keep
<1>3. held'.step \in {"preparing", "draining"}
  BY DEF StartLoad, LoadNext, StopRunning, Doing
<1> QED  BY <1>1, <1>2, <1>3, OwingNothing

LEMMA StartUnloadOwing == Inv /\ Owing /\ StartUnload => Owing'
<1> SUFFICES ASSUME Inv, Owing, StartUnload PROVE Owing'
  OBVIOUS
<1>1. Head(lock).kind \in JobKind /\ lock # <<>> /\ owed' = None
  BY DEF StartUnload, At, JobKind, Forget
<1>2. CASE running = None
  <2>1. Release /\ running' = None
    BY <1>2 DEF StartUnload
  <2> QED  BY <1>1, <2>1, OwingReleased
<1>3. CASE running # None
  <2>1. lock' = lock /\ running' = None /\ held'.step = "draining"
    BY <1>3 DEF StartUnload, StopRunning, Keep, Doing
  <2> QED  BY <1>1, <2>1, OwingNothing
<1> QED  BY <1>2, <1>3

LEMMA StartRestoreOwing == Inv /\ Owing /\ StartRestore => Owing'
<1> SUFFICES ASSUME Inv, Owing, StartRestore PROVE Owing'
  OBVIOUS
<1>1. /\ held.step = "waiting" /\ lock # <<>> /\ Head(lock).kind = "restore" /\ Background
      /\ UNCHANGED <<running, proc, owed>>
  BY DEF StartRestore, At, Background
<1>2. owed # None => IF running = None THEN suspendedSpec = owed ELSE proc[running].spec = owed
  BY <1>1 DEF Owing, WhoHasIt
<1>3. CASE ~Head(lock).fresh
  <2>1. Release /\ UNCHANGED suspendedSpec
    BY <1>3 DEF StartRestore
  <2> QED  BY <1>1, <1>2, <2>1, OwingReleased
<1>4. CASE Head(lock).fresh /\ (suspendedSpec = None \/ running # None)
  <2>1. Release
    BY <1>4 DEF StartRestore
  <2> QED  BY <1>1, <1>2, <1>4, <2>1, OwingReleased
<1>5. CASE Head(lock).fresh /\ suspendedSpec # None /\ running = None
  <2>1. /\ held' = Doing("preparing", suspendedSpec, None, FALSE, "none") /\ UNCHANGED lock
        /\ suspendedSpec \in OptSpec
    BY <1>5 DEF StartRestore, StartBackground, Keep, Inv, Typed
  <2> QED  BY <1>1, <1>2, <1>5, <2>1, OwingBegun
<1> QED  BY <1>3, <1>4, <1>5

LEMMA StartRestartOwing == Inv /\ Owing /\ StartRestart => Owing'
<1> SUFFICES ASSUME Inv, Owing, StartRestart PROVE Owing'
  OBVIOUS
<1>1. /\ held.step = "waiting" /\ lock # <<>> /\ Head(lock).kind = "restart" /\ Background
      /\ UNCHANGED <<running, proc, owed>>
  BY DEF StartRestart, At, Background
<1>2. owed # None => IF running = None THEN suspendedSpec = owed ELSE proc[running].spec = owed
  BY <1>1 DEF Owing, WhoHasIt
<1>3. CASE ~StillCrashed(Head(lock))
  <2>1. Release /\ UNCHANGED suspendedSpec
    BY <1>3 DEF StartRestart
  <2> QED  BY <1>1, <1>2, <2>1, OwingReleased
<1>4. CASE StillCrashed(Head(lock))
  <2> DEFINE s == Head(lock).spec
  <2>1. running = None /\ Head(lock).fresh
    BY <1>4 DEF StillCrashed
  <2>2. held' = Doing("preparing", s, None, FALSE, "none") /\ UNCHANGED lock
    BY <1>4 DEF StartRestart, StartBackground, Keep
  <2>3. Head(lock) = lock[1] /\ 1 \in DOMAIN lock /\ s \in OptSpec
    BY <1>1, HeadAndTail DEF Inv, Entry
  <2>4. owed # None => s = owed
    BY <1>1, <2>1, <2>3 DEF Owing, RestartsAgree
  <2> QED  BY <1>1, <2>1, <2>2, <2>3, <2>4, OwingBegun
<1> QED  BY <1>3, <1>4

LEMMA DrainedOwing == Inv /\ Owing /\ Drained => Owing'
<1> SUFFICES ASSUME Inv, Owing, Drained PROVE Owing'
  OBVIOUS
<1>1. /\ lock # <<>> /\ held.step = "draining"
      /\ UNCHANGED <<running, suspendedSpec, lock, proc, owed>>
      /\ held'.step = "killing"
  BY DEF Drained, At, Keep, managerVars, Doing
<1>2. WhoHasIt' /\ StartsItsOwn'
  BY <1>1 DEF Owing, WhoHasIt, StartsItsOwn, Bringing
<1>3. RestartsAgree'
  BY <1>1, SameRestarts
<1>4. Head(lock).kind \in {"load", "unload"} => owed' = None
  BY <1>1 DEF Owing, Dropped
<1> QED  BY <1>1, <1>2, <1>3, <1>4, OwingHeld

LEMMA StoppedOwing == Inv /\ Owing /\ Stopped => Owing'
<1> SUFFICES ASSUME Inv, Owing, Stopped PROVE Owing'
  OBVIOUS
<1>1. lock # <<>> /\ held.step = "killing" /\ TakingOut /\ UNCHANGED running
  BY DEF Stopped, At, Inv, Where
<1>2. running' = None
  BY <1>1 DEF TakingOut
<1>3. CASE Head(lock).kind \in {"suspend", "unload"}
  <2>1. Release /\ UNCHANGED <<suspendedSpec, owed>>
    BY <1>3 DEF Stopped
  <2>2. owed # None => suspendedSpec = owed
    BY <1>1 DEF Owing, WhoHasIt
  <2> QED  BY <1>1, <1>2, <2>1, <2>2, OwingReleased
<1>4. CASE Head(lock).kind = "load"
  <2>1. LoadNext(Head(lock).spec)
    BY <1>4 DEF Stopped
  <2>2. lock' = lock /\ owed' = None /\ held'.step = "preparing"
    BY <2>1 DEF LoadNext, Keep, Doing
  <2> QED  BY <1>1, <1>2, <1>4, <2>2, OwingNothing DEF JobKind
<1> QED  BY <1>1, <1>3, <1>4 DEF TakingOut, JobKind

(* A start that was interrupted leaves its model marked for later, one that *)
(* failed is given up.                                                      *)
LEMMA OwingThrown ==
    ASSUME Inv, Owing, lock # <<>>, held.step \in Bringing, NEW why, Thrown(why), running' = None
    PROVE  Owing'
<1>1. Release /\ held.step # "waiting"
  BY DEF Thrown, Bringing
<1>2. owed' # None => owed' = owed /\ suspendedSpec' = owed
  BY DEF Thrown, Owe, Owing, WhoHasIt
<1> QED  BY <1>1, <1>2, OwingReleased

LEMMA NotPreparedOwing == Inv /\ Owing /\ NotPrepared => Owing'
<1> SUFFICES ASSUME Inv, Owing, NotPrepared PROVE Owing'
  OBVIOUS
<1>1. /\ lock # <<>> /\ held.step = "preparing" /\ Thrown("failed") /\ running' = running
      /\ Preparing
  BY DEF NotPrepared, At, Inv, Where
<1> QED  BY <1>1, OwingThrown DEF Preparing, Bringing

LEMMA SpawnOwing == Inv /\ Owing /\ Spawn => Owing'
<1> SUFFICES ASSUME Inv, Owing, Spawn PROVE Owing'
  OBVIOUS
<1>1. lock # <<>> /\ held.step = "preparing" /\ UNCHANGED <<lock, suspendedSpec, owed>>
  BY DEF Spawn, At, Keep
<1>2. PICK p \in Proc :
          /\ proc' = [proc EXCEPT ![p] = [spec |-> held.spec, life |-> "loading"]]
          /\ running' = p
          /\ held' = Doing("probing", held.spec, p, held.retried, "none")
  BY DEF Spawn
<1>3. held'.step = "probing" /\ held'.spec = held.spec
  BY <1>2 DEF Doing
<1>4. proc'[p].spec = held.spec
  BY <1>2 DEF Inv, Typed
<1>5. WhoHasIt' /\ StartsItsOwn'
  BY <1>1, <1>2, <1>3, <1>4 DEF Owing, WhoHasIt, StartsItsOwn, Bringing
<1>6. RestartsAgree'
  BY <1>1, SameRestarts
<1>7. Head(lock).kind \in {"load", "unload"} => owed' = None
  BY <1>1 DEF Owing, Dropped
<1> QED  BY <1>1, <1>3, <1>5, <1>6, <1>7, OwingHeld

LEMMA NotReadyOwing == Inv /\ Owing /\ NotReady => Owing'
<1> SUFFICES ASSUME Inv, Owing, NotReady PROVE Owing'
  OBVIOUS
<1> PICK why \in {"cancelled", "failed", "bind"} :
          held' = Doing("cleaning", held.spec, held.proc, held.retried, why)
  BY DEF NotReady
<1>1. /\ lock # <<>> /\ held.step = "probing" /\ running' = None
      /\ UNCHANGED <<lock, suspendedSpec, proc, owed>>
      /\ held'.step = "cleaning" /\ held'.spec = held.spec
  BY DEF NotReady, At, Keep, Doing
<1>2. WhoHasIt' /\ StartsItsOwn'
  BY <1>1 DEF Owing, WhoHasIt, StartsItsOwn, Bringing
<1>3. RestartsAgree'
  BY <1>1, SameRestarts
<1>4. Head(lock).kind \in {"load", "unload"} => owed' = None
  BY <1>1 DEF Owing, Dropped
<1> QED  BY <1>1, <1>2, <1>3, <1>4, OwingHeld

(* waitReady has its answer: the process stays in service. *)
LEMMA AnswerOwing == Inv /\ Owing /\ (Answered \/ Watch) => Owing'
<1> SUFFICES ASSUME Inv, Owing, Answered \/ Watch PROVE Owing'
  OBVIOUS
<1>1. /\ lock # <<>> /\ held.step \in {"probing", "answered"}
      /\ UNCHANGED <<lock, running, suspendedSpec, proc, owed>>
  BY DEF Answered, Watch, At, Keep, managerVars
<1>2. held'.step \in {"answered", "reading"} /\ held'.spec = held.spec
  BY DEF Answered, Watch, At, Inv, Typed, Held
<1>3. running # None
  BY <1>1 DEF Inv, Where, Probing
<1>4. WhoHasIt' /\ StartsItsOwn'
  BY <1>1, <1>2, <1>3 DEF Owing, WhoHasIt, StartsItsOwn, Bringing
<1>5. RestartsAgree'
  BY <1>1, SameRestarts
<1>6. Head(lock).kind \in {"load", "unload"} => owed' = None
  BY <1>1 DEF Owing, Dropped
<1> QED  BY <1>1, <1>2, <1>4, <1>5, <1>6, OwingHeld

LEMMA ReadyOwing == Inv /\ Owing /\ Ready => Owing'
<1> SUFFICES ASSUME Inv, Owing, Ready PROVE Owing'
  OBVIOUS
<1>1. /\ lock # <<>> /\ held.step = "reading" /\ Release
      /\ UNCHANGED <<running, suspendedSpec, proc>> /\ Reading
  BY DEF Ready, At, Inv, Where
<1>2. CASE running = held.proc
  <2>1. owed' = held.spec /\ running # None /\ proc[running].spec = held.spec
    BY <1>1, <1>2 DEF Ready, Reading, Owing, StartsItsOwn
  <2> QED  BY <1>1, <2>1, OwingReleased
<1>3. CASE running # held.proc
  <2>1. running = None /\ owed' = owed
    BY <1>1, <1>3 DEF Ready, Reading
  <2>2. owed # None => suspendedSpec = owed
    BY <1>1, <2>1 DEF Owing, WhoHasIt
  <2> QED  BY <1>1, <2>1, <2>2, OwingReleased
<1> QED  BY <1>2, <1>3

LEMMA CleanedOwing == Inv /\ Owing /\ Cleaned => Owing'
<1> SUFFICES ASSUME Inv, Owing, Cleaned PROVE Owing'
  OBVIOUS
<1>1. /\ lock # <<>> /\ held.step = "cleaning" /\ running' = running /\ Cleaning
  BY DEF Cleaned, At, Inv, Where
<1>2. running' = None
  BY <1>1 DEF Cleaning
<1>3. CASE held.why = "bind" /\ ~held.retried
  <2>1. /\ held' = Doing("preparing", held.spec, None, TRUE, "none")
        /\ UNCHANGED <<lock, suspendedSpec, owed>>
    BY <1>3 DEF Cleaned, Keep
  <2>2. held.spec \in OptSpec
    BY DEF Inv, Typed, Held
  <2>3. owed # None => held.spec = owed
    BY <1>1 DEF Owing, WhoHasIt, Bringing
  <2>4. Head(lock).kind \in {"load", "unload"} => owed' = None
    BY <1>1, <2>1 DEF Owing, Dropped
  <2> QED  BY <1>1, <1>2, <2>1, <2>2, <2>3, <2>4, OwingBegun
<1>4. CASE ~(held.why = "bind" /\ ~held.retried)
  BY <1>1, <1>2, <1>4, OwingThrown DEF Cleaned, Bringing
<1> QED  BY <1>3, <1>4

(* What crashes is put in mind before anything else can be. *)
LEMMA ExitOwing == ASSUME Inv, Owing, NEW p \in Proc, Exit(p) PROVE Owing'
<1>1. /\ UNCHANGED held /\ Quiet
      /\ proc' = [proc EXCEPT ![p] = IF running = p /\ ~crashWatch
                                     THEN [@ EXCEPT !.life = "gone"] ELSE Gone]
  BY DEF Exit
<1>2. proc \in [Proc -> Process] /\ running \in OptProc /\ proc[p] \in Process
  BY DEF Inv, Typed
<1>3. CASE ~(running = p /\ crashWatch)
  <2>1. UNCHANGED <<running, owed, suspendedSpec, lock>>
    BY <1>3 DEF Exit
  <2>2. running # None => proc'[running].spec = proc[running].spec
    BY <1>1, <1>2, <1>3 DEF OptProc, Process
  <2> QED  BY <1>1, <2>1, <2>2, OwingKept
<1>4. CASE running = p /\ crashWatch
  <2> DEFINE e == [kind |-> "restart", spec |-> proc[p].spec, fresh |-> TRUE]
  <2>1. running' = None /\ running # None /\ proc[p].spec \in Spec
    BY <1>4, SpecIsSome DEF Exit, Inv, Named
  <2>2. \/ owed' = None /\ UNCHANGED <<suspendedSpec, lock>>
        \/ owed' = owed /\ suspendedSpec' = proc[p].spec /\ lock' = Append(lock, e)
    BY <1>4 DEF Exit
  <2>3. \/ lock = <<>> /\ held.step = "waiting"
        \/ lock # <<>> /\ held.step = "reading"
    BY <1>1, <1>4, <2>1 DEF Inv, Typed, Held, Where, Quiet, At, TakingOut, Preparing, Probing, Cleaning
  <2>4. StartsItsOwn'
    BY <2>1 DEF StartsItsOwn
  <2>5. owed # None => proc[p].spec = owed /\ (held.step = "reading" => held.spec = owed)
    BY <1>4, <2>1, <2>3 DEF Owing, WhoHasIt, StartsItsOwn, Bringing
  <2>6. WhoHasIt'
    BY <1>1, <2>1, <2>2, <2>3, <2>5 DEF WhoHasIt, Bringing
  <2>7. CASE owed' = None /\ UNCHANGED <<suspendedSpec, lock>>
    <3>1. JobIsLast'
      BY <1>1, <2>1, <2>3, <2>7 DEF JobIsLast
    <3>2. RestartsAgree' /\ Dropped'
      BY <2>7 DEF RestartsAgree, Dropped
    <3> QED  BY <2>4, <2>6, <3>1, <3>2 DEF Owing
  <2>8. CASE owed' = owed /\ lock' = Append(lock, e)
    <3>1. e \in Entry /\ e.kind = "restart" /\ e.spec = proc[p].spec
      BY <2>1 DEF Entry, OptSpec
    <3>2. /\ Len(lock) \in Nat /\ DOMAIN lock = 1..Len(lock) /\ DOMAIN lock' = 1..(Len(lock) + 1)
          /\ \A i \in 1..Len(lock) : lock'[i] = lock[i]
          /\ lock'[Len(lock) + 1] = e
          /\ lock # <<>> => Head(lock') = Head(lock)
      BY <2>8, <3>1, Appended
    <3>3. \A i \in DOMAIN lock' : i \in DOMAIN lock \/ i = Len(lock) + 1
      BY <3>2
    <3>4. JobIsLast'
      BY <1>1, <2>1, <2>3 DEF JobIsLast
    <3>5. RestartsAgree'
      <4> SUFFICES ASSUME owed # None, NEW i \in DOMAIN lock', lock'[i].kind = "restart", lock'[i].fresh
                   PROVE lock'[i].spec = owed
        BY <2>8 DEF RestartsAgree
      <4>1. CASE i \in DOMAIN lock
        <5>1. held.step = "reading" /\ lock'[i] = lock[i]
          BY <2>3, <3>2, <4>1
        <5> QED  BY <4>1, <5>1 DEF Owing, RestartsAgree
      <4>2. CASE i = Len(lock) + 1
        BY <2>5, <3>1, <3>2, <4>2
      <4> QED  BY <3>3, <4>1, <4>2
    <3>6. Dropped'
      BY <1>1, <2>3, <2>8, <3>2 DEF Owing, Dropped
    <3> QED  BY <2>4, <2>6, <3>4, <3>5, <3>6 DEF Owing
  <2> QED  BY <2>2, <2>7, <2>8
<1> QED  BY <1>3, <1>4

LEMMA RestartOwing == Inv /\ Owing /\ Restart => Owing'
<1> SUFFICES ASSUME Inv, Owing, Restart PROVE Owing'
  OBVIOUS
<1>1. /\ lock' = <<>> /\ held' = Idle /\ running' = None /\ owed' = suspendedSpec'
  BY DEF Restart, Boot
<1>2. DOMAIN lock' = {} /\ held'.step = "waiting"
  BY <1>1, Nothing
<1> QED  BY <1>1, <1>2 DEF Owing, WhoHasIt, RestartsAgree, StartsItsOwn, JobIsLast, Dropped, Bringing

(* What neither starts, stops nor queues anything. *)
LEMMA AsideOwing ==
    ASSUME Inv, Owing,
           \/ TestEnds \/ RequestStop \/ WindowPasses \/ UNCHANGED vars
           \/ \E p \in Proc : Loaded(p)
           \/ \E q \in Request : Arrive(q) \/ Forward(q) \/ Finish(q)
    PROVE  Owing'
<1>1. UNCHANGED <<running, held, owed, suspendedSpec, lock>>
  BY DEF TestEnds, RequestStop, WindowPasses, vars, Loaded, Arrive, Forward, Finish, managerVars
<1>2. running # None => proc'[running].spec = proc[running].spec
  <2> SUFFICES ASSUME running # None PROVE proc'[running].spec = proc[running].spec
    OBVIOUS
  <2>1. proc \in [Proc -> Process] /\ running \in Proc /\ held.proc \in OptProc
    BY DEF Inv, Typed, OptProc, Held
  <2>2. CASE proc' = proc
    BY <2>2
  <2>3. CASE RequestStop
    BY <2>1, <2>3 DEF RequestStop, OptProc, Process
  <2>4. ASSUME NEW p \in Proc, Loaded(p) PROVE proc'[running].spec = proc[running].spec
    BY <2>1, <2>4 DEF Loaded, Process
  <2> QED  BY <2>2, <2>3, <2>4 DEF TestEnds, WindowPasses, vars, Arrive, Forward, Finish
<1> QED  BY <1>1, <1>2, OwingKept

(* A model that was ready is never forgotten: through tests that take it    *)
(* out of service, reloads that are interrupted, crashes and restarts that  *)
(* wait behind one another, it is in service, on its way or marked for it,  *)
(* until a job names another, unloads it or it cannot be started any more.  *)
THEOREM ModelIsAccounted == DaemonSpec => []Accounted
<1>1. Init => Owing
  BY OwingInit
<1>2. Inv /\ Owing /\ [Next]_vars => Owing'
  <2> SUFFICES ASSUME Inv, Owing, [Next]_vars PROVE Owing'
    OBVIOUS
  <2>1. CASE Loop
    <3>1. "suspend" \in JobKind /\ "unload" \in JobKind /\ "load" \in JobKind
          /\ None \in OptSpec /\ Spec \subseteq OptSpec
      BY DEF JobKind, OptSpec
    <3>2. ASSUME NEW s \in Spec, PollJob("load", s) PROVE Owing'
      BY <3>1, <3>2, PollJobOwing
    <3>3. CASE PollJob("suspend", None) \/ PollJob("unload", None)
      BY <3>1, <3>3, PollJobOwing
    <3> QED  BY <2>1, <3>2, <3>3, PollEmptyOwing, AsideOwing DEF Loop
  <2>2. CASE Holder
    BY <2>2, StartSuspendOwing, StartLoadOwing, StartUnloadOwing, StartRestoreOwing,
       StartRestartOwing, DrainedOwing, StoppedOwing, NotPreparedOwing, SpawnOwing,
       NotReadyOwing, AnswerOwing, ReadyOwing, CleanedOwing DEF Holder
  <2>3. CASE Server
    BY <2>3, ExitOwing, AsideOwing DEF Server
  <2>4. CASE Gateway
    BY <2>4, AsideOwing DEF Gateway
  <2>5. CASE Restart
    BY <2>5, RestartOwing
  <2>6. CASE UNCHANGED vars
    BY <2>6, AsideOwing
  <2> QED  BY <2>1, <2>2, <2>3, <2>4, <2>5, <2>6 DEF Next
<1>3. Inv /\ Owing => Accounted
  <2> SUFFICES ASSUME Inv, Owing, owed # None
               PROVE \/ running # None /\ proc[running].spec = owed
                     \/ suspendedSpec = owed
                     \/ lock # <<>> /\ held.spec = owed
    BY DEF Accounted
  <2>1. held.step = "waiting" \/ held.step \in {"draining", "killing"} \/ held.step \in Bringing
    BY DEF Inv, Typed, Held, Bringing
  <2>2. held.step \in Bringing => lock # <<>>
    BY DEF Inv, Where, Bringing
  <2> QED  BY <2>1, <2>2 DEF Owing, WhoHasIt
<1> QED  BY <1>1, <1>2, <1>3, ServeInductive, PTL DEF DaemonSpec

=============================================================================
