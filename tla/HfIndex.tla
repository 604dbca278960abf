------------------------------- MODULE HfIndex -------------------------------
(***************************************************************************)
(* The background index of Hugging Face's GGUF repositories                *)
(* (server/src/hf-index.ts).  A tick lists the catalogue three ways: one   *)
(* page of the walk over the whole backlog, the newest repositories down   *)
(* to a bookmark, the last modified ones down to a bookmark; it then       *)
(* fetches and indexes every repository found, and only then saves the     *)
(* markers, one statement at a time.  A worker's hash lookup may have a    *)
(* stale row verified at any moment.  The catalogue itself is external: it *)
(* grows, changes and shrinks at any time.                                 *)
(***************************************************************************)
EXTENDS Integers, FiniteSets, SequencesExt

CONSTANTS
    Repo,          \* repositories, numbers: their order breaks ties of a listing
    Existing,      \* those there are at the start
    BacklogBatch, RecentBatch, ChangedBatch,
    None,
    Fault,         \* what may go wrong in an instance
    MaxEvents      \* bound: changes of the catalogue, lookups and faults together

ASSUME RepoAssumption ==
    Repo \subseteq Nat \ {0} /\ IsFiniteSet(Repo) /\ Existing \subseteq Repo /\ None \notin Nat
ASSUME SizesAssumption ==
    /\ {BacklogBatch, RecentBatch, ChangedBatch} \subseteq Nat \ {0}
    /\ MaxEvents \in Nat
ASSUME FaultAssumption == Fault \subseteq {"listing", "crash", "scan", "torn", "unseeded"}

VARIABLES
    created, modified, \* the catalogue's times, 0 for a repository that is not there
    content,           \* what a repository holds: a version, 0 when it is gone
    edits,
    live,              \* the version a repository's live rows are of, 0 without any
    mark,              \* the markers in meta
    phase,             \* where the tick is
    toScan, pending,   \* its memory: what to scan, what to write then
    fetched,           \* its scanHfRepo, once the answer is here
    verifying,         \* verifyingRepos, with the answer each got
    lookups,           \* history: the repositories verified so far
    faults

catalogue == <<created, modified, content, edits>>
tick == <<phase, toScan, pending, fetched>>
vars == <<catalogue, live, mark, tick, verifying, lookups, faults>>

Marks == {"cursor", "walked", "recent", "bookmark", "resume", "resumeNewest"}
FreshMarks == [cursor |-> None, walked |-> FALSE, recent |-> 0,
               bookmark |-> 0, resume |-> None, resumeNewest |-> 0]

Budget == edits + Len(lookups) + faults < MaxEvents

\* Until the first sweep has seeded the bookmark a listing that fails, or a
\* flush that is torn, leaves a gap: those are a fault of their own.
MayFail(fault) ==
    fault \in Fault /\ Budget /\ (mark.bookmark # 0 \/ "unseeded" \in Fault)

-----------------------------------------------------------------------------
(***************************************************************************)
(* The catalogue.                                                          *)
(***************************************************************************)
Listed == {r \in Repo : content[r] # 0}
Times == {created[r] : r \in Repo} \cup {modified[r] : r \in Repo}
Newest(S) == IF S = {} THEN 0 ELSE CHOOSE t \in S : \A u \in S : u <= t
\* The same millisecond, or a later one.
Moments == {Newest(Times), Newest(Times) + 1}

Create(r) ==
    /\ created[r] = 0 /\ Budget
    /\ \E t \in Moments :
          /\ created' = [created EXCEPT ![r] = t]
          /\ modified' = [modified EXCEPT ![r] = t]
    /\ content' = [content EXCEPT ![r] = 1]
    /\ edits' = edits + 1
    /\ UNCHANGED <<live, mark, tick, verifying, lookups, faults>>

Modify(r) ==
    /\ r \in Listed /\ Budget
    /\ \E t \in Moments : modified' = [modified EXCEPT ![r] = t]
    /\ content' = [content EXCEPT ![r] = @ + 1]
    /\ edits' = edits + 1
    /\ UNCHANGED <<created, live, mark, tick, verifying, lookups, faults>>

\* The catalogue never empties.
Delete(r) ==
    /\ r \in Listed /\ Listed # {r} /\ Budget
    /\ content' = [content EXCEPT ![r] = 0]
    /\ edits' = edits + 1
    /\ UNCHANGED <<created, modified, live, mark, tick, verifying, lookups, faults>>

-----------------------------------------------------------------------------
(***************************************************************************)
(* searchHfGgufModels: newest first by a date f, continued from the cursor *)
(* c, a position between two items.                                        *)
(***************************************************************************)
Newer(f, r, s) == f[r] > f[s] \/ (f[r] = f[s] /\ r > s)
After(f, c) ==
    {r \in Listed : c = None \/ f[r] < c[1] \/ (f[r] = c[1] /\ r < c[2])}
Top(n, f, S) == {r \in S : Cardinality({s \in S : Newer(f, s, r)}) < n}
EndOf(f, S) ==
    LET r == CHOOSE r \in S : \A s \in S \ {r} : Newer(f, s, r) IN <<f[r], r>>

\* One sweep: the pages from the cursor down to the bookmark b, which is itself
\* listed again, up to the batch.  It is complete when it reached the bookmark
\* or the end.
Sweep(f, c, b, batch) ==
    LET rest  == After(f, c)
        above == {r \in rest : f[r] >= b}
        found == Top(batch, f, above)
    IN [found    |-> found,
        newest   |-> Newest({f[r] : r \in rest}),
        complete |-> Cardinality(above) < batch \/ found = rest,
        cursor   |-> IF found = rest \/ found = {} THEN None ELSE EndOf(f, found)]

\* A page fails (after n items): what the earlier pages gave is kept.
Broken(f, c, b, batch) ==
    LET rest  == After(f, c)
        above == {r \in rest : f[r] >= b}
        Cut(n) == Top(n, f, above)
    IN {[found    |-> Cut(n),
         newest   |-> IF n = 0 THEN 0 ELSE Newest({f[r] : r \in rest}),
         complete |-> FALSE,
         cursor   |-> IF n = 0 THEN c ELSE EndOf(f, Cut(n))] :
            n \in {k \in 0..(batch - 1) : k = 0 \/ (k <= Cardinality(above) /\ Cut(k) # rest)}}

\* What a sweep may return, with the faults it takes.
Outcome(f, c, b, batch, out) ==
    \/ out = Sweep(f, c, b, batch) /\ UNCHANGED faults
    \/ /\ MayFail("listing")
       /\ out \in Broken(f, c, b, batch)
       /\ faults' = faults + 1

-----------------------------------------------------------------------------
(***************************************************************************)
(* What a sweep learned about its marker waits in pending: the writes.     *)
(***************************************************************************)
When(condition, writes) == IF condition THEN writes ELSE <<>>
Set(marker, value) == <<[marker |-> marker, value |-> value]>>

AdvanceAnyway(out) ==   \* slip: the bookmark advances without the sweep reaching it
    Set("resume", None) \o Set("resumeNewest", 0)
        \o When(out.newest > mark.bookmark, Set("bookmark", out.newest))

NoResume(out) ==   \* slip: an incomplete sweep starts at the top the next time
    When(mark.bookmark = 0 \/ out.complete,
         When(out.newest > mark.bookmark, Set("bookmark", out.newest)))

-----------------------------------------------------------------------------
(***************************************************************************)
(* runIndexTick.                                                           *)
(***************************************************************************)
BacklogWrites(out) ==
    Set("cursor", IF out.complete THEN None ELSE out.cursor)
        \o When(mark.recent = 0 /\ out.newest # 0, Set("recent", out.newest))
        \o When(out.complete, Set("walked", TRUE))

BacklogWalk ==
    /\ phase = "idle"
    /\ phase' = "recent"
    /\ IF mark.walked
       THEN toScan' = {} /\ pending' = <<>> /\ UNCHANGED faults
       ELSE \E out \in {Sweep(created, mark.cursor, 0, BacklogBatch)}
                          \cup Broken(created, mark.cursor, 0, BacklogBatch) :
              /\ Outcome(created, mark.cursor, 0, BacklogBatch, out)
              /\ toScan' = out.found
              /\ pending' = BacklogWrites(out)
    /\ UNCHANGED <<catalogue, live, mark, fetched, verifying, lookups>>

RecentWrites(out) ==
    When(out.complete /\ out.newest > mark.recent, Set("recent", out.newest))

RecentSweep ==
    /\ phase = "recent"
    /\ phase' = "changed"
    /\ \E out \in {Sweep(created, None, mark.recent, RecentBatch)}
                     \cup Broken(created, None, mark.recent, RecentBatch) :
         /\ Outcome(created, None, mark.recent, RecentBatch, out)
         /\ toScan' = toScan \cup out.found
         /\ pending' = pending \o RecentWrites(out)
    /\ UNCHANGED <<catalogue, live, mark, fetched, verifying, lookups>>

\* The first sweep ever only seeds the bookmark; a complete one advances it to
\* the newest change the whole burst showed; another saves where to resume.
ChangedWrites(out) ==
    LET newest  == Newest({mark.resumeNewest, out.newest})
        settled == Set("resume", None) \o Set("resumeNewest", 0)
    IN IF mark.bookmark = 0
       THEN settled \o When(newest # 0, Set("bookmark", newest))
       ELSE IF out.complete
       THEN settled \o When(newest > mark.bookmark, Set("bookmark", newest))
       ELSE Set("resume", out.cursor) \o When(newest # 0, Set("resumeNewest", newest))

ChangedSweep ==
    /\ phase = "changed"
    /\ phase' = "scan"
    /\ \E out \in {Sweep(modified, mark.resume, mark.bookmark, ChangedBatch)}
                     \cup Broken(modified, mark.resume, mark.bookmark, ChangedBatch) :
         /\ Outcome(modified, mark.resume, mark.bookmark, ChangedBatch, out)
         /\ toScan' = toScan \cup out.found
         /\ pending' = pending \o ChangedWrites(out)
    /\ UNCHANGED <<catalogue, live, mark, fetched, verifying, lookups>>

\* scanHfRepo up to its last answer: the files as they are at this moment, or
\* that the repository is gone, or an error (None).
Answers(r) == {content[r]} \cup (IF "scan" \in Fault /\ Budget THEN {None} ELSE {})

Fetch(r) ==
    /\ phase = "scan" /\ fetched = None /\ r \in toScan
    /\ \E answer \in Answers(r) :
          /\ fetched' = [repo |-> r, content |-> answer]
          /\ faults' = IF answer = None THEN faults + 1 ELSE faults
    /\ UNCHANGED <<catalogue, live, mark, phase, toScan, pending, verifying, lookups>>

\* ... and what it does with it: the rows of the files seen, the others
\* soft-deleted, all of them for a repository that is gone; after an error the
\* rows stay as they are and the tick goes on.
Apply ==
    /\ fetched # None
    /\ live' = IF fetched.content = None THEN live
               ELSE [live EXCEPT ![fetched.repo] = fetched.content]
    /\ toScan' = toScan \ {fetched.repo}
    /\ fetched' = None
    /\ UNCHANGED <<catalogue, mark, phase, pending, verifying, lookups, faults>>

\* The deferred writes, once everything found has been scanned: one statement
\* after the other, which only a crash comes between.
Latest(writes, marker, old) ==
    LET at == {i \in DOMAIN writes : writes[i].marker = marker}
    IN  IF at = {} THEN old ELSE writes[Max(at)].value
Written(writes) ==
    [cursor       |-> Latest(writes, "cursor", mark.cursor),
     walked       |-> Latest(writes, "walked", mark.walked),
     recent       |-> Latest(writes, "recent", mark.recent),
     bookmark     |-> Latest(writes, "bookmark", mark.bookmark),
     resume       |-> Latest(writes, "resume", mark.resume),
     resumeNewest |-> Latest(writes, "resumeNewest", mark.resumeNewest)]

Flush ==
    /\ phase = "scan" /\ toScan = {}
    /\ mark' = Written(pending)
    /\ phase' = "idle" /\ pending' = <<>>
    /\ UNCHANGED <<catalogue, live, toScan, fetched, verifying, lookups, faults>>

FlushTorn ==
    /\ phase = "scan" /\ toScan = {}
    /\ MayFail("torn")
    /\ \E n \in 1..(Len(pending) - 1) : mark' = Written(SubSeq(pending, 1, n))
    /\ faults' = faults + 1
    /\ phase' = "idle" /\ pending' = <<>> /\ verifying' = <<>>
    /\ UNCHANGED <<catalogue, live, toScan, fetched, lookups>>

\* verifyRepoInBackground: a lookup matched a row last seen a day ago.
Verify(r) ==
    /\ live[r] # 0 /\ r \notin DOMAIN verifying /\ Budget
    /\ lookups' = Append(lookups, r)
    /\ verifying' = [s \in DOMAIN verifying \cup {r} |->
                        IF s = r THEN content[r] ELSE verifying[s]]
    /\ UNCHANGED <<catalogue, live, mark, tick, faults>>

Verified(r) ==
    /\ r \in DOMAIN verifying
    /\ live' = [live EXCEPT ![r] = verifying[r]]
    /\ verifying' = [s \in DOMAIN verifying \ {r} |-> verifying[s]]
    /\ UNCHANGED <<catalogue, mark, tick, lookups, faults>>

\* The server restarts: the tick's memory is gone.
Crash ==
    /\ "crash" \in Fault /\ Budget
    /\ phase # "idle" \/ DOMAIN verifying # {}
    /\ faults' = faults + 1
    /\ phase' = "idle" /\ toScan' = {} /\ pending' = <<>> /\ fetched' = None
    /\ verifying' = <<>>
    /\ UNCHANGED <<catalogue, live, mark, lookups>>

-----------------------------------------------------------------------------
Init ==
    /\ created = [r \in Repo |-> IF r \in Existing THEN r ELSE 0]
    /\ modified \in [Repo -> 0..Newest(Existing)]
    /\ \A r \in Repo : IF r \in Existing THEN modified[r] >= r ELSE modified[r] = 0
    /\ content = [r \in Repo |-> IF r \in Existing THEN 1 ELSE 0]
    /\ edits = 0 /\ lookups = <<>> /\ faults = 0
    /\ live = [r \in Repo |-> 0]
    /\ mark = FreshMarks
    /\ phase = "idle" /\ toScan = {} /\ pending = <<>> /\ fetched = None
    /\ verifying = <<>>

Tick == BacklogWalk \/ RecentSweep \/ ChangedSweep \/ (\E r \in Repo : Fetch(r)) \/ Apply \/ Flush

Next ==
    \/ \E r \in Repo : Create(r) \/ Modify(r) \/ Delete(r)
    \/ Tick
    \/ \E r \in Repo : Verify(r) \/ Verified(r)
    \/ Crash \/ FlushTorn

Spec == Init /\ [][Next]_vars

\* The service schedules the next tick whenever one ends, and a request ends;
\* nothing obliges the catalogue or a worker to do anything.
FairSpec == Spec /\ WF_vars(Tick) /\ WF_vars(\E r \in Repo : Verified(r))

-----------------------------------------------------------------------------
\* The index lags behind this repository.  A repository that is gone is left to
\* the lookups; and the answer a lookup waited for may be older than the rows it
\* then writes over, so of a repository that was ever verified only the absence
\* of rows is the tick's to put right.
Owed(r) ==
    /\ r \in Listed /\ live[r] # content[r]
    /\ live[r] = 0 \/ r \notin ToSet(lookups)

\* Some marker has not passed it.
Ahead(r) ==
    \/ ~mark.walked /\ r \in After(created, mark.cursor)
    \/ mark.bookmark # 0 /\ modified[r] >= mark.bookmark
    \/ mark.recent # 0 /\ created[r] >= mark.recent

\* A repository the index does not have as it is now is still ahead of a marker
\* on disk: whatever is interrupted, a later tick comes to it (runIndexTick's
\* deferred writes, the bookmarks that advance only when a sweep is complete).
NothingSkipped == \A r \in Repo : Owed(r) => Ahead(r)

\* Once the catalogue is quiet, every repository in it has rows, and those it has
\* now if no lookup ever verified it; this without scans that fail, which the
\* tick does not try again.
EverythingIndexed == \A r \in Repo : []<>(~Owed(r))

=============================================================================
