# LlamaToaster: specification and proofs

LlamaToaster benchmarks llama.cpp models on machines its users own. A browser
asks a server for runs; the server keeps them in SQLite; a worker process on
each machine pulls jobs, drives `llama-bench` and `llama-server`, and reports.
Between tests the worker may serve a model behind a gateway of its own, and the
server keeps an index of the GGUF repositories of Hugging Face.
This directory models that system in TLA+, checks it with TLC and proves
theorems about it with TLAPS. Paths below are relative to the repository.

## 1. Inventory

| Component | State it keeps | Operations | Talks to |
|---|---|---|---|
| Run lifecycle: `server/src/routes/tests.ts`, run and item writes of `db/repo.ts` | `runs.status/error`, `run_items.status` | trigger, item tick, item terminal report, stop (cascading over a root), pause, resume, finalize, reconcile | queue (enqueue, cancel), worker (reports), browser |
| Run queue: `routes/queue.ts`, `queueRepo` of `db/repo.ts`, `queue-events.ts` | `worker_jobs` (status, attempts, lease, cancel flag), `workers.active_job_id`, `pause_requested`, `last_heartbeat_at` | long-poll, claim, unclaim, heartbeat, complete | worker, reaper, run lifecycle |
| Reaper: `reaper.ts`, `liveness.ts` | none of its own | expired leases, stuck pending jobs, stalled runs, forgotten pauses, orphaned runs, pruning | queue, run lifecycle |
| Worker loop: `worker/src/index.ts` | `currentJobReport`, `stopRequested`, `pauseRequested`, `busy`, installed builds | poll, execute a job item by item, retry reports, complete | server, measurement processes, daemon |
| Heartbeat schedule: `worker/src/index.ts` | `heartbeatTimer`, the timeouts it does and does not name | fire, reschedule, kick | worker loop, download pool |
| Model downloads: `worker/src/index.ts`, `routes/workers.ts` | `activeDownload*` maps, `.part` files | start, progress, pause, cancel, resume, verify | heartbeat, queue |
| Sessions: `routes/sessions.ts`, `session.ts`, `worker-auth.ts`, `refreshAuth` | refresh-token hash and its predecessor, token files | login, rotate, revoke | worker, browser |
| Enrolment: `routes/device.ts`, `machine-key.ts` | `workers` enrolment columns, `worker_reenrolments`, `device_challenges` | start, approve, poll, challenge, re-enrol, merge, expire | worker, browser |
| Serve daemon: `worker/src/daemon/*`, `routes/daemon.ts`, `daemonRepo.ts` | the process in service, the lock, the model to bring back; configuration and its version, keys, usage spool | load, unload, suspend for a job, restore, restart; sync configuration, bind the listener, deliver usage | worker loop, agents, server |
| Probe ladder: `shared/probeLadder.ts`, `shared/moePlacement.ts` | a history of loads | next rung, outcome; a rung's arguments and back | worker executors |
| Rate limits: `hf-rate-limit.ts`, `ingest-budget.ts` | bucket entries, what the last answer said | acquire, record, back off | Hugging Face, ingest routes |
| HF index: `hf-index.ts`, `hf*.ts` | `hf_gguf_index`, markers in `meta` | tick with three sweeps, verification on demand | Hugging Face |
| Optimize chain, comparisons: `optimizeFlow.ts`, `comparison.ts` | derived from runs | which stage comes next | trigger |
| Sweep, thread plan, hashes: `shared/sweep.ts`, ... | none (pure) | expand, order, hash | trigger, worker |
| Estimators, scoring, GGUF parsing | none (numeric, bytes) | estimate, score, parse | everywhere |
| Measurement drivers: `bench.ts`, `serverBench.ts`, ... | child processes, sensors | run, kill, classify | worker executors |
| Accounts, read routes, migration, SPAs, scripts | rows, pages | CRUD | users |

What is hard here:

* **Connections die in the middle.** A claim is committed before its response
  is written; a report may time out at the worker and still be applied; an old
  heartbeat may be applied after the claim that followed it; the answer to a
  token rotation or a usage batch may be lost after the server acted on it.
* **Processes die in the middle.** A worker that crashes leaves a claimed job,
  a run that reads running, a `.part`, a token it did not write down, usage it
  did not spool. The server only learns of it from a lease that runs out.
* **Four parties end a run**: the worker's last report, the user's stop, the
  reaper and a failed job. They may do so in any order, and repeatedly.
* **Flags outlive what they were for.** `cancel_requested`, `pause_requested`,
  `stopRequested` and `active_job_id` are set for one job or run and read when
  another is there; so are a daemon's interrupt token and a stale restart.
* **One GPU, many who want it**: tests, loads, restores and restarts after a
  crash wait for one lock, while requests come and go.
* **The same thing arrives by two roads**: configurations in telemetry answers
  and inside queued loads; a repository in three listings and a verification.
* **Nothing may wait for ever**: for a worker that is gone, a process that
  hangs, a pause nobody ends, a job nobody can claim, a quota that never resets.

What makes each component correct: a run is finished exactly when its items
are, once, and keeps its outcome; a measured result is never lost; a job ends
once, is executed only under a lease and is never left where nobody takes it;
a stop reaches its run and no other; a worker never falls silent while it is
up; a model's file is put together right, and only a cancel deletes what was
loaded of it; a machine has one session, by its owner's consent, and gets it
back after any loss; a test has the GPU to itself and the model it displaced
comes back; a usage row is counted once; the worker ends up with the owner's
configuration; a search loads no placement for nothing and answers what it saw;
the hub's quota is kept without shutting anybody out; no repository is passed
by the index.

## 2. Plan

| Module | What | Checks | Proofs |
|---|---|---|---|
| `JobQueue` | runs, items, jobs, long-poll, heartbeat, reports, reaper, one worker | safety, action properties, liveness | types, every safety and action property |
| `RunLifecycle` | abstract: a run is scheduled, runs, ends once with an outcome that tells what became of its items | `JobQueue` implements it | the same, for all constants |
| `HeartbeatTimer` | the timers behind the heartbeat | always due, fast lane | types, both |
| `Downloads` | the pool, pause, cancel and resume of one file, its `.part`, several jobs | the file is put together right, only a cancel deletes, every download ends | types, every safety and action property |
| `MachineIdentity` | sessions, rotation, enrolment, re-enrolment, merging | one session, by consent; it comes back | every safety and action property |
| `ServeDaemon` | the served model's process, the lock, tests between | GPU exclusion, nothing is cut, the model comes back | all four invariants |
| `DaemonSync` | configuration, keys, listener, usage | nothing lost, listener follows, configurations converge | both invariants |
| `ProbeLadder`, `Placement` | the search for what fits; what a rung is on a model with experts | right answers, no wasted load, nothing left open; rungs round-trip | all five invariants, for every grid; the round trip |
| `HfIndex` | three sweeps and their markers | nothing is passed, everything is indexed | that nothing is passed |
| `RateLimit` | a sliding window against a fixed one | no refusal, every call ends | that nothing is refused |

All of these are built, and every invariant and action property that a run
checks is a theorem (section 5). What is left, in order: `LadderGrows` for models
of any size, which needs a theory of sums over the resident tensors; the
conditions of the queue's theorems, some of which could be narrower than the
events they exclude; downloads of different files,
which share the pool.

`JobQueue` is composed with `RunLifecycle` by refinement: the run and item rows
are mapped to themselves, jobs, connections and the worker are hidden.
`Downloads` shares `worker_jobs` and the heartbeat with it but not its states: a
download has no run, and a worker polls on while it downloads. `ServeDaemon`
takes of the queue only that it hands out a test, a load, an unload or nothing;
`DaemonSync` takes of `ServeDaemon` only that a load ends with a model in
service or without. `MCProbeLadder` extends both the ladder and the placements
its rungs stand for. The others share no state.

## 3. The modules

### `JobQueue`

One worker, `NRuns` runs of `NItems` items. Each run has a benchmark job and,
if it is in `NeedsInstall`, an install job queued before it. Jobs belong to one
worker for life (every query filters on `worker_id`), so several workers would
be copies that never interact, but for the offline test of each.

| State | Code |
|---|---|
| `runStatus`, `runError`, `item` | `runs.status`, which of its notes `runs.error` carries, `run_items.status` |
| `jobStatus`, `attempts`, `cancelRequested`, `lease` | the columns of `worker_jobs`; `lease` counts ticks to `lease_expires_at` |
| `pauseRequested`, `activeJob`, `silence` | the columns of `workers`; `silence` counts ticks since `last_heartbeat_at` |
| `link`, `polls`, `sending` | whether the worker reaches the server; long-polls the server still holds ("dead": the worker is gone from it); the claim response being written |
| `beat`, `ticks`, `late` | the heartbeat, progress ticks and timed-out reports on the wire |
| `pc`, `cur`, `todo`, `at`, `result`, `stopFlag`, `pauseFlag` | where `workerMain` is, `currentJobReport`, the item loop, `stopRequested`, `pauseRequested` |
| `hung`, `installed` | a benchmark process without progress; builds on disk |
| `userStopped`, `events` | history and a counter that bounds the events of an instance |

Actions, by group (the disjuncts of `Next`):

* `Browser`: `Trigger`, `Stop` (with its cascade over a shared root), `Pause`, `Resume`.
* `Queue`: `LongPoll`, `PollAgain`, `ClaimNext` (one transaction), `Deliver`,
  `ResponseLost`, `ResponseClosed` (`unclaimJob`), `DeadPollEnds`.
* `Heartbeat`: `BeatSend`, `BeatReceive` (server), `BeatReturn` (worker),
  `OrphanBeatLost`. Apart from the job so that a claim, an end or a crash can
  fall between them.
* `Execute`: `Prepare`, `NextItem`, `FinishItem`, `FinishInstall`, `FinishJob`, `Hang`.
* `Deliveries`: `ReportItem`, `ReportTimesOut`, `LateReport`, `ReportGivenUp`,
  `ProgressTick` (applied or lost), `Complete`, `CompleteGivenUp`.
* `World`: `Outage`, `Reconnect`, `Crash`, `Restart`, `Tick`.
* `Maintenance`: `ReapExpiredLeases` with the stuck-pending sweep, the two
  halves of `stopStalledRuns`, `FinalizeOrphanedRun`.

Database writes of one handler are one step: better-sqlite3 is synchronous and
no handler modelled here awaits between its writes.

Time. A `Tick` is one heartbeat interval. `OFFLINE_AFTER_MS` and `LEASE_MS`
become `OfflineTicks < LeaseTicks`, which is all the design relies on. A tick
does not pass while a connected worker owes a heartbeat, or while a response or
heartbeat is on the wire: those take at most one request timeout. Timeouts far
beyond every other (12 hours without progress, 7 days of pause, 10 minutes of
an orphaned run) are actions that may happen at any time their condition
holds, which only adds behaviours; the one exception is `EndLongPause`, which
waits for a claim response on the wire.

Abstracted: `failed_oom`, `failed_timeout` and `failed_unsupported` are
`failed`; the live item statuses are `active`; a run's error is one of four
notes; probe, quality and fit-map jobs are benchmarks; model downloads and file
jobs, which carry no run, are left to `Downloads`. `Outcome` says what an item
can end in.

### `HeartbeatTimer`

Every `setTimeout` handle is modelled, because the code only remembers the last
one: `armed` (set, not fired), `flying` (fired, `heartbeatTick` awaiting the
server), `heartbeatTimer` (the variable), `delay` (what each was set to). The
download pool and the serial job slot are the two callers of
`kickHeartbeatSoon`; a serial job is an install, which is on the fast lane, or
another. `Timer` bounds the handles; a kick leaves one free so that a heartbeat
can always end, and this bound is in `Kick`.

### `RunLifecycle`

What a reader of the run and item rows may rely on, without jobs, leases,
messages or workers: a run is scheduled with every item queued (`Schedule`),
starts or restarts (`Start`), has items open and close (`Progress`), and ends
in one step that closes its last item and sets an outcome that tells what
became of them (`End`, `Tells`). After that its status and note stay and a late
report may correct a closed item (`Amend`), but never one that was measured.
Several runs may change in one step, since a stop or a sweep ends many. An
instance of it in `JobQueue` (`RL`) makes it a property, `Lifecycle`.

### `Downloads`

One model file on one machine, queued up to `NJobs` times. Unlike `JobQueue`,
the worker polls while it downloads, so it can be handed a job it is still
executing; an execution is therefore a job and its count of lease expiries.

| State | Code |
|---|---|
| `jobStatus`, `attempts`, `cancelRequested`, `discardRequested`, `lease`, `silence` | the columns of `worker_jobs` and `workers`, in ticks as above |
| `registered` | the catalog row the completion callback writes |
| `link`, `sending`, `beat`, `beaten` | reachability, the claim response and the heartbeat on the wire |
| `reports`, `controller`, `discards`, `pool` | the keys of `activeDownloadReports`, `activeDownloadControllers`, `discardRequestedJobIds`, `activeDownloadJobs`, all by job id |
| `pc`, `pos`, `file`, `appending`, `aborted` | where `executeDownloadModelJob` is, its offset, the file its write stream holds open and how, its abort signal |
| `content`, `part`, `target` | file contents by inode, in chunks, and the two names |
| `verified` | executions whose callback was answered |
| `shared` | history: the executions and inodes of transfers of the file that overlapped |

Inodes matter: a rename moves whatever the name holds by then, and a stream
goes on writing the file it opened after the name has gone. Chunk `i` of the
file is the number `i`, and a hole is 0, so appending twice or writing past the
end shows. A verified file is one that equals the whole, since the server
names the expected hash when it queues the download; hashing is one step. The
remote server may honour a Range request, ignore it, refuse one that starts at
the end (416), or break off. A stopped execution writes no more.

Actions: `Enqueue` (also Resume), `Pause`, `Cancel`; `Claim`, `PollIdle`,
`Deliver`, `ResponseClosed`; `Fetched`, `Write`, `Finish`, `AbortSeen`,
`BrokenStream`, `Hash`; `CallOk`, `CallGivenUp`, `RejectReported`,
`FailReported`, `Complete`, `CompleteGivenUp`; the heartbeat, the world and
`Reap` as in `JobQueue`. `Sever` lets a report that was on the wire when the
connection broke be applied or not. A user who is not in a hurry queues the
file again only when nothing of it is under way; doing so earlier is the event
"overlap". `GivesUp` is a report whose retries run out, after an outage or
because the server answers every one of them with 400, 404, 409 or 500
("refused").

The code does not keep two transfers of a file apart: the pool, the reports, the
controllers and the discards go by job id, the `.part` by name, and the default
is two slots (`worker/src/index.ts:5588`). So `TargetIsRight` speaks of a file no two
transfers had open at once (`shared`), and what the worker holds of a download
allows for a job it was handed twice: `DownloadsAreHeld` says that a download keeps
its slot, its renewal and its handle to the end unless another execution of
the same job takes them, and `PoolHoldsLimit` that the slots are exceeded by at most
one for every job that came back.

### `MachineIdentity`

One physical machine and its owners. Reinstalling the worker gives it a new
`machine_id` and key (`Install`), which the owner may merge into the old row.
Its heartbeat and queue loops (`Caller`) share one session.

| State | Code |
|---|---|
| `machine`, `owner`, `code`, `key` | `workers.machine_id`, `user_id` with `approved_at`, `enrolment_code_hash`, `public_key` |
| `attempts` | `worker_reenrolments` |
| `sessions` | worker sessions with the hash of their pair and of the one before |
| `stale`, `lapsed` | tokens and codes whose expiry has passed |
| `install`, `disk`, `mem` | what `config.json` says, and the tokens in memory |
| `pc`, `loop`, `flow` | where the process is, where each loop is with a refused call, and the refresh or enrolment a caller drives with its request or answer on the wire |
| `sanctioned`, `torn` | history: rows approved since trust was last revoked; whether a rotation's answer never reached the disk |

Actions: `Boot`, `RegisterKey`; `CallRefused`, `RefreshAuth` (single flight),
`Handle` (the server's half of a refresh, a start or a poll), `Adopt` (the
worker's half, with the write of `config.json`), `Continue`, `Throw`,
`Deadline`; `Approve`, `Merge`, `Revoke`, `Delete`; `TimesOut`, `Crash`,
`Reinstall`, `Sleep` (the refresh token expires), `CodeExpires`, `Prune`.

An access and a refresh token are minted together and are one token; device and
user code are one code; the one-time challenge is part of the step that answers
it. A request that its sender gave up is not handled later. Expired codes are
pruned before the next one expires. The shared token of the first stage of
authentication, which predates enrolment, is not modelled.

The model bears out one thing the code says of itself: when the answer to a
rotation is lost and the worker uses the old token past the grace,
`sessions.ts:41-43` takes a legitimate worker for a replay and revokes it; it
comes back with its machine key (`ComesBack`), and `OnlyOwnerRevokes` and
`PresentsCurrent` except exactly this case (`torn`).

### `ServeDaemon`

One `llama-server` process in service behind the gateway, and the promise chain
everything that starts or stops one waits for.

| State | Code |
|---|---|
| `phase`, `running`, `stopping`, `crashWatch`, `suspendedSpec`, `pendingRestore`, `restarts` | the fields of `DaemonManager` |
| `lock`, `held` | the promise chain, its head's progress from await to await |
| `loop`, `stop`, `lastSpec` | `workerMain`, `stopRequested`, `daemon-state.json` |
| `proc`, `request` | processes, at most one of them being killed; requests in the gateway |
| `owed` | history: the model that was ready and that nobody has taken away since |

Actions: `PollEmpty`, `PollJob`, `TestEnds`, `RequestStop`; the holder of the
lock (`StartSuspend`, `StartLoad`, `StartUnload`, `StartRestore`,
`StillCrashed`, `StartRestart`, then `Drained`, `Kill`, `Stopped`, `Spawn`,
`Cancelled`, `NotReady`, `Answered`, `Watch`, `Ready`, `Cleaned`, `Thrown`);
the process (`Loaded`, `Exit`, `WindowPasses`); the gateway (`Arrive`,
`Forward` with its second look at the upstream, `Finish`); and `Restart` of the
worker, a crash and a graceful shutdown alike.

Left out: the status calls and the sleeping mode, folded into `ready`; reuse of
a port. Three things the model shows and no listed property forbids: a process
that exits between its `/health` answer and `crashWatch = true` goes unnoticed
until a request fails (`waitReady` and `onExit` of `manager.ts`), and counts as in
service in `Accounted` and `ComesBack`, as it does for the worker; a stop during the reading of the
properties kills the process, the exit handler restarts it and the job reads
completed (`worker/src/index.ts:5231`); and a restart closure outlives the load
it was made for (`v_serves_last`).

### `DaemonSync`

What the Serve page and a worker tell each other, and the usage rows.

| State | Code |
|---|---|
| `version`, `host`, `keys`, `revoked`, `pending`, `recorded` | `daemon_config`, `daemon_api_keys`, daemon jobs of `worker_jobs`, `daemon_usage` |
| `forgotten` | history: usage rows that were deleted with their machine |
| `job`, `config`, `loaded` | the load or unload claimed, `DaemonStore`'s configuration, the model that serves |
| `spool`, `disk` | usage and its count of dropped rows, in memory and as last written |
| `telemetry`, `request`, `stray`, `answer` | `daemonTelemetryLoop`, the call on the wire, one that its sender gave up and the server may still apply |
| `settings`, `listener`, `applying`, `binding` | the gateway's settings, what it listens on, its queue of changes |
| `made`, `fresh`, `lost` | history: rows made, rows not yet written to disk, rows a crash took |

Actions: the owner's edits (`PutGateway`, `CreateKey`, `RevokeKey`,
`PutSampling`, `AskLoad`, `AskUnload`), `ReAdd` (the machine is deleted, with
its usage rows, and added again: versions start over, a job under way is
cancelled), `Handle`, `OverBudget`, `HandleStray`;
`SendTelemetry`, `Receive`, `Applied`, `TimesOut`; `Claim`, `SkipOld`,
`ApplyLoad`, `EndLoad` (loaded or not; a cancel travels by heartbeat, so a
cancelled load may finish first), `EndUnload`; `ApplyNow`, `Bind`; `Serve`, `Flush`, `Crash`.

Left out: the values of sampling settings, autostart, pruning and clearing of
usage (a late batch would put cleared rows back). `createKey` and `revokeKey`
are two statements without a transaction; a server that dies between them
leaves a key change without a new version, which this model, where the server
does not die, does not show.

### `ProbeLadder` and `Placement`

`ProbeLadder` is the search of a context test: from the `history` of loads of
each rung (a context and a number of layers) the next load and, in the end, the
answers; and the worker's loop around it, with its budget of loads. What the
machine can hold is chosen at the start (`most`: the layers that fit at each
context), what a load's claim and its generation find is chosen by the load.
Four modes (`Frontier`, `KeepContext`, `FixedOffload`, `Custom`); `Load`,
`LoadTroubled` (an error, out of memory at generation, a sibling's result
reused, a build that prints no buffers), `Conclude`, `Stop`. The walk over the
stops from the shortest context up, each with what the one below it gave
(`StateAt`), is a recursive function (`Curve`).

`Placement` is what a rung stands for on a model with routed experts: the
ladder from nothing on the GPU to everything, block by block and then expert
by expert with half steps, the `-ngl` and `-ot` of each rung, and the rung that
an answer of llama.cpp's fit is. It justifies the one assumption `ProbeLadder`
makes of the machine, that more layers take more memory (`LadderGrows`), given
that a routed tensor outweighs the others of its block (`Routed > 3`). A null
`-ngl` and the text of `-ot` are left out: the ladder is a set with an order and
an `-ot` is a set of entries.

What the models show beside the properties: a cap of 0 layers is forgotten,
since the anchor loads one layer and `fitStep` then drops the misses below what
fits (`probeLadder.ts:387`: with `Cap <- Zero`, `FitIsRight` is violated); an
inconclusive load at the next stop ends the search without a control load of
the stop below; a sibling's result keeps the verdict it got against the
sibling's own anchor and claim (`worker/src/index.ts:4359`); running out of memory while
generating records the rung as not fitting although its claim does.

### `HfIndex`

| State | Code |
|---|---|
| `created`, `modified`, `content` | the hub's catalogue (external) |
| `live` | the version of each repository its rows in `hf_gguf_index` are of |
| `mark` | the backlog cursor, the two bookmarks and the point to resume a sweep at, in `meta` |
| `phase`, `toScan`, `pending`, `fetched` | `runIndexTick`, the repositories found, the markers to write once they are scanned, the scan whose answer is here |
| `verifying` | verifications on demand under way |

Actions: the three sweeps (`BacklogWalk`, `RecentSweep`, `ChangedSweep`),
`Fetch`, `Apply`, `Flush`, which leaves of each marker the last of its writes
(`Latest`), with `FlushTorn`, that writes only the first few, `Verify` and
`Verified` beside them, `Crash`, and the catalogue's `Create`, `Modify`, `Delete`.

A listing breaks off, and times are such that a tie is broken by name. Left
out: parsing, search, duplicates by hash (`isBetterMatch` is not transitive
when only some creation times are known), empty trees, a repository published
again, an empty catalogue, the mode for a stale background.
The bookmark of new repositories may stick after a burst, which only costs
listings. Until the first sweep has seeded the bookmark of changes, a failed
listing or a torn flush can leave a gap; that is the fault "unseeded", which the
listed run leaves out. A transient failure of a scan is a fault of its own too
(`v_hf_skipped`). While a verification races the tick its older answer may be
the last to be written, so the two properties excuse stale rows of a
repository that was itself verified on demand (`lookups`), never missing ones
and never those of another repository.

### `RateLimit`

`admitted` (for each age how many entries are no older), `remaining` and
`resetIn` (what the last answer said) are the bucket; `stage`, `sleep`,
`forget`, `answer`, `retries` each caller's `hfFetch`; `elapsed` and `used` the
hub's fixed window, whose start nobody knows. Actions: `Call`, `Acquire` (one
turn of its loop), `Arrive`, `Return` (with a full header, one without a reset
time, or none), `NoAnswer`, `Fail`, `Elsewhere` (somebody else spends the
quota), `RestartServer`, `TimePasses`.

A request reaches the hub in the tick it was admitted in. A quota learned to
have changed, a limit overridden to less than the safety margin and the branch
for an empty bucket at its limit are left out. What the model shows beside the
properties: `hf-rate-limit.ts:335` says a recent 429's reset time is respected
before anything is admitted, but the code waits only when nothing remains or
the window is nearly full, and a late 200 overwrites the nothing that a 429
taught; and the bucket is not first come first served, so with calls without
end (here `MaxCalls`) one caller could wait for ever.

`MCJobQueue`, `MCHeartbeatTimer` and `MCProbeLadder` give instances their
batches, symmetry and bounds; `MCProbeLadder` also brings `Placement` in.

## 4. The runs

| Run | Instance | Shows |
|---|---|---|
| `queue_faults` | 1 run, 2 items, install; stop, crash, late, outage, unflushed; 3 events | `FinishedIffClosed`, `LeaseOutlivesWorker`, `StoppedByUserIsAccurate`, `OutcomeIsFinal`, `DoneItemStaysDone`, `EndedJobStaysEnded`, and `Lifecycle`: every step is one `RunLifecycle` allows |
| `queue_two` | 2 runs of 2 items, install of the first, items that succeed; stop, crash, late; 2 events | `NoFreshJobForFinishedRun`, `StopSparesOtherRuns`, `CompletedMeansFinished`. Not with `unflushed`, which breaks the first (`v_cancelled_requeued`), nor with outages: a report given up leaves its item open, and the orphan sweep is there for that |
| `queue_live` | 1 run, 1 item, install; stop, crash, outage, hang, pause; 2 events; fair | `EverythingEnds`: every triggered run and every job, of a worker that comes back |
| `timer_due` | 5 handles, 2 downloads, symmetric handles | `AlwaysDue`, `FastLaneIsFast` |
| `downloads_pool` | 2 jobs, 2 chunks, 2 slots; overlap, pause, pause queued, cancel, unflushed, crash, no range, broken stream; 3 events | `TargetIsRight`, unless two transfers had the file open at once (`v_resume_overlaps`); `OnlyCancelDeletes`, then too |
| `downloads_live` | 1 job, 2 chunks, 2 slots; outage, crash, pause, cancel, refused; 2 events; fair | `CompletedIsRegistered` and `DownloadsAreHeld`, also when two executions of the job run at once; `EveryDownloadEnds`. Not with "pause queued" (`v_pause_queued`) |
| `identity` | 2 rows, 2 installs, 1 owner, 1 pending attempt; crash, lost, sleep, code expires, reinstall, revoke, delete; 2 events; fair | `RevokedStaysOut`, `OneSession`, `PresentsCurrent`, `OnlyOwnerRevokes`, `ComesBack` |
| `serve` | 2 models, 1 request, 1 restart, 3 jobs; crash, bad load, port taken, stop, hang, restart; 4 events; fair | `GpuIsFree`, `OneModel`, `KillsIdle`, `Accounted`, `ComesBack` |
| `sync` | 1 key, 1 model, 2 rows, spool and batch of 1, 3 edits; timeout, crash, over budget, port taken, old load, re-added (with a job under way or not); 2 events; fair | `NothingLost`, `ListenerFollows`, `Converges` |
| `probe` | 4 modes, 2 contexts, 4 layer counts, 10 loads; one of: error, stop, unsupported, sibling, out of memory | `FitIsRight`, `CleanIsSeen`, `ClaimOnlySuffices`, `AtMostTwice`, `EndsSettled` |
| `hf_index` | 3 repositories, batches of 1; listing, crash, torn; 3 events of the catalogue, a worker and these together; fair | `NothingSkipped`, `EverythingIndexed` |
| `rate_limit` | 2 callers, 4 calls, 1 retry, a quota of 3 in 3 ticks; one of: elsewhere, restart, failed; fair | `QuotaKept`, `EveryCallEnds` |

Bounds. In `JobQueue` and `Downloads` `MaxAttempts = 1` (2 in the code),
`OfflineTicks = 1`, `LeaseTicks = 2`: one requeue, and the lease still outlives
the offline threshold. Two items are enough for an item reported, one open and
a re-execution that resumes in the middle; one run with an install gives both
jobs of a run; three events give a stop, a crash and a late report in one
behaviour. Two chunks are the least that can be resumed in the middle; two jobs
are a download and its resume, which with two slots may overlap; outages are left to
`downloads_live`, whose one job is handed out again while it is executed. Two rows and two installs are a reinstalled
machine before the owner merged it, and two events a lost answer followed by a
crash or a revocation. Three jobs and four faults are a load, a test, and a
crash with its restart between them. A spool and a batch of one row are at
their limit at the second. In the ladder four layer counts leave two between
the ends of a bracket, and two contexts are a stop and the one below it. A batch
of one makes every sweep stop short of what it looks for. A window of three ticks with a
quota of three, a margin and a reserve of one is the least in which the margin
matters and a burst may straddle two windows of the hub.

Fairness. The worker's and the server's loops, timers and sweeps keep running
and the network delivers, so those actions are weakly fair; a crashed worker is
restarted by its service manager (`deploy/llamatoaster-worker.service`) and an
outage ends, so a worker that never returns is covered by the safety properties
only. Users owe nothing: `Trigger`, `Stop`, `Pause`, `Resume`, `Approve`,
`Revoke`, edits, jobs and requests are unfair, and so are all events, ticks that
are lost, and late reports. Every event is bounded, so a behaviour has finitely
many. `Maintenance` is one fair action: its sweeps run together every 15
seconds. In `downloads_live` `Tick` is strongly fair: heartbeats are at
least two seconds apart, so they cannot keep time from passing; and so is the
`Deadline` of an enrolment in `identity`, which polls faster than it expires. In
`serve` a process that is not broken gets its model loaded, one that was killed
goes, and a request ends. In `sync` the telemetry loop, the server and the
chain of listener changes go on. `probe` needs none: `EndsSettled` is about the
end, and that it is reached follows from `AtMostTwice`.

`CHECK_DEADLOCK FALSE` stands where the system may stop: a machine nobody
approves, a daemon without jobs, an owner done editing, a search that ended,
callers out of calls.

Every property of a passing run has a mutant: the definitions commented
"slip" are plausible bugs of the operator that follows, and TLC finds the
property violated when one is used in its place.

Further configurations are kept to be run by hand (`tlc -config X.cfg M`).
`placement.cfg` (`MCProbeLadder`) passes: the round trip and the growth of the
ladder of every model of up to four blocks. The others each end in a violation of a property
that states what the repository says of itself:

| Configuration | Module | Shows |
|---|---|---|
| `v_cancelled_requeued` | `MCJobQueue` | a stop that falls between a claim and its failed response leaves the job pending and cancelled: nobody can claim it and, with no attempt counted, no sweep ends it (`repo.ts:3458` against `reaper.ts:59`) |
| `v_reconciled_runs_on` | `MCJobQueue` | a run stopped while its worker was away is reconciled, but the returning worker is not told and measures on (`tests.ts:1637` against `queue.ts:288-291`) |
| `v_one_claim` | `MCJobQueue` | after a lost claim response the install job stays claimed while the next poll claims the benchmark (`repo.ts:3113` against `repo.ts:3276-3279`) |
| `v_busy_reads_idle` | `MCJobQueue` | a heartbeat applied after the claim that overtook it makes the machine read idle (`queue.ts:270` against `workers.ts:204-206`) |
| `v_pause_other_run` | `MCJobQueue` | a requeued run still reads running, and pausing it pauses the machine's other run (`tests.ts:1687` against `tests.ts:1685-1686`) |
| `v_long_pause_note` | `MCJobQueue` | a pause ended after seven days reads "stopped by user" (`reaper.ts:164` against `repo.ts:2235-2238`) |
| `v_heartbeat_loops` | `MCHeartbeatTimer` | a kick during a heartbeat leaves two self-renewing timers (`worker/src/index.ts:5575` against `5481-5482`) |
| `v_resume_overlaps` | `Downloads` | a download resumed before the pause reached the worker: two executions append to one `.part`, which gets the model's name (`TargetIsAlwaysRight`; `worker/src/index.ts:3794`) |
| `v_pool_exceeded` | `Downloads` | the pool is keyed by job id, so a job that comes back after its lease expired takes no slot of its own: three downloads on two slots (`worker/src/index.ts:5588`) |
| `v_complete_part` | `Downloads` | a worker that dies between the last byte and the rename leaves a `.part` that is refused (416) for ever (`worker/src/index.ts:3755` against `3729-3731`) |
| `v_both_report` | `Downloads` | after an outage longer than the lease the worker executes a download twice, and both executions report (`repo.ts:3195` against `queue.ts:288-291`) |
| `v_cancel_paused` | `Downloads` | cancelling a paused download deletes nothing (`workers.ts:392` against `373-374`) |
| `v_pause_queued` | `Downloads` | pausing a queued download leaves its job pending for ever (`workers.ts:367`) |
| `v_serves_last` | `ServeDaemon` | a restart after a crash brings back the model of its closure, though another was loaded meanwhile (`manager.ts:479-485`) |
| `v_late_answer` | `DaemonSync` | an answer that lost a race against a queued load brings a revoked key back until the next telemetry (`manager.ts:210-212`) |
| `v_readded_machine` | `DaemonSync` | a machine deleted and added again may meet a version number it knows with other keys behind it (`manager.ts:210-212`) |
| `v_hf_skipped` | `HfIndex` | a repository whose first scan fails for a transient reason is passed by every marker (`hf-index.ts:1379` against `749-750`) |
| `v_ladder_undropped` | `MCProbeLadder` | no caller drops fractions (`RealLoadSection.tsx:56`), so where gate and up are fused the UP rung takes less memory than the one below it (`moePlacement.ts:15`) |

## 5. What is proved

Each theorem holds for every value of the constants that satisfies the named
assumption of its module (sizes are positive, `None` is no job, and so on). Most
follow one pattern: an invariant that is inductive, one lemma for each group of
`Next` or for each action, and a temporal step at the end.

**`JobQueueProofs`.** `TypeCorrect`: `Spec => [](TypeOK /\ Attached)`. `TypeOK`
alone is not inductive: a report names the run of the job being executed, so an
executing worker must have one (`Attached`). That `attempts` stays within
`MaxAttempts` rests on the reaper's test: a job at the limit is abandoned.
`LeaseIsWide`: `[]LeaseOutlivesWorker`. The invariant says that the lease of the
job being executed and the worker's silence together make at least `LeaseTicks`
while the worker counts as online (`Fresh`: a claim renews the lease alone, so
one whose response, or whose first heartbeat, is still to come has a full
lease), and that one long-poll at most can be answered (`OnePoll`).

It then proves, for all events, `Implements`
(`Spec => Lifecycle`, the refinement of `RunLifecycle`), `FinishedWhenClosed`,
`OutcomeKept`, `MeasuredKept` and `JobsEndOnce`. The argument has three stages.
Each group of `Next` is shown to do one of seven things to the rows (`RowStep`:
nothing, the trigger, the start of a run, `Reconcile`, `ReportFailure`,
`RecordTerminal`, a progress tick); each of the seven is a step of
`RunLifecycle` (`RowsPromised`), which is where the return on a finished run,
the guards of a tick and the once-only finalization matter; and every step of
`RunLifecycle` preserves `FinishedIffClosed` and the two properties about rows
(`LifecycleStep`). The invariant adds `Named`, that whatever carries a run
carries one that was triggered, without which a report could close an item of a
run that does not exist yet, and `Untouched`, that the items of such a run are
queued.

The invariants about the queue hold only where the divergences of section 4 do
not interfere, so their theorems assume the events in question away:

| Theorem | Property | Without | Because otherwise |
|---|---|---|---|
| `StopIsTheUsers` | `StoppedByUserIsAccurate` | `pause` | a pause that is ended after seven days reads "stopped by user" |
| `CompleteIsFinished` | `CompletedMeansFinished` | `outage` | a report that is given up leaves its item open |
| `NothingFresh` | `NoFreshJobForFinishedRun` | `unflushed` | a cancelled claim goes back to pending |
| `StopReachesItsRun` | `StopSparesOtherRuns` | `pause`, `outage`, `hang` | a stalled run is finished while its worker goes on, and a late report after a crash may then close an item as cancelled that nobody stopped |

They rest on `JobMove`, which says of every step what it does to a job's status
and who did it, and on `HeldInv`, which ties the worker to the job it holds:
a job is held once (`NotTwice`), only while the claim lives (`LiveClaim`), a
heartbeat speaks for the worker's own job (`BeatsOwn`), and a job the server
thinks is held is (`KeptHeld`, `StillHeld`). Above that each has an invariant of
its own: `Meant` (flags and cancellations were asked for by a user), `Visited`
(the items behind the worker's place are closed or on their way), `Orderly` (what acts on a run
acts for a job of it that was claimed before, and the install is claimed first), and `Spares`,
whose parts follow a stop from the column to the flag to the report.

**`HeartbeatTimerProofs`**: `TypeCorrect` with the pool's limit, `NeverSilent`
(`[]AlwaysDue`), `ProgressIsPrompt` (`[]FastLaneIsFast`); their conjunction is
inductive.

**`DownloadsProofs`**: `TypeCorrect`, with `Opened` (a streaming execution has
its file open); `NothingLostOnSuccess` (`[]CompletedIsRegistered`), with `Known`
(an execution is verified only once the catalog has its file); `PartialsAreKept`
(`OnlyCancelDeletes`), with `Meant`: what the worker holds as discarded, or a
heartbeat tells it to discard, was asked for by a user. Three more hold for any
number of slots, jobs and chunks and with every event:

* `HeldToTheEnd` (`[]DownloadsAreHeld`). The invariant adds `Fresh`: a job is handed out
  under a count of expiries it was not handed out under before, so what an
  execution lets go of when it ends is its own or that of a repeat of its job.
* `LimitIsKept` (`[]PoolHoldsLimit`). Every execution under way has a slot to itself or
  is a repeat (`SlotOrRepeat`, from the former), and the keys of the pool, with the
  polls that may still be answered, are no more than the slots (`Room`).
* `TargetIsPutTogether` (`[]TargetIsRight`). `Apart` says that a transfer which shares its
  file with no other is the only one that has it open, `InOrder` that the bytes in
  such a file are a beginning of the whole, as far as the transfer has come.

**`MachineIdentityProofs`**: `RevokedMachinesStayOut`, `MachineHasOneSession`,
`WorkerPresentsCurrent` and `OwnersRevoke` (`OnlyOwnerRevokes`). The invariant
ties the worker's tokens to the server's hashes through every message in
between: a row with an owner and a key has been approved since trust was last revoked
(`Trust`), one caller at a time is renewing a session or enrolling (`Alone`),
the row of a code that a caller holds has no session yet (`HeldIsUntried`), and
what a caller asks for comes from what it has, what it is given from nothing
older (`CallsAreSound`).

**`ServeDaemonProofs`**: `TestsHaveTheGpu` (`[]GpuIsFree`), `OneModelInMemory`
(`[]OneModel`) and `DrainedBeforeKilled` (`[]KillsIdle`). The invariant (`Typed`,
`Where`, `Named`, `Queue`, `Requests`) says, for each place the holder of the lock can
be at, which process there is and what the fields of `DaemonManager` say of it,
and that a test runs only when its suspend has been through the lock.
`ModelIsAccounted` (`[]Accounted`) needs more, since a model can be forgotten long
before it is missed. `Owing` says who answers for the model that is owed at each
step of the holder (`WhoHasIt`), that no restart waits which would put another
model in its place (`RestartsAgree`), that a start works on its own process
(`StartsItsOwn`), that a job stands behind everything but the restart of a crash
that left nothing in service (`JobIsLast`), and that a load or an unload has
dropped the claim by the time it acts (`Dropped`).

**`DaemonSyncProofs`**: `EveryRowIsAccounted` (`[]NothingLost`), from `Rows` (a
usage row is recorded, in the spool, on disk, in a request, dropped or lost),
`AckedIsKept` (what is acknowledged is recorded, or was and went with its
machine) and `Accounted`; `ListenerFollowsAlways` (`[]ListenerFollows`), from what the
queue of listener changes has still to do. `OpenNeedsKeys`, not listed since the
server's own check is all it needs, says that neither side ever stores an open
endpoint without a key.

**`LadderProofs`** proves the invariants of `ProbeLadder` for every grid of
contexts and layers, every machine, seed and plan, and whatever goes wrong:

| Theorem | Property | Argument |
|---|---|---|
| `LoadsEnd` | `AtMostTwice` | each of the four modes asks only for a rung that was not loaded, or for the second load of a clean one |
| `AnswersAreSeen` | `CleanIsSeen` | what the bracket between the best clean rung and the limit has left when the search there is settled |
| `EndIsSettled` | `EndsSettled` | an outcome without a next load is one of those in which the walk over the stops came to its end |
| `FitsAreRight` | `FitIsRight` | `ClaimsHold`: what a load says of a rung agrees with the machine, so the bracket of target 2 always encloses the truth, from whatever seed it starts |
| `ClaimsSuffice` | `ClaimOnlySuffices` | `OutOfReach`: at the stop below, three loaded rungs stand between what is clean and the flagged rung, and no search made later passes them |

The walk is a recursive function over the stops, so the first step is that it is
defined: least elements of sets of naturals (`WFMin`, from the well-foundedness of
`<`) serve where an induction would, and the same gives `MinOf`, `Below` and the
ends of the brackets. `FitsAreRight` and `ClaimsSuffice` assume `0 \notin Cap`. The plan's
cap is meant as a bound of what is loaded, but the anchor is loaded whatever the
cap and has one layer: with a cap of 0 it is a fit above the cap, the search then
drops its own misses and both properties fail. The server accepts a cap of 0
(`tests.ts:121`); no client of the repository sends one. `EndIsSettled`,
`AnswersAreSeen` and `LoadsEnd` need no such condition.

`RoundTrips` is about `Placement`: for every number of blocks, every set of MoE
blocks and every rung of the ladder, the rung read back from the arguments is the
rung (`DenseRoundTrip`, `ExpertRoundTrip`). `AllRoundTrip` is the property the
hand-run `placement.cfg` checks.

**`HubProofs`** is about what the server asks of Hugging Face. `QuotaIsKept`
(`[]QuotaKept`): the sliding window never holds more than the limit, and whatever
the hub has counted since its own window began, with what is on its way to it, was
admitted within that time (`Covered`); since both windows are of the same length
the hub counts no more than the limit. `admitted` is kept as a cumulative count,
so that no sum has to be taken.

`NothingIsSkipped` (`[]NothingSkipped`) has `Seeded` as its condition: the catalogue
is not empty, no scan is given up and no fault comes before the first sweep has
seeded the bookmark; with either fault repositories are skipped (`v_hf_skipped`).
`NothingSkipped` is far from inductive. A tick defers its markers, and a crash may
let some of them through, so the invariant speaks of every value a marker may be
left with (`Left`). A repository the index lags behind is about to be scanned or
comes, whichever of those values the markers take, behind the position of the
walk, above the bookmark of the newest, or above that of the last modified and
either behind where their sweep resumes or no older than the newest of the burst
so far (`Kept`); and it is so by the markers on disk alone (`OnDisk`). The bookmark
has to be at most the latest time in the catalogue (`Bounded`), or a later change
could fall below it; in the first tick, before there is a bookmark, everything is
kept; and what a scan has read is still what is there, unless a change since is
above the bookmark (`FetchInv`). Stale rows are excused of a repository that was itself verified
on demand, of no other. The sweeps are reduced to one lemma (`SweepIs`): what a
listing cut off at a position left out comes after that position.

Only model-checked: the liveness properties, since fairness and `ENABLED` are out of
TLAPS's reach; `LadderGrows` of `Placement`, a sum over a set of tensors; the cases
the conditions above exclude, as far as they hold; and the divergences.

## 6. Not modelled

The model is of the program's control. Most of the repository is not control:
the browser clients are more than a third of it, and the numerics, the parsers,
the read routes, the schema and the types much of the rest. What the map leaves
out is that, and:

* The optimize chain and comparisons, sweep expansion, thread plan and hashing:
  pure functions of stored rows, without state or concurrency of their own.
* Estimators and scoring: floating-point numerics. GGUF parsing: the layout of one
  buffer. Validation: one request at a time.
* Measurement drivers, sensors, installers: child processes and files; what
  they come to is the nondeterministic outcome of `FinishItem`,
  `FinishInstall` and of a load in `ProbeLadder` and `ServeDaemon`.
* Accounts and login, read routes, migration, scripts and deployment: no
  concurrency of their own, or outside the program.
* The ingest budgets (`ingest-budget.ts`): one counter per worker and hour, whose
  refusal appears as `OverBudget` in `DaemonSync`.
* In `JobQueue`: the trigger's validation and active-run cap, pruning of old
  rows, a server restart (all its state but open connections is in SQLite; a
  restart is an outage to the worker), database errors inside a sweep step.
* In `Downloads`: the one retry after a 429, refreshing and deleting model
  files, and files other than the one: the pool is all they share.
* What the other modules leave out is said with each in section 3.

Four hazards of the list have no property in a passing run, because the code has
them: a heartbeat applied after a claim it precedes (`queue.ts:270`,
`v_busy_reads_idle`), a pause that takes the status of a requeued run for that of the
machine (`tests.ts:1687`, `v_pause_other_run`), a pause that is ended after seven days
and reads as a user's stop (`reaper.ts:164`, `v_long_pause_note`), and a queued
download whose pause keeps it pending for ever (`workers.ts:367`, `v_pause_queued`).
Of three more, a property covers a part and the code has the rest: the heartbeat
does not stop, but more than one loop may run it (`worker/src/index.ts:5575`,
`v_heartbeat_loops`); a download keeps what the worker holds of it, but a job handed
out again exceeds the slots (`5586`, `v_pool_exceeded`); a file that one transfer at
a time wrote is right, but two transfers may write at once (`3794`,
`v_resume_overlaps`).

The tensors of `Placement` (`BlockTensors`, `OnCpu`, `Size`) serve only the hand-run
`placement.cfg`, which checks what `ProbeLadder` assumes of the machine.
