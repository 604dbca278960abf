----------------------------- MODULE ServeDaemon -----------------------------
(***************************************************************************)
(* The worker's served model: one llama-server process behind a gateway,   *)
(* loaded and unloaded by jobs, taken out of service while a test needs    *)
(* the GPU, restarted when it crashes and brought back when the queue has  *)
(* run dry (worker/src/daemon/manager.ts, gateway.ts, workerMain).         *)
(* Everything that starts or stops the process waits for one lock, a       *)
(* promise chain: here the sequence lock, whose head runs.                 *)
(***************************************************************************)
EXTENDS Integers, Sequences, FiniteSets

CONSTANTS
    Spec,         \* models a load may name, with their settings
    Request,      \* inference requests that may be open at once
    MaxRestarts,  \* MAX_CRASH_RESTARTS
    MaxJobs,      \* bound on the jobs the queue hands out
    None,         \* null
    Event,        \* the faults of an instance
    MaxEvents     \* bound on their number

EventKind == {"crash", "bad load", "port taken", "stop", "hang", "restart"}
Proc == 1..2   \* one in service, one a SIGKILL has not removed yet

ASSUME SizesAssumption == MaxRestarts \in Nat /\ MaxJobs \in Nat /\ MaxEvents \in Nat
ASSUME NoneAssumption == None \notin Spec /\ None \notin Proc
ASSUME EventAssumption == Event \subseteq EventKind

VARIABLES
    (* DaemonManager *)
    phase,          \* what it reports
    running,        \* the process in service, or on its way there
    stopping,       \* one taken out of service whose requests still run
    crashWatch,     \* running.crashWatch
    suspendedSpec,  \* the model to bring back
    pendingRestore, \* once the queue is clear
    restarts,       \* crashes within the window
    lock,           \* who has, and who waits for, the lock
    held,           \* how far the head of lock has come
    (* the rest of the worker *)
    loop,           \* workerMain
    stop,           \* stopRequested
    lastSpec,       \* daemon-state.json: last_spec
    (* outside *)
    proc,           \* llama-server processes
    request,        \* requests in the gateway
    owed,           \* the model that was ready and nobody has taken away
    jobs, events    \* jobs handed out and faults so far

managerVars == <<phase, running, stopping, crashWatch, suspendedSpec, pendingRestore, restarts>>
vars == <<managerVars, lock, held, loop, stop, lastSpec, proc, request, owed, jobs, events>>

OptSpec == Spec \cup {None}
OptProc == Proc \cup {None}
JobKind == {"suspend", "load", "unload"}
Entry == [kind : JobKind \cup {"restore", "restart"}, spec : OptSpec,
          fresh : BOOLEAN]   \* no interrupt since its token was read
Held == [step : {"waiting", "draining", "killing", "preparing", "probing",
                 "answered", "reading", "cleaning"},
         spec : OptSpec, proc : OptProc, retried : BOOLEAN,
         why : {"none", "cancelled", "failed", "bind"}]
Process == [spec : OptSpec, life : {"gone", "loading", "up", "killed"}]
Gone == [spec |-> None, life |-> "gone"]

TypeOK ==
    /\ phase \in {"idle", "loading", "ready", "stopping", "suspended", "failed", "crashed"}
    /\ running \in OptProc /\ stopping \in OptProc /\ crashWatch \in BOOLEAN
    /\ suspendedSpec \in OptSpec /\ pendingRestore \in BOOLEAN
    /\ restarts \in 0..MaxRestarts
    /\ lock \in Seq(Entry) /\ held \in Held
    /\ loop \in {"polling", "waiting", "testing"} /\ stop \in BOOLEAN
    /\ lastSpec \in OptSpec /\ owed \in OptSpec
    /\ proc \in [Proc -> Process]
    /\ request \in [Request -> [state : {"none", "reading", "active"}, proc : OptProc]]
    /\ jobs \in 0..MaxJobs /\ events \in 0..MaxEvents

Rationed(e) == e \in Event /\ events < MaxEvents /\ events' = events + 1

Alive(p) == proc[p].life # "gone"
Doing(step, s, p, again, why) ==
    [step |-> step, spec |-> s, proc |-> p, retried |-> again, why |-> why]
Idle == Doing("waiting", None, None, FALSE, "none")
At(step) == lock # <<>> /\ held.step = step
(* The next in line starts before anything else happens: only promise jobs *)
(* run in between.                                                         *)
Quiet == ~At("waiting")
Background == Head(lock).kind \in {"restore", "restart"}
Upstream == IF phase = "ready" THEN running ELSE None

-----------------------------------------------------------------------------
(* workerMain *)

(* The queue ran dry, or cannot be reached: restoreIfPending. *)
PollEmpty ==
    /\ Quiet
    /\ loop = "polling" /\ pendingRestore
    /\ \A i \in DOMAIN lock : lock[i].kind # "restore"
    /\ lock' = Append(lock, [kind |-> "restore", spec |-> None, fresh |-> TRUE])
    /\ UNCHANGED <<managerVars, held, loop, stop, lastSpec, proc, request, owed, jobs, events>>

(* A job that decides about the model: this.interrupts++, then the lock. *)
PollJob(kind, s) ==
    /\ Quiet
    /\ loop = "polling" /\ jobs < MaxJobs
    /\ loop' = "waiting" /\ jobs' = jobs + 1 /\ stop' = FALSE
    /\ lock' = Append([i \in DOMAIN lock |-> [lock[i] EXCEPT !.fresh = FALSE]],
                      [kind |-> kind, spec |-> s, fresh |-> TRUE])
    /\ UNCHANGED <<managerVars, held, lastSpec, proc, request, owed, events>>

TestEnds ==
    /\ Quiet
    /\ loop = "testing"
    /\ loop' = "polling"
    /\ UNCHANGED <<managerVars, lock, held, stop, lastSpec, proc, request, owed, jobs, events>>

(* requestStop during a load: SIGKILL to activeBenchProc, if it has spawned. *)
RequestStop ==
    /\ Quiet
    /\ loop = "waiting" /\ ~stop
    /\ \E i \in DOMAIN lock : lock[i].kind = "load"
    /\ Rationed("stop")
    /\ stop' = TRUE
    /\ proc' = IF Head(lock).kind = "load" /\ held.proc # None /\ Alive(held.proc)
               THEN [proc EXCEPT ![held.proc].life = "killed"] ELSE proc
    /\ UNCHANGED <<managerVars, lock, held, loop, lastSpec, request, owed, jobs>>

-----------------------------------------------------------------------------
(* Whoever holds the lock. *)

Release ==
    /\ lock' = Tail(lock) /\ held' = Idle
    /\ loop' = IF Background THEN loop
               ELSE IF Head(lock).kind = "suspend" THEN "testing" ELSE "polling"

Keep == UNCHANGED <<lock, loop>>

(* stopRunning, up to its first await *)
StopRunning(newPhase) ==
    /\ phase' = newPhase
    /\ stopping' = running /\ running' = None /\ crashWatch' = FALSE
    /\ held' = Doing("draining", None, None, FALSE, "none")
    /\ Keep

(* The rest of load, once the old model has gone. *)
LoadNext(s) ==
    /\ suspendedSpec' = None /\ pendingRestore' = FALSE /\ restarts' = 0
    /\ lastSpec' = s /\ owed' = None
    /\ phase' = "loading"
    /\ held' = Doing("preparing", s, None, FALSE, "none")
    /\ Keep

Forget ==   \* unload, up to its stopRunning
    /\ suspendedSpec' = None /\ pendingRestore' = FALSE /\ restarts' = 0
    /\ lastSpec' = None /\ owed' = None

Note(s) == suspendedSpec' = s /\ UNCHANGED pendingRestore   \* slip: not due
Owe(s) == suspendedSpec' = s /\ pendingRestore' = TRUE

StartSuspend ==
    /\ At("waiting") /\ Head(lock).kind = "suspend"
    /\ LET s == IF running # None THEN proc[running].spec ELSE suspendedSpec
       IN  IF s = None
           THEN /\ Release
                /\ UNCHANGED managerVars
           ELSE /\ Owe(s)
                /\ IF running = None
                   THEN /\ phase' = "suspended" /\ Release
                        /\ UNCHANGED <<running, stopping, crashWatch>>
                   ELSE StopRunning("suspended")
                /\ UNCHANGED restarts
    /\ UNCHANGED <<stop, lastSpec, proc, request, owed, jobs, events>>

StartLoad ==
    /\ At("waiting") /\ Head(lock).kind = "load"
    /\ IF running = None
       THEN /\ LoadNext(Head(lock).spec)
            /\ UNCHANGED <<running, stopping, crashWatch>>
       ELSE /\ StopRunning("stopping")
            /\ owed' = None
            /\ UNCHANGED <<suspendedSpec, pendingRestore, restarts, lastSpec>>
    /\ UNCHANGED <<stop, proc, request, jobs, events>>

StartUnload ==
    /\ At("waiting") /\ Head(lock).kind = "unload"
    /\ Forget
    /\ IF running = None
       THEN /\ phase' = "idle" /\ Release
            /\ UNCHANGED <<running, stopping, crashWatch>>
       ELSE StopRunning("stopping")
    /\ UNCHANGED <<stop, proc, request, jobs, events>>

(* startInBackground gets as far as findFreePort. *)
StartBackground(s) ==
    /\ phase' = "loading"
    /\ held' = Doing("preparing", s, None, FALSE, "none")
    /\ Keep

StartRestore ==
    /\ At("waiting") /\ Head(lock).kind = "restore"
    /\ IF ~Head(lock).fresh
       THEN Release /\ UNCHANGED <<phase, suspendedSpec, pendingRestore>>
       ELSE /\ pendingRestore' = FALSE /\ suspendedSpec' = None
            /\ IF suspendedSpec = None \/ running # None
               THEN Release /\ UNCHANGED phase
               ELSE StartBackground(suspendedSpec)
    /\ UNCHANGED <<running, stopping, crashWatch, restarts, stop, lastSpec, proc,
                   request, owed, jobs, events>>

StillNeeded(e) == running = None   \* slip: only that nothing runs
StillCrashed(e) == running = None /\ phase = "crashed" /\ e.fresh
StartRestart ==
    /\ At("waiting") /\ Head(lock).kind = "restart"
    /\ IF StillCrashed(Head(lock))
       THEN suspendedSpec' = None /\ StartBackground(Head(lock).spec)
       ELSE Release /\ UNCHANGED <<phase, suspendedSpec>>
    /\ UNCHANGED <<running, stopping, crashWatch, pendingRestore, restarts, stop,
                   lastSpec, proc, request, owed, jobs, events>>

(* drain: the last request ended, or DRAIN_MS passed and the rest are cut. *)
Active == {q \in Request : request[q].state = "active"}
NoRequest == [state |-> "none", proc |-> None]
Drained ==
    /\ At("draining")
    /\ Active # {} => Rationed("hang")
    /\ Active = {} => UNCHANGED events
    /\ request' = [q \in Request |-> IF q \in Active THEN NoRequest ELSE request[q]]
    /\ held' = Doing("killing", None, None, FALSE, "none")
    /\ Keep
    /\ UNCHANGED <<managerVars, stop, lastSpec, proc, owed, jobs>>

(* kill: SIGTERM, and after STOP_GRACE_MS a SIGKILL nobody waits for. *)
Signal(p) == UNCHANGED <<proc, events>>   \* slip: not waited for

Kill(p) ==
    \/ proc' = [proc EXCEPT ![p] = Gone] /\ UNCHANGED events
    \/ Alive(p) /\ Rationed("hang") /\ proc' = [proc EXCEPT ![p].life = "killed"]

Stopped ==
    /\ At("killing")
    /\ Kill(stopping) /\ stopping' = None
    /\ CASE Head(lock).kind = "suspend" ->
              Release /\ UNCHANGED <<phase, suspendedSpec, pendingRestore, restarts, lastSpec, owed>>
         [] Head(lock).kind = "unload" ->
              /\ phase' = "idle" /\ Release
              /\ UNCHANGED <<suspendedSpec, pendingRestore, restarts, lastSpec, owed>>
         [] Head(lock).kind = "load" -> LoadNext(Head(lock).spec)
    /\ UNCHANGED <<running, crashWatch, stop, request, jobs>>

ThrownOut(why) ==   \* slip: interrupted is failed
    /\ phase' = IF why = "cancelled" THEN "idle" ELSE "failed"
    /\ UNCHANGED <<owed, suspendedSpec, pendingRestore>>
    /\ Release

(* The end of a start that threw: startInBackground, or the job's failure. *)
Thrown(why) ==
    /\ phase' = IF why = "cancelled" THEN "idle" ELSE "failed"
    /\ IF Background /\ why = "cancelled"
       THEN Owe(held.spec) /\ UNCHANGED owed
       ELSE owed' = None /\ UNCHANGED <<suspendedSpec, pendingRestore>>
    /\ Release

(* buildArgs refuses: the model is not here, the build lacks a setting. *)
NotPrepared ==
    /\ At("preparing")
    /\ Rationed("bad load")
    /\ Thrown("failed")
    /\ UNCHANGED <<running, stopping, crashWatch, restarts, stop, lastSpec, proc, request, jobs>>

Spawn ==
    /\ At("preparing")
    /\ \E p \in Proc :
          /\ ~Alive(p) /\ \A q \in 1..(p - 1) : Alive(q)
          /\ proc' = [proc EXCEPT ![p] = [spec |-> held.spec, life |-> "loading"]]
          /\ running' = p /\ crashWatch' = FALSE
          /\ held' = Doing("probing", held.spec, p, held.retried, "none")
    /\ Keep
    /\ UNCHANGED <<phase, stopping, suspendedSpec, pendingRestore, restarts, stop,
                   lastSpec, request, owed, jobs, events>>

(* waitReady: cancelled, exited, timed out, or /health has answered. *)
Cancelled == (Head(lock).kind = "load" /\ stop) \/ (Background /\ ~Head(lock).fresh)
NotReady ==
    /\ At("probing")
    /\ \E why \in {"cancelled", "failed", "bind"} :
          /\ CASE why = "cancelled" -> Cancelled /\ UNCHANGED events
               [] why = "failed" -> /\ ~Cancelled
                                    /\ \/ ~Alive(held.proc) /\ UNCHANGED events
                                       \/ Alive(held.proc) /\ Rationed("hang")
               [] why = "bind" -> ~Cancelled /\ Alive(held.proc) /\ Rationed("port taken")
          /\ held' = Doing("cleaning", held.spec, held.proc, held.retried, why)
    /\ running' = None
    /\ Keep
    /\ UNCHANGED <<phase, stopping, crashWatch, suspendedSpec, pendingRestore, restarts,
                   stop, lastSpec, proc, request, owed, jobs>>

Answered ==
    /\ At("probing") /\ ~Cancelled
    /\ proc[held.proc].life = "up"
    /\ held' = [held EXCEPT !.step = "answered"]
    /\ Keep
    /\ UNCHANGED <<managerVars, stop, lastSpec, proc, request, owed, jobs, events>>

Watch ==   \* waitReady returns; an exit in between went unnoticed
    /\ At("answered")
    /\ crashWatch' = TRUE
    /\ held' = [held EXCEPT !.step = "reading"]
    /\ Keep
    /\ UNCHANGED <<phase, running, stopping, suspendedSpec, pendingRestore, restarts,
                   stop, lastSpec, proc, request, owed, jobs, events>>

(* After refreshProps. *)
Ready ==
    /\ At("reading")
    /\ IF running = held.proc
       THEN phase' = "ready" /\ owed' = held.spec
       ELSE UNCHANGED <<phase, owed>>
    /\ Release
    /\ UNCHANGED <<running, stopping, crashWatch, suspendedSpec, pendingRestore, restarts,
                   stop, lastSpec, proc, request, jobs, events>>

Cleaned ==
    /\ At("cleaning")
    /\ Kill(held.proc)
    /\ IF held.why = "bind" /\ ~held.retried
       THEN /\ held' = Doing("preparing", held.spec, None, TRUE, "none")
            /\ Keep
            /\ UNCHANGED <<phase, suspendedSpec, pendingRestore, owed>>
       ELSE Thrown(held.why)
    /\ UNCHANGED <<running, stopping, crashWatch, restarts, stop, lastSpec, request, jobs>>

-----------------------------------------------------------------------------
(* llama-server *)

Loaded(p) ==
    /\ Quiet
    /\ proc[p].life = "loading"
    /\ proc' = [proc EXCEPT ![p].life = "up"]
    /\ UNCHANGED <<managerVars, lock, held, loop, stop, lastSpec, request, owed, jobs, events>>

LeftDown == restarts >= MaxRestarts

(* onExit: a crash, or a SIGKILL that has done its work. *)
Exit(p) ==
    /\ Quiet
    /\ \/ proc[p].life = "killed" /\ UNCHANGED events
       \/ proc[p].life \in {"loading", "up"} /\ Rationed("crash")
    /\ proc' = [proc EXCEPT ![p] = IF running = p /\ ~crashWatch
                                   THEN [@ EXCEPT !.life = "gone"] ELSE Gone]
    /\ IF running = p /\ crashWatch
       THEN /\ running' = None /\ crashWatch' = FALSE /\ phase' = "crashed"
            /\ IF LeftDown
               THEN owed' = None /\ UNCHANGED <<restarts, suspendedSpec, lock>>
               ELSE /\ restarts' = restarts + 1
                    /\ suspendedSpec' = proc[p].spec
                    /\ lock' = Append(lock, [kind |-> "restart", spec |-> proc[p].spec,
                                             fresh |-> TRUE])
                    /\ UNCHANGED owed
       ELSE UNCHANGED <<running, crashWatch, phase, owed, restarts, suspendedSpec, lock>>
    /\ UNCHANGED <<stopping, pendingRestore, held, loop, stop, lastSpec, request, jobs>>

WindowPasses ==   \* CRASH_WINDOW_MS
    /\ Quiet
    /\ restarts > 0
    /\ restarts' = 0
    /\ UNCHANGED <<phase, running, stopping, crashWatch, suspendedSpec, pendingRestore,
                   lock, held, loop, stop, lastSpec, proc, request, owed, jobs, events>>

-----------------------------------------------------------------------------
(* The gateway *)

Arrive(q) ==
    /\ Quiet
    /\ request[q].state = "none" /\ Upstream # None
    /\ request' = [request EXCEPT ![q] = [state |-> "reading", proc |-> Upstream]]
    /\ UNCHANGED <<managerVars, lock, held, loop, stop, lastSpec, proc, owed, jobs, events>>

(* The body has arrived: forwarded if its model is still the one in service. *)
AnyUpstream(q) == TRUE   \* slip: not asked a second time
SameUpstream(q) == Upstream = request[q].proc
Forward(q) ==
    /\ Quiet
    /\ request[q].state = "reading"
    /\ request' = [request EXCEPT ![q] =
                      IF SameUpstream(q) THEN [@ EXCEPT !.state = "active"] ELSE NoRequest]
    /\ UNCHANGED <<managerVars, lock, held, loop, stop, lastSpec, proc, owed, jobs, events>>

(* Answered, given up by its client, or broken off with its process. *)
Finish(q) ==
    /\ Quiet
    /\ request[q].state = "active"
    /\ request' = [request EXCEPT ![q] = NoRequest]
    /\ UNCHANGED <<managerVars, lock, held, loop, stop, lastSpec, proc, owed, jobs, events>>

-----------------------------------------------------------------------------
(* Boot: leftover processes are ended, and with autostart the last model is *)
(* owed from the start.                                                     *)
Boot(s) ==
    /\ phase' = IF s = None THEN "idle" ELSE "suspended"
    /\ running' = None /\ stopping' = None /\ crashWatch' = FALSE
    /\ suspendedSpec' = s /\ pendingRestore' = (s # None) /\ restarts' = 0
    /\ lock' = <<>> /\ held' = Idle
    /\ loop' = "polling" /\ stop' = FALSE
    /\ proc' = [p \in Proc |-> Gone]
    /\ request' = [q \in Request |-> NoRequest]
    /\ owed' = s

Restart ==
    /\ Quiet
    /\ Rationed("restart")
    /\ \E s \in {None, lastSpec} : Boot(s)
    /\ UNCHANGED <<lastSpec, jobs>>

Init ==
    /\ phase = "idle" /\ running = None /\ stopping = None /\ crashWatch = FALSE
    /\ suspendedSpec = None /\ pendingRestore = FALSE /\ restarts = 0
    /\ lock = <<>> /\ held = Idle /\ loop = "polling" /\ stop = FALSE
    /\ lastSpec = None /\ owed = None
    /\ proc = [p \in Proc |-> Gone]
    /\ request = [q \in Request |-> NoRequest]
    /\ jobs = 0 /\ events = 0

Loop ==
    \/ PollEmpty \/ TestEnds \/ RequestStop
    \/ PollJob("suspend", None) \/ PollJob("unload", None)
    \/ \E s \in Spec : PollJob("load", s)

Holder ==
    \/ StartSuspend \/ StartLoad \/ StartUnload \/ StartRestore \/ StartRestart
    \/ Drained \/ Stopped
    \/ NotPrepared \/ Spawn \/ NotReady \/ Answered \/ Watch \/ Ready \/ Cleaned

Server == WindowPasses \/ \E p \in Proc : Loaded(p) \/ Exit(p)
Gateway == \E q \in Request : Arrive(q) \/ Forward(q) \/ Finish(q)

Next == Loop \/ Holder \/ Server \/ Gateway \/ Restart
DaemonSpec == Init /\ [][Next]_vars

(* The loop polls and works its jobs off, the manager goes on, a process    *)
(* that is not broken gets its model loaded, and a request ends.  Nobody    *)
(* owes a job, a stop, a fault or a request.                                *)
Fairness ==
    /\ WF_vars(PollEmpty) /\ WF_vars(TestEnds)
    /\ WF_vars(Holder)
    /\ \A p \in Proc : WF_vars(Loaded(p)) /\ WF_vars(proc[p].life = "killed" /\ Exit(p))
    /\ \A q \in Request : WF_vars(Forward(q)) /\ WF_vars(Finish(q))
FairDaemonSpec == DaemonSpec /\ Fairness

-----------------------------------------------------------------------------
(* A test has the GPU to itself: no start that was under way, no restart    *)
(* after a crash and no restore runs into it.  A process a SIGKILL is about *)
(* to remove is out of the worker's hands.                                  *)
GpuIsFree == loop = "testing" => \A p \in Proc : proc[p].life \in {"gone", "killed"}

(* Never two models in memory, whatever crashes, retries and restarts are   *)
(* under way.                                                               *)
OneModel == Cardinality({p \in Proc : proc[p].life \in {"loading", "up"}}) <= 1

(* A request is not cut off by an unload: once the process is being killed  *)
(* none is left in it, and none slips in after the drain.                   *)
KillsIdle == held.step = "killing" => \A q \in Active : request[q].proc # stopping

(* A model that was ready is never forgotten: it is in service, being       *)
(* taken out or brought back, or marked for it.                             *)
Accounted ==
    owed # None =>
        \/ running # None /\ proc[running].spec = owed
        \/ suspendedSpec = owed
        \/ lock # <<>> /\ held.spec = owed

(* What is in service is what was last asked for.  Not so: the restart of a *)
(* model that crashed may still wait behind the load of another, and if     *)
(* that one crashes while its /props are read, "crashed" is there again and *)
(* the old model is brought back in its stead (v_serves_last.cfg).          *)
ServesLast == phase = "ready" => running # None /\ proc[running].spec = lastSpec

(* ... and it comes back, however many tests, interrupted reloads and       *)
(* crashes come in between.                                                 *)
InService(s) == phase = "ready" /\ running # None /\ proc[running].spec = s
ComesBack == \A s \in Spec : (owed = s) ~> (InService(s) \/ owed # s)
=============================================================================
