------------------------------ MODULE DaemonSync ------------------------------
(***************************************************************************)
(* What the Serve page and a worker tell each other: the gateway's         *)
(* settings and its API keys, which the server versions                    *)
(* (server/src/db/daemonRepo.ts, routes/daemon.ts) and which reach the     *)
(* worker in the answers to its telemetry and inside queued loads          *)
(* (worker/src/index.ts, daemon/manager.ts), the gateway's listener        *)
(* (daemon/gateway.ts), and the usage rows the worker spools until the     *)
(* server has them (daemon/store.ts).  ServeDaemon models the processes    *)
(* behind it; here a model is loaded in one step.                          *)
(***************************************************************************)
EXTENDS Integers, Sequences, FiniteSets

CONSTANTS
    Key,         \* API keys
    Model,
    MaxSpooled,  \* MAX_SPOOLED_USAGE
    Batch,       \* MAX_USAGE_BATCH
    MaxRows,     \* bound: requests served
    MaxEdits,    \* bound: what the owner does
    None,
    Event,       \* what may happen in an instance ...
    MaxEvents    \* ... and how often

ASSUME SizesAssumption ==
    /\ MaxSpooled \in Nat \ {0} /\ Batch \in Nat \ {0}
    /\ MaxRows \in Nat /\ MaxEdits \in Nat /\ MaxEvents \in Nat
ASSUME EventAssumption ==
    Event \subseteq {"timeout", "crash", "over budget", "port taken", "old load", "re-added"}

Host == {"loopback", "open"}
Row == 1..MaxRows
Version == 0..MaxEdits
OptModel == Model \cup {None}
Config == [version : Version, host : Host, keys : SUBSET Key, model : OptModel]
ASSUME NoneAssumption ==
    /\ None \notin Model
    /\ None \notin [version : Nat, host : Host, keys : SUBSET Key, model : OptModel]
OptConfig == Config \cup {None}
Job == [kind : {"load", "unload"}, config : OptConfig, model : OptModel,
        cancelled : BOOLEAN, applied : BOOLEAN]
Spool == [rows : SUBSET Row, dropped : Nat]  \* rows age in the order of their numbers
Request == [version : Version, model : OptModel, loaded : OptModel, batch : SUBSET Row]
Answer == [acked : SUBSET Row, config : OptConfig]

VARIABLES
    version,   \* daemon_config.version, 0 without a row
    host,      \* its gateway_json
    keys,      \* daemon_api_keys not revoked
    revoked,   \* ... and those that were, or whose machine was deleted
    readded,   \* this machine was deleted and approved again
    pending,   \* worker_jobs: daemon jobs pending, the oldest first
    recorded,  \* daemon_usage
    forgotten, \* history: usage rows deleted with their machine
    job,       \* the daemon job this worker claimed
    config,    \* DaemonStore's config, in memory and on disk alike
    loaded,    \* the model that serves
    spool,     \* DaemonStore's usage and usage_dropped
    disk,      \* ... as last written
    telemetry, \* daemonTelemetryLoop: waiting for its timer, an answer, a bind
    request,   \* the call in flight
    stray,     \* a call its sender gave up
    answer,
    settings,  \* DaemonGateway.settings, its host
    listener,  \* the address it listens on
    applying,  \* listenerQueue: the hosts still to apply
    binding,   \* the first of them waits for its listen
    made,      \* usage rows made so far
    fresh,     \* rows made since the last write to disk
    lost,      \* rows a crash took before they were ever written
    edits, events

serverVars == <<version, host, keys, revoked, readded, pending, recorded, forgotten>>
gatewayVars == <<settings, listener, applying, binding>>
spoolVars == <<spool, disk, made, fresh, lost>>
netVars == <<telemetry, request, stray, answer>>
vars == <<serverVars, job, config, loaded, spoolVars, netVars, gatewayVars, edits, events>>

TypeOK ==
    /\ version \in Version /\ host \in Host
    /\ keys \subseteq Key /\ revoked \subseteq Key /\ keys \cap revoked = {}
    /\ readded \in BOOLEAN
    /\ pending \in Seq(Job) /\ job \in Job \cup {None}
    /\ recorded \subseteq Row /\ forgotten \subseteq Row /\ fresh \subseteq Row /\ lost \subseteq Row
    /\ config \in OptConfig /\ loaded \in OptModel
    /\ spool \in Spool /\ disk \in Spool
    /\ telemetry \in {"timer", "answer", "bind"}
    /\ request \in Request \cup {None} /\ stray \in Request \cup {None}
    /\ answer \in Answer \cup {None}
    /\ settings \in Host \cup {None} /\ listener \in Host \cup {None}
    /\ applying \in Seq(Host) /\ binding \in BOOLEAN
    /\ made \in 0..MaxRows /\ edits \in 0..MaxEdits /\ events \in 0..MaxEvents

Edit == edits < MaxEdits /\ edits' = edits + 1
Rationed(e) == e \in Event /\ events < MaxEvents /\ events' = events + 1

-----------------------------------------------------------------------------
(* The server *)

BuildConfig(m) == [version |-> version, host |-> host, keys |-> keys, model |-> m]

(* Any change the worker must hear about goes through here. *)
OnlyInserts(h) ==   \* slip: a row that is there keeps its version
    version' = (IF version = 0 THEN 1 ELSE version) /\ host' = h
BumpConfig(h) == version' = version + 1 /\ host' = h

PutGateway(h) ==
    /\ Edit
    /\ h = "open" => keys # {}
    /\ BumpConfig(h)
    /\ UNCHANGED <<keys, revoked, readded, pending, recorded, forgotten, job, config, loaded, spoolVars, netVars, gatewayVars, events>>

CreateKey(k) ==
    /\ Edit
    /\ k \notin keys \cup revoked
    /\ keys' = keys \cup {k}
    /\ BumpConfig(host)
    /\ UNCHANGED <<revoked, readded, pending, recorded, forgotten, job, config, loaded, spoolVars, netVars, gatewayVars, events>>

(* The last key of an open endpoint takes the endpoint back to this machine. *)
RevokeKey(k) ==
    /\ Edit
    /\ k \in keys
    /\ keys' = keys \ {k} /\ revoked' = revoked \cup {k}
    /\ BumpConfig(IF keys' = {} THEN "loopback" ELSE host)
    /\ UNCHANGED <<readded, pending, recorded, forgotten, job, config, loaded, spoolVars, netVars, gatewayVars, events>>

(* What it sets is data; the worker must hear of it all the same. *)
PutSampling ==
    /\ Edit
    /\ version > 0
    /\ BumpConfig(host)
    /\ UNCHANGED <<keys, revoked, readded, pending, recorded, forgotten, job, config, loaded, spoolVars, netVars, gatewayVars, events>>

(* Load and unload are last-wins: what is pending goes, a load that is      *)
(* running is asked to stop.                                                *)
Supersede ==
    job' = IF job # None /\ job.kind = "load" THEN [job EXCEPT !.cancelled = TRUE] ELSE job

Enqueued(kind, c, m) ==
    <<[kind |-> kind, config |-> c, model |-> m, cancelled |-> FALSE, applied |-> FALSE]>>

AskLoad(m) ==
    /\ Edit
    /\ IF version = 0 THEN BumpConfig("loopback") ELSE UNCHANGED <<version, host>>
    /\ Supersede
    /\ UNCHANGED keys
    /\ pending' = Enqueued("load", BuildConfig(m)', m)
    /\ UNCHANGED <<revoked, readded, recorded, forgotten, config, loaded, spoolVars, netVars, gatewayVars, events>>

AskUnload ==
    /\ Edit
    /\ Supersede
    /\ pending' = Enqueued("unload", None, None)
    /\ UNCHANGED <<version, host, keys, revoked, readded, recorded, forgotten, config, loaded, spoolVars, netVars, gatewayVars, events>>

(* DELETE /api/workers/:id takes every row of the machine with it, its usage *)
(* and its jobs among them: one the worker still executes is nobody's to    *)
(* claim again.  (A machine whose heartbeat says it is busy is refused, but  *)
(* it may claim before the next one.)  Approved again, it starts from none. *)
ReAdd ==
    /\ Rationed("re-added")
    /\ job' = IF job = None THEN None ELSE [job EXCEPT !.cancelled = TRUE]
    /\ forgotten' = forgotten \cup recorded /\ recorded' = {}
    /\ version' = 0 /\ host' = "loopback" /\ pending' = <<>>
    /\ revoked' = revoked \cup keys /\ keys' = {} /\ readded' = TRUE
    /\ UNCHANGED <<config, loaded, spoolVars, netVars, gatewayVars, edits>>

(* POST /api/worker/daemon/telemetry.  A row is recorded once, by its id;   *)
(* over the hourly budget none is, and none acknowledged.                   *)
Behind(r) == version > 0 /\ (r.version # version \/ (r.loaded # None /\ r.model # r.loaded))
Answers(r, acked) ==
    [acked |-> acked, config |-> IF Behind(r) THEN BuildConfig(r.loaded) ELSE None]

Handle ==
    /\ request # None
    /\ recorded' = recorded \cup request.batch
    /\ answer' = Answers(request, request.batch)
    /\ request' = None
    /\ UNCHANGED <<version, host, keys, revoked, readded, pending, forgotten, job, config, loaded, spoolVars, telemetry, stray, gatewayVars, edits, events>>

OverBudget ==
    /\ Rationed("over budget")
    /\ request # None /\ request.batch # {}
    /\ answer' = Answers(request, {})
    /\ request' = None
    /\ UNCHANGED <<serverVars, job, config, loaded, spoolVars, telemetry, stray, gatewayVars, edits>>

HandleStray ==
    /\ stray # None
    /\ recorded' = recorded \cup stray.batch
    /\ stray' = None
    /\ UNCHANGED <<version, host, keys, revoked, readded, pending, forgotten, job, config, loaded, spoolVars, telemetry, request, answer, gatewayVars, edits, events>>

-----------------------------------------------------------------------------
(* DaemonStore *)

Oldest(rows) == CHOOSE r \in rows : \A s \in rows : r <= s
Full == Cardinality(spool.rows) >= MaxSpooled

(* addUsage: full, the oldest row makes room and is counted. *)
Uncounted(row) ==   \* slip: the oldest goes unnoticed
    [spool EXCEPT !.rows = (IF Full THEN @ \ {Oldest(@)} ELSE @) \cup {row}]
Spooled(row) ==
    [rows |-> (IF Full THEN spool.rows \ {Oldest(spool.rows)} ELSE spool.rows) \cup {row},
     dropped |-> spool.dropped + (IF Full THEN 1 ELSE 0)]

UsageBatch == {r \in spool.rows : Cardinality({s \in spool.rows : s < r}) < Batch}

Flush == disk' = spool' /\ fresh' = {}

Serve ==
    /\ loaded # None /\ made < MaxRows
    /\ made' = made + 1
    /\ spool' = Spooled(made') /\ fresh' = fresh \cup {made'}
    /\ UNCHANGED <<serverVars, job, config, loaded, disk, lost, netVars, gatewayVars, edits, events>>

-----------------------------------------------------------------------------
(* The worker's telemetry *)

SendTelemetry ==
    /\ telemetry = "timer"
    /\ request' = [version |-> IF config = None THEN 0 ELSE config.version,
                   model |-> IF config = None THEN None ELSE config.model,
                   loaded |-> loaded,
                   batch |-> UsageBatch]
    /\ telemetry' = "answer"
    /\ UNCHANGED <<serverVars, job, config, loaded, spoolVars, stray, answer, gatewayVars, edits, events>>

(* applyConfig: the store, on disk at once, then the listener's queue. *)
ApplyConfig(c) == config' = c /\ applying' = Append(applying, c.host)

Receive ==
    /\ answer # None
    /\ spool' = [spool EXCEPT !.rows = @ \ answer.acked]
    /\ Flush
    /\ answer' = None
    /\ IF answer.config # None
       THEN ApplyConfig(answer.config) /\ telemetry' = "bind"
       ELSE telemetry' = "timer" /\ UNCHANGED <<config, applying>>
    /\ UNCHANGED <<serverVars, job, loaded, made, lost, request, stray, settings, listener, binding, edits, events>>

Applied ==
    /\ telemetry = "bind" /\ applying = <<>>
    /\ telemetry' = "timer"
    /\ UNCHANGED <<serverVars, job, config, loaded, spoolVars, request, stray, answer, gatewayVars, edits, events>>

(* AbortSignal.timeout, a lost call or a lost answer: the rows stay, and    *)
(* the server may still handle the call.                                    *)
TimesOut ==
    /\ Rationed("timeout")
    /\ telemetry = "answer"
    /\ telemetry' = "timer"
    /\ stray' \in {stray, request} /\ request' = None /\ answer' = None
    /\ disk' = spool /\ fresh' = {}
    /\ UNCHANGED <<serverVars, job, config, loaded, spool, made, lost, gatewayVars, edits>>

-----------------------------------------------------------------------------
(* The worker's daemon jobs *)

Claim ==
    /\ job = None /\ pending # <<>>
    /\ job' = Head(pending) /\ pending' = Tail(pending)
    /\ UNCHANGED <<version, host, keys, revoked, readded, recorded, forgotten, config, loaded, spoolVars, netVars, gatewayVars, edits, events>>

SkipOld ==
    /\ Rationed("old load")
    /\ job # None /\ job.kind = "load" /\ ~job.applied
    /\ job' = None
    /\ UNCHANGED <<serverVars, config, loaded, spoolVars, netVars, gatewayVars, edits>>

(* A config that sat in a queue is not applied over a newer one. *)
IsNewer == config = None \/ job.config.version >= config.version

(* applyConfig, onlyIfNewer.  setConfig writes the spooled rows as well. *)
ApplyLoad ==
    /\ job # None /\ job.kind = "load" /\ ~job.applied
    /\ job' = [job EXCEPT !.applied = TRUE]
    /\ IF IsNewer
       THEN ApplyConfig(job.config) /\ disk' = spool /\ fresh' = {}
       ELSE applying' = Append(applying, config.host) /\ UNCHANGED <<config, disk, fresh>>
    /\ UNCHANGED <<serverVars, loaded, spool, made, lost, netVars, settings, listener, binding, edits, events>>

(* daemon.load stops what serves; the new model may fail, or the cancel that *)
(* travels on a heartbeat may reach it, or not before it is up.            *)
EndLoad ==
    /\ job # None /\ job.applied /\ applying = <<>>
    /\ loaded' \in {None, job.model}
    /\ job' = None
    /\ UNCHANGED <<serverVars, config, spoolVars, netVars, gatewayVars, edits, events>>

EndUnload ==
    /\ job # None /\ job.kind = "unload"
    /\ loaded' = None /\ job' = None
    /\ UNCHANGED <<serverVars, config, spoolVars, netVars, gatewayVars, edits, events>>

-----------------------------------------------------------------------------
(* DaemonGateway's listenerQueue, applyNow *)

Refused(h) == h = "open" /\ config.keys = {}
SameAfter(h) == listener # None   \* slip: compared once settings are assigned
SameAddress(h) == settings = h /\ listener # None

ApplyNow ==
    /\ applying # <<>> /\ ~binding
    /\ LET h == Head(applying)
           same == SameAddress(h)
       IN  /\ settings' = h
           /\ listener' = IF ~Refused(h) /\ same THEN listener ELSE None
           /\ binding' = (~Refused(h) /\ ~same)
           /\ applying' = IF binding' THEN applying ELSE Tail(applying)
    /\ UNCHANGED <<serverVars, job, config, loaded, spoolVars, netVars, edits, events>>

Bind ==
    /\ binding
    /\ binding' = FALSE /\ applying' = Tail(applying)
    /\ \/ listener' = settings /\ UNCHANGED events
       \/ Rationed("port taken") /\ UNCHANGED listener
    /\ UNCHANGED <<serverVars, job, config, loaded, spoolVars, netVars, settings, edits>>

(* A crash: what was not written is gone, the listener with it.  Its job    *)
(* ends or, its lease expired and nobody having cancelled it, is the first  *)
(* to be claimed again.                                                     *)
Crash ==
    /\ Rationed("crash")
    /\ spool' = disk /\ lost' = lost \cup fresh /\ fresh' = {}
    /\ loaded' = None
    /\ telemetry' = "timer" /\ request' = None /\ answer' = None /\ stray' \in {stray, request}
    /\ settings' = None /\ listener' = None /\ binding' = FALSE
    /\ applying' = IF config = None THEN <<>> ELSE <<config.host>>
    /\ job' = None
    /\ pending' \in {pending} \cup
           (IF job = None \/ job.cancelled THEN {} ELSE {<<[job EXCEPT !.applied = FALSE]>> \o pending})
    /\ UNCHANGED <<version, host, keys, revoked, readded, recorded, forgotten, config, disk, made, edits>>

Init ==
    /\ version = 0 /\ host = "loopback" /\ keys = {} /\ revoked = {} /\ readded = FALSE
    /\ pending = <<>> /\ recorded = {} /\ forgotten = {} /\ job = None /\ config = None /\ loaded = None
    /\ spool = [rows |-> {}, dropped |-> 0] /\ disk = spool
    /\ telemetry = "timer" /\ request = None /\ stray = None /\ answer = None
    /\ settings = None /\ listener = None /\ applying = <<>> /\ binding = FALSE
    /\ made = 0 /\ fresh = {} /\ lost = {} /\ edits = 0 /\ events = 0

Owner ==
    \/ \E h \in Host : PutGateway(h)
    \/ \E k \in Key : CreateKey(k) \/ RevokeKey(k)
    \/ \E m \in Model : AskLoad(m)
    \/ AskUnload \/ PutSampling
    \/ ReAdd
Loop == SendTelemetry \/ Receive \/ Applied
Main == Claim \/ SkipOld \/ ApplyLoad \/ EndLoad \/ EndUnload
Listener == ApplyNow \/ Bind
Server == Handle \/ OverBudget
Next ==
    \/ Owner \/ Server \/ HandleStray
    \/ Loop \/ TimesOut \/ Main \/ Listener \/ Serve \/ Crash

Spec == Init /\ [][Next]_vars

(* The telemetry loop never ends, the server answers what reaches it, and   *)
(* the listener's queue is a chain of promises.                             *)
Fairness == WF_vars(Loop) /\ WF_vars(Server) /\ WF_vars(Listener)
FairSpec == Spec /\ Fairness

-----------------------------------------------------------------------------
(* However calls are lost, repeated or late, versions skipped or loads      *)
(* queued, the worker ends up with the server's keys and address, and with  *)
(* the part of the configuration that is about the model it serves.  The    *)
(* versions of a machine added again start over, and only they have to      *)
(* agree.                                                                   *)
Current ==
    version > 0 =>
        /\ config # None /\ config.version = version
        /\ ~readded => config.host = host /\ config.keys = keys
        /\ loaded # None => config.model = loaded
Converges == <>[]Current

(* A usage row is recorded, or was until the owner deleted the machine, or  *)
(* is still spooled, or was lost in a crash before it was ever written, or  *)
(* is one of those usage_dropped counts.                                    *)
NothingLost ==
    Cardinality((1..made) \ (recorded \cup forgotten \cup spool.rows \cup lost)) <= spool.dropped

(* Once its queue is empty the gateway listens where the stored             *)
(* configuration says, or nowhere.                                          *)
ListenerFollows ==
    applying = <<>> /\ config # None => listener \in {config.host, None}

(* Neither the server nor the worker ever stores an endpoint that is open   *)
(* beyond the machine and has no key.                                       *)
OpenHasKeys ==
    /\ host = "open" => keys # {}
    /\ config # None /\ config.host = "open" => config.keys # {}

(* manager.ts:210-212: telemetry's answer "is current by definition,        *)
(* including when a re-added machine restarts at version 1".                *)
SameVersionSameKeys ==
    config # None /\ config.version = version => config.keys = keys

(* manager.ts:210: "a config that sat in a queue [...] may predate a key    *)
(* revoked"; telemetry's own answer may, too.                               *)
RevokedStaysOut ==
    [][config # None /\ config' # None /\ revoked' = revoked =>
        config'.keys \cap revoked \subseteq config.keys]_vars
=============================================================================
