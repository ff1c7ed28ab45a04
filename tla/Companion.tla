----------------------------- MODULE Companion ------------------------------
(***************************************************************************)
(* The process as its operator and its clients see it: it loads and checks *)
(* its settings, probes the node, binds, serves requests until a signal,   *)
(* drains them and closes (main.rs, app.rs).  A request is routed; the     *)
(* companion answers it, or forwards it to the node and runs the           *)
(* interceptor's hook before the client has its answer (intercept.rs,      *)
(* proxy.rs, api.rs).  What hooks and probes do to the mirror is in the    *)
(* other modules.  The node and the clients are external.                  *)
(***************************************************************************)
EXTENDS Naturals, Sequences, FiniteSets, Settings, Routes, RlnAnswers

CONSTANTS
    Requests,      \* requests of clients
    Asks,          \* what each of them may ask
    Files,         \* configurations load may return
    CommandLines,  \* what may override them
    Replies,       \* what the node may reply to a client's call
    Background,    \* whoever else takes the engine lock
    MaxFaults,     \* bound on errors, disconnects and failed starts
    NULL

Ask == [method : {"GET", "POST"}, path : UNION {{a.path : a \in Asks[q]} : q \in Requests},
        header : UNION {{a.header : a \in Asks[q]} : q \in Requests}, big : BOOLEAN]

ASSUME CompanionAssumption ==
    /\ \A q \in Requests : Asks[q] \subseteq Ask /\ NULL \notin Asks[q]
    /\ \A q \in Requests : \A a \in Asks[q] : a.path \in Seq(STRING)
    /\ Files \subseteq Config /\ CommandLines \subseteq Overrides
    /\ \A r \in Replies :
        /\ r.status \in 100..599 /\ r.readable \in BOOLEAN
        /\ r.code \in Nat /\ r.name \in STRING
    /\ Background \notin Requests
    /\ NULL \notin Requests \cup {Background}
    /\ MaxFaults \in Nat

VARIABLES
    phase,     \* how far run has come
    cfg,       \* the settings in force
    ask,       \* what each request asks
    stage,     \* where each request is
    inflight,  \* forwarded requests the node has yet to execute
    executed,  \* forwarded requests it has executed
    reply,     \* its replies
    hook,      \* "none", "ran" or "failed"
    resp,      \* the answer of each request: its status and whose it is
    lock,      \* holder of the engine lock
    believed,  \* node_state is Unlocked
    parked,    \* some event of the outbox is parked
    got,       \* what each health request has read, TRUE for a good value
    moments,   \* what health has been since each health request arrived
    faults

mirrorVars == <<believed, parked>>
healthVars == <<got, moments>>
requestVars == <<ask, stage, inflight, executed, reply, hook, resp, lock, mirrorVars, healthVars>>
vars == <<phase, cfg, requestVars, faults>>

Route(q) == RouteOf(ask[q].path)

NoAnswer == [status |-> 0, by |-> "nobody"]

Open(q) == stage[q] \notin {"new", "answered", "gone"}

-----------------------------------------------------------------------------
Init ==
    /\ phase = "load"
    /\ cfg = Default
    /\ ask = [q \in Requests |-> NULL]
    /\ stage = [q \in Requests |-> "new"]
    /\ inflight = {}
    /\ executed = {}
    /\ reply = [q \in Requests |-> NoReply]
    /\ hook = [q \in Requests |-> "none"]
    /\ resp = [q \in Requests |-> NoAnswer]
    /\ lock = NULL
    /\ believed = FALSE /\ parked = FALSE
    /\ got = [q \in Requests |-> <<>>]
    /\ moments = [q \in Requests |-> {}]
    /\ faults = 0

Fault == faults < MaxFaults /\ faults' = faults + 1

(* run: startup and shutdown *)

Go(to) == phase' = to /\ UNCHANGED <<requestVars, faults>>

\* Config::load and the command line; without a file the defaults.
Load ==
    /\ phase = "load"
    /\ \E file \in Files \cup {Default}, args \in CommandLines :
        cfg' = ApplyOverrides(file, args)
    /\ Go("validate")

ValidateSettings ==
    /\ phase = "validate"
    /\ Go(IF Validate(cfg) = "Ok" THEN "build" ELSE "failed")
    /\ UNCHANGED cfg

\* The spec of --openapi is read, the store opened and migrated.
Build == phase = "build" /\ Go("probe") /\ UNCHANGED cfg

\* A locked or unreachable node will do.
Probe == phase = "probe" /\ Go("bind") /\ UNCHANGED cfg

\* The port is bound, the loops are spawned, and requests are served.
Bind == phase = "bind" /\ Go("serving") /\ UNCHANGED cfg

\* A file that does not load, a store that does not open, a misconfigured node,
\* a port in use.
StartFails ==
    /\ phase \in {"load", "build", "probe", "bind"}
    /\ Fault
    /\ phase' = "failed"
    /\ UNCHANGED <<cfg, requestVars>>

\* shutdown_signal: no more requests.
Signal == phase = "serving" /\ Go("draining") /\ UNCHANGED cfg

\* Mutant of Drained: the loops are aborted and the store closed at once.
DrainedAtOnce ==
    /\ phase = "draining"
    /\ Go("stopped")
    /\ UNCHANGED cfg

\* serve returns once every request is done; then the loops are aborted and the
\* store is closed.
Drained ==
    /\ phase = "draining"
    /\ \A q \in Requests : ~Open(q)
    /\ Go("stopped")
    /\ UNCHANGED cfg

(* Requests *)

MoveTo(q, to) == stage' = [stage EXCEPT ![q] = to]

\* Mutant of DropGuard: the lock is not released.
DropGuardKept(q) == UNCHANGED lock

\* A handler that ends drops its guard of the engine lock.
DropGuard(q) == lock' = IF lock = q THEN NULL ELSE lock

Respond(q, status, by) ==
    /\ MoveTo(q, "answered")
    /\ resp' = [resp EXCEPT ![q] = [status |-> status, by |-> by]]
    /\ DropGuard(q)

\* The status of /companion/health, if it were read at once.
HealthNow == IF believed /\ ~parked THEN "ok" ELSE "degraded"

\* build_router: who handles the request.
Arrive(q) ==
    /\ phase = "serving"
    /\ stage[q] = "new"
    /\ \E a \in Asks[q] :
        LET route == RouteOf(a.path) IN
        /\ ask' = [ask EXCEPT ![q] = a]
        /\ IF route = "health" /\ Allows(route, a.method)
           THEN MoveTo(q, "health") /\ moments' = [moments EXCEPT ![q] = {HealthNow}]
           ELSE /\ MoveTo(q, IF ~Allows(route, a.method) \/ ~Proxied(route) THEN "local"
                             ELSE IF route \in Serialized THEN "queue" ELSE "body")
                /\ UNCHANGED moments
    /\ UNCHANGED <<phase, cfg, inflight, executed, reply, hook, resp, lock, mirrorVars, got,
                   faults>>

\* list_transfers, list_payments, get_transfer and openapi: a query may be invalid,
\* a row or the spec missing, a read of the store may fail.
EndpointAnswers == {200, 400, 404, 500}

\* Mutant of LocalAnswers: the token is asked for once the method is right.
LocalAnswersLater(route, a) ==
    CASE route = "notfound"       -> {404}
      [] ~Allows(route, a.method) -> {405}
      [] /\ route = "protected" /\ Allows(route, a.method)
         /\ ~Authorized(a.header, cfg.service.auth_token) -> {401}
      [] OTHER                    -> EndpointAnswers

\* require_token stands before the endpoint and before its method.
LocalAnswers(route, a) ==
    IF route = "notfound" THEN {404}
    ELSE IF route = "protected" /\ ~Authorized(a.header, cfg.service.auth_token) THEN {401}
    ELSE IF ~Allows(route, a.method) THEN {405}
    ELSE EndpointAnswers

\* The endpoints read the mirror and take no lock.
Local(q) ==
    /\ stage[q] = "local"
    /\ \E status \in LocalAnswers(Route(q), ask[q]) : Respond(q, status, "companion")
    /\ UNCHANGED <<phase, cfg, ask, inflight, executed, reply, hook, mirrorVars, healthVars,
                   faults>>

\* Mutant of HealthReads: the parked events are counted first.
HealthReadsSwapped == <<~parked, believed>>

\* What the reads of health find that its status depends on, in their order; the
\* counts it reports besides are left out.
HealthReads == <<believed, ~parked>>

\* health reads by one query after the other, and no transaction spans them.
HealthRead(q) ==
    /\ stage[q] = "health"
    /\ Len(got[q]) < Len(HealthReads)
    /\ got' = [got EXCEPT ![q] = Append(@, HealthReads[Len(@) + 1])]
    /\ UNCHANGED <<phase, cfg, ask, stage, inflight, executed, reply, hook, resp, lock,
                   mirrorVars, moments, faults>>

\* What health tells: everything it has read is good.
Told(q) == IF \A k \in DOMAIN got[q] : got[q][k] THEN "ok" ELSE "degraded"

\* A query that fails makes it 500.
HealthAnswer(q) ==
    /\ stage[q] = "health"
    /\ \/ Len(got[q]) = Len(HealthReads) /\ Respond(q, 200, "companion")
       \/ Respond(q, 500, "companion")
    /\ UNCHANGED <<phase, cfg, ask, inflight, executed, reply, hook, mirrorVars, healthVars,
                   faults>>

\* sync_pending takes the engine lock before it reads the body.
TakeLock(q) ==
    /\ stage[q] = "queue"
    /\ lock = NULL
    /\ lock' = q
    /\ MoveTo(q, "body")
    /\ UNCHANGED <<phase, cfg, ask, inflight, executed, reply, hook, resp, mirrorVars,
                   healthVars, faults>>

\* read_body and check_path refuse the request, or it is forwarded.
Forward(q) ==
    /\ stage[q] = "body"
    /\ IF ask[q].big
       THEN Respond(q, 413, "companion") /\ UNCHANGED inflight
       ELSE IF ~CheckPath(ask[q].path)
       THEN Respond(q, 400, "companion") /\ UNCHANGED inflight
       ELSE /\ MoveTo(q, "sent")
            /\ inflight' = inflight \cup {q}
            /\ UNCHANGED <<resp, lock>>
    /\ UNCHANGED <<phase, cfg, ask, executed, reply, hook, mirrorVars, healthVars, faults>>

\* The node executes what it was sent, also when nobody waits for it any more.
Execute(q) ==
    /\ q \in inflight
    /\ inflight' = inflight \ {q}
    /\ executed' = executed \cup {q}
    /\ \E r \in Replies : reply' = [reply EXCEPT ![q] = r]
    /\ UNCHANGED <<phase, cfg, ask, stage, hook, resp, lock, mirrorVars, healthVars, faults>>

\* Mutant of Unanswered: a call without a reply in time is sent again.
UnansweredResent(q) ==
    /\ stage[q] = "sent"
    /\ inflight' = inflight \cup {q}
    /\ UNCHANGED <<phase, cfg, ask, stage, executed, reply, hook, resp, lock, mirrorVars,
                   healthVars, faults>>

\* classify: the node is not reached, or its reply is not there in time.
Unanswered(q) ==
    /\ stage[q] = "sent"
    /\ \E status \in {502, 504} : Respond(q, status, "companion")
    /\ \E lost \in SUBSET {q} : inflight' = inflight \ lost
    /\ UNCHANGED <<phase, cfg, ask, executed, reply, hook, mirrorVars, healthVars, faults>>

\* Mutant of Replied: the hook runs whatever the node replied.
RepliedHooks(q) ==
    /\ stage[q] = "sent"
    /\ q \in executed
    /\ MoveTo(q, IF Route(q) \in Intercepted THEN "hook" ELSE "note")
    /\ UNCHANGED <<phase, cfg, ask, inflight, executed, reply, hook, resp, lock, mirrorVars,
                   healthVars, faults>>

\* forward_then and fallback: only a success is for the hook; other replies may
\* reveal the node state.
Replied(q) ==
    /\ stage[q] = "sent"
    /\ q \in executed
    /\ MoveTo(q, IF Route(q) \in Intercepted /\ IsSuccess(reply[q]) THEN "hook" ELSE "note")
    /\ UNCHANGED <<phase, cfg, ask, inflight, executed, reply, hook, resp, lock, mirrorVars,
                   healthVars, faults>>

\* The companion takes note of a node state, or an event is parked: moments sees it.
Becomes(unlocked, more) ==
    /\ believed' = unlocked
    /\ parked' = more
    /\ moments' = [q \in Requests |->
           IF stage[q] = "health" THEN moments[q] \cup {HealthNow'} ELSE moments[q]]
    /\ UNCHANGED got

\* set_node_state in the hooks of /unlock, /lock, /init, /restore and /shutdown.
StateAfter(route) ==
    CASE route = "unlock"               -> TRUE
      [] route \in Lifecycle \ {"unlock"} -> FALSE
      [] OTHER                          -> believed

\* The hook runs before the client is answered; a body that does not parse or an
\* error of the database or the node is logged.
Hook(q) ==
    /\ stage[q] = "hook"
    /\ \E result \in {"ran", "failed"} :
        /\ Route(q) \in Recorders /\ ~reply[q].readable => result = "failed"
        /\ hook' = [hook EXCEPT ![q] = result]
        /\ Becomes(IF result = "ran" THEN StateAfter(Route(q)) ELSE believed, parked)
    /\ Respond(q, reply[q].status, "node")
    /\ UNCHANGED <<phase, cfg, ask, inflight, executed, reply, faults>>

\* note_locked, then the client is answered.
Note(q) ==
    /\ stage[q] = "note"
    /\ Becomes(IF Reveals(reply[q]) = "Nothing" THEN believed
               ELSE Reveals(reply[q]) = "Unlocked", parked)
    /\ Respond(q, reply[q].status, "node")
    /\ UNCHANGED <<phase, cfg, ask, inflight, executed, reply, hook, faults>>

\* A loop takes note of the node's state, or the dispatcher parks an event; a parked
\* event is never taken up again.
BackgroundWrite ==
    /\ phase \in {"serving", "draining"}
    /\ Fault
    /\ \/ Becomes(~believed, parked)
       \/ ~parked /\ Becomes(believed, TRUE)
    /\ UNCHANGED <<phase, cfg, ask, stage, inflight, executed, reply, hook, resp, lock>>

\* The client goes away: the handler is dropped where it waits.
Disconnect(q) ==
    /\ Open(q)
    /\ Fault
    /\ MoveTo(q, "gone")
    /\ DropGuard(q)
    /\ UNCHANGED <<phase, cfg, ask, inflight, executed, reply, hook, resp, mirrorVars,
                   healthVars>>

\* The loops, reconciles and asset syncs.
BackgroundLock ==
    /\ phase \in {"serving", "draining"}
    /\ \/ lock = NULL /\ lock' = Background
       \/ lock = Background /\ lock' = NULL
    /\ UNCHANGED <<phase, cfg, ask, stage, inflight, executed, reply, hook, resp, mirrorVars,
                   healthVars, faults>>

-----------------------------------------------------------------------------
Startup == Load \/ ValidateSettings \/ Build \/ Probe \/ Bind

Handle(q) ==
    \/ Local(q) \/ HealthRead(q) \/ HealthAnswer(q)
    \/ TakeLock(q) \/ Forward(q)
    \/ Unanswered(q) \/ Replied(q) \/ Hook(q) \/ Note(q)

Next ==
    \/ Startup \/ StartFails \/ Signal \/ Drained
    \/ \E q \in Requests : Arrive(q) \/ Handle(q) \/ Execute(q) \/ Disconnect(q)
    \/ BackgroundLock \/ BackgroundWrite

Spec == Init /\ [][Next]_vars

\* Handlers run, clients send the bodies they announce, and both clients of the
\* node have timeouts.  Nothing is assumed of the node, of the signal, or of how
\* long background work keeps the lock.
FairSpec ==
    /\ Spec
    /\ WF_vars(Startup) /\ WF_vars(Drained)
    /\ \A q \in Requests : WF_vars(Handle(q))

-----------------------------------------------------------------------------
(* Properties *)

\* Every variable has its type, a request is answered once, and what the node may
\* have executed is not sent to it again.
TypeOK ==
    /\ phase \in {"load", "validate", "build", "probe", "bind", "serving",
                  "draining", "stopped", "failed"}
    /\ \A q \in Requests :
        /\ ask[q] \in Asks[q] \cup {NULL}
        /\ (ask[q] = NULL) <=> (stage[q] = "new")
        /\ stage[q] \in {"new", "local", "health", "queue", "body", "sent", "hook", "note",
                         "answered", "gone"}
        /\ hook[q] \in {"none", "ran", "failed"}
        /\ (resp[q] = NoAnswer) <=> (stage[q] # "answered")
        /\ got[q] \in Seq(BOOLEAN) /\ Len(got[q]) <= Len(HealthReads)
        /\ moments[q] \subseteq {"ok", "degraded"}
    /\ inflight \cup executed \subseteq Requests
    /\ inflight \cap executed = {}
    /\ lock \in Requests \cup {Background, NULL}
    /\ believed \in BOOLEAN /\ parked \in BOOLEAN
    /\ faults \in 0..MaxFaults

\* The hosts of docs/configuration.md:32: "loopback, a private range, localhost
\* or a bare hostname".
LocalHosts ==
    {[family |-> f, is |-> i] : f \in {"v4", "v6"},
        i \in {"loopback", "private", "unique_local", "link_local",
               "mapped_loopback", "mapped_private"}}
    \cup {[family |-> "name", is |-> i] : i \in {"localhost", "bare"}}

\* Neither the database is opened nor the node asked before the settings in force
\* are sound, whatever file and command line they come from: events can be sent,
\* no loop spins, and the node is on a local host unless that is waived.
SoundBeforeStart ==
    phase \notin {"load", "validate", "failed"} =>
        /\ cfg.webhook.url.parses /\ cfg.webhook.url.scheme \in {"http", "https"}
        /\ cfg.webhook.secret # Unset
        /\ cfg.service.listen_port > 0
        /\ \A i \in {cfg.engine.refresh_interval_secs, cfg.engine.reap_interval_secs,
                     cfg.engine.payments_poll_interval_secs,
                     cfg.engine.reconcile_backoff_secs, cfg.sync.full_interval_secs,
                     cfg.webhook.dispatch_interval_secs} : i > 0
        /\ cfg.rln.base_url.scheme \in {"http", "https"}
        /\ cfg.rln.allow_public_url \/ cfg.rln.base_url.host \in LocalHosts

\* The node never executes a call past its interceptor or under /companion: what
\* it makes of a path is what the companion routed, although the companion
\* matches paths literally and the HTTP client normalises them.  The claim stops
\* where the check does: it does not look for backslashes, which the client takes
\* for slashes.
NeverBypassed ==
    \A q \in executed \cup inflight :
        \/ RouteOf(NodePath(ask[q].path)) = Route(q)
        \/ \E k \in DOMAIN ask[q].path : ask[q].path[k] \in Backslashed

\* A client that is told its intercepted call went well finds it in the mirror,
\* or the hook has failed: it ran on a call the node executed, on no other, and
\* before the answer.
HookMatchesAnswer ==
    \A q \in Requests :
        stage[q] = "answered" =>
            ((hook[q] # "none")
             <=> /\ Route(q) \in Intercepted /\ q \in executed
                 /\ resp[q].by = "node" /\ resp[q].status \in 200..299)

\* docs/api.md:56: without the token the guarded endpoints answer 401, whatever
\* else is wrong with the request.  Nothing else is guarded, neither health, nor
\* unknown paths, nor the node's routes: another 401 is the node's own, relayed.
Guarded ==
    \A q \in Requests :
        stage[q] = "answered" =>
            (resp[q] = [status |-> 401, by |-> "companion"]
             <=> /\ Route(q) = "protected"
                 /\ cfg.service.auth_token # None
                 /\ \/ ask[q].header.scheme \notin {"Bearer", "bEaReR"}
                    \/ ask[q].header.token \in {Unset, None}
                    \/ ask[q].header.token # cfg.service.auth_token)

\* docs/api.md:16: `ok` only when the node is unlocked and no event is parked.  The
\* answer of /companion/health, made of several queries, was true at some moment
\* while it was being made, whatever was written between them.
HealthWasTrue ==
    \A q \in Requests :
        /\ stage[q] = "answered" /\ Route(q) = "health" /\ resp[q].status = 200
        => Told(q) \in moments[q]

\* The engine lock is held by a request that is being served, or by background
\* work: a client that leaves does not take it along.  Once stopped, no request
\* is left unanswered.
NothingLeftBehind ==
    /\ lock \in Requests => Open(lock)
    /\ phase = "stopped" => \A q \in Requests : ~Open(q)

\* Every request is answered, whatever the node does, but for an operator's
\* refresh that waits for background work to release the engine lock
\* (docs/operations.md:27).  Health and mirror reads never wait for it.
Answered ==
    \A q \in Requests :
        Open(q) ~> (~Open(q) \/ (stage[q] = "queue" /\ lock = Background))
=============================================================================
