---------------------------- MODULE NodeTracker ----------------------------
(***************************************************************************)
(* What the companion believes of the node: the node_state column, kept    *)
(* across restarts, and everybody who writes it.  The startup probe, the   *)
(* background loops with their probes, reconciles, and the hooks of        *)
(* proxied calls all ask the node first and write later, without a common  *)
(* lock, so a write may be older than what it overwrites.  The engine lock *)
(* only delays the calls that take it and is left out.  The node is        *)
(* external.                                                               *)
(***************************************************************************)
EXTENDS Naturals, FiniteSets, RlnAnswers

CONSTANTS
    Refreshers,   \* run_refresh_loop
    Pollers,      \* run_payments_loop
    Timers,       \* run_full_sync_timer
    Reapers,      \* run_reaper
    Mains,        \* main: the startup probe, then the startup reconcile
    Clients,      \* proxied calls, and the reconcile an /unlock spawns
    Checked,      \* rln.network is set
    MaxChanges,   \* bound on what the node does by itself
    MaxFaults,    \* bound on unexpected errors, lost writes and crashes
    NULL

Loops == Refreshers \cup Pollers \cup Timers \cup Reapers
Reconcilers == Mains \cup Clients
Tasks == Loops \cup Reconcilers

NodeState == {"Unknown", "Locked", "Unlocked", "Down", "Misconfigured"}

ASSUME TrackerAssumption ==
    /\ Loops \cap Reconcilers = {}
    /\ Refreshers \cap (Pollers \cup Timers \cup Reapers) = {}
    /\ Reapers \cap (Pollers \cup Timers) = {}
    /\ Mains \cap Clients = {}
    /\ Checked \in BOOLEAN
    /\ MaxChanges \in Nat /\ MaxFaults \in Nat
    /\ NULL \notin NodeState

VARIABLES
    node,      \* the node: reachable, locked, on another network, refusing rln.token
    state,     \* node_state in the database
    process,   \* the companion: off, starting (first probe) or serving
    pc,        \* where each task is
    verdict,   \* the node state a task is about to write
    imported,  \* rows of a foreign network have been mirrored
    been,      \* what the node has been since the process started
    changes,
    faults

vars == <<node, state, process, pc, verdict, imported, been, changes, faults>>

Node == [up : BOOLEAN, locked : BOOLEAN, foreign : BOOLEAN, denies : BOOLEAN]

\* What the node replies to a call of the companion.
Replies(n) ==
    CASE ~n.up                -> {NoReply}
      [] n.up /\ n.denies     -> {Refusal(401, "Unauthorized"), Refusal(403, "Forbidden")}
      [] n.up /\ ~n.denies /\ n.locked ->
            {Refusal(403, "LockedNode"), Refusal(403, "ChangingState")}
      [] OTHER                -> {Success}

\* And to a call of a client that its state does not allow.
Complaints(n) ==
    IF n.locked
    THEN {Refusal(403, "LockedNode"), Refusal(403, "ChangingState")}
    ELSE {Refusal(403, "UnlockedNode"), Refusal(403, "AlreadyUnlocked")}

\* The state that describes a node.
TrueState(n) ==
    CASE ~n.up                -> "Down"
      [] n.up /\ n.denies     -> "Misconfigured"
      [] n.up /\ ~n.denies /\ n.locked -> "Locked"
      [] OTHER -> IF Checked /\ n.foreign THEN "Misconfigured" ELSE "Unlocked"

-----------------------------------------------------------------------------
Init ==
    /\ node \in Node
    /\ state = "Unknown"
    /\ process = "off"
    /\ pc = [t \in Tasks |-> "idle"]
    /\ verdict = [t \in Tasks |-> NULL]
    /\ imported = FALSE
    /\ been = {}
    /\ changes = 0
    /\ faults = 0

Fault == faults < MaxFaults /\ faults' = faults + 1

Goto(t, label) == pc' = [pc EXCEPT ![t] = label] /\ UNCHANGED verdict

\* A task knows what it will write, and where: the write is a step of its own,
\* so the node's answer may be old by then.
Conclude(t, label, s) ==
    /\ pc' = [pc EXCEPT ![t] = label]
    /\ verdict' = [verdict EXCEPT ![t] = s]

(* The node *)

\* It goes down or comes back (locked, perhaps as another node), or the rights
\* of the companion's token change.
NodeChanges(n) ==
    /\ changes < MaxChanges
    /\ changes' = changes + 1
    /\ n # node
    /\ node.up => n.foreign = node.foreign /\ n.locked = node.locked
    /\ ~node.up /\ n.up => n.locked
    /\ node' = n
    /\ been' = been \cup {TrueState(n)}
    /\ UNCHANGED <<state, process, pc, verdict, imported, faults>>

(* The process *)

\* run: the probe comes before anything else.
Start(t) ==
    /\ process = "off"
    /\ process' = "starting"
    /\ been' = {TrueState(node)}
    /\ Goto(t, "probe")
    /\ UNCHANGED <<node, state, imported, changes, faults>>

Stopped ==
    /\ process' = "off"
    /\ pc' = [t \in Tasks |-> "idle"]
    /\ verdict' = [t \in Tasks |-> NULL]

\* shutdown_signal, or a crash: node_state stays in the database.
Stop ==
    /\ process # "off"
    /\ Fault
    /\ Stopped
    /\ UNCHANGED <<node, state, imported, been, changes>>

(* Probes *)

\* An error nothing is known about ends the task; in the first probe it ends the
\* process.
Fails(t) ==
    IF process = "starting"
    THEN Stopped
    ELSE /\ pc' = [pc EXCEPT ![t] = "idle"]
         /\ verdict' = [verdict EXCEPT ![t] = NULL]
         /\ UNCHANGED process

\* Where a checked node's state is written: by the first probe, by a reconcile
\* or by a loop's probe.
WriterOf(t) ==
    IF process = "starting" THEN "first"
    ELSE IF t \in Reconcilers THEN "settle" ELSE "write"

\* What a probe or check_network makes of an answer other than Ok.
Settle(t, answer) ==
    IF answer = "Other"
    THEN Fails(t)
    ELSE /\ Conclude(t, WriterOf(t),
                     CASE answer = "Locked"    -> "Locked"
                       [] answer = "Transport" -> "Down"
                       [] answer = "Denied"    -> "Misconfigured")
         /\ UNCHANGED process

\* Mutant of ProbeInfo: an answer is enough, whatever its network.
ProbeInfoUnchecked(t) ==
    /\ pc[t] = "probe"
    /\ \E r \in Replies(node) :
         IF Answer(r) = "Ok"
         THEN Conclude(t, WriterOf(t), "Unlocked") /\ UNCHANGED process
         ELSE Settle(t, Answer(r))
    /\ UNCHANGED <<node, state, imported, been, changes, faults>>

\* probe: /nodeinfo, then check_network.
ProbeInfo(t) ==
    /\ pc[t] = "probe"
    /\ \E r \in Replies(node) :
         IF Answer(r) = "Ok"
         THEN /\ IF Checked THEN Goto(t, "network")
                 ELSE Conclude(t, WriterOf(t), "Unlocked")
              /\ UNCHANGED process
         ELSE Settle(t, Answer(r))
    /\ UNCHANGED <<node, state, imported, been, changes, faults>>

\* check_network asks /networkinfo, for a probe and for a reconcile.
CheckNetwork(t) ==
    /\ pc[t] = "network"
    /\ \E r \in Replies(node) :
         IF Answer(r) = "Ok"
         THEN /\ Conclude(t, WriterOf(t), IF node.foreign THEN "Misconfigured" ELSE "Unlocked")
              /\ UNCHANGED process
         ELSE Settle(t, Answer(r))
    /\ UNCHANGED <<node, state, imported, been, changes, faults>>

(* Passes of the loops, and reconciles *)

\* Mutant of Wake: a paused refresh loop only sleeps.
WakeUnprobed(t) ==
    /\ process = "serving"
    /\ pc[t] = "idle"
    /\ state = "Unlocked"
    /\ Goto(t, "call")
    /\ UNCHANGED <<node, state, process, imported, been, changes, faults>>

\* A tick without a pending row, and a reaper's pass without an expired one, make
\* no call.  Which rows there are is left open.
MayIdle(t) == t \in Refreshers \cup Reapers /\ state = "Unlocked"

\* tick, payments_tick and is_unlocked look at the state before any call; of the
\* paused loops only the refresh loop probes.
Wake(t) ==
    /\ process = "serving"
    /\ pc[t] = "idle"
    /\ \/ state = "Unlocked" /\ Goto(t, "call")
       \/ MayIdle(t) /\ UNCHANGED <<pc, verdict>>
       \/ state # "Unlocked" /\ t \in Refreshers /\ Goto(t, "probe")
    /\ UNCHANGED <<node, state, process, imported, been, changes, faults>>

\* One of the calls of a pass is answered; there may be more.
CallAnswered(t) ==
    /\ pc[t] = "call"
    /\ \E r \in Replies(node) : Answer(r) = "Ok"
    /\ imported' = (imported \/ (node.foreign /\ t \notin Pollers \cup Reapers))
    /\ \/ UNCHANGED <<pc, verdict>>
       \/ t \in Loops /\ Goto(t, "idle")
       \/ /\ t \in Reconcilers
          /\ IF Checked THEN Goto(t, "network") ELSE Conclude(t, "settle", "Unlocked")
    /\ UNCHANGED <<node, state, process, been, changes, faults>>

\* Mutant of CallLocked: the state is left alone.
CallLockedSilent(t) ==
    /\ pc[t] = "call"
    /\ \E r \in Replies(node) : Answer(r) = "Locked"
    /\ Goto(t, "idle")
    /\ UNCHANGED <<node, state, process, imported, been, changes, faults>>

\* classify, reap, sync_locked and reconcile take note of a locked node; the
\* refresh loop goes on to probe.
CallLocked(t) ==
    /\ pc[t] = "call"
    /\ \E r \in Replies(node) : Answer(r) = "Locked"
    /\ Conclude(t, IF t \in Refreshers THEN "paused" ELSE WriterOf(t), "Locked")
    /\ UNCHANGED <<node, state, process, imported, been, changes, faults>>

\* A transport error is no state: the loops probe, the reaper waits for its next
\* pass.  A reconcile writes it.
CallUnreachable(t) ==
    /\ pc[t] = "call"
    /\ \E r \in Replies(node) : Answer(r) = "Transport"
    /\ IF t \in Reconcilers THEN Conclude(t, "settle", "Down")
       ELSE Goto(t, IF t \in Reapers THEN "idle" ELSE "probe")
    /\ UNCHANGED <<node, state, process, imported, been, changes, faults>>

\* A refused token is one of the errors that end the pass: only probes and
\* check_network ask auth_fault.
CallDenied(t) ==
    /\ pc[t] = "call"
    /\ \E r \in Replies(node) : Answer(r) \in {"Denied", "Other"}
    /\ Goto(t, "idle")
    /\ UNCHANGED <<node, state, process, imported, been, changes, faults>>

\* An unexpected answer, a body that does not decode or a database error.
Error(t) ==
    /\ pc[t] # "idle"
    /\ Fault
    /\ Fails(t)
    /\ UNCHANGED <<node, state, imported, been, changes>>

(* The hooks *)

Client(t) == process = "serving" /\ pc[t] = "idle" /\ node.up

\* /unlock answers 2xx.
Unlock(t) ==
    /\ Client(t)
    /\ node.locked
    /\ node' = [node EXCEPT !.locked = FALSE]
    /\ been' = been \cup {TrueState(node'), "Unlocked"}
    /\ Conclude(t, "unlock", "Unlocked")
    /\ UNCHANGED <<state, process, imported, changes, faults>>

\* /lock answers 2xx; also /init and /restore, which find the node locked.
Lock(t) ==
    /\ Client(t)
    /\ node' = [node EXCEPT !.locked = TRUE]
    /\ been' = been \cup {TrueState(node'), "Locked"}
    /\ Conclude(t, "write", "Locked")
    /\ UNCHANGED <<state, process, imported, changes, faults>>

\* /shutdown answers 2xx.
Shutdown(t) ==
    /\ Client(t)
    /\ node' = [node EXCEPT !.up = FALSE]
    /\ been' = been \cup {"Down"}
    /\ Conclude(t, "write", "Down")
    /\ UNCHANGED <<state, process, imported, changes, faults>>

\* note_locked: a 403 reveals LockedNode, or UnlockedNode and AlreadyUnlocked.
NoteLocked(t) ==
    /\ Client(t)
    /\ been' = been \cup {IF node.locked THEN "Locked" ELSE "Unlocked"}
    /\ \E r \in Complaints(node) :
        /\ Reveals(r) # "Nothing"
        /\ Conclude(t, "write", Reveals(r))
    /\ UNCHANGED <<node, state, process, imported, changes, faults>>

(* Writes *)

\* Mutant of WriteState: what was written stays in hand.
WriteStateKeeps(t) ==
    /\ pc[t] \in {"write", "paused", "unlock"}
    /\ state' = verdict[t]
    /\ pc' = [pc EXCEPT ![t] = "idle"]
    /\ UNCHANGED <<node, process, verdict, imported, been, changes, faults>>

\* set_node_state; after a locked tick comes a probe, after /unlock a reconcile.
WriteState(t) ==
    /\ pc[t] \in {"write", "paused", "unlock"}
    /\ state' = verdict[t]
    /\ verdict' = [verdict EXCEPT ![t] = NULL]
    /\ pc' = [pc EXCEPT ![t] =
            CASE pc[t] = "write"  -> "idle"
              [] pc[t] = "paused" -> "probe"
              [] pc[t] = "unlock" -> "call"]
    /\ UNCHANGED <<node, process, imported, been, changes, faults>>

\* A misconfigured node is fatal at startup; otherwise main serves and reconciles.
FirstWrite(t) ==
    /\ pc[t] = "first"
    /\ state' = verdict[t]
    /\ IF verdict[t] = "Misconfigured"
       THEN Stopped
       ELSE /\ process' = "serving"
            /\ pc' = [pc EXCEPT ![t] = "call"]
            /\ verdict' = [verdict EXCEPT ![t] = NULL]
    /\ UNCHANGED <<node, imported, been, changes, faults>>

\* reconcile ends, or tries again until reconcile_max_wait_secs have passed.
ReconcileWrite(t) ==
    /\ pc[t] = "settle"
    /\ state' = verdict[t]
    /\ verdict' = [verdict EXCEPT ![t] = NULL]
    /\ \/ pc' = [pc EXCEPT ![t] = "idle"]
       \/ verdict[t] \in {"Locked", "Down"} /\ pc' = [pc EXCEPT ![t] = "call"]
    /\ UNCHANGED <<node, process, imported, been, changes, faults>>

-----------------------------------------------------------------------------
Probe(t) == ProbeInfo(t) \/ CheckNetwork(t)

Pass(t) == CallAnswered(t) \/ CallLocked(t) \/ CallUnreachable(t) \/ CallDenied(t)

Write(t) == WriteState(t) \/ FirstWrite(t) \/ ReconcileWrite(t)

Hook(t) == Unlock(t) \/ Lock(t) \/ Shutdown(t) \/ NoteLocked(t)

Next ==
    \/ \E n \in Node : NodeChanges(n)
    \/ \E t \in Mains : Start(t)
    \/ Stop
    \/ \E t \in Loops : Wake(t)
    \/ \E t \in Clients : Hook(t)
    \/ \E t \in Tasks : Probe(t) \/ Pass(t) \/ Write(t) \/ Error(t)

Spec == Init /\ [][Next]_vars

\* Timers fire, and calls are answered or time out.  Nothing is assumed of the
\* node, of its operators or of the clients, nor that a refresh loop or a reaper
\* that may stay idle ever makes a call.
Fairness ==
    /\ \A t \in Loops : WF_vars(Wake(t) /\ ~MayIdle(t))
    /\ \A t \in Tasks : WF_vars(Probe(t)) /\ WF_vars(Pass(t)) /\ WF_vars(Write(t))

FairSpec == Spec /\ Fairness

-----------------------------------------------------------------------------
(* Properties *)

\* Every variable has its type, and a task has something to write exactly when
\* it is about to.
TypeOK ==
    /\ node \in Node
    /\ state \in NodeState
    /\ process \in {"off", "starting", "serving"}
    /\ pc \in [Tasks -> {"idle", "probe", "network", "call", "write", "paused",
                         "unlock", "first", "settle"}]
    /\ verdict \in [Tasks -> NodeState \cup {NULL}]
    /\ \A t \in Tasks :
         verdict[t] # NULL <=> pc[t] \in {"write", "paused", "unlock", "first", "settle"}
    /\ imported \in BOOLEAN
    /\ been \subseteq NodeState
    /\ changes \in 0..MaxChanges
    /\ faults \in 0..MaxFaults

\* What /companion/health says of the node has been true since the process
\* started, whoever wrote it last and however old its answer was: nothing is
\* carried over from before a restart, and Unlocked was either the whole truth,
\* network and token included, or what a client's own call revealed.
StateWasTrue == process = "serving" => state \in been

\* docs/operations.md:23: "an outage of any length is recovered automatically
\* once the node is back", from every state and against late writes of calls
\* that began before.
Recovers ==
    <>[](process = "serving" /\ TrueState(node) = "Unlocked")
        => <>[](state = "Unlocked")

\* A node that stays locked or down is not believed unlocked for ever, also when
\* a reconcile wrote Unlocked after the lock (engine.rs:312).  The poll of the
\* payments sees to it: the refresh loop asks nothing while no row is pending.
Notices ==
    <>[](process = "serving" /\ TrueState(node) \in {"Locked", "Down"})
        => <>[](state # "Unlocked")

\* docs/operations.md:13 of a node of another network: "the first reconcile after
\* the unlock runs the same check: on a mismatch it [...] marks the node
\* `misconfigured` [...] and returns without syncing".
NoForeignImport == Checked => ~imported
=============================================================================
