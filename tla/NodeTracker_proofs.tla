------------------------- MODULE NodeTracker_proofs -------------------------
(***************************************************************************)
(* Proofs about NodeTracker, for any number of loops, of proxied calls, of *)
(* changes of the node and of restarts.                                    *)
(***************************************************************************)
EXTENDS NodeTracker, TLAPS

Writing == {"write", "paused", "unlock", "first", "settle"}

Label == {"idle", "probe", "network", "call"} \cup Writing

-----------------------------------------------------------------------------
(* Answers *)

\* What the companion makes of each reply of the node.
LEMMA Answers ==
  /\ Answer(NoReply) = "Transport"
  /\ Answer(Success) = "Ok"
  /\ Answer(Refusal(401, "Unauthorized")) = "Denied"
  /\ Answer(Refusal(403, "Forbidden")) = "Denied"
  /\ Answer(Refusal(403, "LockedNode")) = "Locked"
  /\ Answer(Refusal(403, "ChangingState")) = "Locked"
  <1> USE DEF Answer, AuthFault, Send, ClassifyError, IsSuccess, Result, Api
  <1>1. Answer(NoReply) = "Transport"
    BY DEF NoReply
  <1>2. Answer(Success) = "Ok"
    BY DEF NoReply, Success
  <1>3. Answer(Refusal(401, "Unauthorized")) = "Denied"
    BY DEF NoReply, Refusal
  <1>4. Answer(Refusal(403, "Forbidden")) = "Denied"
    BY DEF NoReply, Refusal
  <1>5. Answer(Refusal(403, "LockedNode")) = "Locked"
    BY DEF NoReply, Refusal
  <1>6. Answer(Refusal(403, "ChangingState")) = "Locked"
    BY DEF NoReply, Refusal
  <1> QED BY <1>1, <1>2, <1>3, <1>4, <1>5, <1>6

\* An answer other than Ok tells the state of the node at that moment; Ok leaves
\* its network open.
LEMMA AnswerTells ==
  ASSUME node \in Node, NEW r \in Replies(node)
  PROVE  /\ Answer(r) \in {"Ok", "Locked", "Transport", "Denied"}
         /\ Answer(r) = "Ok" =>
              TrueState(node) = IF Checked /\ node.foreign THEN "Misconfigured" ELSE "Unlocked"
         /\ Answer(r) = "Locked"    => TrueState(node) = "Locked"
         /\ Answer(r) = "Transport" => TrueState(node) = "Down"
         /\ Answer(r) = "Denied"    => TrueState(node) = "Misconfigured"
  <1>0. /\ node.up \in BOOLEAN /\ node.denies \in BOOLEAN
        /\ node.locked \in BOOLEAN /\ node.foreign \in BOOLEAN
    BY DEF Node
  <1>1. CASE ~node.up
    BY <1>0, <1>1, Answers DEF Replies, TrueState
  <1>2. CASE node.up /\ node.denies
    BY <1>0, <1>2, Answers DEF Replies, TrueState
  <1>3. CASE node.up /\ ~node.denies /\ node.locked
    BY <1>0, <1>3, Answers DEF Replies, TrueState
  <1>4. CASE node.up /\ ~node.denies /\ ~node.locked
    BY <1>0, <1>4, Answers DEF Replies, TrueState
  <1> QED BY <1>0, <1>1, <1>2, <1>3, <1>4

\* A node is in one of the states.
LEMMA TrueStateTyped ==
  ASSUME NEW n \in Node
  PROVE  TrueState(n) \in NodeState
  BY DEF TrueState, NodeState, Node

\* What a refused call reveals of the node is so.
LEMMA Revealed ==
  ASSUME node \in Node, NEW r \in Complaints(node)
  PROVE  Reveals(r) = IF node.locked THEN "Locked" ELSE "Unlocked"
  <1> USE DEF Reveals, Refusal
  <1>1. CASE node.locked
    BY <1>1 DEF Complaints
  <1>2. CASE ~node.locked
    BY <1>2 DEF Complaints
  <1> QED BY <1>1, <1>2

-----------------------------------------------------------------------------
(* What the tasks have in hand *)

\* A task is about to write only what the node has been since the process
\* started, and asks for the network only if one is configured.
TasksInv ==
    /\ pc \in [Tasks -> Label]
    /\ verdict \in [Tasks -> NodeState \cup {NULL}]
    /\ \A t \in Tasks : verdict[t] # NULL <=> pc[t] \in Writing
    /\ \A t \in Tasks : verdict[t] # NULL => verdict[t] \in been
    /\ \A t \in Tasks : pc[t] = "network" => Checked

\* A task goes on with nothing to write.
LEMMA Going ==
  ASSUME TasksInv, NEW t \in Tasks, pc[t] \notin Writing,
         NEW l \in Label \ Writing, l = "network" => Checked,
         Goto(t, l), been \subseteq been'
  PROVE  TasksInv'
  <1>1. pc' = [pc EXCEPT ![t] = l] /\ verdict' = verdict
    BY DEF Goto
  <1> QED BY <1>1 DEF TasksInv

\* A task learns a state to write.
LEMMA Concluding ==
  ASSUME TasksInv, NEW t \in Tasks, NEW l \in Writing, NEW s \in NodeState,
         Conclude(t, l, s), s \in been', been \subseteq been'
  PROVE  TasksInv'
  <1>1. pc' = [pc EXCEPT ![t] = l] /\ verdict' = [verdict EXCEPT ![t] = s]
    BY DEF Conclude
  <1>2. pc' \in [Tasks -> Label] /\ verdict' \in [Tasks -> NodeState \cup {NULL}]
    BY <1>1 DEF TasksInv, Label
  <1>3. l # "network" /\ s # NULL
    BY TrackerAssumption DEF Writing
  <1> QED BY <1>1, <1>2, <1>3 DEF TasksInv

\* A task has written, or gives up.
LEMMA Dropping ==
  ASSUME TasksInv, NEW t \in Tasks, NEW l \in Label \ Writing, l # "network",
         pc' = [pc EXCEPT ![t] = l], verdict' = [verdict EXCEPT ![t] = NULL],
         been \subseteq been'
  PROVE  TasksInv'
  BY DEF TasksInv

\* The process stops.
LEMMA Stopping ==
  ASSUME Stopped
  PROVE  TasksInv' /\ process' = "off" /\ \A t \in Tasks : pc'[t] = "idle"
  BY DEF Stopped, TasksInv, Label, Writing

-----------------------------------------------------------------------------
(* The inductive invariant *)

\* The variables but those of the tasks have their types.
Typed ==
    /\ node \in Node
    /\ state \in NodeState
    /\ process \in {"off", "starting", "serving"}
    /\ imported \in BOOLEAN
    /\ been \subseteq NodeState
    /\ changes \in 0..MaxChanges
    /\ faults \in 0..MaxFaults

\* Nothing runs in a stopped process; a running one has seen the node as it is.
Believed ==
    /\ process = "off" => \A t \in Tasks : pc[t] = "idle"
    /\ process # "off" => TrueState(node) \in been
    /\ StateWasTrue

Inv == Typed /\ TasksInv /\ Believed

\* The type invariant is part of it.
LEMMA InvTypes == Inv => TypeOK
  BY DEF Inv, Typed, TasksInv, TypeOK, Label, Writing

\* It holds initially.
LEMMA InvInit == Init => Inv
  <1> SUFFICES ASSUME Init PROVE Inv
    OBVIOUS
  <1>1. Typed
    <2>1. 0 \in 0..MaxChanges /\ 0 \in 0..MaxFaults
      BY TrackerAssumption
    <2>2. /\ node \in Node /\ state = "Unknown" /\ process = "off" /\ imported = FALSE
          /\ been = {} /\ changes = 0 /\ faults = 0
      BY DEF Init
    <2>3. "Unknown" \in NodeState
      BY DEF NodeState
    <2> QED BY <2>1, <2>2, <2>3 DEF Typed
  <1>2. TasksInv
    <2>1. \A t \in Tasks : pc[t] = "idle" /\ verdict[t] = NULL
      BY DEF Init
    <2>2. pc \in [Tasks -> Label] /\ verdict \in [Tasks -> NodeState \cup {NULL}]
      BY DEF Init, Label
    <2> QED BY <2>1, <2>2 DEF TasksInv, Writing
  <1>3. Believed
    BY DEF Init, Believed, StateWasTrue
  <1> QED BY <1>1, <1>2, <1>3 DEF Inv

\* A task that is not idle runs in a running process, which has seen the node.
LEMMA Running ==
  ASSUME Inv, NEW t \in Tasks, pc[t] # "idle"
  PROVE  process # "off" /\ TrueState(node) \in been
  BY DEF Inv, Believed

\* A step of a running task that leaves the node, the mirrored state, the process
\* and what has been seen alone.
LEMMA TaskStep ==
  ASSUME Inv, NEW t \in Tasks, process # "off", TasksInv',
         UNCHANGED <<node, state, process, been, changes>>,
         imported' \in BOOLEAN, faults' \in 0..MaxFaults
  PROVE  Inv'
  BY DEF Inv, Typed, Believed, StateWasTrue

\* An unexpected error keeps it, at startup too.
LEMMA FailsKeeps ==
  ASSUME Inv, NEW t \in Tasks, pc[t] # "idle", Fails(t),
         UNCHANGED <<node, state, imported, been, changes>>, faults' \in 0..MaxFaults
  PROVE  Inv'
  <1>1. CASE process = "starting"
    <2>1. TasksInv' /\ process' = "off" /\ \A s \in Tasks : pc'[s] = "idle"
      BY <1>1, Stopping DEF Fails
    <2> QED BY <2>1 DEF Inv, Typed, Believed, StateWasTrue
  <1>2. CASE process # "starting"
    <2>1. /\ pc' = [pc EXCEPT ![t] = "idle"] /\ verdict' = [verdict EXCEPT ![t] = NULL]
          /\ UNCHANGED process
      BY <1>2 DEF Fails
    <2>2. "idle" \in Label \ Writing
      BY DEF Label, Writing
    <2>3. TasksInv'
      BY <2>1, <2>2, Dropping DEF Inv
    <2> QED BY <2>1, <2>3, Running, TaskStep DEF Inv, Typed
  <1> QED BY <1>1, <1>2

\* So does what a probe concludes from an answer other than Ok.
LEMMA SettleKeeps ==
  ASSUME Inv, NEW t \in Tasks, pc[t] # "idle",
         NEW r \in Replies(node), Answer(r) # "Ok", Settle(t, Answer(r)),
         UNCHANGED <<node, state, imported, been, changes, faults>>
  PROVE  Inv'
  <1>1. node \in Node /\ TrueState(node) \in been /\ process # "off"
    BY Running DEF Inv, Typed
  <1>2. Answer(r) \in {"Locked", "Transport", "Denied"}
    BY <1>1, AnswerTells
  <1>3. Conclude(t, WriterOf(t), TrueState(node)) /\ UNCHANGED process
    BY <1>1, <1>2, AnswerTells DEF Settle
  <1>4. TrueState(node) \in NodeState /\ WriterOf(t) \in Writing
    BY <1>1, TrueStateTyped DEF WriterOf, Writing
  <1>5. TasksInv'
    BY <1>1, <1>3, <1>4, Concluding DEF Inv
  <1> QED BY <1>1, <1>3, <1>5, TaskStep DEF Inv, Typed

-----------------------------------------------------------------------------
(* Every step *)

\* A probe concludes from what the node is, or asks for its network.
LEMMA ProbeKeeps ==
  ASSUME Inv, NEW t \in Tasks, Probe(t)
  PROVE  Inv'
  <1>1. pc[t] \in {"probe", "network"} /\ pc[t] # "idle" /\ pc[t] \notin Writing
    BY DEF Probe, ProbeInfo, CheckNetwork, Writing
  <1>2. UNCHANGED <<node, state, imported, been, changes, faults>>
    BY DEF Probe, ProbeInfo, CheckNetwork
  <1>3. /\ node \in Node /\ TasksInv /\ imported \in BOOLEAN /\ faults \in 0..MaxFaults
        /\ process # "off" /\ TrueState(node) \in been
    BY <1>1, Running DEF Inv, Typed
  <1>4. ASSUME NEW r \in Replies(node), Answer(r) # "Ok", Settle(t, Answer(r))
        PROVE  Inv'
    BY <1>1, <1>2, <1>4, SettleKeeps
  <1>5. ASSUME Conclude(t, WriterOf(t), TrueState(node)), UNCHANGED process
        PROVE  Inv'
    <2>1. TrueState(node) \in NodeState /\ WriterOf(t) \in Writing
      BY <1>3, TrueStateTyped DEF WriterOf, Writing
    <2>2. TasksInv'
      BY <1>2, <1>3, <1>5, <2>1, Concluding
    <2> QED BY <1>2, <1>3, <1>5, <2>2, TaskStep
  <1>6. CASE ProbeInfo(t)
    <2>1. PICK r \in Replies(node) :
            IF Answer(r) = "Ok"
            THEN /\ IF Checked THEN Goto(t, "network")
                    ELSE Conclude(t, WriterOf(t), "Unlocked")
                 /\ UNCHANGED process
            ELSE Settle(t, Answer(r))
      BY <1>6 DEF ProbeInfo
    <2>2. CASE Answer(r) = "Ok" /\ Checked
      <3>1. "network" \in Label \ Writing /\ Goto(t, "network") /\ UNCHANGED process
        BY <2>1, <2>2 DEF Label, Writing
      <3>2. TasksInv'
        BY <1>1, <1>2, <1>3, <2>2, <3>1, Going
      <3> QED BY <1>2, <1>3, <3>1, <3>2, TaskStep
    <2>3. CASE Answer(r) = "Ok" /\ ~Checked
      BY <1>3, <1>5, <2>1, <2>3, AnswerTells
    <2>4. CASE Answer(r) # "Ok"
      BY <1>4, <2>1, <2>4
    <2> QED BY <2>2, <2>3, <2>4
  <1>7. CASE CheckNetwork(t)
    <2>1. PICK r \in Replies(node) :
            IF Answer(r) = "Ok"
            THEN /\ Conclude(t, WriterOf(t),
                             IF node.foreign THEN "Misconfigured" ELSE "Unlocked")
                 /\ UNCHANGED process
            ELSE Settle(t, Answer(r))
      BY <1>7 DEF CheckNetwork
    <2>2. Checked
      BY <1>3, <1>7 DEF CheckNetwork, TasksInv
    <2>3. CASE Answer(r) = "Ok"
      BY <1>3, <1>5, <2>1, <2>2, <2>3, AnswerTells
    <2>4. CASE Answer(r) # "Ok"
      BY <1>4, <2>1, <2>4
    <2> QED BY <2>3, <2>4
  <1> QED BY <1>6, <1>7 DEF Probe

\* A call of a pass shows the node locked or out of reach, or shows nothing.
LEMMA PassKeeps ==
  ASSUME Inv, NEW t \in Tasks, Pass(t)
  PROVE  Inv'
  <1>1. pc[t] = "call" /\ pc[t] # "idle" /\ pc[t] \notin Writing
    BY DEF Pass, CallAnswered, CallLocked, CallUnreachable, CallDenied, Writing
  <1>2. /\ node \in Node /\ TasksInv /\ imported \in BOOLEAN /\ faults \in 0..MaxFaults
        /\ process # "off" /\ TrueState(node) \in been
    BY <1>1, Running DEF Inv, Typed
  <1>3. /\ UNCHANGED <<node, state, process, been, changes, faults>>
        /\ imported' \in BOOLEAN
    <2>1. CASE CallAnswered(t)
      <3>1. node.foreign \in BOOLEAN
        BY <1>2 DEF Node
      <3> QED BY <1>2, <2>1, <3>1 DEF CallAnswered
    <2>2. CASE CallLocked(t) \/ CallUnreachable(t) \/ CallDenied(t)
      BY <1>2, <2>2 DEF CallLocked, CallUnreachable, CallDenied
    <2> QED BY <2>1, <2>2 DEF Pass
  <1>4. ASSUME NEW l \in {"idle", "probe"}, Goto(t, l) PROVE TasksInv'
    <2>1. l \in Label \ Writing /\ l # "network"
      BY DEF Label, Writing
    <2> QED BY <1>1, <1>2, <1>3, <1>4, <2>1, Going
  <1>5. ASSUME NEW l \in Writing, Conclude(t, l, TrueState(node)) PROVE TasksInv'
    BY <1>2, <1>3, <1>5, TrueStateTyped, Concluding
  <1>6. WriterOf(t) \in Writing /\ "settle" \in Writing /\ "paused" \in Writing
    BY DEF WriterOf, Writing
  <1>7. CASE CallAnswered(t)
    <2> SUFFICES TasksInv'
      BY <1>2, <1>3, TaskStep
    <2>1. PICK r \in Replies(node) : Answer(r) = "Ok"
      BY <1>7 DEF CallAnswered
    <2>2. CASE UNCHANGED <<pc, verdict>>
      BY <1>2, <1>3, <2>2 DEF TasksInv
    <2>3. CASE Goto(t, "idle")
      BY <1>4, <2>3
    <2>4. CASE Checked /\ Goto(t, "network")
      <3>1. "network" \in Label \ Writing
        BY DEF Label, Writing
      <3> QED BY <1>1, <1>2, <1>3, <2>4, <3>1, Going
    <2>5. CASE ~Checked /\ Conclude(t, "settle", "Unlocked")
      BY <1>2, <1>5, <1>6, <2>1, <2>5, AnswerTells
    <2> QED BY <1>7, <2>2, <2>3, <2>4, <2>5 DEF CallAnswered
  <1>8. CASE CallLocked(t)
    <2>1. PICK r \in Replies(node) : Answer(r) = "Locked"
      BY <1>8 DEF CallLocked
    <2>2. TrueState(node) = "Locked"
      BY <1>2, <2>1, AnswerTells
    <2>3. TasksInv'
      BY <1>5, <1>6, <1>8, <2>2 DEF CallLocked
    <2> QED BY <1>2, <1>3, <2>3, TaskStep
  <1>9. CASE CallUnreachable(t)
    <2>1. PICK r \in Replies(node) : Answer(r) = "Transport"
      BY <1>9 DEF CallUnreachable
    <2>2. TrueState(node) = "Down"
      BY <1>2, <2>1, AnswerTells
    <2>3. TasksInv'
      BY <1>4, <1>5, <1>6, <1>9, <2>2 DEF CallUnreachable
    <2> QED BY <1>2, <1>3, <2>3, TaskStep
  <1>10. CASE CallDenied(t)
    <2>1. TasksInv'
      BY <1>4, <1>10 DEF CallDenied
    <2> QED BY <1>2, <1>3, <2>1, TaskStep
  <1> QED BY <1>7, <1>8, <1>9, <1>10 DEF Pass

\* A hook knows what its own call did to the node, or revealed of it.
LEMMA HookKeeps ==
  ASSUME Inv, NEW t \in Clients, Hook(t)
  PROVE  Inv'
  <1> DEFINE Learns(l, s) == Conclude(t, l, s) /\ s \in been' /\ been \subseteq been'
  <1>1. /\ t \in Tasks /\ process = "serving" /\ pc[t] = "idle"
        /\ UNCHANGED <<state, process, imported, changes, faults>>
    BY DEF Hook, Unlock, Lock, Shutdown, NoteLocked, Client, Tasks, Reconcilers
  <1>2. node \in Node /\ Typed /\ TasksInv /\ Believed
    BY DEF Inv, Typed
  <1>3. /\ node' \in Node /\ TrueState(node') \in been' /\ been' \subseteq NodeState
        /\ \E l \in Writing, s \in NodeState : Learns(l, s)
    <2> USE DEF NodeState, Writing
    <2>1. CASE Unlock(t)
      <3>1. /\ node' = [node EXCEPT !.locked = FALSE]
            /\ been' = been \cup {TrueState(node'), "Unlocked"}
            /\ Conclude(t, "unlock", "Unlocked")
        BY <2>1 DEF Unlock
      <3>2. node' \in Node
        BY <1>2, <3>1 DEF Node
      <3>3. TrueState(node') \in NodeState
        BY <3>2, TrueStateTyped
      <3> QED BY <1>2, <3>1, <3>2, <3>3 DEF Typed
    <2>2. CASE Lock(t)
      <3>1. /\ node' = [node EXCEPT !.locked = TRUE]
            /\ been' = been \cup {TrueState(node'), "Locked"}
            /\ Conclude(t, "write", "Locked")
        BY <2>2 DEF Lock
      <3>2. node' \in Node
        BY <1>2, <3>1 DEF Node
      <3>3. TrueState(node') \in NodeState
        BY <3>2, TrueStateTyped
      <3> QED BY <1>2, <3>1, <3>2, <3>3 DEF Typed
    <2>3. CASE Shutdown(t)
      <3>1. /\ node' = [node EXCEPT !.up = FALSE]
            /\ been' = been \cup {"Down"}
            /\ Conclude(t, "write", "Down")
        BY <2>3 DEF Shutdown
      <3>2. node' \in Node
        BY <1>2, <3>1 DEF Node
      <3>3. ~node'.up
        BY <1>2, <3>1 DEF Node
      <3>4. TrueState(node') = "Down"
        BY <3>3 DEF TrueState
      <3> QED BY <1>2, <3>1, <3>2, <3>4 DEF Typed
    <2>4. CASE NoteLocked(t)
      <3>1. PICK r \in Complaints(node) : Conclude(t, "write", Reveals(r))
        BY <2>4 DEF NoteLocked
      <3>2. /\ node' = node
            /\ been' = been \cup {IF node.locked THEN "Locked" ELSE "Unlocked"}
        BY <2>4 DEF NoteLocked
      <3>3. Reveals(r) = IF node.locked THEN "Locked" ELSE "Unlocked"
        BY <1>2, Revealed
      <3>4. TrueState(node) \in been
        BY <1>1, <1>2 DEF Believed
      <3> QED BY <1>2, <3>1, <3>2, <3>3, <3>4 DEF Typed
    <2> QED BY <2>1, <2>2, <2>3, <2>4 DEF Hook
  <1>4. PICK l \in Writing, s \in NodeState : Learns(l, s)
    BY <1>3
  <1>5. TasksInv'
    BY <1>1, <1>2, <1>4, Concluding
  <1>6. Typed'
    BY <1>1, <1>2, <1>3 DEF Typed
  <1>7. Believed'
    BY <1>1, <1>2, <1>3, <1>4 DEF Believed, StateWasTrue
  <1> QED BY <1>5, <1>6, <1>7 DEF Inv

\* A write puts into the mirror what the node has been.
LEMMA WriteKeeps ==
  ASSUME Inv, NEW t \in Tasks, Write(t)
  PROVE  Inv'
  <1>1. /\ pc[t] \in Writing /\ pc[t] # "idle"
        /\ UNCHANGED <<node, imported, been, changes, faults>>
        /\ state' = verdict[t]
    BY DEF Write, WriteState, FirstWrite, ReconcileWrite, Writing
  <1>2. Typed /\ TasksInv /\ Believed
    BY DEF Inv
  <1>3. verdict[t] \in NodeState /\ verdict[t] \in been
    BY <1>1, <1>2 DEF TasksInv
  <1>4. process # "off" /\ TrueState(node) \in been
    BY <1>1, Running
  <1>5. CASE Stopped
    <2>1. TasksInv' /\ process' = "off" /\ \A s \in Tasks : pc'[s] = "idle"
      BY <1>5, Stopping
    <2> QED BY <1>1, <1>2, <1>3, <2>1 DEF Inv, Typed, Believed, StateWasTrue
  <1>6. ASSUME NEW l \in {"idle", "probe", "call"}, pc' = [pc EXCEPT ![t] = l],
               verdict' = [verdict EXCEPT ![t] = NULL],
               process' \in {process, "serving"}
        PROVE  Inv'
    <2>1. l \in Label \ Writing /\ l # "network"
      BY DEF Label, Writing
    <2>2. TasksInv'
      BY <1>1, <1>2, <1>6, <2>1, Dropping
    <2>3. Typed'
      BY <1>1, <1>2, <1>3, <1>6 DEF Typed
    <2>4. Believed'
      BY <1>1, <1>3, <1>4, <1>6 DEF Believed, StateWasTrue
    <2> QED BY <2>2, <2>3, <2>4 DEF Inv
  <1>7. CASE WriteState(t)
    BY <1>6, <1>7 DEF WriteState
  <1>8. CASE FirstWrite(t)
    BY <1>5, <1>6, <1>8 DEF FirstWrite
  <1>9. CASE ReconcileWrite(t)
    BY <1>6, <1>9 DEF ReconcileWrite
  <1> QED BY <1>7, <1>8, <1>9 DEF Write

\* Every step keeps the inductive invariant.
LEMMA InvNext == Inv /\ [Next]_vars => Inv'
  <1> SUFFICES ASSUME Inv, [Next]_vars PROVE Inv'
    OBVIOUS
  <1>0. Typed /\ TasksInv /\ Believed /\ node \in Node
    BY DEF Inv, Typed
  <1>1. ASSUME NEW n \in Node, NodeChanges(n) PROVE Inv'
    <2>1. /\ node' = n /\ been' = been \cup {TrueState(n)}
          /\ changes < MaxChanges /\ changes' = changes + 1
          /\ UNCHANGED <<state, process, pc, verdict, imported, faults>>
      BY <1>1 DEF NodeChanges
    <2>2. TrueState(n) \in NodeState
      BY TrueStateTyped
    <2>3. changes' \in 0..MaxChanges
      BY <1>0, <2>1, TrackerAssumption DEF Typed
    <2>4. Typed'
      BY <1>0, <2>1, <2>2, <2>3 DEF Typed
    <2>5. TasksInv'
      BY <1>0, <2>1 DEF TasksInv
    <2>6. Believed'
      BY <1>0, <2>1 DEF Believed, StateWasTrue
    <2> QED BY <2>4, <2>5, <2>6 DEF Inv
  <1>2. ASSUME NEW t \in Mains, Start(t) PROVE Inv'
    <2>1. /\ process = "off" /\ process' = "starting"
          /\ been' = {TrueState(node)} /\ Goto(t, "probe") /\ t \in Tasks
          /\ UNCHANGED <<node, state, imported, changes, faults>>
      BY <1>2 DEF Start, Tasks, Reconcilers
    <2>2. TrueState(node) \in NodeState
      BY <1>0, TrueStateTyped
    <2>3. \A s \in Tasks : pc[s] = "idle" /\ verdict[s] = NULL
      BY <1>0, <2>1 DEF Believed, TasksInv, Writing
    <2>4. pc' = [pc EXCEPT ![t] = "probe"] /\ verdict' = verdict
      BY <2>1 DEF Goto
    <2>5. TasksInv'
      BY <1>0, <2>1, <2>3, <2>4 DEF TasksInv, Label, Writing
    <2>6. Typed'
      BY <1>0, <2>1, <2>2 DEF Typed
    <2> QED BY <2>1, <2>5, <2>6 DEF Inv, Believed, StateWasTrue
  <1>3. CASE Stop
    <2>1. TasksInv' /\ process' = "off" /\ \A s \in Tasks : pc'[s] = "idle"
      BY <1>3, Stopping DEF Stop
    <2>2. UNCHANGED <<node, state, imported, been, changes>> /\ faults' \in 0..MaxFaults
      BY <1>0, <1>3, TrackerAssumption DEF Stop, Fault, Typed
    <2> QED BY <1>0, <2>1, <2>2 DEF Inv, Typed, Believed, StateWasTrue
  <1>4. ASSUME NEW t \in Loops, Wake(t) PROVE Inv'
    <2>1. /\ t \in Tasks /\ process = "serving" /\ pc[t] = "idle"
          /\ Goto(t, "call") \/ Goto(t, "probe") \/ UNCHANGED <<pc, verdict>>
          /\ UNCHANGED <<node, state, process, imported, been, changes, faults>>
      BY <1>4 DEF Wake, Tasks
    <2>2. {"call", "probe"} \subseteq Label \ Writing /\ "idle" \notin Writing
      BY DEF Label, Writing
    <2>3. TasksInv'
      <3>1. CASE Goto(t, "call") \/ Goto(t, "probe")
        BY <1>0, <2>1, <2>2, <3>1, Going
      <3>2. CASE UNCHANGED <<pc, verdict>>
        BY <1>0, <2>1, <3>2 DEF TasksInv
      <3> QED BY <2>1, <3>1, <3>2
    <2> QED BY <1>0, <2>1, <2>3, TaskStep DEF Typed
  <1>5. ASSUME NEW t \in Clients, Hook(t) PROVE Inv'
    BY <1>5, HookKeeps
  <1>6. ASSUME NEW t \in Tasks, Probe(t) PROVE Inv'
    BY <1>6, ProbeKeeps
  <1>7. ASSUME NEW t \in Tasks, Pass(t) PROVE Inv'
    BY <1>7, PassKeeps
  <1>8. ASSUME NEW t \in Tasks, Write(t) PROVE Inv'
    BY <1>8, WriteKeeps
  <1>9. ASSUME NEW t \in Tasks, Error(t) PROVE Inv'
    <2>1. faults' \in 0..MaxFaults
      BY <1>0, <1>9, TrackerAssumption DEF Error, Fault, Typed
    <2> QED BY <1>9, <2>1, FailsKeeps DEF Error
  <1>10. CASE UNCHANGED vars
    BY <1>0, <1>10 DEF Inv, Typed, TasksInv, Believed, StateWasTrue, vars
  <1> QED
    BY <1>1, <1>2, <1>3, <1>4, <1>5, <1>6, <1>7, <1>8, <1>9, <1>10 DEF Next

\* The inductive invariant holds in every reachable state.
LEMMA Invariant == Spec => []Inv
  <1> QED BY InvInit, InvNext, PTL DEF Spec

\* Every variable keeps its type, and a task has a state in hand exactly when it
\* is about to write one.
THEOREM TypeCorrect == Spec => []TypeOK
  <1> QED BY Invariant, InvTypes, PTL

\* For any number of tasks, changes and restarts, what the companion says of the
\* node has been true of it since the process started.
THEOREM StateTrue == Spec => []StateWasTrue
  <1>1. Inv => StateWasTrue
    BY DEF Inv, Believed
  <1> QED BY <1>1, Invariant, PTL

=============================================================================
