---------------------------- MODULE TransferSync ----------------------------
(***************************************************************************)
(* The RGB transfer mirror: rows of the transfers table, the transfer part *)
(* of the webhook outbox, and every task that touches them.  The refresh   *)
(* loop, the reaper, full syncs, operator refresh/fail calls and the asset *)
(* syncs spawned by hooks all work under the engine lock; the /rgbinvoice  *)
(* and /sendrgb hooks write rows without it.  The node is external: it is  *)
(* modelled by what the companion asks of it and reads from it.            *)
(***************************************************************************)
EXTENDS Naturals, Sequences, FiniteSets, Statuses

CONSTANTS
    Receives,     \* transfers created by /rgbinvoice; names a recipient id too
    Sends,        \* transfers created by /sendrgb, one per asset of a call
    Assets,       \* asset ids
    Txids,        \* /sendrgb calls, named by the txid they answer with
    AssetOf,      \* the asset of each transfer
    TxOf,         \* the call (txid) of each send
    Agnostic,     \* receives whose invoice names no asset
    Donations,    \* calls sent with donation = true
    Refreshers,   \* refresh loop (run_refresh_loop; the app spawns one)
    Reapers,      \* reaper loop (run_reaper; the app spawns one)
    Timers,       \* periodic full sync (run_full_sync_timer)
    Reconcilers,  \* reconcile at startup and after /unlock
    Operators,    \* proxied /refreshtransfers and /failtransfers calls
    Issues,       \* asset syncs spawned by issue, inflate and assetlink
    Stages,       \* waiting statuses the node may show
    Broken,       \* receives whose /failtransfers may answer another API error
    MaxFaults,    \* bound on errors, timeouts, disconnects and crashes
    NULL

Transfers == Receives \cup Sends
FullSyncs == Timers \cup Reconcilers
AssetTasks == Issues \cup Txids
Tasks == Refreshers \cup Reapers \cup FullSyncs \cup Operators \cup AssetTasks

ASSUME TransfersAssumption ==
    /\ Receives \cap Sends = {}
    /\ AssetOf \in [Transfers -> Assets]
    /\ TxOf \in [Sends -> Txids]
    /\ Agnostic \subseteq Receives
    /\ Broken \subseteq Receives
    /\ Donations \subseteq Txids
    /\ Stages \subseteq TransferStatus \ TransferTerminal

\* A recipient_map is keyed by asset: one call has one leg per asset.
ASSUME LegsAssumption ==
    \A s, u \in Sends : TxOf[s] = TxOf[u] /\ AssetOf[s] = AssetOf[u] => s = u

ASSUME TasksAssumption ==
    /\ Refreshers \cap (Reapers \cup FullSyncs \cup Operators \cup AssetTasks) = {}
    /\ Reapers \cap (Refreshers \cup FullSyncs \cup Operators \cup AssetTasks) = {}
    /\ FullSyncs \cap (Operators \cup AssetTasks) = {}
    /\ Timers \cap Reconcilers = {}
    /\ Operators \cap AssetTasks = {}
    /\ Issues \cap Txids = {}

ASSUME NullAssumption ==
    /\ NULL \notin Transfers \cup Assets \cup Txids \cup Tasks
    /\ MaxFaults \in Nat

VARIABLES
    node,      \* the node's own status of each transfer
    orphans,   \* refreshes the node still executes after their caller gave up
    passed,    \* receives whose expiration timestamp has passed
    unlocked,  \* node_state = Unlocked in the mirror
    rows,      \* the transfers table in rowid order
    outbox,    \* the transfer events of webhook_outbox in rowid order
    hooks,     \* answered /rgbinvoice calls whose hook has yet to run
    sending,   \* per answered /sendrgb call, the rows its hook has yet to insert
    lock,      \* holder of the engine lock
    pc,        \* where each task is
    todo,      \* asset ids (NULL: the assetless listing) a sync has yet to list
    seen,      \* listed transfers a sync has yet to observe
    got,       \* the transition planned from the row just read
    victims,   \* expired rows the reaper has yet to try
    faults

nodeVars == <<node, orphans, passed>>
mirrorVars == <<rows, outbox>>
hookVars == <<hooks, sending>>
workVars == <<todo, seen, got, victims>>
vars == <<nodeVars, unlocked, mirrorVars, hookVars, lock, pc, workVars, faults>>

-----------------------------------------------------------------------------
Row == [idx    : Transfers \cup {NULL},
        asset  : Assets \cup {NULL},
        status : TransferStatus,
        recip  : Transfers \cup {NULL},
        txid   : Txids \cup {NULL},
        batch  : Receives \cup {NULL}]

Event == [row : Nat \ {0}, from : TransferStatus, to : TransferStatus]
Observation == [idx : Transfers, asset : Assets \cup {NULL}, status : TransferStatus]
Plan == [row : Nat \ {0}, from : TransferStatus, to : TransferStatus]
Victim == [row : Nat \ {0}, from : TransferStatus, batch : Receives]

PendingRows == {i \in DOMAIN rows : rows[i].status \in Waiting}

Legs(b) == {s \in Sends : TxOf[s] = b}

\* An agnostic receive is listed under its asset once the counterparty sent.
ListedUnder(x) ==
    IF x \in Agnostic /\ node[x] \notin {"WaitingConfirmations", "Settled"}
    THEN NULL
    ELSE AssetOf[x]

OnNode == {x \in Transfers : node[x] # "Absent"}

NodeAssets == {ListedUnder(x) : x \in OnNode} \ {NULL}

\* Mutants of AllListings: the assetless listing only; no assetless listing.
AssetlessOnly == {NULL}

NamedOnly == NodeAssets

\* What a sync of everything lists: the assetless transfers and every asset's.
AllListings == {NULL} \cup NodeAssets

TxidOf(x) == IF x \in Sends THEN TxOf[x] ELSE NULL

\* Mutants of Matches: no lookup by index; an asset's rows matched whatever
\* their call.
MatchesUnbound(row, o) ==
    row.idx = NULL /\ row.recip = o.idx

MatchesAsset(row, o) ==
    row.idx = o.idx \/ (row.idx = NULL /\ row.asset = o.asset)

\* The WHERE clause of upsert_observed's SELECT.
Matches(row, o) ==
    \/ row.idx = o.idx
    \/ /\ row.idx = NULL
       /\ \/ row.recip = o.idx
          \/ /\ row.txid # NULL /\ row.txid = TxidOf(o.idx)
             /\ o.asset # NULL /\ row.asset = o.asset

\* The CASE of its ORDER BY.
MatchClass(row, o) ==
    IF row.idx = o.idx THEN 0 ELSE IF row.recip = o.idx THEN 1 ELSE 2

\* The row LIMIT 1 leaves.
FirstMatch(i, o) ==
    /\ Matches(rows[i], o)
    /\ \A j \in DOMAIN rows :
         Matches(rows[j], o) =>
            \/ MatchClass(rows[i], o) < MatchClass(rows[j], o)
            \/ MatchClass(rows[i], o) = MatchClass(rows[j], o) /\ i <= j

\* Mutants of Expired: rows without a batch index are not skipped; rows that
\* have no asset yet are.
ExpiredUnchecked ==
    {i \in DOMAIN rows :
        rows[i].status \in Fallible /\ rows[i].batch \in passed \cup {NULL}}

ExpiredWithAsset ==
    {i \in DOMAIN rows :
        /\ rows[i].status \in Fallible /\ rows[i].asset # NULL
        /\ rows[i].batch # NULL /\ rows[i].batch \in passed}

\* Rows expired_fallible returns and reap does not skip.
Expired ==
    {i \in DOMAIN rows :
        /\ rows[i].status \in Fallible
        /\ rows[i].batch # NULL
        /\ rows[i].batch \in passed}

FirstVictim(t, v) ==
    v \in victims[t] /\ \A w \in victims[t] : v.row <= w.row

InCall(t) == pc[t] \in {"refresh", "fail", "fetch", "sync", "reap"}

InRefresh == {t \in Tasks : pc[t] = "refresh"}

Refreshing == orphans > 0 \/ InRefresh # {}

-----------------------------------------------------------------------------
Init ==
    /\ node = [x \in Transfers |-> "Absent"]
    /\ orphans = 0
    /\ passed = {}
    /\ unlocked = FALSE
    /\ rows = <<>>
    /\ outbox = <<>>
    /\ hooks = {}
    /\ sending = [b \in Txids |-> {}]
    /\ lock = NULL
    /\ pc = [t \in Tasks |-> "idle"]
    /\ todo = [t \in Tasks |-> {}]
    /\ seen = [t \in Tasks |-> {}]
    /\ got = [t \in Tasks |-> NULL]
    /\ victims = [t \in Tasks |-> {}]
    /\ faults = 0

Fault == faults < MaxFaults /\ faults' = faults + 1

(* The node *)

\* A transfer moves while the node executes a refresh.
NodeAdvance(x, to) ==
    /\ Refreshing
    /\ x \in OnNode
    /\ to \in Stages \cup TransferTerminal
    /\ Advances(node[x], to)
    /\ to = "Failed" => node[x] \in Fallible
    /\ node' = [node EXCEPT ![x] = to]
    /\ UNCHANGED <<orphans, passed, unlocked, mirrorVars, hookVars, lock, pc,
                   workVars, faults>>

Expire(r) ==
    /\ r \in OnNode \ passed
    /\ passed' = passed \cup {r}
    /\ UNCHANGED <<node, orphans, unlocked, mirrorVars, hookVars, lock, pc,
                   workVars, faults>>

\* A refresh whose caller has gone still ends in the node.
OrphanEnds ==
    /\ orphans > 0
    /\ orphans' = orphans - 1
    /\ UNCHANGED <<node, passed, unlocked, mirrorVars, hookVars, lock, pc,
                   workVars, faults>>

\* The mirror learns that the node is unlocked: a probe, the /unlock hook or
\* a 403 that reveals the state.
Resume ==
    /\ ~unlocked
    /\ unlocked' = TRUE
    /\ UNCHANGED <<nodeVars, mirrorVars, hookVars, lock, pc, workVars, faults>>

\* The mirror learns that it is not: /lock, /shutdown, a failed probe.
Pause ==
    /\ Fault
    /\ unlocked
    /\ unlocked' = FALSE
    /\ UNCHANGED <<nodeVars, mirrorVars, hookVars, lock, pc, workVars>>

(* The hooks: they run after the node answered, without the engine lock *)

\* The node answers /rgbinvoice.
Invoice(r) ==
    /\ node[r] = "Absent"
    /\ node' = [node EXCEPT ![r] = "WaitingCounterparty"]
    /\ hooks' = hooks \cup {r}
    /\ UNCHANGED <<orphans, passed, unlocked, mirrorVars, sending, lock, pc,
                   workVars, faults>>

\* Mutant of OnConflict: the conflicting insert overwrites the status too.
OnConflictReset(row, r) ==
    [row EXCEPT !.batch = r, !.status = "WaitingCounterparty"]

\* ON CONFLICT of insert_transfer: a row with this recipient id keeps its status
\* and asset.
OnConflict(row, r) == [row EXCEPT !.batch = r]

\* insert_transfer
InvoiceHook(r) ==
    /\ r \in hooks
    /\ hooks' = hooks \ {r}
    /\ IF \E i \in DOMAIN rows : rows[i].recip = r
       THEN rows' = [i \in DOMAIN rows |->
                        IF rows[i].recip = r
                        THEN OnConflict(rows[i], r)
                        ELSE rows[i]]
       ELSE rows' = Append(rows,
                [idx |-> NULL, status |-> "WaitingCounterparty", txid |-> NULL,
                 asset |-> IF r \in Agnostic THEN NULL ELSE AssetOf[r],
                 recip |-> r, batch |-> r])
    /\ UNCHANGED <<nodeVars, unlocked, outbox, sending, lock, pc, workVars, faults>>

SentStatus(b) ==
    IF b \in Donations THEN "WaitingConfirmations" ELSE "WaitingCounterparty"

\* The node answers /sendrgb with one txid and one transfer per asset.
SendRgb(b) ==
    /\ Legs(b) # {}
    /\ \A s \in Legs(b) : node[s] = "Absent"
    /\ node' = [x \in Transfers |-> IF x \in Legs(b) THEN SentStatus(b) ELSE node[x]]
    /\ sending' = [sending EXCEPT ![b] = {AssetOf[s] : s \in Legs(b)}]
    /\ UNCHANGED <<orphans, passed, unlocked, mirrorVars, hooks, lock, pc,
                   workVars, faults>>

\* One insert of the hook's loop; after the last one the asset sync is spawned.
SendHook(b, a) ==
    /\ a \in sending[b]
    /\ sending' = [sending EXCEPT ![b] = @ \ {a}]
    /\ rows' = Append(rows,
            [idx |-> NULL, asset |-> a, status |-> SentStatus(b),
             recip |-> NULL, txid |-> b, batch |-> NULL])
    /\ IF sending[b] = {a}
       THEN /\ pc' = [pc EXCEPT ![b] = "waiting"]
            /\ todo' = [todo EXCEPT ![b] = {AssetOf[s] : s \in Legs(b)}]
       ELSE UNCHANGED <<pc, todo>>
    /\ UNCHANGED <<nodeVars, unlocked, outbox, hooks, lock, seen, got, victims, faults>>

\* The client disconnects, the body does not parse or an insert fails.
LoseHook ==
    /\ Fault
    /\ \/ /\ \E r \in hooks : hooks' = hooks \ {r}
          /\ UNCHANGED sending
       \/ /\ \E b \in Txids : /\ sending[b] # {}
                              /\ sending' = [sending EXCEPT ![b] = {}]
          /\ UNCHANGED hooks
    /\ UNCHANGED <<nodeVars, unlocked, mirrorVars, lock, pc, workVars>>

(* Joining the queue for the engine lock *)

Queue(t) ==
    /\ pc[t] = "idle"
    /\ pc' = [pc EXCEPT ![t] = "waiting"]
    /\ UNCHANGED <<nodeVars, unlocked, mirrorVars, hookVars, lock, seen, got,
                   victims, faults>>

\* tick checks the node state and the pending rows before it locks.
Tick(t) == unlocked /\ PendingRows # {} /\ Queue(t) /\ UNCHANGED todo

\* run_reaper and run_full_sync_timer check the node state before they lock.
TimerFires(t) == unlocked /\ Queue(t) /\ UNCHANGED todo

\* Startup, /unlock, or an operator's request: no check.
Call(t) == Queue(t) /\ UNCHANGED todo

SpawnAssetSync(t, ids) ==
    /\ Queue(t)
    /\ todo' = [todo EXCEPT ![t] = ids]

(* Taking the lock *)

\* Mutant of Acquire: the work is not done under the lock.
AcquireUnguarded(t) ==
    /\ pc[t] = "waiting"
    /\ lock' = t

Acquire(t) ==
    /\ pc[t] = "waiting"
    /\ lock = NULL
    /\ lock' = t

\* tick, and sync_pending for /refreshtransfers.
StartRefresh(t) ==
    /\ t \in Refreshers \cup Operators
    /\ Acquire(t)
    /\ pc' = [pc EXCEPT ![t] = "refresh"]
    /\ UNCHANGED <<nodeVars, unlocked, mirrorVars, hookVars, workVars, faults>>

\* sync_pending for /failtransfers.
StartFail(t) ==
    /\ t \in Operators
    /\ Acquire(t)
    /\ pc' = [pc EXCEPT ![t] = "fail"]
    /\ UNCHANGED <<nodeVars, unlocked, mirrorVars, hookVars, workVars, faults>>

StartFullSync(t) ==
    /\ t \in FullSyncs
    /\ Acquire(t)
    /\ pc' = [pc EXCEPT ![t] = "fetch"]
    /\ UNCHANGED <<nodeVars, unlocked, mirrorVars, hookVars, workVars, faults>>

StartAssetSync(t) ==
    /\ t \in AssetTasks
    /\ Acquire(t)
    /\ pc' = [pc EXCEPT ![t] = "sync"]
    /\ UNCHANGED <<nodeVars, unlocked, mirrorVars, hookVars, workVars, faults>>

StartReap(t) ==
    /\ t \in Reapers
    /\ Acquire(t)
    /\ pc' = [pc EXCEPT ![t] = "reap"]
    /\ victims' = [victims EXCEPT ![t] =
            {[row |-> i, from |-> rows[i].status, batch |-> rows[i].batch] : i \in Expired}]
    /\ UNCHANGED <<nodeVars, unlocked, mirrorVars, hookVars, todo, seen, got, faults>>

(* What a task does while it holds the lock *)

Release(t) ==
    /\ lock' = NULL
    /\ pc' = [pc EXCEPT ![t] = "idle"]
    /\ todo' = [todo EXCEPT ![t] = {}]
    /\ seen' = [seen EXCEPT ![t] = {}]
    /\ got' = [got EXCEPT ![t] = NULL]
    /\ victims' = [victims EXCEPT ![t] = {}]

RefreshDone(t) ==
    /\ pc[t] = "refresh"
    /\ pc' = [pc EXCEPT ![t] = "plan"]
    /\ UNCHANGED <<nodeVars, unlocked, mirrorVars, hookVars, lock, workVars, faults>>

\* The node executes an operator's /failtransfers.
FailDone(t, x) ==
    /\ pc[t] = "fail"
    /\ x \in OnNode
    /\ node[x] \in Fallible
    /\ node' = [node EXCEPT ![x] = "Failed"]
    /\ pc' = [pc EXCEPT ![t] = "plan"]
    /\ UNCHANGED <<orphans, passed, unlocked, mirrorVars, hookVars, lock,
                   workVars, faults>>

\* Or it refuses it, and nothing is synced.
FailRefused(t) ==
    /\ pc[t] = "fail"
    /\ Release(t)
    /\ UNCHANGED <<nodeVars, unlocked, mirrorVars, hookVars, faults>>

\* Scope::Pending: the assets of the pending rows; a row without one asks for
\* every asset the node has.
ReadPending(t) ==
    /\ pc[t] = "plan"
    /\ LET ids == {rows[i].asset : i \in PendingRows} IN
        /\ todo' = [todo EXCEPT ![t] = ids]
        /\ pc' = [pc EXCEPT ![t] = IF NULL \in ids THEN "fetch" ELSE "sync"]
    /\ UNCHANGED <<nodeVars, unlocked, mirrorVars, hookVars, lock, seen, got,
                   victims, faults>>

\* list_assets, then the assetless listing is due too.
FetchAssets(t) ==
    /\ pc[t] = "fetch"
    /\ todo' = [todo EXCEPT ![t] = @ \cup AllListings]
    /\ pc' = [pc EXCEPT ![t] = "sync"]
    /\ UNCHANGED <<nodeVars, unlocked, mirrorVars, hookVars, lock, seen, got,
                   victims, faults>>

\* One listing, the assetless one first.
ListTransfers(t, a) ==
    /\ pc[t] = "sync"
    /\ seen[t] = {}
    /\ a \in todo[t]
    /\ NULL \in todo[t] => a = NULL
    /\ todo' = [todo EXCEPT ![t] = @ \ {a}]
    /\ seen' = [seen EXCEPT ![t] =
            {[idx |-> x, asset |-> a, status |-> node[x]] :
                x \in {y \in OnNode : ListedUnder(y) = a}}]
    /\ UNCHANGED <<nodeVars, unlocked, mirrorVars, hookVars, lock, pc, got,
                   victims, faults>>

\* upsert_observed's UPDATE leaves status, recipient and batch alone.
Bind(row, o) ==
    [row EXCEPT !.idx   = o.idx,
                !.asset = IF o.asset # NULL THEN o.asset ELSE @,
                !.txid  = IF TxidOf(o.idx) # NULL THEN TxidOf(o.idx) ELSE @]

\* observe: upsert_observed, then plan_transition on the row it returns.
ObserveKnown(t, o, i) ==
    /\ pc[t] = "sync"
    /\ o \in seen[t]
    /\ i \in DOMAIN rows
    /\ FirstMatch(i, o)
    /\ seen' = [seen EXCEPT ![t] = @ \ {o}]
    /\ rows' = [rows EXCEPT ![i] = Bind(@, o)]
    /\ IF Advances(rows[i].status, o.status)
       THEN /\ got' = [got EXCEPT ![t] =
                   [row |-> i, from |-> rows[i].status, to |-> o.status]]
            /\ pc' = [pc EXCEPT ![t] = "apply"]
       ELSE UNCHANGED <<got, pc>>
    /\ UNCHANGED <<nodeVars, unlocked, outbox, hookVars, lock, todo, victims, faults>>

\* A transfer without a row is inserted as listed: nothing to apply, no event.
ObserveNew(t, o) ==
    /\ pc[t] = "sync"
    /\ o \in seen[t]
    /\ \A i \in DOMAIN rows : ~Matches(rows[i], o)
    /\ seen' = [seen EXCEPT ![t] = @ \ {o}]
    /\ rows' = Append(rows,
            [idx |-> o.idx, asset |-> o.asset, status |-> o.status,
             recip |-> o.idx, txid |-> TxidOf(o.idx), batch |-> NULL])
    /\ UNCHANGED <<nodeVars, unlocked, outbox, hookVars, lock, pc, todo, got,
                   victims, faults>>

\* Mutant of Announce: only what is terminal is announced.
AnnounceTerminal(g) ==
    outbox' = IF g.to \in TransferTerminal THEN Append(outbox, g) ELSE outbox

Announce(g) ==
    outbox' = IF TransferEvent(g.to) # NoEvent THEN Append(outbox, g) ELSE outbox

\* apply_transition: compare-and-set of the status and the event, in one
\* transaction; a move to the same status is none.
Apply(t) ==
    /\ pc[t] = "apply"
    /\ LET g == got[t] IN
        IF g.from # g.to /\ rows[g.row].status = g.from
        THEN /\ rows' = [rows EXCEPT ![g.row].status = g.to]
             /\ Announce(g)
        ELSE UNCHANGED mirrorVars
    /\ got' = [got EXCEPT ![t] = NULL]
    /\ pc' = [pc EXCEPT ![t] = IF t \in Reapers THEN "reap" ELSE "sync"]
    /\ UNCHANGED <<nodeVars, unlocked, hookVars, lock, todo, seen, victims, faults>>

\* The node fails the transfer; the row is moved next, unless the answer, the
\* task or the process is lost in between.
ReapFailed(t, v) ==
    /\ pc[t] = "reap"
    /\ FirstVictim(t, v)
    /\ node[v.batch] \in Fallible
    /\ node' = [node EXCEPT ![v.batch] = "Failed"]
    /\ victims' = [victims EXCEPT ![t] = @ \ {v}]
    /\ got' = [got EXCEPT ![t] = [row |-> v.row, from |-> v.from, to |-> "Failed"]]
    /\ pc' = [pc EXCEPT ![t] = "apply"]
    /\ UNCHANGED <<orphans, passed, unlocked, mirrorVars, hookVars, lock, todo,
                   seen, faults>>

\* Mutant of ReapCannotFail: a refusal moves the row as a failure does.
ReapRefusalFails(t, v) ==
    /\ pc[t] = "reap"
    /\ FirstVictim(t, v)
    /\ node[v.batch] \notin Fallible
    /\ victims' = [victims EXCEPT ![t] = @ \ {v}]
    /\ got' = [got EXCEPT ![t] = [row |-> v.row, from |-> v.from, to |-> "Failed"]]
    /\ pc' = [pc EXCEPT ![t] = "apply"]
    /\ UNCHANGED <<nodeVars, unlocked, mirrorVars, hookVars, lock, todo, seen, faults>>

\* CannotFailBatchTransfer: the node has moved on; the loop continues.
ReapCannotFail(t, v) ==
    /\ pc[t] = "reap"
    /\ FirstVictim(t, v)
    /\ node[v.batch] \notin Fallible
    /\ victims' = [victims EXCEPT ![t] = @ \ {v}]
    /\ UNCHANGED <<nodeVars, unlocked, mirrorVars, hookVars, lock, pc, todo,
                   seen, got, faults>>

\* Any other API error ends the pass.
ReapError(t, v) ==
    /\ pc[t] = "reap"
    /\ FirstVictim(t, v)
    /\ v.batch \in Broken
    /\ Release(t)
    /\ UNCHANGED <<nodeVars, unlocked, mirrorVars, hookVars, faults>>

\* A reconcile that ends well sets the state to unlocked.
Finish(t) ==
    /\ \/ pc[t] = "sync" /\ seen[t] = {} /\ todo[t] = {}
       \/ pc[t] = "reap" /\ victims[t] = {}
    /\ Release(t)
    /\ unlocked' = (unlocked \/ t \in Reconcilers)
    /\ UNCHANGED <<nodeVars, mirrorVars, hookVars, faults>>

(* Failures *)

\* A node or database error, a timeout, or an operator's disconnect ends the
\* task and drops its guard.  The node does not cancel a refresh, and a locked
\* node makes the mirror pause.
Abort(t) ==
    /\ Fault
    /\ lock = t
    /\ Release(t)
    /\ \/ pc[t] = "refresh" /\ orphans' = orphans + 1
       \/ UNCHANGED orphans
    /\ \/ InCall(t) /\ unlocked' = FALSE
       \/ UNCHANGED unlocked
    /\ UNCHANGED <<node, passed, mirrorVars, hookVars>>

\* The companion stops; the database, the node and its refreshes survive.
Crash ==
    /\ Fault
    /\ hooks' = {}
    /\ sending' = [b \in Txids |-> {}]
    /\ lock' = NULL
    /\ pc' = [t \in Tasks |-> "idle"]
    /\ todo' = [t \in Tasks |-> {}]
    /\ seen' = [t \in Tasks |-> {}]
    /\ got' = [t \in Tasks |-> NULL]
    /\ victims' = [t \in Tasks |-> {}]
    /\ orphans' = IF InRefresh # {} THEN orphans + 1 ELSE orphans
    /\ UNCHANGED <<node, passed, unlocked, mirrorVars>>

-----------------------------------------------------------------------------
Environment ==
    \/ \E x \in Transfers, to \in TransferStatus : NodeAdvance(x, to)
    \/ \E r \in Receives : Expire(r) \/ Invoice(r) \/ InvoiceHook(r)
    \/ \E b \in Txids : SendRgb(b) \/ \E a \in Assets : SendHook(b, a)
    \/ OrphanEnds \/ Resume \/ Pause \/ LoseHook \/ Crash

Enter(t) ==
    \/ t \in Refreshers /\ Tick(t)
    \/ t \in Reapers \cup Timers /\ TimerFires(t)
    \/ t \in Reconcilers \cup Operators /\ Call(t)
    \/ t \in Issues /\ \E ids \in SUBSET Assets : ids # {} /\ SpawnAssetSync(t, ids)

Start(t) ==
    \/ StartRefresh(t) \/ StartFail(t) \/ StartFullSync(t)
    \/ StartAssetSync(t) \/ StartReap(t)

\* The task's own steps under the lock, once it runs.
Work(t) ==
    \/ RefreshDone(t) \/ FailRefused(t) \/ ReadPending(t) \/ FetchAssets(t)
    \/ \E x \in Transfers : FailDone(t, x)
    \/ \E a \in Assets \cup {NULL} : ListTransfers(t, a)
    \/ \E o \in seen[t] : ObserveNew(t, o) \/ \E i \in DOMAIN rows : ObserveKnown(t, o, i)
    \/ Apply(t)
    \/ \E v \in victims[t] : ReapFailed(t, v) \/ ReapCannotFail(t, v) \/ ReapError(t, v)
    \/ Finish(t)

Next ==
    \/ Environment
    \/ \E t \in Tasks : Enter(t) \/ Start(t) \/ Work(t) \/ Abort(t)

Spec == Init /\ [][Next]_vars

\* Timers fire, a held lock is worked under until it is released, and the lock
\* is a FIFO mutex, so nobody waits for it forever.
Fairness ==
    /\ WF_vars(Resume)
    /\ \A t \in Tasks : WF_vars(Work(t)) /\ SF_vars(Start(t))
    /\ \A t \in Refreshers \cup Reapers \cup FullSyncs : WF_vars(Enter(t))

FairSpec == Spec /\ Fairness

-----------------------------------------------------------------------------
(* Properties *)

\* Every variable has its type: the rows read back from the database are
\* well-formed, and what is written to the outbox is a webhook event.
TypeOK ==
    /\ node \in [Transfers -> TransferStatus \cup {"Absent"}]
    /\ orphans \in Nat
    /\ passed \subseteq Receives
    /\ unlocked \in BOOLEAN
    /\ rows \in Seq(Row)
    /\ outbox \in Seq(Event)
    /\ \A k \in DOMAIN outbox : TransferEvent(outbox[k].to) \in TransferEvents
    /\ hooks \subseteq Receives
    /\ sending \in [Txids -> SUBSET Assets]
    /\ lock \in Tasks \cup {NULL}
    /\ pc \in [Tasks -> {"idle", "waiting", "refresh", "fail", "plan", "fetch",
                         "sync", "apply", "reap"}]
    /\ todo \in [Tasks -> SUBSET (Assets \cup {NULL})]
    /\ seen \in [Tasks -> SUBSET Observation]
    /\ got \in [Tasks -> Plan \cup {NULL}]
    /\ victims \in [Tasks -> SUBSET Victim]
    /\ faults \in 0..MaxFaults

\* A transition is planned on a row read earlier: by upsert_observed, or by
\* expired_fallible several node calls ago.  When it is applied the row still
\* has the status it was planned from, so the compare-and-set of
\* apply_transition never drops a transition the node reported.
FreshApply ==
    \A t \in Tasks :
        /\ pc[t] = "apply" => rows[got[t].row].status = got[t].from
        /\ \A v \in victims[t] : rows[v.row].status = v.from

Owner(row) == IF row.idx # NULL THEN row.idx ELSE row.recip

\* The mirror follows the node and never runs ahead of it: a row that sync or
\* the reaper moved, or that a late hook re-inserted, is at most as far as the
\* node's own transfer, and it is terminal only as the node's is.
MirrorBehindNode ==
    \A i \in DOMAIN rows :
        LET x == Owner(rows[i]) IN
        x # NULL =>
            /\ Rank(rows[i].status) <= Rank(node[x])
            /\ rows[i].status \in TransferTerminal => node[x] = rows[i].status

\* The webhook events of one row tell one story, whoever wrote them: each
\* starts where an earlier one ended or later, none repeats a status, and
\* nothing follows a terminal event.
EventsInOrder ==
    \A k, l \in DOMAIN outbox :
        k < l /\ outbox[k].row = outbox[l].row =>
            /\ Rank(outbox[k].to) <= Rank(outbox[l].from)
            /\ Rank(outbox[k].to) < Rank(outbox[l].to)
            /\ outbox[k].to \notin TransferTerminal

\* A row bound to a node transfer is the row of that transfer and of no other:
\* whatever matching rule of upsert_observed chose it (index, recipient id, or
\* txid and asset), no row carries another transfer's recipient, call or asset,
\* and no transfer has two bound rows.
BindingSound ==
    /\ \A i \in DOMAIN rows :
        LET x == rows[i].idx IN
        x # NULL =>
            /\ rows[i].recip \in {x, NULL}
            /\ rows[i].batch \in {x, NULL}
            /\ rows[i].txid = TxidOf(x)
            /\ rows[i].asset \in {AssetOf[x], NULL}
            /\ rows[i].asset = NULL => x \in Agnostic
    /\ \A i, j \in DOMAIN rows :
        rows[i].idx = rows[j].idx /\ rows[i].idx # NULL => i = j

\* No write moves a row backwards or out of a terminal status, deletes it, or
\* forgets the transfer it was bound to.
StatusForward ==
    [][\A i \in DOMAIN rows :
        /\ i \in DOMAIN rows'
        /\ rows'[i].status # rows[i].status => Advances(rows[i].status, rows'[i].status)
        /\ rows[i].idx # NULL => rows'[i].idx = rows[i].idx]_vars

\* The status of each row and the events, as AnnouncedMoves sees them.
StatusOf == [i \in DOMAIN rows |-> rows[i].status]

Events ==
    [k \in DOMAIN outbox |->
        [key |-> outbox[k].row, from |-> outbox[k].from, to |-> outbox[k].to]]

Log == INSTANCE AnnouncedMoves
           WITH Statuses <- TransferStatus, Moves <- TransferMoves,
                Announced <- TransferAnnounced, status <- StatusOf, log <- Events

\* docs/webhooks.md:3: a transition and its event are one write.  Whoever writes
\* the tables, a task under the lock or a hook without it, a row that is there
\* only moves by a transition plan_transition allows, with the one event that says
\* from where to where, and no event is written but with such a move.
LogsMoves == Log!Spec

Reported(i) ==
    \E k \in DOMAIN outbox :
        outbox[k].row = i /\ outbox[k].to \in TransferTerminal

RowOf(r) == {i \in DOMAIN rows : rows[i].recip = r}

\* Once a receive with a pending row has ended in the node, its webhook event
\* is written, whatever calls failed or crashed on the way: sync may miss an
\* agnostic receive that moves from the assetless listing to an asset's, but
\* not for ever.
ReceiveReported ==
    \A r \in Receives :
        (/\ \E i \in RowOf(r) : i \in PendingRows
         /\ node[r] \in TransferTerminal)
        ~> (\E i \in RowOf(r) : Reported(i))

\* A transfer whose hook was lost is still mirrored in the end, by a full sync.
EventuallyMirrored ==
    \A x \in Transfers :
        (node[x] # "Absent") ~> (\E i \in DOMAIN rows : rows[i].idx = x)

\* An expired receive is not left waiting for its counterparty for ever: the
\* reaper fails it, or the node has moved it on.  README.md:27 promises it of
\* every transfer; a receive the node may refuse to fail is not counted.
ExpiredReaped ==
    \A r \in Receives \ Broken :
        (r \in passed /\ \E i \in RowOf(r) : rows[i].batch = r)
        ~> (node[r] \notin Fallible)

\* docs/proxy.md:23, of POST /sendrgb: "One row per asset in recipient_map".
OneRowPerLeg ==
    \A i, j \in DOMAIN rows :
        /\ rows[i].txid # NULL
        /\ rows[i].txid = rows[j].txid
        /\ rows[i].asset = rows[j].asset
        => i = j
=============================================================================
