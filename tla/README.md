# TLA+ models of rln-companion

rln-companion sits in front of one RGB Lightning Node (RLN). It forwards the
node's API, keeps a mirror of the node's RGB transfers and Lightning payments in
SQLite, drives the node's refresh, fails expired transfers, and delivers a
webhook for every status change that matters. This directory models it, from the
configuration file to the shutdown, checks the models with TLC on small
instances, and proves the main safety properties of the mirrors, of the node
state, of the webhook dispatcher, of the paged listings and of the request path with
TLAPS for every size.

Paths below are relative to the repository (`src/sync.rs` is the Rust file).

## 1. The system

| Component | State | Operations | Talks to |
| --- | --- | --- | --- |
| Store (`src/store.rs`) | `transfers`, `payments`, `webhook_outbox`, `node_state`, `assets` | `insert_transfer`, `upsert_observed`, `apply_transition`, `upsert_payment*`, `apply_payment_transition`, `expired_fallible`, `pending_*`, `undelivered_events`, `mark_delivered`, `record_attempt` | everything else, by SQLite transactions |
| Sync (`src/sync.rs`) | none | `plan_transition`, `sync` (Full, Assets, Pending), `sync_payments` | node listings, store |
| Engine (`src/engine.rs`) | the engine lock, the wake permit | `tick`, `reap`, `full_sync`, `reconcile`, `probe`, `payments_tick` and their loops | node, sync, store |
| Interceptors (`src/intercept.rs`) | one hook per answered call | hooks of `rgbinvoice`, `sendrgb`, `issue*`, `inflate`, `assetlink`, `refreshtransfers`, `failtransfers`, `init`, `restore`, `unlock`, `lock`, `shutdown`, `keysend`, `sendpayment`, `lninvoice` | proxy, engine, store |
| Dispatcher (`src/webhook.rs`) | one pass at a time | `dispatch_due`, `post` | store, the receiver |
| Proxy (`src/proxy.rs`) | none | `check_path`, `read_body`, `forward`, `note_locked` | node, engine |
| RLN client (`src/rln.rs`) | none | typed calls, pagination, error classes | node |
| API (`src/api.rs`) | none | health, lists, the token | store |
| Configuration and startup (`src/config.rs`, `src/main.rs`, `src/app.rs`) | settings | load, override, validate; probe, bind, serve, drain, close | all |

What is hard in it:

* Two kinds of writers meet in the `transfers` table. Tasks that call the node
  work under the engine lock (`Engine::lock`); the hooks of `/rgbinvoice` and
  `/sendrgb` insert rows without it, before, during or after a sync that sees the
  same transfer.
* A transition is planned on a row read in one transaction and applied in
  another by compare-and-set; what loses the race is dropped without a trace.
* The node is changed first and the mirror second (`reap`, every hook): a lost
  answer, a disconnect or a crash in between leaves them apart.
* The node goes on with a refresh, and with any forwarded call, whose caller gave
  up.
* An asset-agnostic receive is listed without an asset until the counterparty
  sends, and under an asset afterwards.
* The payment poll takes no lock, so the age of what it observes is unbounded
  with respect to the hooks.
* Everybody writes `node_state` after asking the node, without a common lock: the
  startup probe, loops, reconciles and the hooks of clients' calls.
* A listing is many calls; the node changes between its pages.
* Webhooks are at-least-once and in order, with retries, parking and crashes.
* Paths are matched literally, but normalised again before the node sees them.

`PROJECT.json` lists these and the smaller ones under `hazards`, each at its line
with the properties that cover it.

What makes each component correct, in a sentence: a mirrored row follows the node
and never runs ahead, moves only forward and belongs to one transfer; each row's
events tell one story; nothing that ended in the node stays unreported for ever;
events are delivered in order, at most `max_attempts` times plus once a crash; a
settled payment is announced once, last and truthfully; the node state was true at
some moment of this run of the process, follows the node and recovers; a listing
misses nothing, repeats nothing and ends; a hook runs for the calls the node
executed and no others, before the client is answered; nothing starts with
settings that are not sound.

## 2. The modules

| Module | Models | Kind |
| --- | --- | --- |
| `Statuses` | the status enums of `store.rs`, `rank`, `plan_transition`, `plan_payment_transition` | pure operators |
| `AnnouncedMoves` | what `docs/webhooks.md` (its first sentence) promises of a mirror: a transition and its event are one write | abstract specification |
| `AnnouncedMoves_proofs` | what a subscriber may conclude from it | proofs |
| `TransferSync` | the transfer mirror and every task and hook that writes it; implements `AnnouncedMoves` | state machine |
| `TransferSync_proofs`, `TransferMirror_proofs` | its theorems | proofs |
| `OrderedDelivery` | what `docs/webhooks.md` ("Guarantees") promises of delivery | abstract specification |
| `WebhookDispatch` | the outbox and the dispatcher; implements `OrderedDelivery` | state machine |
| `WebhookDispatch_proofs` | its theorems | proofs |
| `PaymentSync` | the payment mirror, the poll and the hooks; implements `AnnouncedMoves` | state machine |
| `PaymentSync_proofs` | its theorems | proofs |
| `RlnAnswers` | how replies of the node are classified (`classify_error`, `auth_fault`, `fault`, `note_locked`) | pure operators |
| `NodeTracker` | the five node states and everybody who writes them | state machine |
| `NodeTracker_proofs` | its theorems | proofs |
| `RlnListing` | the paged listings against a node that changes | state machine |
| `RlnListing_proofs` | its theorems | proofs |
| `Settings` | the configuration, its overrides and its validation | pure operators |
| `Routes` | routing, the path check, the token | pure operators |
| `Companion` | startup, requests from arrival to answer, shutdown; uses `Settings`, `Routes`, `RlnAnswers` | state machine |
| `Companion_proofs` | its theorems | proofs |
| `MC*` | values for the constants of an instance | model checking |

`NodeTracker`, `RlnListing` and `Companion` share `RlnAnswers`: each takes replies
of the node and decides through the same classification. `TransferSync` and
`PaymentSync` take a listing as one answer and the node state as one Boolean;
`RlnListing` and `NodeTracker` are the detail behind those two abstractions.
`Companion` says when a hook runs and what its client learns; what the hook writes
is in the other modules.

Definitions named `Mutant of ...` in a comment are variants of the definition that
follows them, each with a plausible bug. They are used by no specification. They
document, for every checked property, a change of the code that breaks it.

### AnnouncedMoves

A mirror seen from its webhooks: `status` has the status of each row there is, `log`
the events in creation order. A row is entered at any status and without an event
(`Enter`); it moves by a transition of its kind, and if the new status is announced
the same step appends the event that says from where to where (`Move`). Nothing else
happens: no row is deleted, no event comes without its move. `Told` is what this is
worth to a subscriber: the events of a row leave out no announced status, since each
starts where the one before it ended or at a status that carries no event, and the
row itself is where its last event says or at such a status.

The transfer mirror takes `plan_transition` for the transitions (`TransferMoves`) and
the row's place in the table for its key; the payment mirror takes
`plan_payment_transition` (`PaymentMoves`, which has the retries) and the hash. Both
map their tables to the abstract variables (`StatusOf`, `Events`) and state the
refinement as `LogsMoves`.

### TransferSync

| Variables | In the code |
| --- | --- |
| `rows`, `outbox`, `unlocked` | tables `transfers` and `webhook_outbox` (its transfer events) in rowid order; `node_state = Unlocked` |
| `lock`, `pc`, `todo`, `seen`, `got`, `victims` | the engine mutex and the local variables of each task: the asset ids a `sync` has yet to list, the listing it works through, the `Transition` in hand, the rows `expired_fallible` returned |
| `hooks`, `sending` | answered `/rgbinvoice` calls whose hook has yet to run; rows a `/sendrgb` hook has yet to insert |
| `node`, `orphans`, `passed` | the node's transfers, refreshes it still executes for callers that have gone, expired timestamps (external) |
| `faults` | errors, timeouts, disconnects and crashes so far |

A task is `idle`, `waiting` for the lock, or at a step under it. `tick` and the
timers check the node state before they queue (`Tick`, `TimerFires`) and not
again once they hold the lock; operator calls, reconcile and asset syncs queue
unconditionally (`Call`, `SpawnAssetSync`). Under the lock a refresh
(`StartRefresh`, `RefreshDone`) or an operator's fail (`StartFail`, `FailDone`) is
followed by `ReadPending`, and a full sync by `FetchAssets`; then `ListTransfers`
is one listing call, `ObserveKnown`/`ObserveNew` one `upsert_observed`
transaction, and `Apply` one `apply_transition` transaction. The reaper reads its
victims when it takes the lock and handles each with `ReapFailed`,
`ReapCannotFail` or `ReapError`. Every transaction and every node call is a step
of its own, so hooks, the node, faults and crashes come between any two of them.
`Abort` stands for every error that ends a task, `Crash` for the end of the
process.

Abstractions:

* Timers, the wake permit and the backoff may fire at any time.
* `node_state` is one Boolean. Probes, `/unlock`, `/lock`, `/shutdown` and
  `note_locked` are `Resume` and `Pause`; the network check of `reconcile` is
  folded into `Finish` and `Pause`. The five states are `NodeTracker`.
* A recipient id, a batch index and a node index are unique per transfer, so the
  transfer's name stands for all three. The reaper's clock is read when it takes
  the lock; the code reads it a little earlier and sees no more.
* `expired_fallible` orders by `created_at, rowid`; the model by rowid.
* Assets, invoices, kinds and timestamps other than expiry do not influence
  control and are left out; `last_full_sync_at` is only reported.
* A sync of several assets takes them in any order after the assetless listing
  (the code: in id order).
* The node moves transfers only while a refresh is running: README.md ("used only
  through the companion", "the companion drives refresh by itself"). A listing
  is one atomic answer; `RlnListing` shows what that is worth.
* An operator's fail is followed by a sync of the pending rows whatever the node
  says it changed: `fail_transfer` reads the answer for errors only and ignores
  `transfers_changed`.

### WebhookDispatch and OrderedDelivery

`outbox` is `webhook_outbox` in rowid order: attempts, the distance to
`next_attempt_at`, and whether `delivered_at` is set. `CreateEvent` is the insert
of any other task. `StartPass` reads the page of undelivered events once and
keeps the due prefix (the `break` on the first event that is not due, evaluated
with the `now` of the pass). `Post`, then `Answered` (accepted and a 2xx),
`Refused`, or `TimedOut` (the client gives up after 30 seconds), then
`MarkDelivered` or `RecordAttempt`, which ends the pass. `Stop` is a crash or a
database error at any point between. A post that was given up on, or in flight at a
crash, counts in `late` until `AcceptedLate`: the receiver may accept it at any
later time, or never. `age` is how old the pass is, since retries are computed
from its start. `BackoffDelay` computes in words of `WordBits` bits: a shift by the
width or more yields the largest word, and the product saturates (64 bits in the
code; the instance takes 3 so that both happen).

`OrderedDelivery` knows open, done and parked events: the oldest open one may be
accepted any number of times, closed once it was accepted, parked, or its offer
abandoned, and only an abandoned offer may be accepted later. The
refinement `DeliversInOrder` maps an event to done when `delivered_at` is set and
to parked when its attempts reached `max_attempts`.

### PaymentSync

`rows` holds the status of each hash, `poll`/`seen`/`got`/`first` the locals of
`sync_payments`, `call`/`answer`/`plan` those of a `keysend` or `sendpayment`
handler. The poll lists (`PollList`), then reads the baseline, then per payment
inserts (`PollObserve`) and applies (`PollApply`) in two transactions;
`PollFinish` sets the baseline after a first whole pass. `HookInsert` and
`HookApply` are the two transactions of `record_outbound_payment`. `silent` is a
history variable: the rows backfilled as terminal. The node may retry a failed hash (`Pay`). `Stages` is
what each payment can become, `Calls` the handlers that may pay it.

### RlnAnswers and NodeTracker

| Variables | In the code |
| --- | --- |
| `node` | external: reachable, locked, on another network than `rln.network`, refusing `rln.token` |
| `state` | `node_state` in the database, which survives the process |
| `process`, `pc`, `verdict` | how far `run` has come, where each task is, and the state it is about to write |
| `imported`, `been` | history: foreign rows were mirrored; what the node has been since the process started |

A probe is two calls and a write (`ProbeInfo`, `CheckNetwork`, `WriteState`), each a
step of its own; a pass of a loop looks at the state (`Wake`), makes calls or, for the
refresh loop and the reaper, finds nothing to do (`MayIdle`), and takes note of a locked or unreachable node (`CallLocked`, `CallUnreachable`).
Reconciles end with `ReconcileWrite`, after `run`'s first probe or after an
`/unlock`, and may try again until `reconcile_max_wait_secs`. Hooks (`Unlock`,
`Lock`, `Shutdown`, `NoteLocked`) learn from a client's call. The engine lock is
left out: it does not guard `node_state`, so it can only remove interleavings.
A token that is revoked, or a node swapped for one of another network, while the
state is Unlocked goes unnoticed by the loops, since only probes and
`check_network` ask `auth_fault`; the properties say so by what they leave out
(`Notices` is about locked and unreachable nodes). `Notices` rests on the poll of
the payments, the one loop that asks the node in every pass: a refresh loop without a
pending row would never find out.

### RlnListing

`Begin` starts `list` or `list_payments` with a page size at least 1 (a full sync
asks for at least `FULL_MIN_PAGE_SIZE`); `TransfersPage` and `PaymentsPage` are
turns of their loops. Between turns the node creates entries (`Create`) and
entries leave the filter (`Leave`, an agnostic receive that got its asset). A `Page`
is what the node answers: its k-th entry is the one below the offset with k - 1
newer ones.
`honours` says whether the node knows `index_offset` at all. `stable` remembers the
entries that matched throughout; `repeated` what was listed twice.

### Settings, Routes and Companion

`Settings` has the sections of `config.rs` with their defaults, `ApplyOverrides` of
`main.rs` and `Validate`, whose checks run in the code's order. A URL is what
parsing it yields: a scheme and a class of hosts that `is_private_host` tells
apart; `Text` is what a token, a path or a secret may hold, `Unset` the empty one. The
check for a URL without a host is left out: an http or https URL always has one.

`Routes` matches a path, a sequence of segments, as the router does; `CheckPath` is
the proxy's and `NodePath` what the HTTP client and the node make of the path
afterwards, segment by segment (external: dots and empty segments from the comment at
`src/proxy.rs:153`, backslashes from the client's URL standard, where they are
slashes). A segment with a percent sign (`Encoded`) or a backslash (`Backslashed`)
stands for other segments; which ones is a constant, `Reading`.

`Companion` runs from `Load` to `Drained`. A request arrives, is routed, and is
answered locally (`Local`, `HealthRead`, `HealthAnswer`) or forwarded: an operator's
refresh or fail first takes the engine lock (`TakeLock`), `Forward` checks path and
body, `Execute` is the node, which replies anything of `Replies` (in the runs a success,
one that does not parse, its own 401, and the 403 of a locked node), `Unanswered` the proxy's 502 and 504, `Hook` and `Note`
what runs before the client is answered. A client may leave at any point
(`Disconnect`), which drops the handler and its guard, though not the call the node
already has. `Background` is whoever else takes the lock; `BackgroundWrite` changes
what health reports. `moments` remembers what health was while a health request
was being answered.

## 3. What the runs check

Sizes are distinct states. Every run finishes in under five minutes with two
workers; `sends`, `service`, `polling` (about three minutes each) and `dispatch` take
longest.

| Run | Instance | Shows |
| --- | --- | --- |
| `receives` | one agnostic receive, all six kinds of tasks, one fault (637k) | `TypeOK`, `FreshApply`, `MirrorBehindNode`, `EventsInOrder`, `StatusForward`, `LogsMoves` |
| `sends` | a call with two legs and a donation that shares an asset with it, full syncs and the asset syncs of the hooks, one fault, fairness (197k) | `MirrorBehindNode`, `BindingSound`, `EventuallyMirrored` |
| `recovery` | one agnostic receive, refresher, reaper, timer, two faults, fairness (35k) | `ReceiveReported`, `EventuallyMirrored`, `ExpiredReaped` |
| `dispatch` | three events, page of two, two attempts, one crash, late answers, words of three bits, fairness (349k) | `TypeOK`, `FirstInFirstOut`, `DuplicatesBounded`, `BackoffExact`, `DeliversInOrder`, `EventuallyClosed` |
| `polling` | a hash paid and retried by two calls and one that is invoiced or arrives by itself, polled across the baseline, one fault, fairness (588k) | `TypeOK`, `SettledOnceAndLast`, `TerminalAnnounced`, `LogsMoves`, `NothingSilentAfterBaseline`, `SettlementAnnounced` |
| `node_state` | startup, refresh loop, payments loop and a client, one change of the node and one fault, fairness (387k) | `TypeOK`, `StateWasTrue`, `Recovers`, `Notices` |
| `listing` | page sizes 0 to 3, five entries of which two may leave, both listings, a node that honours the offset or not, fairness (49k) | `TypeOK`, `Complete`, `NoneTwice`, `Terminates` |
| `service` | settings that pass and settings that fail each check, a client that asks anything, an operator that waits for the lock, one fault, fairness (608k) | `TypeOK`, `SoundBeforeStart`, `NeverBypassed`, `HookMatchesAnswer`, `Guarded`, `NothingLeftBehind`, `HealthWasTrue`, `Answered` |

`LogsMoves` is the refinement of `AnnouncedMoves`, in `receives` and in `polling`;
`DeliversInOrder`, in `dispatch`, that of `OrderedDelivery`. In `sends` the node's
transfers stay where they are: the run is about which row belongs to which transfer,
and about the hook of `/sendrgb` that is lost between two of its inserts, whose legs
the timer's sync must find. That a status moves on is the subject of `receives` and
`recovery`.

Four runs show where the program does not do what its documentation or a comment
says; each stops at a counterexample of one property:

| Run | Property | Statement it refutes |
| --- | --- | --- |
| `one_row_per_leg` | `OneRowPerLeg` | docs/proxy.md:23, one row per asset of a send: a full sync that lists the send before the hook's insert leaves two rows, and the second stays pending for ever |
| `blocked_reaper` | `ExpiredReaped` | README.md:27, expired transfers are failed: an unexpected error of one ends every pass before the others |
| `unsettled` | `SettledIsAnnounced` | docs/webhooks.md:63, a payment that succeeded is announced: not if the row is failed and the retry is never seen pending |
| `foreign_import` | `NoForeignImport` | docs/operations.md:13, a reconcile on a network mismatch "returns without syncing": it syncs the whole mirror before `check_network` |

Behaviours seen while modelling and not stated as properties: a refresh that timed
out or whose caller left goes on in the node while the lock is free, so
docs/operations.md:27 does not hold of the node's side (`orphans` counts them); a
payment listing older than a failure makes a failed row Pending again, and the one
failure is announced twice (src/sync.rs:106 speaks of a retry); a `page_size` or a
timeout of 0 is not refused by `validate` (the listing takes 0 as 1); a client's call
that the node refuses as unlocked turns a misconfigured node into an unlocked one
(`NoteLocked`), which docs/operations.md:13 does not foresee; a retry late in a pass
of the dispatcher can be due as soon as it is recorded; `check_path` lets backslashes
pass, which the HTTP client takes for slashes, so the comment at src/proxy.rs:153 and
docs/proxy.md:13 hold of paths without one only, and so does `NeverBypassed`.

`ExpiredReaped` leaves out the receives the node may refuse to fail; `recovery` has
none, and there it holds. `SettlementAnnounced` is about a row that is not
terminal; what a row that is already failed can miss is the case of `unsettled`.

Bounds. One or two transfers suffice because tasks touch rows one at a time and
rows meet only in `upsert_observed`'s SELECT, which two transfers that share an
asset, a call, or neither exercise; three or more behave as their pairs. `Stages`
leaves out statuses that behave like the ones kept. `MaxFaults` bounds
how often something goes wrong; one fault leaves every intermediate state a task
can be dropped in, two in `recovery` also lose the repair. A page of two of three
events makes the page limit bite; three bits and up to seven failures reach every
shift from 0 to beyond the width. `node_state` has one task of each role that
differs by what it writes: timers and reapers, which add nothing to a poller but
where they give up, are in the proofs and in `foreign_import`. `MaxChanges` bounds
what the node does by itself, not what clients do to it. Five entries with pages of
one to three give listings of one, two and several pages with changes between any
two of them. Two requests suffice in `service` because requests meet only at the
engine lock and at shutdown. The proofs need none of these bounds.

Deadlock is checked for `receives`, `sends`, `recovery` and `listing`, in which
something can always happen. The outbox, payment, node and service instances do
stop, when all events are closed, all payments final, the bounds on changes used
up with the process down, or the process stopped or failed to start, so their
configurations set CHECK_DEADLOCK FALSE.

Fairness. Loops run for ever and their timers fire (`run_refresh_loop`,
`run_reaper`, `run_full_sync_timer`, `run_payments_loop`, `Dispatcher::run`), hence
weak fairness of the steps that enter a pass. A pass that may find nothing to do is
not forced to make a call: in `NodeTracker` fairness leaves out `MayIdle`. A task that holds the lock goes on
until it lets go, since every call to the node or the receiver has a timeout
(weak fairness of `Work`, `Dispatch`, `Poll`, `Hook`, of the steps of a probe or
pass in `NodeTracker`, of a page in `RlnListing`). tokio's mutex is FIFO, so a
waiting task gets it: strong fairness of `Start`. A probe finds an unlocked node
(`Resume`) in `backoff_probe`. In `Companion` handlers run on, and clients send
the bodies they announce: `read_body` itself has no timeout, so without that
`Answered` would be about clients. Nothing is assumed of the node's progress, of
operators, of the signal, or of how long background work keeps the lock; hence
the exception in `Answered`. Faults are bounded, so they end.

## 4. What is proved

All theorems are for all values of the constants that satisfy the named assumptions
of the modules: disjoint sets of tasks, one leg per asset of a call, bounds that are
numbers, NULL that is none of the values it stands apart from, paths that are
sequences of strings, segments with an escape or a backslash that are not empty or
dots, replies of the node that have a status, and a backoff whose base and cap fit in the word it is computed
in (`WordAssumption`; both are `u64` in the code).

`AnnouncedMoves_proofs`, for any statuses, transitions and announced statuses:

* `EveryMoveTold`: `Spec => []Told`.

`Told` is inductive once the log has the shape of one (`Shaped`). `Enter` adds a row
without events. `Move` ends the row where its new event says, or at a status that
carries none; the new event starts where the row was, which by `Told` is where its
last event ended or a status that carries none; and it follows that event and no
other (`Follows`, `Latest`).

`TransferSync_proofs`:

* `TypeCorrect`: `Spec => []TypeOK`.
* `TransitionsFresh`: `Spec => []FreshApply`.
* `RowsMoveForward`: `Spec => StatusForward`.
* `OneStoryPerRow`: `Spec => []EventsInOrder`.
* `Refinement`: `Spec => LogsMoves`.
* `SubscriberTold`: `Spec => []Log!Told`.

The argument. `FreshApply` is not inductive: it says nothing of who may write a
row meanwhile. `Inv` adds that only the holder of the lock is past `waiting`
(`LockInv`), and that whatever a task has planned lies within the table, starts
at the row's present status and moves it forward (`PlanInv`). A hook may append
rows or set a batch index but changes no status, so it preserves the plans of
the lock's holder (`FrameStep`, `FramePlan`: every step but four leaves statuses
and plans alone); the four that remain are handled one by one in `PlanNext`.
`RowsMoveForward` follows since `Apply` is the only step that changes a status and
it applies a plan of `PlanInv`. For `OneStoryPerRow` the invariant `OutboxInv`
says that a row is at least as far as its last event, so a new event, which
starts at the row's status, comes after all older ones. For `Refinement` a step
either keeps every status, and then writes no event and appends at most one row
(`RowsKept`, `KeptEnters`), or applies a plan of `PlanInv`, and then moves one row and
writes its event in the same step (`Moved`, `MovedLogs`). `SubscriberTold` is
`EveryMoveTold` carried over the refinement: `LogFacts` is an instance of
`AnnouncedMoves_proofs` under the same mapping.

`TransferMirror_proofs`:

* `BoundToOne`: `Spec => []BindingSound`.
* `NeverAhead`: `Spec => []MirrorBehindNode`.

`BindingSound` speaks of bound rows only, so it is not inductive: a row gets its
binding from what it already carries. `BindInv` gives every row one of three shapes
(`Shaped`: bound, left by the hook of `/rgbinvoice`, left by the hook of `/sendrgb`)
and says what a listing may tell of a transfer's asset. `FirstMatch` prefers the
row with the observed index, so no second row is bound to a transfer that has
one, and a row matched by recipient, or by txid and asset, has a shape that fits
(`BoundShaped`). For `NeverAhead` the invariant `BehindInv` says of everything in
hand what the property says of rows: observations (`SeenInv`), plans (`GotInv`)
and the reaper's victims (`VictimsInv`) are behind the node, because it was there
when they were read and only moves forward (`NodeForward`, `BehindKept`). Both hold
without the lock, except that `Apply` needs `FreshApply` to know that the row is
still the one the plan was made for.

`WebhookDispatch_proofs`, for every page limit, backoff, number of attempts, events
and crashes:

* `TypeCorrect`: `Spec => []TypeOK`.
* `InOrder`: `Spec => []FirstInFirstOut`.
* `Duplicates`: `Spec => []DuplicatesBounded`.
* `Refinement`: `Spec => DeliversInOrder`.
* `Backoff`: `Spec => BackoffExact`.

The argument. `OrderInv` says that what a pass has yet to post, together with what
it is posting, is an initial segment of the undelivered events, and that an event
is marked delivered only when the receiver has it. A pass starts with such a
segment because `DuePrefix` is downward closed whatever the page limit
(`PrefixClosed`), and every outcome either removes its first element or ends the
pass. So nothing older than the event in flight, or than one that may land late, is
open (`LogChanges`, `OlderClosed`), which gives the order and, step by step, the
refinement (`StepRefines`). For `Duplicates` the invariant `CountInv` charges every
acceptance, past or still to come, to a counted attempt, to the answer in hand, or
to a crash.

`Backoff` compares a shift and a product that saturate in words of any width with the
plain doubling. The provers know nothing of exponentials, so powers of two are
counted: `2^n` is the number of subsets of `1..n`, and a larger set has no fewer
(`PowersGrow`). `DelayExact` goes through the cases: below the width
the shift is the power, and a product that does not fit exceeds the cap, which does;
from the width on the shift is the largest word, and so is the product unless the
base is 0. That only a recorded failure changes the number of attempts is
`OnlyFailuresCount`.

`PaymentSync_proofs`, for any number of hashes, calls and faults:

* `TypeCorrect`: `Spec => []TypeOK`.
* `SettledFinal`: `Spec => []SettledOnceAndLast`.
* `TerminalRowsAnnounced`: `Spec => []TerminalAnnounced`.
* `Refinement`: `Spec => LogsMoves`.
* `SubscriberTold`: `Spec => []Log!Told`.
* `NothingSilent`: `Spec => NothingSilentAfterBaseline`.

No lock protects a plan here, so the invariant says little of the row and much of
the plan: `InHand` has that whatever the poll or a call holds is a move
`plan_payment_transition` allows from the status it was planned on, and that a
success in hand is one the node has. The compare-and-set then does the rest
(`Applied`): a plan whose row has moved changes nothing, one whose row has not
keeps `Mirror`, which joins the two properties with the fact that a settled webhook
leaves its row Succeeded for good. `OneWrite` is the same case split read as a step of
`AnnouncedMoves`: a stutter, a row that enters, or a move with its event; it gives
the refinement, and `EveryMoveTold` again what a subscriber may rely on, here across
retries of a hash.

`NodeTracker_proofs`, for any number of loops, clients, changes and faults:

* `TypeCorrect`: `Spec => []TypeOK`.
* `StateTrue`: `Spec => []StateWasTrue`.

`StateWasTrue` is about the state that was written; `Believed` says the same of
every state still in a task's hand (`verdict`), which holds because each is concluded
from the node as it is in that step (`Answers`, `AnswerTells` go through the classes
of replies), because `been` only grows while the process runs, and because a stop
or crash empties every hand.

`Companion_proofs`, for any number of requests and faults, and for every
configuration file and command line that has the shape of one (`Config`,
`Overrides`):

* `TypeCorrect`: `Spec => []TypeOK`.
* `StartsSound`: `Spec => []SoundBeforeStart`.
* `HooksMatch`: `Spec => []HookMatchesAnswer`.
* `TokenGuards`: `Spec => []Guarded`.
* `HealthTrue`: `Spec => []HealthWasTrue`.
* `NothingLeft`: `Spec => []NothingLeftBehind`.
* `NoBypass`: `Spec => []NeverBypassed`.

`StartsSound` is two lemmas about `Settings`: overriding gives settings again
(`Overridden`), and settings none of whose checks complains are sound (`Validated`).
The rest is an invariant per request, so a step has to be shown harmless for one
request and a frame does the others (`OneRequest`, `OthersQuiet`). `Came` says how a
request got to its stage, above all that only a proxied route comes to the node and
that an answer of the node is to a call it executed; `Hooked` adds that the hook
stage is entered with an intercepted route and a good reply only, and left by
running the hook and nothing else. `HealthInv` says what the two reads of health
have shown: one bad value means that `degraded` was true at that moment, and once
both are good `ok` was true at the second, because no step takes a parked
event out of its state. `PhaseInv` ties requests to the phases: none before `serving`, a
holder of the engine lock is an open request, none open once stopped.

`NoBypass` is about paths of any length. `NodePath` is a recursive function over the
prefixes of a path, of which the provers know only that it is one that satisfies its
equation, if there is any. In a path that passed the check every segment is taken as it
is (`Taken`), so the function that yields the prefixes themselves satisfies it, and two
functions that follow the recursion from the same start agree (`Agreement`, by an
induction over a set: `Induction`, from the minimum of a well-founded order). A
backslash is the exception, and the theorem's too. So the node sees the path that was routed (`CheckedPath`), and the invariant `Checked` says
that only such paths are sent.

`RlnListing_proofs`, for every page size, 0 included, any number of entries, and
whatever the node creates or moves between two pages:

* `TypeCorrect`: `Spec => []TypeOK`.
* `ListingComplete`: `Spec => []Complete`.
* `NothingTwice`: `Spec => []NoneTwice`.

A page takes entries by how many are newer, and `Ranks` shows that to be a bijection
with `0..n-1` for any finite set of numbers, by counting. Hence `PageHolds`: a page
has the newest entries below the offset and no others, its last entry is the oldest of
it, and a short page has all. `Complete` speaks of listings that have ended, so it is
not inductive: `Sweeps` says of one that goes on that what it has is at the offset or
above, and that what matched throughout is in it or below the offset. New entries come
above every offset and what leaves is not counted, so nothing the node does disturbs
it, and a page moves the offset down to its own last entry (`PageAdvances`).

Only model-checked: the liveness properties (`ReceiveReported`, `EventuallyMirrored`,
`ExpiredReaped`, `EventuallyClosed`, `SettlementAnnounced`, `Recovers`, `Notices`,
`Terminates`, `Answered`), since temporal reasoning with fairness and ENABLED is out
of TLAPS's reach here. Every safety property of a passing run is a theorem.

## 5. Not modelled

* Forwarding of bodies and headers, header filtering, the filters and pages of the
  read-only lists, the conversion between rows and columns in
  `src/store.rs`, webhook signatures: no state that a property could be about, or
  pure I/O.
* The `assets` table: the program writes it and never reads it.
* Detached tasks at shutdown: the asset syncs of hooks and the reconcile after an
  `/unlock` are not among the handles `run` aborts and may still write while the
  store closes.
* A changed configuration between runs, for example a raised `max_attempts`;
  settings of 0 for timeouts.
* Recipient ids used twice, database corruption, clocks that jump back.
* The demo, the deployment files and the end-to-end tests.

## 6. What is left

The two mirrors over one outbox with the dispatcher, to state end-to-end that what
ended in the node reaches the receiver. Today the parts meet in the outbox: `LogsMoves`,
`ReceiveReported` and `SettlementAnnounced` put the event there, `EventuallyClosed` and
`DeliversInOrder` take it from there.
