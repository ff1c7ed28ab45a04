---------------------------- MODULE PaymentSync -----------------------------
(***************************************************************************)
(* The Lightning payment mirror: the poll of /listpayments, which takes no *)
(* lock, and the hooks of /keysend, /sendpayment and /lninvoice, which run *)
(* concurrently with it.  The node is external.                            *)
(***************************************************************************)
EXTENDS Naturals, Sequences, FiniteSets, Statuses

CONSTANTS
    Hashes,       \* payment hashes
    Calls,        \* proxied /keysend and /sendpayment calls
    HashOf,       \* the hash each call pays
    Invoices,     \* hashes of invoices made through /lninvoice
    Stages,       \* statuses the node may move each payment to
    MaxFaults,    \* bound on errors, disconnects and crashes
    NULL

ASSUME CallsAssumption ==
    /\ HashOf \in [Calls -> Hashes]
    /\ Invoices \subseteq Hashes
    /\ Stages \in [Hashes -> SUBSET PaymentStatus]
    /\ MaxFaults \in Nat
    /\ NULL \notin PaymentStatus

VARIABLES
    node,      \* the node's status of each payment
    unlocked,  \* node_state = Unlocked in the mirror
    rows,      \* status of the row of each hash, or NULL
    silent,    \* rows inserted already terminal, before the baseline
    baseline,  \* payments_baseline_at is set
    outbox,    \* the payment events of webhook_outbox in rowid order
    poll,      \* where the poll is
    first,     \* the poll found no baseline
    seen,      \* listed payments the poll has yet to observe
    got,       \* the transition the poll has planned
    call,      \* where each proxied call is
    answer,    \* the status a call answered with
    plan,      \* the transition a call's hook has planned
    hooks,     \* answered /lninvoice calls whose hook has yet to run
    faults

pollVars == <<poll, first, seen, got>>
callVars == <<call, answer, plan, hooks>>
vars == <<node, unlocked, rows, silent, baseline, outbox, pollVars, callVars, faults>>

Transition == [hash : Hashes, from : PaymentStatus, to : PaymentStatus]
Listed == [hash : Hashes, status : PaymentStatus]

-----------------------------------------------------------------------------
Init ==
    /\ node = [h \in Hashes |-> "Absent"]
    /\ unlocked = FALSE
    /\ rows = [h \in Hashes |-> NULL]
    /\ silent = {}
    /\ baseline = FALSE
    /\ outbox = <<>>
    /\ poll = "idle" /\ first = FALSE /\ seen = {} /\ got = NULL
    /\ call = [c \in Calls |-> "new"]
    /\ answer = [c \in Calls |-> NULL]
    /\ plan = [c \in Calls |-> NULL]
    /\ hooks = {}
    /\ faults = 0

Fault == faults < MaxFaults /\ faults' = faults + 1

(* The node *)

\* An inbound keysend arrives over P2P, or an invoice is made: nothing but the
\* latter is announced to the companion.
Inbound(h) ==
    /\ node[h] = "Absent"
    /\ \A c \in Calls : HashOf[c] # h
    /\ node' = [node EXCEPT ![h] = "Pending"]
    /\ hooks' = IF h \in Invoices THEN hooks \cup {h} ELSE hooks
    /\ UNCHANGED <<unlocked, rows, silent, baseline, outbox, pollVars,
                   call, answer, plan, faults>>

NodeAdvance(h, to) ==
    /\ node[h] \in PaymentStatus \ PaymentTerminal
    /\ PaymentRank(to) > PaymentRank(node[h])
    /\ node' = [node EXCEPT ![h] = to]
    /\ UNCHANGED <<unlocked, rows, silent, baseline, outbox, pollVars, callVars, faults>>

\* A payment is sent, or one that failed is retried under the same hash.
Pay(c) ==
    /\ call[c] = "new"
    /\ node[HashOf[c]] \in {"Absent", "Failed", "Cancelled"}
    /\ node' = [node EXCEPT ![HashOf[c]] = "Pending"]
    /\ call' = [call EXCEPT ![c] = "sent"]
    /\ UNCHANGED <<unlocked, rows, silent, baseline, outbox, pollVars,
                   answer, plan, hooks, faults>>

\* The node answers with the payment's status at that moment.
Answer(c) ==
    /\ call[c] = "sent"
    /\ call' = [call EXCEPT ![c] = "answered"]
    /\ answer' = [answer EXCEPT ![c] = node[HashOf[c]]]
    /\ UNCHANGED <<node, unlocked, rows, silent, baseline, outbox, pollVars,
                   plan, hooks, faults>>

Resume ==
    /\ ~unlocked
    /\ unlocked' = TRUE
    /\ UNCHANGED <<node, rows, silent, baseline, outbox, pollVars, callVars, faults>>

\* Also what an error of the poll or a hook does, if the node answers it is
\* locked.
Pause ==
    /\ Fault
    /\ unlocked
    /\ unlocked' = FALSE
    /\ UNCHANGED <<node, rows, silent, baseline, outbox, pollVars, callVars>>

(* Writes shared by the poll and the hooks *)

\* Mutant of Upsert: a known hash takes the observed status.
UpsertOverwrites(h, status) ==
    rows' = [rows EXCEPT ![h] = status]

\* upsert_payment: a known hash keeps its status.
Upsert(h, status) ==
    rows' = [rows EXCEPT ![h] = IF @ = NULL THEN status ELSE @]

\* Mutants of ApplyTransition: no compare-and-set; an event for every move.
ApplyUnchecked(t) ==
    /\ rows' = [rows EXCEPT ![t.hash] = t.to]
    /\ silent' = silent \ {t.hash}
    /\ outbox' = IF PaymentEvent(t.to) # NoEvent THEN Append(outbox, t) ELSE outbox

ApplyAnnounced(t) ==
    /\ rows[t.hash] = t.from
    /\ rows' = [rows EXCEPT ![t.hash] = t.to]
    /\ silent' = silent \ {t.hash}
    /\ outbox' = Append(outbox, t)

\* apply_payment_transition: compare-and-set of the status and the event.
ApplyTransition(t) ==
    IF rows[t.hash] = t.from
    THEN /\ rows' = [rows EXCEPT ![t.hash] = t.to]
         /\ silent' = silent \ {t.hash}
         /\ outbox' = IF PaymentEvent(t.to) # NoEvent THEN Append(outbox, t) ELSE outbox
    ELSE UNCHANGED <<rows, silent, outbox>>

(* The hooks of /keysend, /sendpayment and /lninvoice *)

\* What the handler of a call still has in hand goes with it.
HookEnds(c) ==
    /\ call' = [call EXCEPT ![c] = "done"]
    /\ plan' = [plan EXCEPT ![c] = NULL]

\* record_outbound_payment: insert as Pending, then plan from the row read back.
HookInsert(c) ==
    LET h == HashOf[c] IN
    /\ call[c] = "answered"
    /\ Upsert(h, "Pending")
    /\ IF PaymentAdvances(rows'[h], answer[c])
       THEN /\ plan' = [plan EXCEPT ![c] =
                   [hash |-> h, from |-> rows'[h], to |-> answer[c]]]
            /\ call' = [call EXCEPT ![c] = "planned"]
       ELSE HookEnds(c)
    /\ answer' = [answer EXCEPT ![c] = NULL]
    /\ UNCHANGED <<node, unlocked, silent, baseline, outbox, pollVars, hooks, faults>>

HookApply(c) ==
    /\ call[c] = "planned"
    /\ ApplyTransition(plan[c])
    /\ HookEnds(c)
    /\ UNCHANGED <<node, unlocked, baseline, pollVars, answer, hooks, faults>>

\* lninvoice: the hash is decoded and a Pending row inserted.
InvoiceHook(h) ==
    /\ h \in hooks
    /\ Upsert(h, "Pending")
    /\ hooks' = hooks \ {h}
    /\ UNCHANGED <<node, unlocked, silent, baseline, outbox, pollVars, call,
                   answer, plan, faults>>

\* The answer is lost, the client disconnects or a write fails.
LoseHook ==
    /\ Fault
    /\ \/ /\ \E c \in Calls :
                /\ call[c] \in {"sent", "answered", "planned"}
                /\ HookEnds(c)
                /\ answer' = [answer EXCEPT ![c] = NULL]
          /\ UNCHANGED hooks
       \/ /\ \E h \in hooks : hooks' = hooks \ {h}
          /\ UNCHANGED <<call, plan, answer>>
    /\ UNCHANGED <<node, unlocked, rows, silent, baseline, outbox, pollVars>>

(* The poll: payments_tick and sync_payments *)

PollList ==
    /\ poll = "idle"
    /\ unlocked
    /\ seen' = {[hash |-> h, status |-> node[h]] :
                    h \in {g \in Hashes : node[g] # "Absent"}}
    /\ poll' = "listed"
    /\ UNCHANGED <<node, unlocked, rows, silent, baseline, outbox, first, got,
                   callVars, faults>>

ReadBaseline ==
    /\ poll = "listed"
    /\ first' = ~baseline
    /\ poll' = "loop"
    /\ UNCHANGED <<node, unlocked, rows, silent, baseline, outbox, seen, got,
                   callVars, faults>>

\* Mutant of InsertStatus: the baseline is ignored.
InsertObserved(status) == status

\* After the baseline a payment first seen terminal is inserted as Pending.
InsertStatus(status) ==
    IF ~first /\ status \in PaymentTerminal THEN "Pending" ELSE status

PollObserve(o) ==
    /\ poll = "loop"
    /\ o \in seen
    /\ seen' = seen \ {o}
    /\ Upsert(o.hash, InsertStatus(o.status))
    /\ silent' = IF rows[o.hash] = NULL /\ rows'[o.hash] \in PaymentTerminal
                 THEN silent \cup {o.hash}
                 ELSE silent
    /\ IF PaymentAdvances(rows'[o.hash], o.status)
       THEN /\ got' = [hash |-> o.hash, from |-> rows'[o.hash], to |-> o.status]
            /\ poll' = "apply"
       ELSE UNCHANGED <<got, poll>>
    /\ UNCHANGED <<node, unlocked, baseline, outbox, first, callVars, faults>>

PollApply ==
    /\ poll = "apply"
    /\ ApplyTransition(got)
    /\ got' = NULL
    /\ poll' = "loop"
    /\ UNCHANGED <<node, unlocked, baseline, first, seen, callVars, faults>>

\* Only a whole first pass sets the baseline.
PollFinish ==
    /\ poll = "loop"
    /\ seen = {}
    /\ baseline' = (baseline \/ first)
    /\ poll' = "idle"
    /\ first' = FALSE
    /\ UNCHANGED <<node, unlocked, rows, silent, outbox, seen, got, callVars, faults>>

\* A node or database error ends the pass.
PollAbort ==
    /\ Fault
    /\ poll # "idle"
    /\ poll' = "idle" /\ first' = FALSE /\ seen' = {} /\ got' = NULL
    /\ UNCHANGED <<node, unlocked, rows, silent, baseline, outbox, callVars>>

Crash ==
    /\ Fault
    /\ poll' = "idle" /\ first' = FALSE /\ seen' = {} /\ got' = NULL
    /\ call' = [c \in Calls |-> IF call[c] = "new" THEN "new" ELSE "done"]
    /\ answer' = [c \in Calls |-> NULL]
    /\ plan' = [c \in Calls |-> NULL]
    /\ hooks' = {}
    /\ UNCHANGED <<node, unlocked, rows, silent, baseline, outbox>>

-----------------------------------------------------------------------------
Poll ==
    \/ PollList \/ ReadBaseline
    \/ \E o \in seen : PollObserve(o)
    \/ PollApply \/ PollFinish

Hook(c) == HookInsert(c) \/ HookApply(c)

Next ==
    \/ \E h \in Hashes : Inbound(h) \/ InvoiceHook(h)
    \/ \E h \in Hashes : \E to \in Stages[h] : NodeAdvance(h, to)
    \/ \E c \in Calls : Pay(c) \/ Answer(c) \/ Hook(c)
    \/ Poll
    \/ Resume \/ Pause \/ LoseHook \/ PollAbort \/ Crash

Spec == Init /\ [][Next]_vars

\* The poll timer fires, probes find the node unlocked, hooks run to their end.
FairSpec ==
    /\ Spec
    /\ WF_vars(Resume) /\ WF_vars(Poll)
    /\ \A c \in Calls : WF_vars(Hook(c))

-----------------------------------------------------------------------------
(* Properties *)

\* Every variable has its type; what is in the outbox is a webhook event.
TypeOK ==
    /\ node \in [Hashes -> PaymentStatus \cup {"Absent"}]
    /\ unlocked \in BOOLEAN
    /\ rows \in [Hashes -> PaymentStatus \cup {NULL}]
    /\ silent \subseteq Hashes
    /\ baseline \in BOOLEAN
    /\ outbox \in Seq(Transition)
    /\ \A k \in DOMAIN outbox : PaymentEvent(outbox[k].to) \in PaymentEvents
    /\ poll \in {"idle", "listed", "loop", "apply"}
    /\ first \in BOOLEAN
    /\ seen \subseteq Listed
    /\ got \in Transition \cup {NULL}
    /\ call \in [Calls -> {"new", "sent", "answered", "planned", "done"}]
    /\ answer \in [Calls -> PaymentStatus \cup {NULL}]
    /\ plan \in [Calls -> Transition \cup {NULL}]
    /\ hooks \subseteq Invoices
    /\ faults \in 0..MaxFaults

EventsOf(h) == {k \in DOMAIN outbox : outbox[k].hash = h}
Settled(h) == {k \in EventsOf(h) : outbox[k].to = "Succeeded"}

\* A payment.settled webhook is true and final: the node did settle the
\* payment, the hash gets no second one, and no event of the hash follows it,
\* whichever of the poll and the hooks wrote it from an answer of what age.
SettledOnceAndLast ==
    \A h \in Hashes : \A k \in Settled(h) :
        /\ node[h] = "Succeeded"
        /\ \A l \in EventsOf(h) : l <= k

\* A terminal row has been announced: the last event of its hash says what the
\* row says.  Only what the first poll backfilled is terminal without one.
TerminalAnnounced ==
    \A h \in Hashes :
        rows[h] \in PaymentTerminal =>
            \/ h \in silent
            \/ \E k \in EventsOf(h) :
                 outbox[k].to = rows[h] /\ \A l \in EventsOf(h) : l <= k

\* After the baseline no payment enters the mirror silently, even one that was
\* settled before the poll first saw it.
NothingSilentAfterBaseline ==
    [][baseline => silent' \subseteq silent]_vars

\* The rows there are and the events, as AnnouncedMoves sees them.
StatusOf == [h \in {g \in Hashes : rows[g] # NULL} |-> rows[h]]

Events ==
    [k \in DOMAIN outbox |->
        [key |-> outbox[k].hash, from |-> outbox[k].from, to |-> outbox[k].to]]

Log == INSTANCE AnnouncedMoves
           WITH Statuses <- PaymentStatus, Moves <- PaymentMoves,
                Announced <- PaymentAnnounced, status <- StatusOf, log <- Events

\* docs/webhooks.md:3: a transition and its event are one write.  Whatever age an
\* observation of the poll or an answer of a call has, a row only moves the way
\* plan_payment_transition allows, with the one event that says from where to
\* where, and no event is written but with such a move.
LogsMoves == Log!Spec

\* A payment made once that the mirror knows as unfinished, or does not know yet,
\* is announced once the node has settled it.
SettlementAnnounced ==
    \A h \in Hashes :
        (/\ baseline /\ node[h] = "Succeeded" /\ rows[h] \notin PaymentTerminal
         /\ Cardinality({c \in Calls : HashOf[c] = h /\ call[c] # "new"}) <= 1)
        ~> (Settled(h) # {})

\* docs/webhooks.md:63 of payment.settled: "The payment entered `Succeeded`".
SettledIsAnnounced ==
    \A h \in Hashes :
        (baseline /\ node[h] = "Succeeded" /\ h \notin silent) ~> (Settled(h) # {})
=============================================================================
