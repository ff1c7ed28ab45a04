------------------------- MODULE PaymentSync_proofs -------------------------
(***************************************************************************)
(* Proofs about PaymentSync, for any number of payments, calls, retries    *)
(* and failures.                                                           *)
(***************************************************************************)
EXTENDS PaymentSync, SequenceTheorems, TLAPS

-----------------------------------------------------------------------------
(* What an answer of the node is worth *)

\* A status the node has shown for a payment: Succeeded is final.
Shown(h, s) == s \in PaymentStatus /\ (s = "Succeeded" => node[h] = "Succeeded")

\* A transition planned from such a status.
Sound(t) ==
    /\ t \in Transition
    /\ PaymentAdvances(t.from, t.to)
    /\ t.to = "Succeeded" => node[t.hash] = "Succeeded"

\* What the hooks have in hand.
CallsInHand ==
    \A c \in Calls :
        /\ call[c] = "sent" => node[HashOf[c]] # "Absent"
        /\ call[c] = "answered" => Shown(HashOf[c], answer[c])
        /\ call[c] = "planned" => Sound(plan[c])

\* What the poll has; only one that found no baseline sets it.
PollInHand ==
    /\ poll = "apply" => Sound(got)
    /\ \A o \in seen : Shown(o.hash, o.status)
    /\ baseline => ~first

InHand == CallsInHand /\ PollInHand

\* A hash with a settled event has a settled row, which never moves again.
SettledStays == \A h \in Hashes : Settled(h) # {} => rows[h] = "Succeeded"

Mirror == TerminalAnnounced /\ SettledOnceAndLast /\ SettledStays

\* The types of what the mirror writes.
MirrorTyped ==
    /\ rows \in [Hashes -> PaymentStatus \cup {NULL}]
    /\ silent \subseteq Hashes
    /\ outbox \in Seq(Transition)
    /\ \A k \in DOMAIN outbox : PaymentEvent(outbox[k].to) \in PaymentEvents

\* The types of the rest.
RestTyped ==
    /\ node \in [Hashes -> PaymentStatus \cup {"Absent"}]
    /\ unlocked \in BOOLEAN /\ baseline \in BOOLEAN /\ first \in BOOLEAN
    /\ poll \in {"idle", "listed", "loop", "apply"}
    /\ seen \subseteq Listed
    /\ got \in Transition \cup {NULL}
    /\ call \in [Calls -> {"new", "sent", "answered", "planned", "done"}]
    /\ answer \in [Calls -> PaymentStatus \cup {NULL}]
    /\ plan \in [Calls -> Transition \cup {NULL}]
    /\ hooks \subseteq Invoices
    /\ faults \in 0..MaxFaults

Inv == MirrorTyped /\ RestTyped /\ InHand /\ Mirror

\* What is asked of a step: rows and events change as AnnouncedMoves has it, and
\* nothing becomes silent after the baseline.
OneWrite == [Log!Next]_(Log!vars)

Announced == baseline => silent' \subseteq silent

Kept == Inv' /\ OneWrite /\ Announced

\* A settled payment stays so, and none disappears.
NodeKept ==
    \A h \in Hashes :
        /\ node[h] = "Succeeded" => node'[h] = "Succeeded"
        /\ node[h] # "Absent" => node'[h] # "Absent"

-----------------------------------------------------------------------------
(* The rules of sync.rs *)

\* Nothing follows Succeeded, and a move that is no event ends unfinished.
LEMMA Moves ==
  ASSUME NEW from, NEW to \in PaymentStatus, PaymentAdvances(from, to)
  PROVE  /\ from # "Succeeded"
         /\ PaymentEvent(to) # NoEvent => PaymentEvent(to) \in PaymentEvents
         /\ to \in PaymentTerminal => PaymentEvent(to) # NoEvent
  <1>1. from # "Succeeded"
    BY DEF PaymentAdvances, Restarts, PaymentTerminal
  <1>2. PaymentEvent(to) # NoEvent => PaymentEvent(to) \in PaymentEvents
    BY DEF PaymentEvent, PaymentEvents, NoEvent
  <1>3. to \in PaymentTerminal => PaymentEvent(to) # NoEvent
    BY DEF PaymentEvent, PaymentTerminal, NoEvent
  <1> QED BY <1>1, <1>2, <1>3

\* An event is appended to those of its own hash, as the last of all.
LEMMA NewEvent ==
  ASSUME outbox \in Seq(Transition), NEW t \in Transition, outbox' = Append(outbox, t)
  PROVE  /\ outbox' \in Seq(Transition)
         /\ \A h : EventsOf(h)' =
              IF h = t.hash THEN EventsOf(h) \cup {Len(outbox) + 1} ELSE EventsOf(h)
         /\ \A k \in DOMAIN outbox : outbox'[k] = outbox[k] /\ k < Len(outbox) + 1
         /\ outbox'[Len(outbox) + 1] = t
         /\ DOMAIN outbox' = DOMAIN outbox \cup {Len(outbox) + 1}
         /\ Len(outbox) + 1 \in Nat /\ Len(outbox) + 1 \notin DOMAIN outbox
         /\ DOMAIN outbox \subseteq Nat
  <1>1. /\ Len(outbox) \in Nat /\ DOMAIN outbox = 1..Len(outbox)
        /\ DOMAIN outbox' = 1..(Len(outbox) + 1)
        /\ outbox' \in Seq(Transition)
    BY AppendProperties, LenProperties
  <1>2. /\ \A k \in 1..Len(outbox) : outbox'[k] = outbox[k]
        /\ outbox'[Len(outbox) + 1] = t
    BY AppendProperties
  <1>3. DOMAIN outbox' = DOMAIN outbox \cup {Len(outbox) + 1}
    BY <1>1
  <1>4. ASSUME NEW h
        PROVE  EventsOf(h)' =
                 IF h = t.hash THEN EventsOf(h) \cup {Len(outbox) + 1} ELSE EventsOf(h)
    BY <1>1, <1>2, <1>3 DEF EventsOf
  <1> QED BY <1>1, <1>2, <1>3, <1>4

\* What apply_payment_transition does to the mirror, whatever else the step does.
LEMMA Applied ==
  ASSUME MirrorTyped, Mirror, NEW t, Sound(t), ApplyTransition(t), node' = node
  PROVE  MirrorTyped' /\ Mirror' /\ silent' \subseteq silent
  <1>0. /\ t \in Transition /\ t.hash \in Hashes
        /\ t.from \in PaymentStatus /\ t.to \in PaymentStatus
        /\ t.to = "Succeeded" => node[t.hash] = "Succeeded"
        /\ PaymentAdvances(t.from, t.to)
    BY DEF Sound, Transition
  <1>1. CASE rows[t.hash] # t.from
    <2>1. UNCHANGED <<rows, silent, outbox, node>>
      BY <1>1 DEF ApplyTransition
    <2> QED BY <2>1
            DEF MirrorTyped, Mirror, TerminalAnnounced, SettledOnceAndLast, SettledStays,
                Settled, EventsOf
  <1>2. CASE rows[t.hash] = t.from
    <2>1. /\ rows' = [rows EXCEPT ![t.hash] = t.to]
          /\ silent' = silent \ {t.hash}
          /\ outbox' = IF PaymentEvent(t.to) # NoEvent THEN Append(outbox, t) ELSE outbox
      BY <1>2 DEF ApplyTransition
    <2>2. /\ rows' \in [Hashes -> PaymentStatus \cup {NULL}] /\ silent' \subseteq silent
          /\ rows'[t.hash] = t.to
          /\ \A h \in Hashes \ {t.hash} : rows'[h] = rows[h]
          /\ silent' = silent \ {t.hash}
      BY <1>0, <2>1 DEF MirrorTyped
    <2>3. Settled(t.hash) = {}
      <3>1. t.from # "Succeeded"
        BY <1>0, Moves
      <3> QED BY <1>0, <1>2, <3>1 DEF Mirror, SettledStays
    <2>5. CASE PaymentEvent(t.to) = NoEvent
      <3>1. outbox' = outbox /\ t.to \notin PaymentTerminal
        BY <1>0, <2>1, <2>5, Moves
      <3>2. \A h : EventsOf(h)' = EventsOf(h) /\ Settled(h)' = Settled(h)
        BY <3>1 DEF EventsOf, Settled
      <3>3. MirrorTyped'
        BY <2>2, <3>1 DEF MirrorTyped
      <3>4. TerminalAnnounced'
        BY <2>2, <3>1, <3>2 DEF TerminalAnnounced, Mirror
      <3>5. SettledOnceAndLast'
        BY <3>2 DEF SettledOnceAndLast, Mirror
      <3>6. SettledStays'
        BY <2>2, <2>3, <3>2 DEF SettledStays, Mirror
      <3> QED BY <2>2, <3>3, <3>4, <3>5, <3>6 DEF Mirror
    <2>6. CASE PaymentEvent(t.to) # NoEvent
      <3> DEFINE n == Len(outbox) + 1
      <3>1. outbox' = Append(outbox, t) /\ outbox \in Seq(Transition)
        BY <2>1, <2>6 DEF MirrorTyped
      <3>2. /\ outbox' \in Seq(Transition)
            /\ \A h : EventsOf(h)' =
                 IF h = t.hash THEN EventsOf(h) \cup {n} ELSE EventsOf(h)
            /\ \A k \in DOMAIN outbox : outbox'[k] = outbox[k] /\ k < n
            /\ outbox'[n] = t
            /\ DOMAIN outbox' = DOMAIN outbox \cup {n}
            /\ n \in Nat /\ n \notin DOMAIN outbox
            /\ DOMAIN outbox \subseteq Nat
        BY <1>0, <3>1, NewEvent
      <3> HIDE DEF n
      <3>3. PaymentEvent(t.to) \in PaymentEvents
        BY <1>0, <2>6, Moves
      <3>4. MirrorTyped'
        BY <2>2, <3>2, <3>3 DEF MirrorTyped
      <3>5. \A h : EventsOf(h) \subseteq DOMAIN outbox
        BY DEF EventsOf
      <3>6. \A h \in Hashes \ {t.hash} : EventsOf(h)' = EventsOf(h) /\ Settled(h)' = Settled(h)
        BY <3>2, <3>5 DEF Settled
      <3>7. EventsOf(t.hash)' = EventsOf(t.hash) \cup {n}
        BY <3>2
      <3>8. \A k \in Settled(t.hash)' : k = n /\ t.to = "Succeeded"
        BY <2>3, <3>2, <3>5, <3>7 DEF Settled
      <3>9. \A l \in EventsOf(t.hash)' : l <= n
        BY <3>2, <3>5, <3>7
      <3>10. TerminalAnnounced'
        <4> SUFFICES ASSUME NEW h \in Hashes, rows'[h] \in PaymentTerminal
                     PROVE  \/ h \in silent'
                            \/ \E k \in EventsOf(h)' :
                                 outbox'[k].to = rows'[h] /\ \A l \in EventsOf(h)' : l <= k
          BY DEF TerminalAnnounced
        <4>1. CASE h = t.hash
          BY <2>2, <3>2, <3>7, <3>9, <4>1
        <4>2. CASE h # t.hash
          <5>1. rows[h] \in PaymentTerminal /\ h \in silent => h \in silent'
            BY <2>2, <4>2
          <5> QED BY <2>2, <3>2, <3>5, <3>6, <4>2, <5>1 DEF TerminalAnnounced, Mirror
        <4> QED BY <4>1, <4>2
      <3>11. SettledOnceAndLast'
        <4> SUFFICES ASSUME NEW h \in Hashes, NEW k \in Settled(h)'
                     PROVE  node'[h] = "Succeeded" /\ \A l \in EventsOf(h)' : l <= k
          BY DEF SettledOnceAndLast
        <4>1. CASE h = t.hash
          BY <1>0, <3>8, <3>9, <4>1
        <4>2. CASE h # t.hash
          BY <3>6, <4>2 DEF SettledOnceAndLast, Mirror
        <4> QED BY <4>1, <4>2
      <3>12. SettledStays'
        BY <2>2, <3>6, <3>8 DEF SettledStays, Mirror
      <3> QED BY <2>2, <3>4, <3>10, <3>11, <3>12 DEF Mirror
    <2> QED BY <2>5, <2>6
  <1> QED BY <1>1, <1>2

\* What upsert_payment does to it: a new row is unfinished or counts as silent.
LEMMA Upserted ==
  ASSUME MirrorTyped, Mirror, NEW h \in Hashes, NEW s \in PaymentStatus, Upsert(h, s),
         outbox' = outbox, node' = node, silent \subseteq silent', silent' \subseteq Hashes,
         rows[h] = NULL /\ s \in PaymentTerminal => h \in silent'
  PROVE  /\ MirrorTyped' /\ Mirror' /\ rows'[h] \in PaymentStatus
         /\ \A g \in Hashes : rows[g] # NULL => rows'[g] = rows[g]
         /\ rows[h] = NULL => rows'[h] = s
  <1>1. /\ rows' \in [Hashes -> PaymentStatus \cup {NULL}] /\ rows'[h] \in PaymentStatus
        /\ rows'[h] = IF rows[h] = NULL THEN s ELSE rows[h]
        /\ \A g \in Hashes \ {h} : rows'[g] = rows[g]
    BY DEF Upsert, MirrorTyped
  <1>2. \A g : EventsOf(g)' = EventsOf(g) /\ Settled(g)' = Settled(g)
    BY DEF EventsOf, Settled
  <1>3. MirrorTyped'
    BY <1>1 DEF MirrorTyped
  <1>4. TerminalAnnounced'
    BY <1>1, <1>2 DEF TerminalAnnounced, Mirror
  <1>5. SettledOnceAndLast'
    BY <1>2 DEF SettledOnceAndLast, Mirror
  <1>6. SettledStays'
    BY <1>1, <1>2, CallsAssumption DEF SettledStays, Mirror, PaymentStatus
  <1> QED BY <1>1, <1>3, <1>4, <1>5, <1>6 DEF Mirror

-----------------------------------------------------------------------------
(* A transition and its event are one write *)

\* What the log makes of an event.
Entry(t) == [key |-> t.hash, from |-> t.from, to |-> t.to]

LogEntry == [key : Hashes, from : PaymentStatus, to : PaymentStatus]

\* The log has one entry per event, and an event more is an entry more.
LEMMA EntriesAppend ==
  ASSUME outbox \in Seq(Transition), NEW t \in Transition, outbox' = Append(outbox, t)
  PROVE  Events' = Append(Events, Entry(t))
  <1> DEFINE n == Len(outbox)
  <1>1. /\ n \in Nat /\ DOMAIN outbox = 1..n /\ DOMAIN outbox' = 1..(n + 1)
        /\ \A k \in 1..n : outbox'[k] = outbox[k] /\ outbox[k] \in Transition
        /\ outbox'[n + 1] = t
    BY AppendProperties, LenProperties, ElementOfSeq
  <1> HIDE DEF n
  <1>2. Events = [k \in 1..n |-> Entry(outbox[k])]
    BY <1>1 DEF Events, Entry
  <1>3. \A u \in Transition : Entry(u) \in LogEntry
    BY DEF Entry, Transition, LogEntry
  <1>4. Events \in [1..n -> LogEntry]
    BY <1>1, <1>2, <1>3
  <1>5. Events \in Seq(LogEntry) /\ Len(Events) = n
    BY <1>1, <1>4, SeqDef, LenProperties
  <1> DEFINE longer == Append(Events, Entry(t))
  <1>6. /\ longer \in [1..(n + 1) -> LogEntry] /\ longer[n + 1] = Entry(t)
        /\ \A k \in 1..n : longer[k] = Events[k]
    <2>1. Entry(t) \in LogEntry
      BY <1>3
    <2>2. /\ longer \in Seq(LogEntry) /\ Len(longer) = n + 1 /\ longer[n + 1] = Entry(t)
          /\ \A k \in 1..n : longer[k] = Events[k]
      BY <1>5, <2>1, AppendProperties
    <2> HIDE DEF longer
    <2>3. longer \in [1..(n + 1) -> LogEntry]
      BY <2>2, LenProperties
    <2> QED BY <2>2, <2>3
  <1> HIDE DEF longer
  <1>7. Events' = [k \in 1..(n + 1) |-> Entry(outbox'[k])]
    BY <1>1 DEF Events, Entry
  <1>8. \A k \in 1..(n + 1) : longer[k] = Entry(outbox'[k])
    BY <1>1, <1>2, <1>6
  <1>9. longer = Events'
    BY <1>6, <1>7, <1>8
  <1> QED BY <1>9 DEF longer

LEMMA StaysLogged ==
  ASSUME UNCHANGED <<rows, outbox>>
  PROVE  OneWrite
  BY DEF OneWrite, Log!vars, StatusOf, Events

\* A transaction of apply_payment_transition moves a row with its event, or finds
\* it moved and does nothing.
LEMMA ApplyLogs ==
  ASSUME MirrorTyped, NEW t, Sound(t), ApplyTransition(t)
  PROVE  OneWrite
  <1>0. /\ t \in Transition /\ t.hash \in Hashes
        /\ t.from \in PaymentStatus /\ t.to \in PaymentStatus /\ NULL \notin PaymentStatus
        /\ <<t.from, t.to>> \in PaymentMoves
    BY CallsAssumption DEF Sound, Transition, PaymentMoves
  <1>1. CASE rows[t.hash] # t.from
    BY <1>1, StaysLogged DEF ApplyTransition
  <1>2. CASE rows[t.hash] = t.from
    <2>1. /\ rows' = [rows EXCEPT ![t.hash] = t.to]
          /\ outbox' = IF PaymentEvent(t.to) # NoEvent THEN Append(outbox, t) ELSE outbox
      BY <1>2 DEF ApplyTransition
    <2>2. /\ t.hash \in DOMAIN StatusOf /\ t.hash \in DOMAIN StatusOf'
          /\ StatusOf[t.hash] = t.from
          /\ StatusOf' = [StatusOf EXCEPT ![t.hash] = t.to]
      <3>1. /\ \A h \in Hashes : rows'[h] = IF h = t.hash THEN t.to ELSE rows[h]
            /\ t.from # NULL /\ t.to # NULL
        BY <1>0, <2>1 DEF MirrorTyped
      <3>2. \A h \in Hashes : rows'[h] # NULL <=> rows[h] # NULL
        BY <1>2, <3>1
      <3> QED BY <1>0, <1>2, <3>1, <3>2 DEF StatusOf
    <2>3. t.to \in PaymentAnnounced <=> PaymentEvent(t.to) # NoEvent
      BY <1>0 DEF PaymentAnnounced
    <2>4. Events' = IF t.to \in PaymentAnnounced THEN Append(Events, Log!Event(t.hash, t.to))
                    ELSE Events
      <3>1. CASE PaymentEvent(t.to) = NoEvent
        BY <2>1, <2>3, <3>1 DEF Events
      <3>2. CASE PaymentEvent(t.to) # NoEvent
        <4>1. Events' = Append(Events, Entry(t))
          BY <1>0, <2>1, <3>2, EntriesAppend DEF MirrorTyped
        <4>2. Entry(t) = Log!Event(t.hash, t.to)
          BY <2>2 DEF Entry, Log!Event
        <4> QED BY <2>3, <3>2, <4>1, <4>2
      <3> QED BY <3>1, <3>2
    <2>5. Log!Move(t.hash, t.to)
      BY <1>0, <2>2, <2>4 DEF Log!Move
    <2> QED BY <1>0, <2>2, <2>5 DEF OneWrite, Log!Next
  <1> QED BY <1>1, <1>2

\* A transaction of upsert_payment enters a row or leaves all as they are.
LEMMA UpsertLogs ==
  ASSUME MirrorTyped, NEW h \in Hashes, NEW s \in PaymentStatus, Upsert(h, s),
         outbox' = outbox
  PROVE  OneWrite
  <1>1. /\ \A g \in Hashes : rows'[g] = IF g = h /\ rows[h] = NULL THEN s ELSE rows[g]
        /\ s # NULL /\ Events' = Events
    BY CallsAssumption DEF Upsert, MirrorTyped, Events
  <1>2. CASE rows[h] # NULL
    BY <1>1, <1>2 DEF OneWrite, Log!vars, StatusOf
  <1>3. CASE rows[h] = NULL
    <2>1. /\ h \notin DOMAIN StatusOf /\ h \in DOMAIN StatusOf'
          /\ StatusOf' = [g \in DOMAIN StatusOf \cup {h} |-> IF g = h THEN s ELSE StatusOf[g]]
      BY <1>1, <1>3 DEF StatusOf
    <2>2. Log!Enter(h, s)
      BY <1>1, <2>1 DEF Log!Enter
    <2> QED BY <2>1, <2>2 DEF OneWrite, Log!Next
  <1> QED BY <1>2, <1>3

-----------------------------------------------------------------------------
(* Every step *)

\* The node only settles payments for good.
LEMMA HandsKept ==
  ASSUME NodeKept, RestTyped
  PROVE  /\ CallsInHand /\ UNCHANGED <<call, answer, plan>> => CallsInHand'
         /\ PollInHand /\ UNCHANGED <<poll, got, seen, baseline, first>> => PollInHand'
  <1>1. \A h \in Hashes : \A st : Shown(h, st) => Shown(h, st)'
    BY DEF Shown, NodeKept
  <1>2. \A t : Sound(t) => Sound(t)'
    BY DEF Sound, NodeKept, Transition
  <1>3. \A c \in Calls : HashOf[c] \in Hashes
    BY CallsAssumption
  <1>4. \A o \in seen : o.hash \in Hashes
    BY DEF RestTyped, Listed
  <1>5. ASSUME CallsInHand, UNCHANGED <<call, answer, plan>> PROVE CallsInHand'
    BY <1>1, <1>2, <1>3, <1>5 DEF CallsInHand, NodeKept
  <1>6. ASSUME PollInHand, UNCHANGED <<poll, got, seen, baseline, first>> PROVE PollInHand'
    BY <1>1, <1>2, <1>4, <1>6 DEF PollInHand
  <1> QED BY <1>5, <1>6

\* A step that leaves the mirror alone.
LEMMA Untouched ==
  ASSUME Inv, NodeKept, UNCHANGED <<rows, silent, outbox>>
  PROVE  MirrorTyped' /\ Mirror' /\ OneWrite /\ Announced
  <1>1. \A g : EventsOf(g)' = EventsOf(g) /\ Settled(g)' = Settled(g)
    BY DEF EventsOf, Settled
  <1>2. MirrorTyped'
    BY DEF MirrorTyped, Inv
  <1>3. TerminalAnnounced' /\ SettledStays'
    BY <1>1 DEF TerminalAnnounced, SettledStays, Mirror, Inv
  <1>4. SettledOnceAndLast'
    BY <1>1 DEF SettledOnceAndLast, NodeKept, Mirror, Inv
  <1>5. OneWrite
    BY StaysLogged
  <1>6. Announced
    BY DEF Announced
  <1> QED BY <1>2, <1>3, <1>4, <1>5, <1>6 DEF Mirror

\* The node moves, or the mirror learns whether it is unlocked.
LEMMA NodeSteps ==
  ASSUME Inv, \/ \E h \in Hashes : Inbound(h) \/ \E to \in Stages[h] : NodeAdvance(h, to)
              \/ \E c \in Calls : Pay(c)
              \/ Resume \/ Pause
  PROVE  Kept
  <1>0. RestTyped /\ CallsInHand /\ PollInHand
    BY DEF Inv, InHand
  <1>1. UNCHANGED <<rows, silent, outbox, baseline, poll, first, seen, got, answer, plan>>
    BY DEF Inbound, NodeAdvance, Pay, Resume, Pause, pollVars, callVars
  <1>2. ASSUME NodeKept, CallsInHand', RestTyped' PROVE Kept
    <2>1. PollInHand'
      BY <1>0, <1>1, <1>2, HandsKept
    <2> QED BY <1>1, <1>2, <2>1, Untouched DEF Kept, Inv, InHand
  <1>3. ASSUME NEW h \in Hashes, Inbound(h) PROVE Kept
    <2>1. /\ node[h] = "Absent" /\ node' = [node EXCEPT ![h] = "Pending"]
          /\ hooks' = IF h \in Invoices THEN hooks \cup {h} ELSE hooks
          /\ UNCHANGED <<call, unlocked, faults>>
      BY <1>3 DEF Inbound
    <2>2. NodeKept
      BY <1>0, <2>1 DEF NodeKept, RestTyped
    <2>3. CallsInHand'
      BY <1>0, <1>1, <2>1, <2>2, HandsKept
    <2>4. RestTyped'
      BY <1>0, <1>1, <2>1 DEF RestTyped, PaymentStatus
    <2> QED BY <1>2, <2>2, <2>3, <2>4
  <1>4. ASSUME NEW h \in Hashes, NEW to \in Stages[h], NodeAdvance(h, to) PROVE Kept
    <2>1. /\ node[h] \in PaymentStatus \ PaymentTerminal
          /\ node' = [node EXCEPT ![h] = to]
          /\ UNCHANGED <<call, unlocked, hooks, faults>>
      BY <1>4 DEF NodeAdvance, callVars
    <2>2. to \in PaymentStatus
      BY CallsAssumption
    <2>3. NodeKept
      BY <1>0, <2>1, <2>2 DEF NodeKept, RestTyped, PaymentTerminal, PaymentStatus
    <2>4. CallsInHand'
      BY <1>0, <1>1, <2>1, <2>3, HandsKept
    <2>5. RestTyped'
      BY <1>0, <1>1, <2>1, <2>2 DEF RestTyped
    <2> QED BY <1>2, <2>3, <2>4, <2>5
  <1>5. ASSUME NEW c \in Calls, Pay(c) PROVE Kept
    <2>1. /\ node[HashOf[c]] \in {"Absent", "Failed", "Cancelled"}
          /\ node' = [node EXCEPT ![HashOf[c]] = "Pending"]
          /\ call' = [call EXCEPT ![c] = "sent"]
          /\ UNCHANGED <<unlocked, hooks, faults>>
      BY <1>5 DEF Pay
    <2>2. HashOf[c] \in Hashes
      BY CallsAssumption
    <2>3. NodeKept
      BY <1>0, <2>1, <2>2 DEF NodeKept, RestTyped
    <2>4. RestTyped'
      BY <1>0, <1>1, <2>1, <2>2 DEF RestTyped, PaymentStatus
    <2>5. CallsInHand'
      <3> SUFFICES ASSUME NEW d \in Calls
                   PROVE  /\ call'[d] = "sent" => node'[HashOf[d]] # "Absent"
                          /\ call'[d] = "answered" => Shown(HashOf[d], answer[d])'
                          /\ call'[d] = "planned" => Sound(plan[d])'
        BY <1>1 DEF CallsInHand
      <3>1. CASE d = c
        <4>1. call'[d] = "sent" /\ node'[HashOf[d]] = "Pending"
          BY <1>0, <2>1, <2>2, <3>1 DEF RestTyped
        <4> QED BY <4>1
      <3>2. CASE d # c
        <4>1. call'[d] = call[d] /\ HashOf[d] \in Hashes
          BY <1>0, <2>1, <3>2, CallsAssumption DEF RestTyped
        <4>2. Shown(HashOf[d], answer[d]) => Shown(HashOf[d], answer[d])'
          BY <1>1, <2>3, <4>1 DEF Shown, NodeKept
        <4>3. Sound(plan[d]) => Sound(plan[d])'
          BY <1>1, <2>3 DEF Sound, NodeKept, Transition
        <4> QED BY <1>0, <2>3, <4>1, <4>2, <4>3 DEF CallsInHand, NodeKept
      <3> QED BY <3>1, <3>2
    <2> QED BY <1>2, <2>3, <2>4, <2>5
  <1>6. CASE Resume \/ Pause
    <2>0. faults' \in 0..MaxFaults
      <3>1. faults \in 0..MaxFaults /\ MaxFaults \in Nat
        BY <1>0, CallsAssumption DEF RestTyped
      <3>2. faults' = faults \/ (faults < MaxFaults /\ faults' = faults + 1)
        BY <1>6 DEF Resume, Pause, Fault
      <3> QED BY <3>1, <3>2
    <2>1. UNCHANGED <<node, call, hooks>> /\ unlocked' \in BOOLEAN
      BY <1>6 DEF Resume, Pause, callVars
    <2>2. NodeKept
      BY <2>1 DEF NodeKept
    <2>3. CallsInHand'
      BY <1>0, <1>1, <2>1, <2>2, HandsKept
    <2>4. RestTyped'
      BY <1>0, <1>1, <2>0, <2>1 DEF RestTyped
    <2> QED BY <1>2, <2>2, <2>3, <2>4
  <1> QED BY <1>3, <1>4, <1>5, <1>6

\* A task is answered, or gives up.
LEMMA QuietSteps ==
  ASSUME Inv, \/ \E c \in Calls : Answer(c)
              \/ PollList \/ ReadBaseline \/ PollFinish
              \/ LoseHook \/ PollAbort \/ Crash
  PROVE  Kept
  <1>0. RestTyped /\ CallsInHand /\ PollInHand
    BY DEF Inv, InHand
  <1>1. UNCHANGED <<node, unlocked, rows, silent, outbox>>
    BY DEF Answer, PollList, ReadBaseline, PollFinish, LoseHook, PollAbort, Crash
  <1>2. NodeKept
    BY <1>1 DEF NodeKept
  <1>3. ASSUME CallsInHand', PollInHand', RestTyped' PROVE Kept
    BY <1>1, <1>2, <1>3, Untouched DEF Kept, Inv, InHand
  <1>4. ASSUME NEW c \in Calls, Answer(c) PROVE Kept
    <2>1. /\ call[c] = "sent" /\ call' = [call EXCEPT ![c] = "answered"]
          /\ answer' = [answer EXCEPT ![c] = node[HashOf[c]]]
          /\ UNCHANGED <<plan, hooks, faults, baseline, poll, first, seen, got>>
      BY <1>4 DEF Answer, pollVars
    <2>2. HashOf[c] \in Hashes /\ node[HashOf[c]] \in PaymentStatus
      BY <1>0, <2>1, CallsAssumption DEF RestTyped, CallsInHand
    <2>3. RestTyped'
      BY <1>0, <1>1, <2>1, <2>2 DEF RestTyped
    <2>4. PollInHand'
      BY <1>0, <1>2, <2>1, HandsKept
    <2>5. CallsInHand'
      <3> SUFFICES ASSUME NEW d \in Calls
                   PROVE  /\ call'[d] = "sent" => node'[HashOf[d]] # "Absent"
                          /\ call'[d] = "answered" => Shown(HashOf[d], answer'[d])
                          /\ call'[d] = "planned" => Sound(plan[d])
        BY <1>1, <2>1 DEF CallsInHand, Shown, Sound
      <3>1. CASE d = c
        <4>1. call'[d] = "answered" /\ answer'[d] = node[HashOf[d]]
          BY <1>0, <2>1, <3>1 DEF RestTyped
        <4> QED BY <2>2, <3>1, <4>1 DEF Shown
      <3>2. CASE d # c
        BY <1>0, <1>1, <2>1, <3>2 DEF CallsInHand, RestTyped
      <3> QED BY <3>1, <3>2
    <2> QED BY <1>3, <2>3, <2>4, <2>5
  <1>5. CASE PollList
    <2>1. /\ seen' = {[hash |-> h, status |-> node[h]] :
                        h \in {g \in Hashes : node[g] # "Absent"}}
          /\ poll' = "listed"
          /\ UNCHANGED <<baseline, first, got, call, answer, plan, hooks, faults>>
      BY <1>5 DEF PollList, callVars
    <2>2. CallsInHand'
      BY <1>0, <1>2, <2>1, HandsKept
    <2>3. \A o \in seen' : o \in Listed /\ o.status = node[o.hash]
      BY <1>0, <2>1 DEF RestTyped, Listed
    <2>4. RestTyped'
      BY <1>0, <1>1, <2>1, <2>3 DEF RestTyped
    <2>5. PollInHand'
      BY <1>0, <1>1, <2>1, <2>3 DEF PollInHand, Shown, Listed
    <2> QED BY <1>3, <2>2, <2>4, <2>5
  <1>6. CASE ReadBaseline
    <2>1. /\ first' = ~baseline /\ poll' = "loop"
          /\ UNCHANGED <<baseline, seen, got, call, answer, plan, hooks, faults>>
      BY <1>6 DEF ReadBaseline, callVars
    <2>2. CallsInHand'
      BY <1>0, <1>2, <2>1, HandsKept
    <2>3. RestTyped'
      BY <1>0, <1>1, <2>1 DEF RestTyped
    <2>4. PollInHand'
      BY <1>0, <1>1, <2>1 DEF PollInHand, Shown
    <2> QED BY <1>3, <2>2, <2>3, <2>4
  <1>7. CASE PollFinish
    <2>1. /\ baseline' = (baseline \/ first) /\ poll' = "idle" /\ first' = FALSE
          /\ UNCHANGED <<seen, got, call, answer, plan, hooks, faults>>
      BY <1>7 DEF PollFinish, callVars
    <2>2. CallsInHand'
      BY <1>0, <1>2, <2>1, HandsKept
    <2>3. RestTyped'
      BY <1>0, <1>1, <2>1 DEF RestTyped
    <2>4. PollInHand'
      BY <1>0, <1>1, <2>1 DEF PollInHand, Shown
    <2> QED BY <1>3, <2>2, <2>3, <2>4
  <1>8. CASE LoseHook
    <2>1. /\ UNCHANGED <<baseline, poll, first, seen, got>> /\ hooks' \subseteq Invoices
          /\ faults' \in 0..MaxFaults
          /\ \/ UNCHANGED <<call, answer, plan>>
             \/ \E c \in Calls : HookEnds(c) /\ answer' = [answer EXCEPT ![c] = NULL]
      BY <1>0, <1>8, CallsAssumption DEF LoseHook, Fault, pollVars, RestTyped
    <2>2. PollInHand'
      BY <1>0, <1>2, <2>1, HandsKept
    <2>3. CASE UNCHANGED <<call, answer, plan>>
      <3>1. CallsInHand' /\ RestTyped'
        BY <1>0, <1>1, <1>2, <2>1, <2>3, HandsKept DEF RestTyped
      <3> QED BY <1>3, <2>2, <3>1
    <2>4. ASSUME NEW c \in Calls, HookEnds(c), answer' = [answer EXCEPT ![c] = NULL]
          PROVE  Kept
      <3>1. RestTyped'
        BY <1>0, <1>1, <2>1, <2>4 DEF RestTyped, HookEnds
      <3>2. CallsInHand'
        BY <1>0, <1>1, <2>4 DEF CallsInHand, HookEnds, RestTyped, Shown, Sound
      <3> QED BY <1>3, <2>2, <3>1, <3>2
    <2> QED BY <2>1, <2>3, <2>4
  <1>9. CASE PollAbort
    <2>1. /\ poll' = "idle" /\ first' = FALSE /\ seen' = {} /\ got' = NULL
          /\ UNCHANGED <<baseline, call, answer, plan, hooks>>
          /\ faults' \in 0..MaxFaults
      BY <1>0, <1>9, CallsAssumption DEF PollAbort, Fault, callVars, RestTyped
    <2>2. CallsInHand'
      BY <1>0, <1>2, <2>1, HandsKept
    <2>3. RestTyped' /\ PollInHand'
      BY <1>0, <1>1, <2>1 DEF RestTyped, PollInHand
    <2> QED BY <1>3, <2>2, <2>3
  <1>10. CASE Crash
    <2>1. /\ poll' = "idle" /\ first' = FALSE /\ seen' = {} /\ got' = NULL
          /\ call' = [c \in Calls |-> IF call[c] = "new" THEN "new" ELSE "done"]
          /\ answer' = [c \in Calls |-> NULL] /\ plan' = [c \in Calls |-> NULL]
          /\ hooks' = {} /\ UNCHANGED baseline
          /\ faults' \in 0..MaxFaults
      BY <1>0, <1>10, CallsAssumption DEF Crash, Fault, RestTyped
    <2>2. RestTyped' /\ PollInHand'
      BY <1>0, <1>1, <2>1 DEF RestTyped, PollInHand
    <2>3. CallsInHand'
      BY <2>1 DEF CallsInHand
    <2> QED BY <1>3, <2>2, <2>3
  <1> QED BY <1>4, <1>5, <1>6, <1>7, <1>8, <1>9, <1>10

\* A hook enters its payment as Pending and plans from the row it finds.
LEMMA HookInserts ==
  ASSUME Inv, NEW c \in Calls, HookInsert(c)
  PROVE  Kept
  <1> DEFINE h == HashOf[c]
  <1>0. RestTyped /\ CallsInHand /\ PollInHand /\ MirrorTyped /\ Mirror
    BY DEF Inv, InHand
  <1>1. /\ call[c] = "answered" /\ Upsert(h, "Pending")
        /\ answer' = [answer EXCEPT ![c] = NULL]
        /\ UNCHANGED <<node, unlocked, silent, baseline, outbox, poll, first, seen, got,
                       hooks, faults>>
    BY DEF HookInsert, pollVars
  <1>2. h \in Hashes /\ "Pending" \in PaymentStatus /\ "Pending" \notin PaymentTerminal
    BY CallsAssumption DEF PaymentStatus, PaymentTerminal
  <1>3. silent \subseteq silent' /\ silent' \subseteq Hashes /\ outbox' = outbox
        /\ node' = node
    BY <1>0, <1>1 DEF MirrorTyped
  <1>4. /\ MirrorTyped' /\ Mirror' /\ rows'[h] \in PaymentStatus
        /\ \A g \in Hashes : rows[g] # NULL => rows'[g] = rows[g]
    <2> HIDE DEF h
    <2> QED BY <1>0, <1>1, <1>2, <1>3, Upserted
  <1>5. Shown(h, answer[c])
    BY <1>0, <1>1 DEF CallsInHand
  <1>6. /\ call' \in [Calls -> {"new", "sent", "answered", "planned", "done"}]
        /\ plan' \in [Calls -> Transition \cup {NULL}]
        /\ \A d \in Calls \ {c} : call'[d] = call[d] /\ plan'[d] = plan[d]
        /\ call'[c] = "planned" => Sound(plan'[c])
        /\ call'[c] \in {"planned", "done"}
    <2>1. CASE PaymentAdvances(rows'[h], answer[c])
      <3> DEFINE t == [hash |-> h, from |-> rows'[h], to |-> answer[c]]
      <3>1. /\ plan' = [plan EXCEPT ![c] = t]
            /\ call' = [call EXCEPT ![c] = "planned"]
        BY <2>1 DEF HookInsert
      <3>2. t \in Transition
        BY <1>2, <1>4, <1>5 DEF Shown, Transition
      <3>3. Sound(t)
        BY <1>5, <2>1, <3>2 DEF Sound, Shown
      <3> HIDE DEF t
      <3> QED BY <1>0, <3>1, <3>2, <3>3 DEF RestTyped
    <2>2. CASE ~PaymentAdvances(rows'[h], answer[c])
      <3>1. /\ plan' = [plan EXCEPT ![c] = NULL]
            /\ call' = [call EXCEPT ![c] = "done"]
        BY <2>2 DEF HookInsert, HookEnds
      <3> QED BY <1>0, <3>1 DEF RestTyped
    <2> QED BY <2>1, <2>2
  <1>7. answer' \in [Calls -> PaymentStatus \cup {NULL}]
        /\ \A d \in Calls \ {c} : answer'[d] = answer[d]
    BY <1>0, <1>1 DEF RestTyped
  <1>8. RestTyped'
    BY <1>0, <1>1, <1>6, <1>7 DEF RestTyped
  <1>9. CallsInHand'
    <2> SUFFICES ASSUME NEW d \in Calls
                 PROVE  /\ call'[d] = "sent" => node[HashOf[d]] # "Absent"
                        /\ call'[d] = "answered" => Shown(HashOf[d], answer'[d])
                        /\ call'[d] = "planned" => Sound(plan'[d])
      BY <1>1 DEF CallsInHand, Shown, Sound
    <2>1. CASE d = c
      BY <1>6, <2>1
    <2>2. CASE d # c
      BY <1>0, <1>6, <1>7, <2>2 DEF CallsInHand
    <2> QED BY <2>1, <2>2
  <1>10. PollInHand'
    BY <1>0, <1>1 DEF PollInHand, Shown, Sound
  <1>11. OneWrite
    <2> HIDE DEF h
    <2> QED BY <1>0, <1>1, <1>2, UpsertLogs
  <1>12. Announced
    BY <1>1 DEF Announced
  <1> QED BY <1>4, <1>8, <1>9, <1>10, <1>11, <1>12 DEF Kept, Inv, InHand

LEMMA HookApplies ==
  ASSUME Inv, NEW c \in Calls, HookApply(c)
  PROVE  Kept
  <1>0. RestTyped /\ CallsInHand /\ PollInHand /\ MirrorTyped /\ Mirror
    BY DEF Inv, InHand
  <1>1. /\ call[c] = "planned" /\ ApplyTransition(plan[c])
        /\ call' = [call EXCEPT ![c] = "done"] /\ plan' = [plan EXCEPT ![c] = NULL]
        /\ UNCHANGED <<node, unlocked, baseline, poll, first, seen, got, answer, hooks, faults>>
    BY DEF HookApply, HookEnds, pollVars
  <1>2. /\ MirrorTyped' /\ Mirror' /\ silent' \subseteq silent /\ OneWrite
    <2>1. Sound(plan[c])
      BY <1>0, <1>1 DEF CallsInHand
    <2>2. node' = node
      BY <1>1
    <2> QED BY <1>0, <1>1, <2>1, <2>2, Applied, ApplyLogs
  <1>3. RestTyped'
    BY <1>0, <1>1 DEF RestTyped
  <1>4. CallsInHand'
    BY <1>0, <1>1 DEF CallsInHand, Shown, Sound, RestTyped
  <1>5. PollInHand'
    BY <1>0, <1>1 DEF PollInHand, Shown, Sound
  <1> QED BY <1>2, <1>3, <1>4, <1>5 DEF Kept, Inv, InHand, Announced

LEMMA InvoiceHooks ==
  ASSUME Inv, NEW h \in Hashes, InvoiceHook(h)
  PROVE  Kept
  <1>0. RestTyped /\ CallsInHand /\ PollInHand /\ MirrorTyped /\ Mirror
    BY DEF Inv, InHand
  <1>1. /\ Upsert(h, "Pending") /\ hooks' = hooks \ {h}
        /\ UNCHANGED <<node, unlocked, silent, baseline, outbox, poll, first, seen, got,
                       call, answer, plan, faults>>
    BY DEF InvoiceHook, pollVars
  <1>2. "Pending" \in PaymentStatus /\ "Pending" \notin PaymentTerminal
    BY DEF PaymentStatus, PaymentTerminal
  <1>3. silent \subseteq silent' /\ silent' \subseteq Hashes /\ outbox' = outbox
        /\ node' = node
    BY <1>0, <1>1 DEF MirrorTyped
  <1>4. /\ MirrorTyped' /\ Mirror'
        /\ \A g \in Hashes : rows[g] # NULL => rows'[g] = rows[g]
    BY <1>0, <1>1, <1>2, <1>3, Upserted
  <1>5. RestTyped'
    BY <1>0, <1>1 DEF RestTyped
  <1>6. CallsInHand' /\ PollInHand'
    BY <1>0, <1>1 DEF CallsInHand, PollInHand, Shown, Sound
  <1>7. OneWrite /\ Announced
    BY <1>0, <1>1, <1>2, UpsertLogs DEF Announced
  <1> QED BY <1>4, <1>5, <1>6, <1>7 DEF Kept, Inv, InHand

\* After the baseline the poll enters a terminal payment as Pending.
LEMMA PollObserves ==
  ASSUME Inv, NEW o \in seen, PollObserve(o)
  PROVE  Kept
  <1> DEFINE h == o.hash
             s == InsertStatus(o.status)
  <1>0. RestTyped /\ CallsInHand /\ PollInHand /\ MirrorTyped /\ Mirror
    BY DEF Inv, InHand
  <1>1. /\ poll = "loop" /\ seen' = seen \ {o} /\ Upsert(h, s)
        /\ silent' = IF rows[h] = NULL /\ rows'[h] \in PaymentTerminal
                     THEN silent \cup {h} ELSE silent
        /\ UNCHANGED <<node, unlocked, baseline, outbox, first, call, answer, plan, hooks,
                       faults>>
    BY DEF PollObserve, callVars
  <1>2. h \in Hashes /\ Shown(h, o.status)
    BY <1>0 DEF RestTyped, PollInHand, Listed
  <1>3. /\ s \in PaymentStatus
        /\ baseline => s \notin PaymentTerminal
    BY <1>0, <1>2 DEF Shown, InsertStatus, PollInHand, PaymentStatus, PaymentTerminal
  <1> HIDE DEF s
  <1>4. silent \subseteq silent' /\ silent' \subseteq Hashes
    BY <1>0, <1>1, <1>2 DEF MirrorTyped
  <1>5. rows'[h] = IF rows[h] = NULL THEN s ELSE rows[h]
    BY <1>0, <1>1, <1>2 DEF Upsert, MirrorTyped
  <1>6. /\ MirrorTyped' /\ Mirror' /\ rows'[h] \in PaymentStatus
        /\ \A g \in Hashes : rows[g] # NULL => rows'[g] = rows[g]
    <2> HIDE DEF h
    <2>1. rows[h] = NULL /\ s \in PaymentTerminal => h \in silent'
      BY <1>1, <1>5
    <2>2. outbox' = outbox /\ node' = node
      BY <1>1
    <2> QED BY <1>0, <1>1, <1>2, <1>3, <1>4, <2>1, <2>2, Upserted
  <1>7. /\ poll' \in {"loop", "apply"} /\ got' \in Transition \cup {NULL}
        /\ poll' = "apply" => Sound(got')
    <2>1. CASE PaymentAdvances(rows'[h], o.status)
      <3> DEFINE t == [hash |-> h, from |-> rows'[h], to |-> o.status]
      <3>1. got' = t /\ poll' = "apply"
        BY <2>1 DEF PollObserve
      <3>2. t \in Transition
        BY <1>2, <1>6 DEF Shown, Transition
      <3>3. Sound(t)
        BY <1>2, <2>1, <3>2 DEF Sound, Shown
      <3> HIDE DEF t
      <3> QED BY <3>1, <3>2, <3>3
    <2>2. CASE ~PaymentAdvances(rows'[h], o.status)
      <3>1. got' = got /\ poll' = poll
        BY <2>2 DEF PollObserve
      <3> QED BY <1>0, <1>1, <3>1 DEF RestTyped
    <2> QED BY <2>1, <2>2
  <1>8. RestTyped'
    BY <1>0, <1>1, <1>7 DEF RestTyped
  <1>9. CallsInHand'
    BY <1>0, <1>1 DEF CallsInHand, Shown, Sound
  <1>10. PollInHand'
    BY <1>0, <1>1, <1>7 DEF PollInHand, Shown, Sound
  <1>11. OneWrite
    <2> HIDE DEF h
    <2> QED BY <1>0, <1>1, <1>2, <1>3, UpsertLogs
  <1>12. Announced
    BY <1>1, <1>3, <1>5 DEF Announced
  <1> QED BY <1>6, <1>8, <1>9, <1>10, <1>11, <1>12 DEF Kept, Inv, InHand

LEMMA PollApplies ==
  ASSUME Inv, PollApply
  PROVE  Kept
  <1>0. RestTyped /\ CallsInHand /\ PollInHand /\ MirrorTyped /\ Mirror
    BY DEF Inv, InHand
  <1>1. /\ poll = "apply" /\ ApplyTransition(got) /\ got' = NULL /\ poll' = "loop"
        /\ UNCHANGED <<node, unlocked, baseline, first, seen, call, answer, plan, hooks,
                       faults>>
    BY DEF PollApply, callVars
  <1>2. /\ MirrorTyped' /\ Mirror' /\ silent' \subseteq silent /\ OneWrite
    <2>1. Sound(got)
      BY <1>0, <1>1 DEF PollInHand
    <2>2. node' = node
      BY <1>1
    <2> QED BY <1>0, <1>1, <2>1, <2>2, Applied, ApplyLogs
  <1>3. RestTyped'
    BY <1>0, <1>1 DEF RestTyped
  <1>4. CallsInHand'
    BY <1>0, <1>1 DEF CallsInHand, Shown, Sound
  <1>5. PollInHand'
    BY <1>0, <1>1 DEF PollInHand, Shown
  <1> QED BY <1>2, <1>3, <1>4, <1>5 DEF Kept, Inv, InHand, Announced

-----------------------------------------------------------------------------
(* The invariant and the theorems *)

LEMMA InvInit == Init => Inv
  <1> SUFFICES ASSUME Init PROVE Inv
    OBVIOUS
  <1>1. outbox \in Seq(Transition) /\ DOMAIN outbox = {}
    BY DEF Init
  <1>2. 0 \in 0..MaxFaults
    BY CallsAssumption
  <1>3. MirrorTyped
    BY <1>1 DEF Init, MirrorTyped
  <1>4. RestTyped
    BY <1>2 DEF Init, RestTyped
  <1>5. InHand
    BY DEF Init, InHand, CallsInHand, PollInHand
  <1>6. \A h : EventsOf(h) = {} /\ Settled(h) = {}
    BY <1>1 DEF EventsOf, Settled
  <1>7. \A h \in Hashes : rows[h] \notin PaymentTerminal
    BY CallsAssumption DEF Init, PaymentStatus, PaymentTerminal
  <1>8. Mirror
    BY <1>6, <1>7 DEF Mirror, TerminalAnnounced, SettledOnceAndLast, SettledStays
  <1> QED BY <1>3, <1>4, <1>5, <1>8 DEF Inv

LEMMA InvNext ==
  ASSUME Inv, [Next]_vars
  PROVE  Kept
  <1>1. CASE \/ \E h \in Hashes : Inbound(h) \/ \E to \in Stages[h] : NodeAdvance(h, to)
             \/ \E c \in Calls : Pay(c)
             \/ Resume \/ Pause
    BY <1>1, NodeSteps
  <1>2. CASE \/ \E c \in Calls : Answer(c)
             \/ PollList \/ ReadBaseline \/ PollFinish
             \/ LoseHook \/ PollAbort \/ Crash
    BY <1>2, QuietSteps
  <1>3. CASE \E c \in Calls : Hook(c)
    BY <1>3, HookInserts, HookApplies DEF Hook
  <1>4. CASE \E h \in Hashes : InvoiceHook(h)
    BY <1>4, InvoiceHooks
  <1>5. CASE \E o \in seen : PollObserve(o)
    BY <1>5, PollObserves
  <1>6. CASE PollApply
    BY <1>6, PollApplies
  <1>7. CASE UNCHANGED vars
    <2>1. UNCHANGED <<node, unlocked, rows, silent, baseline, outbox, poll, first, seen, got,
                      call, answer, plan, hooks, faults>>
      BY <1>7 DEF vars, pollVars, callVars
    <2>2. NodeKept
      BY <2>1 DEF NodeKept
    <2>3. CallsInHand' /\ PollInHand'
      BY <2>1, <2>2, HandsKept DEF Inv, InHand
    <2>4. RestTyped'
      BY <2>1 DEF RestTyped, Inv
    <2> QED BY <2>1, <2>2, <2>3, <2>4, Untouched DEF Kept, Inv, InHand
  <1> QED BY <1>1, <1>2, <1>3, <1>4, <1>5, <1>6, <1>7 DEF Next, Poll

LEMMA Invariant == Spec => []Inv
  <1>1. Inv /\ [Next]_vars => Inv'
    BY InvNext DEF Kept
  <1> QED BY <1>1, InvInit, PTL DEF Spec

\* Every variable of the payment mirror keeps its type, and the outbox only holds
\* events the dispatcher knows (NewOutboxEvent in store.rs).
THEOREM TypeCorrect == Spec => []TypeOK
  <1>1. Inv => TypeOK
    BY DEF Inv, MirrorTyped, RestTyped, TypeOK
  <1> QED BY <1>1, Invariant, PTL

\* However polls and hooks interleave on answers of whatever age, a
\* payment.settled event is true, unique and the last of its hash
\* (apply_payment_transition, record_outbound_payment, sync_payments).
THEOREM SettledFinal == Spec => []SettledOnceAndLast
  <1>1. Inv => SettledOnceAndLast
    BY DEF Inv, Mirror
  <1> QED BY <1>1, Invariant, PTL

\* A terminal row has its event as the last of its hash, unless the first poll
\* backfilled it (sync_payments and its baseline).
THEOREM TerminalRowsAnnounced == Spec => []TerminalAnnounced
  <1>1. Inv => TerminalAnnounced
    BY DEF Inv, Mirror
  <1> QED BY <1>1, Invariant, PTL

\* The payment mirror implements AnnouncedMoves: whatever the poll and the hooks
\* observed and planned, a row moves as plan_payment_transition allows and with
\* its event, or not at all (apply_payment_transition).
THEOREM Refinement == Spec => LogsMoves
  <1>1. Init => Log!Init
    BY DEF Init, StatusOf, Events, Log!Init
  <1>2. Inv /\ [Next]_vars => [Log!Next]_(Log!vars)
    BY InvNext DEF Kept, OneWrite
  <1> QED BY <1>1, <1>2, Invariant, PTL DEF Spec, LogsMoves, Log!Spec

\* What follows from AnnouncedMoves for its log, here the outbox.
LogFacts == INSTANCE AnnouncedMoves_proofs
                WITH Statuses <- PaymentStatus, Moves <- PaymentMoves,
                     Announced <- PaymentAnnounced, status <- StatusOf, log <- Events

\* A subscriber is told of every end of a payment, and of each end again that
\* follows a retry (previous_status in sync.rs's payload).
THEOREM SubscriberTold == Spec => []Log!Told
  <1>1. LogFacts!Spec => []LogFacts!Told
    BY LogFacts!EveryMoveTold
  <1>2. Log!Init => LogFacts!Init
    BY DEF Log!Init, LogFacts!Init
  <1>3. [Log!Next]_(Log!vars) => [LogFacts!Next]_(LogFacts!vars)
    BY DEF Log!Next, Log!vars, Log!Enter, Log!Move, Log!Event, LogFacts!Next, LogFacts!vars,
           LogFacts!Enter, LogFacts!Move, LogFacts!Event
  <1>4. LogFacts!Told => Log!Told
    BY DEF Log!Told, Log!Follows, Log!Latest, Log!EventsOf, LogFacts!Told, LogFacts!Follows,
           LogFacts!Latest, LogFacts!EventsOf
  <1> QED BY <1>1, <1>2, <1>3, <1>4, Refinement, PTL
          DEF LogsMoves, Log!Spec, LogFacts!Spec

\* Once the baseline is set no step enters a payment silently (sync_payments).
THEOREM NothingSilent == Spec => NothingSilentAfterBaseline
  <1>1. Inv /\ [Next]_vars => [baseline => silent' \subseteq silent]_vars
    BY InvNext DEF Kept, Announced
  <1> QED BY <1>1, Invariant, PTL DEF Spec, NothingSilentAfterBaseline

=============================================================================
