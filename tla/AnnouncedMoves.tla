--------------------------- MODULE AnnouncedMoves ---------------------------
(***************************************************************************)
(* What docs/webhooks.md promises of the mirrors: a transition of a row    *)
(* and the event it carries are one write, transitions follow the rules of *)
(* their kind, and a row that is entered is entered without an event.      *)
(***************************************************************************)
EXTENDS Naturals, Sequences

CONSTANTS
    Statuses,   \* the statuses of a row
    Moves,      \* the transitions there are, as pairs of statuses
    Announced   \* the statuses whose entering carries an event

VARIABLES
    status,     \* the status of each row there is
    log         \* the events in creation order

vars == <<status, log>>

Event(k, s) == [key |-> k, from |-> status[k], to |-> s]

Init == status = <<>> /\ log = <<>>

Enter(k, s) ==
    /\ k \notin DOMAIN status
    /\ status' = [j \in DOMAIN status \cup {k} |-> IF j = k THEN s ELSE status[j]]
    /\ UNCHANGED log

Move(k, s) ==
    /\ k \in DOMAIN status
    /\ <<status[k], s>> \in Moves
    /\ status' = [status EXCEPT ![k] = s]
    /\ log' = IF s \in Announced THEN Append(log, Event(k, s)) ELSE log

\* No row is ever deleted, so those of the next state are all there are.
Next == \E k \in DOMAIN status', s \in Statuses : Enter(k, s) \/ Move(k, s)

Spec == Init /\ [][Next]_vars

-----------------------------------------------------------------------------
(* What a subscriber may rely on *)

EventsOf(k) == {i \in DOMAIN log : log[i].key = k}

Latest(k, i) == i \in EventsOf(k) /\ \A j \in EventsOf(k) : j <= i

\* Event j of a row is the next one after event i.
Follows(i, j) ==
    /\ i < j /\ log[i].key = log[j].key
    /\ \A l \in EventsOf(log[i].key) : l <= i \/ j <= l

\* The events of a row leave out no announced status: each starts where the one
\* before it ended or at a status that carries no event, and the row itself is
\* where its last event says or at such a status.
Told ==
    /\ \A i \in DOMAIN log :
          /\ log[i].key \in DOMAIN status
          /\ <<log[i].from, log[i].to>> \in Moves
          /\ log[i].to \in Announced
    /\ \A i, j \in DOMAIN log :
          Follows(i, j) => log[j].from \in {log[i].to} \cup (Statuses \ Announced)
    /\ \A k \in DOMAIN status : \A i \in EventsOf(k) :
          Latest(k, i) => status[k] \in {log[i].to} \cup (Statuses \ Announced)
=============================================================================
