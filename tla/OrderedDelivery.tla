-------------------------- MODULE OrderedDelivery ---------------------------
(***************************************************************************)
(* What docs/webhooks.md promises of webhook delivery: events are offered  *)
(* in creation order, the oldest open one blocks the rest, it is offered   *)
(* until the receiver accepted it or it is parked, and offering it again   *)
(* after an acceptance is allowed (at-least-once).  An offer that was      *)
(* given up on may still be accepted later.                                *)
(***************************************************************************)
EXTENDS Naturals, Sequences

VARIABLES
    state,     \* the events in creation order: "open", "done" or "parked"
    accepted,  \* the events the receiver accepted, in the order it did
    slow       \* the events an abandoned offer of which may yet be accepted

vars == <<state, accepted, slow>>

Oldest(i) ==
    /\ i \in DOMAIN state
    /\ state[i] = "open"
    /\ \A j \in DOMAIN state : j < i => state[j] # "open"

Accepted(i) == \E k \in DOMAIN accepted : accepted[k] = i

Init == state = <<>> /\ accepted = <<>> /\ slow = {}

Create(s) ==
    /\ state' = Append(state, s)
    /\ UNCHANGED <<accepted, slow>>

Accept(i) ==
    /\ Oldest(i)
    /\ accepted' = Append(accepted, i)
    /\ UNCHANGED <<state, slow>>

Abandon(i) ==
    /\ Oldest(i)
    /\ slow' = slow \cup {i}
    /\ UNCHANGED <<state, accepted>>

AcceptLate(i) ==
    /\ i \in slow
    /\ accepted' = Append(accepted, i)
    /\ slow' \in {slow, slow \ {i}}
    /\ UNCHANGED state

Close(i) ==
    /\ Oldest(i)
    /\ Accepted(i)
    /\ state' = [state EXCEPT ![i] = "done"]
    /\ UNCHANGED <<accepted, slow>>

Park(i) ==
    /\ Oldest(i)
    /\ state' = [state EXCEPT ![i] = "parked"]
    /\ UNCHANGED <<accepted, slow>>

Next ==
    \/ \E s \in {"open", "parked"} : Create(s)
    \/ \E i \in DOMAIN state :
          Accept(i) \/ Abandon(i) \/ AcceptLate(i) \/ Close(i) \/ Park(i)

Spec == Init /\ [][Next]_vars
=============================================================================
