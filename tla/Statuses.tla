------------------------------ MODULE Statuses ------------------------------
(***************************************************************************)
(* The status types of store.rs and the pure rules of sync.rs that decide  *)
(* whether an observation of the node moves a mirrored row, and which      *)
(* webhook event the move carries.                                         *)
(***************************************************************************)
EXTENDS Naturals

NoEvent == "none"

-----------------------------------------------------------------------------
(* RGB transfers *)

TransferStatus ==
    {"Initiated", "WaitingCounterparty", "WaitingSafeHeight",
     "WaitingBroadcast", "WaitingConfirmations", "Settled", "Failed"}

TransferTerminal == {"Settled", "Failed"}

Waiting ==
    {"WaitingCounterparty", "WaitingSafeHeight", "WaitingBroadcast",
     "WaitingConfirmations"}

Fallible ==
    {"Initiated", "WaitingCounterparty", "WaitingSafeHeight",
     "WaitingBroadcast"}

Rank(s) ==
    CASE s = "Initiated"            -> 0
      [] s = "WaitingCounterparty"  -> 1
      [] s = "WaitingSafeHeight"    -> 2
      [] s = "WaitingBroadcast"     -> 3
      [] s = "WaitingConfirmations" -> 4
      [] s \in TransferTerminal     -> 5

\* plan_transition returns Some exactly when Advances holds.
Advances(from, observed) ==
    /\ from \notin TransferTerminal
    /\ Rank(observed) > Rank(from)

TransferEvents ==
    {"transfer.confirmed_pending", "transfer.settled", "transfer.failed"}

TransferEvent(to) ==
    CASE to = "WaitingConfirmations" -> "transfer.confirmed_pending"
      [] to = "Settled"              -> "transfer.settled"
      [] to = "Failed"               -> "transfer.failed"
      [] OTHER                       -> NoEvent

\* The transitions there are, and the statuses whose entering carries an event.
TransferMoves == {m \in TransferStatus \X TransferStatus : Advances(m[1], m[2])}

TransferAnnounced == {s \in TransferStatus : TransferEvent(s) # NoEvent}

-----------------------------------------------------------------------------
(* Lightning payments *)

PaymentStatus ==
    {"Pending", "Claimable", "Claiming", "Succeeded", "Failed", "Cancelled"}

PaymentTerminal == {"Succeeded", "Failed", "Cancelled"}

PaymentRank(s) ==
    CASE s = "Pending"            -> 0
      [] s = "Claimable"          -> 1
      [] s = "Claiming"           -> 2
      [] s \in PaymentTerminal    -> 3

\* RLN reuses the hash of a failed or cancelled payment on retry.
Restarts(from, observed) ==
    from \in {"Failed", "Cancelled"} /\ observed = "Pending"

\* Mutant of PaymentAdvances: a status may not be skipped.
PaymentAdvancesByOne(from, observed) ==
    \/ Restarts(from, observed)
    \/ PaymentRank(observed) = PaymentRank(from) + 1

PaymentAdvances(from, observed) ==
    \/ Restarts(from, observed)
    \/ /\ from \notin PaymentTerminal
       /\ PaymentRank(observed) > PaymentRank(from)

PaymentEvents == {"payment.settled", "payment.failed"}

\* Mutant of PaymentEvent: a cancellation is not announced.
PaymentEventUncancelled(to) ==
    CASE to = "Succeeded" -> "payment.settled"
      [] to = "Failed"    -> "payment.failed"
      [] OTHER            -> NoEvent

PaymentEvent(to) ==
    CASE to = "Succeeded"               -> "payment.settled"
      [] to \in {"Failed", "Cancelled"} -> "payment.failed"
      [] OTHER                          -> NoEvent

PaymentMoves == {m \in PaymentStatus \X PaymentStatus : PaymentAdvances(m[1], m[2])}

PaymentAnnounced == {s \in PaymentStatus : PaymentEvent(s) # NoEvent}
=============================================================================
