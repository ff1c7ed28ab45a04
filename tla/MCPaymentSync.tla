--------------------------- MODULE MCPaymentSync ----------------------------
(***************************************************************************)
(* Small instances of PaymentSync: a hash paid by the calls, and one that  *)
(* arrives over P2P or through an invoice.                                 *)
(***************************************************************************)
EXTENDS PaymentSync, TLC

CONSTANTS out, in, c1, c2

MCHashOf == [c \in Calls |-> out]

\* What is sent may be cancelled and retried; what arrives settles.
MCStages ==
    [h \in Hashes |-> {"Succeeded"} \cup (IF h = out THEN {"Cancelled"} ELSE {})]
=============================================================================
