------------------------- MODULE MCWebhookDispatch --------------------------
(***************************************************************************)
(* Instances of WebhookDispatch: all its constants are numbers a .cfg sets.*)
(***************************************************************************)
EXTENDS WebhookDispatch
=============================================================================
