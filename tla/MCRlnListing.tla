---------------------------- MODULE MCRlnListing ----------------------------
(***************************************************************************)
(* Instances of RlnListing: all its constants are numbers a .cfg sets.     *)
(***************************************************************************)
EXTENDS RlnListing
=============================================================================
