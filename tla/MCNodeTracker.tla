--------------------------- MODULE MCNodeTracker ----------------------------
(***************************************************************************)
(* Instances of NodeTracker: the tasks are model values a .cfg names.      *)
(***************************************************************************)
EXTENDS NodeTracker
=============================================================================
