----------------------------- MODULE MCFindLimit -----------------------------
(* Small instances of FindLimit for TLC. *)
EXTENDS FindLimit
=============================================================================
