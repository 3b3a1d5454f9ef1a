------------------------------- MODULE MCOnion -------------------------------
(* Small instances of Onion for TLC. *)
EXTENDS Onion, TLC

CONSTANTS l1, l2, a, b

\* Two calls with keys of their own, or one call.
OwnKeys == l1 :> a @@ l2 :> b
OneKey  == l1 :> a
=============================================================================
