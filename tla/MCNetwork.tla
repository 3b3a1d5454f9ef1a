------------------------------ MODULE MCNetwork ------------------------------
(* Two Bootstrap calls, one of them that of a Listen, and two threads of   *)
(* the C interface: one turns the network off, one adds a service.         *)
EXTENDS Network
=============================================================================
