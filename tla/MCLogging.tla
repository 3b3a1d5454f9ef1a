------------------------------ MODULE MCLogging ------------------------------
(* Small instances of Logging for TLC. *)
EXTENDS Logging
=============================================================================
