----------------------------- MODULE MCFfiHandle -----------------------------
(* Small instances of FfiHandle for TLC. *)
EXTENDS FfiHandle
=============================================================================
