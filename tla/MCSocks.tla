------------------------------- MODULE MCSocks -------------------------------
(* Small instances of Socks for TLC. *)
EXTENDS Socks, TLC

\* Connections are interchangeable, and so are credentials.
Symmetry == Permutations(Conns) \union Permutations(Creds)
=============================================================================
