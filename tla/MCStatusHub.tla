----------------------------- MODULE MCStatusHub -----------------------------
(* Small instances of StatusHub for TLC. *)
EXTENDS StatusHub

\* Not started, half way, all but ready, stuck half way, connected.
MCFaults == {"unreachable"}
MCViews ==
    {[frac |-> 50, blockage |-> "none", ready |-> FALSE],
     [frac |-> 100, blockage |-> "none", ready |-> FALSE],
     [frac |-> 50, blockage |-> "unreachable", ready |-> FALSE],
     [frac |-> 100, blockage |-> "none", ready |-> TRUE]}
=============================================================================
