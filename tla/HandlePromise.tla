---------------------------- MODULE HandlePromise ----------------------------
(***************************************************************************)
(* What the guarded handle of cgo.go promises: a Rust client that is alive *)
(* until it is released, released once, and only with no call inside it.   *)
(* FfiHandle implements it.                                                *)
(***************************************************************************)
CONSTANT Goroutines

VARIABLES alive,   \* the Rust client exists
          inside   \* the goroutines executing one of its functions

vars == <<alive, inside>>

Init == alive = TRUE /\ inside = {}

Enter(g) == alive /\ inside' = inside \union {g} /\ UNCHANGED alive

Leave(g) == g \in inside /\ inside' = inside \ {g} /\ UNCHANGED alive

Release == alive /\ inside = {} /\ alive' = FALSE /\ UNCHANGED inside

Next == Release \/ \E g \in Goroutines : Enter(g) \/ Leave(g)

Spec == Init /\ [][Next]_vars
=============================================================================
