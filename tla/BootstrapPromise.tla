-------------------------- MODULE BootstrapPromise --------------------------
(***************************************************************************)
(* What Client.Bootstrap promises to its callers, with nothing of how it   *)
(* is done: a call returns nil only once the client can carry traffic,     *)
(* reports "closed" only when the client was closed, and a call that is    *)
(* not cancelled returns once the client is connected or closed.           *)
(* StatusHub implements it.                                                *)
(***************************************************************************)
CONSTANT Callers

VARIABLES call,     \* how far each caller's Bootstrap call has come
          online,   \* whether Arti can carry traffic; never retracted
          shut      \* whether Close was called

vars == <<call, online, shut>>

Outcomes == {"ok", "closed", "cancelled"}

TypeOK == /\ call \in [Callers -> {"idle", "waiting"} \union Outcomes]
          /\ online \in BOOLEAN
          /\ shut \in BOOLEAN

Init == /\ call = [c \in Callers |-> "idle"]
        /\ online = FALSE
        /\ shut = FALSE

Becomes(c, from, to) == /\ call[c] = from
                        /\ call' = [call EXCEPT ![c] = to]
                        /\ UNCHANGED <<online, shut>>

Begin(c) == Becomes(c, "idle", "waiting")

\* The call finds the client already released.
Refuse(c) == shut /\ Becomes(c, "idle", "closed")

Succeed(c) == online /\ Becomes(c, "waiting", "ok")

FailClosed(c) == shut /\ Becomes(c, "waiting", "closed")

\* The caller's context ends; it may do so at any time and need never do so.
Cancel(c) == Becomes(c, "waiting", "cancelled")

Connect == online' = TRUE /\ UNCHANGED <<call, shut>>

Shut == shut' = TRUE /\ UNCHANGED <<call, online>>

Return(c) == Succeed(c) \/ FailClosed(c)

Next == \/ Connect
        \/ Shut
        \/ \E c \in Callers : Begin(c) \/ Refuse(c) \/ Return(c) \/ Cancel(c)

Safe == Init /\ [][Next]_vars

Spec == Safe /\ \A c \in Callers : WF_vars(Return(c))
=============================================================================
