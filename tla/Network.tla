------------------------------- MODULE Network -------------------------------
(***************************************************************************)
(* The network switch of a client and the calls that meet at it: Bootstrap *)
(* and Listen turn the network on, users of the C interface turn it off or *)
(* add an onion service directly, background tasks bootstrap Arti, and     *)
(* Close waits for every call that is inside the Rust client.              *)
(*                                                                         *)
(* The module composes two abstract specifications: a Bootstrap call moves *)
(* by the actions of BootstrapPromise (which StatusHub implements), and    *)
(* calls enter and leave the Rust client by the actions of HandlePromise   *)
(* (which FfiHandle implements). What is detailed here is                  *)
(* set_network_enabled, step by step, and onion_add.                       *)
(***************************************************************************)
EXTENDS Naturals, FiniteSets

CONSTANTS Callers,     \* goroutines, each calling Bootstrap once
          Listeners,   \* the callers whose Bootstrap call is that of a Listen
          Disablers,   \* threads calling arti_set_network_enabled(client, 0) once
          Adders       \* threads calling arti_onion_add directly, once

ASSUME RolesAssumption ==
    /\ Listeners \subseteq Callers
    /\ Callers \intersect (Disablers \union Adders) = {} /\ Disablers \intersect Adders = {}

Switchers == Callers \union Disablers \union Adders

VARIABLES
    call, online, shut,   \* of BootstrapPromise
    alive, inside,        \* of HandlePromise
    netEnabled,           \* Client.net_enabled
    mode,                 \* Arti's dormant mode
    started,              \* bootstrap tasks spawned
    running,              \* of these, the ones that have not ended
    pc,                   \* where each thread is
    overlapped            \* history: the flag changed while an earlier change
                          \* had not reached the dormant mode yet

promiseVars == <<call, online, shut>>
handleVars  == <<alive, inside>>
switchVars  == <<netEnabled, mode, started, overlapped>>
vars        == <<promiseVars, handleVars, switchVars, running, pc>>

Promise == INSTANCE BootstrapPromise
Handle  == INSTANCE HandlePromise WITH Goroutines <- Switchers

\* A thread that has changed the flag and not yet done what goes with it.
Switching == {g \in Switchers : pc[g] \in {"wake", "spawn", "sleep"}}

TypeOK ==
    /\ Promise!TypeOK
    /\ alive \in BOOLEAN /\ inside \subseteq Switchers
    /\ netEnabled \in BOOLEAN /\ overlapped \in BOOLEAN
    /\ mode \in {"normal", "soft"}
    /\ started \in Nat /\ running \in 0..started
    /\ pc \in [Switchers -> {"idle", "swap", "wake", "spawn", "sleep", "leave", "wait", "check",
                             "add", "block", "launch", "returned"}]

Init ==
    /\ Promise!Init /\ Handle!Init
    /\ netEnabled = FALSE /\ mode = "normal" /\ started = 0 /\ overlapped = FALSE
    /\ running = 0
    /\ pc = [g \in Switchers |-> "idle"]

Goes(g, from, to) == pc[g] = from /\ pc' = [pc EXCEPT ![g] = to]
-----------------------------------------------------------------------------
(* set_network_enabled. In Bootstrap the call then leaves the client; in   *)
(* onion_add it goes on to block_on.                                       *)

Adding(g) == g \in Adders \/ (g \in Callers /\ call[g] # "waiting")

Then(g) == IF Adding(g) THEN "block" ELSE "leave"

\* Mutant: the flag is tested, not swapped.
SwapLoads(g) ==
    /\ Goes(g, "swap", IF g \in Disablers THEN "sleep" ELSE IF netEnabled THEN Then(g) ELSE "wake")
    /\ UNCHANGED <<promiseVars, handleVars, switchVars, running>>

\* net_enabled.swap: a call that changes nothing is done.
Swap(g) ==
    LET on == g \notin Disablers IN
    /\ Goes(g, "swap", IF netEnabled = on THEN Then(g) ELSE IF on THEN "wake" ELSE "sleep")
    /\ netEnabled' = on
    /\ overlapped' = (overlapped \/ (netEnabled # on /\ Switching # {}))
    /\ UNCHANGED <<promiseVars, handleVars, mode, started, running>>

\* Mutant: the client is left as dormant as it was.
WakeNot(g) == Goes(g, "wake", "spawn") /\ UNCHANGED <<promiseVars, handleVars, switchVars, running>>

Wake(g) ==
    /\ Goes(g, "wake", "spawn")
    /\ mode' = "normal"
    /\ UNCHANGED <<promiseVars, handleVars, netEnabled, started, overlapped, running>>

\* Mutant: nothing is spawned.
SpawnNot(g) == Goes(g, "spawn", Then(g)) /\ UNCHANGED <<promiseVars, handleVars, switchVars, running>>

Spawn(g) ==
    /\ Goes(g, "spawn", Then(g))
    /\ started' = started + 1 /\ running' = running + 1
    /\ UNCHANGED <<promiseVars, handleVars, netEnabled, mode, overlapped>>

Sleep(d) ==
    /\ Goes(d, "sleep", "leave")
    /\ mode' = "soft"
    /\ UNCHANGED <<promiseVars, handleVars, netEnabled, started, overlapped, running>>

Switch(g) == Swap(g) \/ Wake(g) \/ Spawn(g) \/ Sleep(g)
-----------------------------------------------------------------------------
(* Bootstrap; the calls of the C interface begin in the same way.          *)

Begin(g) ==
    /\ Goes(g, "idle", "swap")
    /\ Handle!Enter(g)
    /\ IF g \in Callers THEN Promise!Begin(g) ELSE UNCHANGED promiseVars
    /\ UNCHANGED <<switchVars, running>>

\* There is no handle any more: errClosed.
Refused(g) ==
    /\ ~alive
    /\ Goes(g, "idle", "returned")
    /\ IF g \in Callers THEN Promise!Refuse(g) ELSE UNCHANGED promiseVars
    /\ UNCHANGED <<handleVars, switchVars, running>>

\* A call leaves the Rust client; a Bootstrap call goes on to wait.
Leave(g) ==
    /\ Goes(g, "leave", IF g \in Callers /\ call[g] = "waiting" THEN "wait" ELSE "returned")
    /\ Handle!Leave(g)
    /\ UNCHANGED <<promiseVars, switchVars, running>>

\* Mutant: Listen goes on after a Bootstrap that failed.
ReturnsAnyway(c) ==
    /\ Goes(c, "wait", IF c \in Listeners THEN "check" ELSE "returned")
    /\ Promise!Cancel(c) \/ Promise!Return(c)
    /\ UNCHANGED <<handleVars, switchVars, running>>

BootstrapReturns(c) ==
    /\ Promise!Cancel(c) \/ Promise!Return(c)
    /\ Goes(c, "wait", IF c \in Listeners /\ call'[c] = "ok" THEN "check" ELSE "returned")
    /\ UNCHANGED <<handleVars, switchVars, running>>
-----------------------------------------------------------------------------
(* The rest of Listen: the closed check, and OnionAdd.                     *)

CheckClosed(c) ==
    /\ Goes(c, "check", IF shut THEN "returned" ELSE "add")
    /\ UNCHANGED <<promiseVars, handleVars, switchVars, running>>

\* The handle is looked at under its lock; onion_add starts by turning the
\* network on.
OnionAdd(c) ==
    /\ IF alive THEN Goes(c, "add", "swap") /\ Handle!Enter(c)
                ELSE Goes(c, "add", "returned") /\ UNCHANGED handleVars
    /\ UNCHANGED <<promiseVars, switchVars, running>>

\* Mutant: the service is launched while the background task bootstraps.
BlockNot(g) == Goes(g, "block", "launch") /\ UNCHANGED <<promiseVars, handleVars, switchVars, running>>

\* block_on(tor.bootstrap()) returns at once on a client that is ready.
BlockDone(g) ==
    /\ online
    /\ Goes(g, "block", "launch")
    /\ UNCHANGED <<promiseVars, handleVars, switchVars, running>>

\* On one that is not, it is an attempt of its own. Whether and when that
\* succeeds, or ends in "failed to bootstrap", is the network's choice.
BlockConnects(g) ==
    /\ pc[g] = "block" /\ ~online
    /\ Promise!Connect
    /\ UNCHANGED <<handleVars, switchVars, running, pc>>

BlockFails(g) ==
    /\ ~online
    /\ Goes(g, "block", "leave")
    /\ UNCHANGED <<promiseVars, handleVars, switchVars, running>>

\* onion::launch, which may fail, and the insertion into services.
Launch(g) ==
    /\ Goes(g, "launch", "leave")
    /\ UNCHANGED <<promiseVars, handleVars, switchVars, running>>
-----------------------------------------------------------------------------
(* The spawned tasks, and Close. The tasks end with the runtime.           *)

AttemptSucceeds ==
    /\ alive /\ running > 0
    /\ Promise!Connect
    /\ running' = running - 1
    /\ UNCHANGED <<handleVars, switchVars, pc>>

\* "a failed attempt must not take down the client".
AttemptFails ==
    /\ alive /\ running > 0
    /\ running' = running - 1
    /\ UNCHANGED <<promiseVars, handleVars, switchVars, pc>>

CloseBegins == Promise!Shut /\ ~shut /\ UNCHANGED <<handleVars, switchVars, running, pc>>

\* Close frees the handle, which waits for every call inside the client; the
\* runtime, and the tasks on it, go with it.
CloseFrees ==
    /\ shut /\ Handle!Release
    /\ running' = 0
    /\ UNCHANGED <<promiseVars, switchVars, pc>>

Terminated == (\A g \in Switchers : pc[g] = "returned") /\ ~alive /\ UNCHANGED vars

\* The steps of a call that depend on nothing but the code.
Step(g) == Switch(g) \/ Leave(g) \/ CheckClosed(g) \/ OnionAdd(g) \/ BlockDone(g) \/ Launch(g)

Next ==
    \/ AttemptSucceeds \/ AttemptFails \/ CloseBegins \/ CloseFrees \/ Terminated
    \/ \E c \in Callers : BootstrapReturns(c)
    \/ \E g \in Switchers : Begin(g) \/ Refused(g) \/ BlockConnects(g) \/ BlockFails(g) \/ Step(g)

\* No fairness of the network, of the callers, or of whoever may call Close.
Spec == /\ Init /\ [][Next]_vars
        /\ \A g \in Switchers : WF_vars(Step(g))
        /\ WF_vars(CloseFrees)
-----------------------------------------------------------------------------
(* The swap and what goes with it are separate steps, yet once no thread   *)
(* is between them the dormant mode is the one the flag tells, as long as  *)
(* no two changes of the flag overlapped; Go only ever turns the network   *)
(* on, and then none does (client.rs set_network_enabled).                 *)
SwitchSettles ==
    (Switching = {} /\ ~overlapped) =>
        /\ netEnabled => mode = "normal" /\ started > 0
        /\ started > 0 /\ ~netEnabled => mode = "soft"

\* However many calls race to turn the network on, each change of the flag
\* spawns one bootstrap task: no two without a call that turned it off in
\* between (client.rs set_network_enabled, onion_add).
OneAttemptPerEnable ==
    started + Cardinality({g \in Switchers : pc[g] \in {"wake", "spawn"}})
        <= 1 + Cardinality({d \in Disablers : pc[d] \in {"sleep", "leave", "returned"}})

\* A service is launched only on a client that is ready, also for a caller
\* that did not bootstrap: Arti refuses it on any other, and does not wait
\* (client.rs onion_add).
LaunchIsReady == \A g \in Switchers : pc[g] = "launch" => online

\* A Bootstrap call that found the network already on, and so started
\* nothing itself, still waits for an attempt that somebody starts.
BootstrapIsTried == \A c \in Callers : pc[c] = "wait" ~> started > 0

\* OnionAdd blocks on tor.bootstrap() with the handle's read lock held, but
\* Listen calls it only on a client that is ready, so it returns whatever
\* the network does (client.rs onion_add, onion.go Listen).
AddReturns == \A c \in Listeners : pc[c] = "add" ~> pc[c] = "returned"

\* Close gets the handle whatever the network does, unless a caller of the C
\* interface sits in arti_onion_add: no call of the Go package is ever inside
\* the client waiting for the network (client.go Close, cgo.go free).
CloseCompletes == shut ~> ~alive \/ \E a \in Adders : pc[a] = "block"
=============================================================================
