------------------------------ MODULE FfiHandle ------------------------------
(***************************************************************************)
(* The handle on the Rust client: artiClient of cgo.go, its sync.RWMutex,  *)
(* and the part of the Rust client that the calls' lifetimes depend on     *)
(* (the exit flag that `wait` waits for, and the live onion services).     *)
(*                                                                         *)
(* The RWMutex is Go's: a goroutine in Lock first announces itself; from   *)
(* then on new readers block, the readers inside drain, and Unlock hands   *)
(* the read lock to every reader that blocked.                             *)
(***************************************************************************)
EXTENDS Naturals, FiniteSets

CONSTANTS Users,    \* goroutines that call the backend, again and again
          Closers,  \* goroutines that run Shutdown and then free, once
          None      \* no writer

ASSUME ActorsAssumption == Users \intersect Closers = {} /\ None \notin Users \union Closers

Goroutines == Users \union Closers

\* A "query" returns at once (BootstrapStatus, SetNetworkEnabled, SocksAddr...);
\* next_event returns within its timeout, onion_add once tor.bootstrap() does.
UserOps == {"query", "next_event", "onion_add", "onion_del", "wait"}

VARIABLES
    pc,        \* where each goroutine is
    op,        \* the call it is making
    writer,    \* the goroutine that announced Lock, or None
    handle,    \* artiClient.handle: "live" or "nil"
    native,    \* the Rust client: "up" or "dropped"
    exit,      \* Client.exit
    services   \* Client.services, each named by the goroutine that added it

rustVars == <<native, exit, services>>
vars == <<pc, op, writer, handle, rustVars>>

TypeOK ==
    /\ pc \in [Goroutines -> {"idle", "call", "blocked", "locked", "native", "announce",
                              "draining", "freeing", "clearing", "done"}]
    /\ op \in [Goroutines -> UserOps \union {"shutdown", "free", "none"}]
    /\ \A k \in Closers : op[k] \notin UserOps
    /\ writer \in Goroutines \union {None}
    /\ handle \in {"live", "nil"}
    /\ native \in {"up", "dropped"}
    /\ exit \in BOOLEAN
    /\ services \subseteq Users

Init == /\ pc = [g \in Goroutines |-> "idle"]
        /\ op = [g \in Goroutines |-> "none"]
        /\ writer = None
        /\ handle = "live"
        /\ native = "up"
        /\ exit = FALSE
        /\ services = {}

Moves(g, from, to) == pc[g] = from /\ pc' = [pc EXCEPT ![g] = to]

\* Where a call goes when it returns: Close runs free after Shutdown.
After(g) == IF op[g] = "shutdown" THEN "announce" ELSE "idle"
-----------------------------------------------------------------------------
Call(u) ==
    /\ Moves(u, "idle", "call")
    /\ \E o \in UserOps : op' = [op EXCEPT ![u] = o]
    /\ UNCHANGED <<writer, handle, rustVars>>

\* Mutant: Close frees the handle without having shut the client down.
FreeFirst(k) ==
    /\ Moves(k, "idle", "announce")
    /\ op' = [op EXCEPT ![k] = "free"]
    /\ UNCHANGED <<writer, handle, rustVars>>

\* Client.Close reaches backend.Shutdown().
CallClose(k) ==
    /\ Moves(k, "idle", "call")
    /\ op' = [op EXCEPT ![k] = "shutdown"]
    /\ UNCHANGED <<writer, handle, rustVars>>

RLock(g) ==
    /\ Moves(g, "call", IF writer = None THEN "locked" ELSE "blocked")
    /\ UNCHANGED <<op, writer, handle, rustVars>>

\* Mutant: a call on a released handle is tried again.
RetryOnNil(g) ==
    /\ handle = "nil"
    /\ Moves(g, "locked", "call")
    /\ UNCHANGED <<op, writer, handle, rustVars>>

\* A call on a released handle returns errClosed (or does nothing).
CallOnNil(g) ==
    /\ handle = "nil"
    /\ Moves(g, "locked", After(g))
    /\ UNCHANGED <<op, writer, handle, rustVars>>

\* Mutant: the handle is not looked at under the lock.
EnterUnchecked(g) ==
    /\ Moves(g, "locked", "native")
    /\ UNCHANGED <<op, writer, handle, rustVars>>

EnterNative(g) ==
    /\ handle # "nil"
    /\ Moves(g, "locked", "native")
    /\ UNCHANGED <<op, writer, handle, rustVars>>

\* Client::shutdown: stop every service, then let `wait` go.
shutdown == services' = {} /\ exit' = TRUE

\* The effect of each call; `wait` returns only once exit is set.
Effect(g) ==
    CASE op[g] = "onion_add" -> services' = services \union {g} /\ UNCHANGED exit
      [] op[g] = "onion_del" -> /\ \E s \in Users : services' = services \ {s}
                                /\ UNCHANGED exit
      [] op[g] = "shutdown"  -> shutdown
      [] op[g] = "wait"      -> exit /\ UNCHANGED <<exit, services>>
      [] OTHER               -> UNCHANGED <<exit, services>>

\* The call returns and gives the read lock back.
LeaveNative(g) ==
    /\ Moves(g, "native", After(g))
    /\ Effect(g)
    /\ UNCHANGED <<op, writer, handle, native>>
-----------------------------------------------------------------------------
(* free                                                                    *)

\* Lock: one writer at a time announces itself.
Announce(k) ==
    /\ writer = None
    /\ Moves(k, "announce", "draining")
    /\ writer' = k
    /\ op' = [op EXCEPT ![k] = "free"]
    /\ UNCHANGED <<handle, rustVars>>

Lock(k) ==
    /\ \A g \in Goroutines : pc[g] \notin {"locked", "native"}
    /\ Moves(k, "draining", "freeing")
    /\ UNCHANGED <<op, writer, handle, rustVars>>

\* Mutant: the client is dropped without shutting its services down again.
DropOnly(k) ==
    /\ Moves(k, "freeing", "clearing")
    /\ native' = "dropped"
    /\ UNCHANGED <<op, writer, handle, exit, services>>

\* arti_client_free: shut down once more, then drop the client.
FreeNative(k) ==
    /\ handle # "nil"
    /\ Moves(k, "freeing", "clearing")
    /\ native' = "dropped"
    /\ shutdown
    /\ UNCHANGED <<op, writer, handle>>

FreeNothing(k) ==
    /\ handle = "nil"
    /\ Moves(k, "freeing", "clearing")
    /\ UNCHANGED <<op, writer, handle, rustVars>>

Unlocked(k) == pc' = [g \in Goroutines |-> IF g = k THEN "done"
                                           ELSE IF pc[g] = "blocked" THEN "locked" ELSE pc[g]]

\* Mutant: the freed handle is not cleared.
UnlockOnly(k) ==
    /\ pc[k] = "clearing" /\ Unlocked(k)
    /\ writer' = None
    /\ UNCHANGED <<op, handle, rustVars>>

\* handle = nil, then Unlock: the readers that blocked hold the lock.
Unlock(k) ==
    /\ pc[k] = "clearing" /\ Unlocked(k)
    /\ handle' = "nil"
    /\ writer' = None
    /\ UNCHANGED <<op, rustVars>>
-----------------------------------------------------------------------------
\* The steps of a call under way.
Step(g) == RLock(g) \/ CallOnNil(g) \/ EnterNative(g) \/ LeaveNative(g)

FreeStep(k) == Announce(k) \/ Lock(k) \/ FreeNative(k) \/ FreeNothing(k) \/ Unlock(k)

Next == \/ \E u \in Users : Call(u)
        \/ \E k \in Closers : CallClose(k) \/ FreeStep(k)
        \/ \E g \in Goroutines : Step(g)

\* A call goes on when it can: the scheduler runs every goroutine, next_event
\* times out and tor.bootstrap() returns. Nobody has to make a call.
Fairness == /\ \A g \in Goroutines : WF_vars(Step(g))
            /\ \A k \in Closers : WF_vars(FreeStep(k))

Spec == Init /\ [][Next]_vars /\ Fairness
-----------------------------------------------------------------------------
\* "A freed handle can never be passed back across the FFI boundary"
\* (cgo.go:93): a goroutine executes native code only on a client that exists,
\* and the client is freed only once.
NoUseAfterFree ==
    /\ \A g \in Goroutines : pc[g] = "native" => native = "up"
    /\ \A k \in Closers : pc[k] = "freeing" /\ handle = "live" => native = "up"

\* No onion service outlives the client without having been shut down, also
\* not one added between Shutdown and free.
NoServiceAbandoned == native = "dropped" => services = {}

\* The handle is released once, with nobody inside: HandlePromise.
Promise == INSTANCE HandlePromise WITH
    alive  <- native = "up",
    inside <- {g \in Goroutines : pc[g] = "native"}

KeepsPromise == Promise!Spec

\* Why: the lock has one writer, no reader is inside while it holds the lock,
\* and a handle that is not nil is a client that exists, but for the moment in
\* which free has dropped it and not yet cleared the handle.
LockInvariant ==
    /\ \A g \in Goroutines : pc[g] \in {"draining", "freeing", "clearing"} <=> writer = g
    /\ \A g \in Goroutines : pc[g] \in {"announce", "draining", "freeing", "clearing"} => g \in Closers
    /\ \A w, g \in Goroutines :
          pc[w] \in {"freeing", "clearing"} => pc[g] \notin {"locked", "native"}
    /\ \A g \in Goroutines : pc[g] = "native" => handle = "live"
    /\ native = "dropped" /\ handle = "live" => \E w \in Goroutines : pc[w] = "clearing"
    /\ \A g \in Goroutines : op[g] = "shutdown" => g \in Closers

\* Close always comes to its end, although calls hold the read lock while they
\* block and a waiting writer shuts new readers out: Shutdown first is what
\* lets a blocked `wait` out of the way of free.
CloseCompletes == \A k \in Closers : pc[k] # "idle" ~> pc[k] = "done"

\* After a Close, calls that were blocked behind free return, and so does
\* every `wait`.
CallsReturn ==
    \A u \in Users : (exit /\ pc[u] # "idle") ~> pc[u] = "idle"
=============================================================================
