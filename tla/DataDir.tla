------------------------------- MODULE DataDir -------------------------------
(***************************************************************************)
(* The life of a data directory and of the clients opened on it, one after *)
(* another or side by side, in processes of their own that may crash: Open *)
(* with its purge of stale onion-service state and its SOCKS listener,     *)
(* onion services with their state on disk, Close.                         *)
(*                                                                         *)
(* An instance is the state of one onion service, a directory named after  *)
(* the service's nickname. Arti locks it while the service, or a task of   *)
(* it, runs; the lock goes with the process, the directory does not, and   *)
(* the keys of the introduction points it names were never on disk.        *)
(***************************************************************************)
EXTENDS Config, FiniteSets

CONSTANTS Clients,   \* clients, each with one life
          Asked,     \* the configurations they are opened with
          Names,     \* nicknames: 1..n, of 64 random bits in the code
          Before,    \* those of the instances that earlier runs left
          Ephemeral  \* the ports the system gives to a bind of port 0

ASSUME AskedAssumption == Asked \subseteq Configs /\ Asked # {}
ASSUME NamesAssumption == Names \subseteq Nat /\ Before \subseteq Names
ASSUME EphemeralAssumption == Ephemeral \subseteq 1..MaxPort

VARIABLES
    pc,       \* how far each client's life has come
    asked,    \* the configuration it was opened with
    built,    \* its Rust client exists
    bound,    \* the port its SOCKS listener is bound to, 0 for none
    todo,     \* the instances its purge has listed and not yet visited
    held,     \* the one it has locked and been offered, to dispose of
    serving,  \* the instances of its onion services
    winding,  \* those of services shut down whose tasks still hold the lock
    disk,     \* the instances on disk
    mine,     \* history: the nicknames it has used
    old,      \* history: instances nobody held when its purge began
    dropped,  \* history: of these, what another purge held and let go
    swept     \* history: its purge has met no error

lifeVars  == <<asked, built, bound>>
purgeVars == <<todo, held, old, dropped, swept>>
svcVars   == <<serving, winding, mine>>
vars      == <<pc, lifeVars, purgeVars, svcVars, disk>>

Ended   == {"failed", "closed", "crashed"}
InUse   == UNION {serving[c] \union winding[c] : c \in Clients}
Held(S) == UNION {held[c] : c \in S}
Locked  == InUse \union Held(Clients)
Socks(c) == SocksPort(artiConfig(asked[c]).socks_port)

TypeOK ==
    /\ pc \in [Clients -> {"unborn", "purge", "start", "running", "failing", "draining"} \union Ended]
    /\ asked \in [Clients -> Asked]
    /\ built \in [Clients -> BOOLEAN] /\ swept \in [Clients -> BOOLEAN]
    /\ bound \in [Clients -> 0..MaxPort]
    /\ disk \subseteq Names
    /\ todo \in [Clients -> SUBSET Names] /\ held \in [Clients -> SUBSET Names]
    /\ old \in [Clients -> SUBSET Names] /\ dropped \in [Clients -> SUBSET Names]
    /\ serving \in [Clients -> SUBSET Names] /\ winding \in [Clients -> SUBSET Names]
    /\ mine \in [Clients -> SUBSET Names]

Nothing == [c \in Clients |-> {}]

Init ==
    /\ pc = [c \in Clients |-> "unborn"]
    /\ asked \in [Clients -> Asked]
    /\ built = [c \in Clients |-> FALSE] /\ bound = [c \in Clients |-> 0]
    /\ todo = Nothing /\ held = Nothing /\ old = Nothing /\ dropped = Nothing
    /\ swept = [c \in Clients |-> FALSE]
    /\ serving = Nothing /\ winding = Nothing /\ mine = Nothing
    /\ disk = Before

Goes(c, from, to) == pc[c] = from /\ pc' = [pc EXCEPT ![c] = to]
-----------------------------------------------------------------------------
(* Open: the configuration, the purge, the client, the listener.           *)

Open(c) ==
    /\ Accepts(artiConfig(asked[c]))
    /\ Goes(c, "unborn", "purge")
    /\ todo' = [todo EXCEPT ![c] = disk]
    /\ old' = [old EXCEPT ![c] = disk \ Locked]
    /\ swept' = [swept EXCEPT ![c] = TRUE]
    /\ UNCHANGED <<lifeVars, svcVars, held, dropped, disk>>

\* No DataDir, a bridge line that does not parse, or a directory that cannot
\* be created.
OpenRefused(c) ==
    /\ Goes(c, "unborn", "failed")
    /\ UNCHANGED <<lifeVars, purgeVars, svcVars, disk>>

Visits(c, n) ==
    /\ pc[c] = "purge" /\ held[c] = {} /\ n \in todo[c]
    /\ todo' = [todo EXCEPT ![c] = @ \ {n}]
    /\ UNCHANGED <<pc, lifeVars, old, dropped, swept, svcVars, disk>>

\* Mutant: an instance in use is offered like any other.
VisitLocked(c, n) == Visits(c, n) /\ held' = [held EXCEPT ![c] = {n} \intersect disk]

\* Mutant: the filters call an instance live.
VisitSkips(c, n) == Visits(c, n) /\ UNCHANGED held

\* Mutant: the purge waits for an instance that is in use.
VisitWaits(c, n) ==
    /\ Visits(c, n) /\ n \notin Locked
    /\ held' = [held EXCEPT ![c] = {n} \intersect disk]

\* purge_instances locks an instance that is there and not locked, and offers
\* it to PurgeAll, whose filters spare nothing. What is locked, if only by the
\* purge of another client, or has gone meanwhile, it passes over: no error.
Visit(c, n) ==
    /\ Visits(c, n)
    /\ held' = [held EXCEPT ![c] = ({n} \intersect disk) \ Locked]

\* dispose: handle.purge() deletes the instance, and the lock goes with it.
Dispose(c) ==
    /\ pc[c] = "purge" /\ held[c] # {}
    /\ disk' = disk \ held[c]
    /\ held' = [held EXCEPT ![c] = {}]
    /\ UNCHANGED <<pc, lifeVars, todo, old, dropped, swept, svcVars>>

\* The handle is dropped, the instance stays.
LetGo(c) ==
    /\ held' = [held EXCEPT ![c] = {}]
    /\ dropped' = [d \in Clients |-> dropped[d] \union (held[c] \intersect old[d])]

\* "Best-effort": an error, and what is left stays.
PurgeFails(c) ==
    /\ pc[c] = "purge" /\ todo[c] \union held[c] # {}
    /\ todo' = [todo EXCEPT ![c] = {}]
    /\ LetGo(c)
    /\ swept' = [swept EXCEPT ![c] = FALSE]
    /\ UNCHANGED <<pc, lifeVars, old, svcVars, disk>>

PurgeOver(c) == todo[c] = {} /\ held[c] = {}

Create(c) ==
    /\ PurgeOver(c)
    /\ Goes(c, "purge", "start")
    /\ built' = [built EXCEPT ![c] = TRUE]
    /\ UNCHANGED <<asked, bound, purgeVars, svcVars, disk>>

\* The cache directory, the runtime or the TorClient cannot be made.
CreateFails(c) ==
    /\ PurgeOver(c)
    /\ Goes(c, "purge", "failed")
    /\ UNCHANGED <<lifeVars, purgeVars, svcVars, disk>>

Binds(c, p) ==
    /\ \A d \in Clients : bound[d] # p
    /\ bound' = [bound EXCEPT ![c] = p]

\* start, with the address of socks_bind_addr.
Start(c) ==
    /\ Goes(c, "start", "running")
    /\ \/ Socks(c) = Disabled /\ UNCHANGED bound
       \/ Socks(c) = AutoPort /\ \E p \in Ephemeral : Binds(c, p)
       \/ Socks(c).kind = "fixed" /\ Binds(c, Socks(c).port)
    /\ UNCHANGED <<asked, built, purgeVars, svcVars, disk>>

\* The port is taken, by one of these clients or by a stranger.
StartFails(c) ==
    /\ Socks(c) # Disabled
    /\ Goes(c, "start", "failing")
    /\ UNCHANGED <<lifeVars, purgeVars, svcVars, disk>>

\* Mutant: Open returns the error and leaves the client.
FailUnfreed(c) ==
    /\ Goes(c, "failing", "failed")
    /\ UNCHANGED <<lifeVars, purgeVars, svcVars, disk>>

\* backend.free() in Open.
FreeFailed(c) ==
    /\ Goes(c, "failing", "failed")
    /\ built' = [built EXCEPT ![c] = FALSE]
    /\ UNCHANGED <<asked, bound, purgeVars, svcVars, disk>>
-----------------------------------------------------------------------------
(* Onion services. A launch that fails changes nothing here.               *)

\* A nickname never used on any client: random, and assumed not to repeat.
unique_service_slug(c) == Names \ (Before \union UNION {mine[d] : d \in Clients})

Launch(c) ==
    /\ pc[c] = "running"
    /\ \E n \in unique_service_slug(c) :
          /\ serving' = [serving EXCEPT ![c] = @ \union {n}]
          /\ mine' = [mine EXCEPT ![c] = @ \union {n}]
          /\ disk' = disk \union {n}
    /\ UNCHANGED <<pc, lifeVars, purgeVars, winding>>

\* onion_del: shutdown does not wait for the tasks that hold the lock.
OnionDel(c, n) ==
    /\ pc[c] = "running" /\ n \in serving[c]
    /\ serving' = [serving EXCEPT ![c] = @ \ {n}]
    /\ winding' = [winding EXCEPT ![c] = @ \union {n}]
    /\ UNCHANGED <<pc, lifeVars, purgeVars, mine, disk>>

\* Arti's tasks have ended.
WindDown(c, n) ==
    /\ n \in winding[c]
    /\ winding' = [winding EXCEPT ![c] = @ \ {n}]
    /\ UNCHANGED <<pc, lifeVars, purgeVars, serving, mine, disk>>
-----------------------------------------------------------------------------
(* Close, and a crash of the process at any time.                          *)

Shutdown(c) ==
    /\ Goes(c, "running", "draining")
    /\ serving' = [serving EXCEPT ![c] = {}]
    /\ winding' = [winding EXCEPT ![c] = @ \union serving[c]]
    /\ UNCHANGED <<lifeVars, purgeVars, mine, disk>>

\* What goes with the runtime, or with the process.
Vanishes(c) ==
    /\ built' = [built EXCEPT ![c] = FALSE]
    /\ bound' = [bound EXCEPT ![c] = 0]
    /\ serving' = [serving EXCEPT ![c] = {}]
    /\ winding' = [winding EXCEPT ![c] = {}]
    /\ LetGo(c)
    /\ UNCHANGED <<asked, todo, old, swept, mine, disk>>

Free(c) == Goes(c, "draining", "closed") /\ Vanishes(c)

Crash(c) ==
    /\ pc[c] \notin Ended \union {"unborn"}
    /\ pc' = [pc EXCEPT ![c] = "crashed"]
    /\ Vanishes(c)

Opens(c) == \/ Create(c) \/ CreateFails(c) \/ Start(c) \/ StartFails(c) \/ FreeFailed(c)
            \/ Dispose(c) \/ \E n \in Names : Visit(c, n)

Next == \E c \in Clients :
    \/ Open(c) \/ OpenRefused(c) \/ PurgeFails(c) \/ Opens(c)
    \/ Launch(c) \/ Shutdown(c) \/ Free(c) \/ Crash(c)
    \/ \E n \in Names : OnionDel(c, n) \/ WindDown(c, n)

Spec == Init /\ [][Next]_vars /\ \A c \in Clients : WF_vars(Opens(c))
-----------------------------------------------------------------------------
(* A running client listens where it was asked to: on the port named, on   *)
(* some port for zero, and, which no doc says, on some port for a negative *)
(* number and nowhere for one above 65535; never where another listens     *)
(* (client.go Open, config.rs SocksPort, client.rs start).                 *)
SocksAsAsked ==
    \A c \in Clients : pc[c] = "running" =>
        /\ asked[c].SocksPort \in 1..MaxPort => bound[c] = asked[c].SocksPort
        /\ asked[c].SocksPort <= 0 => bound[c] # 0
        /\ asked[c].SocksPort > MaxPort => bound[c] = 0
        /\ \A d \in Clients \ {c} : bound[c] # 0 => bound[d] # bound[c]

\* A client asked to use bridges uses all of them, or there is no client: it
\* never comes up connecting directly, or through fewer than it was given
\* (config.rs to_tor_client_config).
BridgesObeyed ==
    \A c \in Clients : built[c] =>
        /\ BridgesOf(artiConfig(asked[c])) = asked[c].Bridges
        /\ asked[c].Bridges \subseteq Parseable

\* Whatever step of Open fails, and however a client ends, it leaves no Rust
\* client, no listener and no lock behind (client.go Open, Close).
NothingLeftBehind ==
    \A c \in Clients : pc[c] \in Ended =>
        ~built[c] /\ bound[c] = 0 /\ serving[c] = {} /\ winding[c] = {} /\ held[c] = {}

\* The purge of one client never removes the state of a service of another,
\* or of one that is still winding down, nor takes away what another purge is
\* about to dispose of (client.rs purge_stale_onion_state).
NoLiveStatePurged == Locked \subseteq disk

\* A service is never launched over the state of another, live or left by a
\* run that ended: its keys would be missing, or its lock held (onion.rs
\* launch, unique_service_slug).
LaunchMeetsNothing ==
    [][\A c \in Clients : (serving'[c] \ serving[c]) \intersect disk = {}]_vars

\* A purge that is over and met no error leaves nothing of what earlier runs
\* left, except what the purge of another client has taken on: that one still
\* holds it, or has let it go since, by an error or a crash. Purges that run at
\* the same time pass over what the other holds, in silence, so together they
\* do not promise more (client.rs purge_stale_onion_state).
OldStateGoes ==
    \A c \in Clients : swept[c] /\ pc[c] \in {"start", "running", "failing", "draining"} =>
        old[c] \intersect disk \subseteq dropped[c] \union Held(Clients \ {c})

\* Open returns, also beside clients that run services in the directory.
OpenReturns ==
    \A c \in Clients : pc[c] = "purge" ~> pc[c] \in {"running"} \union Ended
=============================================================================
