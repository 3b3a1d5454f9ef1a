# go-arti in TLA+

go-arti embeds Arti, the Rust implementation of Tor, in Go programs: a Go
package (`internal/arti`) over a C interface over a Rust library
(`rust/arti-ffi`). Most of what can go wrong in it is not in any one function
but between goroutines, tasks, queues and two languages' lifetimes. This
directory models those parts in TLA+, checks them with TLC on small instances
and proves the most important properties with TLAPS for every size.

Paths below are relative to the repository; `client.go`, `cgo.go`, `onion.go`,
`logs.go` are in `internal/arti/`, and `client.rs`, `events.rs`, `onion.rs`,
`logs.rs`, `socks.rs`, `ffi.rs`, `config.rs` in `rust/arti-ffi/src/`.

## 1. The system

| Component | State it keeps | Operations | What makes it correct |
|---|---|---|---|
| **Status pipeline** (`client.go`, `client.rs`, `events.rs`) | Arti's view, the watcher's last progress, the event queue (256), `Client.status`, the subscriber list and a channel (8) each, `closed`, `done` | `Bootstrap`, `Status`, `StatusUpdates`, `Unsubscribe`, `Close`, the Rust watcher, the Go pump | no send on a closed channel, no channel closed twice; Ready is never reported early; a slow reader loses old updates, not the newest; `Bootstrap` and `Close` return |
| **FFI handle** (`cgo.go`, `ffi.rs`) | the handle under a `sync.RWMutex`, the exit flag, the live services | every native call, `Shutdown`, `free` | no native call on a freed client; no service left running; `Close` ends although calls block inside the lock |
| **Onion services** (`onion.go`, `onion.rs`, `client.rs`) | `Client.onions` and the Rust `services` map, both by service ID; each service's local listener, `published` channel and watcher | `Listen`, `WaitPublished`, `OnionService.Close`, the status watcher, the pump's `hs_desc` arm, `Client.Close` | a failed `Listen` leaves nothing; an open service stays reachable and registered; outcomes are delivered to the service they are about |
| **Logging** (`logs.go`, `logs.rs`) | the process's one tracing subscriber, the log queue (4096), the started flag, a stop channel and a pump per generation, the handed-out channels (256) | `EnableLogging`, `StopLogging`, the pumps, the Rust layer | no send on a closed channel, no record twice, stopped pumps end, success means records are collected |
| **saturating-time `find_limit`** (`rust/vendor/saturating-time`) | step and result of a search | the loop | it ends, at the limit, for clocks coarser than 1 ns (the project's fix) |
| **SOCKS5 front end** (`socks.rs`) | a task per connection, a shared map from credentials to isolation tokens | the exchange of one connection, `token_for` | equal tokens exactly for equal credentials, and the same ones later; one reply, and no relay behind an error |
| **Network switch** (`client.rs`) | `net_enabled`, Arti's dormant mode, the background bootstrap tasks | `set_network_enabled`, the start of `onion_add` | flag and mode agree at rest; one bootstrap task for each enabling; a launch finds a client that is ready; `Close` does not wait for the network |
| **Onion state directory** (`client.go`, `client.rs`, `onion.rs`) | a directory for each service, kept past the process; Arti's locks on them; the SOCKS listener | `Open` with its purge, fresh nicknames, `Close`, a crash | a launch does not meet the state of an earlier service; no purge touches a live one; a failed `Open` leaves nothing |
| **Configuration** (`client.go`, `wire.go`, `config.rs`) | none | `Config` to JSON to Arti's configuration | a port means the same on both sides; no client uses fewer bridges than it was given |
| **Onion keys and addresses** (`onionkey.go`, `onion.rs`) | none | key expansion, base32 and checksum | agrees with the Tor specification |
| **FFI plumbing** (`ffi.rs`, `arti_ffi.h`) | none | JSON and strings, panic guard | no leak, no unwinding into C |
| **Public package** (`arti.go`) | none | aliases | - |
| **Build tooling** (`tools/stamp`, `buildcheck`) | none at run time | - | - |

How they interact:

- Go calls Rust under the handle's read lock and polls `NextEvent` with a
  timeout. Rust never calls Go: everything it has to say goes into one bounded
  queue (`events.rs:43`), which drops what does not fit.
- One pump goroutine per client takes events from the queue. A status is
  cached and fanned out to subscribers while `Client.mu` is held; an `hs_desc`
  is looked up in `Client.onions` and handed to its service.
- `Bootstrap` and `OnionAdd` turn the network on. The first leaves the attempt to a
  task in the background; the second makes one on its caller's thread, inside
  the handle's lock.
- Clients may share a data directory, in one process or in several, one after another or
  side by side. Only Arti's locks on the services' directories keep them apart.
- `Bootstrap` is a subscriber like any other. `Listen` calls `Bootstrap`, then
  `OnionAdd`, then registers and waits for the pump to publish.
- `Close` marks the client closed and takes its subscribers and services under
  `mu`, and afterwards, unlocked, closes `done`, the channels and the local
  listeners, and runs `Shutdown` and `free`.
- Logging belongs to the process, not to a client, and has a lock, a queue and
  pumps of its own.

What is hard here: the fan-out against `Unsubscribe` and `Close`; calls that
block inside a lock that `Close` needs; a bounded queue that may drop the one
event a caller waits for; a service that is registered after it is launched;
events matched by address; two services with one key; a flag and a mode that are
set in two steps; a crash that leaves a directory but no lock; a pump that outlives its
stop; and who installs a subscriber that can be installed once. `PROJECT.json`
lists every such hazard at its line, with the properties that cover it.

## 2. The modules

| Module | What it is |
|---|---|
| `BootstrapPromise` | abstract: what `Bootstrap` promises its callers |
| `StatusHub` | the status pipeline; implements `BootstrapPromise` |
| `HandlePromise` | abstract: a client released once, with nobody inside |
| `FfiHandle` | the handle and its lock; implements `HandlePromise` |
| `Onion` | `Listen`, services and their events, against `Close` |
| `Network` | the network switch, composed with `BootstrapPromise` and `HandlePromise` |
| `Config` | pure: from a `Config` to what `config.rs` reads out of its JSON |
| `DataDir` | clients on one data directory, with crashes; uses `Config` |
| `Logging` | subscriber, queue, generations of pumps |
| `Socks` | a connection's exchange, and the token map all connections share |
| `FindLimit` | the search of the vendored crate |
| `MC...` | instances for TLC (constants, symmetry); one `.cfg` per run |
| `...Proofs` | theorems and their proofs |

Definitions carry the name of the code they stand for where TLA+ allows it, and
`PROJECT.json` "map" gives the lines of each. A definition marked *Mutant* is
what a bug in the definition after it might look like; with it in that
definition's place, the property listed under "mutants" fails.

### StatusHub

| In the model | In the code |
|---|---|
| `arti`, `changes`, `ArtiChange` | `TorClient::bootstrap_events()` (external): any view may follow any other, but readiness does not retract |
| `fresh`, `last`, `WatchStatus`, `summarize` | `client.rs:142-160`, `395-444`: the stream keeps the newest view only; an event is sent only when the percentage changed |
| `events`, `Offer` | `events.rs:43-53`: `try_send` and drop |
| `pumpPc`, `PumpCheckDone` ... `PumpCache` | `client.go:290-326`; a status is cached in one critical section and fanned out in another |
| `todo`, `full`, `FanSend`, `FanDrop`, `FanRetry` | the three selects of `publishStatus`; a reader may empty the channel between any two of them |
| `MuFree` | `Client.mu`, which only the fan-out holds over several steps |
| `StatusUpdates`, `unsubscribe`, `Watch`, `ReadUpdate`, `Unsubscribe` | `client.go:199-225` and a reader as slow as it likes |
| `EnableNetwork` ... `ReturnFromBootstrap` | `client.go:145-182`: each call, each arm of the select, and the deferred unsubscribe |
| `CloseBegin` ... `CloseBackend` | `client.go:259-288`, with a step for each channel |

A percentage is a number, and the `f32` in `summarize` (rounding, the cap at 99)
is modelled by what it does to it. An error of `SetNetworkEnabled` other than
"closed" has no effect and is left out.

### FfiHandle

Go's `RWMutex`, with its priority for writers: `Announce` shuts new readers
out, `Lock` waits for the readers inside, `Unlock` lets in those that blocked.
A call takes the read lock, looks at the handle, runs (`EnterNative`,
`LeaveNative`) and returns; `wait` runs until `exit` is set, `onion_add` until
`tor.bootstrap()` returns. `free` shuts down once more, drops the client, and
then clears the handle (`FreeNative`, `Unlock`).

### Onion

Each element of `Listens` is a call of `Listen` with the service it makes, and
`IdOf` its key, so two calls may share a service ID. `Listen` starts here when
`Bootstrap` has returned nil. The steps are the critical sections of
`onion.go:61-150`: bind, check `closed`, `OnionAdd`, register, wait. The launched
service goes through `tor_hsservice` states as it likes (external); its watcher
announces `UPLOAD` and `UPLOADED` once and `FAILED` each time. The registration
writes to the map that was taken at the closed check; it is the same map object
throughout, so it needs no variable. `OnionService.Close` is a `sync.Once`:
`svcPc` says how far it has come, whoever runs it.

### Logging

A *generation* is one successful `EnableLogging` after a stop, with its
`logStop` and its pump. Records are numbered, so that what each channel was sent
is a sequence of numbers. The mirror to stderr is left out.

### Socks

| In the model | In the code |
|---|---|
| `wants`, `offers` | what a client was given, and the methods it names in its greeting; chosen at the start |
| `NoAuth`, `UserPass`, `NoneAcceptable`, `ReadCredentials` | the ends of `negotiate_auth` |
| `RejectRequest`, `ReadRequest` | the ends of `read_connect_request` |
| `tokens`, `minted`, `token_for` | `Isolation`'s map, `IsolationToken::new`, and the entry taken or made under the map's mutex |
| `ConnectFails`, `Connects` | `connect_with_prefs` and the reply |
| `Gone` | every `?` on a read or write, a bad version, and the end of the relay |

`written` is what a connection has been sent, one element for each message. The
target of a request is left out, since a stream's isolation does not depend on
it. The accept loop has no state: it starts a task for each connection
(`Accept`), and goes on after an error.

### Network

| In the model | In the code |
|---|---|
| `netEnabled`, `Swap` | `client.rs:176-179`: the swap of the flag, after which a call that changes nothing is done |
| `mode`, `Wake`, `Sleep` | `set_dormant`, a step of its own |
| `started`, `running`, `Spawn`, `AttemptSucceeds`, `AttemptFails` | the bootstrap task of `client.rs:182-187`, whose failure is dropped |
| `BlockDone`, `BlockConnects`, `BlockFails`, `Launch` | `onion_add`: `block_on(tor.bootstrap())`, at once on a client that is ready, an attempt of its own on any other, and then `onion::launch` |
| `Begin`, `Leave`, `OnionAdd`, `CloseFrees` | calls enter and leave, and the client is freed, by the actions of `HandlePromise` |
| `call`, `online`, `BootstrapReturns` | a `Bootstrap` call waits, is cancelled and returns by the actions of `BootstrapPromise` |

The two abstract specifications stand in for the modules that implement them, so
that this one shows only what is new: several threads at the switch. `Callers` use
the Go package, where the network is only ever turned on; `Listeners` are those of
them that go on to `OnionAdd`. `Disablers` and `Adders` use the C interface,
whose header offers both calls. `overlapped` is a history variable: the flag was changed while an
earlier change had not reached the dormant mode.

### Config and DataDir

`Config` has no state. `artiConfig` is what `Open` makes of a `Config`
(`client.go:95-117`); `SocksPort`, `BridgesOf` and `Accepts` are what `config.rs` reads.
The port crosses the boundary as text, and is modelled by what its parser
does with it: `auto`, digits within 16 bits, and everything else.

| In the model | In the code |
|---|---|
| `Open`, `Create`, `CreateFails` | `Client::new`: directories, the runtime, the client |
| `todo`, `held`, `Visit`, `Dispose`, `PurgeFails` | `purge_stale_onion_state` (`client.rs:288-337`): an instance is locked and offered, and deleted by `dispose` in a step of its own; an error ends the purge |
| `Start`, `StartFails`, `FreeFailed` | `start`, its error, and `backend.free()` in `Open` |
| `unique_service_slug`, `Launch`, `OnionDel`, `WindDown` | `onion.rs`; a service that was shut down keeps its lock until Arti's tasks have ended |
| `Shutdown`, `Free`, `Crash` | `Close`; the end of the process at any point in a client's life |

An instance, the state of one service, is its nickname. Nicknames are 64 random bits; that
they do not repeat is the assumption in `unique_service_slug`. The lock on an
instance goes with the process, the directory stays. `mine`, `old`, `dropped` and `swept` are
history variables: the nicknames a client has used, what nobody held when its
purge began, what of that another purge held and let go, and whether its own purge met no error.

An instance is locked when it is offered to `PurgeAll`, and the handle deletes it
afterwards, so two purges of one directory meet: what one holds, the other passes over
without an error. If the first then crashes, or its deletion fails, the
instance outlives both, although the second purge went through. That is within what
the code promises ("best-effort", `client.rs:284`), and `OldStateGoes` says exactly how far
the promise goes. Arti's part of this (the listing, the lock, what is
passed over) is external and modelled by what the handler sees of it.

### FindLimit

`tick`, `limit`: the platform's clock, which truncates a duration to ticks and
refuses to go beyond its range. `step`, `res`: the loop's variables. The two
directions of the search (`find_max`, `find_min`) are one model.

## 3. What is checked

The fairness in each specification is that of the scheduler, and no more:
goroutines and tasks that can go on do, `NextEvent` and the log poll time out,
`tor.bootstrap()` returns. Arti, the application, readers and contexts
owe nothing: nobody has to call, read, cancel or close, and Arti need not
connect. In `Network` only the steps of a call that depend on nothing but the code
are fair, and the network owes nothing, not even an answer to
`tor.bootstrap()`; in `DataDir` only `Open` goes on. No run assumes strong fairness.

| Run | Question | Bounds, and why they are enough |
|---|---|---|
| `statushub` | Can the fan-out, `Unsubscribe`, `Bootstrap` and two `Close` calls get in each other's way? Is Ready ever early, or the newest status lost? | one caller, one reader, two closers, queue of 2, channels of 1, 2 changes, 1 `hs_desc`: channels and queue overflow, a second `Close` overlaps the first, and the view can be 100% without being ready |
| `statushub_live` | Does every waiting `Bootstrap` have the news on its way, does it keep its promise, does the cache catch up, does `Close` get everybody out? | a queue of 4, 3 changes and no `hs_desc`, so no event is lost (the initial view and three changes); the channel of 1 still overflows |
| `ffihandle` | A call into a freed client? A service left running? Can `Close` or a call be locked out? Is the lock an implementation of `HandlePromise`? | two callers, each calling again and again, and two closers: a reader inside, a reader blocked, a writer waiting and a writer still to announce itself, all at once |
| `onion` | Does a failed `Listen` leave anything; does anything survive the client; is "published" true; does closing one service leave the others alone; is an outcome delivered; does `Close` leave a `Listen` blocked? | two services with keys of their own, one `NoWait`; one state change each (to reachable or broken), so up to four events, and a queue of 3, which overflows |
| `network` | `Bootstrap`, a `Listen`, a disabling call and a direct `OnionAdd` race at the switch: do flag and mode agree, is there one attempt for each enabling, does anybody wait for an attempt nobody makes, what can hold up `Close`? | two `Bootstrap` calls, one of them a `Listen`'s, one thread that turns the network off and one that adds a service without having bootstrapped: an enabling overlaps an enabling, a disabling, and a `Close` |
| `datadir` | Does stale state go and live state stay? Does a client listen where it was asked, through the bridges it was given? Does a failed `Open`, or a crash, leave anything? | two clients, each with every kind of configuration (ports below, at and above 16 bits, a bridge line that does not parse, no directory), one old instance, two new ones: one client purges while the other serves, winds down, purges too, fails or crashes |
| `logging` | Old and new pumps at once: panic, duplicates, stuck pumps, a blocked queue? Without `LIBTOR_LOG`, does success mean that records are collected? | 3 records, a queue of 2, channels of 1, 3 channels: up to three generations; `LIBTOR_LOG` set or not, a subscriber of the application installed at any time or never |
| `socks` | Do connections that run at the same time get tokens that say exactly who shares credentials with whom? Does a token ever change, is anything answered twice? | three connections, two pairs of credentials, every set of methods offered: two connections may share a pair while the third has the other; connections and credentials are interchangeable (symmetry); safety only |
| `findlimit` | Does the search end at the limit? | every tick from 1 to 7 ns and nine ranges from 0 to 40 ticks, initial step 19 ns |

The passing runs exercise every action of every module. `CHECK_DEADLOCK FALSE`
is set where the system comes to rest: a closed client, a stopped pump, an exchange
that is over, a search that has returned. (The runs of `FfiHandle` and `Network`
check deadlock.) The bounds in the models are
`MaxChanges`, `MaxHs` (`StatusHub`), `MaxStatus` (`Onion`), `MaxRecords` and `MaxChannels` (`Logging`);
`Names`, in `DataDir`, bounds the services.

No run checks types. Each module has one type invariant, `TypeOK`, and it is proved for
every size (section 4), as are the strengthened invariants that only the proofs need.

### Where the code does something else than it says

Each of these is a run in which TLC refutes what the documentation says, with a short trace; `PROJECT.json`
"findings" quotes the line.

| Run | What happens |
|---|---|
| `onion_missed` | A service is registered *after* it is launched (`onion.go:138`, although the comment at 109 says "Register before launching"). An `UPLOADED` that the pump handles in between finds nobody and is not repeated; `Listen` waits for a service that is reachable. |
| `onion_accept` | `Close` takes its snapshot of the services while a `Listen` is past the closed check and not yet registered. The service it returns has a listener nobody closes; its `Accept` blocks. |
| `statushub_stale` | A blockage that appears while the percentage stays is never reported. |

Met while modelling, and not kept as runs:

- Two services with one key share an entry on both sides (`onion.go:213`,
  `client.rs:233`), so closing the first takes down the second, which stays open
  and accepts nothing. `LiveServiceStays` therefore speaks of services with keys of their own.
- Events are matched by address only (`client.go:313`). An `UPLOADED` of an earlier service with the
  same key, queued or in the pump's hand, is handed to the new one, whose `Listen` returns
  before it is reachable. `PublishedIsTrue`, too, speaks of keys of their own.
- A full queue drops whatever comes (`events.rs:49`), also the event that says
  "done", after which a waiting `Bootstrap` hears nothing more, on a client that can carry
  traffic. `BootstrapKeepsPromise` and `ProgressConverges` are checked with a queue that loses nothing.
- A failed attempt is not repeated: the flag stays set, so the next `Bootstrap` starts
  none (`client.rs:177`) and waits for its context, unless a `Listen` or a direct
  `OnionAdd` makes an attempt of its own.
- An enabling and a disabling call that overlap may leave the flag set and the client dormant,
  since the swap and `set_dormant` are two steps. Only the C interface can do that:
  Go never turns the network off (`GoSettles`).
- A `SocksPort` above 65535 silently gives no listener, and a negative one means any
  port (`client.go:101`, `config.rs:22-40`); no doc says so. `SocksAsAsked` states what happens.
- With `LIBTOR_LOG` set, `alreadyInstalled` (`logs.go:90`) takes every failure to
  install for an earlier installation of our own: with a subscriber of the
  application, or a level that does not parse, `EnableLogging` succeeds and
  collects nothing. `EnabledMeansCollected` speaks of the other case.
- Without `LIBTOR_LOG`, `EnableLogging` after `StopLogging` is an error
  (`EnableRefused`: the subscriber is still installed, and `alreadyInstalled` says
  no), although `logs.go:97-98` says that calling it again resumes collection.
- `EnableLogging` before the first client is opened takes the subscriber, without
  the mirror to stderr that `client.rs:364` promises for `LIBTOR_LOG`.
- The SOCKS front end prefers no authentication (`socks.rs:197`, and the test
  `no_auth_is_preferred`), so a client that offers both methods is never asked for
  its credentials and is not isolated. `CredentialsIsolate` therefore speaks of
  clients that offer credentials only. `Client.DialContext` passes none at all
  (`client.go:256`).
- Two purges of one directory at the same time may leave an instance behind (see DataDir above).
- When the address `OnionAdd` returns does not parse (`onion.go:128-132`), the local
  listener is closed but the launched service keeps running. The Rust side
  never returns such an address.

## 4. What is proved

The theorems hold for every value of the constants that meets the modules'
assumptions: any number of callers, readers, closers and services, any queue
and channel capacity of at least one, any set of Arti views. The assumptions
say only that (`CapAssumption`, `ViewsAssumption`, `ActorAssumption`, ...); none is
a statement about behaviour.

**StatusHubProofs**

- `TypeCorrect`: types and capacities. The step lemma uses that a summary is a
  status event (`ReportTypes`) and that `Offer` respects the capacity
  (`OfferTypes`).
- `PanicFree` (`NoPanic`). Not inductive by itself: that a channel still to be
  visited by the fan-out is open depends on its being a current subscriber,
  which holds because `mu` is held, and that `done` is closed once on there
  being one `Close` past the closed check. `ChannelInvariant` and
  `CloseInvariant` say so; `ChannelStep` and `CloseStepInvariant` prove them.
- `ReadyCorrect` (`ReadyIsTrue`). Inductive as it stands, because it speaks of
  every place in which a status can be: queue, pump, cache, buffers.
- `NewestDelivered` (`NewestIsDelivered`). `FanInvariant` adds what holds while
  the fan-out is under way: channels already visited end with the status being
  published, and at the third select there is room, since the second has dropped
  one, or the reader has taken one, and nobody else sends.
- `KeepsPromise`: `Spec => Promise!Safe`. Every step is a step of
  `BootstrapPromise` or a stutter; it uses `CallInvariant` (a call has a result
  exactly when it has decided, and a subscribed channel is closed under it only
  by `Close`), `CloseInvariant` and `ReadyIsTrue`.

- `CloseComplete`: the safety half of `CloseUnblocksAll`. When `Close` has released
  the handle, `done` is closed, no channel is open or left to close, and nobody can
  subscribe any more (`TearDownInvariant`: the order of `Close`'s steps, which other
  `Close` calls and subscriptions may not upset).
- `NewsReaches` (`NewsReachesCallers`) and `CacheCaughtUp`, the safety half of
  `ProgressConverges`: no wake-up is lost between a call's subscription, its look at
  the cache and its wait, and what is at rest agrees with Arti. `PipelineInvariant` says
  where the newest report is (unseen, queued, in the pump's hand), and that nothing
  follows a Ready; `CacheInvariant` and `WaiterInvariant` carry it to the cache and the callers.
  Both assume `[]Room`: a full queue drops what comes, and then they are false.
  `RoomSuffices` shows that the assumption is not empty: it holds of every
  behaviour with fewer events than the queue has places (256 in the code).

**FfiHandleProofs**

- `TypeCorrect`: types.
- `HandleSafe` (`NoUseAfterFree`) and `ServicesStopped` from `LockInvariant`
  (`LockCorrect`): one writer, nobody inside while it holds the lock, a handle
  that is not nil is a client that exists, except between dropping and clearing
  it.
- `Implements`: `Spec => KeepsPromise`, the refinement of `HandlePromise`.
- `NeverStuck` and `Drains`, what `CloseCompletes` rests on: `Shutdown` comes
  first, so when `free` asks for the write lock no reader is blocked in `wait`
  for what `Close` has yet to do (`ExitInvariant`); and once it has asked, the
  readers only become fewer (`ReadersDrain`, an action property).

**OnionProofs**

- `TypeCorrect`: types, and that the event queue keeps its capacity.
- `NoneOutlives` (`NoneOutlivesClient`) and `FailureCorrect` (`FailedLeavesNothing`): what
  a `Listen` has made is tied to how far it has come, also while `Close` or
  `OnionService.Close` take the same things away.
- `LiveStays` (`LiveServiceStays`) and `PublishedCorrect` (`PublishedIsTrue`), under
  the assumption `DistinctKeys`: without it both are false, as said above.
- `OutcomeKept`, the safety half of `OutcomeIsDelivered`: a step leaves an outcome of a
  registered service in its place in the queue, moves it forward by one, or
  puts it in the pump's hand, and from there it goes to that service
  (`OutcomeMovesOn`, with `EventInvariant`). `EnqueueKeeps` and `TailMoves` are the
  facts about the queue.
- `CloseComplete`, that of `CloseUnblocksListen`: `Client.Close` ends with `done`
  closed, an empty service map, and every service of its snapshot locally closed
  (`CloseInvariant`, `SeenIsClosed`). It does not, and cannot, speak of services
  registered after the snapshot.

**LoggingProofs**

- `OnePump` (`OneLivePump`) from `PumpInvariant`; `SendsAreSafe` (`NoSendOnClosed`),
  since a channel is closed in the step that takes it out of the list pumps
  deliver to.
- `WindsDown`, the safety half of `StoppedPumpsReturn`: a pump that was told to stop
  has at most three steps left, of which each makes one fewer, whatever
  is started after it.
- `SentOnce` (`NothingTwice`) from `OnceInvariant`: a record is in one place
  only, be it the queue, a pump's hands or, afterwards, the channels, and numbers only grow.
- `EnabledCollects` (`EnabledMeansCollected`): an installed subscriber stays.

**NetworkProofs**

- `SwitchCorrect` (`SwitchSettles`) from `SwitchInvariant`, which says what the mode is
  while a thread is between the swap and what goes with it. `GoSettles`: without
  `Disablers` no two changes overlap, so flag and mode agree whatever calls race.
- `OneAttempt` (`OneAttemptPerEnable`) from `AttemptInvariant`, by counting threads;
  it assumes that there are finitely many.
- `LaunchCorrect` (`LaunchIsReady`): readiness does not retract.
- `KeepsPromise` and `KeepsHandle`: each abstract specification, which `StatusHub` and
  `FfiHandle` implement alone, is also implemented by the composition: nothing the
  switch, `onion_add` and `Close` do to one another takes a call outside it.
- `NeverBlocks`, the core of `AddReturns` and `CloseCompletes`, from `InsideCorrect`: only
  a direct caller of the C interface can sit in the Rust client waiting for the
  network. `Attempted`, that of `BootstrapIsTried`: whoever finds the flag set
  can count on an attempt that was started or is about to be.

**DataDirProofs**

- `DiskSteps` says what any step can do to the directory, `HeldSteps` how an instance
  comes into a purge's hands and leaves them; from them `DiskInvariant`
  (an instance has one holder: a service or one purge) and `LiveStateKept` (`NoLiveStatePurged`), `LaunchesMeetNothing`
  (`LaunchMeetsNothing`: no launch over state that is there, given nicknames that
  do not repeat; no run checks it) and, with `PurgeInvariant`, `OldStateGone` (`OldStateGoes`):
  what was there and is not deleted is still to be visited, or in this purge's hands, or in those
  of another, or was let go by another.
- `CleanEnd` (`NothingLeftBehind`) and `SocksCorrect` (`SocksAsAsked`) from `LifeInvariant`;
  `Ports` is the meaning of a port number, for every integer.
- `BridgesUsed` (`BridgesObeyed`).
- `OpenOnlyAdvances`, the safety half of `OpenReturns`: an `Open` under way stays where it
  is, has less left to purge or enters a later phase, whatever other clients do.

**SocksProofs**

- `TypeCorrect`, `AnsweredCorrect` (`AnsweredOnce`).
- `TokensCorrect` (`TokenInvariant`) and from it `IsolationExact`
  (`CredentialsIsolate`). The property by itself says nothing of a token that is in
  the map and in no connection's hands, nor of credentials that were read and not
  used yet. The invariant does: no token is above the number minted, no two pairs of credentials
  have the same one, and a connection carries the token of the credentials its
  client was given. `TokenStep` preserves it.
- `TokensKept` (`TokensStay`).

**FindLimitProofs**

- `TypeCorrect`: types.
- `LimitFound` (`FindsLimit`) from `LimitInvariant` (`Exact`): a step at least as
  long as a tick still moves, and the first one that is shorter comes from one
  shorter than two ticks, which fails only at the limit. `TickDivision` and
  `Halving` are the facts about division it needs.
- `Progress` (`EachIterationProgresses`) and `MeasureFalls`: a number within
  `0..limit + InitialStep + 1` falls with every iteration, from which `Terminates`
  follows with the fairness of `Next`.
- `SearchIsShort`: once the step has been halved, the limit is at most two steps away
  (`TwoStepsLeft`, by `HalfTicks` and `LimitInvariant`), so that each step
  length moves the result at most twice and the search takes as long as the
  logarithm of the range.

Only model-checked: the liveness properties themselves, since the prover treats neither
fairness nor ENABLED. Of most of them the theorems above give what they rest on,
without fairness: that what is waited for is on its way and is not lost, that nobody who
is waited for waits in turn, or a measure that falls. Fairness then
adds only that steps that can be taken are taken. `QueueDrains` has no such theorem. Every invariant that a run checks is also proved.

## 5. What is not modelled, and why

- **Arti** itself (circuits, directories, descriptors): the environment, which does
  what the code sees of it.
- Directory paths and permissions, and pluggable transports: passed on to Arti as they are. `StatusHub` has
  the first enabling of the network only; the other uses are in `Network`.
- **Onion keys and addresses**: cryptography and encodings, pure functions.
- **FFI plumbing, public package, build tooling**: no state that outlives a call.
- The finalizer (`cgo.go:121`): reachability of objects is outside the models.
- The saturating arithmetic of the vendored crate besides `find_limit`.

## 6. Order of the work, and what could be added

The most important behaviour came first: `BootstrapPromise` and `StatusHub`;
`HandlePromise` and `FfiHandle`; `Onion`; `Logging`; `Socks`; `FindLimit`; the proofs for
`StatusHub`, `FfiHandle`, `Socks` and `FindLimit`; `Network`, which composes the two abstract
specifications; `Config` and `DataDir`; the proofs for `Onion`, `Logging`, `Network` and
`DataDir`; the refinements in `Network` and the safety halves of the liveness properties.

Worth adding: `StatusHub` and `Onion` over one queue and one pump, so that a burst of
`hs_desc` events and the status that `Bootstrap` waits for compete for the
same places. Each module by itself already has a queue that overflows.
