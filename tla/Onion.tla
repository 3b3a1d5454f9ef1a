-------------------------------- MODULE Onion --------------------------------
(***************************************************************************)
(* Onion services: Client.Listen, OnionService.Close and WaitPublished on  *)
(* the Go side, the launched services and their status watchers on the     *)
(* Rust side, the hs_desc events between them, and Client.Close, which may *)
(* come at any moment.                                                     *)
(*                                                                         *)
(* Each l in Listens is one call of Listen and the OnionService it makes.  *)
(* The calls are made on a bootstrapped client (StatusHub has Bootstrap).  *)
(***************************************************************************)
EXTENDS Naturals, Sequences, FiniteSets

CONSTANTS Listens,    \* the calls of Listen
          Ids,        \* service IDs, one per identity key
          IdOf,       \* the service ID of each call's key; calls may share one
          NoWait,     \* the calls made with NoWait
          NoService,  \* an ID without a service
          EventCap,   \* capacity of the event queue (256 in the code)
          MaxStatus   \* bound: status changes of each launched service

ASSUME IdAssumption == IdOf \in [Listens -> Ids] /\ NoWait \subseteq Listens
ASSUME NoServiceAssumption == NoService \notin Listens
ASSUME BoundAssumption == EventCap \in Nat \ {0} /\ MaxStatus \in Nat

VARIABLES
    pc,          \* where each Listen call is
    svcPc,       \* how far each service's Close (its closeOnce) has come
    local,       \* its local listener
    published,   \* its published channel: "no", or why it was closed
    onions,      \* Client.onions, by service ID
    inst,        \* the launched Rust service of each call
    hsState,     \* its tor_hsservice state
    changes,     \* how often that changed
    announced,   \* which one-shot actions its status watcher has announced
    services,    \* Rust Client.services, by service ID
    events,      \* the event queue, hs_desc events only
    pumpPc,      \* the pump goroutine
    inHand,      \* the event it is delivering, and to whom
    closed,      \* Client.closed
    doneClosed,  \* Client.done is closed
    snapshot,    \* the services Client.Close has still to close locally
    closePc,     \* where Client.Close is
    freed        \* the backend is released

goVars    == <<pc, svcPc, local, published, onions>>
rustVars  == <<inst, hsState, changes, announced, services>>
queueVars == <<events, pumpPc, inHand>>
closeVars == <<closed, doneClosed, snapshot, closePc, freed>>
vars      == <<goVars, rustVars, queueVars, closeVars>>

States  == {"Bootstrapping", "Reachable", "Broken"}
Actions == {"UPLOAD", "UPLOADED", "FAILED"}
HsDesc  == [action : Actions, address : Ids]
Nothing == [event |-> "none"]

TypeOK ==
    /\ pc \in [Listens -> {"idle", "check", "add", "register", "wait", "closing", "returned", "failed"}]
    /\ svcPc \in [Listens -> {"open", "del", "local", "closed"}]
    /\ local \in [Listens -> {"none", "open", "closed"}]
    /\ published \in [Listens -> {"no", "up", "failed"}]
    /\ onions \in [Ids -> Listens \union {NoService}]
    /\ services \in [Ids -> Listens \union {NoService}]
    /\ inst \in [Listens -> {"none", "up", "stopped"}]
    /\ hsState \in [Listens -> States]
    /\ changes \in [Listens -> 0..MaxStatus]
    /\ announced \in [Listens -> SUBSET {"UPLOAD", "UPLOADED"}]
    /\ events \in Seq(HsDesc) /\ Len(events) <= EventCap
    /\ pumpPc \in {"check", "next", "deliver", "stopped"}
    /\ inHand \in {Nothing} \union [event : HsDesc, svc : Listens]
    /\ closed \in BOOLEAN /\ doneClosed \in BOOLEAN /\ freed \in BOOLEAN
    /\ snapshot \subseteq Listens
    /\ closePc \in {"idle", "done", "locals", "shutdown", "free", "returned"}

Init ==
    /\ pc = [l \in Listens |-> "idle"]
    /\ svcPc = [l \in Listens |-> "open"]
    /\ local = [l \in Listens |-> "none"]
    /\ published = [l \in Listens |-> "no"]
    /\ onions = [i \in Ids |-> NoService]
    /\ services = [i \in Ids |-> NoService]
    /\ inst = [l \in Listens |-> "none"]
    /\ hsState = [l \in Listens |-> "Bootstrapping"]
    /\ changes = [l \in Listens |-> 0]
    /\ announced = [l \in Listens |-> {}]
    /\ events = <<>> /\ pumpPc = "check" /\ inHand = Nothing
    /\ closed = FALSE /\ doneClosed = FALSE /\ freed = FALSE
    /\ snapshot = {} /\ closePc = "idle"

Goes(l, from, to) == pc[l] = from /\ pc' = [pc EXCEPT ![l] = to]

CloseLocalListener(l) == local' = [local EXCEPT ![l] = "closed"]

\* Service::shutdown on each instance of a set, however many there are.
Stopped(S) == inst' = [l \in Listens |-> IF l \in S THEN "stopped" ELSE inst[l]]
-----------------------------------------------------------------------------
(* Client.Listen                                                           *)

\* Bootstrap has returned nil: bind the local listener.
BindLocal(l) ==
    /\ Goes(l, "idle", "check")
    /\ local' = [local EXCEPT ![l] = "open"]
    /\ UNCHANGED <<svcPc, published, onions, rustVars, queueVars, closeVars>>

CheckClosed(l) ==
    /\ IF closed THEN Goes(l, "check", "failed") /\ CloseLocalListener(l)
                 ELSE Goes(l, "check", "add") /\ UNCHANGED local
    /\ UNCHANGED <<svcPc, published, onions, rustVars, queueVars, closeVars>>

\* Mutant: a failed OnionAdd leaves the local listener bound.
LeakLocal(l) ==
    /\ Goes(l, "add", "failed")
    /\ UNCHANGED <<svcPc, local, published, onions, rustVars, queueVars, closeVars>>

\* OnionAdd fails: the handle is released, or Arti refuses the launch.
AddFails(l) ==
    /\ Goes(l, "add", "failed")
    /\ CloseLocalListener(l)
    /\ UNCHANGED <<svcPc, published, onions, rustVars, queueVars, closeVars>>

\* onion_add: launch, then insert under the service ID. A service that was
\* there is dropped, which stops it.
OnionAdd(l) ==
    LET id == IdOf[l] IN
    /\ ~freed
    /\ Goes(l, "add", "register")
    /\ inst' = [m \in Listens |-> IF m = l THEN "up"
                                  ELSE IF m = services[id] THEN "stopped" ELSE inst[m]]
    /\ services' = [services EXCEPT ![id] = l]
    /\ UNCHANGED <<svcPc, local, published, onions, hsState, changes, announced, queueVars, closeVars>>

\* pending[svc.id] = svc, in the map taken at the closed check (the same map).
Register(l) ==
    /\ Goes(l, "register", IF l \in NoWait THEN "returned" ELSE "wait")
    /\ onions' = [onions EXCEPT ![IdOf[l]] = l]
    /\ UNCHANGED <<svcPc, local, published, rustVars, queueVars, closeVars>>

\* WaitPublished, the published arm.
PublishedArm(l) ==
    /\ published[l] # "no"
    /\ Goes(l, "wait", IF published[l] = "up" THEN "returned" ELSE "closing")
    /\ UNCHANGED <<svcPc, local, published, onions, rustVars, queueVars, closeVars>>

\* The done arm: Listen closes the service and fails.
DoneArm(l) ==
    /\ doneClosed
    /\ Goes(l, "wait", "closing")
    /\ UNCHANGED <<svcPc, local, published, onions, rustVars, queueVars, closeVars>>

\* The ctx arm; the caller's context may end at any time, or never.
CtxArm(l) ==
    /\ Goes(l, "wait", "closing")
    /\ UNCHANGED <<svcPc, local, published, onions, rustVars, queueVars, closeVars>>

\* svc.Close() has come to its end inside Listen, here or in another goroutine.
ListenFails(l) ==
    /\ svcPc[l] = "closed"
    /\ Goes(l, "closing", "failed")
    /\ UNCHANGED <<svcPc, local, published, onions, rustVars, queueVars, closeVars>>
-----------------------------------------------------------------------------
(* OnionService.Close, run by Listen on its error path or by the user.     *)

\* delete(client.onions, s.id), whichever service is there.
Unregister(l) ==
    /\ svcPc[l] = "open" /\ pc[l] \in {"closing", "returned"}
    /\ svcPc' = [svcPc EXCEPT ![l] = "del"]
    /\ onions' = [onions EXCEPT ![IdOf[l]] = NoService]
    /\ UNCHANGED <<pc, local, published, rustVars, queueVars, closeVars>>

\* Mutant: every service is removed and shut down.
DelAll(l) ==
    /\ svcPc[l] = "del"
    /\ svcPc' = [svcPc EXCEPT ![l] = "local"]
    /\ Stopped(Listens) /\ services' = [i \in Ids |-> NoService]
    /\ UNCHANGED <<pc, local, published, onions, hsState, changes, announced, queueVars, closeVars>>

\* onion_del: remove and shut down whichever service has the ID; on a released
\* handle, or with no such service, nothing happens.
OnionDel(l) ==
    LET id == IdOf[l] IN
    /\ svcPc[l] = "del"
    /\ svcPc' = [svcPc EXCEPT ![l] = "local"]
    /\ IF freed THEN UNCHANGED <<inst, services>>
                ELSE Stopped({services[id]}) /\ services' = [services EXCEPT ![id] = NoService]
    /\ UNCHANGED <<pc, local, published, onions, hsState, changes, announced, queueVars, closeVars>>

CloseLocal(l) ==
    /\ svcPc[l] = "local"
    /\ svcPc' = [svcPc EXCEPT ![l] = "closed"]
    /\ CloseLocalListener(l)
    /\ UNCHANGED <<pc, published, onions, rustVars, queueVars, closeVars>>
-----------------------------------------------------------------------------
(* The launched service and its status watcher (spawn_status_watcher).     *)

\* What the watcher announces on seeing state s: UPLOAD on its first status,
\* UPLOADED the first time the service is reachable, FAILED each time it breaks.
Announcements(l, s) ==
    LET say(a) == <<[action |-> a, address |-> IdOf[l]]>> IN
    (IF "UPLOAD" \in announced[l] THEN <<>> ELSE say("UPLOAD"))
      \o (IF s = "Reachable" /\ "UPLOADED" \notin announced[l] THEN say("UPLOADED") ELSE <<>>)
      \o (IF s = "Broken" THEN say("FAILED") ELSE <<>>)

\* Sender.send of each, dropping what does not fit.
Enqueue(new) ==
    LET room == EventCap - Len(events) IN
    events' = events \o IF Len(new) <= room THEN new ELSE SubSeq(new, 1, room)

StatusEvent(l) ==
    /\ inst[l] = "up" /\ changes[l] < MaxStatus
    /\ \E s \in States :
        /\ s # hsState[l]
        /\ hsState' = [hsState EXCEPT ![l] = s]
        /\ Enqueue(Announcements(l, s))
        /\ announced' = [announced EXCEPT ![l] =
                            @ \union {"UPLOAD"} \union IF s = "Reachable" THEN {"UPLOADED"} ELSE {}]
    /\ changes' = [changes EXCEPT ![l] = @ + 1]
    /\ UNCHANGED <<inst, services, goVars, pumpPc, inHand, closeVars>>
-----------------------------------------------------------------------------
(* The pump's hs_desc arm.                                                 *)

PumpCheckDone ==
    /\ pumpPc = "check"
    /\ pumpPc' = IF doneClosed THEN "stopped" ELSE "next"
    /\ UNCHANGED <<events, inHand, goVars, rustVars, closeVars>>

PumpNothing ==
    /\ pumpPc = "next" /\ (freed \/ events = <<>>)
    /\ pumpPc' = "check"
    /\ UNCHANGED <<events, inHand, goVars, rustVars, closeVars>>

\* Take an event and look its service up; without one the event is gone.
PumpNext ==
    /\ pumpPc = "next" /\ ~freed /\ events # <<>>
    /\ events' = Tail(events)
    /\ LET svc == onions[Head(events).address] IN
       IF svc = NoService
         THEN pumpPc' = "check" /\ UNCHANGED inHand
         ELSE pumpPc' = "deliver" /\ inHand' = [event |-> Head(events), svc |-> svc]
    /\ UNCHANGED <<goVars, rustVars, closeVars>>

\* Mutant: any hs_desc event counts as published.
AnyEventPublishes(svc, action) == "up"

\* Mutant: a failure is not passed on.
OnlySuccess(svc, action) == IF action = "UPLOADED" /\ published[svc] = "no" THEN "up" ELSE published[svc]

\* handleDescEvent, through publishOnce: the first outcome stands.
Outcome(svc, action) ==
    IF published[svc] # "no" THEN published[svc]
    ELSE IF action = "UPLOADED" THEN "up"
    ELSE IF action = "FAILED" THEN "failed" ELSE "no"

handleDescEvent ==
    /\ pumpPc = "deliver"
    /\ published' = [published EXCEPT ![inHand.svc] = Outcome(inHand.svc, inHand.event.action)]
    /\ inHand' = Nothing
    /\ pumpPc' = "check"
    /\ UNCHANGED <<pc, svcPc, local, onions, events, rustVars, closeVars>>
-----------------------------------------------------------------------------
(* Client.Close                                                            *)

CloseAt(from, to) == closePc = from /\ closePc' = to

CloseBegin ==
    /\ CloseAt("idle", "done")
    /\ closed' = TRUE
    /\ snapshot' = {l \in Listens : \E i \in Ids : onions[i] = l}
    /\ UNCHANGED <<doneClosed, freed, goVars, rustVars, queueVars>>

\* Mutant: Close does not close `done`.
DoneNotClosed ==
    /\ CloseAt("done", "locals")
    /\ UNCHANGED <<closed, doneClosed, snapshot, freed, goVars, rustVars, queueVars>>

CloseDone ==
    /\ CloseAt("done", "locals")
    /\ doneClosed' = TRUE
    /\ UNCHANGED <<closed, snapshot, freed, goVars, rustVars, queueVars>>

\* closeLocal of a service whose Close nobody has begun.
CloseSvcLocal(l) ==
    /\ closePc = "locals" /\ l \in snapshot /\ svcPc[l] = "open"
    /\ svcPc' = [svcPc EXCEPT ![l] = "closed"]
    /\ CloseLocalListener(l)
    /\ snapshot' = snapshot \ {l}
    /\ UNCHANGED <<closed, doneClosed, closePc, freed, pc, published, onions, rustVars, queueVars>>

\* closeLocal of one whose Close is under way waits for it: sync.Once.
SvcClosedAlready(l) ==
    /\ closePc = "locals" /\ l \in snapshot /\ svcPc[l] = "closed"
    /\ snapshot' = snapshot \ {l}
    /\ UNCHANGED <<closed, doneClosed, closePc, freed, goVars, rustVars, queueVars>>

CloseLocalsDone ==
    /\ snapshot = {}
    /\ CloseAt("locals", "shutdown")
    /\ UNCHANGED <<closed, doneClosed, snapshot, freed, goVars, rustVars, queueVars>>

\* Client::shutdown: drain the services and stop each.
StopAll == /\ Stopped({services[i] : i \in Ids})
           /\ services' = [i \in Ids |-> NoService]

Shutdown ==
    /\ CloseAt("shutdown", "free")
    /\ StopAll
    /\ UNCHANGED <<closed, doneClosed, snapshot, freed, goVars, hsState, changes, announced, queueVars>>

\* Mutant: free drops the client without shutting it down again.
FreeOnly ==
    /\ CloseAt("free", "returned")
    /\ freed' = TRUE
    /\ UNCHANGED <<closed, doneClosed, snapshot, goVars, rustVars, queueVars>>

\* arti_client_free shuts down once more before it drops the client.
Free ==
    /\ CloseAt("free", "returned")
    /\ freed' = TRUE
    /\ StopAll
    /\ UNCHANGED <<closed, doneClosed, snapshot, goVars, hsState, changes, announced, queueVars>>
-----------------------------------------------------------------------------
ListenStep(l) == \/ CheckClosed(l) \/ OnionAdd(l) \/ AddFails(l) \/ Register(l)
                 \/ PublishedArm(l) \/ DoneArm(l) \/ ListenFails(l)

\* A service's Close goes on once begun; Listen begins it by itself, a user
\* when he pleases.
SvcCloseStep(l) == OnionDel(l) \/ CloseLocal(l) \/ (pc[l] = "closing" /\ Unregister(l))

Pump == PumpCheckDone \/ PumpNothing \/ PumpNext \/ handleDescEvent

CloseStep == \/ CloseDone \/ CloseLocalsDone \/ Shutdown \/ Free
             \/ \E l \in Listens : CloseSvcLocal(l) \/ SvcClosedAlready(l)

Next == \/ \E l \in Listens : \/ BindLocal(l) \/ CtxArm(l) \/ ListenStep(l)
                              \/ Unregister(l) \/ SvcCloseStep(l) \/ StatusEvent(l)
        \/ Pump
        \/ CloseBegin \/ CloseStep

\* What has begun goes on; Arti, users and contexts owe nothing.
Fairness == /\ \A l \in Listens : WF_vars(ListenStep(l)) /\ WF_vars(SvcCloseStep(l))
            /\ WF_vars(Pump)
            /\ WF_vars(CloseStep)

Spec == Init /\ [][Next]_vars /\ Fairness
-----------------------------------------------------------------------------
\* A Listen that failed leaves nothing behind, whichever step of it failed and
\* whatever closed meanwhile: its local listener is closed, and unless the
\* client is closing, which ends every service itself, it is not registered and
\* its service does not run.
FailedLeavesNothing ==
    \A l \in Listens : pc[l] = "failed" =>
        /\ local[l] = "closed"
        /\ closed \/ (onions[IdOf[l]] # l /\ inst[l] # "up")

\* Once the client is released, no onion service runs, also not one launched
\* while Close was under way.
NoneOutlivesClient == freed => \A l \in Listens : inst[l] # "up"

\* A service counts as published only if its own watcher saw it reachable.
PublishedIsTrue ==
    \A l \in Listens : published[l] = "up" => "UPLOADED" \in announced[l]

\* Launched, and not closed or being closed.
Open(l) == inst[l] # "none" /\ svcPc[l] = "open"

\* "A service is accept-ready as soon as Listen returns" (onion.go:161): a
\* service that Listen returned runs and is registered, while the client is
\* open and no other open service has its ID.
LiveServiceStays ==
    \A l \in Listens :
        /\ pc[l] = "returned" /\ svcPc[l] = "open" /\ ~closed
        /\ \A m \in Listens \ {l} : Open(m) => IdOf[m] # IdOf[l]
        => inst[l] = "up" /\ onions[IdOf[l]] = l

\* An outcome that reaches the queue while its service is registered reaches
\* the service, unless the service or the client is closed first.
OutcomeIsDelivered ==
    \A l \in Listens :
        ( /\ onions[IdOf[l]] = l
          /\ \E i \in 1..Len(events) : events[i].address = IdOf[l] /\ events[i].action # "UPLOAD" )
            ~> (published[l] # "no" \/ onions[IdOf[l]] # l \/ closed)

\* Close comes to its end, and no Listen call stays blocked behind it.
CloseUnblocksListen ==
    closed ~> closePc = "returned" /\ \A l \in Listens : pc[l] \in {"idle", "returned", "failed"}

\* "Closing a client must unblock anything waiting on it rather than hanging"
\* (integration_test.go:197): after Close, no service handed out keeps its
\* local listener, on which Accept blocks.
CloseUnblocksAccept ==
    \A l \in Listens : (closePc = "returned" /\ pc[l] = "returned") ~> local[l] = "closed"

\* "The event has to find a service to deliver to" (onion.go:110): a Listen
\* that waits for a service announced as UPLOADED stops waiting.
AnnouncedIsNoticed ==
    \A l \in Listens : ("UPLOADED" \in announced[l] /\ pc[l] = "wait") ~> pc[l] # "wait"
=============================================================================
