----------------------------- MODULE OnionProofs -----------------------------
(***************************************************************************)
(* Proofs about Onion, for every set of Listen calls, keys and queue sizes.*)
(***************************************************************************)
EXTENDS Onion, SequenceTheorems, TLAPS

\* What goes through the queue comes from a set that holds what was in it and
\* what is new.
LEMMA EnqueueTypes ==
    ASSUME NEW S, events \in Seq(S), Len(events) <= EventCap,
           NEW new \in Seq(S), Enqueue(new)
    PROVE  events' \in Seq(S) /\ Len(events') <= EventCap
  <1> DEFINE room == EventCap - Len(events)
             fit  == IF Len(new) <= room THEN new ELSE SubSeq(new, 1, room)
  <1>1. room \in Nat /\ Len(new) \in Nat
    BY BoundAssumption, LenProperties
  <1>2. fit \in Seq(S) /\ Len(fit) <= room
    <2>1. CASE Len(new) <= room
      BY <2>1
    <2>2. CASE ~(Len(new) <= room)
      <3>1. \A i \in 1..room : new[i] \in S
        BY <1>1, <2>2, ElementOfSeq
      <3>2. SubSeq(new, 1, room) \in Seq(S)
        BY <1>1, <3>1, SubSeqProperties
      <3>3. Len(SubSeq(new, 1, room)) <= room
        BY <1>1, <3>1, SubSeqProperties
      <3> QED
        BY <2>2, <3>2, <3>3
    <2> QED
      BY <2>1, <2>2
  <1>3. events' = events \o fit
    BY DEF Enqueue
  <1> HIDE DEF fit
  <1>4. events' \in Seq(S) /\ Len(events') = Len(events) + Len(fit)
    BY <1>2, <1>3, ConcatProperties
  <1> QED
    BY <1>1, <1>2, <1>4, LenProperties, BoundAssumption DEF room

\* Every announcement is about the service itself, and says UPLOADED only when
\* its state is Reachable.
LEMMA AnnouncementTypes ==
    ASSUME TypeOK, NEW l \in Listens, NEW s \in States
    PROVE  Announcements(l, s) \in
             Seq({e \in HsDesc : e.address = IdOf[l] /\ (e.action = "UPLOADED" => s = "Reachable")})
  <1> DEFINE S == {e \in HsDesc : e.address = IdOf[l] /\ (e.action = "UPLOADED" => s = "Reachable")}
             say(a) == <<[action |-> a, address |-> IdOf[l]]>>
             one == IF "UPLOAD" \in announced[l] THEN <<>> ELSE say("UPLOAD")
             two == IF s = "Reachable" /\ "UPLOADED" \notin announced[l] THEN say("UPLOADED") ELSE <<>>
             three == IF s = "Broken" THEN say("FAILED") ELSE <<>>
  <1>1. IdOf[l] \in Ids
    BY IdAssumption
  <1>2. ASSUME NEW a \in Actions, a = "UPLOADED" => s = "Reachable"
        PROVE  say(a) \in Seq(S)
    BY <1>1, <1>2 DEF HsDesc
  <1>3. one \in Seq(S) /\ two \in Seq(S) /\ three \in Seq(S)
    BY <1>2, EmptySeq DEF Actions
  <1>4. Announcements(l, s) = (one \o two) \o three
    BY DEF Announcements
  <1> HIDE DEF S, one, two, three
  <1>5. (one \o two) \o three \in Seq(S)
    BY <1>3, ConcatProperties
  <1> QED
    BY <1>4, <1>5 DEF S

\* Taking the first event leaves a queue of the same kind.
LEMMA TailTypes ==
    ASSUME NEW S, events \in Seq(S), events # <<>>
    PROVE  Head(events) \in S /\ Tail(events) \in Seq(S) /\ Len(Tail(events)) = Len(events) - 1
  BY HeadTailProperties

\* Every variable keeps its type; the queue keeps its bound.
LEMMA TypeStep == TypeOK /\ [Next]_vars => TypeOK'
  <1> SUFFICES ASSUME TypeOK, [Next]_vars PROVE TypeOK'
    OBVIOUS
  <1> USE IdAssumption, NoServiceAssumption
      DEF Goes, CloseLocalListener, Stopped, goVars, rustVars, queueVars, closeVars
  <1>1. ASSUME NEW l \in Listens, BindLocal(l) PROVE TypeOK'
    BY <1>1 DEF TypeOK, BindLocal
  <1>2. ASSUME NEW l \in Listens, CtxArm(l) PROVE TypeOK'
    BY <1>2 DEF TypeOK, CtxArm
  <1>3. ASSUME NEW l \in Listens, ListenStep(l) PROVE TypeOK'
    <2>1. CASE CheckClosed(l)
      BY <2>1 DEF TypeOK, CheckClosed
    <2>2. CASE OnionAdd(l)
      BY <2>2 DEF TypeOK, OnionAdd
    <2>3. CASE AddFails(l)
      BY <2>3 DEF TypeOK, AddFails
    <2>4. CASE Register(l)
      BY <2>4 DEF TypeOK, Register
    <2>5. CASE PublishedArm(l)
      BY <2>5 DEF TypeOK, PublishedArm
    <2>6. CASE DoneArm(l)
      BY <2>6 DEF TypeOK, DoneArm
    <2>7. CASE ListenFails(l)
      BY <2>7 DEF TypeOK, ListenFails
    <2> QED
      BY <1>3, <2>1, <2>2, <2>3, <2>4, <2>5, <2>6, <2>7 DEF ListenStep
  <1>4. ASSUME NEW l \in Listens, Unregister(l) PROVE TypeOK'
    BY <1>4 DEF TypeOK, Unregister
  <1>5. ASSUME NEW l \in Listens, SvcCloseStep(l) PROVE TypeOK'
    <2>1. CASE OnionDel(l)
      <3>1. inst' \in [Listens -> {"none", "up", "stopped"}]
        BY <2>1 DEF TypeOK, OnionDel
      <3>2. services' \in [Ids -> Listens \union {NoService}]
        BY <2>1 DEF TypeOK, OnionDel
      <3> QED
        BY <2>1, <3>1, <3>2 DEF TypeOK, OnionDel
    <2>2. CASE CloseLocal(l)
      BY <2>2 DEF TypeOK, CloseLocal
    <2> QED
      BY <1>4, <1>5, <2>1, <2>2 DEF SvcCloseStep
  <1>6. ASSUME NEW l \in Listens, StatusEvent(l) PROVE TypeOK'
    <2>1. PICK s \in States : Enqueue(Announcements(l, s))
      BY <1>6 DEF StatusEvent
    <2>2. Announcements(l, s) \in Seq(HsDesc)
      <3> DEFINE S == {e \in HsDesc : e.address = IdOf[l] /\ (e.action = "UPLOADED" => s = "Reachable")}
      <3>1. Announcements(l, s) \in Seq(S)
        BY AnnouncementTypes
      <3>2. S \subseteq HsDesc
        OBVIOUS
      <3> HIDE DEF S
      <3> QED
        BY <3>1, <3>2, SeqMonotonic
    <2>3. events' \in Seq(HsDesc) /\ Len(events') <= EventCap
      BY <2>1, <2>2, EnqueueTypes DEF TypeOK
    <2>4. changes' \in [Listens -> 0..MaxStatus]
      BY <1>6, BoundAssumption DEF TypeOK, StatusEvent
    <2>5. hsState' \in [Listens -> States] /\ announced' \in [Listens -> SUBSET {"UPLOAD", "UPLOADED"}]
      BY <1>6 DEF TypeOK, StatusEvent
    <2> QED
      BY <1>6, <2>3, <2>4, <2>5 DEF TypeOK, StatusEvent
  <1>7. CASE Pump
    <2>1. CASE PumpCheckDone
      BY <2>1 DEF TypeOK, PumpCheckDone
    <2>2. CASE PumpNothing
      BY <2>2 DEF TypeOK, PumpNothing
    <2>3. CASE PumpNext
      <3>1. /\ Head(events) \in HsDesc
            /\ Tail(events) \in Seq(HsDesc) /\ Len(Tail(events)) = Len(events) - 1
        BY <2>3, TailTypes DEF TypeOK, PumpNext
      <3>2. events' \in Seq(HsDesc) /\ Len(events') <= EventCap
        BY <2>3, <3>1, BoundAssumption, LenProperties DEF TypeOK, PumpNext
      <3>3. onions[Head(events).address] \in Listens \union {NoService}
        BY <3>1 DEF TypeOK, HsDesc
      <3> QED
        BY <2>3, <3>1, <3>2, <3>3 DEF TypeOK, PumpNext
    <2>4. CASE handleDescEvent
      BY <2>4 DEF TypeOK, handleDescEvent, Outcome, Nothing
    <2> QED
      BY <1>7, <2>1, <2>2, <2>3, <2>4 DEF Pump
  <1>8. CASE CloseBegin
    BY <1>8 DEF TypeOK, CloseBegin, CloseAt
  <1>9. CASE CloseStep
    <2> USE DEF CloseAt, StopAll
    <2>1. CASE CloseDone
      BY <2>1 DEF TypeOK, CloseDone
    <2>2. CASE CloseLocalsDone
      BY <2>2 DEF TypeOK, CloseLocalsDone
    <2>3. CASE Shutdown
      BY <2>3 DEF TypeOK, Shutdown
    <2>4. CASE Free
      BY <2>4 DEF TypeOK, Free
    <2>5. ASSUME NEW l \in Listens, CloseSvcLocal(l) PROVE TypeOK'
      BY <2>5 DEF TypeOK, CloseSvcLocal
    <2>6. ASSUME NEW l \in Listens, SvcClosedAlready(l) PROVE TypeOK'
      BY <2>6 DEF TypeOK, SvcClosedAlready
    <2> QED
      BY <1>9, <2>1, <2>2, <2>3, <2>4, <2>5, <2>6 DEF CloseStep
  <1>10. CASE UNCHANGED vars
    BY <1>10 DEF TypeOK, vars
  <1> QED
    BY <1>1, <1>2, <1>3, <1>4, <1>5, <1>6, <1>7, <1>8, <1>9, <1>10 DEF Next

\* Types and capacities hold, whatever the calls, services and Close do.
THEOREM TypeCorrect == Spec => []TypeOK
  <1>1. ASSUME Init PROVE TypeOK
    <2>1. events \in Seq(HsDesc) /\ Len(events) <= EventCap
      BY <1>1, BoundAssumption, EmptySeq DEF Init
    <2>2. changes \in [Listens -> 0..MaxStatus]
      BY <1>1, BoundAssumption DEF Init
    <2> QED
      BY <1>1, <2>1, <2>2 DEF Init, TypeOK, States
  <1> QED
    BY <1>1, TypeStep, PTL DEF Spec

-----------------------------------------------------------------------------
(* The actions, one by one.                                                *)

ListenAction(l) ==
    \/ BindLocal(l) \/ CheckClosed(l) \/ OnionAdd(l) \/ AddFails(l) \/ Register(l)
    \/ PublishedArm(l) \/ DoneArm(l) \/ CtxArm(l) \/ ListenFails(l)
    \/ Unregister(l) \/ OnionDel(l) \/ CloseLocal(l) \/ StatusEvent(l)
    \/ CloseSvcLocal(l) \/ SvcClosedAlready(l)

OtherAction ==
    \/ PumpCheckDone \/ PumpNothing \/ PumpNext \/ handleDescEvent
    \/ CloseBegin \/ CloseDone \/ CloseLocalsDone \/ Shutdown \/ Free

\* The next-state relation, flattened.
LEMMA EveryAction == Next => OtherAction \/ \E l \in Listens : ListenAction(l)
  BY DEF Next, ListenStep, SvcCloseStep, Pump, CloseStep, ListenAction, OtherAction
-----------------------------------------------------------------------------
(* No service outlives the client.                                         *)

\* A service that runs can be found under its ID, so whoever empties the map,
\* or drops its entry, stops it; and none runs in a released client.
ServiceInvariant ==
    /\ \A l \in Listens : inst[l] = "up" => services[IdOf[l]] = l /\ ~freed
    /\ \A i \in Ids : services[i] \in Listens => IdOf[services[i]] = i

LEMMA ServiceStep == TypeOK /\ ServiceInvariant /\ [Next]_vars => ServiceInvariant'
  <1> SUFFICES ASSUME TypeOK, ServiceInvariant, [Next]_vars PROVE ServiceInvariant'
    OBVIOUS
  <1> USE IdAssumption, NoServiceAssumption
      DEF TypeOK, Goes, CloseAt, Stopped, StopAll, CloseLocalListener,
          goVars, rustVars, queueVars, closeVars
  <1>1. ASSUME NEW l \in Listens, ListenAction(l) PROVE ServiceInvariant'
    <2>1. CASE BindLocal(l)
      BY <2>1 DEF ServiceInvariant, BindLocal
    <2>2. CASE CheckClosed(l)
      BY <2>2 DEF ServiceInvariant, CheckClosed
    <2>3. CASE OnionAdd(l)
      BY <2>3 DEF ServiceInvariant, OnionAdd
    <2>4. CASE AddFails(l)
      BY <2>4 DEF ServiceInvariant, AddFails
    <2>5. CASE Register(l)
      BY <2>5 DEF ServiceInvariant, Register
    <2>6. CASE PublishedArm(l)
      BY <2>6 DEF ServiceInvariant, PublishedArm
    <2>7. CASE DoneArm(l)
      BY <2>7 DEF ServiceInvariant, DoneArm
    <2>8. CASE CtxArm(l)
      BY <2>8 DEF ServiceInvariant, CtxArm
    <2>9. CASE ListenFails(l)
      BY <2>9 DEF ServiceInvariant, ListenFails
    <2>10. CASE Unregister(l)
      BY <2>10 DEF ServiceInvariant, Unregister
    <2>11. CASE OnionDel(l)
      <3>1. CASE freed
        BY <2>11, <3>1 DEF ServiceInvariant, OnionDel
      <3>2. CASE ~freed
        <4>1. /\ services' = [services EXCEPT ![IdOf[l]] = NoService]
              /\ inst' = [m \in Listens |-> IF m = services[IdOf[l]] THEN "stopped" ELSE inst[m]]
              /\ UNCHANGED freed
          BY <2>11, <3>2 DEF OnionDel
        <4> QED
          BY <4>1 DEF ServiceInvariant
      <3> QED
        BY <3>1, <3>2
    <2>12. CASE CloseLocal(l)
      BY <2>12 DEF ServiceInvariant, CloseLocal
    <2>13. CASE StatusEvent(l)
      BY <2>13 DEF ServiceInvariant, StatusEvent
    <2>14. CASE CloseSvcLocal(l)
      BY <2>14 DEF ServiceInvariant, CloseSvcLocal
    <2>15. CASE SvcClosedAlready(l)
      BY <2>15 DEF ServiceInvariant, SvcClosedAlready
    <2> QED
      BY <1>1, <2>1, <2>2, <2>3, <2>4, <2>5, <2>6, <2>7, <2>8, <2>9, <2>10, <2>11, <2>12, <2>13, <2>14, <2>15 DEF ListenAction
  <1>2. CASE OtherAction
    <2>1. CASE PumpCheckDone
      BY <2>1 DEF ServiceInvariant, PumpCheckDone
    <2>2. CASE PumpNothing
      BY <2>2 DEF ServiceInvariant, PumpNothing
    <2>3. CASE PumpNext
      BY <2>3 DEF ServiceInvariant, PumpNext
    <2>4. CASE handleDescEvent
      BY <2>4 DEF ServiceInvariant, handleDescEvent
    <2>5. CASE CloseBegin
      BY <2>5 DEF ServiceInvariant, CloseBegin
    <2>6. CASE CloseDone
      BY <2>6 DEF ServiceInvariant, CloseDone
    <2>7. CASE CloseLocalsDone
      BY <2>7 DEF ServiceInvariant, CloseLocalsDone
    <2>8. CASE Shutdown
      BY <2>8 DEF ServiceInvariant, Shutdown
    <2>9. CASE Free
      BY <2>9 DEF ServiceInvariant, Free
    <2> QED
      BY <1>2, <2>1, <2>2, <2>3, <2>4, <2>5, <2>6, <2>7, <2>8, <2>9 DEF OtherAction
  <1>3. CASE UNCHANGED vars
    BY <1>3 DEF vars, ServiceInvariant
  <1> QED
    BY <1>1, <1>2, <1>3, EveryAction

\* Once the client is released no onion service runs, for every number of
\* services and every interleaving of Close with Listen.
THEOREM NoneOutlives == Spec => []NoneOutlivesClient
  <1>1. Init => ServiceInvariant
    BY IdAssumption, NoServiceAssumption DEF Init, ServiceInvariant
  <1>2. ServiceInvariant => NoneOutlivesClient
    BY DEF ServiceInvariant, NoneOutlivesClient
  <1> QED
    BY <1>1, <1>2, TypeCorrect, ServiceStep, PTL DEF Spec
-----------------------------------------------------------------------------
(* A Listen that fails leaves nothing behind.                              *)

\* How far a Listen and the Close of its service have come tells what there
\* is of it: before it registers nothing has it, and each step of the service's
\* Close takes one thing away, unless the client is closing.
LifeInvariant ==
    /\ \A i \in Ids : onions[i] \in Listens => IdOf[onions[i]] = i
    /\ closePc # "idle" => closed
    /\ \A l \in Listens :
         /\ pc[l] \in {"idle", "check", "add"} => inst[l] # "up"
         /\ pc[l] \in {"idle", "check", "add", "register"} =>
              svcPc[l] = "open" /\ onions[IdOf[l]] # l /\ l \notin snapshot
         /\ svcPc[l] # "open" => closed \/ onions[IdOf[l]] # l
         /\ svcPc[l] \in {"local", "closed"} => closed \/ inst[l] # "up"
         /\ svcPc[l] = "closed" => local[l] = "closed"
    /\ FailedLeavesNothing

LEMMA LifeStep == TypeOK /\ ServiceInvariant /\ LifeInvariant /\ [Next]_vars => LifeInvariant'
  <1> SUFFICES ASSUME TypeOK, ServiceInvariant, LifeInvariant, [Next]_vars PROVE LifeInvariant'
    OBVIOUS
  <1> USE IdAssumption, NoServiceAssumption
      DEF TypeOK, Goes, CloseAt, Stopped, StopAll, CloseLocalListener,
          goVars, rustVars, queueVars, closeVars
  <1>1. ASSUME NEW l \in Listens, ListenAction(l) PROVE LifeInvariant'
    <2>1. CASE BindLocal(l)
      BY <2>1 DEF LifeInvariant, BindLocal, FailedLeavesNothing
    <2>2. CASE CheckClosed(l)
      <3>1. CASE closed
        <4>1. /\ pc[l] = "check" /\ pc' = [pc EXCEPT ![l] = "failed"]
              /\ local' = [local EXCEPT ![l] = "closed"]
          BY <2>2, <3>1 DEF CheckClosed
        <4>2. UNCHANGED <<inst, svcPc, onions, closed, closePc, snapshot>>
          BY <2>2 DEF CheckClosed
        <4> QED
          BY <3>1, <4>1, <4>2 DEF LifeInvariant, FailedLeavesNothing
      <3>2. CASE ~closed
        BY <2>2, <3>2 DEF LifeInvariant, CheckClosed, FailedLeavesNothing
      <3> QED
        BY <3>1, <3>2
    <2>3. CASE OnionAdd(l)
      <3>1. pc[l] = "add" /\ pc' = [pc EXCEPT ![l] = "register"]
        BY <2>3 DEF OnionAdd
      <3>2. \A m \in Listens : m # l => inst'[m] \in {inst[m], "stopped"}
        BY <2>3 DEF OnionAdd
      <3>3. UNCHANGED <<svcPc, local, onions, closed, closePc, snapshot>>
        BY <2>3 DEF OnionAdd
      <3> HIDE DEF Stopped, StopAll, CloseLocalListener, CloseAt, goVars, rustVars, queueVars, closeVars
      <3> QED
        BY <3>1, <3>2, <3>3 DEF LifeInvariant, FailedLeavesNothing
    <2>4. CASE AddFails(l)
      BY <2>4 DEF LifeInvariant, AddFails, FailedLeavesNothing
    <2>5. CASE Register(l)
      BY <2>5 DEF LifeInvariant, Register, FailedLeavesNothing
    <2>6. CASE PublishedArm(l)
      BY <2>6 DEF LifeInvariant, PublishedArm, FailedLeavesNothing
    <2>7. CASE DoneArm(l)
      BY <2>7 DEF LifeInvariant, DoneArm, FailedLeavesNothing
    <2>8. CASE CtxArm(l)
      BY <2>8 DEF LifeInvariant, CtxArm, FailedLeavesNothing
    <2>9. CASE ListenFails(l)
      BY <2>9 DEF LifeInvariant, ListenFails, FailedLeavesNothing
    <2>10. CASE Unregister(l)
      BY <2>10 DEF LifeInvariant, Unregister, FailedLeavesNothing
    <2>11. CASE OnionDel(l)
      <3>1. svcPc[l] = "del" /\ svcPc' = [svcPc EXCEPT ![l] = "local"]
        BY <2>11 DEF OnionDel
      <3>2. \A m \in Listens : inst'[m] \in {inst[m], "stopped"}
        BY <2>11 DEF OnionDel
      <3>3. inst'[l] # "up"
        BY <2>11 DEF OnionDel, ServiceInvariant
      <3>4. UNCHANGED <<pc, local, onions, closed, closePc, snapshot>>
        BY <2>11 DEF OnionDel
      <3> QED
        BY <3>1, <3>2, <3>3, <3>4 DEF LifeInvariant, FailedLeavesNothing
    <2>12. CASE CloseLocal(l)
      BY <2>12 DEF LifeInvariant, CloseLocal, FailedLeavesNothing
    <2>13. CASE StatusEvent(l)
      BY <2>13 DEF LifeInvariant, StatusEvent, FailedLeavesNothing
    <2>14. CASE CloseSvcLocal(l)
      BY <2>14 DEF LifeInvariant, CloseSvcLocal, FailedLeavesNothing
    <2>15. CASE SvcClosedAlready(l)
      BY <2>15 DEF LifeInvariant, SvcClosedAlready, FailedLeavesNothing
    <2> QED
      BY <1>1, <2>1, <2>2, <2>3, <2>4, <2>5, <2>6, <2>7, <2>8, <2>9, <2>10, <2>11, <2>12, <2>13, <2>14, <2>15 DEF ListenAction
  <1>2. CASE OtherAction
    <2>1. CASE PumpCheckDone
      BY <2>1 DEF LifeInvariant, PumpCheckDone, FailedLeavesNothing
    <2>2. CASE PumpNothing
      BY <2>2 DEF LifeInvariant, PumpNothing, FailedLeavesNothing
    <2>3. CASE PumpNext
      BY <2>3 DEF LifeInvariant, PumpNext, FailedLeavesNothing
    <2>4. CASE handleDescEvent
      BY <2>4 DEF LifeInvariant, handleDescEvent, FailedLeavesNothing
    <2>5. CASE CloseBegin
      BY <2>5 DEF LifeInvariant, CloseBegin, FailedLeavesNothing
    <2>6. CASE CloseDone
      BY <2>6 DEF LifeInvariant, CloseDone, FailedLeavesNothing
    <2>7. CASE CloseLocalsDone
      BY <2>7 DEF LifeInvariant, CloseLocalsDone, FailedLeavesNothing
    <2>8. CASE Shutdown
      BY <2>8 DEF LifeInvariant, Shutdown, FailedLeavesNothing
    <2>9. CASE Free
      BY <2>9 DEF LifeInvariant, Free, FailedLeavesNothing
    <2> QED
      BY <1>2, <2>1, <2>2, <2>3, <2>4, <2>5, <2>6, <2>7, <2>8, <2>9 DEF OtherAction
  <1>3. CASE UNCHANGED vars
    BY <1>3 DEF vars, LifeInvariant, FailedLeavesNothing
  <1> QED
    BY <1>1, <1>2, <1>3, EveryAction

\* Whichever step of a Listen fails, and whatever closes meanwhile.
THEOREM FailureCorrect == Spec => []FailedLeavesNothing
  <1>1. Init => ServiceInvariant /\ LifeInvariant
    BY IdAssumption, NoServiceAssumption
       DEF Init, ServiceInvariant, LifeInvariant, FailedLeavesNothing
  <1>2. LifeInvariant => FailedLeavesNothing
    BY DEF LifeInvariant
  <1> QED
    BY <1>1, <1>2, TypeCorrect, ServiceStep, LifeStep, PTL DEF Spec
-----------------------------------------------------------------------------
(* A service that Listen returned stays.                                   *)

\* Every key is listened on once.
DistinctKeys == \A l, m \in Listens : IdOf[l] = IdOf[m] => l = m

\* A service that nobody closes runs and is found on both sides.
LiveInvariant ==
    /\ closePc # "idle" => closed
    /\ \A l \in Listens : svcPc[l] = "open" /\ ~closed =>
         /\ pc[l] \in {"register", "wait", "closing", "returned"} =>
              inst[l] = "up" /\ services[IdOf[l]] = l
         /\ pc[l] \in {"wait", "closing", "returned"} => onions[IdOf[l]] = l

LEMMA LiveStep ==
    ASSUME DistinctKeys
    PROVE  TypeOK /\ ServiceInvariant /\ LifeInvariant /\ LiveInvariant /\ [Next]_vars => LiveInvariant'
  <1> SUFFICES ASSUME TypeOK, ServiceInvariant, LifeInvariant, LiveInvariant, [Next]_vars PROVE LiveInvariant'
    OBVIOUS
  <1> USE DistinctKeys, IdAssumption, NoServiceAssumption
      DEF DistinctKeys, TypeOK, Goes, CloseAt, Stopped, StopAll, CloseLocalListener,
          goVars, rustVars, queueVars, closeVars
  <1>1. ASSUME NEW l \in Listens, ListenAction(l) PROVE LiveInvariant'
    <2>1. CASE BindLocal(l)
      BY <2>1 DEF LiveInvariant, BindLocal
    <2>2. CASE CheckClosed(l)
      BY <2>2 DEF LiveInvariant, CheckClosed
    <2>3. CASE OnionAdd(l)
      <3>1. pc[l] = "add" /\ pc' = [pc EXCEPT ![l] = "register"]
        BY <2>3 DEF OnionAdd
      <3>2. inst'[l] = "up" /\ services'[IdOf[l]] = l
        BY <2>3 DEF OnionAdd
      <3>3. ASSUME NEW m \in Listens, m # l
            PROVE  /\ services'[IdOf[m]] = services[IdOf[m]]
                   /\ services[IdOf[m]] = m => inst'[m] = inst[m]
        BY <2>3, <3>3 DEF OnionAdd, ServiceInvariant
      <3>4. UNCHANGED <<svcPc, onions, closed, closePc>>
        BY <2>3 DEF OnionAdd
      <3> QED
        BY <3>1, <3>2, <3>3, <3>4 DEF LiveInvariant
    <2>4. CASE AddFails(l)
      BY <2>4 DEF LiveInvariant, AddFails
    <2>5. CASE Register(l)
      BY <2>5 DEF LiveInvariant, Register
    <2>6. CASE PublishedArm(l)
      BY <2>6 DEF LiveInvariant, PublishedArm
    <2>7. CASE DoneArm(l)
      BY <2>7 DEF LiveInvariant, DoneArm
    <2>8. CASE CtxArm(l)
      BY <2>8 DEF LiveInvariant, CtxArm
    <2>9. CASE ListenFails(l)
      BY <2>9 DEF LiveInvariant, ListenFails
    <2>10. CASE Unregister(l)
      BY <2>10 DEF LiveInvariant, Unregister
    <2>11. CASE OnionDel(l)
      <3>1. svcPc[l] = "del" /\ svcPc' = [svcPc EXCEPT ![l] = "local"]
        BY <2>11 DEF OnionDel
      <3>2. ASSUME NEW m \in Listens, m # l
            PROVE  /\ services'[IdOf[m]] = services[IdOf[m]]
                   /\ services[IdOf[m]] = m => inst'[m] = inst[m]
        BY <2>11, <3>2 DEF OnionDel, ServiceInvariant
      <3>3. UNCHANGED <<pc, onions, closed, closePc>>
        BY <2>11 DEF OnionDel
      <3> QED
        BY <3>1, <3>2, <3>3 DEF LiveInvariant
    <2>12. CASE CloseLocal(l)
      BY <2>12 DEF LiveInvariant, CloseLocal
    <2>13. CASE StatusEvent(l)
      BY <2>13 DEF LiveInvariant, StatusEvent
    <2>14. CASE CloseSvcLocal(l)
      BY <2>14 DEF LiveInvariant, CloseSvcLocal
    <2>15. CASE SvcClosedAlready(l)
      BY <2>15 DEF LiveInvariant, SvcClosedAlready
    <2> QED
      BY <1>1, <2>1, <2>2, <2>3, <2>4, <2>5, <2>6, <2>7, <2>8, <2>9, <2>10, <2>11, <2>12, <2>13, <2>14, <2>15 DEF ListenAction
  <1>2. CASE OtherAction
    <2>1. CASE PumpCheckDone
      BY <2>1 DEF LiveInvariant, PumpCheckDone
    <2>2. CASE PumpNothing
      BY <2>2 DEF LiveInvariant, PumpNothing
    <2>3. CASE PumpNext
      BY <2>3 DEF LiveInvariant, PumpNext
    <2>4. CASE handleDescEvent
      BY <2>4 DEF LiveInvariant, handleDescEvent
    <2>5. CASE CloseBegin
      BY <2>5 DEF LiveInvariant, CloseBegin
    <2>6. CASE CloseDone
      BY <2>6 DEF LiveInvariant, CloseDone
    <2>7. CASE CloseLocalsDone
      BY <2>7 DEF LiveInvariant, CloseLocalsDone
    <2>8. CASE Shutdown
      BY <2>8 DEF LiveInvariant, Shutdown
    <2>9. CASE Free
      BY <2>9 DEF LiveInvariant, Free
    <2> QED
      BY <1>2, <2>1, <2>2, <2>3, <2>4, <2>5, <2>6, <2>7, <2>8, <2>9 DEF OtherAction
  <1>3. CASE UNCHANGED vars
    BY <1>3 DEF vars, LiveInvariant
  <1> QED
    BY <1>1, <1>2, <1>3, EveryAction

\* With keys of their own, services neither stop nor lose their registration
\* unless they, or the client, are closed.
THEOREM LiveStays ==
    ASSUME DistinctKeys
    PROVE  Spec => []LiveServiceStays
  <1>1. Init => ServiceInvariant /\ LifeInvariant /\ LiveInvariant
    BY IdAssumption, NoServiceAssumption
       DEF Init, ServiceInvariant, LifeInvariant, LiveInvariant, FailedLeavesNothing
  <1>2. LiveInvariant => LiveServiceStays
    BY DEF LiveInvariant, LiveServiceStays
  <1> QED
    BY <1>1, <1>2, TypeCorrect, ServiceStep, LifeStep, LiveStep, PTL DEF Spec
-----------------------------------------------------------------------------
(* Published means seen reachable.                                         *)

\* Some service with this ID was seen reachable by its watcher.
Seen(i) == \E l \in Listens : IdOf[l] = i /\ "UPLOADED" \in announced[l]

TrueEvents == {e \in HsDesc : e.action = "UPLOADED" => Seen(e.address)}

\* An UPLOADED is true of its address wherever it is: queued, in the hand of
\* the pump, or delivered.
EventInvariant ==
    /\ events \in Seq(TrueEvents)
    /\ pumpPc = "deliver" => /\ inHand \in [event : TrueEvents, svc : Listens]
                             /\ IdOf[inHand.svc] = inHand.event.address
    /\ \A l \in Listens : published[l] = "up" => Seen(IdOf[l])

LEMMA EventStep ==
    TypeOK /\ LifeInvariant /\ EventInvariant /\ [Next]_vars => EventInvariant'
  <1> SUFFICES ASSUME TypeOK, LifeInvariant, EventInvariant, [Next]_vars PROVE EventInvariant'
    OBVIOUS
  <1> DEFINE same == UNCHANGED <<announced, events, inHand, pumpPc, published>>
  <1>1. UNCHANGED announced => TrueEvents' = TrueEvents /\ \A i \in Ids : Seen(i)' = Seen(i)
    BY DEF TrueEvents, Seen
  <1>2. CASE same
    BY <1>1, <1>2, IdAssumption DEF EventInvariant
  <1>3. ASSUME NEW l \in Listens, StatusEvent(l) PROVE EventInvariant'
    <2>1. PICK s \in States :
            /\ Enqueue(Announcements(l, s))
            /\ announced' = [announced EXCEPT ![l] =
                  @ \union {"UPLOAD"} \union IF s = "Reachable" THEN {"UPLOADED"} ELSE {}]
      BY <1>3 DEF StatusEvent
    <2>2. \A i \in Ids : Seen(i) => Seen(i)'
      BY <2>1 DEF Seen, TypeOK
    <2>3. s = "Reachable" => Seen(IdOf[l])'
      BY <2>1 DEF Seen, TypeOK
    <2>4. TrueEvents \subseteq TrueEvents'
      BY <2>2 DEF TrueEvents, HsDesc
    <2>5. Announcements(l, s) \in Seq(TrueEvents')
      <3> DEFINE S == {e \in HsDesc : e.address = IdOf[l] /\ (e.action = "UPLOADED" => s = "Reachable")}
      <3>1. Announcements(l, s) \in Seq(S)
        BY AnnouncementTypes
      <3>2. S \subseteq TrueEvents'
        BY <2>3 DEF TrueEvents
      <3> HIDE DEF S
      <3> QED
        BY <3>1, <3>2, SeqMonotonic
    <2>6. events \in Seq(TrueEvents')
      BY <2>4, SeqMonotonic DEF EventInvariant
    <2>7. events' \in Seq(TrueEvents')
      BY <2>1, <2>5, <2>6, EnqueueTypes DEF TypeOK
    <2>8. UNCHANGED <<pumpPc, inHand, published>>
      BY <1>3 DEF StatusEvent, goVars
    <2>9. pumpPc = "deliver" => inHand \in [event : TrueEvents', svc : Listens]
      BY <2>4 DEF EventInvariant
    <2> QED
      BY <2>2, <2>7, <2>8, <2>9, IdAssumption DEF EventInvariant
  <1>4. CASE PumpCheckDone
    BY <1>1, <1>4, IdAssumption DEF PumpCheckDone, EventInvariant, goVars, rustVars
  <1>5. CASE PumpNothing
    BY <1>1, <1>5, IdAssumption DEF PumpNothing, EventInvariant, goVars, rustVars
  <1>6. CASE PumpNext
    <2>1. Head(events) \in TrueEvents /\ Tail(events) \in Seq(TrueEvents)
      BY <1>6, TailTypes DEF PumpNext, EventInvariant
    <2>2. UNCHANGED <<announced, published>> /\ events' = Tail(events)
      BY <1>6 DEF PumpNext, goVars, rustVars
    <2>3. pumpPc' = "deliver" => /\ inHand' = [event |-> Head(events), svc |-> onions[Head(events).address]]
                                 /\ onions[Head(events).address] # NoService
      BY <1>6 DEF PumpNext
    <2>4. Head(events).address \in Ids
      BY <2>1 DEF TrueEvents, HsDesc
    <2>5. pumpPc' = "deliver" => /\ inHand' \in [event : TrueEvents, svc : Listens]
                                 /\ IdOf[inHand'.svc] = inHand'.event.address
      BY <2>1, <2>3, <2>4 DEF TypeOK, LifeInvariant
    <2> QED
      BY <1>1, <2>1, <2>2, <2>5, IdAssumption DEF EventInvariant
  <1>7. CASE handleDescEvent
    <2>1. inHand.svc \in Listens /\ inHand.event \in TrueEvents /\ IdOf[inHand.svc] = inHand.event.address
      BY <1>7 DEF handleDescEvent, EventInvariant
    <2>2. \A l \in Listens : published'[l] = "up" => Seen(IdOf[l])
      BY <1>7, <2>1 DEF handleDescEvent, Outcome, EventInvariant, TrueEvents, TypeOK
    <2>3. UNCHANGED <<announced, events>> /\ pumpPc' = "check"
      BY <1>7 DEF handleDescEvent, rustVars
    <2> QED
      BY <1>1, <2>2, <2>3, IdAssumption DEF EventInvariant
  <1>8. ASSUME NEW l \in Listens, ListenAction(l), ~StatusEvent(l) PROVE same
    BY <1>8 DEF ListenAction, BindLocal, CheckClosed, OnionAdd, AddFails, Register, PublishedArm,
         DoneArm, CtxArm, ListenFails, Unregister, OnionDel, CloseLocal, CloseSvcLocal,
         SvcClosedAlready, goVars, rustVars, queueVars
  <1>9. CASE OtherAction
    BY <1>2, <1>4, <1>5, <1>6, <1>7, <1>9
       DEF OtherAction, CloseBegin, CloseDone, CloseLocalsDone, Shutdown, Free, goVars, rustVars, queueVars
  <1>10. CASE UNCHANGED vars
    BY <1>2, <1>10 DEF vars, goVars, rustVars, queueVars
  <1> QED
    BY <1>2, <1>3, <1>8, <1>9, <1>10, EveryAction

\* With keys of their own, a service counts as published only if its own
\* watcher saw it reachable, whatever the queue drops and in whatever order
\* services come and go.
THEOREM PublishedCorrect ==
    ASSUME DistinctKeys
    PROVE  Spec => []PublishedIsTrue
  <1>1. ASSUME Init PROVE ServiceInvariant /\ LifeInvariant /\ EventInvariant
    <2>1. ServiceInvariant /\ LifeInvariant
      BY <1>1, IdAssumption, NoServiceAssumption
         DEF Init, ServiceInvariant, LifeInvariant, FailedLeavesNothing
    <2>2. EventInvariant
      BY <1>1, EmptySeq DEF Init, EventInvariant
    <2> QED
      BY <2>1, <2>2
  <1>2. EventInvariant => PublishedIsTrue
    BY DistinctKeys DEF DistinctKeys, EventInvariant, PublishedIsTrue, Seen
  <1> QED
    BY <1>1, <1>2, TypeCorrect, ServiceStep, LifeStep, EventStep, PTL DEF Spec
-----------------------------------------------------------------------------
(* An outcome on its way is not lost.                                      *)

\* An outcome for l waits in place k of the queue.
Waits(l, k) == /\ k \in 1..Len(events)
               /\ events[k].address = IdOf[l]
               /\ events[k].action # "UPLOAD"

\* The pump holds an outcome for l.
Held(l) == pumpPc = "deliver" /\ inHand.svc = l /\ inHand.event.action # "UPLOAD"

\* What one step may do to an outcome of a registered service: leave it in its
\* place, move it forward by one, or have the pump take it; and the pump hands
\* what it holds to the service it found.
OutcomeMovesOn ==
    \A l \in Listens :
        /\ \A k \in 1..Len(events) :
             Waits(l, k) /\ onions[IdOf[l]] = l =>
                \/ Waits(l, k)'
                \/ k > 1 /\ Waits(l, k - 1)'
                \/ k = 1 /\ Held(l)'
        /\ Held(l) => Held(l)' \/ published'[l] # "no"

\* What is sent goes behind what waits.
LEMMA EnqueueKeeps ==
    ASSUME NEW S, events \in Seq(S), Len(events) <= EventCap,
           NEW new \in Seq(S), Enqueue(new)
    PROVE  Len(events) <= Len(events') /\ \A k \in 1..Len(events) : events'[k] = events[k]
  <1> DEFINE room == EventCap - Len(events)
             fit  == IF Len(new) <= room THEN new ELSE SubSeq(new, 1, room)
  <1>1. room \in Nat /\ Len(new) \in Nat
    BY BoundAssumption, LenProperties
  <1>2. fit \in Seq(S)
    <2>1. CASE Len(new) <= room
      BY <2>1
    <2>2. CASE ~(Len(new) <= room)
      <3>1. \A i \in 1..room : new[i] \in S
        BY <1>1, <2>2, ElementOfSeq
      <3> QED
        BY <1>1, <2>2, <3>1, SubSeqProperties
    <2> QED
      BY <2>1, <2>2
  <1>3. events' = events \o fit
    BY DEF Enqueue
  <1> HIDE DEF fit
  <1> QED
    BY <1>2, <1>3, ConcatProperties, LenProperties

\* The pump moves every event forward by one.
LEMMA TailMoves ==
    ASSUME NEW S, events \in Seq(S), events # <<>>, events' = Tail(events)
    PROVE  /\ Len(events') = Len(events) - 1
           /\ \A k \in 2..Len(events) : events'[k - 1] = events[k]
           /\ events[1] = Head(events)
  BY HeadTailProperties, LenProperties

LEMMA OutcomeStep == TypeOK /\ EventInvariant /\ [Next]_vars => OutcomeMovesOn
  <1> SUFFICES ASSUME TypeOK, EventInvariant, [Next]_vars, NEW l \in Listens
               PROVE  /\ \A k \in Nat :
                           Waits(l, k) /\ onions[IdOf[l]] = l =>
                              Waits(l, k)' \/ (k > 1 /\ Waits(l, k - 1)') \/ (k = 1 /\ Held(l)')
                      /\ Held(l) => Held(l)' \/ published'[l] # "no"
    BY LenProperties DEF OutcomeMovesOn, TypeOK
  <1> DEFINE same == UNCHANGED <<events, inHand, pumpPc>>
  <1>1. CASE same
    BY <1>1 DEF Waits, Held
  <1>2. ASSUME NEW m \in Listens, StatusEvent(m) PROVE Len(events) <= Len(events') /\ \A k \in 1..Len(events) : events'[k] = events[k]
    <2>1. PICK s \in States : Enqueue(Announcements(m, s))
      BY <1>2 DEF StatusEvent
    <2>2. Announcements(m, s) \in Seq(HsDesc)
      <3> DEFINE S == {e \in HsDesc : e.address = IdOf[m] /\ (e.action = "UPLOADED" => s = "Reachable")}
      <3>1. Announcements(m, s) \in Seq(S)
        BY AnnouncementTypes
      <3>2. S \subseteq HsDesc
        OBVIOUS
      <3> HIDE DEF S
      <3> QED
        BY <3>1, <3>2, SeqMonotonic
    <2> QED
      BY <2>1, <2>2, EnqueueKeeps DEF TypeOK
  <1>3. ASSUME NEW m \in Listens, StatusEvent(m)
        PROVE  /\ \A k \in Nat : Waits(l, k) => Waits(l, k)'
               /\ Held(l) => Held(l)'
    <2>1. events \in Seq(HsDesc) /\ Len(events) \in Nat
      BY LenProperties DEF TypeOK
    <2>2. events' \in Seq(HsDesc) /\ Len(events') \in Nat
      BY <1>3, TypeStep, LenProperties DEF TypeOK
    <2>3. \A k \in Nat : Waits(l, k) => Waits(l, k)'
      BY <1>2, <1>3, <2>1, <2>2 DEF Waits
    <2>4. UNCHANGED <<pumpPc, inHand>>
      BY <1>3 DEF StatusEvent
    <2> QED
      BY <2>3, <2>4 DEF Held
  <1>4. CASE PumpCheckDone \/ PumpNothing
    BY <1>4 DEF PumpCheckDone, PumpNothing, Waits, Held
  <1>5. CASE PumpNext
    <2>1. /\ events \in Seq(HsDesc) /\ events # <<>> /\ events' = Tail(events)
          /\ pumpPc = "next"
      BY <1>5 DEF TypeOK, PumpNext
    <2>2. /\ Len(events') = Len(events) - 1
          /\ \A k \in 2..Len(events) : events'[k - 1] = events[k]
          /\ events[1] = Head(events)
      BY <2>1, TailMoves
    <2>3. Len(events) \in Nat
      BY <2>1, LenProperties
    <2>4. ASSUME NEW k \in Nat, Waits(l, k), k > 1 PROVE Waits(l, k - 1)'
      <3>1. k \in 2..Len(events) /\ k - 1 \in 1..Len(events')
        BY <2>2, <2>3, <2>4 DEF Waits
      <3> QED
        BY <2>2, <2>4, <3>1 DEF Waits
    <2>5. ASSUME Waits(l, 1), onions[IdOf[l]] = l PROVE Held(l)'
      <3>1. onions[Head(events).address] = l /\ Head(events).action # "UPLOAD"
        BY <2>2, <2>5 DEF Waits
      <3>2. pumpPc' = "deliver" /\ inHand' = [event |-> Head(events), svc |-> l]
        BY <1>5, <3>1, NoServiceAssumption DEF PumpNext
      <3> QED
        BY <3>1, <3>2 DEF Held
    <2>6. \A k \in Nat : Waits(l, k) => k > 1 \/ k = 1
      BY DEF Waits
    <2>7. ~Held(l)
      BY <2>1 DEF Held
    <2> QED
      BY <2>4, <2>5, <2>6, <2>7
  <1>6. CASE handleDescEvent
    <2>1. UNCHANGED events
      BY <1>6 DEF handleDescEvent
    <2>2. ASSUME Held(l) PROVE published'[l] # "no"
      <3>1. inHand.svc = l /\ inHand.event.action \in {"UPLOADED", "FAILED"}
        BY <1>6, <2>2 DEF Held, handleDescEvent, EventInvariant, TrueEvents, HsDesc, Actions
      <3>2. published'[l] = Outcome(l, inHand.event.action)
        BY <1>6, <3>1 DEF handleDescEvent, TypeOK
      <3> QED
        BY <3>1, <3>2 DEF Outcome
    <2> QED
      BY <2>1, <2>2 DEF Waits
  <1>7. ASSUME NEW m \in Listens, ListenAction(m), ~StatusEvent(m) PROVE same
    BY <1>7 DEF ListenAction, BindLocal, CheckClosed, OnionAdd, AddFails, Register, PublishedArm,
         DoneArm, CtxArm, ListenFails, Unregister, OnionDel, CloseLocal, CloseSvcLocal,
         SvcClosedAlready, goVars, rustVars, queueVars
  <1>8. CASE OtherAction
    BY <1>1, <1>4, <1>5, <1>6, <1>8
       DEF OtherAction, CloseBegin, CloseDone, CloseLocalsDone, Shutdown, Free, goVars, rustVars, queueVars
  <1>9. CASE UNCHANGED vars
    BY <1>1, <1>9 DEF vars, goVars, rustVars, queueVars
  <1> QED
    BY <1>1, <1>3, <1>7, <1>8, <1>9, EveryAction

\* Between its queueing and its delivery no step loses or overtakes an outcome
\* of a service that stays registered, whatever is sent meanwhile and whoever
\* listens or closes: the safety half of OutcomeIsDelivered, with the place in
\* the queue as its measure.
THEOREM OutcomeKept == Spec => [][OutcomeMovesOn]_vars
  <1>1. ASSUME Init PROVE ServiceInvariant /\ LifeInvariant /\ EventInvariant
    <2>1. ServiceInvariant /\ LifeInvariant
      BY <1>1, IdAssumption, NoServiceAssumption
         DEF Init, ServiceInvariant, LifeInvariant, FailedLeavesNothing
    <2>2. EventInvariant
      BY <1>1, EmptySeq DEF Init, EventInvariant
    <2> QED
      BY <2>1, <2>2
  <1> QED
    BY <1>1, TypeCorrect, ServiceStep, LifeStep, EventStep, OutcomeStep, PTL DEF Spec
-----------------------------------------------------------------------------
(* What Client.Close has done when it returns.                             *)

\* Close takes its steps in order, and no service is left in the map behind it.
CloseInvariant ==
    /\ closePc # "idle" => closed
    /\ closePc \notin {"idle", "done"} => doneClosed
    /\ closePc \notin {"done", "locals"} => snapshot = {}
    /\ freed <=> closePc = "returned"
    /\ freed => \A i \in Ids : services[i] = NoService

LEMMA CloseInvariantStep == TypeOK /\ CloseInvariant /\ [Next]_vars => CloseInvariant'
  <1> SUFFICES ASSUME TypeOK, CloseInvariant, [Next]_vars PROVE CloseInvariant'
    OBVIOUS
  <1> USE DEF CloseInvariant, goVars, rustVars, queueVars, closeVars
  <1>1. ASSUME NEW l \in Listens, ListenAction(l) PROVE CloseInvariant'
    <2>1. CASE OnionAdd(l)
      BY <2>1 DEF OnionAdd
    <2>2. CASE OnionDel(l)
      <3>1. UNCHANGED closeVars /\ (freed => UNCHANGED services)
        BY <2>2 DEF OnionDel
      <3> QED
        BY <3>1
    <2>3. CASE CloseSvcLocal(l) \/ SvcClosedAlready(l)
      BY <2>3 DEF CloseSvcLocal, SvcClosedAlready
    <2>4. ASSUME ~OnionAdd(l), ~OnionDel(l), ~CloseSvcLocal(l), ~SvcClosedAlready(l)
          PROVE  UNCHANGED <<closeVars, services>>
      BY <1>1, <2>4 DEF ListenAction, BindLocal, CheckClosed, AddFails, Register, PublishedArm,
           DoneArm, CtxArm, ListenFails, Unregister, CloseLocal, StatusEvent
    <2> QED
      BY <2>1, <2>2, <2>3, <2>4
  <1>2. CASE PumpCheckDone \/ PumpNothing \/ PumpNext \/ handleDescEvent \/ UNCHANGED vars
    <2>1. UNCHANGED <<closeVars, services>>
      BY <1>2 DEF PumpCheckDone, PumpNothing, PumpNext, handleDescEvent, vars
    <2> QED
      BY <2>1
  <1>3. CASE CloseBegin
    BY <1>3 DEF CloseBegin, CloseAt
  <1>4. CASE CloseDone
    BY <1>4 DEF CloseDone, CloseAt
  <1>5. CASE CloseLocalsDone
    BY <1>5 DEF CloseLocalsDone, CloseAt
  <1>6. CASE Shutdown
    BY <1>6 DEF Shutdown, CloseAt, StopAll
  <1>7. CASE Free
    BY <1>7 DEF Free, CloseAt, StopAll
  <1> QED
    BY EveryAction, <1>1, <1>2, <1>3, <1>4, <1>5, <1>6, <1>7 DEF OtherAction

\* What Close saw, it closes: a service leaves the snapshot only once its local
\* listener is closed, closeOnce is never undone, and Close does not go on to
\* the backend before.
SeenIsClosed ==
    /\ \A l \in Listens : svcPc[l] = "closed" => svcPc'[l] = "closed" /\ local'[l] = "closed"
    /\ \A l \in snapshot \ snapshot' : svcPc'[l] = "closed" /\ local'[l] = "closed"
    /\ closePc = "locals" /\ closePc' # "locals" => snapshot = {}

\* Whichever Listen and OnionService.Close calls Client.Close meets, when it has
\* returned it has woken every waiter, left no service in the Rust client and
\* closed each service that was registered when it began: the safety half of
\* CloseUnblocksListen. (Of a service registered later it knows nothing, which
\* is what onion_accept shows.)
THEOREM CloseComplete ==
    Spec => /\ [](closePc = "returned" => /\ closed /\ doneClosed /\ freed /\ snapshot = {}
                                          /\ \A i \in Ids : services[i] = NoService)
            /\ [][SeenIsClosed]_vars
  <1>1. Init => ServiceInvariant /\ LifeInvariant /\ CloseInvariant
    BY IdAssumption, NoServiceAssumption
       DEF Init, ServiceInvariant, LifeInvariant, FailedLeavesNothing, CloseInvariant
  <1>2. CloseInvariant =>
          (closePc = "returned" => /\ closed /\ doneClosed /\ freed /\ snapshot = {}
                                   /\ \A i \in Ids : services[i] = NoService)
    BY DEF CloseInvariant
  <1>3. TypeOK /\ LifeInvariant /\ CloseInvariant /\ [Next]_vars => [SeenIsClosed]_vars
    <2> SUFFICES ASSUME TypeOK, LifeInvariant, CloseInvariant, Next PROVE SeenIsClosed
      OBVIOUS
    <2> USE DEF Goes, CloseLocalListener, CloseAt, goVars, rustVars, queueVars, closeVars
    <2>t. /\ svcPc \in [Listens -> {"open", "del", "local", "closed"}]
          /\ local \in [Listens -> {"none", "open", "closed"}]
      BY DEF TypeOK
    <2>l. \A l \in Listens : /\ pc[l] \in {"idle", "check", "add", "register"} => svcPc[l] = "open"
                             /\ svcPc[l] = "closed" => local[l] = "closed"
      BY DEF LifeInvariant
    <2>1. ASSUME NEW l \in Listens, ListenAction(l) PROVE SeenIsClosed
      <3>1. CASE BindLocal(l)
        BY <2>t, <2>l, <3>1 DEF BindLocal, SeenIsClosed
      <3>2. CASE CheckClosed(l)
        BY <2>t, <2>l, <3>2 DEF CheckClosed, SeenIsClosed
      <3>3. CASE AddFails(l)
        BY <2>t, <2>l, <3>3 DEF AddFails, SeenIsClosed
      <3>4. CASE Unregister(l)
        BY <2>t, <2>l, <3>4 DEF Unregister, SeenIsClosed
      <3>5. CASE OnionDel(l)
        <4>1. svcPc[l] = "del" /\ svcPc' = [svcPc EXCEPT ![l] = "local"] /\ UNCHANGED <<local, snapshot, closePc>>
          BY <3>5 DEF OnionDel
        <4> QED
          BY <2>t, <2>l, <4>1 DEF SeenIsClosed
      <3>6. CASE CloseLocal(l)
        BY <2>t, <2>l, <3>6 DEF CloseLocal, SeenIsClosed
      <3>7. CASE CloseSvcLocal(l)
        BY <2>t, <2>l, <3>7 DEF CloseSvcLocal, SeenIsClosed
      <3>8. CASE SvcClosedAlready(l)
        BY <2>t, <2>l, <3>8 DEF SvcClosedAlready, SeenIsClosed
      <3>9. CASE \/ OnionAdd(l) \/ Register(l) \/ PublishedArm(l) \/ DoneArm(l) \/ CtxArm(l)
                 \/ ListenFails(l) \/ StatusEvent(l)
        <4>1. UNCHANGED <<svcPc, local, snapshot, closePc>>
          BY <3>9 DEF OnionAdd, Register, PublishedArm, DoneArm, CtxArm, ListenFails, StatusEvent
        <4> QED
          BY <2>l, <4>1 DEF SeenIsClosed
      <3> QED
        BY <2>1, <3>1, <3>2, <3>3, <3>4, <3>5, <3>6, <3>7, <3>8, <3>9 DEF ListenAction
    <2>2. CASE CloseBegin
      BY <2>l, <2>2 DEF CloseBegin, SeenIsClosed, CloseInvariant
    <2>3. CASE CloseLocalsDone
      BY <2>l, <2>3 DEF CloseLocalsDone, SeenIsClosed
    <2>4. CASE \/ PumpCheckDone \/ PumpNothing \/ PumpNext \/ handleDescEvent
               \/ CloseDone \/ Shutdown \/ Free
      <3>1. UNCHANGED <<svcPc, local, snapshot>> /\ (closePc' = closePc \/ closePc # "locals")
        BY <2>4 DEF PumpCheckDone, PumpNothing, PumpNext, handleDescEvent, CloseDone, Shutdown, Free
      <3> QED
        BY <2>l, <3>1 DEF SeenIsClosed
    <2> QED
      BY EveryAction, <2>1, <2>2, <2>3, <2>4 DEF OtherAction
  <1> QED
    BY <1>1, <1>2, <1>3, TypeCorrect, ServiceStep, LifeStep, CloseInvariantStep, PTL DEF Spec
=============================================================================
