--------------------------- MODULE StatusHubProofs ---------------------------
(***************************************************************************)
(* Proofs about StatusHub, for every set of goroutines, every view of Arti *)
(* and every capacity.                                                     *)
(***************************************************************************)
EXTENDS StatusHub, TLAPS

\* What the watcher reports of a view is an event, and the status made of an
\* event is a status.
LEMMA ReportTypes ==
    /\ \A v \in ArtiView : summarize(v) \in Event /\ summarize(v) # HsDesc
    /\ \A e \in Event : e # HsDesc => statusFrom(e) \in Status
    /\ HsDesc \in Event /\ NoStatus \in Status
    /\ Disabled \in ArtiView
  <1>1. ASSUME NEW v \in ArtiView PROVE summarize(v) \in Event /\ summarize(v) # HsDesc
    <2>1. Progress(v) \in 0..100
      BY DEF Progress, ArtiView
    <2>2. Tag(v) \in Tags /\ Summary(v) \in Summaries
      BY DEF Tag, Summary, Tags, Summaries, ArtiView
    <2> QED
      BY <2>1, <2>2 DEF summarize, Event, HsDesc
  <1>2. ASSUME NEW e \in Event, e # HsDesc PROVE statusFrom(e) \in Status
    BY <1>2 DEF Event, Status, statusFrom, problemOf
  <1>3. HsDesc \in Event
    BY DEF Event
  <1>4. NoStatus \in Status
    BY DEF NoStatus, Status
  <1>5. Disabled \in ArtiView
    BY DEF Disabled, ArtiView
  <1> QED
    BY <1>1, <1>2, <1>3, <1>4, <1>5

\* An offered event leaves a well-typed queue within its capacity.
LEMMA OfferTypes ==
    ASSUME events \in Seq(Event), Len(events) <= EventCap, NEW e \in Event, Offer(e)
    PROVE  events' \in Seq(Event) /\ Len(events') <= EventCap
  BY CapAssumption DEF Offer

\* Every variable keeps its type; no queue and no channel outgrows its capacity.
THEOREM TypeCorrect == Spec => []TypeOK
  <1>1. Init => TypeOK
    <2>1. <<>> \in Seq(Event) /\ <<>> \in Seq(Status) /\ Len(<<>>) = 0
      OBVIOUS
    <2> SUFFICES ASSUME Init PROVE TypeOK
      OBVIOUS
    <2> USE DEF Init
    <2>2. buf \in [Subscribers -> Seq(Status)] /\ \A s \in Subscribers : Len(buf[s]) <= StatusBuffer
      BY <2>1, CapAssumption
    <2>3. events \in Seq(Event) /\ Len(events) <= EventCap
      BY <2>1, CapAssumption
    <2>4. netEnabled \in BOOLEAN /\ fresh \in BOOLEAN
      OBVIOUS
    <2>5. closed \in BOOLEAN /\ doneClosed \in BOOLEAN /\ freed \in BOOLEAN
      OBVIOUS
    <2>6. arti \in ArtiView /\ pumpStatus \in Status /\ status \in Status
      BY ReportTypes
    <2> QED
      BY <2>2, <2>3, <2>4, <2>5, <2>6, BoundAssumption DEF TypeOK
  <1>2. TypeOK /\ [Next]_vars => TypeOK'
    <2> SUFFICES ASSUME TypeOK, [Next]_vars PROVE TypeOK'
      OBVIOUS
    <2> USE BoundAssumption, CapAssumption
        DEF TypeOK, artiVars, queueVars, pumpVars, chanVars, closeVars, callVars
    <2>1. CASE ArtiChange
      BY <2>1, ViewsAssumption DEF ArtiChange
    <2>2. CASE WatchStatus
      <3>1. Progress(arti) \in 0..255
        BY DEF Progress, ArtiView
      <3> QED
        <4>1. CASE Progress(arti) = last
          <5>1. fresh' \in BOOLEAN
            BY <2>2 DEF WatchStatus
          <5> QED
            BY <2>2, <4>1, <5>1 DEF WatchStatus
        <4>2. CASE Progress(arti) # last
          <5>1. last' \in 0..255 /\ Offer(summarize(arti))
            BY <2>2, <3>1, <4>2 DEF WatchStatus
          <5>2. summarize(arti) \in Event
            BY ReportTypes
          <5>3. events' \in Seq(Event) /\ Len(events') <= EventCap
            BY <5>1, <5>2, OfferTypes
          <5> QED
            BY <2>2, <5>1, <5>3 DEF WatchStatus
        <4> QED
          BY <4>1, <4>2
    <2>3. CASE EmitHs
      BY <2>3, ReportTypes, OfferTypes DEF EmitHs
    <2>4. CASE Pump
      <3>1. CASE PumpCheckDone \/ PumpNothing \/ PumpCache \/ PumpLock \/ FanDone
        <4>1. CASE PumpCheckDone
          BY <4>1 DEF PumpCheckDone
        <4>2. CASE PumpNothing
          BY <4>2 DEF PumpNothing
        <4>3. CASE PumpCache
          BY <4>3 DEF PumpCache
        <4>4. CASE PumpLock
          BY <4>4 DEF PumpLock
        <4>5. CASE FanDone
          BY <4>5 DEF FanDone
        <4> QED
          BY <3>1, <4>1, <4>2, <4>3, <4>4, <4>5
      <3>2. CASE PumpNext
        <4>1. Head(events) \in Event /\ Tail(events) \in Seq(Event) /\ Len(Tail(events)) <= EventCap
          BY <3>2 DEF PumpNext
        <4> QED
          BY <3>2, <4>1, ReportTypes DEF PumpNext
      <3>3. ASSUME NEW s \in Subscribers, FanSend(s) PROVE TypeOK'
        <4>1. CASE Len(buf[s]) < StatusBuffer
          <5>1. Append(buf[s], pumpStatus) \in Seq(Status)
                /\ Len(Append(buf[s], pumpStatus)) <= StatusBuffer
            BY <4>1
          <5>2. buf' \in [Subscribers -> Seq(Status)]
                /\ \A r \in Subscribers : Len(buf'[r]) <= StatusBuffer
            BY <3>3, <4>1, <5>1 DEF FanSend
          <5> QED
            BY <3>3, <4>1, <5>2 DEF FanSend
        <4>2. CASE ~(Len(buf[s]) < StatusBuffer)
          BY <3>3, <4>2 DEF FanSend
        <4> QED
          BY <4>1, <4>2
      <3>4. ASSUME NEW s \in Subscribers, FanDrop(s) PROVE TypeOK'
        BY <3>4 DEF FanDrop
      <3>5. ASSUME NEW s \in Subscribers, FanRetry(s) PROVE TypeOK'
        BY <3>5 DEF FanRetry
      <3> QED
        BY <2>4, <3>1, <3>2, <3>3, <3>4, <3>5 DEF Pump
    <2>5. ASSUME NEW c \in Callers,
                 BootstrapRefused(c) \/ EnableNetwork(c) \/ CtxDone(c) \/ BootstrapStep(c)
          PROVE  TypeOK'
      <3> USE DEF Goes, Decides, Subscribers
      <3>1. CASE BootstrapRefused(c) \/ EnableNetwork(c) \/ CtxDone(c)
        <4>1. CASE BootstrapRefused(c)
          BY <4>1 DEF BootstrapRefused
        <4>2. CASE EnableNetwork(c)
          BY <4>2 DEF EnableNetwork
        <4>3. CASE CtxDone(c)
          BY <4>3 DEF CtxDone
        <4> QED
          BY <3>1, <4>1, <4>2, <4>3
      <3>2. CASE Subscribe(c)
        BY <3>2 DEF Subscribe, StatusUpdates
      <3>3. CASE ReadCache(c)
        BY <3>3 DEF ReadCache
      <3>4. CASE AskBackend(c)
        BY <3>4 DEF AskBackend
      <3>5. CASE TakeUpdate(c)
        <4>1. Tail(buf[c]) \in Seq(Status) /\ Len(Tail(buf[c])) <= StatusBuffer
          BY <3>5 DEF TakeUpdate, Receive
        <4>2. buf' \in [Subscribers -> Seq(Status)]
              /\ \A r \in Subscribers : Len(buf'[r]) <= StatusBuffer
          BY <3>5, <4>1 DEF TakeUpdate, Receive
        <4>3. callPc' \in [Callers -> {"idle", "subscribe", "status", "ask", "wait", "unsub", "returned"}]
              /\ result' \in [Callers -> {"none", "ok", "closed", "cancelled"}]
          BY <3>5 DEF TakeUpdate
        <4> QED
          BY <3>5, <4>2, <4>3 DEF TakeUpdate, Receive
      <3>6. CASE NoticeClosed(c)
        BY <3>6 DEF NoticeClosed
      <3>7. CASE ReturnFromBootstrap(c)
        BY <3>7 DEF ReturnFromBootstrap, unsubscribe
      <3> QED
        BY <2>5, <3>1, <3>2, <3>3, <3>4, <3>5, <3>6, <3>7 DEF BootstrapStep
    <2>6. ASSUME NEW w \in Watchers, Watch(w) \/ ReadUpdate(w) \/ Unsubscribe(w) PROVE TypeOK'
      <3> USE DEF Subscribers
      <3>1. CASE Watch(w)
        BY <3>1 DEF Watch, StatusUpdates
      <3>2. CASE ReadUpdate(w)
        BY <3>2 DEF ReadUpdate, Receive
      <3>3. CASE Unsubscribe(w)
        BY <3>3 DEF Unsubscribe, unsubscribe
      <3> QED
        BY <2>6, <3>1, <3>2, <3>3
    <2>7. ASSUME NEW k \in Closers, CloseAgain(k) \/ CloseBegin(k) \/ CloseStep(k) PROVE TypeOK'
      <3> USE DEF CloseAt
      <3>1. CASE CloseAgain(k) \/ CloseBegin(k) \/ CloseDone(k) \/ CloseSubsDone(k) \/ CloseBackend(k)
        <4>1. CASE CloseAgain(k)
          BY <4>1 DEF CloseAgain
        <4>2. CASE CloseBegin(k)
          BY <4>2 DEF CloseBegin
        <4>3. CASE CloseDone(k)
          BY <4>3 DEF CloseDone
        <4>4. CASE CloseSubsDone(k)
          BY <4>4 DEF CloseSubsDone
        <4>5. CASE CloseBackend(k)
          BY <4>5 DEF CloseBackend
        <4> QED
          BY <3>1, <4>1, <4>2, <4>3, <4>4, <4>5
      <3>2. ASSUME NEW s \in Subscribers, CloseSub(k, s) PROVE TypeOK'
        BY <3>2 DEF CloseSub
      <3> QED
        BY <2>7, <3>1, <3>2 DEF CloseStep
    <2>8. CASE UNCHANGED vars
      BY <2>8 DEF vars
    <2> QED
      BY <2>1, <2>2, <2>3, <2>4, <2>5, <2>6, <2>7, <2>8 DEF Next
  <1> QED
    BY <1>1, <1>2, PTL DEF Spec

\* Every action keeps the channels of subscribers open, each with one owner.
LEMMA ChannelStep == TypeOK /\ ChannelInvariant /\ [Next]_vars => ChannelInvariant'
  <1> SUFFICES ASSUME TypeOK, ChannelInvariant, [Next]_vars PROVE ChannelInvariant'
    OBVIOUS
  <1> USE ActorAssumption
      DEF ChannelInvariant, MuFree, artiVars, queueVars, pumpVars, chanVars, closeVars, callVars
  <1>1. CASE ArtiChange \/ WatchStatus \/ EmitHs
    BY <1>1 DEF ArtiChange, WatchStatus, EmitHs
  <1>2. CASE Pump
    <2>1. CASE PumpCheckDone \/ PumpNothing \/ PumpNext \/ PumpCache
      BY <2>1 DEF PumpCheckDone, PumpNothing, PumpNext, PumpCache
    <2>2. CASE PumpLock \/ FanDone
      BY <2>2 DEF PumpLock, FanDone
    <2>3. ASSUME NEW s \in Subscribers, FanSend(s) \/ FanDrop(s) \/ FanRetry(s)
          PROVE  ChannelInvariant'
      BY <2>3 DEF FanSend, FanDrop, FanRetry
    <2> QED
      BY <1>2, <2>1, <2>2, <2>3 DEF Pump
  <1>3. ASSUME NEW c \in Callers,
               BootstrapRefused(c) \/ EnableNetwork(c) \/ CtxDone(c) \/ BootstrapStep(c)
        PROVE  ChannelInvariant'
    <2> USE DEF Goes, TypeOK, Subscribers
    <2>1. CASE BootstrapRefused(c) \/ EnableNetwork(c) \/ CtxDone(c) \/ NoticeClosed(c)
      BY <2>1 DEF BootstrapRefused, EnableNetwork, CtxDone, NoticeClosed
    <2>2. CASE ReadCache(c) \/ AskBackend(c)
      <3>1. UNCHANGED <<pumpPc, todo, subscribers, isOpen, toClose, watchPc>>
        BY <2>2 DEF ReadCache, AskBackend
      <3>2. \E to \in {"unsub", "ask", "wait"} : callPc' = [callPc EXCEPT ![c] = to]
        BY <2>2 DEF ReadCache, AskBackend
      <3> QED
        BY <3>1, <3>2
    <2>3. CASE Subscribe(c)
      <3>1. CASE closed
        BY <2>3, <3>1 DEF Subscribe, StatusUpdates
      <3>2. CASE ~closed
        <4>1. isOpen' = [isOpen EXCEPT ![c] = TRUE]
          BY <2>3, <3>2 DEF Subscribe, StatusUpdates
        <4>2. subscribers' = subscribers \union {c} /\ c \notin toClose /\ todo = {}
          BY <2>3, <3>2 DEF Subscribe, StatusUpdates
        <4> HIDE DEF TypeOK
        <4>3. isOpen \in [Subscribers -> BOOLEAN] /\ toClose' = toClose /\ todo' = todo
          BY <2>3 DEF Subscribe, TypeOK
        <4>4. \A s \in subscribers' \union toClose' : isOpen'[s]
          BY <4>1, <4>2, <4>3
        <4> QED
          BY <2>3, <4>2, <4>3, <4>4 DEF Subscribe, TypeOK
      <3> QED
        BY <3>1, <3>2
    <2>4. CASE TakeUpdate(c)
      BY <2>4 DEF TakeUpdate, Receive
    <2>5. CASE ReturnFromBootstrap(c)
      BY <2>5 DEF ReturnFromBootstrap, unsubscribe
    <2> QED
      BY <1>3, <2>1, <2>2, <2>3, <2>4, <2>5 DEF BootstrapStep
  <1>4. ASSUME NEW w \in Watchers, Watch(w) \/ ReadUpdate(w) \/ Unsubscribe(w)
        PROVE  ChannelInvariant'
    <2> USE DEF TypeOK, Subscribers
    <2>1. CASE Watch(w)
      <3>1. CASE closed
        BY <2>1, <3>1 DEF Watch, StatusUpdates
      <3>2. CASE ~closed
        <4>1. isOpen' = [isOpen EXCEPT ![w] = TRUE]
          BY <2>1, <3>2 DEF Watch, StatusUpdates
        <4>2. subscribers' = subscribers \union {w} /\ w \notin toClose /\ todo = {}
          BY <2>1, <3>2 DEF Watch, StatusUpdates
        <4> HIDE DEF TypeOK
        <4>3. isOpen \in [Subscribers -> BOOLEAN] /\ toClose' = toClose /\ todo' = todo
          BY <2>1 DEF Watch, TypeOK
        <4>4. \A s \in subscribers' \union toClose' : isOpen'[s]
          BY <4>1, <4>2, <4>3
        <4> QED
          BY <2>1, <4>2, <4>3, <4>4 DEF Watch, TypeOK
      <3> QED
        BY <3>1, <3>2
    <2>2. CASE ReadUpdate(w)
      BY <2>2 DEF ReadUpdate, Receive
    <2>3. CASE Unsubscribe(w)
      BY <2>3 DEF Unsubscribe, unsubscribe
    <2> QED
      BY <1>4, <2>1, <2>2, <2>3
  <1>5. ASSUME NEW k \in Closers, CloseAgain(k) \/ CloseBegin(k) \/ CloseStep(k)
        PROVE  ChannelInvariant'
    <2>1. CASE CloseAgain(k) \/ CloseDone(k) \/ CloseSubsDone(k) \/ CloseBackend(k)
      BY <2>1 DEF CloseAgain, CloseDone, CloseSubsDone, CloseBackend
    <2>2. CASE CloseBegin(k)
      BY <2>2 DEF CloseBegin
    <2>3. ASSUME NEW s \in Subscribers, CloseSub(k, s) PROVE ChannelInvariant'
      BY <2>3 DEF CloseSub, TypeOK
    <2> QED
      BY <1>5, <2>1, <2>2, <2>3 DEF CloseStep
  <1>6. CASE UNCHANGED vars
    BY <1>6 DEF vars
  <1> QED
    BY <1>1, <1>2, <1>3, <1>4, <1>5, <1>6 DEF Next

\* Every action keeps at most one Close under way, and nothing torn down before it.
LEMMA CloseStepInvariant == TypeOK /\ CloseInvariant /\ [Next]_vars => CloseInvariant'
  <1> SUFFICES ASSUME TypeOK, CloseInvariant, [Next]_vars PROVE CloseInvariant'
    OBVIOUS
  <1> USE DEF CloseInvariant, Closing, closeVars
  <1>1. CASE ArtiChange \/ WatchStatus \/ EmitHs
    BY <1>1 DEF ArtiChange, WatchStatus, EmitHs
  <1>2. CASE Pump
    BY <1>2 DEF Pump, PumpCheckDone, PumpNothing, PumpNext, PumpCache, PumpLock, FanDone, FanSend,
                FanDrop, FanRetry
  <1>3. ASSUME NEW c \in Callers,
               BootstrapRefused(c) \/ EnableNetwork(c) \/ CtxDone(c) \/ BootstrapStep(c)
        PROVE  CloseInvariant'
    <2>1. UNCHANGED <<closed, doneClosed, toClose, freed, closePc>>
      <3>1. CASE BootstrapRefused(c) \/ EnableNetwork(c) \/ CtxDone(c)
        BY <3>1 DEF BootstrapRefused, EnableNetwork, CtxDone
      <3>2. CASE Subscribe(c) \/ ReadCache(c) \/ AskBackend(c)
        BY <3>2 DEF Subscribe, ReadCache, AskBackend
      <3>3. CASE TakeUpdate(c) \/ NoticeClosed(c) \/ ReturnFromBootstrap(c)
        BY <3>3 DEF TakeUpdate, NoticeClosed, ReturnFromBootstrap
      <3> QED
        BY <1>3, <3>1, <3>2, <3>3 DEF BootstrapStep
    <2> QED
      BY <2>1
  <1>4. ASSUME NEW w \in Watchers, Watch(w) \/ ReadUpdate(w) \/ Unsubscribe(w)
        PROVE  CloseInvariant'
    BY <1>4 DEF Watch, ReadUpdate, Unsubscribe
  <1>5. ASSUME NEW k \in Closers, CloseAgain(k) \/ CloseBegin(k) \/ CloseStep(k)
        PROVE  CloseInvariant'
    <2> USE DEF CloseAt, TypeOK
    <2>1. CASE CloseAgain(k)
      BY <2>1 DEF CloseAgain
    <2>2. CASE CloseBegin(k)
      BY <2>2 DEF CloseBegin
    <2>3. CASE CloseDone(k)
      BY <2>3 DEF CloseDone
    <2>4. CASE CloseSubsDone(k)
      BY <2>4 DEF CloseSubsDone
    <2>5. CASE CloseBackend(k)
      BY <2>5 DEF CloseBackend
    <2>6. ASSUME NEW s \in Subscribers, CloseSub(k, s) PROVE CloseInvariant'
      BY <2>6 DEF CloseSub
    <2> QED
      BY <1>5, <2>1, <2>2, <2>3, <2>4, <2>5, <2>6 DEF CloseStep
  <1>6. CASE UNCHANGED vars
    BY <1>6 DEF vars
  <1> QED
    BY <1>1, <1>2, <1>3, <1>4, <1>5, <1>6 DEF Next

\* The two halves of why NoPanic holds, as invariants of the specification.
THEOREM ClosingCorrect == Spec => [](ChannelInvariant /\ CloseInvariant)
  <1>1. Init => ChannelInvariant /\ CloseInvariant
    BY DEF Init, ChannelInvariant, CloseInvariant, MuFree, Closing, Subscribers
  <1> QED
    BY <1>1, TypeCorrect, ChannelStep, CloseStepInvariant, PTL DEF Spec

\* No goroutine sends on a closed channel or closes one twice, for every number
\* of subscribers and of concurrent Close calls.
THEOREM PanicFree == Spec => []NoPanic
  <1>1. ChannelInvariant /\ CloseInvariant => NoPanic
    BY DEF ChannelInvariant, CloseInvariant, NoPanic
  <1> QED
    BY <1>1, ClosingCorrect, PTL

\* Every action keeps ReadyIsTrue: Ready is made only from a ready view, and a
\* ready view stays ready.
LEMMA ReadyStep == TypeOK /\ ReadyIsTrue /\ [Next]_vars => ReadyIsTrue'
  <1> SUFFICES ASSUME TypeOK, ReadyIsTrue, [Next]_vars PROVE ReadyIsTrue'
    OBVIOUS
  <1> USE DEF artiVars, queueVars, pumpVars, chanVars, closeVars, callVars
  <1> DEFINE Frame == UNCHANGED <<arti, events, pumpStatus, status, buf, result>>
  <1>0. ASSUME Frame PROVE ReadyIsTrue'
    BY <1>0 DEF ReadyIsTrue, ReadyImpliesOnline
  <1>r. statusFrom(summarize(arti)).ready <=> arti.ready
    BY DEF statusFrom, summarize, Tag, TypeOK, ArtiView
  <1>a. ReadyImpliesOnline(statusFrom(summarize(arti)))
    BY DEF ReadyImpliesOnline, statusFrom, summarize, Tag, Progress, TypeOK, ArtiView
  <1>o. ASSUME NEW e \in Event, Offer(e), e # HsDesc => ReadyImpliesOnline(statusFrom(e)),
               UNCHANGED <<arti, pumpStatus, status, buf, result>>
        PROVE  ReadyIsTrue'
    <2>1. \A i \in 1..Len(events') : events'[i] = e \/ (i \in 1..Len(events) /\ events'[i] = events[i])
      BY <1>o DEF Offer, TypeOK
    <2> QED
      BY <1>o, <2>1 DEF ReadyIsTrue, ReadyImpliesOnline
  <1>1. CASE ArtiChange
    <2>1. arti.ready => arti'.ready
      BY <1>1 DEF ArtiChange
    <2>2. UNCHANGED <<events, pumpStatus, status, buf, result>>
      BY <1>1 DEF ArtiChange
    <2> QED
      BY <2>1, <2>2 DEF ReadyIsTrue, ReadyImpliesOnline
  <1>2. CASE WatchStatus
    <2>1. UNCHANGED <<arti, pumpStatus, status, buf, result>>
      BY <1>2 DEF WatchStatus
    <2>2. CASE Offer(summarize(arti))
      BY <1>a, <1>o, <2>1, <2>2, ReportTypes DEF TypeOK
    <2>3. CASE UNCHANGED events
      BY <1>0, <2>1, <2>3
    <2> QED
      BY <1>2, <2>2, <2>3 DEF WatchStatus
  <1>3. CASE EmitHs
    <2>1. Offer(HsDesc) /\ UNCHANGED <<arti, pumpStatus, status, buf, result>>
      BY <1>3 DEF EmitHs
    <2> QED
      BY <1>o, <2>1, ReportTypes
  <1>4. CASE Pump
    <2>1. CASE PumpCheckDone \/ PumpNothing \/ PumpLock \/ FanDone
      BY <1>0, <2>1 DEF PumpCheckDone, PumpNothing, PumpLock, FanDone
    <2>2. CASE PumpNext
      <3>1. events # <<>> /\ events' = Tail(events) /\ UNCHANGED <<arti, status, buf, result>>
        BY <2>2 DEF PumpNext
      <3>2. \A i \in 1..Len(events') : i + 1 \in 1..Len(events) /\ events'[i] = events[i + 1]
        BY <3>1 DEF TypeOK
      <3>3. 1 \in 1..Len(events) /\ Head(events) = events[1]
        BY <3>1 DEF TypeOK
      <3>4. pumpStatus' = pumpStatus \/ (events[1] # HsDesc /\ pumpStatus' = statusFrom(events[1]))
        BY <2>2, <3>3 DEF PumpNext
      <3>5. ReadyImpliesOnline(pumpStatus')
        BY <3>3, <3>4 DEF ReadyIsTrue
      <3>6. \A i \in 1..Len(events') : events'[i] # HsDesc => ReadyImpliesOnline(statusFrom(events'[i]))
        BY <3>2 DEF ReadyIsTrue
      <3> QED
        BY <3>1, <3>5, <3>6 DEF ReadyIsTrue, ReadyImpliesOnline
    <2>3. CASE PumpCache
      BY <2>3 DEF PumpCache, ReadyIsTrue, ReadyImpliesOnline
    <2>4. ASSUME NEW s \in Subscribers, FanSend(s) \/ FanDrop(s) \/ FanRetry(s)
          PROVE  ReadyIsTrue'
      <3>1. UNCHANGED <<arti, events, pumpStatus, status, result>>
        BY <2>4 DEF FanSend, FanDrop, FanRetry
      <3>2. buf' = buf \/ buf' = [buf EXCEPT ![s] = Append(@, pumpStatus)]
            \/ (buf[s] # <<>> /\ buf' = [buf EXCEPT ![s] = Tail(@)])
        BY <2>4 DEF FanSend, FanDrop, FanRetry, TypeOK
      <3>3. \A r \in Subscribers : \A i \in 1..Len(buf'[r]) :
                \/ buf'[r][i] = pumpStatus
                \/ \E j \in 1..Len(buf[r]) : buf'[r][i] = buf[r][j]
        <4>1. CASE buf' = buf
          BY <4>1
        <4>2. CASE buf' = [buf EXCEPT ![s] = Append(@, pumpStatus)]
          BY <4>2 DEF TypeOK
        <4>3. CASE buf[s] # <<>> /\ buf' = [buf EXCEPT ![s] = Tail(@)]
          BY <4>3 DEF TypeOK
        <4> QED
          BY <3>2, <4>1, <4>2, <4>3
      <3> QED
        BY <3>1, <3>3 DEF ReadyIsTrue, ReadyImpliesOnline
    <2> QED
      BY <1>4, <2>1, <2>2, <2>3, <2>4 DEF Pump
  <1>5. ASSUME NEW s \in Subscribers, UNCHANGED <<arti, events, pumpStatus, status>>,
               Receive(s) \/ buf' = buf \/ buf' = [buf EXCEPT ![s] = <<>>]
        PROVE  \A r \in Subscribers : \A i \in 1..Len(buf'[r]) : ReadyImpliesOnline(buf'[r][i])
    <2>1. \A r \in Subscribers : \A i \in 1..Len(buf'[r]) :
             \E j \in 1..Len(buf[r]) : buf'[r][i] = buf[r][j]
      <3>1. CASE Receive(s)
        BY <3>1 DEF Receive, TypeOK
      <3>2. CASE buf' = buf
        BY <3>2
      <3>3. CASE buf' = [buf EXCEPT ![s] = <<>>]
        BY <3>3 DEF TypeOK
      <3> QED
        BY <1>5, <3>1, <3>2, <3>3
    <2> QED
      BY <2>1 DEF ReadyIsTrue
  <1>6. ASSUME NEW s \in Subscribers, UNCHANGED <<arti, events, pumpStatus, status>>,
               Receive(s) \/ buf' = buf \/ buf' = [buf EXCEPT ![s] = <<>>],
               \/ UNCHANGED result
               \/ \E c \in Callers, r \in {"ok", "closed", "cancelled"} :
                     (r = "ok" => arti.ready) /\ Decides(c, r)
        PROVE  ReadyIsTrue'
    <2>1. \A c \in Callers : result'[c] = "ok" => arti.ready
      BY <1>6 DEF Decides, ReadyIsTrue, TypeOK
    <2> QED
      BY <1>5, <1>6, <2>1 DEF ReadyIsTrue, ReadyImpliesOnline
  <1>7. ASSUME NEW c \in Callers,
               BootstrapRefused(c) \/ EnableNetwork(c) \/ CtxDone(c) \/ BootstrapStep(c)
        PROVE  ReadyIsTrue'
    <2>0. c \in Subscribers
      BY DEF Subscribers
    <2>1. CASE BootstrapRefused(c) \/ EnableNetwork(c) \/ CtxDone(c) \/ NoticeClosed(c)
      BY <1>6, <2>0, <2>1 DEF BootstrapRefused, EnableNetwork, CtxDone, NoticeClosed
    <2>2. CASE Subscribe(c)
      BY <1>6, <2>0, <2>2 DEF Subscribe, StatusUpdates
    <2>3. CASE ReadCache(c)
      <3>1. status.ready => arti.ready
        BY DEF ReadyIsTrue, ReadyImpliesOnline
      <3> QED
        BY <1>6, <2>0, <2>3, <3>1 DEF ReadCache
    <2>4. CASE AskBackend(c)
      BY <1>6, <1>r, <2>0, <2>4 DEF AskBackend
    <2>5. CASE TakeUpdate(c)
      <3>1. Head(buf[c]).ready => arti.ready
        BY <2>0, <2>5 DEF TakeUpdate, Receive, ReadyIsTrue, ReadyImpliesOnline, TypeOK
      <3> QED
        BY <1>6, <2>0, <2>5, <3>1 DEF TakeUpdate
    <2>6. CASE ReturnFromBootstrap(c)
      BY <1>0, <2>6 DEF ReturnFromBootstrap, unsubscribe
    <2> QED
      BY <1>7, <2>1, <2>2, <2>3, <2>4, <2>5, <2>6 DEF BootstrapStep
  <1>8. ASSUME NEW w \in Watchers, Watch(w) \/ ReadUpdate(w) \/ Unsubscribe(w) PROVE ReadyIsTrue'
    BY <1>6, <1>8 DEF Watch, ReadUpdate, Unsubscribe, StatusUpdates, unsubscribe, Subscribers
  <1>9. ASSUME NEW k \in Closers, CloseAgain(k) \/ CloseBegin(k) \/ CloseStep(k) PROVE ReadyIsTrue'
    BY <1>0, <1>9 DEF CloseAgain, CloseBegin, CloseStep, CloseDone, CloseSubsDone, CloseBackend,
                      CloseSub
  <1>10. CASE UNCHANGED vars
    BY <1>0, <1>10 DEF vars
  <1> QED
    BY <1>1, <1>2, <1>3, <1>4, <1>7, <1>8, <1>9, <1>10 DEF Next

\* Bootstrap returns nil, and a status says Ready, only when Arti can carry
\* traffic: for every view Arti may report and every order of delivery.
THEOREM ReadyCorrect == Spec => []ReadyIsTrue
  <1>1. Init => ReadyIsTrue
    <2> SUFFICES ASSUME Init PROVE ReadyIsTrue
      OBVIOUS
    <2>1. Len(events) = 0 /\ \A s \in Subscribers : Len(buf[s]) = 0
      BY DEF Init
    <2>2. ~pumpStatus.ready /\ ~status.ready
      BY DEF Init, NoStatus
    <2>3. \A c \in Callers : result[c] # "ok"
      BY DEF Init
    <2> QED
      BY <2>1, <2>2, <2>3 DEF ReadyIsTrue, ReadyImpliesOnline
  <1> QED
    BY <1>1, TypeCorrect, ReadyStep, PTL DEF Spec

\* Every action keeps CallInvariant: a running call's channel exists until
\* Close closes it, and a call that has its outcome does nothing but return.
LEMMA CallStep ==
    TypeOK /\ ChannelInvariant /\ CloseInvariant /\ CallInvariant /\ [Next]_vars => CallInvariant'
  <1> SUFFICES ASSUME TypeOK, ChannelInvariant, CloseInvariant, CallInvariant, [Next]_vars
               PROVE  CallInvariant'
    OBVIOUS
  <1> USE DEF artiVars, queueVars, pumpVars, chanVars, closeVars, callVars
  <1>0. ASSUME UNCHANGED <<callPc, result, isOpen, closed>> PROVE CallInvariant'
    BY <1>0 DEF CallInvariant
  <1>1. CASE ArtiChange \/ WatchStatus \/ EmitHs
    BY <1>0, <1>1 DEF ArtiChange, WatchStatus, EmitHs
  <1>2. CASE Pump
    BY <1>0, <1>2 DEF Pump, PumpCheckDone, PumpNothing, PumpNext, PumpCache, PumpLock, FanDone,
                      FanSend, FanDrop, FanRetry
  <1>3. ASSUME NEW c \in Callers,
               BootstrapRefused(c) \/ EnableNetwork(c) \/ CtxDone(c) \/ BootstrapStep(c)
        PROVE  CallInvariant'
    <2> USE DEF CallInvariant, Goes, Decides, TypeOK, Subscribers
    <2>1. CASE BootstrapRefused(c)
      BY <2>1 DEF BootstrapRefused
    <2>2. CASE EnableNetwork(c)
      BY <2>2 DEF EnableNetwork
    <2>3. CASE CtxDone(c)
      BY <2>3 DEF CtxDone
    <2>4. CASE Subscribe(c)
      <3>1. isOpen'[c] <=> ~closed
        BY <2>4 DEF Subscribe, StatusUpdates
      <3>2. \A d \in Callers \ {c} : isOpen'[d] = isOpen[d] /\ callPc'[d] = callPc[d]
        BY <2>4 DEF Subscribe, StatusUpdates
      <3>3. callPc[c] = "subscribe" /\ callPc'[c] = "status" /\ UNCHANGED <<result, closed>>
        BY <2>4 DEF Subscribe
      <3> QED
        BY <3>1, <3>2, <3>3
    <2>5. CASE ReadCache(c)
      <3>1. CASE status.ready
        BY <2>5, <3>1 DEF ReadCache
      <3>2. CASE ~status.ready
        <4>1. \E to \in {"ask", "wait"} : callPc' = [callPc EXCEPT ![c] = to]
          BY <2>5, <3>2 DEF ReadCache
        <4> QED
          <5>1. callPc[c] = "status" /\ UNCHANGED <<result, isOpen, closed>>
            BY <2>5, <3>2 DEF ReadCache
          <5> QED
            BY <4>1, <5>1
      <3> QED
        BY <3>1, <3>2
    <2>6. CASE AskBackend(c)
      BY <2>6 DEF AskBackend
    <2>7. CASE TakeUpdate(c)
      BY <2>7 DEF TakeUpdate, Receive
    <2>8. CASE NoticeClosed(c)
      BY <2>8 DEF NoticeClosed
    <2>9. CASE ReturnFromBootstrap(c)
      BY <2>9 DEF ReturnFromBootstrap, unsubscribe
    <2> QED
      BY <1>3, <2>1, <2>2, <2>3, <2>4, <2>5, <2>6, <2>7, <2>8, <2>9 DEF BootstrapStep
  <1>4. ASSUME NEW w \in Watchers, Watch(w) \/ ReadUpdate(w) \/ Unsubscribe(w) PROVE CallInvariant'
    <2>1. UNCHANGED <<callPc, result, closed>>
      BY <1>4 DEF Watch, ReadUpdate, Unsubscribe
    <2>2. \A c \in Callers : isOpen'[c] = isOpen[c]
      BY <1>4, ActorAssumption
         DEF Watch, ReadUpdate, Unsubscribe, StatusUpdates, unsubscribe, Receive, TypeOK, Subscribers
    <2> QED
      BY <2>1, <2>2 DEF CallInvariant
  <1>5. ASSUME NEW k \in Closers, CloseAgain(k) \/ CloseBegin(k) \/ CloseStep(k) PROVE CallInvariant'
    <2>1. CASE CloseAgain(k) \/ CloseDone(k) \/ CloseSubsDone(k) \/ CloseBackend(k)
      BY <1>0, <2>1 DEF CloseAgain, CloseDone, CloseSubsDone, CloseBackend
    <2>2. CASE CloseBegin(k)
      BY <2>2 DEF CloseBegin, CallInvariant
    <2>3. ASSUME NEW s \in Subscribers, CloseSub(k, s) PROVE CallInvariant'
      <3>1. closed' /\ UNCHANGED <<callPc, result>>
        BY <2>3 DEF CloseSub, CloseInvariant
      <3> QED
        BY <3>1 DEF CallInvariant
    <2> QED
      BY <1>5, <2>1, <2>2, <2>3 DEF CloseStep
  <1>6. CASE UNCHANGED vars
    BY <1>0, <1>6 DEF vars
  <1> QED
    BY <1>1, <1>2, <1>3, <1>4, <1>5, <1>6 DEF Next

\* What a call can rely on, as an invariant of the specification.
THEOREM CallsCorrect == Spec => []CallInvariant
  <1>1. Init => CallInvariant
    BY DEF Init, CallInvariant
  <1> QED
    BY <1>1, TypeCorrect, ClosingCorrect, CallStep, PTL DEF Spec

\* The safety half of BootstrapKeepsPromise, for every number of callers and
\* every capacity: each step of the pipeline is a step a Bootstrap call may take
\* by its promise, or one its caller cannot see.
THEOREM KeepsPromise == Spec => Promise!Safe
  <1> DEFINE call == [c \in Callers |-> IF result[c] # "none" THEN result[c]
                                       ELSE IF callPc[c] = "idle" THEN "idle" ELSE "waiting"]
  <1>1. Init => Promise!Init
    BY DEF Init, Promise!Init, Disabled
  <1>2. TypeOK /\ ReadyIsTrue /\ CloseInvariant /\ CallInvariant /\ [Next]_vars
          => [Promise!Next]_Promise!vars
    <2> SUFFICES ASSUME TypeOK, ReadyIsTrue, CloseInvariant, CallInvariant, [Next]_vars
                 PROVE  [Promise!Next]_Promise!vars
      OBVIOUS
    <2> USE DEF artiVars, queueVars, pumpVars, chanVars, closeVars, callVars
    <2>0. ASSUME call' = call, UNCHANGED <<arti, closed>> PROVE UNCHANGED Promise!vars
      BY <2>0 DEF Promise!vars
    <2>c. UNCHANGED <<callPc, result>> => call' = call
      OBVIOUS
    <2>1. CASE ArtiChange
      <3>1. call' = call /\ UNCHANGED closed
        BY <2>1, <2>c DEF ArtiChange
      <3>2. CASE arti'.ready = arti.ready
        BY <3>1, <3>2 DEF Promise!vars
      <3>3. CASE arti'.ready # arti.ready
        <4>1. arti' \in ArtiView /\ (arti.ready => arti'.ready)
          BY <2>1, ViewsAssumption DEF ArtiChange
        <4>2. arti'.ready = TRUE
          BY <3>3, <4>1 DEF TypeOK, ArtiView
        <4> QED
          BY <3>1, <4>2 DEF Promise!Next, Promise!Connect
      <3> QED
        BY <3>2, <3>3
    <2>2. CASE WatchStatus \/ EmitHs
      BY <2>0, <2>c, <2>2 DEF WatchStatus, EmitHs
    <2>3. CASE Pump
      <3>1. UNCHANGED <<callPc, result, arti, closed>>
        BY <2>3 DEF Pump, PumpCheckDone, PumpNothing, PumpNext, PumpCache, PumpLock, FanDone, FanSend,
                    FanDrop, FanRetry
      <3> QED
        BY <2>0, <2>c, <3>1
    <2>4. ASSUME NEW c \in Callers,
                 BootstrapRefused(c) \/ EnableNetwork(c) \/ CtxDone(c) \/ BootstrapStep(c)
          PROVE  [Promise!Next]_Promise!vars
      <3> USE DEF Goes, Decides, TypeOK
      <3>a. UNCHANGED <<arti, closed>>
        BY <2>4 DEF BootstrapRefused, EnableNetwork, CtxDone, BootstrapStep, Subscribe, ReadCache,
                    AskBackend, TakeUpdate, NoticeClosed, ReturnFromBootstrap
      <3>w. callPc[c] \in {"subscribe", "status", "ask", "wait"} => call[c] = "waiting"
        BY DEF CallInvariant
      <3>i. callPc[c] = "idle" => call[c] = "idle"
        BY DEF CallInvariant
      <3>s. ASSUME NEW r \in {"ok", "closed", "cancelled"}, result' = [result EXCEPT ![c] = r],
                   NEW to \in {"unsub", "returned"}, callPc' = [callPc EXCEPT ![c] = to]
            PROVE  call' = [call EXCEPT ![c] = r]
        BY <3>s
      <3>1. CASE BootstrapRefused(c)
        <4>1. call' = [call EXCEPT ![c] = "closed"] /\ call[c] = "idle" /\ closed
          BY <3>1, <3>i, <3>s DEF BootstrapRefused, CloseInvariant
        <4> QED
          BY <3>a, <4>1 DEF Promise!Next, Promise!Refuse, Promise!Becomes
      <3>2. CASE EnableNetwork(c)
        <4>1. call' = [call EXCEPT ![c] = "waiting"] /\ call[c] = "idle"
          BY <3>2, <3>i DEF EnableNetwork, CallInvariant
        <4> QED
          BY <3>a, <4>1 DEF Promise!Next, Promise!Begin, Promise!Becomes
      <3>3. CASE CtxDone(c)
        <4>1. call' = [call EXCEPT ![c] = "cancelled"] /\ call[c] = "waiting"
          BY <3>3, <3>w, <3>s DEF CtxDone
        <4> QED
          BY <3>a, <4>1 DEF Promise!Next, Promise!Cancel, Promise!Becomes
      <3>4. ASSUME Decides(c, "ok"), arti.ready, call[c] = "waiting",
                   callPc' = [callPc EXCEPT ![c] = "unsub"]
            PROVE  Promise!Succeed(c)
        <4>1. call' = [call EXCEPT ![c] = "ok"]
          BY <3>4, <3>s
        <4> QED
          BY <3>4, <3>a, <4>1 DEF Promise!Succeed, Promise!Becomes
      <3>5. ASSUME UNCHANGED result, callPc[c] # "idle", NEW to \in {"status", "ask", "wait", "returned"},
                   callPc' = [callPc EXCEPT ![c] = to]
            PROVE  call' = call
        BY <3>5
      <3>6. CASE Subscribe(c) \/ ReturnFromBootstrap(c)
        BY <2>0, <3>5, <3>6, <3>a DEF Subscribe, ReturnFromBootstrap
      <3>7. CASE ReadCache(c)
        <4>1. CASE status.ready
          BY <3>7, <3>4, <3>w, <4>1 DEF ReadCache, ReadyIsTrue, ReadyImpliesOnline, Promise!Next,
                                        Promise!Return
        <4>2. CASE ~status.ready
          BY <2>0, <3>5, <3>7, <3>a, <4>2 DEF ReadCache
        <4> QED
          BY <4>1, <4>2
      <3>8. CASE AskBackend(c)
        <4>r. statusFrom(summarize(arti)).ready <=> arti.ready
          BY DEF statusFrom, summarize, Tag, ArtiView
        <4>1. CASE ~freed /\ arti.ready
          BY <3>8, <3>4, <3>w, <4>1, <4>r DEF AskBackend, Promise!Next, Promise!Return
        <4>2. CASE freed \/ ~arti.ready
          BY <2>0, <3>5, <3>8, <3>a, <4>2, <4>r DEF AskBackend
        <4> QED
          BY <4>1, <4>2
      <3>9. CASE TakeUpdate(c)
        <4>r. Head(buf[c]).ready => arti.ready
          BY <3>9 DEF TakeUpdate, Receive, ReadyIsTrue, ReadyImpliesOnline, Subscribers
        <4>1. CASE Head(buf[c]).ready
          BY <3>9, <3>4, <3>w, <4>1, <4>r DEF TakeUpdate, Promise!Next, Promise!Return
        <4>2. CASE ~Head(buf[c]).ready
          BY <2>0, <2>c, <3>9, <3>a, <4>2 DEF TakeUpdate
        <4> QED
          BY <4>1, <4>2
      <3>10. CASE NoticeClosed(c)
        <4>1. call' = [call EXCEPT ![c] = "closed"] /\ call[c] = "waiting"
          BY <3>10, <3>w, <3>s DEF NoticeClosed
        <4>2. closed
          BY <3>10 DEF NoticeClosed, SeesClosed, CallInvariant, CloseInvariant
        <4> QED
          BY <3>a, <4>1, <4>2 DEF Promise!Next, Promise!Return, Promise!FailClosed, Promise!Becomes
      <3> QED
        BY <2>4, <3>1, <3>2, <3>3, <3>6, <3>7, <3>8, <3>9, <3>10 DEF BootstrapStep
    <2>5. ASSUME NEW w \in Watchers, Watch(w) \/ ReadUpdate(w) \/ Unsubscribe(w)
          PROVE  UNCHANGED Promise!vars
      BY <2>0, <2>c, <2>5 DEF Watch, ReadUpdate, Unsubscribe
    <2>6. ASSUME NEW k \in Closers, CloseAgain(k) \/ CloseBegin(k) \/ CloseStep(k)
          PROVE  [Promise!Next]_Promise!vars
      <3>1. CASE CloseBegin(k)
        <4>1. closed' = TRUE /\ UNCHANGED <<arti, callPc, result>>
          BY <3>1 DEF CloseBegin
        <4> QED
          BY <2>c, <4>1 DEF Promise!Next, Promise!Shut
      <3>2. CASE CloseAgain(k) \/ CloseStep(k)
        BY <2>0, <2>c, <3>2 DEF CloseAgain, CloseStep, CloseDone, CloseSubsDone, CloseBackend, CloseSub
      <3> QED
        BY <2>6, <3>1, <3>2
    <2>7. CASE UNCHANGED vars
      BY <2>0, <2>c, <2>7 DEF vars
    <2> QED
      BY <2>1, <2>2, <2>3, <2>4, <2>5, <2>6, <2>7 DEF Next
  <1> QED
    BY <1>1, <1>2, TypeCorrect, ReadyCorrect, ClosingCorrect, CallsCorrect, PTL DEF Spec, Promise!Safe

\* Every action keeps FanInvariant.
LEMMA FanStep == TypeOK /\ ChannelInvariant /\ FanInvariant /\ [Next]_vars => FanInvariant'
  <1> SUFFICES ASSUME TypeOK, ChannelInvariant, FanInvariant, [Next]_vars PROVE FanInvariant'
    OBVIOUS
  <1> USE DEF FanInvariant, NewestIsDelivered, EndsWith, artiVars, queueVars, pumpVars, chanVars,
              closeVars, callVars
  <1>0. ASSUME UNCHANGED <<pumpPc, pumpStatus, todo, full, status>>,
               \A s \in Subscribers : buf'[s] = buf[s] \/ buf'[s] = <<>>
                                      \/ (buf[s] # <<>> /\ buf'[s] = Tail(buf[s])),
               \A s \in subscribers' : s \in subscribers \/ buf'[s] = <<>>
        PROVE  FanInvariant'
    <2>1. ASSUME NEW s \in Subscribers
          PROVE  \/ buf'[s] = <<>>
                 \/ /\ buf[s] # <<>> /\ Len(buf'[s]) <= Len(buf[s])
                    /\ buf'[s][Len(buf'[s])] = buf[s][Len(buf[s])]
      <3>1. buf[s] \in Seq(Status)
        BY DEF TypeOK
      <3>2. CASE buf[s] # <<>> /\ buf'[s] = Tail(buf[s])
        BY <3>1, <3>2
      <3>3. CASE buf'[s] = buf[s]
        BY <3>1, <3>3
      <3> QED
        BY <1>0, <3>2, <3>3
    <2>2. \A s \in subscribers' : EndsWith(s, status)' \/ (s \in subscribers /\ ~EndsWith(s, status))
      BY <1>0, <2>1 DEF TypeOK
    <2>3. \A s \in subscribers' :
             EndsWith(s, pumpStatus)' \/ (s \in subscribers /\ ~EndsWith(s, pumpStatus))
      BY <1>0, <2>1 DEF TypeOK
    <2>4. pumpPc = "retry" => \A s \in full : Len(buf'[s]) < StatusBuffer
      BY <1>0, <2>1, CapAssumption DEF TypeOK
    <2> HIDE DEF EndsWith
    <2> QED
      BY <1>0, <2>2, <2>3, <2>4
  <1>1. CASE ArtiChange \/ WatchStatus \/ EmitHs
    BY <1>0, <1>1 DEF ArtiChange, WatchStatus, EmitHs
  <1>2. CASE Pump
    <2>1. CASE PumpCheckDone \/ PumpNothing \/ PumpNext
      BY <2>1 DEF PumpCheckDone, PumpNothing, PumpNext
    <2>2. CASE PumpCache \/ PumpLock
      BY <2>2 DEF PumpCache, PumpLock
    <2>3. CASE FanDone
      BY <2>3 DEF FanDone
    <2>4. ASSUME NEW s \in Subscribers, FanSend(s) PROVE FanInvariant'
      <3>1. CASE Len(buf[s]) < StatusBuffer
        <4>1. buf'[s] = Append(buf[s], pumpStatus) /\ buf'[s][Len(buf'[s])] = pumpStatus
          BY <2>4, <3>1 DEF FanSend, TypeOK
        <4>2. \A r \in Subscribers \ {s} : buf'[r] = buf[r]
          BY <2>4, <3>1 DEF FanSend, TypeOK
        <4>3. todo' = todo \ {s} /\ pumpPc = "fan" /\ UNCHANGED <<pumpPc, pumpStatus, full, status, subscribers>>
          BY <2>4, <3>1 DEF FanSend
        <4> QED
          BY <4>1, <4>2, <4>3 DEF TypeOK
      <3>2. CASE ~(Len(buf[s]) < StatusBuffer)
        BY <2>4, <3>2 DEF FanSend
      <3> QED
        BY <3>1, <3>2
    <2>5. ASSUME NEW s \in Subscribers, FanDrop(s) PROVE FanInvariant'
      <3>1. Len(buf'[s]) < StatusBuffer
        BY <2>5, CapAssumption DEF FanDrop, TypeOK
      <3>2. full = {s} /\ full \subseteq todo
        BY <2>5 DEF FanDrop, TypeOK
      <3>3. \A r \in Subscribers \ {s} : buf'[r] = buf[r]
        BY <2>5 DEF FanDrop, TypeOK
      <3>4. pumpPc = "drop" /\ pumpPc' = "retry" /\ UNCHANGED <<pumpStatus, todo, full, status, subscribers>>
        BY <2>5 DEF FanDrop
      <3> QED
        BY <3>1, <3>2, <3>3, <3>4 DEF TypeOK
    <2>6. ASSUME NEW s \in Subscribers, FanRetry(s) PROVE FanInvariant'
      <3>1. Len(buf[s]) < StatusBuffer
        BY <2>6 DEF FanRetry
      <3>2. buf'[s] = Append(buf[s], pumpStatus) /\ buf'[s][Len(buf'[s])] = pumpStatus
        BY <2>6, <3>1 DEF FanRetry, TypeOK
      <3>3. \A r \in Subscribers \ {s} : buf'[r] = buf[r]
        BY <2>6 DEF FanRetry, TypeOK
      <3>4. pumpPc = "retry" /\ pumpPc' = "fan" /\ todo' = todo \ {s}
            /\ UNCHANGED <<pumpStatus, status, subscribers>>
        BY <2>6 DEF FanRetry
      <3> QED
        BY <3>2, <3>3, <3>4 DEF TypeOK
    <2> QED
      BY <1>2, <2>1, <2>2, <2>3, <2>4, <2>5, <2>6 DEF Pump
  <1>3. ASSUME NEW c \in Callers,
               BootstrapRefused(c) \/ EnableNetwork(c) \/ CtxDone(c) \/ BootstrapStep(c)
        PROVE  FanInvariant'
    <2> USE DEF Subscribers
    <2>1. CASE BootstrapRefused(c) \/ EnableNetwork(c) \/ CtxDone(c) \/ NoticeClosed(c)
      BY <1>0, <2>1 DEF BootstrapRefused, EnableNetwork, CtxDone, NoticeClosed
    <2>2. CASE Subscribe(c)
      BY <1>0, <2>2 DEF Subscribe, StatusUpdates, TypeOK
    <2>3. CASE ReadCache(c) \/ AskBackend(c)
      BY <1>0, <2>3 DEF ReadCache, AskBackend
    <2>4. CASE TakeUpdate(c)
      BY <1>0, <2>4 DEF TakeUpdate, Receive, TypeOK
    <2>5. CASE ReturnFromBootstrap(c)
      BY <1>0, <2>5 DEF ReturnFromBootstrap, unsubscribe
    <2> QED
      BY <1>3, <2>1, <2>2, <2>3, <2>4, <2>5 DEF BootstrapStep
  <1>4. ASSUME NEW w \in Watchers, Watch(w) \/ ReadUpdate(w) \/ Unsubscribe(w) PROVE FanInvariant'
    <2> USE DEF Subscribers
    <2>1. CASE Watch(w)
      BY <1>0, <2>1 DEF Watch, StatusUpdates, TypeOK
    <2>2. CASE ReadUpdate(w)
      BY <1>0, <2>2 DEF ReadUpdate, Receive, TypeOK
    <2>3. CASE Unsubscribe(w)
      BY <1>0, <2>3 DEF Unsubscribe, unsubscribe
    <2> QED
      BY <1>4, <2>1, <2>2, <2>3
  <1>5. ASSUME NEW k \in Closers, CloseAgain(k) \/ CloseBegin(k) \/ CloseStep(k) PROVE FanInvariant'
    BY <1>0, <1>5 DEF CloseAgain, CloseBegin, CloseStep, CloseDone, CloseSubsDone, CloseBackend,
                      CloseSub
  <1>6. CASE UNCHANGED vars
    BY <1>0, <1>6 DEF vars
  <1> QED
    BY <1>1, <1>2, <1>3, <1>4, <1>5, <1>6 DEF Next

\* A slow subscriber misses old updates and never the newest, whatever the
\* channel capacity and however reads, subscriptions and Close interleave with
\* the fan-out.
THEOREM NewestDelivered == Spec => []NewestIsDelivered
  <1>1. Init => FanInvariant
    BY DEF Init, FanInvariant, NewestIsDelivered
  <1>2. FanInvariant => NewestIsDelivered
    BY DEF FanInvariant
  <1> QED
    BY <1>1, <1>2, TypeCorrect, ClosingCorrect, FanStep, PTL DEF Spec
-----------------------------------------------------------------------------
(* What liveness rests on: nothing that is waited for is ever left behind. *)

\* The order in which Close tears down: channels belong to subscribers or wait
\* to be closed, and no step of Close is taken before the ones it comes after.
TearDownInvariant ==
    /\ closed => subscribers = {}
    /\ \A s \in Subscribers : isOpen[s] => s \in subscribers \union toClose
    /\ \A k \in Closers : closePc[k] \in {"subs", "backend"} => doneClosed
    /\ \A k \in Closers : closePc[k] = "backend" => toClose = {}
    /\ freed => doneClosed /\ toClose = {}

\* The safety half of CloseUnblocksAll: when Close has released the handle, every
\* waiter has been told - done is closed, no channel is open and none is left to
\* close - and nobody can subscribe any more.
CloseIsComplete ==
    freed => /\ closed /\ doneClosed
             /\ subscribers = {} /\ toClose = {}
             /\ \A s \in Subscribers : ~isOpen[s]

\* What the pump has in hand is what is cached, except just before it caches it.
CacheInvariant == pumpPc # "cache" => status = pumpStatus

\* A call between its subscription and its end is subscribed, unless Close came;
\* once a Ready has left the pump, a call that did not see it in the cache has it
\* at hand in its channel.
WaiterInvariant ==
    \A c \in Callers :
        /\ callPc[c] \in {"status", "ask", "wait", "unsub"} /\ ~closed => c \in subscribers
        /\ /\ callPc[c] \in {"ask", "wait"} /\ ~closed
           /\ pumpStatus.ready /\ pumpPc \notin {"cache", "lock"}
           => ReadyAtHand(c)

\* The event queue has room for one more event.
Room == Len(events) < EventCap

QueuedStatus(i) == i \in 1..Len(events) /\ events[i] # HsDesc

NoneAfter(i) == \A j \in 1..Len(events) : j > i => ~QueuedStatus(j)

\* While nothing is dropped, the newest status on its way to the cache reports
\* what the watcher saw last, and a Ready is never followed by another status.
PipelineInvariant ==
    /\ ~fresh => last = Progress(arti)
    /\ last = 100 => arti.ready
    /\ last = 255 => fresh /\ ~pumpStatus.ready /\ NoneAfter(0)
    /\ \A i \in 1..Len(events) : QueuedStatus(i) =>
          /\ statusFrom(events[i]).ready <=> events[i].progress = 100
          /\ statusFrom(events[i]).ready => NoneAfter(i)
    /\ pumpStatus.ready <=> pumpStatus.progress = 100
    /\ pumpStatus.ready => NoneAfter(0)
    /\ \/ last = 255
       \/ pumpStatus.progress = last /\ NoneAfter(0)
       \/ \E i \in 1..Len(events) :
             QueuedStatus(i) /\ NoneAfter(i) /\ events[i].progress = last

\* Every queued event was caused by a change of Arti's view, of which the watcher
\* reports each at most once, or by an onion service; the first view counts too.
RoomInvariant == Len(events) + (IF fresh THEN 1 ELSE 0) <= 1 + changes + hsSent

\* The safety half of ProgressConverges: once the watcher has seen Arti's view and
\* what it reported is cached, the cache agrees with Arti.
CacheCatchesUp ==
    /\ ~fresh /\ pumpPc # "cache"
    /\ NoneAfter(0)
    => status.progress = Progress(arti) /\ status.ready = arti.ready
\* Every action keeps the order in which Close tears down.
LEMMA TearDownStep ==
    TypeOK /\ ChannelInvariant /\ CloseInvariant /\ TearDownInvariant /\ [Next]_vars
      => TearDownInvariant'
  <1> SUFFICES ASSUME TypeOK, ChannelInvariant, CloseInvariant, TearDownInvariant, [Next]_vars
               PROVE  TearDownInvariant'
    OBVIOUS
  <1> USE DEF artiVars, queueVars, pumpVars, chanVars, closeVars, callVars
  <1>0. ASSUME UNCHANGED <<subscribers, isOpen, closeVars>> PROVE TearDownInvariant'
    BY <1>0 DEF TearDownInvariant
  <1>1. CASE ArtiChange \/ WatchStatus \/ EmitHs
    BY <1>0, <1>1 DEF ArtiChange, WatchStatus, EmitHs
  <1>2. CASE Pump
    BY <1>0, <1>2 DEF Pump, PumpCheckDone, PumpNothing, PumpNext, PumpCache, PumpLock, FanDone,
                      FanSend, FanDrop, FanRetry
  <1>3. ASSUME NEW s \in Subscribers, StatusUpdates(s) \/ unsubscribe(s), UNCHANGED closeVars
        PROVE  TearDownInvariant'
    <2>1. \A r \in Subscribers \ {s} : isOpen'[r] = isOpen[r]
      BY <1>3 DEF StatusUpdates, unsubscribe, TypeOK
    <2>2. isOpen'[s] => s \in subscribers' \union toClose
      <3>1. CASE StatusUpdates(s)
        BY <3>1 DEF StatusUpdates, TypeOK
      <3>2. CASE unsubscribe(s)
        BY <3>2 DEF unsubscribe, TypeOK, TearDownInvariant
      <3> QED
        BY <1>3, <3>1, <3>2
    <2>3. subscribers \ {s} \subseteq subscribers' /\ (closed => subscribers' = {})
      BY <1>3 DEF StatusUpdates, unsubscribe, TearDownInvariant
    <2> QED
      BY <1>3, <2>1, <2>2, <2>3 DEF TearDownInvariant
  <1>4. ASSUME NEW c \in Callers,
               BootstrapRefused(c) \/ EnableNetwork(c) \/ CtxDone(c) \/ BootstrapStep(c)
        PROVE  TearDownInvariant'
    <2>1. CASE Subscribe(c) \/ ReturnFromBootstrap(c)
      BY <1>3, <2>1 DEF Subscribe, ReturnFromBootstrap, Subscribers
    <2>2. CASE BootstrapRefused(c) \/ EnableNetwork(c) \/ CtxDone(c) \/ NoticeClosed(c)
      BY <1>0, <2>2 DEF BootstrapRefused, EnableNetwork, CtxDone, NoticeClosed
    <2>3. CASE ReadCache(c) \/ AskBackend(c) \/ TakeUpdate(c)
      BY <1>0, <2>3 DEF ReadCache, AskBackend, TakeUpdate, Receive
    <2> QED
      BY <1>4, <2>1, <2>2, <2>3 DEF BootstrapStep
  <1>5. ASSUME NEW w \in Watchers, Watch(w) \/ ReadUpdate(w) \/ Unsubscribe(w)
        PROVE  TearDownInvariant'
    <2>1. CASE Watch(w) \/ Unsubscribe(w)
      BY <1>3, <2>1 DEF Watch, Unsubscribe, Subscribers
    <2>2. CASE ReadUpdate(w)
      BY <1>0, <2>2 DEF ReadUpdate, Receive
    <2> QED
      BY <1>5, <2>1, <2>2
  <1>6. ASSUME NEW k \in Closers, CloseAgain(k) \/ CloseBegin(k) \/ CloseStep(k)
        PROVE  TearDownInvariant'
    <2> USE DEF CloseAt, TearDownInvariant, TypeOK
    <2>1. CASE CloseAgain(k)
      BY <2>1 DEF CloseAgain
    <2>2. CASE CloseBegin(k)
      BY <2>2 DEF CloseBegin, CloseInvariant, Closing
    <2>3. CASE CloseDone(k)
      BY <2>3 DEF CloseDone
    <2>4. CASE CloseSubsDone(k)
      BY <2>4 DEF CloseSubsDone
    <2>5. CASE CloseBackend(k)
      BY <2>5 DEF CloseBackend
    <2>6. ASSUME NEW s \in Subscribers, CloseSub(k, s) PROVE TearDownInvariant'
      BY <2>6 DEF CloseSub
    <2> QED
      BY <1>6, <2>1, <2>2, <2>3, <2>4, <2>5, <2>6 DEF CloseStep
  <1>7. CASE UNCHANGED vars
    BY <1>0, <1>7 DEF vars
  <1> QED
    BY <1>1, <1>2, <1>4, <1>5, <1>6, <1>7 DEF Next

\* A Close that has released the handle has told every waiter, however many
\* Close calls, subscriptions and fan-outs it ran into.
THEOREM CloseComplete == Spec => []CloseIsComplete
  <1>1. Init => TearDownInvariant
    BY DEF Init, TearDownInvariant, Subscribers
  <1>2. TypeOK /\ CloseInvariant /\ TearDownInvariant => CloseIsComplete
    BY DEF TypeOK, CloseInvariant, TearDownInvariant, CloseIsComplete
  <1> QED
    BY <1>1, <1>2, TypeCorrect, ClosingCorrect, TearDownStep, PTL DEF Spec

\* Receiving from a longer channel leaves its last element; appending sets it.
LEMMA LastOfTail ==
    ASSUME NEW S, NEW q \in Seq(S), Len(q) > 1
    PROVE  Tail(q) # <<>> /\ Tail(q)[Len(Tail(q))] = q[Len(q)]
  <1>1. Len(Tail(q)) = Len(q) - 1 /\ Len(q) \in Nat
    OBVIOUS
  <1>2. \A i \in 1..(Len(q) - 1) : Tail(q)[i] = q[i + 1]
    OBVIOUS
  <1>3. Len(q) - 1 \in 1..(Len(q) - 1) /\ (Len(q) - 1) + 1 = Len(q)
    BY <1>1
  <1>4. Tail(q) # <<>>
    <2>1. Tail(q) \in Seq(S) /\ Len(Tail(q)) > 0
      OBVIOUS
    <2>2. \A t \in Seq(S) : Len(t) > 0 => t # <<>>
      OBVIOUS
    <2> QED
      BY <2>1, <2>2, Zenon
  <1>5. Tail(q)[Len(q) - 1] = q[Len(q)]
    BY <1>2, <1>3
  <1> QED
    BY <1>1, <1>4, <1>5

LEMMA LastOfAppend ==
    ASSUME NEW S, NEW q \in Seq(S), NEW e \in S
    PROVE  Append(q, e) # <<>> /\ Append(q, e)[Len(Append(q, e))] = e
  OBVIOUS

\* Every action keeps what a waiting call can count on.
LEMMA WaiterStep ==
    /\ TypeOK /\ ChannelInvariant /\ FanInvariant /\ CacheInvariant /\ WaiterInvariant
    /\ [Next]_vars
    => CacheInvariant' /\ WaiterInvariant'
  <1> SUFFICES ASSUME TypeOK, ChannelInvariant, FanInvariant, CacheInvariant, WaiterInvariant,
                      [Next]_vars
               PROVE  CacheInvariant' /\ WaiterInvariant'
    OBVIOUS
  <1> USE DEF artiVars, queueVars, pumpVars, chanVars, closeVars, callVars
  \* A step of an actor that leaves the pump alone and takes nothing from a waiter.
  <1>0. ASSUME UNCHANGED pumpVars, closed => closed',
               \A c \in Callers :
                  /\ callPc'[c] \in {"status", "ask", "wait", "unsub"} /\ ~closed' =>
                        c \in subscribers'
                  /\ callPc'[c] \in {"ask", "wait"} =>
                        \/ callPc[c] \in {"ask", "wait"} /\ buf'[c] = buf[c]
                        \/ /\ callPc[c] \in {"ask", "wait"} /\ buf[c] # <<>>
                           /\ buf'[c] = Tail(buf[c]) /\ ~Head(buf[c]).ready
                        \/ callPc[c] = "status" /\ ~status.ready
        PROVE  CacheInvariant' /\ WaiterInvariant'
    <2>1. CacheInvariant'
      BY <1>0 DEF CacheInvariant
    <2>2. ASSUME NEW c \in Callers, callPc'[c] \in {"ask", "wait"}, ~closed',
                 pumpStatus.ready, pumpPc \notin {"cache", "lock"}
          PROVE  ReadyAtHand(c)'
      <3>1. callPc[c] \in {"ask", "wait"}
        BY <1>0, <2>2 DEF CacheInvariant
      <3>2. ReadyAtHand(c) /\ todo' = todo
        BY <1>0, <2>2, <3>1 DEF WaiterInvariant
      <3>3. CASE buf'[c] = buf[c]
        BY <3>2, <3>3 DEF ReadyAtHand
      <3>4. CASE buf[c] # <<>> /\ buf'[c] = Tail(buf[c]) /\ ~Head(buf[c]).ready
        <4>1. buf[c] \in Seq(Status)
          BY DEF TypeOK, Subscribers
        <4>2. CASE Len(buf[c]) = 1
          BY <3>2, <3>4, <4>1, <4>2 DEF ReadyAtHand
        <4>3. CASE Len(buf[c]) # 1
          <5>1. Len(buf[c]) > 1
            <6>1. Len(buf[c]) \in Nat /\ Len(buf[c]) # 0
              BY <3>4, <4>1
            <6>2. \A n \in Nat : n # 0 /\ n # 1 => n > 1
              OBVIOUS
            <6> QED
              BY <4>3, <6>1, <6>2
          <5>2. Tail(buf[c]) # <<>> /\ Tail(buf[c])[Len(Tail(buf[c]))] = buf[c][Len(buf[c])]
            BY <4>1, <5>1, LastOfTail
          <5> QED
            BY <3>2, <3>4, <5>2 DEF ReadyAtHand
        <4> QED
          BY <4>2, <4>3
      <3> QED
        BY <1>0, <2>2, <3>1, <3>3, <3>4
    <2> QED
      BY <1>0, <2>1, <2>2 DEF WaiterInvariant
  <1>f. ASSUME UNCHANGED <<pumpVars, subscribers, buf, callPc>>, closed => closed'
        PROVE  CacheInvariant' /\ WaiterInvariant'
    BY <1>f, <1>0 DEF WaiterInvariant
  <1>1. CASE ArtiChange \/ WatchStatus \/ EmitHs
    BY <1>f, <1>1 DEF ArtiChange, WatchStatus, EmitHs
  <1>2. CASE Pump
    <2> USE DEF CacheInvariant, WaiterInvariant
    <2>1. CASE PumpCheckDone \/ PumpNothing \/ PumpNext \/ PumpCache
      BY <2>1 DEF PumpCheckDone, PumpNothing, PumpNext, PumpCache, ReadyAtHand
    <2>2. CASE PumpLock
      BY <2>2 DEF PumpLock, ReadyAtHand
    <2>3. CASE FanDone
      BY <2>3 DEF FanDone, ReadyAtHand
    <2>4. ASSUME NEW s \in Subscribers, FanSend(s) \/ FanDrop(s) \/ FanRetry(s)
          PROVE  CacheInvariant' /\ WaiterInvariant'
      <3>1. /\ pumpPc \in {"fan", "drop", "retry"} /\ pumpPc' \in {"fan", "drop", "retry"}
            /\ UNCHANGED <<pumpStatus, status, callPc, closed, subscribers>>
        BY <2>4 DEF FanSend, FanDrop, FanRetry
      <3>2. ASSUME NEW c \in Callers, pumpStatus.ready, ReadyAtHand(c) PROVE ReadyAtHand(c)'
        <4>0. c \in Subscribers /\ buf[s] \in Seq(Status) /\ pumpStatus \in Status
          BY DEF Subscribers, TypeOK
        <4>1. CASE FanSend(s)
          <5>1. CASE Len(buf[s]) < StatusBuffer
            <6>1. UNCHANGED pumpStatus /\ buf' = [buf EXCEPT ![s] = Append(@, pumpStatus)] /\ todo' = todo \ {s}
              BY <4>1, <5>1 DEF FanSend
            <6>2. CASE c = s
              <7>1. buf'[c] = Append(buf[c], pumpStatus)
                BY <4>0, <6>1, <6>2 DEF TypeOK
              <7> QED
                BY <3>2, <4>0, <6>2, <7>1, LastOfAppend DEF ReadyAtHand
            <6>3. CASE c # s
              BY <3>2, <4>0, <6>1, <6>3 DEF ReadyAtHand, TypeOK
            <6> QED
              BY <6>2, <6>3
          <5>2. CASE ~(Len(buf[s]) < StatusBuffer)
            BY <3>2, <4>1, <5>2 DEF FanSend, ReadyAtHand
          <5> QED
            BY <5>1, <5>2
        <4>2. CASE FanDrop(s)
          <5>1. todo' = todo /\ s \in todo /\ buf' = [buf EXCEPT ![s] = IF @ = <<>> THEN @ ELSE Tail(@)]
            BY <4>2 DEF FanDrop, TypeOK
          <5> QED
            BY <3>2, <4>0, <5>1 DEF ReadyAtHand, TypeOK
        <4>3. CASE FanRetry(s)
          <5>1. buf' = [buf EXCEPT ![s] = Append(@, pumpStatus)] /\ todo' = todo \ {s}
            BY <4>0, <4>3 DEF FanRetry, FanInvariant, TypeOK
          <5>2. CASE c = s
            <6>1. buf'[c] = Append(buf[c], pumpStatus)
              BY <4>0, <5>1, <5>2 DEF TypeOK
            <6> QED
              BY <3>2, <4>0, <5>2, <6>1, LastOfAppend DEF ReadyAtHand
          <5>3. CASE c # s
            BY <3>2, <4>0, <5>1, <5>3 DEF ReadyAtHand, TypeOK
          <5> QED
            BY <5>2, <5>3
        <4> QED
          BY <2>4, <4>1, <4>2, <4>3
      <3> QED
        BY <3>1, <3>2
    <2> QED
      BY <1>2, <2>1, <2>2, <2>3, <2>4 DEF Pump
  <1>3. ASSUME NEW c \in Callers,
               BootstrapRefused(c) \/ EnableNetwork(c) \/ CtxDone(c) \/ BootstrapStep(c)
        PROVE  CacheInvariant' /\ WaiterInvariant'
    <2>a. UNCHANGED <<pumpVars, closed>>
      BY <1>3 DEF BootstrapRefused, EnableNetwork, CtxDone, BootstrapStep, Subscribe, ReadCache,
                  AskBackend, TakeUpdate, NoticeClosed, ReturnFromBootstrap
    <2>b. callPc \in [Callers -> {"idle", "subscribe", "status", "ask", "wait", "unsub", "returned"}]
          /\ buf \in [Subscribers -> Seq(Status)] /\ c \in Subscribers
      BY DEF TypeOK, Subscribers
    <2>c. \A d \in Callers \ {c} : callPc'[d] = callPc[d]
      BY <1>3, <2>b DEF BootstrapRefused, EnableNetwork, CtxDone, BootstrapStep, Subscribe, ReadCache,
                  AskBackend, TakeUpdate, NoticeClosed, ReturnFromBootstrap, Goes
    <2> HIDE DEF pumpVars
    <2>1. CASE BootstrapRefused(c) \/ EnableNetwork(c) \/ CtxDone(c) \/ NoticeClosed(c)
      <3>1. UNCHANGED <<buf, subscribers>> /\ callPc'[c] \in {"subscribe", "unsub", "returned"}
            /\ (callPc'[c] = "unsub" => callPc[c] = "wait")
        BY <2>1, <2>b DEF BootstrapRefused, EnableNetwork, CtxDone, NoticeClosed, Goes
      <3> QED
        BY <1>0, <2>a, <2>c, <3>1 DEF WaiterInvariant
    <2>2. CASE Subscribe(c)
      <3>1. callPc'[c] = "status" /\ \A d \in Callers \ {c} : buf'[d] = buf[d]
        BY <2>2, <2>b DEF Subscribe, StatusUpdates, Goes
      <3>2. subscribers \subseteq subscribers' /\ (~closed => c \in subscribers')
        BY <2>2 DEF Subscribe, StatusUpdates
      <3> QED
        BY <1>0, <2>a, <2>c, <3>1, <3>2 DEF WaiterInvariant
    <2>3. CASE ReadCache(c)
      <3>1. UNCHANGED <<buf, subscribers>> /\ callPc[c] = "status"
            /\ callPc'[c] \in {"unsub", "ask", "wait"}
            /\ (callPc'[c] \in {"ask", "wait"} => ~status.ready)
        BY <2>3, <2>b DEF ReadCache, Goes
      <3> QED
        BY <1>0, <2>a, <2>c, <3>1 DEF WaiterInvariant
    <2>4. CASE AskBackend(c)
      <3>1. UNCHANGED <<buf, subscribers>> /\ callPc[c] = "ask" /\ callPc'[c] \in {"unsub", "wait"}
        BY <2>4, <2>b DEF AskBackend, Goes
      <3> QED
        BY <1>0, <2>a, <2>c, <3>1 DEF WaiterInvariant
    <2>5. CASE TakeUpdate(c)
      <3>1. /\ UNCHANGED subscribers /\ callPc[c] = "wait" /\ callPc'[c] \in {"wait", "unsub"}
            /\ buf[c] # <<>> /\ buf'[c] = Tail(buf[c])
            /\ \A d \in Callers \ {c} : buf'[d] = buf[d]
        BY <2>5, <2>b DEF TakeUpdate, Receive, Goes, Subscribers
      <3>2. callPc'[c] = "wait" => ~Head(buf[c]).ready
        BY <2>5, <2>b DEF TakeUpdate, Goes
      <3> QED
        BY <1>0, <2>a, <2>c, <3>1, <3>2 DEF WaiterInvariant
    <2>6. CASE ReturnFromBootstrap(c)
      <3>1. UNCHANGED buf /\ callPc'[c] = "returned" /\ subscribers' = subscribers \ {c}
        BY <2>6, <2>b DEF ReturnFromBootstrap, unsubscribe, Goes
      <3> QED
        BY <1>0, <2>a, <2>c, <3>1 DEF WaiterInvariant
    <2> QED
      BY <1>3, <2>1, <2>2, <2>3, <2>4, <2>5, <2>6 DEF BootstrapStep
  <1>4. ASSUME NEW w \in Watchers, Watch(w) \/ ReadUpdate(w) \/ Unsubscribe(w)
        PROVE  CacheInvariant' /\ WaiterInvariant'
    <2>1. UNCHANGED <<pumpVars, closed, callPc>>
      BY <1>4 DEF Watch, ReadUpdate, Unsubscribe
    <2>2. \A c \in Callers : buf'[c] = buf[c] /\ (c \in subscribers => c \in subscribers')
      BY <1>4, ActorAssumption
         DEF Watch, ReadUpdate, Unsubscribe, StatusUpdates, unsubscribe, Receive, TypeOK, Subscribers
    <2> QED
      BY <1>0, <2>1, <2>2 DEF WaiterInvariant
  <1>5. ASSUME NEW k \in Closers, CloseAgain(k) \/ CloseBegin(k) \/ CloseStep(k)
        PROVE  CacheInvariant' /\ WaiterInvariant'
    <2>1. UNCHANGED <<pumpVars, buf, callPc>> /\ (closed => closed')
          /\ (closed' \/ subscribers' = subscribers)
      BY <1>5 DEF CloseAgain, CloseBegin, CloseStep, CloseDone, CloseSubsDone, CloseBackend, CloseSub
    <2> QED
      BY <1>0, <2>1 DEF WaiterInvariant
  <1>6. CASE UNCHANGED vars
    BY <1>f, <1>6 DEF vars
  <1> QED
    BY <1>1, <1>2, <1>3, <1>4, <1>5, <1>6 DEF Next

\* What a view reports is Ready, and 100%, exactly when the view is ready.
LEMMA ReportsReady ==
    \A v \in ArtiView :
        /\ Progress(v) \in 0..100
        /\ Progress(v) = 100 <=> v.ready
        /\ summarize(v).progress = Progress(v)
        /\ statusFrom(summarize(v)).ready <=> v.ready
  BY DEF ArtiView, Progress, summarize, statusFrom, Tag

\* An event offered to a queue with room is its new last element.
LEMMA OfferAppends ==
    ASSUME events \in Seq(Event), Room, NEW e \in Event, Offer(e)
    PROVE  /\ Len(events') = Len(events) + 1 /\ Len(events) \in Nat
           /\ \A i \in 1..Len(events) : events'[i] = events[i]
           /\ events'[Len(events) + 1] = e
  BY DEF Room, Offer

\* While the queue has room, every action keeps the pipeline in order.
LEMMA PipelineStep ==
    TypeOK /\ PipelineInvariant /\ Room /\ [Next]_vars => PipelineInvariant'
  <1> SUFFICES ASSUME TypeOK, PipelineInvariant, Room, [Next]_vars PROVE PipelineInvariant'
    OBVIOUS
  <1> USE DEF artiVars, queueVars, pumpVars, chanVars, closeVars, callVars
  <1>0. ASSUME UNCHANGED <<arti, fresh, last, events, pumpStatus>> PROVE PipelineInvariant'
    BY <1>0 DEF PipelineInvariant, QueuedStatus, NoneAfter
  <1>t. arti \in ArtiView /\ events \in Seq(Event) /\ Len(events) \in Nat /\ last \in 0..255
    BY DEF TypeOK
  <1>1. CASE ArtiChange
    <2>1. arti' \in ArtiView /\ fresh' = TRUE /\ (arti.ready => arti'.ready)
          /\ UNCHANGED <<last, events, pumpStatus>>
      BY <1>1, ViewsAssumption DEF ArtiChange
    <2> QED
      BY <2>1 DEF PipelineInvariant, QueuedStatus, NoneAfter
  <1>2. CASE WatchStatus
    <2>1. fresh' = FALSE /\ UNCHANGED <<arti, pumpStatus>>
      BY <1>2 DEF WatchStatus
    <2>2. CASE Progress(arti) = last
      <3>1. last # 255
        <4>1. Progress(arti) \in 0..100
          BY <1>t, ReportsReady
        <4> QED
          BY <2>2, <4>1
      <3>2. UNCHANGED <<last, events>>
        BY <1>2, <2>2 DEF WatchStatus
      <3> QED
        BY <2>1, <2>2, <3>1, <3>2 DEF PipelineInvariant, QueuedStatus, NoneAfter
    <2>3. CASE Progress(arti) # last
      <3> DEFINE e == summarize(arti)
      <3>1. /\ last' = Progress(arti) /\ Offer(e)
            /\ e \in Event /\ e # HsDesc
        BY <1>2, <1>t, <2>3, ReportTypes DEF WatchStatus
      <3>2. /\ last' \in 0..100 /\ (last' = 100 <=> arti.ready) /\ e.progress = last'
            /\ (statusFrom(e).ready <=> e.progress = 100)
        BY <1>t, <3>1, ReportsReady
      <3>3. last # 100
        BY <1>t, <2>3, ReportsReady DEF PipelineInvariant
      <3> HIDE DEF e
      <3> DEFINE n == Len(events)
      <3>4. Len(events') = n + 1 /\ n \in Nat /\ (\A i \in 1..n : events'[i] = events[i]) /\ events'[n + 1] = e
        BY <1>t, <3>1, OfferAppends
      <3>5. ASSUME NEW i \in 1..n, QueuedStatus(i) PROVE ~statusFrom(events[i]).ready
        <4>1. SUFFICES ASSUME NoneAfter(i), events[i].progress = 100 PROVE FALSE
          BY <3>5 DEF PipelineInvariant
        <4>2. ~NoneAfter(0) /\ last # 255
          BY <1>t, <3>5 DEF NoneAfter, PipelineInvariant
        <4>3. PICK j \in 1..n : QueuedStatus(j) /\ NoneAfter(j) /\ events[j].progress = last
          BY <4>2 DEF PipelineInvariant
        <4>4. j = i
          BY <1>t, <3>5, <4>1, <4>3 DEF NoneAfter
        <4> QED
          BY <3>3, <4>1, <4>3, <4>4
      <3>6. ~pumpStatus.ready
        <4>1. SUFFICES ASSUME NoneAfter(0), pumpStatus.progress = 100 PROVE FALSE
          BY DEF PipelineInvariant
        <4>2. \A j \in 1..n : ~QueuedStatus(j)
          BY <1>t, <4>1 DEF NoneAfter
        <4> QED
          BY <3>3, <4>1, <4>2 DEF PipelineInvariant
      <3>m. PICK m \in Nat : m = n + 1
        BY <3>4
      <3>7. QueuedStatus(m)' /\ NoneAfter(m)' /\ m \in 1..Len(events')
        <4>1. m \in 1..Len(events') /\ \A j \in 1..Len(events') : ~(j > m)
          BY <3>4, <3>m
        <4>2. events'[m] # HsDesc
          BY <3>1, <3>4, <3>m
        <4> QED
          BY <4>1, <4>2 DEF QueuedStatus, NoneAfter
      <3>8. ASSUME NEW i \in 1..Len(events'), QueuedStatus(i)'
            PROVE  /\ statusFrom(events'[i]).ready <=> events'[i].progress = 100
                   /\ statusFrom(events'[i]).ready => NoneAfter(i)'
        <4>1. CASE i = m
          <5>1. events'[i] = e /\ NoneAfter(i)'
            BY <3>4, <3>7, <3>m, <4>1
          <5> QED
            BY <3>2, <5>1
        <4>2. CASE i \in 1..n
          <5>1. QueuedStatus(i) /\ events'[i] = events[i]
            BY <3>4, <3>8, <4>2 DEF QueuedStatus
          <5>2. ~statusFrom(events'[i]).ready
            BY <3>5, <4>2, <5>1
          <5>3. events'[i].progress # 100
            BY <4>2, <5>1, <5>2 DEF PipelineInvariant
          <5> QED
            BY <5>2, <5>3
        <4> QED
          BY <3>4, <3>m, <4>1, <4>2
      <3>9. pumpStatus.ready <=> pumpStatus.progress = 100
        BY DEF PipelineInvariant
      <3>10. events'[m].progress = last'
        BY <3>2, <3>4, <3>m
      <3> HIDE DEF n
      <3> QED
        <4>1. (~fresh' => last' = Progress(arti')) /\ (last' = 100 => arti'.ready) /\ last' # 255
          BY <2>1, <3>1, <3>2
        <4>2. \E i \in 1..Len(events') :
                 QueuedStatus(i)' /\ NoneAfter(i)' /\ events'[i].progress = last'
          BY <3>7, <3>10
        <4> QED
          BY <2>1, <3>6, <3>8, <3>9, <4>1, <4>2 DEF PipelineInvariant
    <2> QED
      BY <2>2, <2>3
  <1>3. CASE EmitHs
    <2> DEFINE n == Len(events)
    <2>1. Offer(HsDesc) /\ UNCHANGED <<arti, fresh, last, pumpStatus>>
      BY <1>3 DEF EmitHs
    <2>2. Len(events') = n + 1 /\ n \in Nat /\ (\A i \in 1..n : events'[i] = events[i]) /\ events'[n + 1] = HsDesc
      BY <1>t, <2>1, ReportTypes, OfferAppends
    <2>3. \A i : QueuedStatus(i)' <=> QueuedStatus(i)
      BY <2>2 DEF QueuedStatus
    <2>4. \A i : QueuedStatus(i) => i \in 1..n /\ i \in 1..Len(events') /\ events'[i] = events[i]
      BY <2>2 DEF QueuedStatus
    <2>5. \A i : NoneAfter(i) => NoneAfter(i)'
      BY <2>3, <2>4 DEF NoneAfter
    <2> QED
      BY <2>1, <2>3, <2>4, <2>5 DEF PipelineInvariant
  <1>4. CASE Pump
    <2>1. CASE PumpCheckDone \/ PumpNothing \/ PumpCache \/ PumpLock \/ FanDone
      BY <1>0, <2>1 DEF PumpCheckDone, PumpNothing, PumpCache, PumpLock, FanDone
    <2>2. CASE PumpNext
      <3> DEFINE n == Len(events)
      <3>1. /\ events # <<>> /\ events' = Tail(events) /\ UNCHANGED <<arti, fresh, last>>
            /\ IF events[1] = HsDesc THEN UNCHANGED pumpStatus
                                     ELSE pumpStatus' = statusFrom(events[1])
        BY <2>2, <1>t DEF PumpNext
      <3>2. /\ n \in Nat /\ n > 0 /\ Len(events') = n - 1
            /\ \A i \in 1..(n - 1) : events'[i] = events[i + 1]
        BY <1>t, <3>1
      <3>3. \A i \in 1..Len(events') : i + 1 \in 1..n /\ (QueuedStatus(i)' <=> QueuedStatus(i + 1))
        BY <3>2 DEF QueuedStatus
      <3>4. ASSUME NEW j \in 1..n, j # 1
            PROVE  /\ j - 1 \in 1..Len(events') /\ (QueuedStatus(j - 1)' <=> QueuedStatus(j))
                   /\ events'[j - 1] = events[j]
        BY <3>2, <3>4 DEF QueuedStatus
      <3>5. 1 \in 1..n /\ (QueuedStatus(1) <=> events[1] # HsDesc)
        BY <3>2 DEF QueuedStatus
      <3>6. statusFrom(events[1]).progress = events[1].progress
        BY DEF statusFrom
      <3>7. \A i \in Nat : NoneAfter(i + 1) => NoneAfter(i)'
        BY <3>2, <3>3 DEF NoneAfter
      <3>8. NoneAfter(0) => NoneAfter(1) /\ events[1] = HsDesc
        BY <3>2, <3>5 DEF NoneAfter
      <3>9. NoneAfter(1) => NoneAfter(0)'
        BY <3>7
      <3>10. ASSUME NEW i \in 1..Len(events'), QueuedStatus(i)'
            PROVE  /\ statusFrom(events'[i]).ready <=> events'[i].progress = 100
                   /\ statusFrom(events'[i]).ready => NoneAfter(i)'
        <4>1. i \in Nat /\ i + 1 \in 1..n /\ QueuedStatus(i + 1) /\ events'[i] = events[i + 1]
          BY <3>2, <3>3, <3>10
        <4> QED
          BY <3>7, <4>1 DEF PipelineInvariant
      <3>11. ASSUME NEW i \in 1..n, i # 1, QueuedStatus(i), NoneAfter(i), events[i].progress = last
             PROVE  \E j \in 1..Len(events') :
                       QueuedStatus(j)' /\ NoneAfter(j)' /\ events'[j].progress = last
        <4>1. i - 1 \in Nat /\ (i - 1) + 1 = i
          BY <3>11
        <4>2. NoneAfter(i - 1)'
          BY <3>7, <3>11, <4>1
        <4> QED
          BY <3>4, <3>11, <4>2
      <3> HIDE DEF n
      <3>12. CASE events[1] = HsDesc
        <4>1. \A i \in 1..n : QueuedStatus(i) => i # 1
          BY <3>5, <3>12
        <4>2. pumpStatus' = pumpStatus
          BY <3>1, <3>12
        <4>3. last = 255 \/ (pumpStatus.progress = last /\ NoneAfter(0)')
              \/ \E j \in 1..Len(events') :
                    QueuedStatus(j)' /\ NoneAfter(j)' /\ events'[j].progress = last
          BY <3>8, <3>9, <3>11, <4>1 DEF PipelineInvariant, n
        <4> QED
          BY <3>1, <3>8, <3>9, <3>10, <4>2, <4>3 DEF PipelineInvariant
      <3>13. CASE events[1] # HsDesc
        <4>1. pumpStatus' = statusFrom(events[1]) /\ QueuedStatus(1) /\ last # 255 /\ ~NoneAfter(0)
          BY <3>1, <3>5, <3>8, <3>13 DEF PipelineInvariant
        <4>2. (pumpStatus'.ready <=> pumpStatus'.progress = 100) /\ (pumpStatus'.ready => NoneAfter(0)')
          BY <3>5, <3>6, <3>9, <4>1 DEF PipelineInvariant, n
        <4>3. (pumpStatus'.progress = last /\ NoneAfter(0)')
              \/ \E j \in 1..Len(events') :
                    QueuedStatus(j)' /\ NoneAfter(j)' /\ events'[j].progress = last
          BY <3>6, <3>9, <3>11, <4>1 DEF PipelineInvariant, n
        <4> QED
          BY <3>1, <3>10, <4>1, <4>2, <4>3 DEF PipelineInvariant
      <3> QED
        BY <3>12, <3>13
    <2>3. ASSUME NEW s \in Subscribers, FanSend(s) \/ FanDrop(s) \/ FanRetry(s)
          PROVE  PipelineInvariant'
      BY <1>0, <2>3 DEF FanSend, FanDrop, FanRetry
    <2> QED
      BY <1>4, <2>1, <2>2, <2>3 DEF Pump
  <1>5. ASSUME NEW c \in Callers,
               BootstrapRefused(c) \/ EnableNetwork(c) \/ CtxDone(c) \/ BootstrapStep(c)
        PROVE  PipelineInvariant'
    BY <1>0, <1>5 DEF BootstrapRefused, EnableNetwork, CtxDone, BootstrapStep, Subscribe, ReadCache,
                      AskBackend, TakeUpdate, NoticeClosed, ReturnFromBootstrap
  <1>6. ASSUME NEW w \in Watchers, Watch(w) \/ ReadUpdate(w) \/ Unsubscribe(w)
        PROVE  PipelineInvariant'
    BY <1>0, <1>6 DEF Watch, ReadUpdate, Unsubscribe
  <1>7. ASSUME NEW k \in Closers, CloseAgain(k) \/ CloseBegin(k) \/ CloseStep(k)
        PROVE  PipelineInvariant'
    BY <1>0, <1>7 DEF CloseAgain, CloseBegin, CloseStep, CloseDone, CloseSubsDone, CloseBackend,
                      CloseSub
  <1>8. CASE UNCHANGED vars
    BY <1>0, <1>8 DEF vars
  <1> QED
    BY <1>1, <1>2, <1>3, <1>4, <1>5, <1>6, <1>7, <1>8 DEF Next

\* The invariants of the pipeline and of its waiters, together.
LEMMA PipelineInit ==
    Init => PipelineInvariant /\ CacheInvariant /\ WaiterInvariant /\ FanInvariant
  <1> SUFFICES ASSUME Init PROVE PipelineInvariant /\ CacheInvariant /\ WaiterInvariant /\ FanInvariant
    OBVIOUS
  <1>1. Len(events) = 0 /\ \A s \in Subscribers : buf[s] = <<>>
    BY DEF Init
  <1>2. \A i : ~QueuedStatus(i)
    BY <1>1 DEF QueuedStatus
  <1>3. \A i : NoneAfter(i)
    BY <1>2 DEF NoneAfter
  <1>4. PipelineInvariant
    <2>1. fresh /\ last = 255 /\ pumpStatus.ready = FALSE /\ pumpStatus.progress = 0
      BY DEF Init, NoStatus
    <2> QED
      BY <1>2, <1>3, <2>1 DEF PipelineInvariant
  <1>5. CacheInvariant /\ WaiterInvariant /\ FanInvariant
    BY DEF Init, CacheInvariant, WaiterInvariant, FanInvariant, NewestIsDelivered
  <1> QED
    BY <1>4, <1>5

\* While nothing is dropped, the cache agrees with Arti whenever there is nothing
\* on its way to it, for every sequence of views.
THEOREM CacheCaughtUp == Spec /\ []Room => []CacheCatchesUp
  <1>1. TypeOK /\ PipelineInvariant /\ CacheInvariant => CacheCatchesUp
    <2> SUFFICES ASSUME TypeOK, PipelineInvariant, CacheInvariant, ~fresh, pumpPc # "cache",
                        NoneAfter(0)
                 PROVE  status.progress = Progress(arti) /\ status.ready = arti.ready
      BY DEF CacheCatchesUp
    <2>1. arti \in ArtiView /\ status \in Status /\ Len(events) \in Nat
      BY DEF TypeOK
    <2>2. last = Progress(arti) /\ last # 255 /\ status = pumpStatus
      BY DEF PipelineInvariant, CacheInvariant
    <2>3. \A i \in 1..Len(events) : ~QueuedStatus(i)
      BY <2>1 DEF NoneAfter
    <2>4. status.progress = last /\ (status.ready <=> status.progress = 100)
      BY <2>2, <2>3 DEF PipelineInvariant
    <2>5. status.ready \in BOOLEAN /\ arti.ready \in BOOLEAN /\ (Progress(arti) = 100 <=> arti.ready)
      BY <2>1, ReportsReady DEF Status, ArtiView
    <2> QED
      BY <2>2, <2>4, <2>5
  <1> QED
    BY <1>1, PipelineInit, TypeCorrect, ClosingCorrect, FanStep, WaiterStep, PipelineStep, PTL DEF Spec

\* No wake-up is lost, for every number of callers and every interleaving of
\* subscriptions, reads of the cache and fan-outs.
THEOREM NewsReaches == Spec /\ []Room => []NewsReachesCallers
  <1>1. TypeOK /\ PipelineInvariant /\ WaiterInvariant => NewsReachesCallers
    <2> SUFFICES ASSUME TypeOK, PipelineInvariant, WaiterInvariant,
                        NEW c \in Callers, callPc[c] = "wait", arti.ready, ~closed,
                        ~(fresh /\ last # 100),
                        \A i \in 1..Len(events) : events[i] # HsDesc => ~statusFrom(events[i]).ready
                 PROVE  pumpStatus.ready /\ (pumpPc \in {"cache", "lock"} \/ ReadyAtHand(c))
      BY DEF NewsReachesCallers
    <2>1. last = 100
      BY ReportsReady DEF PipelineInvariant, TypeOK
    <2>2. \A i \in 1..Len(events) : QueuedStatus(i) => events[i].progress # 100
      BY DEF PipelineInvariant, QueuedStatus
    <2>3. pumpStatus.ready
      BY <2>1, <2>2 DEF PipelineInvariant
    <2> QED
      BY <2>3 DEF WaiterInvariant
  <1> QED
    BY <1>1, PipelineInit, TypeCorrect, ClosingCorrect, FanStep, WaiterStep, PipelineStep, PTL DEF Spec

\* The hypothesis of the last two theorems holds of every run in which fewer
\* events are caused than the queue has places.
THEOREM RoomSuffices ==
    ASSUME MaxChanges + MaxHs + 1 < EventCap
    PROVE  Spec => []Room
  <1> USE DEF artiVars, queueVars, pumpVars, chanVars, closeVars, callVars
  <1>1. Init => RoomInvariant
    BY DEF Init, RoomInvariant
  <1>2. TypeOK /\ RoomInvariant /\ [Next]_vars => RoomInvariant'
    <2> SUFFICES ASSUME TypeOK, RoomInvariant, [Next]_vars PROVE RoomInvariant'
      OBVIOUS
    <2>0. ASSUME UNCHANGED <<fresh, changes, events, hsSent>> PROVE RoomInvariant'
      BY <2>0 DEF RoomInvariant
    <2>t. /\ events \in Seq(Event) /\ Len(events) \in Nat
          /\ changes \in Int /\ hsSent \in Int /\ fresh \in BOOLEAN
      BY BoundAssumption DEF TypeOK
    <2>o. ASSUME NEW e \in Event, Offer(e) PROVE Len(events') \in Int /\ Len(events') <= Len(events) + 1
      BY <2>o, <2>t DEF Offer
    <2>1. CASE ArtiChange
      BY <2>1, <2>t DEF ArtiChange, RoomInvariant
    <2>2. CASE WatchStatus
      <3>1. summarize(arti) \in Event
        BY ReportTypes DEF TypeOK
      <3>2. Len(events') \in Int /\ Len(events') <= Len(events) + 1
        BY <2>2, <2>o, <2>t, <3>1 DEF WatchStatus
      <3>3. fresh = TRUE /\ fresh' = FALSE /\ UNCHANGED <<changes, hsSent>>
        BY <2>2, <2>t DEF WatchStatus
      <3> QED
        BY <2>t, <3>2, <3>3 DEF RoomInvariant
    <2>3. CASE EmitHs
      <3>1. Len(events') \in Int /\ Len(events') <= Len(events) + 1
        BY <2>3, <2>o, ReportTypes DEF EmitHs
      <3> QED
        BY <2>3, <2>t, <3>1 DEF EmitHs, RoomInvariant
    <2>4. CASE Pump
      <3>1. CASE PumpNext
        <4>1. Len(events') <= Len(events) /\ Len(events') \in Int
          BY <2>t, <3>1 DEF PumpNext
        <4> QED
          BY <2>t, <3>1, <4>1 DEF PumpNext, RoomInvariant
      <3>2. CASE PumpCheckDone \/ PumpNothing \/ PumpCache \/ PumpLock \/ FanDone
        BY <2>0, <3>2 DEF PumpCheckDone, PumpNothing, PumpCache, PumpLock, FanDone
      <3>3. ASSUME NEW s \in Subscribers, FanSend(s) \/ FanDrop(s) \/ FanRetry(s)
            PROVE  RoomInvariant'
        BY <2>0, <3>3 DEF FanSend, FanDrop, FanRetry
      <3> QED
        BY <2>4, <3>1, <3>2, <3>3 DEF Pump
    <2>5. ASSUME NEW c \in Callers,
                 BootstrapRefused(c) \/ EnableNetwork(c) \/ CtxDone(c) \/ BootstrapStep(c)
          PROVE  RoomInvariant'
      BY <2>0, <2>5 DEF BootstrapRefused, EnableNetwork, CtxDone, BootstrapStep, Subscribe, ReadCache,
                        AskBackend, TakeUpdate, NoticeClosed, ReturnFromBootstrap
    <2>6. ASSUME NEW w \in Watchers, Watch(w) \/ ReadUpdate(w) \/ Unsubscribe(w)
          PROVE  RoomInvariant'
      BY <2>0, <2>6 DEF Watch, ReadUpdate, Unsubscribe
    <2>7. ASSUME NEW k \in Closers, CloseAgain(k) \/ CloseBegin(k) \/ CloseStep(k)
          PROVE  RoomInvariant'
      BY <2>0, <2>7 DEF CloseAgain, CloseBegin, CloseStep, CloseDone, CloseSubsDone, CloseBackend,
                        CloseSub
    <2>8. CASE UNCHANGED vars
      BY <2>0, <2>8 DEF vars
    <2> QED
      BY <2>1, <2>2, <2>3, <2>4, <2>5, <2>6, <2>7, <2>8 DEF Next
  <1>3. TypeOK /\ RoomInvariant => Room
    <2> SUFFICES ASSUME TypeOK, RoomInvariant PROVE Room
      OBVIOUS
    <2>1. Len(events) \in Nat /\ changes \in 0..MaxChanges /\ hsSent \in 0..MaxHs
      BY DEF TypeOK
    <2> QED
      BY <2>1, BoundAssumption, CapAssumption DEF RoomInvariant, Room
  <1> QED
    BY <1>1, <1>2, <1>3, TypeCorrect, PTL DEF Spec

=============================================================================
