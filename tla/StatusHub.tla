------------------------------ MODULE StatusHub ------------------------------
(***************************************************************************)
(* The status pipeline of a client: Arti's bootstrap status (a watch       *)
(* stream that keeps only the newest view), the watcher task that turns it *)
(* into events, the bounded event queue, the Go pump goroutine that caches *)
(* each status and fans it out to subscriber channels, and the goroutines  *)
(* that meet there: Bootstrap callers, readers of StatusUpdates, and       *)
(* callers of Close.                                                       *)
(*                                                                         *)
(* Client.mu is held across several steps only by the pump's fan-out, so   *)
(* the lock is read off the pump's program counter (MuFree); every other   *)
(* critical section is one action.                                         *)
(***************************************************************************)
EXTENDS Integers, Sequences, FiniteSets

CONSTANTS Callers,       \* goroutines, each making one Bootstrap call
          Watchers,      \* goroutines reading a StatusUpdates channel
          Closers,       \* goroutines calling Close
          Views,         \* the Arti views that can be reported
          Faults,        \* the blockages that are real faults
          EventCap,      \* capacity of the event queue (256 in the code)
          StatusBuffer,  \* capacity of a subscriber channel (8 in the code)
          MaxChanges,    \* bound: how often Arti's view changes
          MaxHs          \* bound: how many onion-service events are emitted

Subscribers == Callers \union Watchers

\* What arti_client::status::BootstrapStatus says: the heuristic fraction as a
\* percentage, what blocks progress, and whether traffic can be carried.
ArtiView == [frac : 0..100, blockage : {"none", "disabled"} \union Faults, ready : BOOLEAN]

Disabled == [frac |-> 0, blockage |-> "disabled", ready |-> FALSE]

ASSUME ViewsAssumption == Views \subseteq ArtiView
ASSUME FaultsAssumption == Faults \subseteq STRING \ {"none", "disabled", ""}
ASSUME CapAssumption == EventCap \in Nat \ {0} /\ StatusBuffer \in Nat \ {0}
ASSUME BoundAssumption == MaxChanges \in Nat /\ MaxHs \in Nat
ASSUME ActorAssumption == Callers \intersect Watchers = {}

VARIABLES
    arti,         \* Arti's current view
    changes,      \* how often it changed
    netEnabled,   \* Client.net_enabled
    fresh,        \* the watch stream holds a view the watcher has not seen
    last,         \* the watcher's last progress, u8::MAX before the first
    events,       \* the bounded event queue
    hsSent,       \* onion-service events emitted so far
    pumpPc,       \* where the pump goroutine is
    pumpStatus,   \* the status the pump is publishing
    todo,         \* subscriber channels the fan-out has still to visit
    full,         \* the channel whose oldest status is being dropped
    status,       \* Client.status, the cache
    subscribers,  \* Client.subscribers
    buf,          \* buf[s]: the buffered statuses of s's channel
    isOpen,       \* isOpen[s]: s's channel exists and is not closed
    closed,       \* Client.closed
    doneClosed,   \* Client.done is closed
    toClose,      \* channels Close took and has still to close
    freed,        \* the backend handle is released
    callPc,       \* where each Bootstrap call is
    result,       \* what each Bootstrap call is going to return
    watchPc,      \* where each StatusUpdates reader is
    closePc       \* where each Close call is

artiVars  == <<arti, changes, netEnabled, fresh, last>>
queueVars == <<events, hsSent>>
pumpVars  == <<pumpPc, pumpStatus, todo, full, status>>
chanVars  == <<subscribers, buf, isOpen>>
closeVars == <<closed, doneClosed, toClose, freed, closePc>>
callVars  == <<callPc, result, watchPc>>

vars == <<artiVars, queueVars, pumpVars, chanVars, closeVars, callVars>>
-----------------------------------------------------------------------------
(* summarize: from Arti's view to what is reported.                        *)

\* Mutant: progress from the fraction alone.
ProgressOfFrac(v) == IF v.frac < 99 THEN v.frac ELSE 99

Progress(v) == IF v.ready THEN 100 ELSE IF v.frac < 99 THEN v.frac ELSE 99

\* Mutant: done when the heuristic fraction reaches 1.0.
TagOfFrac(v) == IF v.frac = 100 THEN "done" ELSE "loading_status"

Tag(v) == IF v.ready THEN "done"
          ELSE IF v.blockage = "disabled" THEN "starting"
          ELSE IF v.blockage \in Faults THEN "problem"
          ELSE IF v.frac > 0 THEN "loading_status" ELSE "starting"

Summary(v) == IF Tag(v) = "problem" THEN v.blockage ELSE Tag(v)

summarize(v) == [type |-> "status_client", progress |-> Progress(v),
                 tag |-> Tag(v), summary |-> Summary(v)]

\* An onion-service event; the pump hands it to OnionService (module Onion).
HsDesc == [type |-> "hs_desc"]

problemOf(e) == IF e.tag = "problem" THEN e.summary ELSE ""

\* The Status pumpEvents makes of an event; statusFrom makes the same of a
\* bootstrap snapshot, whose liveness is "up" exactly when its tag is "done".
statusFrom(e) == [progress |-> e.progress, ready |-> e.tag = "done",
                  summary |-> e.summary, problem |-> problemOf(e)]

\* The zero Status, which the cache holds before the first event.
NoStatus == [progress |-> 0, ready |-> FALSE, summary |-> "", problem |-> ""]

Tags      == {"done", "starting", "problem", "loading_status"}
Summaries == Tags \union Faults
Event     == [type : {"status_client"}, progress : 0..100, tag : Tags, summary : Summaries]
               \union {HsDesc}
Status    == [progress : 0..100, ready : BOOLEAN, summary : Summaries \union {""},
              problem : Summaries \union {""}]

\* Sender.send: an event that finds the queue full is dropped.
Offer(e) == events' = IF Len(events) < EventCap THEN Append(events, e) ELSE events
-----------------------------------------------------------------------------
TypeOK ==
    /\ arti \in ArtiView /\ changes \in 0..MaxChanges
    /\ netEnabled \in BOOLEAN /\ fresh \in BOOLEAN /\ last \in 0..255
    /\ events \in Seq(Event) /\ Len(events) <= EventCap /\ hsSent \in 0..MaxHs
    /\ pumpPc \in {"check", "next", "cache", "lock", "fan", "drop", "retry", "stopped"}
    /\ pumpStatus \in Status /\ status \in Status
    /\ todo \subseteq Subscribers /\ full \subseteq todo
    /\ pumpPc \notin {"drop", "retry"} => full = {}
    /\ \A r, s \in full : r = s
    /\ subscribers \subseteq Subscribers /\ toClose \subseteq Subscribers
    /\ buf \in [Subscribers -> Seq(Status)]
    /\ \A s \in Subscribers : Len(buf[s]) <= StatusBuffer
    /\ isOpen \in [Subscribers -> BOOLEAN]
    /\ closed \in BOOLEAN /\ doneClosed \in BOOLEAN /\ freed \in BOOLEAN
    /\ callPc \in [Callers -> {"idle", "subscribe", "status", "ask", "wait", "unsub", "returned"}]
    /\ result \in [Callers -> {"none", "ok", "closed", "cancelled"}]
    /\ watchPc \in [Watchers -> {"idle", "reading", "finished"}]
    /\ closePc \in [Closers -> {"idle", "done", "subs", "backend", "returned"}]

Init ==
    /\ arti = Disabled /\ changes = 0 /\ netEnabled = FALSE
    /\ fresh = TRUE /\ last = 255
    /\ events = <<>> /\ hsSent = 0
    /\ pumpPc = "check" /\ pumpStatus = NoStatus /\ todo = {} /\ full = {}
    /\ status = NoStatus
    /\ subscribers = {}
    /\ buf = [s \in Subscribers |-> <<>>]
    /\ isOpen = [s \in Subscribers |-> FALSE]
    /\ closed = FALSE /\ doneClosed = FALSE /\ toClose = {} /\ freed = FALSE
    /\ callPc = [c \in Callers |-> "idle"] /\ result = [c \in Callers |-> "none"]
    /\ watchPc = [w \in Watchers |-> "idle"]
    /\ closePc = [k \in Closers |-> "idle"]

\* Client.mu is held while the pump fans a status out.
MuFree == pumpPc \notin {"fan", "drop", "retry"}
-----------------------------------------------------------------------------
(* Arti and the tasks of the Rust client. They end with the runtime.       *)

\* Arti's view changes once the network is enabled; readiness never retracts.
ArtiChange ==
    /\ ~freed /\ netEnabled /\ changes < MaxChanges
    /\ \E v \in Views : /\ v # arti
                        /\ arti.ready => v.ready
                        /\ arti' = v
    /\ changes' = changes + 1
    /\ fresh' = TRUE
    /\ UNCHANGED <<netEnabled, last, queueVars, pumpVars, chanVars, closeVars, callVars>>

\* Mutant: an event only when the progress advances.
WatchForward ==
    /\ ~freed /\ fresh
    /\ fresh' = FALSE
    /\ IF last = 255 \/ Progress(arti) > last
         THEN last' = Progress(arti) /\ Offer(summarize(arti))
         ELSE UNCHANGED <<last, events>>
    /\ UNCHANGED <<arti, changes, netEnabled, hsSent, pumpVars, chanVars, closeVars, callVars>>

\* spawn_bootstrap_watcher: an event only when the progress differs.
WatchStatus ==
    /\ ~freed /\ fresh
    /\ fresh' = FALSE
    /\ IF Progress(arti) # last
         THEN last' = Progress(arti) /\ Offer(summarize(arti))
         ELSE UNCHANGED <<last, events>>
    /\ UNCHANGED <<arti, changes, netEnabled, hsSent, pumpVars, chanVars, closeVars, callVars>>

\* An onion service reports on the same queue; launching one needs a
\* bootstrapped client.
EmitHs ==
    /\ ~freed /\ arti.ready /\ hsSent < MaxHs
    /\ hsSent' = hsSent + 1
    /\ Offer(HsDesc)
    /\ UNCHANGED <<artiVars, pumpVars, chanVars, closeVars, callVars>>
-----------------------------------------------------------------------------
(* pumpEvents and publishStatus.                                           *)

PumpCheckDone ==
    /\ pumpPc = "check"
    /\ pumpPc' = IF doneClosed THEN "stopped" ELSE "next"
    /\ UNCHANGED <<artiVars, queueVars, pumpStatus, todo, full, status, chanVars, closeVars, callVars>>

\* NextEvent times out, or the handle is gone: the pump goes round again.
PumpNothing ==
    /\ pumpPc = "next" /\ (freed \/ events = <<>>)
    /\ pumpPc' = "check"
    /\ UNCHANGED <<artiVars, queueVars, pumpStatus, todo, full, status, chanVars, closeVars, callVars>>

PumpNext ==
    /\ pumpPc = "next" /\ ~freed /\ events # <<>>
    /\ events' = Tail(events)
    /\ IF Head(events) = HsDesc
         THEN pumpPc' = "check" /\ UNCHANGED pumpStatus
         ELSE pumpPc' = "cache" /\ pumpStatus' = statusFrom(Head(events))
    /\ UNCHANGED <<artiVars, hsSent, todo, full, status, chanVars, closeVars, callVars>>

PumpCache ==
    /\ pumpPc = "cache"
    /\ status' = pumpStatus
    /\ pumpPc' = "lock"
    /\ UNCHANGED <<artiVars, queueVars, pumpStatus, todo, full, chanVars, closeVars, callVars>>

PumpLock ==
    /\ pumpPc = "lock"
    /\ pumpPc' = "fan"
    /\ todo' = subscribers
    /\ UNCHANGED <<artiVars, queueVars, pumpStatus, full, status, chanVars, closeVars, callVars>>

\* The first select of publishStatus: send, or find the channel full.
FanSend(s) ==
    /\ pumpPc = "fan" /\ s \in todo
    /\ IF Len(buf[s]) < StatusBuffer
         THEN /\ buf' = [buf EXCEPT ![s] = Append(@, pumpStatus)]
              /\ todo' = todo \ {s}
              /\ UNCHANGED <<pumpPc, full>>
         ELSE pumpPc' = "drop" /\ full' = {s} /\ UNCHANGED <<buf, todo>>
    /\ UNCHANGED <<artiVars, queueVars, pumpStatus, status, subscribers, isOpen, closeVars, callVars>>

\* Mutant: a reader that is behind keeps what it has.
KeepOldest(s) ==
    /\ pumpPc = "drop" /\ s \in full
    /\ pumpPc' = "retry"
    /\ UNCHANGED <<artiVars, queueVars, pumpStatus, todo, full, status, chanVars, closeVars, callVars>>

\* The second select: drop the oldest, unless the reader emptied the channel.
FanDrop(s) ==
    /\ pumpPc = "drop" /\ s \in full
    /\ buf' = [buf EXCEPT ![s] = IF @ = <<>> THEN @ ELSE Tail(@)]
    /\ pumpPc' = "retry"
    /\ UNCHANGED <<artiVars, queueVars, pumpStatus, todo, full, status, subscribers, isOpen,
                   closeVars, callVars>>

\* The third select: send again, or give up.
FanRetry(s) ==
    /\ pumpPc = "retry" /\ s \in full
    /\ buf' = [buf EXCEPT ![s] = IF Len(@) < StatusBuffer THEN Append(@, pumpStatus) ELSE @]
    /\ todo' = todo \ {s} /\ full' = {}
    /\ pumpPc' = "fan"
    /\ UNCHANGED <<artiVars, queueVars, pumpStatus, status, subscribers, isOpen, closeVars, callVars>>

FanDone ==
    /\ pumpPc = "fan" /\ todo = {}
    /\ pumpPc' = "check"
    /\ UNCHANGED <<artiVars, queueVars, pumpStatus, todo, full, status, chanVars, closeVars, callVars>>

Pump == \/ PumpCheckDone \/ PumpNothing \/ PumpNext \/ PumpCache \/ PumpLock \/ FanDone
        \/ \E s \in Subscribers : FanSend(s) \/ FanDrop(s) \/ FanRetry(s)
-----------------------------------------------------------------------------
(* StatusUpdates and unsubscribe, on the channel of s.                     *)

StatusUpdates(s) ==
    /\ MuFree
    /\ buf' = [buf EXCEPT ![s] = <<>>]
    /\ isOpen' = [isOpen EXCEPT ![s] = ~closed]
    /\ subscribers' = IF closed THEN subscribers ELSE subscribers \union {s}

\* A channel that Close already took is not found, and not closed again.
unsubscribe(s) ==
    /\ MuFree
    /\ subscribers' = subscribers \ {s}
    /\ isOpen' = [isOpen EXCEPT ![s] = @ /\ s \notin subscribers]
    /\ UNCHANGED buf

Receive(s) == buf[s] # <<>> /\ buf' = [buf EXCEPT ![s] = Tail(@)] /\ UNCHANGED <<subscribers, isOpen>>

\* A receive from a closed channel: what is buffered comes first.
SeesClosed(s) == buf[s] = <<>> /\ ~isOpen[s]
-----------------------------------------------------------------------------
(* A Bootstrap call.                                                       *)

Goes(c, from, to) == callPc[c] = from /\ callPc' = [callPc EXCEPT ![c] = to]

Decides(c, r) == result' = [result EXCEPT ![c] = r]

\* SetNetworkEnabled(true) on a released handle: the call returns errClosed.
BootstrapRefused(c) ==
    /\ freed
    /\ Goes(c, "idle", "returned") /\ Decides(c, "closed")
    /\ UNCHANGED <<artiVars, queueVars, pumpVars, chanVars, closeVars, watchPc>>

EnableNetwork(c) ==
    /\ ~freed
    /\ Goes(c, "idle", "subscribe")
    /\ netEnabled' = TRUE
    /\ UNCHANGED <<arti, changes, fresh, last, queueVars, pumpVars, chanVars, closeVars, result, watchPc>>

Subscribe(c) ==
    /\ Goes(c, "subscribe", "status")
    /\ StatusUpdates(c)
    /\ UNCHANGED <<artiVars, queueVars, pumpVars, closeVars, result, watchPc>>

\* Mutant: a call waits for news without a look at what is known already.
WaitUnlooked(c) ==
    /\ Goes(c, "status", "wait")
    /\ UNCHANGED <<artiVars, queueVars, pumpVars, chanVars, closeVars, watchPc, result>>

\* Status(), the cached half.
ReadCache(c) ==
    /\ IF status.ready THEN Goes(c, "status", "unsub") /\ Decides(c, "ok")
       ELSE /\ Goes(c, "status", IF status.summary = "" THEN "ask" ELSE "wait")
            /\ UNCHANGED result
    /\ UNCHANGED <<artiVars, queueVars, pumpVars, chanVars, closeVars, watchPc>>

\* Status() with nothing cached: the backend is asked; if it is gone, the
\* empty status stands.
AskBackend(c) ==
    /\ IF ~freed /\ statusFrom(summarize(arti)).ready
         THEN Goes(c, "ask", "unsub") /\ Decides(c, "ok")
         ELSE Goes(c, "ask", "wait") /\ UNCHANGED result
    /\ UNCHANGED <<artiVars, queueVars, pumpVars, chanVars, closeVars, watchPc>>

\* The updates arm of the select.
TakeUpdate(c) ==
    /\ callPc[c] = "wait"
    /\ Receive(c)
    /\ IF Head(buf[c]).ready THEN Goes(c, "wait", "unsub") /\ Decides(c, "ok")
                             ELSE UNCHANGED <<callPc, result>>
    /\ UNCHANGED <<artiVars, queueVars, pumpVars, closeVars, watchPc>>

\* The done arm, or the updates arm on a closed channel.
NoticeClosed(c) ==
    /\ doneClosed \/ SeesClosed(c)
    /\ Goes(c, "wait", "unsub") /\ Decides(c, "closed")
    /\ UNCHANGED <<artiVars, queueVars, pumpVars, chanVars, closeVars, watchPc>>

\* The ctx arm: the caller may give up at any time.
CtxDone(c) ==
    /\ Goes(c, "wait", "unsub") /\ Decides(c, "cancelled")
    /\ UNCHANGED <<artiVars, queueVars, pumpVars, chanVars, closeVars, watchPc>>

\* The deferred unsubscribe.
ReturnFromBootstrap(c) ==
    /\ Goes(c, "unsub", "returned")
    /\ unsubscribe(c)
    /\ UNCHANGED <<artiVars, queueVars, pumpVars, closeVars, result, watchPc>>

\* The steps of a call that go on by themselves once it is made.
BootstrapStep(c) == \/ Subscribe(c) \/ ReadCache(c) \/ AskBackend(c) \/ TakeUpdate(c)
                    \/ NoticeClosed(c) \/ ReturnFromBootstrap(c)
-----------------------------------------------------------------------------
(* A goroutine that reads StatusUpdates, as slowly as it likes.            *)

Watch(w) ==
    /\ watchPc[w] = "idle" /\ watchPc' = [watchPc EXCEPT ![w] = "reading"]
    /\ StatusUpdates(w)
    /\ UNCHANGED <<artiVars, queueVars, pumpVars, closeVars, callPc, result>>

ReadUpdate(w) ==
    /\ watchPc[w] = "reading"
    /\ Receive(w)
    /\ UNCHANGED <<artiVars, queueVars, pumpVars, closeVars, callVars>>

Unsubscribe(w) ==
    /\ watchPc[w] = "reading" /\ watchPc' = [watchPc EXCEPT ![w] = "finished"]
    /\ unsubscribe(w)
    /\ UNCHANGED <<artiVars, queueVars, pumpVars, closeVars, callPc, result>>
-----------------------------------------------------------------------------
(* Close.                                                                  *)

CloseAt(k, from, to) == closePc[k] = from /\ closePc' = [closePc EXCEPT ![k] = to]

CloseAgain(k) ==
    /\ MuFree /\ closed
    /\ CloseAt(k, "idle", "returned")
    /\ UNCHANGED <<artiVars, queueVars, pumpVars, chanVars, closed, doneClosed, toClose, freed, callVars>>

\* Mutant: Close leaves the subscriber list as it is.
CloseKeepsList(k) ==
    /\ MuFree /\ ~closed
    /\ CloseAt(k, "idle", "done")
    /\ closed' = TRUE
    /\ toClose' = subscribers
    /\ UNCHANGED <<artiVars, queueVars, pumpVars, chanVars, doneClosed, freed, callVars>>

CloseBegin(k) ==
    /\ MuFree /\ ~closed
    /\ CloseAt(k, "idle", "done")
    /\ closed' = TRUE
    /\ toClose' = subscribers /\ subscribers' = {}
    /\ UNCHANGED <<artiVars, queueVars, pumpVars, buf, isOpen, doneClosed, freed, callVars>>

CloseDone(k) ==
    /\ CloseAt(k, "done", "subs")
    /\ doneClosed' = TRUE
    /\ UNCHANGED <<artiVars, queueVars, pumpVars, chanVars, closed, toClose, freed, callVars>>

\* Mutant: Close goes on to the backend while channels are open.
CloseSkipsSubs(k) ==
    /\ CloseAt(k, "subs", "backend")
    /\ UNCHANGED <<artiVars, queueVars, pumpVars, chanVars, closed, doneClosed, toClose, freed, callVars>>

CloseSub(k, s) ==
    /\ closePc[k] = "subs" /\ s \in toClose
    /\ isOpen' = [isOpen EXCEPT ![s] = FALSE]
    /\ toClose' = toClose \ {s}
    /\ UNCHANGED <<artiVars, queueVars, pumpVars, subscribers, buf, closed, doneClosed, freed,
                   closePc, callVars>>

CloseSubsDone(k) ==
    /\ toClose = {}
    /\ CloseAt(k, "subs", "backend")
    /\ UNCHANGED <<artiVars, queueVars, pumpVars, chanVars, closed, doneClosed, toClose, freed, callVars>>

\* backend.Shutdown and backend.free (module FfiHandle has their steps).
CloseBackend(k) ==
    /\ CloseAt(k, "backend", "returned")
    /\ freed' = TRUE
    /\ UNCHANGED <<artiVars, queueVars, pumpVars, chanVars, closed, doneClosed, toClose, callVars>>

\* The steps of a Close call that go on by themselves once it has begun.
CloseStep(k) == \/ CloseDone(k) \/ CloseSubsDone(k) \/ CloseBackend(k)
                \/ \E s \in Subscribers : CloseSub(k, s)
-----------------------------------------------------------------------------
Next ==
    \/ ArtiChange \/ WatchStatus \/ EmitHs
    \/ Pump
    \/ \E c \in Callers : BootstrapRefused(c) \/ EnableNetwork(c) \/ CtxDone(c) \/ BootstrapStep(c)
    \/ \E w \in Watchers : Watch(w) \/ ReadUpdate(w) \/ Unsubscribe(w)
    \/ \E k \in Closers : CloseAgain(k) \/ CloseBegin(k) \/ CloseStep(k)

\* The goroutines and tasks of the program go on when they can; the outside
\* world (Arti, callers starting, cancelling, reading, closing) owes nothing.
Fairness ==
    /\ WF_vars(WatchStatus)
    /\ WF_vars(Pump)
    /\ \A c \in Callers : WF_vars(BootstrapStep(c))
    /\ \A k \in Closers : WF_vars(CloseStep(k))

Spec == Init /\ [][Next]_vars /\ Fairness
-----------------------------------------------------------------------------
(* Properties.                                                             *)

\* Go panics on a send on a closed channel and on closing one twice. Every
\* channel that publishStatus, unsubscribe or Close can still send on or close
\* is open, no two of them will close the same one, and Close closes `done`
\* once, however Close, Unsubscribe and the fan-out interleave.
NoPanic ==
    /\ \A s \in subscribers \union toClose \union todo : isOpen[s]
    /\ subscribers \intersect toClose = {}
    /\ \A k \in Closers : closePc[k] = "done" => ~doneClosed

\* Why NoPanic holds: the fan-out visits current subscribers only, under mu; an
\* actor that has not subscribed yet has no channel; what Close took is nobody
\* else's; and one Close at a time is past the closed check.
ChannelInvariant ==
    /\ todo \subseteq subscribers /\ (MuFree => todo = {})
    /\ \A s \in subscribers \union toClose : isOpen[s]
    /\ subscribers \intersect toClose = {}
    /\ \A c \in Callers : callPc[c] \in {"idle", "subscribe"} => c \notin subscribers \union toClose
    /\ \A w \in Watchers : watchPc[w] = "idle" => w \notin subscribers \union toClose

Closing(k) == closePc[k] \in {"done", "subs", "backend"}

CloseInvariant ==
    /\ \A k \in Closers : Closing(k) => closed
    /\ \A k, j \in Closers : Closing(k) /\ Closing(j) => k = j
    /\ \A k \in Closers : closePc[k] = "done" => ~doneClosed
    /\ doneClosed \/ freed \/ toClose # {} => closed

\* A call has no result while it runs, and its channel is closed under it only
\* by Close.
CallInvariant ==
    \A c \in Callers :
        /\ result[c] = "none" <=> callPc[c] \notin {"unsub", "returned"}
        /\ callPc[c] \in {"status", "ask", "wait"} /\ ~isOpen[c] => closed

\* All statuses that are queued, cached, in hand or buffered.
ReadyImpliesOnline(st) == st.ready => arti.ready /\ st.progress = 100

\* A status says Ready only if Arti can carry traffic, wherever the status is,
\* and then it reports 100%; Bootstrap returns nil on nothing else.
ReadyIsTrue ==
    /\ \A i \in 1..Len(events) : events[i] # HsDesc => ReadyImpliesOnline(statusFrom(events[i]))
    /\ ReadyImpliesOnline(pumpStatus)
    /\ ReadyImpliesOnline(status)
    /\ \A s \in Subscribers : \A i \in 1..Len(buf[s]) : ReadyImpliesOnline(buf[s][i])
    /\ \A c \in Callers : result[c] = "ok" => arti.ready

\* An unread update of s's channel ends with st.
EndsWith(s, st) == buf[s] # <<>> => buf[s][Len(buf[s])] = st

\* publishStatus drops the oldest update for a slow reader, never the newest:
\* whenever no fan-out is under way, an update a subscriber has not read yet
\* ends with the status that is cached.
NewestIsDelivered ==
    pumpPc \in {"check", "next", "cache"} =>
        \A s \in subscribers : EndsWith(s, status)

\* Why NewestIsDelivered holds: a channel the fan-out has left behind ends with
\* the status being published, because a dropped status always makes room.
FanInvariant ==
    /\ NewestIsDelivered
    /\ pumpPc \in {"lock", "fan", "drop", "retry"} => status = pumpStatus
    /\ pumpPc \in {"fan", "drop", "retry"} => \A s \in subscribers \ todo : EndsWith(s, pumpStatus)
    /\ pumpPc = "retry" => \A s \in full : Len(buf[s]) < StatusBuffer

\* Its channel holds a Ready it has not read, or the fan-out is about to put one there.
ReadyAtHand(c) ==
    \/ c \in todo
    \/ buf[c] # <<>> /\ buf[c][Len(buf[c])].ready

\* No wake-up is lost between Subscribe, the look at the cache and the wait:
\* while nothing is dropped from the event queue, a Bootstrap call that waits on
\* a connected client has the news on its way - not yet seen by the watcher,
\* queued, in the pump's hand, or in the call's own channel. It cannot have gone
\* by between the reading of the cache and the waiting.
NewsReachesCallers ==
    \A c \in Callers : callPc[c] = "wait" /\ arti.ready /\ ~closed =>
        \/ fresh /\ last # 100
        \/ \E i \in 1..Len(events) : events[i] # HsDesc /\ statusFrom(events[i]).ready
        \/ pumpStatus.ready /\ (pumpPc \in {"cache", "lock"} \/ ReadyAtHand(c))

\* What Client.Bootstrap promises to its callers.
Promise == INSTANCE BootstrapPromise WITH
    call   <- [c \in Callers |-> IF result[c] # "none" THEN result[c]
                                 ELSE IF callPc[c] = "idle" THEN "idle" ELSE "waiting"],
    online <- arti.ready,
    shut   <- closed

\* Bootstrap keeps its promise: nil only when connected, "closed" only when
\* closed, and a call does return once the client is connected or closed.
BootstrapKeepsPromise == Promise!Spec

\* With no event lost, the cache ends up agreeing with Arti on the progress
\* and on readiness (not on the problem: see the run statushub_stale).
ProgressConverges ==
    <>[](freed \/ /\ status.progress = Progress(arti)
                  /\ status.ready = arti.ready)

\* Once Close has begun, the pump stops, every Bootstrap call returns, every
\* subscriber channel is closed and the handle is released.
CloseUnblocksAll ==
    closed ~> /\ freed /\ pumpPc = "stopped"
              /\ \A c \in Callers : callPc[c] \in {"idle", "returned"}
              /\ \A s \in Subscribers : ~isOpen[s]

\* StatusUpdates: "an update arrives as soon as Arti's view changes"
\* (client.go:192): the cached status ends up saying what Arti says. It does not
\* when the blockage changes and the progress stays.
StatusFollowsArti ==
    <>[](freed \/ ~netEnabled \/ status = statusFrom(summarize(arti)))
=============================================================================
