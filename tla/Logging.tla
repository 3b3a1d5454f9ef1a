------------------------------- MODULE Logging -------------------------------
(***************************************************************************)
(* Process-wide logging: the one tracing subscriber a process may install, *)
(* the bounded queue its layer fills, and the Go side's EnableLogging,     *)
(* StopLogging and log pumps. Each EnableLogging that starts collecting    *)
(* begins a new generation, with a stop channel and a pump of its own; a   *)
(* stopped pump may live on for as long as one poll.                       *)
(*                                                                         *)
(* Records are numbered in the order Arti emits them. A receive from a     *)
(* channel only makes room, so channels are histories with a count of what *)
(* is unread; sends to different channels commute, so a pump's fan-out,    *)
(* done under logMu, is one action.                                        *)
(***************************************************************************)
EXTENDS Naturals, Sequences, FiniteSets

CONSTANTS LogQueueDepth,  \* LOG_QUEUE_DEPTH (4096 in the code)
          logBuffer,      \* capacity of a log channel (256 in the code)
          MaxRecords,     \* bound: records emitted
          MaxChannels     \* bound: successful EnableLogging calls

ASSUME CapAssumption == LogQueueDepth \in Nat \ {0} /\ logBuffer \in Nat \ {0}
ASSUME BoundAssumption == MaxRecords \in Nat /\ MaxChannels \in Nat

Channels    == 1..MaxChannels
Generations == 1..MaxChannels
Records     == 1..MaxRecords

VARIABLES
    envSet,       \* LIBTOR_LOG is set; the environment does not change
    owner,        \* whose subscriber is installed: "none", "ours" or "host"
    opened,       \* a client has been created, which runs install_log_subscriber
    emitted,      \* how many records Arti has emitted
    queue,        \* the log queue
    logStarted,   \* logStarted
    generation,   \* how many pumps were started; the last one's logStop
    stopped,      \* the generations whose logStop is closed
    nextChannel,  \* channels handed out
    logChannels,  \* logChannels
    isOpen,       \* the channels that are not closed
    delivered,    \* what each channel was sent
    unread,       \* how much of it is unread
    pumpPc,       \* each generation's pump
    record        \* the record it holds

installVars == <<envSet, owner, opened>>
queueVars   == <<emitted, queue>>
stateVars   == <<logStarted, generation, stopped, nextChannel, logChannels, isOpen>>
chanVars    == <<delivered, unread>>
pumpVars    == <<pumpPc, record>>
vars        == <<installVars, queueVars, stateVars, chanVars, pumpVars>>

TypeOK ==
    /\ envSet \in BOOLEAN /\ owner \in {"none", "ours", "host"} /\ opened \in BOOLEAN
    /\ emitted \in 0..MaxRecords
    /\ queue \in Seq(Records) /\ Len(queue) <= LogQueueDepth
    /\ logStarted \in BOOLEAN
    /\ generation \in 0..MaxChannels /\ stopped \subseteq Generations
    /\ nextChannel \in 0..MaxChannels
    /\ logChannels \subseteq Channels /\ isOpen \subseteq Channels
    /\ delivered \in [Channels -> Seq(Records)]
    /\ unread \in [Channels -> 0..logBuffer]
    /\ pumpPc \in [Generations -> {"none", "check", "next", "lock", "returned"}]
    /\ record \in [Generations -> 0..MaxRecords]

Init ==
    /\ envSet \in BOOLEAN /\ owner = "none" /\ opened = FALSE
    /\ emitted = 0 /\ queue = <<>>
    /\ logStarted = FALSE /\ generation = 0 /\ stopped = {}
    /\ nextChannel = 0 /\ logChannels = {} /\ isOpen = {}
    /\ delivered = [c \in Channels |-> <<>>] /\ unread = [c \in Channels |-> 0]
    /\ pumpPc = [g \in Generations |-> "none"] /\ record = [g \in Generations |-> 0]
-----------------------------------------------------------------------------
(* The subscriber                                                          *)

\* logs::install. try_init succeeds once per process; directives that do not
\* parse install nothing.
Installs(valid) == valid /\ owner = "none"

\* The application installs a subscriber of its own.
HostInstall ==
    /\ owner = "none"
    /\ owner' = "host"
    /\ UNCHANGED <<envSet, opened, queueVars, stateVars, chanVars, pumpVars>>

\* Client::new runs install_log_subscriber, once; its errors are ignored.
OpenClient ==
    /\ ~opened /\ opened' = TRUE
    /\ \E valid \in BOOLEAN :
          owner' = IF envSet /\ Installs(valid) THEN "ours" ELSE owner
    /\ UNCHANGED <<envSet, queueVars, stateVars, chanVars, pumpVars>>

Queued == Len(queue) < LogQueueDepth

\* QueueLayer::on_event: a record that finds the queue full is dropped.
EmitRecord ==
    /\ owner = "ours" /\ emitted < MaxRecords
    /\ emitted' = emitted + 1
    /\ queue' = IF Queued THEN Append(queue, emitted + 1) ELSE queue
    /\ UNCHANGED <<installVars, stateVars, chanVars, pumpVars>>
-----------------------------------------------------------------------------
(* EnableLogging and StopLogging, each under logMu                         *)

\* Mutant: any error is taken to mean that a subscriber is there.
AlwaysInstalled == TRUE

alreadyInstalled == envSet

NewChannel ==
    /\ nextChannel' = nextChannel + 1
    /\ logChannels' = logChannels \union {nextChannel + 1}
    /\ isOpen' = isOpen \union {nextChannel + 1}

\* Mutant: logStarted is not set, so that the next call starts a second pump.
StartUnmarked(valid) ==
    /\ ~logStarted /\ nextChannel < MaxChannels
    /\ Installs(valid) \/ alreadyInstalled
    /\ owner' = IF Installs(valid) THEN "ours" ELSE owner
    /\ generation' = generation + 1
    /\ pumpPc' = [pumpPc EXCEPT ![generation + 1] = "check"]
    /\ NewChannel
    /\ UNCHANGED <<envSet, opened, queueVars, logStarted, stopped, chanVars, record>>

\* The first call, or the first after StopLogging.
EnableStarts(valid) ==
    /\ ~logStarted /\ nextChannel < MaxChannels
    /\ Installs(valid) \/ alreadyInstalled
    /\ owner' = IF Installs(valid) THEN "ours" ELSE owner
    /\ logStarted' = TRUE
    /\ generation' = generation + 1
    /\ pumpPc' = [pumpPc EXCEPT ![generation + 1] = "check"]
    /\ NewChannel
    /\ UNCHANGED <<envSet, opened, queueVars, stopped, chanVars, record>>

EnableRefused(valid) ==
    /\ ~logStarted /\ nextChannel < MaxChannels
    /\ ~Installs(valid) /\ ~alreadyInstalled
    /\ UNCHANGED vars

\* A further channel at the level in force.
EnableAgain ==
    /\ logStarted /\ nextChannel < MaxChannels
    /\ NewChannel
    /\ UNCHANGED <<installVars, queueVars, logStarted, generation, stopped, chanVars, pumpVars>>

\* Mutant: logChannels keeps the closed channels.
StopKeepsChannels ==
    /\ logStarted /\ logStarted' = FALSE
    /\ stopped' = stopped \union {generation}
    /\ isOpen' = isOpen \ logChannels
    /\ UNCHANGED <<installVars, queueVars, generation, nextChannel, logChannels, chanVars, pumpVars>>

StopLogging ==
    /\ logStarted /\ logStarted' = FALSE
    /\ stopped' = stopped \union {generation}
    /\ isOpen' = isOpen \ logChannels
    /\ logChannels' = {}
    /\ UNCHANGED <<installVars, queueVars, generation, nextChannel, chanVars, pumpVars>>

\* The consumer of a channel reads one record.
ReadRecord(c) ==
    /\ unread[c] > 0
    /\ unread' = [unread EXCEPT ![c] = @ - 1]
    /\ UNCHANGED <<installVars, queueVars, stateVars, delivered, pumpVars>>
-----------------------------------------------------------------------------
(* pumpLogs of generation g                                                *)

PumpGoes(g, from, to) == pumpPc[g] = from /\ pumpPc' = [pumpPc EXCEPT ![g] = to]

\* Mutant: the pump looks at whether logging is on instead of its own logStop.
PumpChecksFlag(g) ==
    /\ PumpGoes(g, "check", IF logStarted THEN "next" ELSE "returned")
    /\ UNCHANGED <<installVars, queueVars, stateVars, chanVars, record>>

PumpCheckStop(g) ==
    /\ PumpGoes(g, "check", IF g \in stopped THEN "returned" ELSE "next")
    /\ UNCHANGED <<installVars, queueVars, stateVars, chanVars, record>>

\* nextLogRecord times out.
PumpNothing(g) ==
    /\ queue = <<>>
    /\ PumpGoes(g, "next", "check")
    /\ UNCHANGED <<installVars, queueVars, stateVars, chanVars, record>>

\* Mutant: a record is looked at and stays queued.
PumpPeeks(g) ==
    /\ queue # <<>>
    /\ PumpGoes(g, "next", "lock")
    /\ record' = [record EXCEPT ![g] = Head(queue)]
    /\ UNCHANGED <<installVars, queueVars, stateVars, chanVars>>

PumpTakes(g) ==
    /\ queue # <<>>
    /\ PumpGoes(g, "next", "lock")
    /\ record' = [record EXCEPT ![g] = Head(queue)]
    /\ queue' = Tail(queue)
    /\ UNCHANGED <<installVars, emitted, stateVars, chanVars>>

\* The channels a fan-out reaches: those with room.
Receivers == IF logStarted THEN {c \in logChannels : unread[c] < logBuffer} ELSE {}

\* Mutant: the fan-out waits for room in every channel.
DeliverBlocking(g) ==
    /\ Receivers = logChannels
    /\ PumpGoes(g, "lock", "check")
    /\ delivered' = [c \in Channels |-> IF c \in Receivers THEN Append(delivered[c], record[g])
                                        ELSE delivered[c]]
    /\ unread' = [c \in Channels |-> IF c \in Receivers THEN unread[c] + 1 ELSE unread[c]]
    /\ record' = [record EXCEPT ![g] = 0]
    /\ UNCHANGED <<installVars, queueVars, stateVars>>

PumpDelivers(g) ==
    /\ PumpGoes(g, "lock", "check")
    /\ delivered' = [c \in Channels |-> IF c \in Receivers THEN Append(delivered[c], record[g])
                                        ELSE delivered[c]]
    /\ unread' = [c \in Channels |-> IF c \in Receivers THEN unread[c] + 1 ELSE unread[c]]
    /\ record' = [record EXCEPT ![g] = 0]
    /\ UNCHANGED <<installVars, queueVars, stateVars>>

Pump(g) == PumpCheckStop(g) \/ PumpNothing(g) \/ PumpTakes(g) \/ PumpDelivers(g)
-----------------------------------------------------------------------------
Next == \/ HostInstall \/ OpenClient \/ EmitRecord
        \/ \E valid \in BOOLEAN : EnableStarts(valid) \/ EnableRefused(valid)
        \/ EnableAgain \/ StopLogging
        \/ \E c \in Channels : ReadRecord(c)
        \/ \E g \in Generations : Pump(g)

\* Pumps run; nothing else has to happen.
Spec == Init /\ [][Next]_vars /\ \A g \in Generations : WF_vars(Pump(g))
-----------------------------------------------------------------------------
\* StopLogging closes every channel it handed out, while pumps of this and
\* earlier generations may be about to send: what a pump can send on is open,
\* and nothing is handed out closed.
NoSendOnClosed == logChannels \subseteq isOpen /\ (logStarted \/ logChannels = {})

\* However often logging is stopped and started, exactly one pump has not been
\* told to stop while logging is on, and none while it is off.
OneLivePump ==
    LET live == {g \in Generations : pumpPc[g] \in {"check", "next", "lock"} /\ g \notin stopped} IN
    IF logStarted THEN live = {generation} ELSE live = {}

\* Two pumps can be taking records at once after a restart; still, no channel is
\* sent a record twice.
NothingTwice ==
    \A c \in Channels : \A i, j \in 1..Len(delivered[c]) :
        delivered[c][i] = delivered[c][j] => i = j

\* A pump that was told to stop does.
StoppedPumpsReturn == \A g \in Generations : g \in stopped ~> pumpPc[g] = "returned"

\* While logging stays on, the queue is drained.
QueueDrains == (logStarted /\ queue # <<>>) ~> (queue = <<>> \/ ~logStarted)

\* Without LIBTOR_LOG an EnableLogging that has succeeded means that the
\* subscriber that fills the queue is installed, whoever else wanted to install
\* one, and over every stop and start. (With it, alreadyInstalled takes every
\* failure to install for an installation of our own, and nothing follows.)
EnabledMeansCollected == logStarted /\ ~envSet => owner = "ours"
=============================================================================
