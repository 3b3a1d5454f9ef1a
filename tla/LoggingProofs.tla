---------------------------- MODULE LoggingProofs ----------------------------
(***************************************************************************)
(* Proofs about Logging, for queues and channels of every size and every   *)
(* number of records, channels and generations.                            *)
(***************************************************************************)
EXTENDS Logging, SequenceTheorems, TLAPS

LEMMA Appended ==
    ASSUME NEW S, NEW s \in Seq(S), NEW e \in S
    PROVE  /\ Append(s, e) \in Seq(S) /\ Len(s) \in Nat /\ Len(Append(s, e)) = Len(s) + 1
           /\ \A i \in 1..Len(s) : Append(s, e)[i] = s[i]
           /\ Append(s, e)[Len(s) + 1] = e
  BY AppendProperties

LEMMA Tailed ==
    ASSUME NEW S, NEW s \in Seq(S), s # <<>>
    PROVE  /\ Tail(s) \in Seq(S) /\ Len(s) \in Nat /\ Len(Tail(s)) = Len(s) - 1
           /\ \A i \in 1..Len(Tail(s)) : i + 1 \in 1..Len(s) /\ Tail(s)[i] = s[i + 1]
           /\ Head(s) \in S /\ 1 \in 1..Len(s) /\ Head(s) = s[1]
  <1>1. Len(s) \in Nat /\ Len(s) # 0
    BY EmptySeq, LenProperties
  <1>2. Tail(s) \in Seq(S) /\ Len(Tail(s)) = Len(s) - 1 /\ Head(s) \in S /\ Head(s) = s[1]
    BY HeadTailProperties
  <1>3. \A i \in 1..Len(Tail(s)) : i + 1 \in 1..Len(s) /\ Tail(s)[i] = s[i + 1]
    BY <1>1, <1>2
  <1> QED
    BY <1>1, <1>2, <1>3

\* Every step is one of these.
LEMMA EveryAction ==
    ASSUME [Next]_vars
    PROVE  \/ HostInstall \/ OpenClient \/ EmitRecord \/ EnableAgain \/ StopLogging
           \/ \E valid \in BOOLEAN : EnableStarts(valid)
           \/ \E c \in Channels : ReadRecord(c)
           \/ \E g \in Generations : \/ PumpCheckStop(g) \/ PumpNothing(g)
                                     \/ PumpTakes(g) \/ PumpDelivers(g)
           \/ UNCHANGED vars
  BY DEF Next, Pump, EnableRefused
-----------------------------------------------------------------------------
(* Types. There is a channel for each pump, so a pump has a generation; a  *)
(* pump at the lock holds a record.                                        *)

TypeInvariant ==
    /\ TypeOK
    /\ generation <= nextChannel
    /\ logStarted => generation > 0
    /\ \A g \in Generations : pumpPc[g] = "lock" => record[g] \in Records

LEMMA TypeStep == TypeInvariant /\ [Next]_vars => TypeInvariant'
  <1> SUFFICES ASSUME TypeInvariant, [Next]_vars PROVE TypeInvariant'
    OBVIOUS
  <1> USE BoundAssumption, CapAssumption
      DEF TypeInvariant, TypeOK, PumpGoes,
          installVars, queueVars, stateVars, chanVars, pumpVars
  <1>1. CASE HostInstall
    BY <1>1 DEF HostInstall
  <1>2. CASE OpenClient
    BY <1>2 DEF OpenClient
  <1>3. CASE EmitRecord
    <2>1. emitted + 1 \in Records /\ emitted' \in 0..MaxRecords
      BY <1>3 DEF EmitRecord, Records
    <2>2. queue' \in Seq(Records) /\ Len(queue') <= LogQueueDepth
      BY <1>3, <2>1, Appended DEF EmitRecord, Queued
    <2> QED
      BY <1>3, <2>1, <2>2 DEF EmitRecord
  <1>4. CASE EnableAgain
    BY <1>4 DEF EnableAgain, NewChannel, Channels
  <1>5. CASE StopLogging
    <2>1. generation \in Generations
      BY <1>5 DEF StopLogging, Generations
    <2>2. stopped' \subseteq Generations
      BY <1>5, <2>1 DEF StopLogging
    <2> QED
      BY <1>5, <2>2 DEF StopLogging
  <1>6. ASSUME NEW valid \in BOOLEAN, EnableStarts(valid) PROVE TypeInvariant'
    <2>1. generation + 1 \in Generations /\ nextChannel + 1 \in Channels
      BY <1>6 DEF EnableStarts, Generations, Channels
    <2>2. /\ owner' \in {"none", "ours", "host"} /\ generation' \in 0..MaxChannels
          /\ nextChannel' \in 0..MaxChannels /\ generation' <= nextChannel' /\ generation' > 0
          /\ logChannels' \subseteq Channels /\ isOpen' \subseteq Channels
      BY <1>6, <2>1 DEF EnableStarts, NewChannel
    <2>3. /\ pumpPc' \in [Generations -> {"none", "check", "next", "lock", "returned"}]
          /\ \A g \in Generations : pumpPc'[g] = "lock" => record'[g] \in Records
      BY <1>6, <2>1 DEF EnableStarts
    <2> QED
      BY <1>6, <2>2, <2>3 DEF EnableStarts
  <1>7. ASSUME NEW c \in Channels, ReadRecord(c) PROVE TypeInvariant'
    BY <1>7 DEF ReadRecord
  <1>8. ASSUME NEW g \in Generations, PumpCheckStop(g) \/ PumpNothing(g) PROVE TypeInvariant'
    <2>1. \E to \in {"check", "next", "returned"} : pumpPc' = [pumpPc EXCEPT ![g] = to]
      BY <1>8 DEF PumpCheckStop, PumpNothing
    <2>2. UNCHANGED <<installVars, queueVars, stateVars, chanVars, record>>
      BY <1>8 DEF PumpCheckStop, PumpNothing
    <2> QED
      BY <2>1, <2>2
  <1>9. ASSUME NEW g \in Generations, PumpTakes(g) PROVE TypeInvariant'
    <2>1. /\ Head(queue) \in Records /\ queue' \in Seq(Records) /\ Len(queue') <= LogQueueDepth
      BY <1>9, Tailed DEF PumpTakes
    <2>2. Records \subseteq 0..MaxRecords
      BY DEF Records
    <2> QED
      BY <1>9, <2>1, <2>2 DEF PumpTakes
  <1>10. ASSUME NEW g \in Generations, PumpDelivers(g) PROVE TypeInvariant'
    <2>1. record[g] \in Records
      BY <1>10 DEF PumpDelivers
    <2>2. \A c \in Channels : Append(delivered[c], record[g]) \in Seq(Records)
      BY <2>1, Appended
    <2>3. delivered' \in [Channels -> Seq(Records)]
      BY <1>10, <2>2 DEF PumpDelivers
    <2>4. unread' \in [Channels -> 0..logBuffer]
      BY <1>10 DEF PumpDelivers, Receivers
    <2>5. record' \in [Generations -> 0..MaxRecords]
      BY <1>10 DEF PumpDelivers
    <2> QED
      BY <1>10, <2>3, <2>4, <2>5 DEF PumpDelivers
  <1>11. CASE UNCHANGED vars
    BY <1>11 DEF vars
  <1> QED
    BY EveryAction, <1>1, <1>2, <1>3, <1>4, <1>5, <1>6, <1>7, <1>8, <1>9, <1>10, <1>11

LEMMA TypeInvariantHolds == Spec => []TypeInvariant
  <1>1. Init => TypeInvariant
    <2> SUFFICES ASSUME Init PROVE TypeInvariant
      OBVIOUS
    <2>1. <<>> \in Seq(Records) /\ Len(<<>>) = 0
      OBVIOUS
    <2>2. /\ delivered \in [Channels -> Seq(Records)] /\ unread \in [Channels -> 0..logBuffer]
          /\ pumpPc \in [Generations -> {"none", "check", "next", "lock", "returned"}]
          /\ record \in [Generations -> 0..MaxRecords]
      BY <2>1, BoundAssumption, CapAssumption DEF Init
    <2>3. /\ emitted \in 0..MaxRecords /\ generation \in 0..MaxChannels
          /\ nextChannel \in 0..MaxChannels /\ generation <= nextChannel
      BY BoundAssumption DEF Init
    <2>4. queue \in Seq(Records) /\ Len(queue) <= LogQueueDepth
      BY <2>1, CapAssumption DEF Init
    <2>5. \A g \in Generations : pumpPc[g] # "lock"
      BY DEF Init
    <2> QED
      BY <2>2, <2>3, <2>4, <2>5 DEF Init, TypeInvariant, TypeOK
  <1> QED
    BY <1>1, TypeStep, PTL DEF Spec

\* Every variable keeps its type; the queue never exceeds its depth.
THEOREM TypeCorrect == Spec => []TypeOK
  <1>1. TypeInvariant => TypeOK
    BY DEF TypeInvariant
  <1> QED
    BY <1>1, TypeInvariantHolds, PTL
-----------------------------------------------------------------------------
(* Channels and pumps.                                                     *)

\* A channel is closed in the step that takes it out of logChannels.
THEOREM SendsAreSafe == Spec => []NoSendOnClosed
  <1>1. Init => NoSendOnClosed
    BY DEF Init, NoSendOnClosed
  <1>2. NoSendOnClosed /\ [Next]_vars => NoSendOnClosed'
    <2> SUFFICES ASSUME NoSendOnClosed, [Next]_vars PROVE NoSendOnClosed'
      OBVIOUS
    <2> USE DEF NoSendOnClosed, stateVars
    <2>1. CASE EnableAgain
      BY <2>1 DEF EnableAgain, NewChannel
    <2>2. CASE StopLogging
      BY <2>2 DEF StopLogging
    <2>3. ASSUME NEW valid \in BOOLEAN, EnableStarts(valid) PROVE NoSendOnClosed'
      BY <2>3 DEF EnableStarts, NewChannel
    <2>4. CASE \/ HostInstall \/ OpenClient \/ EmitRecord \/ UNCHANGED vars
               \/ \E c \in Channels : ReadRecord(c)
               \/ \E g \in Generations : PumpCheckStop(g) \/ PumpNothing(g) \/ PumpTakes(g) \/ PumpDelivers(g)
      <3>1. UNCHANGED stateVars
        BY <2>4 DEF HostInstall, OpenClient, EmitRecord, ReadRecord, PumpCheckStop, PumpNothing,
                    PumpTakes, PumpDelivers, vars
      <3> QED
        BY <3>1
    <2> QED
      BY EveryAction, <2>1, <2>2, <2>3, <2>4
  <1> QED
    BY <1>1, <1>2, PTL DEF Spec

\* Every generation but the last was told to stop, and the last one unless
\* logging is on; only a pump that was told to stop returns.
PumpInvariant ==
    /\ logStarted => generation \in Generations /\ generation \notin stopped
    /\ \A g \in Generations :
          /\ g \in stopped => g <= generation
          /\ g < generation => g \in stopped
          /\ g = generation /\ ~logStarted => g \in stopped
          /\ g > generation <=> pumpPc[g] = "none"
          /\ pumpPc[g] = "returned" => g \in stopped

LEMMA PumpStep == TypeInvariant /\ PumpInvariant /\ [Next]_vars => PumpInvariant'
  <1> SUFFICES ASSUME TypeInvariant, PumpInvariant, [Next]_vars PROVE PumpInvariant'
    OBVIOUS
  <1> USE BoundAssumption
      DEF TypeInvariant, TypeOK, Generations, PumpGoes, PumpInvariant,
          installVars, queueVars, stateVars, chanVars, pumpVars
  <1>1. CASE HostInstall \/ OpenClient \/ EmitRecord \/ EnableAgain \/ \E c \in Channels : ReadRecord(c)
    <2>1. UNCHANGED <<logStarted, generation, stopped, pumpPc>>
      BY <1>1 DEF HostInstall, OpenClient, EmitRecord, EnableAgain, ReadRecord
    <2> QED
      BY <2>1
  <1>2. CASE StopLogging
    BY <1>2 DEF StopLogging
  <1>3. ASSUME NEW valid \in BOOLEAN, EnableStarts(valid) PROVE PumpInvariant'
    <2>1. generation + 1 \in Generations
      BY <1>3 DEF EnableStarts
    <2> QED
      BY <1>3, <2>1 DEF EnableStarts
  <1>4. ASSUME NEW g \in Generations,
               PumpCheckStop(g) \/ PumpNothing(g) \/ PumpTakes(g) \/ PumpDelivers(g)
        PROVE  PumpInvariant'
    <2>1. /\ UNCHANGED <<logStarted, generation, stopped>>
          /\ pumpPc[g] \in {"check", "next", "lock"}
          /\ \E to \in {"check", "next", "lock", "returned"} :
                pumpPc' = [pumpPc EXCEPT ![g] = to] /\ (to = "returned" => g \in stopped)
      BY <1>4 DEF PumpCheckStop, PumpNothing, PumpTakes, PumpDelivers
    <2> QED
      BY <2>1
  <1>5. CASE UNCHANGED vars
    BY <1>5 DEF vars
  <1> QED
    BY EveryAction, <1>1, <1>2, <1>3, <1>4, <1>5

\* One pump serves the channels while logging is on and none while it is off,
\* over every sequence of starts and stops.
THEOREM OnePump == Spec => []OneLivePump
  <1>1. Init => PumpInvariant
    BY BoundAssumption DEF Init, PumpInvariant, Generations
  <1>2. TypeInvariant /\ PumpInvariant => OneLivePump
    BY DEF TypeInvariant, TypeOK, PumpInvariant, OneLivePump, Generations
  <1> QED
    BY <1>1, <1>2, TypeInvariantHolds, PumpStep, PTL DEF Spec

\* How many steps of its own a pump that was told to stop has left.
StepsLeft(at) == IF at = "next" THEN 3
                 ELSE IF at = "lock" THEN 2
                 ELSE IF at = "check" THEN 1 ELSE 0

\* A pump that was told to stop only comes nearer its end: it holds or takes one
\* more record at most, and neither a later EnableLogging nor any other pump
\* sends it back to work.
StoppedWindsDown ==
    \A g \in stopped :
        /\ g \in stopped'
        /\ pumpPc[g] # "none" /\ (pumpPc[g] = "returned" <=> StepsLeft(pumpPc[g]) = 0)
        /\ pumpPc'[g] = pumpPc[g] \/ StepsLeft(pumpPc'[g]) < StepsLeft(pumpPc[g])

\* However often logging is started again: the safety half of
\* StoppedPumpsReturn, with StepsLeft as its measure.
THEOREM WindsDown == Spec => [][StoppedWindsDown]_vars
  <1>1. Init => PumpInvariant
    BY BoundAssumption DEF Init, PumpInvariant, Generations
  <1>2. TypeInvariant /\ PumpInvariant /\ [Next]_vars => [StoppedWindsDown]_vars
    <2> SUFFICES ASSUME TypeInvariant, PumpInvariant, Next, NEW g \in stopped
                 PROVE  /\ g \in stopped'
                        /\ pumpPc[g] # "none" /\ (pumpPc[g] = "returned" <=> StepsLeft(pumpPc[g]) = 0)
                        /\ pumpPc'[g] = pumpPc[g] \/ StepsLeft(pumpPc'[g]) < StepsLeft(pumpPc[g])
      BY DEF StoppedWindsDown
    <2>1. g \in Generations /\ generation \in Nat /\ g \in Nat
      BY BoundAssumption DEF TypeInvariant, TypeOK, Generations
    <2>2. pumpPc[g] \in {"check", "next", "lock", "returned"}
      BY <2>1 DEF TypeInvariant, TypeOK, PumpInvariant
    <2>3. stopped \subseteq stopped' /\ (pumpPc'[g] = pumpPc[g] \/ StepsLeft(pumpPc'[g]) < StepsLeft(pumpPc[g]))
      <3> USE DEF installVars, queueVars, stateVars, chanVars, pumpVars, PumpGoes
      <3>1. CASE HostInstall \/ OpenClient \/ EmitRecord \/ EnableAgain \/ StopLogging \/ UNCHANGED vars
                 \/ \E c \in Channels : ReadRecord(c)
        BY <3>1 DEF HostInstall, OpenClient, EmitRecord, EnableAgain, StopLogging, ReadRecord, vars
      <3>2. ASSUME NEW valid \in BOOLEAN, EnableStarts(valid)
            PROVE  stopped \subseteq stopped' /\ pumpPc'[g] = pumpPc[g]
        <4>1. g # generation + 1
          BY <2>1, <2>2 DEF TypeInvariant, TypeOK, PumpInvariant
        <4> QED
          BY <2>1, <3>2, <4>1 DEF EnableStarts, TypeInvariant, TypeOK
      <3>3. ASSUME NEW h \in Generations,
                   PumpCheckStop(h) \/ PumpNothing(h) \/ PumpTakes(h) \/ PumpDelivers(h)
            PROVE  /\ stopped \subseteq stopped'
                   /\ pumpPc'[g] = pumpPc[g] \/ StepsLeft(pumpPc'[g]) < StepsLeft(pumpPc[g])
        <4>1. UNCHANGED stopped
          BY <3>3 DEF PumpCheckStop, PumpNothing, PumpTakes, PumpDelivers
        <4>2. CASE g # h
          BY <2>1, <3>3, <4>1, <4>2 DEF PumpCheckStop, PumpNothing, PumpTakes, PumpDelivers, TypeInvariant, TypeOK
        <4>3. CASE g = h
          <5>1. \/ pumpPc[g] = "check" /\ pumpPc'[g] = "returned"
                \/ pumpPc[g] = "next" /\ pumpPc'[g] \in {"check", "lock"}
                \/ pumpPc[g] = "lock" /\ pumpPc'[g] = "check"
            BY <2>1, <3>3, <4>3 DEF PumpCheckStop, PumpNothing, PumpTakes, PumpDelivers, TypeInvariant, TypeOK
          <5> QED
            BY <4>1, <5>1 DEF StepsLeft
        <4> QED
          BY <4>2, <4>3, <4>1
      <3> QED
        BY EveryAction, <3>1, <3>2, <3>3
    <2>4. pumpPc[g] = "returned" <=> StepsLeft(pumpPc[g]) = 0
      BY <2>2 DEF StepsLeft
    <2> QED
      BY <2>2, <2>3, <2>4
  <1> QED
    BY <1>1, <1>2, TypeInvariantHolds, PumpStep, PTL DEF Spec

\* A call that has succeeded without LIBTOR_LOG has installed our subscriber,
\* and nobody else can install one afterwards.
THEOREM EnabledCollects == Spec => []EnabledMeansCollected
  <1> DEFINE Owned == generation > 0 /\ ~envSet => owner = "ours"
  <1>1. Init => Owned
    BY DEF Init
  <1>2. TypeInvariant /\ Owned /\ [Next]_vars => Owned'
    <2> SUFFICES ASSUME TypeInvariant, Owned, [Next]_vars PROVE Owned'
      OBVIOUS
    <2> USE DEF TypeInvariant, TypeOK, installVars, stateVars, pumpVars, PumpGoes
    <2>1. CASE HostInstall \/ OpenClient
      BY <2>1 DEF HostInstall, OpenClient, Installs
    <2>2. ASSUME NEW valid \in BOOLEAN, EnableStarts(valid) PROVE Owned'
      BY <2>2 DEF EnableStarts, Installs, alreadyInstalled
    <2>3. CASE \/ EmitRecord \/ EnableAgain \/ StopLogging \/ UNCHANGED vars
               \/ \E c \in Channels : ReadRecord(c)
               \/ \E g \in Generations : PumpCheckStop(g) \/ PumpNothing(g) \/ PumpTakes(g) \/ PumpDelivers(g)
      <3>1. UNCHANGED <<generation, envSet, owner>>
        BY <2>3 DEF EmitRecord, EnableAgain, StopLogging, ReadRecord, PumpCheckStop, PumpNothing,
                    PumpTakes, PumpDelivers, vars
      <3> QED
        BY <3>1
    <2> QED
      BY EveryAction, <2>1, <2>2, <2>3
  <1>3. TypeInvariant /\ PumpInvariant /\ Owned => EnabledMeansCollected
    BY BoundAssumption DEF TypeInvariant, TypeOK, PumpInvariant, EnabledMeansCollected, Generations
  <1>4. Init => PumpInvariant
    BY BoundAssumption DEF Init, PumpInvariant, Generations
  <1> QED
    BY <1>1, <1>2, <1>3, <1>4, TypeInvariantHolds, PumpStep, PTL DEF Spec
-----------------------------------------------------------------------------
(* Records. One that is queued, held by a pump or delivered to a channel   *)
(* was emitted, and it is in one of these places only, once in each.       *)

OnceInvariant ==
    /\ \A i \in 1..Len(queue) : queue[i] <= emitted
    /\ \A i, j \in 1..Len(queue) : queue[i] = queue[j] => i = j
    /\ \A g \in Generations : pumpPc[g] = "lock" =>
          /\ record[g] <= emitted
          /\ \A i \in 1..Len(queue) : queue[i] # record[g]
          /\ \A h \in Generations : pumpPc[h] = "lock" /\ record[h] = record[g] => g = h
    /\ \A c \in Channels : \A k \in 1..Len(delivered[c]) :
          /\ delivered[c][k] <= emitted
          /\ \A i \in 1..Len(queue) : queue[i] # delivered[c][k]
          /\ \A g \in Generations : pumpPc[g] = "lock" => record[g] # delivered[c][k]
    /\ NothingTwice

LEMMA OnceStep == TypeInvariant /\ OnceInvariant /\ [Next]_vars => OnceInvariant'
  <1> SUFFICES ASSUME TypeInvariant, OnceInvariant, [Next]_vars PROVE OnceInvariant'
    OBVIOUS
  <1>0. /\ queue \in Seq(Records) /\ Len(queue) \in Nat /\ emitted \in Nat /\ Records \subseteq Nat
        /\ record \in [Generations -> 0..MaxRecords]
        /\ pumpPc \in [Generations -> {"none", "check", "next", "lock", "returned"}]
        /\ delivered \in [Channels -> Seq(Records)]
        /\ \A g \in Generations : pumpPc[g] = "lock" => record[g] \in Records
        /\ \A i \in 1..Len(queue) : queue[i] \in Records
        /\ \A c \in Channels : Len(delivered[c]) \in Nat
        /\ \A c \in Channels : \A k \in 1..Len(delivered[c]) : delivered[c][k] \in Records
    <2>1. queue \in Seq(Records) /\ \A c \in Channels : delivered[c] \in Seq(Records)
      BY DEF TypeInvariant, TypeOK
    <2>2. ASSUME NEW q \in Seq(Records) PROVE Len(q) \in Nat /\ \A i \in 1..Len(q) : q[i] \in Records
      BY ElementOfSeq, LenProperties
    <2>3. emitted \in Nat /\ Records \subseteq Nat
      BY BoundAssumption DEF TypeInvariant, TypeOK, Records
    <2> QED
      BY <2>1, <2>2, <2>3 DEF TypeInvariant, TypeOK
  <1> USE DEF PumpGoes, installVars, queueVars, stateVars, chanVars, pumpVars
  <1>1. CASE UNCHANGED <<emitted, queue, delivered, record>> /\ \A g \in Generations :
                 pumpPc'[g] = "lock" => pumpPc[g] = "lock"
    BY <1>1 DEF OnceInvariant, NothingTwice
  <1>2. CASE EmitRecord
    <2>1. emitted + 1 \in Records /\ emitted' = emitted + 1
      BY <1>0, <1>2, BoundAssumption DEF EmitRecord, Records
    <2>2. \A i \in 1..Len(queue') : \/ i \in 1..Len(queue) /\ queue'[i] = queue[i]
                                    \/ i = Len(queue) + 1 /\ queue'[i] = emitted + 1
      <3>1. queue' = queue \/ queue' = Append(queue, emitted + 1)
        BY <1>2 DEF EmitRecord
      <3>2. /\ Len(Append(queue, emitted + 1)) = Len(queue) + 1
            /\ \A i \in 1..Len(queue) : Append(queue, emitted + 1)[i] = queue[i]
            /\ Append(queue, emitted + 1)[Len(queue) + 1] = emitted + 1
        BY <1>0, <2>1, Appended
      <3>3. ASSUME NEW i \in 1..Len(queue')
            PROVE  \/ i \in 1..Len(queue) /\ queue'[i] = queue[i]
                   \/ i = Len(queue) + 1 /\ queue'[i] = emitted + 1
        <4>1. CASE queue' = queue
          BY <4>1
        <4>2. CASE queue' = Append(queue, emitted + 1)
          <5>1. i \in 1..Len(queue) \/ i = Len(queue) + 1
            BY <1>0, <3>2, <4>2
          <5> QED
            BY <3>2, <4>2, <5>1
        <4> QED
          BY <3>1, <4>1, <4>2
      <3> QED
        BY <3>3
    <2>3. UNCHANGED <<delivered, pumpPc, record>>
      BY <1>2 DEF EmitRecord
    <2>4. \A i, j \in 1..Len(queue') : queue'[i] = queue'[j] => i = j
      <3>1. \A i \in 1..Len(queue) : queue[i] # emitted + 1
        BY <1>0 DEF OnceInvariant
      <3>2. \A i, j \in 1..Len(queue) : queue[i] = queue[j] => i = j
        BY DEF OnceInvariant
      <3>3. ASSUME NEW i \in 1..Len(queue'), NEW j \in 1..Len(queue'), queue'[i] = queue'[j]
            PROVE  i = j
        <4>1. CASE i \in 1..Len(queue) /\ queue'[i] = queue[i]
          BY <2>2, <3>1, <3>2, <3>3, <4>1
        <4>2. CASE i = Len(queue) + 1 /\ queue'[i] = emitted + 1
          BY <2>2, <3>1, <3>3, <4>2
        <4> QED
          BY <2>2, <4>1, <4>2
      <3> QED
        BY <3>3
    <2>5. \A i \in 1..Len(queue') : queue'[i] <= emitted'
      <3>1. \A i \in 1..Len(queue) : queue[i] \in Nat /\ queue[i] <= emitted
        BY <1>0 DEF OnceInvariant
      <3>2. emitted' = emitted + 1
        BY <2>1
      <3>3. ASSUME NEW i \in 1..Len(queue') PROVE queue'[i] <= emitted'
        <4>1. \/ i \in 1..Len(queue) /\ queue'[i] = queue[i]
              \/ queue'[i] = emitted + 1
          BY <2>2
        <4>2. emitted \in Nat
          BY <1>0
        <4>3. CASE i \in 1..Len(queue) /\ queue'[i] = queue[i]
          BY <3>1, <3>2, <4>2, <4>3
        <4>4. CASE queue'[i] = emitted + 1
          BY <3>2, <4>2, <4>4
        <4> QED
          BY <4>1, <4>3, <4>4
      <3> QED
        BY <3>3
    <2>6. ASSUME NEW n \in Nat, n <= emitted, \A i \in 1..Len(queue) : queue[i] # n
          PROVE  n <= emitted' /\ \A i \in 1..Len(queue') : queue'[i] # n
      BY <1>0, <2>1, <2>2, <2>6
    <2>7. ASSUME NEW g \in Generations, pumpPc'[g] = "lock"
          PROVE  /\ record'[g] <= emitted'
                 /\ \A i \in 1..Len(queue') : queue'[i] # record'[g]
                 /\ \A h \in Generations : pumpPc'[h] = "lock" /\ record'[h] = record'[g] => g = h
      BY <1>0, <2>3, <2>6, <2>7 DEF OnceInvariant
    <2>8. ASSUME NEW c \in Channels, NEW k \in 1..Len(delivered'[c])
          PROVE  /\ delivered'[c][k] <= emitted'
                 /\ \A i \in 1..Len(queue') : queue'[i] # delivered'[c][k]
                 /\ \A g \in Generations : pumpPc'[g] = "lock" => record'[g] # delivered'[c][k]
      <3>1. delivered[c][k] \in Nat
        BY <1>0, <2>3
      <3> QED
        BY <2>3, <2>6, <3>1 DEF OnceInvariant
    <2> QED
      BY <2>3, <2>4, <2>5, <2>7, <2>8 DEF OnceInvariant, NothingTwice
  <1>3. ASSUME NEW g \in Generations, PumpTakes(g) PROVE OnceInvariant'
    <2>1. /\ \A i \in 1..Len(queue') : i + 1 \in 1..Len(queue) /\ queue'[i] = queue[i + 1]
          /\ 1 \in 1..Len(queue) /\ record' = [record EXCEPT ![g] = queue[1]]
          /\ Len(queue') \in Nat
      BY <1>0, <1>3, Tailed, LenProperties DEF PumpTakes
    <2>2. UNCHANGED <<delivered, emitted>> /\ pumpPc' = [pumpPc EXCEPT ![g] = "lock"] /\ pumpPc[g] = "next"
      BY <1>3 DEF PumpTakes
    <2>3. \A i \in 1..Len(queue') : queue'[i] # queue[1] /\ i + 1 # 1
      BY <1>0, <2>1 DEF OnceInvariant
    <2>4. /\ \A i \in 1..Len(queue') : queue'[i] <= emitted'
          /\ \A i, j \in 1..Len(queue') : queue'[i] = queue'[j] => i = j
      BY <1>0, <2>1, <2>2 DEF OnceInvariant
    <2>5. ASSUME NEW h \in Generations, pumpPc'[h] = "lock"
          PROVE  /\ record'[h] <= emitted'
                 /\ \A i \in 1..Len(queue') : queue'[i] # record'[h]
                 /\ \A k \in Generations : pumpPc'[k] = "lock" /\ record'[k] = record'[h] => h = k
      <3>1. record'[g] = queue[1] /\ queue[1] <= emitted
        BY <1>0, <2>1 DEF OnceInvariant
      <3>2. ASSUME NEW k \in Generations \ {g}, pumpPc'[k] = "lock"
            PROVE  /\ pumpPc[k] = "lock" /\ record'[k] = record[k] /\ record[k] <= emitted
                   /\ \A i \in 1..Len(queue) : queue[i] # record[k]
        BY <1>0, <2>1, <2>2, <3>2 DEF OnceInvariant
      <3>3. CASE h = g
        BY <2>1, <2>2, <2>3, <3>1, <3>2, <3>3
      <3>4. CASE h # g
        BY <2>1, <2>2, <2>5, <3>1, <3>2, <3>4 DEF OnceInvariant
      <3> QED
        BY <3>3, <3>4
    <2>6. ASSUME NEW c \in Channels, NEW k \in 1..Len(delivered'[c])
          PROVE  /\ delivered'[c][k] <= emitted'
                 /\ \A i \in 1..Len(queue') : queue'[i] # delivered'[c][k]
                 /\ \A h \in Generations : pumpPc'[h] = "lock" => record'[h] # delivered'[c][k]
      BY <1>0, <2>1, <2>2, <2>6 DEF OnceInvariant
    <2> QED
      BY <2>2, <2>4, <2>5, <2>6 DEF OnceInvariant, NothingTwice
  <1>4. ASSUME NEW g \in Generations, PumpDelivers(g) PROVE OnceInvariant'
    <2>1. /\ UNCHANGED <<emitted, queue>> /\ record' = [record EXCEPT ![g] = 0]
          /\ pumpPc' = [pumpPc EXCEPT ![g] = "check"] /\ pumpPc[g] = "lock"
          /\ record[g] \in Records
      BY <1>0, <1>4 DEF PumpDelivers
    <2>2. ASSUME NEW c \in Channels
          PROVE  /\ Len(delivered'[c]) \in Nat
                 /\ \A k \in 1..Len(delivered'[c]) :
                       \/ k \in 1..Len(delivered[c]) /\ delivered'[c][k] = delivered[c][k]
                       \/ k = Len(delivered[c]) + 1 /\ delivered'[c][k] = record[g]
      <3>1. delivered'[c] = delivered[c] \/ delivered'[c] = Append(delivered[c], record[g])
        BY <1>4 DEF PumpDelivers
      <3>2. /\ Len(Append(delivered[c], record[g])) = Len(delivered[c]) + 1
            /\ \A i \in 1..Len(delivered[c]) : Append(delivered[c], record[g])[i] = delivered[c][i]
            /\ Append(delivered[c], record[g])[Len(delivered[c]) + 1] = record[g]
        BY <1>0, <2>1, Appended
      <3>3. Len(delivered[c]) \in Nat
        BY <1>0
      <3> QED
        BY <3>1, <3>2, <3>3
    <2>3. ASSUME NEW c \in Channels, NEW k \in 1..Len(delivered'[c])
          PROVE  /\ delivered'[c][k] <= emitted'
                 /\ \A i \in 1..Len(queue') : queue'[i] # delivered'[c][k]
                 /\ \A h \in Generations : pumpPc'[h] = "lock" => record'[h] # delivered'[c][k]
      <3>1. \A h \in Generations : pumpPc'[h] = "lock" =>
                h # g /\ pumpPc[h] = "lock" /\ record'[h] = record[h] /\ record[h] # record[g]
        BY <1>0, <2>1 DEF OnceInvariant
      <3>2. CASE k \in 1..Len(delivered[c]) /\ delivered'[c][k] = delivered[c][k]
        BY <2>1, <3>1, <3>2 DEF OnceInvariant
      <3>3. CASE delivered'[c][k] = record[g]
        BY <2>1, <3>1, <3>3 DEF OnceInvariant
      <3> QED
        BY <2>2, <3>2, <3>3
    <2>4. ASSUME NEW c \in Channels, NEW i \in 1..Len(delivered'[c]), NEW j \in 1..Len(delivered'[c]),
                 delivered'[c][i] = delivered'[c][j]
          PROVE  i = j
      <3>1. \A k \in 1..Len(delivered[c]) : delivered[c][k] # record[g]
        BY <2>1 DEF OnceInvariant
      <3>2. CASE i \in 1..Len(delivered[c]) /\ j \in 1..Len(delivered[c])
        BY <1>0, <2>2, <2>4, <3>2 DEF OnceInvariant, NothingTwice
      <3>3. CASE i \in 1..Len(delivered[c]) /\ j = Len(delivered[c]) + 1 /\ delivered'[c][j] = record[g]
        BY <1>0, <2>2, <2>4, <3>1, <3>3
      <3>4. CASE j \in 1..Len(delivered[c]) /\ i = Len(delivered[c]) + 1 /\ delivered'[c][i] = record[g]
        BY <1>0, <2>2, <2>4, <3>1, <3>4
      <3> QED
        BY <2>2, <3>2, <3>3, <3>4
    <2>5. \A h \in Generations : pumpPc'[h] = "lock" => pumpPc[h] = "lock" /\ record'[h] = record[h]
      BY <1>0, <2>1
    <2> QED
      BY <2>1, <2>3, <2>4, <2>5 DEF OnceInvariant, NothingTwice
  <1>5. ASSUME \/ HostInstall \/ OpenClient \/ EnableAgain \/ StopLogging \/ UNCHANGED vars
               \/ \E valid \in BOOLEAN : EnableStarts(valid)
               \/ \E c \in Channels : ReadRecord(c)
               \/ \E g \in Generations : PumpCheckStop(g) \/ PumpNothing(g)
        PROVE  OnceInvariant'
    <2>1. UNCHANGED <<emitted, queue, delivered, record>>
      BY <1>5 DEF HostInstall, OpenClient, EnableAgain, StopLogging, EnableStarts, ReadRecord,
                  PumpCheckStop, PumpNothing, vars
    <2>2. \A g \in Generations : pumpPc'[g] = "lock" => pumpPc[g] = "lock"
      BY <1>0, <1>5 DEF HostInstall, OpenClient, EnableAgain, StopLogging, EnableStarts, ReadRecord,
                        PumpCheckStop, PumpNothing, vars
    <2> QED
      BY <1>1, <2>1, <2>2
  <1> QED
    BY EveryAction, <1>2, <1>3, <1>4, <1>5

\* However many pumps of earlier generations still take records beside the
\* current one, no channel is sent a record twice.
THEOREM SentOnce == Spec => []NothingTwice
  <1>1. Init => OnceInvariant
    BY DEF Init, OnceInvariant, NothingTwice
  <1>2. OnceInvariant => NothingTwice
    BY DEF OnceInvariant, NothingTwice
  <1> QED
    BY <1>1, <1>2, TypeInvariantHolds, OnceStep, PTL DEF Spec
=============================================================================
