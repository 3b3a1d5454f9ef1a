---------------------------- MODULE DataDirProofs ----------------------------
(***************************************************************************)
(* Proofs about DataDir, for every set of clients, whatever configurations *)
(* they are opened with and whatever earlier runs left in the directory.   *)
(***************************************************************************)
EXTENDS DataDir, TLAPS

\* Every step is one of these.
LEMMA EveryAction ==
    ASSUME [Next]_vars
    PROVE  \/ \E c \in Clients :
                  \/ Open(c) \/ OpenRefused(c) \/ PurgeFails(c) \/ Create(c) \/ CreateFails(c)
                  \/ Start(c) \/ StartFails(c) \/ FreeFailed(c) \/ Launch(c) \/ Shutdown(c)
                  \/ Free(c) \/ Crash(c) \/ Dispose(c)
                  \/ \E n \in Names : Visit(c, n) \/ OnionDel(c, n) \/ WindDown(c, n)
           \/ UNCHANGED vars
  BY DEF Next, Opens

LEMMA PortRange == MaxPort \in Nat /\ MaxPort > 0
  BY DEF MaxPort

\* What SocksPort reads out of what Open writes, for every integer.
LEMMA Ports ==
    ASSUME NEW cfg, cfg.SocksPort \in Int
    PROVE  /\ cfg.SocksPort <= 0 => SocksPort(artiConfig(cfg).socks_port) = AutoPort
           /\ cfg.SocksPort \in 1..MaxPort =>
                SocksPort(artiConfig(cfg).socks_port) = Fixed(cfg.SocksPort)
           /\ cfg.SocksPort > MaxPort => SocksPort(artiConfig(cfg).socks_port) = Disabled
  <1> DEFINE n == cfg.SocksPort
  <1> HIDE DEF n
  <1>1. artiConfig(cfg).socks_port = IF n > 0 THEN Number(n) ELSE Word("auto")
    BY DEF artiConfig, n
  <1>2. Number(n).text = "digits" /\ Number(n).value = n /\ Word("auto").text = "auto"
    BY DEF Number, Word
  <1>3. Number(n) # Word("auto")
    BY <1>2
  <1>4. SocksPort(Word("auto")) = AutoPort
    BY DEF SocksPort
  <1>5. ASSUME n \in Int, n # 0
        PROVE  SocksPort(Number(n)) = IF n \in 1..MaxPort THEN Fixed(n) ELSE Disabled
    BY <1>2, <1>3, <1>5 DEF SocksPort
  <1>6. n \in Int
    BY DEF n
  <1>7. /\ n <= 0 => SocksPort(artiConfig(cfg).socks_port) = AutoPort
        /\ n \in 1..MaxPort => SocksPort(artiConfig(cfg).socks_port) = Fixed(n)
        /\ n > MaxPort => SocksPort(artiConfig(cfg).socks_port) = Disabled
    BY <1>1, <1>4, <1>5, <1>6, PortRange
  <1> QED
    BY <1>7 DEF n

\* The three outcomes differ.
LEMMA Kinds ==
    ASSUME NEW n
    PROVE  /\ AutoPort.kind = "auto" /\ Disabled.kind = "disabled"
           /\ Fixed(n).kind = "fixed" /\ Fixed(n).port = n
  BY DEF AutoPort, Disabled, Fixed

LEMMA TypeStep == TypeOK /\ [Next]_vars => TypeOK'
  <1> SUFFICES ASSUME TypeOK, [Next]_vars PROVE TypeOK'
    OBVIOUS
  <1> USE DEF TypeOK, Goes, lifeVars, purgeVars, svcVars, Ended
  <1>1. ASSUME NEW c \in Clients, Open(c) PROVE TypeOK'
    BY <1>1 DEF Open
  <1>2. ASSUME NEW c \in Clients, OpenRefused(c) PROVE TypeOK'
    BY <1>2 DEF OpenRefused
  <1>3. ASSUME NEW c \in Clients, Dispose(c) \/ \E n \in Names : Visit(c, n) PROVE TypeOK'
    BY <1>3 DEF Dispose, Visit, Visits
  <1>4. ASSUME NEW c \in Clients, PurgeFails(c) PROVE TypeOK'
    BY <1>4 DEF PurgeFails, LetGo
  <1>5. ASSUME NEW c \in Clients, Create(c) PROVE TypeOK'
    BY <1>5 DEF Create
  <1>6. ASSUME NEW c \in Clients, CreateFails(c) PROVE TypeOK'
    BY <1>6 DEF CreateFails
  <1>7. ASSUME NEW c \in Clients, Start(c) PROVE TypeOK'
    <2>1. asked[c].SocksPort \in Int
      <3>1. asked[c] \in Configs
        BY AskedAssumption
      <3> QED
        BY <3>1 DEF Configs
    <2>2. Socks(c).kind = "fixed" => Socks(c).port \in 0..MaxPort
      BY <2>1, Ports, Kinds, PortRange DEF Socks
    <2>3. bound' \in [Clients -> 0..MaxPort]
      BY <1>7, <2>2, EphemeralAssumption DEF Start, Binds
    <2> QED
      BY <1>7, <2>3 DEF Start
  <1>8. ASSUME NEW c \in Clients, StartFails(c) PROVE TypeOK'
    BY <1>8 DEF StartFails
  <1>9. ASSUME NEW c \in Clients, FreeFailed(c) PROVE TypeOK'
    BY <1>9 DEF FreeFailed
  <1>10. ASSUME NEW c \in Clients, Launch(c) PROVE TypeOK'
    BY <1>10 DEF Launch, unique_service_slug
  <1>11. ASSUME NEW c \in Clients, NEW n \in Names, OnionDel(c, n) PROVE TypeOK'
    BY <1>11 DEF OnionDel
  <1>12. ASSUME NEW c \in Clients, NEW n \in Names, WindDown(c, n) PROVE TypeOK'
    BY <1>12 DEF WindDown
  <1>13. ASSUME NEW c \in Clients, Shutdown(c) PROVE TypeOK'
    BY <1>13 DEF Shutdown
  <1>14. ASSUME NEW c \in Clients, Free(c) PROVE TypeOK'
    BY <1>14, PortRange DEF Free, Vanishes, LetGo
  <1>15. ASSUME NEW c \in Clients, Crash(c) PROVE TypeOK'
    BY <1>15, PortRange DEF Crash, Vanishes, LetGo
  <1>16. CASE UNCHANGED vars
    BY <1>16 DEF vars
  <1> QED
    BY EveryAction, <1>1, <1>2, <1>3, <1>4, <1>5, <1>6, <1>7, <1>8, <1>9, <1>10, <1>11, <1>12,
       <1>13, <1>14, <1>15, <1>16

\* Every variable keeps its type.
THEOREM TypeCorrect == Spec => []TypeOK
  <1>1. Init => TypeOK
    BY NamesAssumption, PortRange DEF Init, TypeOK, Nothing
  <1> QED
    BY <1>1, TypeStep, PTL DEF Spec
-----------------------------------------------------------------------------
(* The directory. Everything in it was left by an earlier run or belongs   *)
(* to a nickname some client has used; what is locked is there, and has    *)
(* one holder. An instance that is old to a purge can neither be in use    *)
(* nor come back.                                                          *)

Used == Before \union UNION {mine[c] : c \in Clients}

DiskInvariant ==
    /\ disk \subseteq Used
    /\ NoLiveStatePurged
    /\ Held(Clients) \intersect InUse = {}
    /\ \A c \in Clients : \A d \in Clients \ {c} : held[c] \intersect held[d] = {}
    /\ \A c \in Clients : pc[c] # "purge" => held[c] = {}

PurgeInvariant ==
    \A c \in Clients :
        /\ old[c] \subseteq Used
        /\ old[c] \intersect InUse = {}
        /\ swept[c] => old[c] \intersect disk \subseteq todo[c] \union dropped[c] \union Held(Clients)
        /\ pc[c] \in {"start", "running", "failing", "draining"} => todo[c] = {}

\* What any step may do to the directory and to the services that use it:
\* only names never used are added, and nothing in use is removed.
LEMMA DiskSteps ==
    ASSUME TypeOK, DiskInvariant, [Next]_vars
    PROVE  /\ Used \subseteq Used'
           /\ disk' \ disk \subseteq Used' \ Used
           /\ InUse' \ InUse \subseteq (Used' \ Used) \intersect disk'
           /\ (disk \ disk') \intersect InUse = {}
  <1> DEFINE Goal == /\ Used \subseteq Used'
                     /\ disk' \ disk \subseteq Used' \ Used
                     /\ InUse' \ InUse \subseteq (Used' \ Used) \intersect disk'
                     /\ (disk \ disk') \intersect InUse = {}
  <1> USE DEF Goes, lifeVars, purgeVars, svcVars
  <1>1. ASSUME UNCHANGED <<svcVars, disk>> PROVE Goal
    BY <1>1 DEF Used, InUse
  <1>2. ASSUME NEW c \in Clients, Dispose(c) PROVE Goal
    <2>1. Used' = Used /\ InUse' = InUse
      BY <1>2 DEF Dispose, Used, InUse
    <2>2. disk' = disk \ held[c] /\ held[c] \intersect InUse = {}
      BY <1>2 DEF Dispose, DiskInvariant, Held
    <2> QED
      BY <2>1, <2>2
  <1>3. ASSUME NEW c \in Clients, Launch(c) PROVE Goal
    <2>1. PICK n \in unique_service_slug(c) :
            /\ serving' = [serving EXCEPT ![c] = @ \union {n}]
            /\ mine' = [mine EXCEPT ![c] = @ \union {n}]
            /\ disk' = disk \union {n}
      BY <1>3 DEF Launch
    <2>2. n \notin Used
      BY <2>1 DEF unique_service_slug, Used
    <2>3. Used' = Used \union {n}
      BY <2>1 DEF Used, TypeOK
    <2>4. InUse' \subseteq InUse \union {n}
      BY <1>3, <2>1 DEF Launch, InUse, TypeOK
    <2> QED
      BY <2>1, <2>2, <2>3, <2>4
  <1>4. ASSUME NEW c \in Clients, \/ Shutdown(c) \/ Free(c) \/ Crash(c)
                                 \/ \E n \in Names : OnionDel(c, n) \/ WindDown(c, n)
        PROVE  Goal
    <2>1. UNCHANGED <<mine, disk>>
      BY <1>4 DEF Shutdown, Free, Crash, OnionDel, WindDown, Vanishes
    <2>2. \A d \in Clients : serving'[d] \union winding'[d] \subseteq serving[d] \union winding[d]
      BY <1>4 DEF Shutdown, Free, Crash, OnionDel, WindDown, Vanishes, TypeOK
    <2>3. InUse' \subseteq InUse
      BY <2>2 DEF InUse
    <2> QED
      BY <2>1, <2>3 DEF Used
  <1>5. ASSUME NEW c \in Clients,
               \/ Open(c) \/ OpenRefused(c) \/ PurgeFails(c) \/ Create(c) \/ CreateFails(c)
               \/ Start(c) \/ StartFails(c) \/ FreeFailed(c) \/ \E n \in Names : Visit(c, n)
        PROVE  Goal
    <2>1. UNCHANGED <<svcVars, disk>>
      BY <1>5 DEF Open, OpenRefused, PurgeFails, Create, CreateFails, Start, StartFails, FreeFailed,
                  Visit, Visits
    <2> QED
      BY <1>1, <2>1
  <1>6. ASSUME UNCHANGED vars PROVE Goal
    BY <1>1, <1>6 DEF vars
  <1>7. Goal
    BY EveryAction, <1>2, <1>3, <1>4, <1>5, <1>6
  <1> QED
    BY <1>7

\* Only the visits of a purge add to what is held, and only its disposals take
\* anything from the directory.
LEMMA HeldSteps ==
    ASSUME TypeOK, DiskInvariant, [Next]_vars
    PROVE  \/ /\ \A d \in Clients : held'[d] \subseteq held[d]
              /\ \A d \in Clients : pc'[d] # "purge" => held'[d] = {}
              /\ disk \subseteq disk'
           \/ \E c \in Clients : Dispose(c) \/ \E n \in Names : Visit(c, n)
  <1> USE DEF Goes, lifeVars, purgeVars, svcVars, TypeOK, DiskInvariant
  <1> DEFINE Goal == /\ \A d \in Clients : held'[d] \subseteq held[d]
                     /\ \A d \in Clients : pc'[d] # "purge" => held'[d] = {}
                     /\ disk \subseteq disk'
  <1>1. ASSUME NEW c \in Clients, Free(c) \/ Crash(c) \/ PurgeFails(c) PROVE Goal
    BY <1>1 DEF Free, Crash, PurgeFails, Vanishes, LetGo
  <1>2. ASSUME NEW c \in Clients, Create(c) \/ CreateFails(c) PROVE Goal
    BY <1>2 DEF Create, CreateFails, PurgeOver
  <1>3. ASSUME NEW c \in Clients,
               \/ Open(c) \/ OpenRefused(c) \/ Start(c) \/ StartFails(c) \/ FreeFailed(c)
               \/ Launch(c) \/ Shutdown(c) \/ \E n \in Names : OnionDel(c, n) \/ WindDown(c, n)
        PROVE  Goal
    BY <1>3 DEF Open, OpenRefused, Start, StartFails, FreeFailed, Launch, Shutdown, OnionDel, WindDown
  <1>4. ASSUME UNCHANGED vars PROVE Goal
    BY <1>4 DEF vars
  <1> QED
    BY EveryAction, <1>1, <1>2, <1>3, <1>4

LEMMA DiskStep == TypeOK /\ DiskInvariant /\ [Next]_vars => DiskInvariant'
  <1> SUFFICES ASSUME TypeOK, DiskInvariant, [Next]_vars PROVE DiskInvariant'
    OBVIOUS
  <1>1. disk' \subseteq Used' /\ InUse' \subseteq disk'
    BY DiskSteps DEF DiskInvariant, NoLiveStatePurged, Locked
  <1>2. ASSUME /\ \A d \in Clients : held'[d] \subseteq held[d]
               /\ \A d \in Clients : pc'[d] # "purge" => held'[d] = {}
               /\ disk \subseteq disk'
        PROVE  DiskInvariant'
    <2>1. Held(Clients)' \subseteq Held(Clients)
      BY <1>2 DEF Held
    <2>2. Held(Clients) \subseteq Used /\ Held(Clients) \subseteq disk
      BY DEF DiskInvariant, NoLiveStatePurged, Locked
    <2>3. Held(Clients)' \subseteq disk' /\ Held(Clients)' \intersect InUse' = {}
      BY <1>2, <2>1, <2>2, DiskSteps DEF DiskInvariant
    <2> QED
      BY <1>1, <1>2, <2>3 DEF DiskInvariant, NoLiveStatePurged, Locked
  <1>3. ASSUME NEW c \in Clients, Dispose(c) PROVE DiskInvariant'
    <2>1. /\ UNCHANGED <<svcVars, pc>> /\ held' = [held EXCEPT ![c] = {}] /\ disk' = disk \ held[c]
          /\ pc[c] = "purge"
      BY <1>3 DEF Dispose
    <2>2. InUse' = InUse
      BY <2>1 DEF InUse, svcVars
    <2>3. \A d \in Clients : held'[d] \subseteq held[d] \ held[c]
      BY <2>1 DEF TypeOK, DiskInvariant
    <2>4. Held(Clients)' \subseteq Held(Clients) \ held[c]
      BY <2>3 DEF Held
    <2>5. Held(Clients)' \subseteq disk' /\ Held(Clients)' \intersect InUse' = {}
      BY <2>1, <2>2, <2>4 DEF DiskInvariant, NoLiveStatePurged, Locked
    <2>6. \A d \in Clients : pc'[d] # "purge" => held'[d] = {}
      BY <2>1, <2>3 DEF DiskInvariant
    <2> QED
      BY <1>1, <2>3, <2>5, <2>6 DEF DiskInvariant, NoLiveStatePurged, Locked
  <1>4. ASSUME NEW c \in Clients, NEW n \in Names, Visit(c, n) PROVE DiskInvariant'
    <2> DEFINE H == ({n} \intersect disk) \ Locked
    <2>1. /\ UNCHANGED <<svcVars, pc, disk>> /\ held' = [held EXCEPT ![c] = H] /\ pc[c] = "purge"
      BY <1>4 DEF Visit, Visits
    <2>2. InUse' = InUse
      BY <2>1 DEF InUse, svcVars
    <2>3. held'[c] = H /\ \A d \in Clients \ {c} : held'[d] = held[d]
      BY <2>1 DEF TypeOK
    <2>4. H \subseteq disk /\ H \intersect InUse = {} /\ \A d \in Clients : H \intersect held[d] = {}
      BY DEF Locked, Held
    <2> HIDE DEF H
    <2>5. Held(Clients)' \subseteq Held(Clients) \union H
      BY <2>3 DEF Held
    <2>6. Held(Clients)' \subseteq disk' /\ Held(Clients)' \intersect InUse' = {}
      BY <2>1, <2>2, <2>4, <2>5 DEF DiskInvariant, NoLiveStatePurged, Locked
    <2>7. \A d \in Clients : \A e \in Clients \ {d} : held'[d] \intersect held'[e] = {}
      BY <2>3, <2>4 DEF DiskInvariant
    <2>8. \A d \in Clients : pc'[d] # "purge" => held'[d] = {}
      BY <2>1, <2>3 DEF DiskInvariant
    <2> QED
      BY <1>1, <2>6, <2>7, <2>8 DEF DiskInvariant, NoLiveStatePurged, Locked
  <1> QED
    BY HeldSteps, <1>2, <1>3, <1>4

LEMMA DiskCorrect == Spec => []DiskInvariant
  <1>1. Init => DiskInvariant
    BY DEF Init, DiskInvariant, NoLiveStatePurged, Used, Locked, InUse, Held, Nothing
  <1> QED
    BY <1>1, TypeCorrect, DiskStep, PTL DEF Spec

\* No purge removes the state of a service that runs or winds down, of
\* whatever client, nor what another purge holds, however many clients share
\* the directory.
THEOREM LiveStateKept == Spec => []NoLiveStatePurged
  <1>1. DiskInvariant => NoLiveStatePurged
    BY DEF DiskInvariant
  <1> QED
    BY <1>1, DiskCorrect, PTL

\* No service is launched over state that is there already. It rests on
\* nicknames that do not repeat, which the code leaves to 64 random bits.
THEOREM LaunchesMeetNothing == Spec => LaunchMeetsNothing
  <1> DEFINE Fresh == \A c \in Clients : (serving'[c] \ serving[c]) \intersect disk = {}
  <1>1. TypeOK /\ DiskInvariant /\ [Next]_vars => [Fresh]_vars
    <2> SUFFICES ASSUME TypeOK, DiskInvariant, [Next]_vars PROVE Fresh
      OBVIOUS
    <2> USE DEF Goes, lifeVars, purgeVars, svcVars, TypeOK
    <2>1. ASSUME NEW c \in Clients, Launch(c) PROVE Fresh
      <3>1. PICK n \in unique_service_slug(c) : serving' = [serving EXCEPT ![c] = @ \union {n}]
        BY <2>1 DEF Launch
      <3>2. n \notin disk
        BY <3>1 DEF unique_service_slug, DiskInvariant, Used
      <3> QED
        BY <3>1, <3>2
    <2>2. ASSUME NEW c \in Clients,
                 \/ Open(c) \/ OpenRefused(c) \/ PurgeFails(c) \/ Create(c) \/ CreateFails(c)
                 \/ Start(c) \/ StartFails(c) \/ FreeFailed(c) \/ Shutdown(c) \/ Free(c) \/ Crash(c)
                 \/ Dispose(c) \/ \E n \in Names : Visit(c, n) \/ OnionDel(c, n) \/ WindDown(c, n)
          PROVE  Fresh
      <3>1. \A d \in Clients : serving'[d] \subseteq serving[d]
        BY <2>2 DEF Open, OpenRefused, PurgeFails, Create, CreateFails, Start, StartFails, FreeFailed,
                    Shutdown, Free, Crash, Dispose, Visit, Visits, OnionDel, WindDown, Vanishes
      <3> QED
        BY <3>1
    <2>3. ASSUME UNCHANGED vars PROVE Fresh
      BY <2>3 DEF vars
    <2> QED
      BY EveryAction, <2>1, <2>2, <2>3
  <1> QED
    BY <1>1, TypeCorrect, DiskCorrect, PTL DEF Spec, LaunchMeetsNothing

LEMMA PurgeStep ==
    TypeOK /\ DiskInvariant /\ PurgeInvariant /\ [Next]_vars => PurgeInvariant'
  <1> SUFFICES ASSUME TypeOK, DiskInvariant, PurgeInvariant, [Next]_vars,
                      NEW d \in Clients
               PROVE  /\ old'[d] \subseteq Used'
                      /\ old'[d] \intersect InUse' = {}
                      /\ swept'[d] => old'[d] \intersect disk' \subseteq
                                          todo'[d] \union dropped'[d] \union Held(Clients)'
                      /\ pc'[d] \in {"start", "running", "failing", "draining"} => todo'[d] = {}
    BY DEF PurgeInvariant
  <1> DEFINE Live == {"start", "running", "failing", "draining"}
             Cover == todo[d] \union dropped[d] \union Held(Clients)
             CoverAfter == todo'[d] \union dropped'[d] \union Held(Clients)'
             Goal == /\ old'[d] \subseteq Used'
                     /\ old'[d] \intersect InUse' = {}
                     /\ swept'[d] => old'[d] \intersect disk' \subseteq CoverAfter
                     /\ pc'[d] \in Live => todo'[d] = {}
  <1>0. /\ old[d] \subseteq Used /\ old[d] \intersect InUse = {}
        /\ swept[d] => old[d] \intersect disk \subseteq Cover
        /\ pc[d] \in Live => todo[d] = {}
    BY DEF PurgeInvariant
  <1> USE DEF Goes, lifeVars, purgeVars, svcVars, TypeOK
  <1>1. ASSUME NEW c \in Clients, Open(c) PROVE Goal
    <2>1. Used' = Used /\ InUse' = InUse /\ disk' = disk /\ Held(Clients)' = Held(Clients)
      BY <1>1 DEF Open, Used, InUse, Held
    <2>2. CASE c = d
      <3>1. /\ old'[d] = disk \ Locked /\ todo'[d] = disk
            /\ pc'[d] = "purge"
        BY <1>1, <2>2 DEF Open
      <3> QED
        BY <2>1, <3>1 DEF DiskInvariant, Locked
    <2>3. CASE c # d
      BY <1>0, <1>1, <2>1, <2>3 DEF Open
    <2> QED
      BY <2>2, <2>3
  <1>2. ASSUME UNCHANGED old PROVE old'[d] \subseteq Used' /\ old'[d] \intersect InUse' = {}
    BY <1>0, <1>2, DiskSteps
  <1>3. ASSUME NEW c \in Clients, NEW n \in Names, Visit(c, n) PROVE Goal
    <2>1. UNCHANGED <<old, swept, pc, disk, dropped, svcVars>>
      BY <1>3 DEF Visit, Visits
    <2>2. todo[d] \ {n} \subseteq todo'[d] /\ todo'[d] \subseteq todo[d]
      BY <1>3 DEF Visit, Visits
    <2>3. /\ held[c] = {} /\ held'[c] = ({n} \intersect disk) \ Locked
          /\ \A e \in Clients \ {c} : held'[e] = held[e]
      BY <1>3 DEF Visit, Visits
    <2>4. Held(Clients) \subseteq Held(Clients)' /\ held'[c] \subseteq Held(Clients)'
      BY <2>3 DEF Held
    <2>5. n \in disk /\ n \notin InUse => n \in Held(Clients)'
      BY <2>3, <2>4 DEF Locked
    <2>6. swept'[d] => old'[d] \intersect disk' \subseteq CoverAfter
      BY <1>0, <2>1, <2>2, <2>4, <2>5
    <2> QED
      BY <1>0, <1>2, <2>1, <2>2, <2>6
  <1>4. ASSUME NEW c \in Clients, Dispose(c) PROVE Goal
    <2>1. UNCHANGED <<old, swept, pc, todo, dropped, svcVars>> /\ disk' = disk \ held[c]
      BY <1>4 DEF Dispose
    <2>2. \A e \in Clients \ {c} : held'[e] = held[e]
      BY <1>4 DEF Dispose
    <2>3. Held(Clients) \ held[c] \subseteq Held(Clients)'
      BY <2>2 DEF Held
    <2>4. swept'[d] => old'[d] \intersect disk' \subseteq CoverAfter
      BY <1>0, <2>1, <2>3
    <2> QED
      BY <1>0, <1>2, <2>1, <2>4
  <1>5. ASSUME NEW c \in Clients, LetGo(c), UNCHANGED <<old, disk>>,
               swept'[d] => swept[d] /\ todo'[d] = todo[d],
               pc'[d] \in Live => todo'[d] = {}
        PROVE  Goal
    <2>1. \A e \in Clients \ {c} : held'[e] = held[e]
      BY <1>5 DEF LetGo
    <2>2. Held(Clients) \ held[c] \subseteq Held(Clients)'
      BY <2>1 DEF Held
    <2>3. dropped'[d] = dropped[d] \union (held[c] \intersect old[d])
      BY <1>5 DEF LetGo
    <2>4. swept'[d] => old'[d] \intersect disk' \subseteq CoverAfter
      BY <1>0, <1>5, <2>2, <2>3
    <2> QED
      BY <1>2, <1>5, <2>4
  <1>6. ASSUME NEW c \in Clients, PurgeFails(c) \/ Free(c) \/ Crash(c) PROVE Goal
    <2>1. LetGo(c) /\ UNCHANGED <<old, disk>>
      BY <1>6 DEF PurgeFails, Free, Crash, Vanishes
    <2>2. /\ swept'[d] => swept[d] /\ todo'[d] = todo[d]
          /\ pc'[d] \in Live => todo'[d] = {}
      BY <1>0, <1>6 DEF PurgeFails, Free, Crash, Vanishes
    <2> QED
      BY <1>5, <2>1, <2>2
  <1>7. ASSUME UNCHANGED purgeVars, pc'[d] \in Live => todo[d] = {} \/ pc[d] \in Live
        PROVE  Goal
    <2>1. (disk' \ disk) \intersect old[d] = {}
      BY <1>0, DiskSteps
    <2>2. Held(Clients)' = Held(Clients)
      BY <1>7 DEF Held
    <2> QED
      BY <1>0, <1>2, <1>7, <2>1, <2>2
  <1>8. ASSUME NEW c \in Clients,
               \/ OpenRefused(c) \/ Create(c) \/ CreateFails(c) \/ Start(c) \/ StartFails(c)
               \/ FreeFailed(c) \/ Launch(c) \/ Shutdown(c)
               \/ \E n \in Names : OnionDel(c, n) \/ WindDown(c, n)
        PROVE  Goal
    <2>1. UNCHANGED purgeVars
      BY <1>8 DEF OpenRefused, Create, CreateFails, Start, StartFails, FreeFailed, Launch, Shutdown,
                  OnionDel, WindDown
    <2>2. pc'[d] \in Live => todo[d] = {} \/ pc[d] \in Live
      BY <1>8 DEF OpenRefused, Create, CreateFails, Start, StartFails, FreeFailed, Launch, Shutdown,
                  OnionDel, WindDown, PurgeOver
    <2> QED
      BY <1>7, <2>1, <2>2
  <1>9. ASSUME UNCHANGED vars PROVE Goal
    BY <1>7, <1>9 DEF vars
  <1>10. Goal
    BY EveryAction, <1>1, <1>3, <1>4, <1>6, <1>8, <1>9
  <1> QED
    BY <1>10

\* What was in the directory unheld when a purge began is gone, for good, when
\* the purge is over without an error, but for what another purge has in its
\* hands or has let go of: of any number of purges at the same time.
THEOREM OldStateGone == Spec => []OldStateGoes
  <1>1. Init => PurgeInvariant
    BY DEF Init, PurgeInvariant, Nothing
  <1>2. DiskInvariant /\ PurgeInvariant => OldStateGoes
    <2> SUFFICES ASSUME DiskInvariant, PurgeInvariant, NEW c \in Clients, swept[c],
                        pc[c] \in {"start", "running", "failing", "draining"}
                 PROVE  old[c] \intersect disk \subseteq dropped[c] \union Held(Clients \ {c})
      BY DEF OldStateGoes
    <2>1. held[c] = {} /\ todo[c] = {}
      BY DEF DiskInvariant, PurgeInvariant
    <2>2. Held(Clients) \subseteq Held(Clients \ {c})
      BY <2>1 DEF Held
    <2>3. old[c] \intersect disk \subseteq todo[c] \union dropped[c] \union Held(Clients)
      BY DEF PurgeInvariant
    <2> QED
      BY <2>1, <2>2, <2>3
  <1> QED
    BY <1>1, <1>2, TypeCorrect, DiskCorrect, PurgeStep, PTL DEF Spec
-----------------------------------------------------------------------------
(* The clients: what each holds at each point of its life.                 *)

Live == {"start", "running", "failing", "draining"}

LifeInvariant ==
    \A c \in Clients :
        /\ built[c] => pc[c] \in Live
        /\ pc[c] \in Live \union {"purge"} => Accepts(artiConfig(asked[c]))
        /\ bound[c] # 0 => pc[c] \in {"running", "draining"}
        /\ serving[c] # {} => pc[c] = "running"
        /\ winding[c] # {} => pc[c] \in {"running", "draining"}

LEMMA LifeStep == TypeOK /\ LifeInvariant /\ [Next]_vars => LifeInvariant'
  <1> SUFFICES ASSUME TypeOK, LifeInvariant, [Next]_vars PROVE LifeInvariant'
    OBVIOUS
  <1> USE DEF TypeOK, LifeInvariant, Live, Goes, lifeVars, purgeVars, svcVars
  <1>1. ASSUME NEW c \in Clients,
               \/ Open(c) \/ OpenRefused(c) \/ PurgeFails(c) \/ Dispose(c)
               \/ \E n \in Names : Visit(c, n)
        PROVE  LifeInvariant'
    BY <1>1 DEF Open, OpenRefused, PurgeFails, Dispose, Visit, Visits
  <1>2. ASSUME NEW c \in Clients, Create(c) \/ CreateFails(c) \/ FreeFailed(c) \/ StartFails(c)
        PROVE  LifeInvariant'
    BY <1>2 DEF Create, CreateFails, FreeFailed, StartFails
  <1>3. ASSUME NEW c \in Clients, Start(c) PROVE LifeInvariant'
    <2>1. \A d \in Clients \ {c} : bound'[d] = bound[d]
      BY <1>3 DEF Start, Binds
    <2> QED
      BY <1>3, <2>1 DEF Start
  <1>4. ASSUME NEW c \in Clients,
               Launch(c) \/ \E n \in Names : OnionDel(c, n) \/ WindDown(c, n)
        PROVE  LifeInvariant'
    BY <1>4 DEF Launch, OnionDel, WindDown
  <1>5. ASSUME NEW c \in Clients, Shutdown(c) PROVE LifeInvariant'
    BY <1>5 DEF Shutdown
  <1>6. ASSUME NEW c \in Clients, Free(c) \/ Crash(c) PROVE LifeInvariant'
    BY <1>6, PortRange DEF Free, Crash, Vanishes, Ended
  <1>7. CASE UNCHANGED vars
    BY <1>7 DEF vars
  <1> QED
    BY EveryAction, <1>1, <1>2, <1>3, <1>4, <1>5, <1>6, <1>7

LEMMA LifeCorrect == Spec => []LifeInvariant
  <1>1. Init => LifeInvariant
    BY DEF Init, LifeInvariant, Live, Nothing
  <1> QED
    BY <1>1, TypeCorrect, LifeStep, PTL DEF Spec

\* However a client ends, refused, failed, closed or crashed, nothing of it is
\* left but the directory.
THEOREM CleanEnd == Spec => []NothingLeftBehind
  <1>1. DiskInvariant /\ LifeInvariant => NothingLeftBehind
    BY DEF DiskInvariant, LifeInvariant, NothingLeftBehind, Live, Ended
  <1> QED
    BY <1>1, DiskCorrect, LifeCorrect, PTL

\* There is no client that uses fewer bridges than it was given: for every set
\* of lines, of which any part may fail to parse.
THEOREM BridgesUsed == Spec => []BridgesObeyed
  <1>1. ASSUME NEW cfg
        PROVE  /\ artiConfig(cfg).use_bridges = (cfg.Bridges # {})
               /\ artiConfig(cfg).bridges = cfg.Bridges
    BY DEF artiConfig
  <1>2. ASSUME NEW cfg PROVE BridgesOf(artiConfig(cfg)) = cfg.Bridges
    BY <1>1 DEF BridgesOf
  <1>3. LifeInvariant => BridgesObeyed
    BY <1>2 DEF LifeInvariant, BridgesObeyed, Accepts
  <1> QED
    BY <1>3, LifeCorrect, PTL

\* The listener is where the caller asked for, for every integer, and no two
\* clients share one.
THEOREM SocksCorrect == Spec => []SocksAsAsked
  <1>1. Init => SocksAsAsked
    BY DEF Init, SocksAsAsked
  <1>2. ASSUME TypeOK, LifeInvariant, SocksAsAsked, [Next]_vars PROVE SocksAsAsked'
    <2> USE DEF TypeOK, Goes, lifeVars, purgeVars, svcVars
    <2>1. ASSUME UNCHANGED <<asked, bound>>,
                 \A c \in Clients : pc'[c] = "running" => pc[c] = "running"
          PROVE  SocksAsAsked'
      BY <1>2, <2>1 DEF SocksAsAsked
    <2>2. ASSUME NEW c \in Clients, Start(c) PROVE SocksAsAsked'
      <3> DEFINE n == asked[c].SocksPort
      <3>1. n \in Int
        <4>1. asked[c] \in Configs
          BY <1>2, AskedAssumption
        <4> QED
          BY <4>1 DEF Configs
      <3>2. /\ n \in 1..MaxPort => Binds(c, n)
            /\ n <= 0 => \E p \in Ephemeral : Binds(c, p)
            /\ n > MaxPort => UNCHANGED bound
        BY <2>2, <3>1, Ports, Kinds DEF Start, Socks
      <3>3. (n \in 1..MaxPort \/ n <= 0) =>
                /\ bound'[c] # 0
                /\ \A d \in Clients \ {c} : bound'[d] = bound[d] /\ bound[d] # bound'[c]
        BY <1>2, <3>1, <3>2, EphemeralAssumption DEF Binds
      <3>4. bound[c] = 0 /\ pc[c] = "start"
        BY <1>2, <2>2 DEF LifeInvariant, Start
      <3>5. n \in 1..MaxPort \/ n <= 0 \/ n > MaxPort
        BY <3>1, PortRange
      <3>6. /\ n \in 1..MaxPort => bound'[c] = n
            /\ n > MaxPort => bound'[c] = 0
            /\ n > MaxPort => ~(n <= 0) /\ n \notin 1..MaxPort
        BY <1>2, <3>1, <3>2, <3>4, PortRange DEF Binds
      <3>7. asked' = asked /\ pc' = [pc EXCEPT ![c] = "running"]
        BY <2>2 DEF Start
      <3>8. ASSUME NEW d \in Clients, NEW e \in Clients \ {d}, bound'[d] # 0, pc'[d] = "running"
            PROVE  bound'[e] # bound'[d]
        BY <1>2, <3>2, <3>3, <3>4, <3>5, <3>7, <3>8 DEF SocksAsAsked, LifeInvariant
      <3>9. \A d \in Clients \ {c} : bound'[d] = bound[d]
        BY <3>2, <3>3, <3>5
      <3> HIDE DEF n
      <3> QED
        BY <1>2, <3>3, <3>6, <3>7, <3>8, <3>9 DEF SocksAsAsked, n
    <2>3. ASSUME NEW c \in Clients, Free(c) \/ Crash(c) PROVE SocksAsAsked'
      <3>1. /\ asked' = asked /\ bound' = [bound EXCEPT ![c] = 0] /\ pc'[c] # "running"
            /\ \A d \in Clients \ {c} : pc'[d] = pc[d] /\ bound'[d] = bound[d]
        BY <1>2, <2>3 DEF Free, Crash, Vanishes, Ended
      <3> QED
        BY <1>2, <3>1 DEF SocksAsAsked
    <2>4. ASSUME NEW c \in Clients,
                 \/ Open(c) \/ OpenRefused(c) \/ PurgeFails(c) \/ Create(c) \/ CreateFails(c)
                 \/ StartFails(c) \/ FreeFailed(c) \/ Launch(c) \/ Shutdown(c) \/ Dispose(c)
                 \/ \E n \in Names : Visit(c, n) \/ OnionDel(c, n) \/ WindDown(c, n)
          PROVE  SocksAsAsked'
      BY <1>2, <2>1, <2>4 DEF Open, OpenRefused, PurgeFails, Create, CreateFails, StartFails, FreeFailed,
                        Launch, Shutdown, Dispose, Visit, Visits, OnionDel, WindDown
    <2>5. ASSUME UNCHANGED vars PROVE SocksAsAsked'
      BY <2>1, <2>5 DEF vars
    <2> QED
      BY <1>2, EveryAction, <2>2, <2>3, <2>4, <2>5
  <1> QED
    BY <1>1, <1>2, TypeCorrect, LifeCorrect, PTL DEF Spec
-----------------------------------------------------------------------------
(* Open goes on.                                                           *)

\* How far an Open still is from its end, apart from what it has to purge.
PhasesLeft(at) == IF at = "purge" THEN 3
                  ELSE IF at = "start" THEN 2
                  ELSE IF at = "failing" THEN 1 ELSE 0

\* No instance is added to what its purge has to visit, and it takes a new one
\* into its hands only by visiting it.
LessToPurge(c) ==
    /\ todo'[c] \subseteq todo[c]
    /\ todo'[c] = todo[c] => held'[c] \subseteq held[c]

\* An Open under way stays where it is, has less left to purge, or goes on to a
\* later phase: it never goes back, and no other client adds to its purge.
OpenAdvances ==
    \A c \in Clients : pc[c] \in {"purge", "start", "failing"} =>
        \/ pc'[c] = pc[c] /\ LessToPurge(c)
        \/ PhasesLeft(pc'[c]) < PhasesLeft(pc[c])

\* The safety half of OpenReturns, beside any number of clients that serve,
\* purge, close or crash in the same directory.
THEOREM OpenOnlyAdvances == Spec => [][OpenAdvances]_vars
  <1>1. TypeOK /\ [Next]_vars => [OpenAdvances]_vars
    <2> SUFFICES ASSUME TypeOK, Next, NEW d \in Clients, pc[d] \in {"purge", "start", "failing"}
                 PROVE  \/ pc'[d] = pc[d] /\ LessToPurge(d)
                        \/ PhasesLeft(pc'[d]) < PhasesLeft(pc[d])
      BY DEF OpenAdvances
    <2> DEFINE Goal == \/ pc'[d] = pc[d] /\ LessToPurge(d)
                       \/ PhasesLeft(pc'[d]) < PhasesLeft(pc[d])
    <2>t. pc \in [Clients -> {"unborn", "purge", "start", "running", "failing", "draining"} \union Ended]
          /\ todo \in [Clients -> SUBSET Names] /\ held \in [Clients -> SUBSET Names]
      BY DEF TypeOK
    <2> USE DEF Goes, purgeVars, LessToPurge
    <2>1. ASSUME NEW c \in Clients,
                 \/ Open(c) \/ OpenRefused(c) \/ Launch(c) \/ Shutdown(c) \/ Free(c)
                 \/ \E n \in Names : OnionDel(c, n) \/ WindDown(c, n)
          PROVE  Goal
      <3>1. CASE Open(c) \/ OpenRefused(c)
        BY <2>t, <3>1 DEF Open, OpenRefused
      <3>2. CASE Launch(c) \/ \E n \in Names : OnionDel(c, n) \/ WindDown(c, n)
        BY <3>2 DEF Launch, OnionDel, WindDown
      <3>3. CASE Shutdown(c) \/ Free(c)
        BY <2>t, <3>3 DEF Shutdown, Free, Vanishes, LetGo
      <3> QED
        BY <2>1, <3>1, <3>2, <3>3
    <2>2. ASSUME NEW c \in Clients,
                 PurgeFails(c) \/ Dispose(c) \/ \E n \in Names : Visit(c, n)
          PROVE  Goal
      BY <2>t, <2>2 DEF PurgeFails, LetGo, Dispose, Visit, Visits
    <2>3. ASSUME NEW c \in Clients,
                 Create(c) \/ CreateFails(c) \/ Start(c) \/ StartFails(c) \/ FreeFailed(c) \/ Crash(c)
          PROVE  Goal
      <3>1. UNCHANGED todo /\ held'[d] \subseteq held[d]
        BY <2>t, <2>3 DEF Create, CreateFails, Start, StartFails, FreeFailed, Crash, Vanishes, LetGo
      <3>2. \E from, to \in {"purge", "start", "running", "failing", "draining"} \union Ended :
                /\ pc[c] = from /\ pc' = [pc EXCEPT ![c] = to]
                /\ from \in {"purge", "start", "failing"} => PhasesLeft(to) < PhasesLeft(from)
        BY <2>t, <2>3 DEF Create, CreateFails, Start, StartFails, FreeFailed, Crash, Ended, PhasesLeft
      <3> QED
        BY <2>t, <3>1, <3>2
    <2>4. CASE UNCHANGED vars
      BY <2>4 DEF vars
    <2> QED
      BY EveryAction, <2>1, <2>2, <2>3, <2>4
  <1> QED
    BY <1>1, TypeCorrect, PTL DEF Spec
=============================================================================
