---------------------------- MODULE NetworkProofs ----------------------------
(***************************************************************************)
(* Proofs about Network, for every set of callers and threads.             *)
(***************************************************************************)
EXTENDS Network, FiniteSetTheorems, TLAPS

\* Every step is one of these.
LEMMA EveryAction ==
    ASSUME [Next]_vars
    PROVE  \/ AttemptSucceeds \/ AttemptFails \/ CloseBegins \/ CloseFrees
           \/ \E c \in Callers : BootstrapReturns(c)
           \/ \E g \in Switchers :
                 \/ Begin(g) \/ Refused(g) \/ BlockConnects(g) \/ BlockFails(g)
                 \/ Swap(g) \/ Wake(g) \/ Spawn(g) \/ Sleep(g) \/ Leave(g)
                 \/ CheckClosed(g) \/ OnionAdd(g) \/ BlockDone(g) \/ Launch(g)
           \/ UNCHANGED vars
  BY DEF Next, Step, Switch, Terminated

\* The calls of the two abstract specifications, by what they do to the
\* variables.
LEMMA PromiseSteps ==
    ASSUME TypeOK
    PROVE  /\ \A c \in Callers :
                 Promise!Begin(c) \/ Promise!Refuse(c) \/ Promise!Cancel(c) \/ Promise!Return(c) =>
                     /\ call' \in [Callers -> {"idle", "waiting", "ok", "closed", "cancelled"}]
                     /\ UNCHANGED <<online, shut>>
           /\ Promise!Connect => online' = TRUE /\ UNCHANGED <<call, shut>>
           /\ Promise!Shut => shut' = TRUE /\ UNCHANGED <<call, online>>
  BY DEF TypeOK, Promise!TypeOK, Promise!Outcomes, Promise!Begin, Promise!Refuse, Promise!Cancel,
         Promise!Return, Promise!Succeed, Promise!FailClosed, Promise!Becomes, Promise!Connect,
         Promise!Shut

LEMMA TypeStep == TypeOK /\ [Next]_vars => TypeOK'
  <1> SUFFICES ASSUME TypeOK, [Next]_vars PROVE TypeOK'
    OBVIOUS
  <1> USE DEF Goes, promiseVars, handleVars, switchVars
  <1>1. Callers \subseteq Switchers
    BY DEF Switchers
  <1>2. Promise!TypeOK'
    <2> USE PromiseSteps DEF TypeOK, Promise!TypeOK, Promise!Outcomes
    <2>1. CASE AttemptSucceeds
      BY <2>1 DEF AttemptSucceeds
    <2>2. CASE AttemptFails
      BY <2>2 DEF AttemptFails
    <2>3. CASE CloseBegins
      BY <2>3 DEF CloseBegins
    <2>4. CASE CloseFrees
      BY <2>4 DEF CloseFrees
    <2>5. ASSUME NEW c \in Callers, BootstrapReturns(c) PROVE Promise!TypeOK'
      BY <2>5 DEF BootstrapReturns
    <2>6. ASSUME NEW g \in Switchers, Begin(g) \/ Refused(g) PROVE Promise!TypeOK'
      BY <2>6 DEF Begin, Refused
    <2>7. ASSUME NEW g \in Switchers, BlockConnects(g) PROVE Promise!TypeOK'
      BY <2>7 DEF BlockConnects
    <2>8. ASSUME NEW g \in Switchers,
                 \/ BlockFails(g) \/ Swap(g) \/ Wake(g) \/ Spawn(g) \/ Sleep(g) \/ Leave(g)
                 \/ CheckClosed(g) \/ OnionAdd(g) \/ BlockDone(g) \/ Launch(g)
          PROVE  Promise!TypeOK'
      BY <2>8 DEF BlockFails, Swap, Wake, Spawn, Sleep, Leave, CheckClosed, OnionAdd, BlockDone, Launch
    <2>9. CASE UNCHANGED vars
      BY <2>9 DEF vars
    <2> QED
      BY EveryAction, <2>1, <2>2, <2>3, <2>4, <2>5, <2>6, <2>7, <2>8, <2>9
  <1>3. alive' \in BOOLEAN /\ inside' \subseteq Switchers
    <2> USE DEF TypeOK, Handle!Enter, Handle!Leave, Handle!Release
    <2>1. CASE CloseFrees
      BY <2>1 DEF CloseFrees
    <2>2. ASSUME NEW g \in Switchers, Begin(g) \/ Leave(g) \/ OnionAdd(g)
          PROVE  alive' \in BOOLEAN /\ inside' \subseteq Switchers
      BY <2>2 DEF Begin, Leave, OnionAdd
    <2>3. CASE UNCHANGED handleVars
      BY <2>3
    <2>4. ASSUME NEW g \in Switchers,
                 \/ Refused(g) \/ BlockConnects(g) \/ BlockFails(g) \/ Swap(g) \/ Wake(g) \/ Spawn(g)
                 \/ Sleep(g) \/ CheckClosed(g) \/ BlockDone(g) \/ Launch(g)
          PROVE  UNCHANGED handleVars
      BY <2>4 DEF Refused, BlockConnects, BlockFails, Swap, Wake, Spawn, Sleep, CheckClosed, BlockDone,
                  Launch
    <2>5. ASSUME NEW c \in Callers, BootstrapReturns(c) PROVE UNCHANGED handleVars
      BY <2>5 DEF BootstrapReturns
    <2>6. CASE AttemptSucceeds \/ AttemptFails \/ CloseBegins \/ UNCHANGED vars
      BY <2>3, <2>6 DEF AttemptSucceeds, AttemptFails, CloseBegins, vars
    <2> QED
      BY EveryAction, <2>1, <2>2, <2>3, <2>4, <2>5, <2>6
  <1>4. netEnabled' \in BOOLEAN /\ overlapped' \in BOOLEAN /\ mode' \in {"normal", "soft"}
        /\ started' \in Nat /\ running' \in 0..started'
    <2> DEFINE Goal == netEnabled' \in BOOLEAN /\ overlapped' \in BOOLEAN /\ mode' \in {"normal", "soft"}
                       /\ started' \in Nat /\ running' \in 0..started'
    <2> USE DEF TypeOK
    <2>1. CASE AttemptSucceeds \/ AttemptFails
      BY <2>1 DEF AttemptSucceeds, AttemptFails
    <2>2. CASE CloseBegins \/ CloseFrees
      BY <2>2 DEF CloseBegins, CloseFrees
    <2>3. ASSUME NEW c \in Callers, BootstrapReturns(c) PROVE Goal
      BY <2>3 DEF BootstrapReturns
    <2>4. ASSUME NEW g \in Switchers, Swap(g) PROVE Goal
      BY <2>4 DEF Swap
    <2>5. ASSUME NEW g \in Switchers, Wake(g) \/ Spawn(g) \/ Sleep(g) PROVE Goal
      BY <2>5 DEF Wake, Spawn, Sleep
    <2>6. ASSUME NEW g \in Switchers,
                 \/ Begin(g) \/ Refused(g) \/ BlockConnects(g) \/ BlockFails(g) \/ Leave(g)
                 \/ CheckClosed(g) \/ OnionAdd(g) \/ BlockDone(g) \/ Launch(g)
          PROVE  Goal
      BY <2>6 DEF Begin, Refused, BlockConnects, BlockFails, Leave, CheckClosed, OnionAdd, BlockDone,
                  Launch
    <2>7. CASE UNCHANGED vars
      BY <2>7 DEF vars
    <2> QED
      BY EveryAction, <2>1, <2>2, <2>3, <2>4, <2>5, <2>6, <2>7
  <1>5. pc' \in [Switchers -> {"idle", "swap", "wake", "spawn", "sleep", "leave", "wait", "check",
                               "add", "block", "launch", "returned"}]
    <2> DEFINE Goal == pc' \in [Switchers -> {"idle", "swap", "wake", "spawn", "sleep", "leave", "wait",
                                              "check", "add", "block", "launch", "returned"}]
    <2> USE DEF TypeOK
    <2>1. CASE AttemptSucceeds \/ AttemptFails \/ CloseBegins \/ CloseFrees
      BY <2>1 DEF AttemptSucceeds, AttemptFails, CloseBegins, CloseFrees
    <2>2. ASSUME NEW c \in Callers, BootstrapReturns(c) PROVE Goal
      BY <1>1, <2>2 DEF BootstrapReturns
    <2>3. ASSUME NEW g \in Switchers, Swap(g) \/ Wake(g) \/ Spawn(g) \/ Sleep(g) PROVE Goal
      BY <2>3 DEF Swap, Wake, Spawn, Sleep, Then
    <2>4. ASSUME NEW g \in Switchers,
                 \/ Begin(g) \/ Refused(g) \/ BlockConnects(g) \/ BlockFails(g) \/ Leave(g)
                 \/ CheckClosed(g) \/ OnionAdd(g) \/ BlockDone(g) \/ Launch(g)
          PROVE  Goal
      BY <2>4 DEF Begin, Refused, BlockConnects, BlockFails, Leave, CheckClosed, OnionAdd, BlockDone,
                  Launch
    <2>5. CASE UNCHANGED vars
      BY <2>5 DEF vars
    <2> QED
      BY EveryAction, <2>1, <2>2, <2>3, <2>4, <2>5
  <1> QED
    BY <1>2, <1>3, <1>4, <1>5 DEF TypeOK

\* Every variable keeps its type, whatever calls overlap.
THEOREM TypeCorrect == Spec => []TypeOK
  <1>1. Init => TypeOK
    <2> SUFFICES ASSUME Init PROVE TypeOK
      OBVIOUS
    <2>1. Promise!TypeOK
      BY DEF Init, Promise!Init, Promise!TypeOK
    <2>2. alive \in BOOLEAN /\ inside \subseteq Switchers
      BY DEF Init, Handle!Init
    <2>3. netEnabled \in BOOLEAN /\ overlapped \in BOOLEAN /\ mode \in {"normal", "soft"}
      BY DEF Init
    <2>4. started \in Nat /\ running \in 0..started
      BY DEF Init
    <2>5. pc \in [Switchers -> {"idle", "swap", "wake", "spawn", "sleep", "leave", "wait", "check",
                               "add", "block", "launch", "returned"}]
      BY DEF Init
    <2> QED
      BY <2>1, <2>2, <2>3, <2>4, <2>5 DEF TypeOK
  <1> QED
    BY <1>1, TypeStep, PTL DEF Spec
-----------------------------------------------------------------------------
(* The switch. As long as changes of the flag do not overlap there is at   *)
(* most one thread between the swap and what goes with it, and it knows    *)
(* what the flag is.                                                       *)

SwitchInvariant ==
    ~overlapped =>
        /\ \A g, h \in Switching : g = h
        /\ \A g \in Switchers : /\ pc[g] \in {"wake", "spawn"} => netEnabled
                                /\ pc[g] = "spawn" => mode = "normal"
                                /\ pc[g] = "sleep" => ~netEnabled
        /\ SwitchSettles

\* Steps outside set_network_enabled neither touch the switch nor bring a
\* thread into it, or out of it.
LEMMA OtherSteps ==
    ASSUME TypeOK, [Next]_vars
    PROVE  \/ \E g \in Switchers : Swap(g) \/ Wake(g) \/ Spawn(g) \/ Sleep(g)
           \/ /\ UNCHANGED switchVars
              /\ \A g \in Switchers : /\ pc'[g] \in {"wake", "spawn", "sleep"}
                                           => pc'[g] = pc[g]
                                      /\ pc[g] \in {"wake", "spawn", "sleep", "returned"}
                                           => pc'[g] = pc[g]
                                      /\ pc[g] = "leave" /\ g \in Disablers => pc'[g] \in {"leave", "returned"}
  <1> DEFINE Goal == /\ UNCHANGED switchVars
                     /\ \A g \in Switchers : /\ pc'[g] \in {"wake", "spawn", "sleep"}
                                                  => pc'[g] = pc[g]
                                             /\ pc[g] \in {"wake", "spawn", "sleep", "returned"}
                                                  => pc'[g] = pc[g]
                                             /\ pc[g] = "leave" /\ g \in Disablers
                                                  => pc'[g] \in {"leave", "returned"}
  <1> USE DEF Goes, TypeOK, promiseVars, handleVars, switchVars
  <1>1. CASE AttemptSucceeds \/ AttemptFails \/ CloseBegins \/ CloseFrees \/ UNCHANGED vars
    <2>1. UNCHANGED <<switchVars, pc>>
      BY <1>1 DEF AttemptSucceeds, AttemptFails, CloseBegins, CloseFrees, vars
    <2> QED
      BY <2>1
  <1>2. ASSUME NEW c \in Callers, BootstrapReturns(c) PROVE Goal
    BY <1>2 DEF BootstrapReturns, Switchers
  <1>3. ASSUME NEW g \in Switchers, Begin(g) \/ Refused(g) \/ BlockFails(g) \/ BlockConnects(g)
        PROVE  Goal
    BY <1>3 DEF Begin, Refused, BlockFails, BlockConnects
  <1>4. ASSUME NEW g \in Switchers, Leave(g) PROVE Goal
    BY <1>4, RolesAssumption DEF Leave
  <1>5. ASSUME NEW g \in Switchers, CheckClosed(g) \/ OnionAdd(g) \/ BlockDone(g) \/ Launch(g)
        PROVE  Goal
    BY <1>5 DEF CheckClosed, OnionAdd, BlockDone, Launch
  <1> QED
    BY EveryAction, <1>1, <1>2, <1>3, <1>4, <1>5

LEMMA SwitchStep == TypeOK /\ SwitchInvariant /\ [Next]_vars => SwitchInvariant'
  <1> SUFFICES ASSUME TypeOK, SwitchInvariant, [Next]_vars, ~overlapped'
               PROVE  /\ \A g, h \in Switching' : g = h
                      /\ \A g \in Switchers : /\ pc'[g] \in {"wake", "spawn"} => netEnabled'
                                              /\ pc'[g] = "spawn" => mode' = "normal"
                                              /\ pc'[g] = "sleep" => ~netEnabled'
                      /\ SwitchSettles'
    BY DEF SwitchInvariant
  <1> DEFINE Goal == /\ \A g, h \in Switching' : g = h
                     /\ \A g \in Switchers : /\ pc'[g] \in {"wake", "spawn"} => netEnabled'
                                             /\ pc'[g] = "spawn" => mode' = "normal"
                                             /\ pc'[g] = "sleep" => ~netEnabled'
                     /\ SwitchSettles'
  <1> USE DEF TypeOK, Goes, switchVars, promiseVars, handleVars
  <1>1. CASE UNCHANGED switchVars /\ \A g \in Switchers :
                 /\ pc'[g] \in {"wake", "spawn", "sleep"} => pc'[g] = pc[g]
                 /\ pc[g] \in {"wake", "spawn", "sleep"} => pc'[g] = pc[g]
    BY <1>1 DEF SwitchInvariant, SwitchSettles, Switching
  <1>2. ASSUME NEW g \in Switchers, Swap(g) PROVE Goal
    <2>1. ~overlapped /\ (netEnabled' # netEnabled => Switching = {})
      BY <1>2 DEF Swap
    <2>2. CASE netEnabled' = netEnabled
      <3>1. \A h \in Switchers : /\ pc'[h] \in {"wake", "spawn", "sleep"} => pc'[h] = pc[h]
                                 /\ pc[h] \in {"wake", "spawn", "sleep"} => pc'[h] = pc[h]
        BY <1>2, <2>2 DEF Swap, Then
      <3> QED
        BY <1>2, <2>1, <2>2, <3>1 DEF SwitchInvariant, SwitchSettles, Switching, Swap
    <2>3. CASE netEnabled' # netEnabled
      <3>1. /\ pc' = [pc EXCEPT ![g] = IF netEnabled' THEN "wake" ELSE "sleep"]
            /\ \A h \in Switchers : pc[h] \notin {"wake", "spawn", "sleep"}
        BY <1>2, <2>1, <2>3 DEF Swap, Switching
      <3>2. Switching' = {g}
        BY <3>1 DEF Switching
      <3> QED
        BY <3>1, <3>2 DEF SwitchSettles
    <2> QED
      BY <2>2, <2>3
  <1>3. ASSUME NEW g \in Switchers, Wake(g) PROVE Goal
    BY <1>3 DEF Wake, SwitchInvariant, SwitchSettles, Switching
  <1>4. ASSUME NEW g \in Switchers, Spawn(g) PROVE Goal
    <2>1. /\ ~overlapped /\ netEnabled' /\ mode' = "normal" /\ started' > 0
          /\ \A h \in Switchers \ {g} : pc[h] \notin {"wake", "spawn", "sleep"}
      BY <1>4 DEF Spawn, SwitchInvariant, Switching
    <2>2. \A h \in Switchers : pc'[h] \notin {"wake", "spawn", "sleep"}
      BY <1>4, <2>1 DEF Spawn, Then
    <2> QED
      BY <2>1, <2>2 DEF SwitchSettles, Switching
  <1>5. ASSUME NEW g \in Switchers, Sleep(g) PROVE Goal
    BY <1>5 DEF Sleep, SwitchInvariant, SwitchSettles, Switching
  <1> QED
    BY OtherSteps, <1>1, <1>2, <1>3, <1>4, <1>5

\* The flag and the dormant mode agree whenever no thread is between the two,
\* however many threads switch, unless two changes overlapped.
THEOREM SwitchCorrect == Spec => []SwitchSettles
  <1>1. Init => SwitchInvariant
    BY DEF Init, SwitchInvariant, SwitchSettles, Switching
  <1>2. SwitchInvariant => SwitchSettles
    BY DEF SwitchInvariant, SwitchSettles
  <1> QED
    BY <1>1, <1>2, TypeCorrect, SwitchStep, PTL DEF Spec

\* The Go package only turns the network on. Then no changes overlap, and a
\* client whose flag is set is awake and bootstrapping once the switch is at
\* rest, whatever Bootstrap and Listen calls race.
THEOREM GoSettles ==
    ASSUME Disablers = {}
    PROVE  Spec => [](Switching = {} /\ netEnabled => mode = "normal" /\ started > 0)
  <1> DEFINE OnlyOn == ~overlapped /\ (Switching # {} => netEnabled)
  <1>1. Init => OnlyOn
    BY DEF Init, Switching
  <1>2. TypeOK /\ OnlyOn /\ [Next]_vars => OnlyOn'
    <2> SUFFICES ASSUME TypeOK, OnlyOn, [Next]_vars PROVE OnlyOn'
      OBVIOUS
    <2> USE DEF TypeOK, Goes, switchVars, Switching
    <2>1. ASSUME NEW g \in Switchers, Swap(g) PROVE OnlyOn'
      BY <2>1 DEF Swap
    <2>2. ASSUME NEW g \in Switchers, Wake(g) \/ Spawn(g) \/ Sleep(g) PROVE OnlyOn'
      <3>1. UNCHANGED <<netEnabled, overlapped>> /\ netEnabled
        BY <2>2 DEF Wake, Spawn, Sleep
      <3> QED
        BY <3>1
    <2>3. CASE UNCHANGED switchVars /\ \A g \in Switchers :
                   pc'[g] \in {"wake", "spawn", "sleep"} => pc'[g] = pc[g]
      BY <2>3
    <2> QED
      BY OtherSteps, <2>1, <2>2, <2>3
  <1>3. OnlyOn /\ SwitchSettles => (Switching = {} /\ netEnabled => mode = "normal" /\ started > 0)
    BY DEF SwitchSettles
  <1> QED
    BY <1>1, <1>2, <1>3, TypeCorrect, SwitchCorrect, PTL DEF Spec
-----------------------------------------------------------------------------
(* Bootstrap tasks. Each change of the flag to on spawns one, and each but *)
(* the first needs a change to off before it.                              *)

Waking == {g \in Switchers : pc[g] \in {"wake", "spawn"}}
Offs   == {d \in Disablers : pc[d] \in {"sleep", "leave", "returned"}}

AttemptInvariant ==
    started + Cardinality(Waking) <= Cardinality(Offs) + (IF netEnabled THEN 1 ELSE 0)

LEMMA AttemptStep ==
    ASSUME IsFiniteSet(Switchers)
    PROVE  TypeOK /\ AttemptInvariant /\ [Next]_vars => AttemptInvariant'
  <1> SUFFICES ASSUME TypeOK, AttemptInvariant, [Next]_vars PROVE AttemptInvariant'
    OBVIOUS
  <1> USE DEF TypeOK, Goes, switchVars, promiseVars, handleVars
  <1>1. /\ IsFiniteSet(Waking) /\ IsFiniteSet(Waking')
        /\ IsFiniteSet(Offs) /\ IsFiniteSet(Offs')
    <2>1. Waking \subseteq Switchers /\ Waking' \subseteq Switchers
      BY DEF Waking
    <2>2. Offs \subseteq Switchers /\ Offs' \subseteq Switchers
      BY DEF Offs, Switchers
    <2> QED
      BY <2>1, <2>2, FS_Subset
  <1>2. /\ Cardinality(Waking) \in Nat /\ Cardinality(Waking') \in Nat
        /\ Cardinality(Offs) \in Nat /\ Cardinality(Offs') \in Nat
    BY <1>1, FS_CardinalityType
  <1>3. ASSUME Offs \subseteq Offs' PROVE Cardinality(Offs) <= Cardinality(Offs')
    BY <1>1, <1>3, FS_Subset
  <1>4. CASE UNCHANGED <<started, netEnabled>> /\ Waking' = Waking /\ Offs \subseteq Offs'
    BY <1>2, <1>3, <1>4 DEF AttemptInvariant
  <1>5. ASSUME NEW g \in Switchers, Swap(g) PROVE AttemptInvariant'
    <2>1. g \notin Waking /\ g \notin Offs /\ started' = started
      BY <1>5 DEF Swap, Waking, Offs
    <2>2. CASE g \in Disablers
      <3>1. netEnabled' = FALSE /\ Waking' = Waking /\ Offs' = Offs \union {g}
        <4>1. \E to \in {"sleep", "leave"} : pc' = [pc EXCEPT ![g] = to]
          BY <1>5, <2>2, RolesAssumption DEF Swap, Then, Adding
        <4>2. pc[g] = "swap" /\ netEnabled' = FALSE
          BY <1>5, <2>2 DEF Swap
        <4> QED
          BY <2>2, <4>1, <4>2 DEF Waking, Offs, Switchers
      <3>2. Cardinality(Offs') = Cardinality(Offs) + 1
        BY <1>1, <2>1, <3>1, FS_AddElement
      <3> QED
        BY <1>2, <2>1, <3>1, <3>2 DEF AttemptInvariant
    <2>3. CASE g \notin Disablers
      <3>1. Offs' = Offs /\ netEnabled' = TRUE
        <4>1. \A d \in Disablers : pc'[d] = pc[d]
          BY <1>5, <2>3 DEF Swap, Switchers
        <4> QED
          BY <1>5, <2>3, <4>1 DEF Swap, Offs
      <3>2. CASE netEnabled
        <4>1. Waking' = Waking
          BY <1>5, <2>3, <3>2 DEF Swap, Waking, Then
        <4> QED
          BY <1>4, <2>1, <3>1, <3>2, <4>1
      <3>3. CASE ~netEnabled
        <4>1. Waking' = Waking \union {g}
          BY <1>5, <2>3, <3>3 DEF Swap, Waking
        <4>2. Cardinality(Waking') = Cardinality(Waking) + 1
          BY <1>1, <2>1, <4>1, FS_AddElement
        <4> QED
          BY <1>2, <2>1, <3>1, <3>3, <4>2 DEF AttemptInvariant
      <3> QED
        BY <3>2, <3>3
    <2> QED
      BY <2>2, <2>3
  <1>6. ASSUME NEW g \in Switchers, Wake(g) \/ Sleep(g) PROVE AttemptInvariant'
    <2>1. /\ UNCHANGED <<started, netEnabled>>
          /\ \A h \in Switchers : pc'[h] \in {"wake", "spawn"} <=> pc[h] \in {"wake", "spawn"}
          /\ \A h \in Switchers : pc[h] \in {"sleep", "leave", "returned"}
                                    => pc'[h] \in {"sleep", "leave", "returned"}
      BY <1>6 DEF Wake, Sleep
    <2> QED
      BY <1>4, <2>1 DEF Waking, Offs, Switchers
  <1>7. ASSUME NEW g \in Switchers, Spawn(g) PROVE AttemptInvariant'
    <2>1. g \in Waking /\ Waking' = Waking \ {g}
      BY <1>7 DEF Spawn, Waking, Then
    <2>2. Offs \subseteq Offs' /\ started' = started + 1 /\ netEnabled' = netEnabled
      BY <1>7 DEF Spawn, Offs
    <2>3. Cardinality(Waking') = Cardinality(Waking) - 1
      BY <1>1, <2>1, FS_RemoveElement
    <2> QED
      BY <1>2, <1>3, <2>2, <2>3 DEF AttemptInvariant
  <1>8. CASE /\ UNCHANGED switchVars
             /\ \A g \in Switchers : /\ pc'[g] \in {"wake", "spawn", "sleep"} => pc'[g] = pc[g]
                                     /\ pc[g] \in {"wake", "spawn", "sleep", "returned"}
                                          => pc'[g] = pc[g]
                                     /\ pc[g] = "leave" /\ g \in Disablers
                                          => pc'[g] \in {"leave", "returned"}
    <2>1. Waking' = Waking
      BY <1>8 DEF Waking
    <2>2. Offs \subseteq Offs'
      BY <1>8 DEF Offs, Switchers
    <2> QED
      BY <1>4, <1>8, <2>1, <2>2
  <1> QED
    BY OtherSteps, <1>5, <1>6, <1>7, <1>8

\* No two bootstrap tasks are spawned without a call in between that turned
\* the network off, for every finite set of callers.
THEOREM OneAttempt ==
    ASSUME IsFiniteSet(Switchers)
    PROVE  Spec => []OneAttemptPerEnable
  <1>1. Init => AttemptInvariant
    <2> SUFFICES ASSUME Init PROVE AttemptInvariant
      OBVIOUS
    <2>1. Waking = {} /\ Offs = {}
      BY DEF Init, Waking, Offs, Switchers
    <2> QED
      BY <2>1, FS_EmptySet DEF Init, AttemptInvariant
  <1>2. TypeOK /\ AttemptInvariant => OneAttemptPerEnable
    <2> SUFFICES ASSUME TypeOK, AttemptInvariant PROVE OneAttemptPerEnable
      OBVIOUS
    <2>1. IsFiniteSet(Waking) /\ IsFiniteSet(Offs)
      <3>1. Waking \subseteq Switchers /\ Offs \subseteq Switchers
        BY DEF Waking, Offs, Switchers
      <3> QED
        BY <3>1, FS_Subset
    <2>2. Cardinality(Waking) \in Nat /\ Cardinality(Offs) \in Nat
      BY <2>1, FS_CardinalityType
    <2>3. started + Cardinality(Waking) <= 1 + Cardinality(Offs)
      BY <2>2 DEF TypeOK, AttemptInvariant
    <2> QED
      BY <2>3 DEF OneAttemptPerEnable, Waking, Offs
  <1> QED
    BY <1>1, <1>2, TypeCorrect, AttemptStep, PTL DEF Spec

\* A service is launched only on a client that is ready, also for a caller
\* that did not bootstrap.
THEOREM LaunchCorrect == Spec => []LaunchIsReady
  <1>1. Init => LaunchIsReady
    BY DEF Init, LaunchIsReady
  <1>2. TypeOK /\ LaunchIsReady /\ [Next]_vars => LaunchIsReady'
    <2> SUFFICES ASSUME TypeOK, LaunchIsReady, [Next]_vars PROVE LaunchIsReady'
      OBVIOUS
    <2> USE PromiseSteps DEF TypeOK, Goes, promiseVars, LaunchIsReady
    <2>1. ASSUME online => online', \A g \in Switchers : pc'[g] = "launch" => pc[g] = "launch"
          PROVE  LaunchIsReady'
      BY <2>1
    <2>2. CASE AttemptSucceeds \/ AttemptFails \/ CloseBegins \/ CloseFrees \/ UNCHANGED vars
      <3>1. pc' = pc
        BY <2>2 DEF AttemptSucceeds, AttemptFails, CloseBegins, CloseFrees, vars
      <3>2. online => online'
        BY <2>2 DEF AttemptSucceeds, AttemptFails, CloseBegins, CloseFrees, vars
      <3> QED
        BY <2>1, <3>1, <3>2
    <2>3. ASSUME NEW c \in Callers, BootstrapReturns(c) PROVE LaunchIsReady'
      <3>1. \E to \in {"check", "returned"} : pc' = [pc EXCEPT ![c] = to]
        BY <2>3 DEF BootstrapReturns
      <3>2. online' = online
        BY <2>3 DEF BootstrapReturns
      <3> QED
        BY <2>1, <3>1, <3>2
    <2>4. ASSUME NEW g \in Switchers, Begin(g) \/ Refused(g) \/ BlockConnects(g) PROVE LaunchIsReady'
      <3>1. \E to \in {"swap", "returned"} : pc' = [pc EXCEPT ![g] = to] \/ pc' = pc
        BY <2>4 DEF Begin, Refused, BlockConnects
      <3>2. online => online'
        BY <2>4 DEF Begin, Refused, BlockConnects
      <3> QED
        BY <2>1, <3>1, <3>2
    <2>5. ASSUME NEW g \in Switchers, Swap(g) \/ Wake(g) \/ Spawn(g) \/ Sleep(g) PROVE LaunchIsReady'
      <3>1. \E to \in {"wake", "spawn", "sleep", "block", "leave"} : pc' = [pc EXCEPT ![g] = to]
        BY <2>5 DEF Swap, Wake, Spawn, Sleep, Then
      <3>2. online' = online
        BY <2>5 DEF Swap, Wake, Spawn, Sleep
      <3> QED
        BY <2>1, <3>1, <3>2
    <2>6. ASSUME NEW g \in Switchers,
                 \/ BlockFails(g) \/ Leave(g) \/ CheckClosed(g) \/ OnionAdd(g) \/ BlockDone(g) \/ Launch(g)
          PROVE  LaunchIsReady'
      BY <2>6 DEF BlockFails, Leave, CheckClosed, OnionAdd, BlockDone, Launch
    <2> QED
      BY EveryAction, <2>2, <2>3, <2>4, <2>5, <2>6
  <1> QED
    BY <1>1, <1>2, TypeCorrect, PTL DEF Spec
-----------------------------------------------------------------------------
(* The two abstract specifications, in the composition. The modules that   *)
(* implement them show each alone; here nothing that the switch, onion_add *)
(* and Close do to one another takes a call outside them.                  *)

\* A Bootstrap call, followed by whatever a Listen adds, keeps the safety half
\* of BootstrapPromise.
THEOREM KeepsPromise == Spec => Promise!Safe
  <1>1. Init => Promise!Init
    BY DEF Init
  <1>2. [Next]_vars => [Promise!Next]_Promise!vars
    <2> SUFFICES ASSUME [Next]_vars PROVE [Promise!Next]_Promise!vars
      OBVIOUS
    <2>0. UNCHANGED promiseVars => UNCHANGED Promise!vars
      BY DEF promiseVars, Promise!vars
    <2>1. CASE AttemptSucceeds \/ CloseBegins
      BY <2>1 DEF AttemptSucceeds, CloseBegins, Promise!Next
    <2>2. CASE AttemptFails \/ CloseFrees \/ UNCHANGED vars
      BY <2>0, <2>2 DEF AttemptFails, CloseFrees, vars
    <2>3. ASSUME NEW c \in Callers, BootstrapReturns(c) PROVE Promise!Next
      BY <2>3 DEF BootstrapReturns, Promise!Next
    <2>4. ASSUME NEW g \in Switchers, Begin(g) \/ Refused(g) PROVE Promise!Next \/ UNCHANGED Promise!vars
      BY <2>0, <2>4 DEF Begin, Refused, Promise!Next
    <2>5. ASSUME NEW g \in Switchers, BlockConnects(g) PROVE Promise!Next
      BY <2>5 DEF BlockConnects, Promise!Next
    <2>6. ASSUME NEW g \in Switchers,
                 \/ BlockFails(g) \/ Swap(g) \/ Wake(g) \/ Spawn(g) \/ Sleep(g) \/ Leave(g)
                 \/ CheckClosed(g) \/ OnionAdd(g) \/ BlockDone(g) \/ Launch(g)
          PROVE  UNCHANGED Promise!vars
      BY <2>0, <2>6 DEF BlockFails, Swap, Wake, Spawn, Sleep, Leave, CheckClosed, OnionAdd, BlockDone,
                        Launch
    <2> QED
      BY EveryAction, <2>1, <2>2, <2>3, <2>4, <2>5, <2>6
  <1> QED
    BY <1>1, <1>2, PTL DEF Spec, Promise!Safe

\* Every call enters and leaves the Rust client as HandlePromise says, and Close
\* releases it once, with nobody inside.
THEOREM KeepsHandle == Spec => Handle!Spec
  <1>1. Init => Handle!Init
    BY DEF Init
  <1>2. [Next]_vars => [Handle!Next]_Handle!vars
    <2> SUFFICES ASSUME [Next]_vars PROVE [Handle!Next]_Handle!vars
      OBVIOUS
    <2>0. UNCHANGED handleVars => UNCHANGED Handle!vars
      BY DEF handleVars, Handle!vars
    <2>1. CASE CloseFrees
      BY <2>1 DEF CloseFrees, Handle!Next
    <2>2. CASE AttemptSucceeds \/ AttemptFails \/ CloseBegins \/ UNCHANGED vars
      BY <2>0, <2>2 DEF AttemptSucceeds, AttemptFails, CloseBegins, vars
    <2>3. ASSUME NEW c \in Callers, BootstrapReturns(c) PROVE UNCHANGED Handle!vars
      BY <2>0, <2>3 DEF BootstrapReturns
    <2>4. ASSUME NEW g \in Switchers, Begin(g) \/ Leave(g) \/ OnionAdd(g)
          PROVE  Handle!Next \/ UNCHANGED Handle!vars
      BY <2>0, <2>4 DEF Begin, Leave, OnionAdd, Handle!Next
    <2>5. ASSUME NEW g \in Switchers,
                 \/ Refused(g) \/ BlockConnects(g) \/ BlockFails(g) \/ Swap(g) \/ Wake(g) \/ Spawn(g)
                 \/ Sleep(g) \/ CheckClosed(g) \/ BlockDone(g) \/ Launch(g)
          PROVE  UNCHANGED Handle!vars
      BY <2>0, <2>5 DEF Refused, BlockConnects, BlockFails, Swap, Wake, Spawn, Sleep, CheckClosed,
                        BlockDone, Launch
    <2> QED
      BY EveryAction, <2>1, <2>2, <2>3, <2>4, <2>5
  <1> QED
    BY <1>1, <1>2, PTL DEF Spec, Handle!Spec
-----------------------------------------------------------------------------
(* Who holds Close up, and who is ever waited for in vain: the safety      *)
(* halves of AddReturns, CloseCompletes and BootstrapIsTried.              *)

\* Where a thread is inside the Rust client.
InsidePcs == {"swap", "wake", "spawn", "sleep", "leave", "block", "launch"}

\* The threads inside are those the handle counts, and none is inside a client
\* that is gone; a call of the Go package goes on to Listen's part only after a
\* Bootstrap that succeeded, and so on a client that is ready.
InsideInvariant ==
    /\ \A g \in Switchers : g \in inside <=> pc[g] \in InsidePcs
    /\ ~alive => inside = {}
    /\ \A d \in Disablers : pc[d] # "block"
    /\ \A c \in Callers :
          /\ pc[c] # "sleep"
          /\ pc[c] \in {"swap", "wake", "spawn", "leave"} => call[c] \in {"waiting", "ok"}
          /\ pc[c] = "wait" => call[c] = "waiting"
          /\ pc[c] \in {"check", "add", "block", "launch"} => call[c] = "ok"
          /\ call[c] = "ok" => online

\* No call of the Go package sits in the Rust client waiting for the network,
\* with the handle's read lock held: whoever does is a caller of the C interface.
\* And after Close nobody is inside at all.
GoNeverBlocks ==
    /\ \A g \in inside : pc[g] = "block" /\ ~online => g \in Adders
    /\ ~alive => \A g \in Switchers : pc[g] \notin InsidePcs

\* Past its switch, a Bootstrap call can count on an attempt: one was started, or
\* the thread that will start it is on its way, whoever that is and whether or
\* not the network was turned off since.
AttemptUnderWay ==
    \A c \in Callers : pc[c] \in {"leave", "wait", "check", "add", "block", "launch"} =>
        started > 0 \/ Waking # {}

LEMMA InsideStep == TypeOK /\ InsideInvariant /\ [Next]_vars => InsideInvariant'
  <1> SUFFICES ASSUME TypeOK, InsideInvariant, [Next]_vars PROVE InsideInvariant'
    OBVIOUS
  <1> USE RolesAssumption DEF Goes, promiseVars, handleVars, switchVars
  <1>t. /\ pc \in [Switchers -> {"idle", "swap", "wake", "spawn", "sleep", "leave", "wait", "check",
                                 "add", "block", "launch", "returned"}]
        /\ call \in [Callers -> {"idle", "waiting", "ok", "closed", "cancelled"}]
        /\ inside \subseteq Switchers /\ Callers \subseteq Switchers
    BY DEF TypeOK, Promise!TypeOK, Promise!Outcomes, Switchers
  <1>0. ASSUME UNCHANGED <<call, inside, pc>>, online => online', alive' = alive \/ inside = {}
        PROVE  InsideInvariant'
    BY <1>0 DEF InsideInvariant
  \* One thread moves, within the client or outside it.
  <1>m. ASSUME NEW g \in Switchers, NEW to, pc' = [pc EXCEPT ![g] = to],
               UNCHANGED <<promiseVars, handleVars>>,
               pc[g] \in InsidePcs <=> to \in InsidePcs, g \in Disablers => to # "block",
               g \in Callers =>
                   /\ to # "sleep"
                   /\ to \in {"swap", "wake", "spawn", "leave"} => call[g] \in {"waiting", "ok"}
                   /\ to = "wait" => call[g] = "waiting"
                   /\ to \in {"check", "add", "block", "launch"} => call[g] = "ok"
        PROVE  InsideInvariant'
    BY <1>m, <1>t DEF InsideInvariant
  <1>1. CASE AttemptSucceeds \/ AttemptFails \/ CloseBegins \/ UNCHANGED vars
    BY <1>0, <1>1 DEF AttemptSucceeds, AttemptFails, CloseBegins, vars, Promise!Connect, Promise!Shut
  <1>2. CASE CloseFrees
    BY <1>0, <1>2 DEF CloseFrees, Handle!Release
  <1>3. ASSUME NEW c \in Callers, BootstrapReturns(c) PROVE InsideInvariant'
    <2>1. PICK r \in {"ok", "closed", "cancelled"} :
             /\ call' = [call EXCEPT ![c] = r] /\ UNCHANGED <<online, shut>>
             /\ r = "ok" => online
      BY <1>3 DEF BootstrapReturns, Promise!Cancel, Promise!Return, Promise!Succeed,
                  Promise!FailClosed, Promise!Becomes
    <2>2. /\ pc[c] = "wait" /\ pc' = [pc EXCEPT ![c] = IF c \in Listeners /\ r = "ok" THEN "check"
                                                       ELSE "returned"]
          /\ UNCHANGED <<alive, inside>>
      BY <1>3, <1>t, <2>1 DEF BootstrapReturns
    <2> QED
      BY <1>t, <2>1, <2>2 DEF InsideInvariant, InsidePcs
  <1>4. ASSUME NEW g \in Switchers, Begin(g) PROVE InsideInvariant'
    <2>1. pc' = [pc EXCEPT ![g] = "swap"] /\ alive' = alive /\ alive /\ inside' = inside \union {g}
      BY <1>4 DEF Begin, Handle!Enter
    <2>2. online' = online /\ IF g \in Callers THEN call' = [call EXCEPT ![g] = "waiting"]
                                               ELSE call' = call
      BY <1>4 DEF Begin, Promise!Begin, Promise!Becomes
    <2> QED
      BY <1>t, <2>1, <2>2 DEF InsideInvariant, InsidePcs
  <1>5. ASSUME NEW g \in Switchers, Refused(g) PROVE InsideInvariant'
    <2>1. pc[g] = "idle" /\ pc' = [pc EXCEPT ![g] = "returned"] /\ UNCHANGED <<alive, inside>>
      BY <1>5 DEF Refused
    <2>2. online' = online /\ IF g \in Callers THEN call' = [call EXCEPT ![g] = "closed"]
                                               ELSE call' = call
      BY <1>5 DEF Refused, Promise!Refuse, Promise!Becomes
    <2> QED
      BY <1>t, <2>1, <2>2 DEF InsideInvariant, InsidePcs
  <1>6. ASSUME NEW g \in Switchers, BlockConnects(g) PROVE InsideInvariant'
    BY <1>0, <1>6 DEF BlockConnects, Promise!Connect
  <1>7. ASSUME NEW g \in Switchers, BlockFails(g) PROVE InsideInvariant'
    BY <1>m, <1>7 DEF BlockFails, InsideInvariant, InsidePcs
  <1>8. ASSUME NEW g \in Switchers, Swap(g) PROVE InsideInvariant'
    <2>1. PICK to \in {"wake", "sleep", "block", "leave"} :
             /\ pc[g] = "swap" /\ pc' = [pc EXCEPT ![g] = to]
             /\ UNCHANGED <<promiseVars, handleVars>>
             /\ g \in Callers => to # "sleep" /\ (to = "block" => call[g] # "waiting")
             /\ g \in Disablers => to # "block"
      BY <1>8 DEF Swap, Then, Adding
    <2> QED
      BY <1>m, <2>1 DEF InsideInvariant, InsidePcs
  <1>9. ASSUME NEW g \in Switchers, Wake(g) \/ Sleep(g) PROVE InsideInvariant'
    BY <1>m, <1>9 DEF Wake, Sleep, InsideInvariant, InsidePcs
  <1>10. ASSUME NEW g \in Switchers, Spawn(g) PROVE InsideInvariant'
    <2>1. PICK to \in {"block", "leave"} :
             /\ pc[g] = "spawn" /\ pc' = [pc EXCEPT ![g] = to]
             /\ UNCHANGED <<promiseVars, handleVars>>
             /\ g \in Callers => (to = "block" => call[g] # "waiting")
             /\ g \in Disablers => to # "block"
      BY <1>10 DEF Spawn, Then, Adding
    <2> QED
      BY <1>m, <2>1 DEF InsideInvariant, InsidePcs
  <1>11. ASSUME NEW g \in Switchers, Leave(g) PROVE InsideInvariant'
    <2>1. pc[g] = "leave" /\ inside' = inside \ {g} /\ UNCHANGED <<alive, promiseVars>>
      BY <1>11 DEF Leave, Handle!Leave
    <2>2. PICK to \in {"wait", "returned"} :
             pc' = [pc EXCEPT ![g] = to] /\ (to = "wait" => g \in Callers /\ call[g] = "waiting")
      BY <1>11 DEF Leave
    <2> QED
      BY <1>t, <2>1, <2>2 DEF InsideInvariant, InsidePcs
  <1>12. ASSUME NEW g \in Switchers, CheckClosed(g) PROVE InsideInvariant'
    BY <1>m, <1>12 DEF CheckClosed, InsideInvariant, InsidePcs
  <1>13. ASSUME NEW g \in Switchers, OnionAdd(g) PROVE InsideInvariant'
    <2>1. CASE alive
      <3>1. pc[g] = "add" /\ pc' = [pc EXCEPT ![g] = "swap"] /\ inside' = inside \union {g}
            /\ UNCHANGED <<alive, promiseVars>>
        BY <1>13, <2>1 DEF OnionAdd, Handle!Enter
      <3> QED
        BY <1>t, <2>1, <3>1 DEF InsideInvariant, InsidePcs
    <2>2. CASE ~alive
      BY <1>m, <1>13, <2>2 DEF OnionAdd, InsidePcs
    <2> QED
      BY <2>1, <2>2
  <1>14. ASSUME NEW g \in Switchers, BlockDone(g) \/ Launch(g) PROVE InsideInvariant'
    BY <1>m, <1>14 DEF BlockDone, Launch, InsideInvariant, InsidePcs
  <1> QED
    BY EveryAction, <1>1, <1>2, <1>3, <1>4, <1>5, <1>6, <1>7, <1>8, <1>9, <1>10, <1>11, <1>12, <1>13, <1>14

\* Who is inside the client, and what a call that got so far knows, as an
\* invariant of the specification.
THEOREM InsideCorrect == Spec => []InsideInvariant
  <1>1. Init => InsideInvariant
    BY RolesAssumption DEF Init, Promise!Init, Handle!Init, InsideInvariant, InsidePcs, Switchers
  <1> QED
    BY <1>1, TypeCorrect, InsideStep, PTL DEF Spec

\* Close is never held up by a call of the Go package that waits for the network,
\* and finds nobody inside when it has the handle: for any number of callers.
THEOREM NeverBlocks == Spec => []GoNeverBlocks
  <1>1. TypeOK /\ InsideInvariant => GoNeverBlocks
    <2> SUFFICES ASSUME TypeOK, InsideInvariant PROVE GoNeverBlocks
      OBVIOUS
    <2>1. ASSUME NEW g \in inside, pc[g] = "block", ~online PROVE g \in Adders
      <3>1. g \in Switchers /\ g \notin Callers
        BY <2>1 DEF TypeOK, InsideInvariant
      <3>2. g \notin Disablers
        BY <2>1 DEF InsideInvariant
      <3> QED
        BY <3>1, <3>2 DEF Switchers
    <2> QED
      BY <2>1 DEF InsideInvariant, GoNeverBlocks
  <1> QED
    BY <1>1, TypeCorrect, InsideCorrect, PTL

\* What AttemptUnderWay rests on, together with a flag that is set.
AttemptedInvariant == AttemptUnderWay /\ (netEnabled => started > 0 \/ Waking # {})

\* A Bootstrap call that found the network on waits for an attempt that was, or
\* is being, started, however many calls race and whoever turns the network off.
THEOREM Attempted == Spec => []AttemptUnderWay
  <1>1. Init => AttemptedInvariant
    BY DEF Init, AttemptedInvariant, AttemptUnderWay, Switchers
  <1>2. TypeOK /\ InsideInvariant /\ AttemptedInvariant /\ [Next]_vars => AttemptedInvariant'
    <2> SUFFICES ASSUME TypeOK, InsideInvariant, AttemptedInvariant, [Next]_vars
                 PROVE  AttemptedInvariant'
      OBVIOUS
    <2> USE DEF Goes
    <2> DEFINE PastPcs == {"leave", "wait", "check", "add", "block", "launch"}
    <2>t. /\ pc \in [Switchers -> {"idle", "swap", "wake", "spawn", "sleep", "leave", "wait", "check",
                                   "add", "block", "launch", "returned"}]
          /\ started \in Nat /\ Callers \subseteq Switchers
      BY DEF TypeOK, Switchers
    <2>0. ASSUME started' >= started, started' \in Nat, Waking \subseteq Waking' \/ started' > 0,
                 netEnabled' => netEnabled \/ Waking' # {},
                 \A c \in Callers : pc'[c] \in PastPcs =>
                    pc[c] \in PastPcs \/ netEnabled \/ started' > 0
          PROVE  AttemptedInvariant'
      BY <2>0, <2>t DEF AttemptedInvariant, AttemptUnderWay
    <2>1. CASE AttemptSucceeds \/ AttemptFails \/ CloseBegins \/ CloseFrees \/ UNCHANGED vars
      <3>1. UNCHANGED <<switchVars, pc>>
        BY <2>1 DEF AttemptSucceeds, AttemptFails, CloseBegins, CloseFrees, vars
      <3> QED
        BY <2>0, <2>t, <3>1 DEF Waking, switchVars
    <2>2. ASSUME NEW g \in Switchers, NEW from, NEW to, Goes(g, from, to),
                 UNCHANGED switchVars, from \notin {"wake", "spawn"},
                 to \in PastPcs => from \in PastPcs
          PROVE  AttemptedInvariant'
      BY <2>0, <2>2, <2>t DEF Waking, switchVars
    <2>3. ASSUME NEW c \in Callers, BootstrapReturns(c) PROVE AttemptedInvariant'
      <3>1. c \in Switchers /\ UNCHANGED switchVars
            /\ (Goes(c, "wait", "check") \/ Goes(c, "wait", "returned"))
        BY <2>3, <2>t DEF BootstrapReturns
      <3> QED
        BY <2>2, <3>1
    <2>4. ASSUME NEW g \in Switchers, Begin(g) \/ Refused(g) PROVE AttemptedInvariant'
      BY <2>2, <2>4 DEF Begin, Refused
    <2>5. ASSUME NEW g \in Switchers, BlockConnects(g) PROVE AttemptedInvariant'
      BY <2>0, <2>5, <2>t DEF BlockConnects, Waking, switchVars
    <2>6. ASSUME NEW g \in Switchers,
                 BlockFails(g) \/ Leave(g) \/ CheckClosed(g) \/ OnionAdd(g) \/ BlockDone(g) \/ Launch(g)
          PROVE  AttemptedInvariant'
      <3>1. UNCHANGED switchVars
        BY <2>6 DEF BlockFails, Leave, CheckClosed, OnionAdd, BlockDone, Launch
      <3>2. \/ Goes(g, "block", "leave") \/ Goes(g, "leave", "wait") \/ Goes(g, "leave", "returned")
            \/ Goes(g, "check", "returned") \/ Goes(g, "check", "add") \/ Goes(g, "add", "swap")
            \/ Goes(g, "add", "returned") \/ Goes(g, "block", "launch") \/ Goes(g, "launch", "leave")
        BY <2>6 DEF BlockFails, Leave, CheckClosed, OnionAdd, BlockDone, Launch
      <3> QED
        BY <2>2, <3>1, <3>2
    <2>7. ASSUME NEW g \in Switchers, Swap(g) PROVE AttemptedInvariant'
      <3>1. /\ started' = started /\ Waking \subseteq Waking'
            /\ \A c \in Callers : pc'[c] \in PastPcs => pc[c] \in PastPcs \/ c = g
        BY <2>7, <2>t DEF Swap, Waking
      <3>2. netEnabled' /\ ~netEnabled => g \in Waking'
        BY <2>7, <2>t DEF Swap, Waking
      <3>3. g \in Callers /\ pc'[g] \in PastPcs => netEnabled
        BY <2>7, <2>t, RolesAssumption DEF Swap
      <3> QED
        BY <2>0, <2>t, <3>1, <3>2, <3>3 DEF TypeOK
    <2>8. ASSUME NEW g \in Switchers, Wake(g) PROVE AttemptedInvariant'
      BY <2>0, <2>8, <2>t DEF Wake, Waking
    <2>9. ASSUME NEW g \in Switchers, Spawn(g) PROVE AttemptedInvariant'
      <3>1. started' > 0 /\ started' \in Nat /\ started' >= started /\ netEnabled' = netEnabled
        BY <2>9, <2>t DEF Spawn
      <3> QED
        BY <2>0, <3>1
    <2>10. ASSUME NEW g \in Switchers, Sleep(g) PROVE AttemptedInvariant'
      <3>1. g \notin Callers
        BY <2>10 DEF Sleep, InsideInvariant
      <3> QED
        BY <2>0, <2>10, <2>t, <3>1 DEF Sleep, Waking
    <2> QED
      BY EveryAction, <2>1, <2>3, <2>4, <2>5, <2>6, <2>7, <2>8, <2>9, <2>10
  <1>3. AttemptedInvariant => AttemptUnderWay
    BY DEF AttemptedInvariant
  <1> QED
    BY <1>1, <1>2, <1>3, TypeCorrect, InsideCorrect, PTL DEF Spec
=============================================================================
