--------------------------- MODULE FfiHandleProofs ---------------------------
(***************************************************************************)
(* Proofs about FfiHandle, for every set of goroutines.                    *)
(***************************************************************************)
EXTENDS FfiHandle, TLAPS

\* Every variable keeps its type, whatever calls and closes overlap.
THEOREM TypeCorrect == Spec => []TypeOK
  <1>1. Init => TypeOK
    BY DEF Init, TypeOK, Goroutines, UserOps, rustVars
  <1>2. TypeOK /\ [Next]_vars => TypeOK'
    <2> SUFFICES ASSUME TypeOK, [Next]_vars PROVE TypeOK'
      OBVIOUS
    <2> USE DEF TypeOK, Goroutines, UserOps, rustVars, Moves
    <2>1. ASSUME NEW u \in Users, Call(u) PROVE TypeOK'
      BY <2>1, ActorsAssumption DEF Call
    <2>2. ASSUME NEW k \in Closers, CallClose(k) PROVE TypeOK'
      BY <2>2 DEF CallClose
    <2>3. ASSUME NEW k \in Closers, FreeStep(k) PROVE TypeOK'
      <3>1. CASE Announce(k)
        BY <3>1 DEF Announce
      <3>2. CASE Lock(k)
        BY <3>2 DEF Lock
      <3>3. CASE FreeNative(k)
        BY <3>3 DEF FreeNative, shutdown
      <3>4. CASE FreeNothing(k)
        BY <3>4 DEF FreeNothing
      <3>5. CASE Unlock(k)
        BY <3>5 DEF Unlock, Unlocked
      <3> QED
        BY <2>3, <3>1, <3>2, <3>3, <3>4, <3>5 DEF FreeStep
    <2>4. ASSUME NEW g \in Goroutines, Step(g) PROVE TypeOK'
      <3>1. CASE RLock(g)
        BY <3>1 DEF RLock
      <3>2. CASE CallOnNil(g)
        BY <3>2 DEF CallOnNil, After
      <3>3. CASE EnterNative(g)
        BY <3>3 DEF EnterNative
      <3>4. CASE LeaveNative(g)
        <4>1. services' \subseteq Users /\ exit' \in BOOLEAN
          <5>1. CASE op[g] = "onion_add"
            BY <3>4, <5>1 DEF LeaveNative, Effect
          <5>2. CASE op[g] = "onion_del"
            BY <3>4, <5>2 DEF LeaveNative, Effect
          <5>3. CASE op[g] = "shutdown"
            BY <3>4, <5>3 DEF LeaveNative, Effect, shutdown
          <5>4. CASE op[g] = "wait"
            BY <3>4, <5>4 DEF LeaveNative, Effect
          <5>5. CASE op[g] \notin {"onion_add", "onion_del", "shutdown", "wait"}
            BY <3>4, <5>5 DEF LeaveNative, Effect
          <5> QED
            BY <5>1, <5>2, <5>3, <5>4, <5>5
        <4> QED
          BY <3>4, <4>1 DEF LeaveNative, After
      <3> QED
        BY <2>4, <3>1, <3>2, <3>3, <3>4 DEF Step
    <2>5. CASE UNCHANGED vars
      BY <2>5 DEF vars
    <2> QED
      BY <2>1, <2>2, <2>3, <2>4, <2>5 DEF Next
  <1> QED
    BY <1>1, <1>2, PTL DEF Spec

\* The lock and the handle stay in step: each action preserves LockInvariant.
LEMMA LockStep == TypeOK /\ LockInvariant /\ [Next]_vars => LockInvariant'
  <1> SUFFICES ASSUME TypeOK, LockInvariant, [Next]_vars PROVE LockInvariant'
    OBVIOUS
  <1> USE ActorsAssumption DEF TypeOK, LockInvariant, Goroutines, rustVars, Moves
  <1>1. ASSUME NEW u \in Users, Call(u) PROVE LockInvariant'
    BY <1>1 DEF Call, UserOps
  <1>2. ASSUME NEW k \in Closers, CallClose(k) PROVE LockInvariant'
    BY <1>2 DEF CallClose
  <1>3. ASSUME NEW k \in Closers, FreeStep(k) PROVE LockInvariant'
    <2>1. CASE Announce(k)
      BY <2>1 DEF Announce
    <2>2. CASE Lock(k)
      BY <2>2 DEF Lock
    <2>3. CASE FreeNative(k)
      BY <2>3 DEF FreeNative
    <2>4. CASE FreeNothing(k)
      BY <2>4 DEF FreeNothing
    <2>5. CASE Unlock(k)
      BY <2>5 DEF Unlock, Unlocked
    <2> QED
      BY <1>3, <2>1, <2>2, <2>3, <2>4, <2>5 DEF FreeStep
  <1>4. ASSUME NEW g \in Goroutines, Step(g) PROVE LockInvariant'
    <2>1. CASE RLock(g)
      BY <2>1 DEF RLock
    <2>2. CASE CallOnNil(g)
      BY <2>2 DEF CallOnNil, After
    <2>3. CASE EnterNative(g)
      BY <2>3 DEF EnterNative
    <2>4. CASE LeaveNative(g)
      BY <2>4 DEF LeaveNative, After
    <2> QED
      BY <1>4, <2>1, <2>2, <2>3, <2>4 DEF Step
  <1>5. CASE UNCHANGED vars
    BY <1>5 DEF vars
  <1> QED
    BY <1>1, <1>2, <1>3, <1>4, <1>5 DEF Next

\* The strengthening that HandleSafe and Implements rest on, as an invariant of
\* the specification.
THEOREM LockCorrect == Spec => []LockInvariant
  <1>1. Init => LockInvariant
    BY ActorsAssumption DEF Init, LockInvariant, Goroutines
  <1> QED
    BY <1>1, TypeCorrect, LockStep, PTL DEF Spec

\* "A freed handle can never be passed back across the FFI boundary", and it is
\* freed once, for every number of goroutines calling and closing.
THEOREM HandleSafe == Spec => []NoUseAfterFree
  <1>1. TypeOK /\ LockInvariant => NoUseAfterFree
    BY DEF TypeOK, LockInvariant, NoUseAfterFree, Goroutines
  <1> QED
    BY <1>1, TypeCorrect, LockCorrect, PTL

\* No onion service outlives the client without having been shut down: nothing
\* adds one after free has shut the client down.
THEOREM ServicesStopped == Spec => []NoServiceAbandoned
  <1>1. Init => NoServiceAbandoned
    BY DEF Init, NoServiceAbandoned
  <1>2. TypeOK /\ LockInvariant /\ NoServiceAbandoned /\ [Next]_vars => NoServiceAbandoned'
    <2> SUFFICES ASSUME TypeOK, LockInvariant, NoServiceAbandoned, [Next]_vars
                 PROVE  NoServiceAbandoned'
      OBVIOUS
    <2> USE DEF NoServiceAbandoned, rustVars
    <2>1. ASSUME NEW u \in Users, Call(u) PROVE NoServiceAbandoned'
      BY <2>1 DEF Call
    <2>2. ASSUME NEW k \in Closers, CallClose(k) PROVE NoServiceAbandoned'
      BY <2>2 DEF CallClose
    <2>3. ASSUME NEW k \in Closers, FreeStep(k) PROVE NoServiceAbandoned'
      BY <2>3 DEF FreeStep, Announce, Lock, FreeNative, FreeNothing, Unlock, shutdown
    <2>4. ASSUME NEW g \in Goroutines, Step(g) PROVE NoServiceAbandoned'
      <3>1. CASE LeaveNative(g)
        <4>1. native = "up"
          BY <3>1 DEF LeaveNative, Moves, TypeOK, LockInvariant
        <4> QED
          BY <3>1, <4>1 DEF LeaveNative
      <3>2. CASE RLock(g) \/ CallOnNil(g) \/ EnterNative(g)
        BY <3>2 DEF RLock, CallOnNil, EnterNative
      <3> QED
        BY <2>4, <3>1, <3>2 DEF Step
    <2>5. CASE UNCHANGED vars
      BY <2>5 DEF vars
    <2> QED
      BY <2>1, <2>2, <2>3, <2>4, <2>5 DEF Next
  <1> QED
    BY <1>1, <1>2, TypeCorrect, LockCorrect, PTL DEF Spec

\* The lock and the nil checks together implement the simple promise: a client
\* that is released once, with nobody inside.
THEOREM Implements == Spec => KeepsPromise
  <1> DEFINE inside == {g \in Goroutines : pc[g] = "native"}
  <1>1. Init => Promise!Init
    BY DEF Init, Promise!Init
  <1>2. TypeOK /\ LockInvariant /\ [Next]_vars => [Promise!Next]_Promise!vars
    <2> SUFFICES ASSUME TypeOK, LockInvariant, [Next]_vars
                 PROVE  [Promise!Next]_Promise!vars
      OBVIOUS
    <2> USE DEF Moves, rustVars
    <2>0. ASSUME UNCHANGED native, inside' = inside PROVE UNCHANGED Promise!vars
      BY <2>0 DEF Promise!vars
    <2>1. ASSUME NEW u \in Users, Call(u) PROVE UNCHANGED Promise!vars
      BY <2>1, <2>0 DEF Call, TypeOK
    <2>2. ASSUME NEW k \in Closers, CallClose(k) PROVE UNCHANGED Promise!vars
      BY <2>2, <2>0 DEF CallClose, TypeOK
    <2>3. ASSUME NEW k \in Closers, FreeStep(k) PROVE Promise!Release \/ UNCHANGED Promise!vars
      <3>1. CASE Announce(k)
        BY <3>1, <2>0 DEF Announce, TypeOK
      <3>2. CASE Lock(k)
        BY <3>2, <2>0 DEF Lock, TypeOK
      <3>3. CASE FreeNative(k)
        <4>1. inside = {} /\ inside' = {}
          BY <3>3 DEF FreeNative, TypeOK, LockInvariant, Goroutines
        <4>2. native = "up"
          BY <3>3 DEF FreeNative, TypeOK, LockInvariant, Goroutines
        <4> QED
          BY <3>3, <4>1, <4>2 DEF FreeNative, Promise!Release
      <3>4. CASE FreeNothing(k)
        BY <3>4, <2>0 DEF FreeNothing, TypeOK
      <3>5. CASE Unlock(k)
        BY <3>5, <2>0 DEF Unlock, Unlocked, TypeOK, Goroutines
      <3> QED
        BY <2>3, <3>1, <3>2, <3>3, <3>4, <3>5 DEF FreeStep
    <2>4. ASSUME NEW g \in Goroutines, Step(g)
          PROVE  Promise!Enter(g) \/ Promise!Leave(g) \/ UNCHANGED Promise!vars
      <3>1. CASE RLock(g)
        BY <3>1, <2>0 DEF RLock, TypeOK
      <3>2. CASE CallOnNil(g)
        BY <3>2, <2>0 DEF CallOnNil, After, TypeOK
      <3>3. CASE EnterNative(g)
        <4>1. native = "up"
          BY <3>3 DEF EnterNative, TypeOK, LockInvariant
        <4>2. inside' = inside \union {g}
          BY <3>3 DEF EnterNative, TypeOK
        <4> QED
          BY <3>3, <4>1, <4>2 DEF EnterNative, Promise!Enter
      <3>4. CASE LeaveNative(g)
        <4>1. g \in inside /\ inside' = inside \ {g}
          BY <3>4 DEF LeaveNative, After, TypeOK
        <4> QED
          BY <3>4, <4>1 DEF LeaveNative, Promise!Leave
      <3> QED
        BY <2>4, <3>1, <3>2, <3>3, <3>4 DEF Step
    <2>5. CASE UNCHANGED vars
      BY <2>5, <2>0 DEF vars
    <2> QED
      BY <2>1, <2>2, <2>3, <2>4, <2>5 DEF Next, Promise!Next
  <1> QED
    BY <1>1, <1>2, TypeCorrect, LockCorrect, PTL DEF Spec, KeepsPromise, Promise!Spec
-----------------------------------------------------------------------------
(* Why Close gets through: what CloseCompletes rests on, without fairness. *)

\* Where a closer is once its Shutdown has returned.
ShutDownPcs == {"announce", "draining", "freeing", "clearing", "done"}

\* Whoever is past Shutdown, and whoever finds the handle gone, finds exit set.
ExitInvariant ==
    /\ \A k \in Closers : pc[k] \in ShutDownPcs => exit
    /\ handle = "nil" \/ native = "dropped" => exit
    /\ \A k \in Closers : pc[k] \in {"call", "blocked", "locked", "native"} => op[k] = "shutdown"

\* A call inside the Rust client that cannot return yet.
Stuck(g) == pc[g] = "native" /\ op[g] = "wait" /\ ~exit

\* Close shuts down first, so from the moment it asks for the write lock no call
\* that holds the read lock waits for what Close would have to bring about:
\* `wait` and `free` cannot wait for each other.
CloseNeverStuck ==
    \A k \in Closers : pc[k] \in ShutDownPcs => \A g \in Goroutines : ~Stuck(g)

\* The goroutines that hold the read lock.
Readers == {g \in Goroutines : pc[g] \in {"locked", "native"}}

\* Once a closer has announced itself the readers can only become fewer: calls
\* made in the meantime, however many, wait behind it.
ReadersDrain == [][writer # None /\ writer' = writer => Readers' \subseteq Readers]_vars

\* Every action keeps exit set for those who rely on it.
LEMMA ExitStep == TypeOK /\ LockInvariant /\ ExitInvariant /\ [Next]_vars => ExitInvariant'
  <1> SUFFICES ASSUME TypeOK, LockInvariant, ExitInvariant, [Next]_vars PROVE ExitInvariant'
    OBVIOUS
  <1> USE ActorsAssumption DEF ExitInvariant, ShutDownPcs, TypeOK, Goroutines, rustVars, Moves
  <1>1. ASSUME NEW u \in Users, Call(u) PROVE ExitInvariant'
    BY <1>1 DEF Call, UserOps
  <1>2. ASSUME NEW k \in Closers, CallClose(k) PROVE ExitInvariant'
    BY <1>2 DEF CallClose
  <1>3. ASSUME NEW k \in Closers, FreeStep(k) PROVE ExitInvariant'
    <2>1. CASE Announce(k)
      BY <2>1 DEF Announce
    <2>2. CASE Lock(k)
      BY <2>2 DEF Lock
    <2>3. CASE FreeNative(k)
      BY <2>3 DEF FreeNative, shutdown
    <2>4. CASE FreeNothing(k)
      BY <2>4 DEF FreeNothing
    <2>5. CASE Unlock(k)
      BY <2>5 DEF Unlock, Unlocked
    <2> QED
      BY <1>3, <2>1, <2>2, <2>3, <2>4, <2>5 DEF FreeStep
  <1>4. ASSUME NEW g \in Goroutines, Step(g) PROVE ExitInvariant'
    <2>1. CASE RLock(g)
      BY <2>1 DEF RLock
    <2>2. CASE CallOnNil(g)
      BY <2>2 DEF CallOnNil, After
    <2>3. CASE EnterNative(g)
      BY <2>3 DEF EnterNative
    <2>4. CASE LeaveNative(g)
      <3>1. (exit => exit') /\ (op[g] = "shutdown" => exit')
        <4>1. CASE op[g] \in {"onion_add", "onion_del", "wait"}
          BY <2>4, <4>1 DEF LeaveNative, Effect
        <4>2. CASE op[g] = "shutdown"
          BY <2>4, <4>2 DEF LeaveNative, Effect, shutdown
        <4>3. CASE op[g] \notin {"onion_add", "onion_del", "wait", "shutdown"}
          BY <2>4, <4>3 DEF LeaveNative, Effect
        <4> QED
          BY <4>1, <4>2, <4>3
      <3> QED
        BY <2>4, <3>1 DEF LeaveNative, After
    <2> QED
      BY <1>4, <2>1, <2>2, <2>3, <2>4 DEF Step
  <1>5. CASE UNCHANGED vars
    BY <1>5 DEF vars
  <1> QED
    BY <1>1, <1>2, <1>3, <1>4, <1>5 DEF Next

\* Close and a blocked `wait` never wait for each other, for every number of
\* goroutines.
THEOREM NeverStuck == Spec => []CloseNeverStuck
  <1>1. Init => ExitInvariant
    BY ActorsAssumption DEF Init, ExitInvariant, ShutDownPcs, Goroutines
  <1>2. ExitInvariant => CloseNeverStuck
    BY DEF ExitInvariant, CloseNeverStuck, Stuck
  <1> QED
    BY <1>1, <1>2, TypeCorrect, LockCorrect, ExitStep, PTL DEF Spec

\* A closer is not overtaken: the readers it waits for are among those that held
\* the lock when it announced itself.
THEOREM Drains == Spec => ReadersDrain
  <1>1. TypeOK /\ LockInvariant /\ [Next]_vars
          => [writer # None /\ writer' = writer => Readers' \subseteq Readers]_vars
    <2> SUFFICES ASSUME TypeOK, LockInvariant, Next, writer # None, writer' = writer
                 PROVE  Readers' \subseteq Readers
      OBVIOUS
    <2> USE ActorsAssumption DEF Readers, TypeOK, Goroutines, Moves
    <2>1. ASSUME NEW u \in Users, Call(u) PROVE Readers' \subseteq Readers
      BY <2>1 DEF Call
    <2>2. ASSUME NEW k \in Closers, CallClose(k) PROVE Readers' \subseteq Readers
      BY <2>2 DEF CallClose
    <2>3. ASSUME NEW k \in Closers, FreeStep(k) PROVE Readers' \subseteq Readers
      BY <2>3 DEF FreeStep, Announce, Lock, FreeNative, FreeNothing, Unlock
    <2>4. ASSUME NEW g \in Goroutines, Step(g) PROVE Readers' \subseteq Readers
      BY <2>4 DEF Step, RLock, CallOnNil, EnterNative, LeaveNative, After
    <2> QED
      BY <2>1, <2>2, <2>3, <2>4 DEF Next
  <1> QED
    BY <1>1, TypeCorrect, LockCorrect, PTL DEF Spec, ReadersDrain

=============================================================================
