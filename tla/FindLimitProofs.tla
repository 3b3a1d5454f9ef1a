--------------------------- MODULE FindLimitProofs ---------------------------
(***************************************************************************)
(* Proofs about FindLimit, for every initial step, granularity and limit.  *)
(* Termination is liveness and stays with TLC; EachIterationProgresses and *)
(* the measure of MeasureFalls are the safety half of it.                  *)
(***************************************************************************)
EXTENDS FindLimit, TLAPS

\* Truncating division, in the cases the search tells apart: a step shorter
\* than a tick moves nothing, one of up to two ticks moves one tick.
LEMMA TickDivision ==
    ASSUME NEW d \in Nat, NEW t \in Nat \ {0}
    PROVE  /\ d \div t \in Nat
           /\ d < t => d \div t = 0
           /\ d >= t => d \div t >= 1
           /\ (d >= t /\ d < 2 * t) => d \div t = 1
  OBVIOUS

\* A halved step is shorter, at least 1ns, and still a tick long if it was two.
LEMMA Halving ==
    ASSUME NEW d \in Nat, d > 1
    PROVE  /\ Half(d) \in Nat /\ Half(d) >= 1 /\ Half(d) < d
           /\ \A t \in Nat \ {0} : d >= 2 * t => Half(d) >= t
  BY DEF Half

\* Every variable keeps its type: the result never leaves the clock's range,
\* whatever steps the search tries.
THEOREM TypeCorrect == Spec => []TypeOK
  <1>1. Init => TypeOK
    <2> SUFFICES ASSUME Init PROVE TypeOK
      OBVIOUS
    <2>1. limit \in Nat /\ InitialStep \in 1..InitialStep
      BY StepAssumption, ClockAssumption DEF Init
    <2>2. res \in 0..limit
      BY <2>1 DEF Init
    <2>3. returned \in BOOLEAN
      BY DEF Init
    <2> QED
      BY <2>1, <2>2, <2>3 DEF Init, TypeOK
  <1>2. TypeOK /\ [Next]_vars => TypeOK'
    <2> SUFFICES ASSUME TypeOK, [Next]_vars PROVE TypeOK'
      OBVIOUS
    <2> USE StepAssumption, ClockAssumption DEF TypeOK
    <2>1. CASE Advance
      BY <2>1, TickDivision DEF Advance, InRange, ticks
    <2>2. CASE Halve
      BY <2>2, Halving DEF Halve
    <2>3. CASE Return
      BY <2>3 DEF Return
    <2>4. CASE UNCHANGED vars
      BY <2>4 DEF vars
    <2> QED
      BY <2>1, <2>2, <2>3, <2>4 DEF Next
  <1> QED
    BY <1>1, <1>2, PTL DEF Spec

\* The inductive step: a halving that takes the step below one tick happens
\* only at the limit, because the step was then one tick and did not fit.
LEMMA InvariantStep ==
    TypeOK /\ LimitInvariant /\ [Next]_vars => LimitInvariant'
  <1> SUFFICES ASSUME TypeOK, LimitInvariant, [Next]_vars
               PROVE  LimitInvariant'
    OBVIOUS
  <1> USE DEF TypeOK, LimitInvariant, FindsLimit
  <1>0. /\ tick \in Nat \ {0} /\ limit \in Nat
        /\ step \in Nat /\ step >= 1 /\ res \in Nat /\ res <= limit
    BY StepAssumption, ClockAssumption
  <1>1. CASE Advance
    <2>1. step >= tick
      BY <1>0, <1>1, TickDivision DEF Advance, stalled, ticks
    <2> QED
      BY <1>0, <1>1, <2>1 DEF Advance
  <1>2. CASE Halve
    <2>1. CASE step >= 2 * tick
      BY <1>0, <1>2, <2>1, Halving DEF Halve
    <2>2. CASE step < 2 * tick /\ step >= tick
      <3>1. step \div tick = 1
        BY <1>0, <2>2, TickDivision
      <3>2. res = limit
        BY <1>0, <1>2, <3>1 DEF Halve, InRange, stalled, ticks
      <3> QED
        BY <1>2, <3>2 DEF Halve
    <2>3. CASE step < tick
      BY <1>0, <1>2, <2>3 DEF Halve
    <2> QED
      BY <1>0, <2>1, <2>2, <2>3
  <1>3. CASE Return
    <2>1. CASE step >= tick
      <3>1. step = 1 /\ tick = 1
        BY <1>0, <1>3, <2>1 DEF Return
      <3>2. step \div tick = 1
        BY <1>0, <3>1, TickDivision
      <3>3. res = limit
        BY <1>0, <1>3, <3>2 DEF Return, InRange, stalled, ticks
      <3> QED
        BY <1>3, <3>3 DEF Return
    <2>2. CASE step < tick
      BY <1>0, <1>3, <2>2 DEF Return
    <2> QED
      BY <1>0, <2>1, <2>2
  <1>4. CASE UNCHANGED vars
    BY <1>4 DEF vars
  <1> QED
    BY <1>1, <1>2, <1>3, <1>4 DEF Next

\* LimitInvariant, of which FindsLimit is a part, holds on every clock.
THEOREM Exact == Spec => []LimitInvariant
  <1>1. Init => LimitInvariant
    BY StepAssumption, ClockAssumption DEF Init, LimitInvariant, FindsLimit
  <1> QED
    BY <1>1, TypeCorrect, InvariantStep, PTL DEF Spec

\* find_limit returns the largest value the clock can hold, for every
\* granularity up to the initial step.
THEOREM LimitFound == Spec => []FindsLimit
  <1>1. LimitInvariant => FindsLimit
    BY DEF LimitInvariant
  <1> QED
    BY <1>1, Exact, PTL

\* No iteration leaves the search where it was: the hang that the stalled check
\* in find_limit repairs cannot occur on any clock.
THEOREM Progress == Spec => EachIterationProgresses
  <1>1. TypeOK /\ [Next]_vars =>
            [res' > res \/ (res' = res /\ step' < step) \/ returned']_vars
    <2> SUFFICES ASSUME TypeOK, Next
                 PROVE  res' > res \/ (res' = res /\ step' < step) \/ returned'
      OBVIOUS
    <2> USE DEF TypeOK
    <2>0. /\ tick \in Nat \ {0} /\ limit \in Nat
          /\ step \in Nat /\ step >= 1 /\ res \in Nat
      BY StepAssumption, ClockAssumption
    <2>1. CASE Advance
      <3>1. step \div tick \in Nat /\ step \div tick # 0
        BY <2>0, <2>1, TickDivision DEF Advance, stalled, ticks
      <3> QED
        BY <2>0, <2>1, <3>1 DEF Advance, ticks
    <2>2. CASE Halve
      BY <2>0, <2>2, Halving DEF Halve
    <2>3. CASE Return
      BY <2>3 DEF Return
    <2> QED
      BY <2>1, <2>2, <2>3 DEF Next
  <1> QED
    BY <1>1, TypeCorrect, PTL DEF Spec, EachIterationProgresses
-----------------------------------------------------------------------------
(* How long the search takes.                                              *)

\* What is left to do: the way to the limit, the step, and to return.
Measure == (limit - res) + step + (IF returned THEN 0 ELSE 1)

\* Every iteration, in every direction the search may take, leaves less to do;
\* so there are never more of them than the first measure, and with weak
\* fairness of Next find_limit returns.
THEOREM MeasureFalls ==
    Spec => [](Measure \in 0..(limit + InitialStep + 1)) /\ [][Measure' < Measure]_vars
  <1>1. TypeOK => Measure \in 0..(limit + InitialStep + 1)
    BY StepAssumption, ClockAssumption DEF TypeOK, Measure
  <1>2. TypeOK /\ [Next]_vars => [Measure' < Measure]_vars
    <2> SUFFICES ASSUME TypeOK, Next PROVE Measure' < Measure
      OBVIOUS
    <2>0. /\ tick \in Nat \ {0} /\ limit \in Nat
          /\ step \in Nat /\ step >= 1 /\ res \in Nat /\ res <= limit
      BY StepAssumption, ClockAssumption DEF TypeOK
    <2>1. CASE Advance
      <3>1. step \div tick \in Nat /\ step \div tick # 0
        BY <2>0, <2>1, TickDivision DEF Advance, stalled, ticks
      <3>2. UNCHANGED <<tick, limit, step, returned>> /\ res' = res + (step \div tick)
        BY <2>1 DEF Advance, ticks
      <3> QED
        BY <2>0, <3>1, <3>2 DEF Measure
    <2>2. CASE Halve
      <3>1. step' \in Nat /\ step' < step
        BY <2>0, <2>2, Halving DEF Halve
      <3>2. UNCHANGED <<tick, limit, res, returned>> /\ ~returned
        BY <2>2 DEF Halve
      <3>3. Measure = (limit - res) + step + 1 /\ Measure' = (limit - res) + step' + 1
        BY <3>2 DEF Measure
      <3>4. \A a, b \in Nat : b < step => a + b + 1 < a + step + 1
        BY <2>0
      <3>5. limit - res \in Nat
        BY <2>0
      <3> QED
        BY <3>1, <3>3, <3>4, <3>5
    <2>3. CASE Return
      <3>1. UNCHANGED <<limit, step, res>>
        BY <2>3 DEF Return
      <3>2. ~returned /\ returned'
        BY <2>3 DEF Return
      <3>3. Measure = (limit - res) + step + 1
        BY <3>2 DEF Measure
      <3>4. Measure' = (limit - res) + step + 0
        BY <3>1, <3>2 DEF Measure
      <3> QED
        BY <2>0, <3>3, <3>4
    <2> QED
      BY <2>1, <2>2, <2>3 DEF Next
  <1> QED
    BY <1>1, <1>2, TypeCorrect, PTL DEF Spec

\* Half a step loses at most one tick of the half it should move.
LEMMA HalfTicks ==
    ASSUME NEW d \in Nat, d > 1, NEW t \in Nat \ {0}
    PROVE  d \div t <= 2 * (Half(d) \div t) + 1
  <1> DEFINE h == Half(d)
             q == h \div t
             p == d \div t
  <1>1. h \in Nat /\ d <= 2 * h + 1
    BY DEF Half
  <1> HIDE DEF h
  <1>2. q \in Nat /\ h < (q + 1) * t
    BY <1>1
  <1>3. p \in Nat /\ p * t <= d
    OBVIOUS
  <1> HIDE DEF p, q
  <1>4. h + 1 <= (q + 1) * t /\ (q + 1) * t \in Nat
    BY <1>1, <1>2
  <1>5. 2 * ((q + 1) * t) = (2 * q + 2) * t
    BY <1>2
  <1>6. p * t < (2 * q + 2) * t
    BY <1>1, <1>3, <1>4, <1>5
  <1>7. p < 2 * q + 2
    BY <1>2, <1>3, <1>6
  <1>8. p <= 2 * q + 1
    BY <1>2, <1>3, <1>7
  <1> QED
    BY <1>8 DEF p, q, h

\* Once the step has been halved, the limit is at most two steps away.
TwoStepsLeft == step < InitialStep => limit - res <= 2 * ticks(step)

\* Each step length after the first moves the result at most twice, so the
\* search takes time in the logarithm of the range and not in the range.
THEOREM SearchIsShort == Spec => []TwoStepsLeft
  <1>1. Init => TwoStepsLeft
    BY StepAssumption DEF Init, TwoStepsLeft
  <1>2. TypeOK /\ LimitInvariant /\ TwoStepsLeft /\ [Next]_vars => TwoStepsLeft'
    <2> SUFFICES ASSUME TypeOK, LimitInvariant, TwoStepsLeft, [Next]_vars PROVE TwoStepsLeft'
      OBVIOUS
    <2>0. /\ tick \in Nat \ {0} /\ limit \in Nat
          /\ step \in Nat /\ step >= 1 /\ res \in Nat /\ res <= limit
          /\ step \div tick \in Nat
      BY StepAssumption, ClockAssumption, TickDivision DEF TypeOK
    <2>1. CASE Advance
      <3>1. UNCHANGED <<tick, limit, step>> /\ res' = res + (step \div tick)
        BY <2>1 DEF Advance, ticks
      <3> QED
        BY <2>0, <3>1, StepAssumption DEF TwoStepsLeft, ticks
    <2>2. CASE Halve
      <3>1. UNCHANGED <<tick, limit, res>> /\ step' = Half(step) /\ step > 1
        BY <2>0, <2>2 DEF Halve
      <3>2. Half(step) \in Nat
        BY <2>0, <3>1, Halving
      <3>3. Half(step) \div tick \in Nat
        BY <2>0, <3>2, TickDivision
      <3>4. CASE ~InRange
        <4>1. limit - res < step \div tick
          BY <2>0, <3>4 DEF InRange, ticks
        <4>2. step \div tick <= 2 * (Half(step) \div tick) + 1
          BY <2>0, <3>1, HalfTicks
        <4>3. limit - res <= 2 * (Half(step) \div tick)
          BY <2>0, <3>3, <4>1, <4>2
        <4> QED
          BY <3>1, <4>3 DEF TwoStepsLeft, ticks
      <3>5. CASE stalled
        <4>1. step < tick
          BY <2>0, <3>5, TickDivision DEF stalled, ticks
        <4>2. res = limit
          BY <2>0, <4>1 DEF LimitInvariant
        <4> QED
          BY <2>0, <3>1, <3>3, <4>2 DEF TwoStepsLeft, ticks
      <3> QED
        BY <2>2, <3>4, <3>5 DEF Halve
    <2>3. CASE Return \/ UNCHANGED vars
      BY <2>3 DEF Return, vars, TwoStepsLeft, ticks
    <2> QED
      BY <2>1, <2>2, <2>3 DEF Next
  <1> QED
    BY <1>1, <1>2, TypeCorrect, Exact, PTL DEF Spec
=============================================================================
