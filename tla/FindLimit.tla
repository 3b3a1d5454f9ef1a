------------------------------ MODULE FindLimit ------------------------------
(***************************************************************************)
(* find_limit of the vendored saturating-time crate, the search for the    *)
(* largest value a platform's clock can hold, with the project's fix for   *)
(* clocks coarser than a nanosecond. A clock moves in ticks of `tick`      *)
(* nanoseconds, truncating what it is asked to move by, and refuses to go  *)
(* beyond `limit` ticks from the anchor. find_max and find_min are the two *)
(* directions of the same search.                                          *)
(***************************************************************************)
EXTENDS Naturals

CONSTANTS InitialStep,  \* INITIAL_STEP, in nanoseconds (10^27 in the code)
          Ticks,        \* the granularities considered, in nanoseconds
          Limits        \* the limits considered, in ticks from the anchor

ASSUME StepAssumption == InitialStep \in Nat \ {0}
ASSUME ClockAssumption == Limits \subseteq Nat /\ Ticks \subseteq 1..InitialStep

VARIABLES tick, limit,  \* the platform's clock
          step,         \* step, in nanoseconds
          res,          \* res, in ticks from the anchor
          returned      \* find_limit has returned res

vars == <<tick, limit, step, res, returned>>

TypeOK == /\ tick \in Ticks /\ limit \in Limits
          /\ step \in 1..InitialStep
          /\ res \in 0..limit
          /\ returned \in BOOLEAN

Init == /\ tick \in Ticks /\ limit \in Limits
        /\ step = InitialStep
        /\ res = 0
        /\ returned = FALSE

\* What the clock moves by when it is asked to move by d nanoseconds.
ticks(d) == d \div tick

\* f(&res, step) returns Some.
InRange == res + ticks(step) <= limit

\* Mutant: upstream's version, in which a step that moves nothing is progress.
NeverStalled == FALSE

stalled == ticks(step) = 0

\* Mutant: the step shrinks by more than half.
Quarter(d) == IF d \div 4 > 1 THEN d \div 4 ELSE 1

Half(d) == IF d \div 2 > 1 THEN d \div 2 ELSE 1

\* (2.1) Some, and it moved: go on from there.
Advance == /\ ~returned /\ InRange /\ ~stalled
           /\ res' = res + ticks(step)
           /\ UNCHANGED <<tick, limit, step, returned>>

\* (2.3) None, or stalled, with a larger step.
Halve == /\ ~returned /\ (~InRange \/ stalled) /\ step # 1
         /\ step' = Half(step)
         /\ UNCHANGED <<tick, limit, res, returned>>

\* (2.2) None, or stalled, with a step of 1ns.
Return == /\ ~returned /\ (~InRange \/ stalled) /\ step = 1
          /\ returned' = TRUE
          /\ UNCHANGED <<tick, limit, step, res>>

Next == Advance \/ Halve \/ Return

Spec == Init /\ [][Next]_vars /\ WF_vars(Next)
-----------------------------------------------------------------------------
\* What find_limit returns is the limit, whatever the granularity of the clock:
\* no smaller step can have been skipped on the way down.
FindsLimit == returned => res = limit

\* The search cannot go round in place, which is how it hung on Windows: each
\* iteration moves the result, shortens the step or returns.
EachIterationProgresses ==
    [][res' > res \/ (res' = res /\ step' < step) \/ returned']_vars

\* find_limit returns.
Terminates == <>returned

\* Why FindsLimit holds: steps at least as long as a tick still move, and the
\* last of them is shorter than two ticks, so it stops only at the limit.
LimitInvariant == /\ step >= tick \/ res = limit
                  /\ FindsLimit
=============================================================================
