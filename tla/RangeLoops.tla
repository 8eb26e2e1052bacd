-------------------------------- MODULE RangeLoops --------------------------------
(***************************************************************************)
(* A for loop over range() with symbolic arguments: intercept_range        *)
(* (overrides/overrides.py) records one branch and makes a RangeIterator   *)
(* (overrides/util.py), which then yields values without a branch.         *)
(*                                                                         *)
(* Arguments are integers: literals, or parameters of the tested function. *)
(* A formula stands for its value on every input; the concrete half of a   *)
(* symbolic value is its value on the input of the run.                    *)
(***************************************************************************)
EXTENDS Integers, Sequences

CONSTANTS
  RangeInput,  \* inputs: parameter -> integer
  RangeCall    \* the argument lists of the calls of range

Literal(n) == [symbolic |-> FALSE, value |-> [i \in RangeInput |-> n]]
Parameter(p) == [symbolic |-> TRUE, value |-> [i \in RangeInput |-> i[p]]]

Argument ==
  {arg \in [symbolic : BOOLEAN, value : [RangeInput -> Int]] :
     arg.symbolic \/ \A i, j \in RangeInput : arg.value[i] = arg.value[j]}
ASSUME RangeCallAssumption ==
  \A args \in RangeCall : args \in Seq(Argument) /\ Len(args) \in 1 .. 3

VARIABLES
  call,      \* the arguments, fixed
  given,     \* the input of the run, fixed
  begin,     \* starting_value
  yields,    \* the values yielded, as formulas
  samePath,  \* inputs that agree with the recorded branch
  loop,      \* "new", "iterating" or "ended"
  loopMarks  \* taken_history of this loop

loopVars == <<call, given, begin, yields, samePath, loop, loopMarks>>

Three == Len(call) = 3
EndValue == IF Len(call) = 1 THEN call[1] ELSE call[2]
Stride == IF Three THEN call[3] ELSE Literal(1)
PyStart == IF Len(call) = 1 THEN Literal(0) ELSE call[1]

\* capture_symbolic_iterator
StartingValue ==
  CASE Len(call) = 1 -> [i \in RangeInput |-> 0]
    [] Len(call) > 1 /\ ~call[1].symbolic /\ call[2].symbolic ->
         [i \in RangeInput |-> call[2].value[i] - (call[2].value[i] - call[1].value[i])]
    [] OTHER -> call[1].value

\* continue_loop, on an input
ContinueLoop(value, i) == value[i] < EndValue.value[i]

MaxLoopIterations == 10

LoopIdle ==
  /\ call = <<Literal(0)>> /\ given = CHOOSE i \in RangeInput : TRUE
  /\ begin = [i \in RangeInput |-> 0] /\ yields = <<>> /\ samePath = RangeInput
  /\ loop = "ended" /\ loopMarks = {}

LoopInit ==
  /\ call \in RangeCall /\ \E k \in DOMAIN call : call[k].symbolic
  /\ given \in RangeInput
  /\ begin = [i \in RangeInput |-> 0] /\ yields = <<>> /\ samePath = RangeInput
  /\ loop = "new" /\ loopMarks = {}

\* Mutant: an empty range counts as one that runs.
Skips(i) == PyStart.value[i] > EndValue.value[i]

\* "0 >= x" and so on: the loop does not execute.
SkipsBody(i) == PyStart.value[i] >= EndValue.value[i]

\* Only the stride is symbolic.
PassesEnd(i) == call[1].value[i] + call[3].value[i] > call[2].value[i]

Recorded(i) ==
  IF call[1].symbolic \/ (Len(call) > 1 /\ call[2].symbolic) THEN SkipsBody(i) ELSE PassesEnd(i)

\* intercept_range, then __iter__
Iter ==
  /\ loop = "new"
  /\ samePath' = {i \in RangeInput : Recorded(i) = Recorded(given)}
  /\ begin' = StartingValue
  /\ loopMarks' = IF ContinueLoop(begin', given) THEN {} ELSE {FALSE}
  /\ loop' = "iterating"
  /\ UNCHANGED <<call, given, yields>>

Advanced == [i \in RangeInput |-> begin[i] + Stride.value[i]]

\* Mutant: the value is taken after the step.
Late == Advanced

Current == begin

\* __next__
NextValue ==
  /\ loop = "iterating"
  /\ begin' = Advanced
  /\ IF ContinueLoop(Current, given) /\ Len(yields) <= MaxLoopIterations
     THEN /\ yields' = Append(yields, Current)
          /\ loopMarks' = loopMarks \cup {TRUE}
          /\ loop' = loop
     ELSE loop' = "ended" /\ UNCHANGED <<yields, loopMarks>>
  /\ UNCHANGED <<call, given, samePath>>

LoopNext == Iter \/ NextValue \/ (loop = "ended" /\ UNCHANGED loopVars)

LoopSpec == LoopInit /\ [][LoopNext]_loopVars

----------------------------------------------------------------------------------
(* Properties.  Python's range with a positive stride is start, start +    *)
(* stride and so on, below stop; the code does not look at the sign.       *)

\* The loop variable is the formula of Python's on every input, although no branch
\* is recorded from one iteration to the next; on the running input no value is
\* skipped, none is past the end, and the loop ends early only at the limit.  The one
\* branch that is recorded decides whether the body runs: no input on the path runs it
\* when this one does not, or the other way round.
YieldsAreTheRange ==
  /\ \A n \in DOMAIN yields : \A i \in RangeInput :
       yields[n][i] = PyStart.value[i] + (n - 1) * Stride.value[i]
  /\ \A n \in DOMAIN yields : yields[n][given] < EndValue.value[given]
  /\ loop = "ended" /\ Len(yields) <= MaxLoopIterations =>
       PyStart.value[given] + Len(yields) * Stride.value[given] >= EndValue.value[given]
  /\ loop # "new" => \A i \in samePath :
       ContinueLoop(PyStart.value, i) <=> ContinueLoop(PyStart.value, given)
==================================================================================
