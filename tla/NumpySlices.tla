------------------------------- MODULE NumpySlices -------------------------------
(***************************************************************************)
(* Slicing of one axis in the numpy model (libraries/impls/numpy/          *)
(* slicing.py).  The concrete half asks Python's slice.indices; the        *)
(* formula half, which the solver sees for the other inputs of the path,   *)
(* is an if-then-else translation of the same rules written by hand.       *)
(***************************************************************************)
EXTENDS Integers

CONSTANT None   \* Python's None, a slice part that is left out

ASSUME NoneAssumption == None \notin Int

Default(part, value) == IF part = None THEN value ELSE part
StepOf(step) == Default(step, 1)

----------------------------------------------------------------------------------
(* The formula half: _resolve_slice and _clamp_symbolic_slice_bound.       *)

Clamp(index, dim, negative) ==
  IF index < 0
  THEN IF index + dim < 0 THEN IF negative THEN -1 ELSE 0 ELSE index + dim
  ELSE IF index >= dim THEN IF negative THEN dim - 1 ELSE dim ELSE index

FormulaStart(dim, start, step) ==
  LET negative == StepOf(step) < 0
  IN  Clamp(Default(start, IF negative THEN dim - 1 ELSE 0), dim, negative)

\* Mutant: the default is clamped like an index, so that -1 counts from the end.
ClampedDefault(dim, stop, step) ==
  LET negative == StepOf(step) < 0
  IN  Clamp(Default(stop, IF negative THEN -1 ELSE dim), dim, negative)

\* The stop is clamped before the default replaces it: -1 is not the last index here.
FormulaStop(dim, stop, step) ==
  LET negative == StepOf(step) < 0
  IN  IF stop = None THEN IF negative THEN -1 ELSE dim ELSE Clamp(stop, dim, negative)

FormulaCount(start, stop, step) ==
  IF step < 0
  THEN IF stop >= start THEN 0 ELSE (start - stop - step - 1) \div (-step)
  ELSE IF stop <= start THEN 0 ELSE (stop - start + step - 1) \div step

----------------------------------------------------------------------------------
(* The concrete half: slice(start, stop, step).indices(dim), len(range()). *)

Between(index, dim, lower, upper) ==
  LET shifted == IF index < 0 THEN index + dim ELSE index
  IN  IF shifted < lower THEN lower ELSE IF shifted > upper THEN upper ELSE shifted

PyStart(dim, start, step) ==
  IF StepOf(step) < 0
  THEN IF start = None THEN dim - 1 ELSE Between(start, dim, -1, dim - 1)
  ELSE IF start = None THEN 0 ELSE Between(start, dim, 0, dim)

PyStop(dim, stop, step) ==
  IF StepOf(step) < 0
  THEN IF stop = None THEN -1 ELSE Between(stop, dim, -1, dim - 1)
  ELSE IF stop = None THEN dim ELSE Between(stop, dim, 0, dim)

PyCount(start, stop, step) ==
  IF step < 0
  THEN IF stop >= start THEN 0 ELSE 1 + (start - stop - 1) \div (-step)
  ELSE IF stop <= start THEN 0 ELSE 1 + (stop - start - 1) \div step

----------------------------------------------------------------------------------
(* What a slice contributes to a view: its extent, what it adds to the     *)
(* offset, and its stride.  An empty one adds nothing and keeps the stride. *)

Contribution(count, start, step, stride) ==
  IF count = 0
  THEN [dim |-> 0, delta |-> 0, stride |-> stride]
  ELSE [dim |-> count, delta |-> start * stride, stride |-> step * stride]

FormulaSlice(dim, stride, start, stop, step) ==
  LET first == FormulaStart(dim, start, step)
  IN  Contribution(FormulaCount(first, FormulaStop(dim, stop, step), StepOf(step)),
                   first, StepOf(step), stride)

ConcreteSlice(dim, stride, start, stop, step) ==
  LET first == PyStart(dim, start, step)
  IN  Contribution(PyCount(first, PyStop(dim, stop, step), StepOf(step)),
                   first, StepOf(step), stride)
==================================================================================
