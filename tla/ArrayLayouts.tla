------------------------------ MODULE ArrayLayouts ------------------------------
(***************************************************************************)
(* Is the layout of a numpy array safe for its storage?  Before an array   *)
(* is used, one condition on its shape, strides and offset is computed     *)
(* twice, for the input that runs and as a formula: no coordinate may lie  *)
(* outside the storage (libraries/impls/numpy: array.py, util.py).  The    *)
(* array is one the solver made up ("solver"), whose fields can be         *)
(* anything, or one the function makes, with strides and an offset of its  *)
(* own ("strided") or without ("default").                                 *)
(*                                                                         *)
(* A formula stands for the inputs that satisfy it.  No formula fixes the  *)
(* rank: at an input with fewer dimensions it reads past the end of a      *)
(* sequence, where the solver may choose any value; here that is Other.    *)
(***************************************************************************)
EXTENDS Integers, Sequences

CONSTANTS
  ArrayInput,  \* inputs: the fields of the array
  Other        \* a value of another type than a field should have

ShapeLike == Seq(Int \cup {Other}) \cup {Other}

ASSUME LayoutAssumption ==
  /\ Other \notin Int
  /\ ArrayInput \subseteq
       [storage : Nat \cup {Other}, shape : ShapeLike, strides : ShapeLike,
        offset : Int \cup {Other}, writeable : BOOLEAN \cup {Other}]

VARIABLES
  origin,   \* where the array comes from, fixed
  given,    \* the input of the run, fixed
  check,    \* what is looked at next
  axis,     \* the dimension the current loop is at
  total,    \* product of the dimensions multiplied so far, on every input
  products, \* the default strides, on every input
  extents,  \* least and greatest index and "is empty": the formulas
  bounds,   \* the same for the input that runs
  verdict,  \* the concrete half of the condition
  formula,  \* the other half: the inputs that satisfy it
  reach     \* history: the addresses of all coordinates of the axes so far

layoutVars ==
  <<origin, given, check, axis, total, products, extents, bounds, verdict, formula, reach>>

FromSolver == origin = "solver"
Dimensions == Len(given.shape)
ElementAt(s, a) == IF a \in DOMAIN s THEN s[a] ELSE Other

OffsetOf(i) == IF origin = "default" THEN 0 ELSE i.offset
StrideOf(i, a) == IF origin = "default" THEN products[i][a] ELSE i.strides[a]

\* Array.get_length
LengthOf(i) == IF FromSolver THEN i.storage ELSE total[i]

NoBounds == [least |-> 0, greatest |-> 0, empty |-> FALSE]

LayoutInit ==
  /\ origin \in {"solver", "strided", "default"}
  /\ given \in ArrayInput
  /\ check = "shape" /\ axis = 0
  /\ total = [i \in {} |-> 1] /\ products = [i \in {} |-> <<>>]
  /\ extents = [i \in {} |-> NoBounds] /\ bounds = NoBounds
  /\ verdict = TRUE /\ formula = ArrayInput
  /\ reach = [i \in {} |-> {}]

LayoutIdle ==
  /\ origin = "default" /\ given = CHOOSE i \in ArrayInput : TRUE
  /\ check = "idle" /\ axis = 0
  /\ total = <<>> /\ products = <<>> /\ extents = <<>> /\ bounds = NoBounds
  /\ verdict = TRUE /\ formula = {} /\ reach = <<>>

----------------------------------------------------------------------------------
(* Types.  The elements are looked at only if the value of the run is a    *)
(* sequence of the right length.                                           *)

\* _validate_shape_like(shape)
ShapeHolds(i, rank) ==
  /\ i.shape # Other
  /\ \A a \in 1 .. rank : ElementAt(i.shape, a) \in Nat

\* _validate_shape_like(strides, expected_rank, require_nonnegative=False)
StridesHold(i, rank) ==
  /\ i.strides # Other /\ Len(i.strides) = Len(i.shape)
  /\ \A a \in 1 .. rank : ElementAt(i.strides, a) \in Int

StorageHolds(i) == FromSolver => i.storage # Other
WriteableHolds(i) == FromSolver => i.writeable \in BOOLEAN

CheckShape ==
  /\ check = "shape"
  /\ LET rank == IF given.shape # Other THEN Dimensions ELSE 0
     IN  /\ verdict' = (StorageHolds(given) /\ ShapeHolds(given, rank))
         /\ formula' = {i \in formula : StorageHolds(i) /\ ShapeHolds(i, rank)}
         /\ axis' = rank
  /\ check' = CASE ~verdict' -> "judged"
                [] verdict' /\ FromSolver -> "strides"
                [] OTHER -> "size"
  /\ total' = [i \in formula' |-> 1] /\ products' = [i \in formula' |-> <<>>]
  /\ UNCHANGED <<origin, given, extents, bounds, reach>>

\* _get_flattened_size and _default_strides: both multiply the dimensions together.
MultiplyDimension ==
  /\ check = "size" /\ axis > 0
  /\ products' = [i \in formula |-> <<total[i]>> \o products[i]]
  /\ total' = [i \in formula |-> total[i] * i.shape[axis]]
  /\ axis' = axis - 1
  /\ UNCHANGED <<origin, given, check, extents, bounds, verdict, formula, reach>>

SizeKnown ==
  /\ check = "size" /\ axis = 0
  /\ check' = "strides"
  /\ UNCHANGED <<origin, given, axis, total, products, extents, bounds, verdict, formula, reach>>

CheckStrides ==
  /\ check = "strides"
  /\ IF origin = "default" THEN UNCHANGED <<verdict, formula>> ELSE
       LET fits == given.strides # Other /\ Len(given.strides) = Dimensions
           rank == IF fits THEN Dimensions ELSE 0
       IN  /\ verdict' = StridesHold(given, rank)
           /\ formula' = {i \in formula : StridesHold(i, rank)}
  /\ check' = IF FromSolver \/ verdict' THEN "offset" ELSE "judged"
  /\ UNCHANGED <<origin, given, axis, total, products, extents, bounds, reach>>

CheckOffset ==
  /\ check = "offset"
  /\ verdict' = (verdict /\ OffsetOf(given) \in Nat)
  /\ formula' = {i \in formula : OffsetOf(i) \in Nat}
  /\ LET measured == IF verdict' THEN formula' ELSE {}
         at(i) == [least |-> OffsetOf(i), greatest |-> OffsetOf(i), empty |-> FALSE]
     IN  /\ extents' = [i \in measured |-> at(i)]
         /\ bounds' = at(given)
         /\ reach' = [i \in measured |-> {OffsetOf(i)}]
  /\ check' = IF verdict' THEN "extents" ELSE "judged"
  /\ axis' = 1
  /\ UNCHANGED <<origin, given, total, products>>

----------------------------------------------------------------------------------
(* _get_stride_extents: one dimension after the other.                     *)

\* Mutant: the sign of the stride is not looked at.
OneSided(b, dim, stride) ==
  [least |-> b.least, empty |-> b.empty \/ dim = 0,
   greatest |-> b.greatest + IF dim = 0 THEN 0 ELSE (dim - 1) * stride]

FormulaExtents(b, dim, stride) ==
  LET delta == (dim - 1) * stride
  IN  [least |-> b.least + IF dim = 0 \/ stride >= 0 THEN 0 ELSE delta,
       greatest |-> b.greatest + IF dim = 0 \/ stride < 0 THEN 0 ELSE delta,
       empty |-> b.empty \/ dim = 0]

ConcreteExtents(b, dim, stride) ==
  LET delta == IF dim = 0 THEN 0 ELSE (dim - 1) * stride
  IN  [least |-> IF delta >= 0 THEN b.least ELSE b.least + delta,
       greatest |-> IF delta >= 0 THEN b.greatest + delta ELSE b.greatest,
       empty |-> b.empty \/ dim = 0]

AddAxis ==
  /\ check = "extents" /\ axis <= Dimensions
  /\ extents' = [i \in formula |-> FormulaExtents(extents[i], i.shape[axis], StrideOf(i, axis))]
  /\ bounds' = ConcreteExtents(bounds, given.shape[axis], StrideOf(given, axis))
  /\ reach' = [i \in formula |-> {r + c * StrideOf(i, axis) : r \in reach[i], c \in 0 .. i.shape[axis] - 1}]
  /\ axis' = axis + 1
  /\ UNCHANGED <<origin, given, check, total, products, verdict, formula>>

Within(b, length) == b.empty \/ (0 <= b.least /\ b.greatest < length)

\* The end of _validate_view_layout, and for an array of the solver of _get_validity
JudgeLayout ==
  /\ check = "extents" /\ axis > Dimensions
  /\ verdict' = (Within(bounds, LengthOf(given)) /\ WriteableHolds(given))
  /\ formula' = {i \in formula : Within(extents[i], LengthOf(i)) /\ WriteableHolds(i)}
  /\ check' = "judged"
  /\ UNCHANGED <<origin, given, axis, total, products, extents, bounds, reach>>

LayoutNext ==
  \/ CheckShape \/ MultiplyDimension \/ SizeKnown \/ CheckStrides \/ CheckOffset
  \/ AddAxis \/ JudgeLayout
  \/ (check = "judged" /\ UNCHANGED layoutVars)

LayoutSpec == LayoutInit /\ [][LayoutNext]_layoutVars

----------------------------------------------------------------------------------
(* Properties.                                                             *)

WellTyped(i) ==
  /\ StorageHolds(i) /\ WriteableHolds(i)
  /\ i.shape # Other /\ \A a \in DOMAIN i.shape : i.shape[a] \in Nat
  /\ origin # "default" =>
       /\ i.strides # Other /\ Len(i.strides) = Len(i.shape)
       /\ \A a \in DOMAIN i.strides : i.strides[a] \in Int
       /\ i.offset \in Nat

SameRank(i) == i.shape # Other => Len(i.shape) = Dimensions
InStorage(i) == reach[i] \subseteq 0 .. LengthOf(i) - 1

\* The condition is exact although it looks only at the two extreme addresses: a valid
\* array has every coordinate in its storage, on every input of the path that has the
\* rank of this one; and however early an invalid array is given up, the negated
\* condition still admits every array of that rank that is safe, so that the engine can
\* revisit with one.  Both halves agree on the input that runs, and an array made with
\* default strides never fails.
LayoutsAreExact ==
  check = "judged" =>
    /\ verdict <=> given \in formula
    /\ verdict => \A i \in formula : SameRank(i) => WellTyped(i) /\ InStorage(i)
    /\ \A i \in ArrayInput :
         /\ given.shape # Other => SameRank(i)
         /\ WellTyped(i) /\ (i \in DOMAIN reach => InStorage(i))
         => i \in formula
    /\ origin = "default" /\ WellTyped(given) => verdict
==================================================================================
