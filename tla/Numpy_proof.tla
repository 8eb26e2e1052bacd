------------------------------ MODULE Numpy_proof ------------------------------
(***************************************************************************)
(* Slice resolution: the two halves compute the same dimension, offset and *)
(* stride, for every dimension and every slice, and every position a slice *)
(* selects lies on its axis.  Layouts: the condition on a layout is exact, *)
(* for arrays of any rank, shape, strides and offset.  Views: both halves  *)
(* of every view of a view are the same layout, and each of its            *)
(* coordinates addresses the cell that numpy shows there.  Assignments:    *)
(* after any of them the storage is numpy's array.                         *)
(***************************************************************************)
EXTENDS NumpyArrays, ArrayLayouts, SequenceTheorems, FiniteSetTheorems, WellFoundedInduction, TLAPS

----------------------------------------------------------------------------
(* Slices. *)

Part == Int \cup {None}
Step == (Int \ {0}) \cup {None}

\* A step left out is 1: the step that counts is a nonzero integer.
LEMMA StepIsNonzero ==
  ASSUME NEW step \in Step
  PROVE  StepOf(step) \in Int \ {0}
BY NoneAssumption DEF Step, StepOf, Default

\* One more divisor is one more in the quotient.
LEMMA OneMore ==
  ASSUME NEW a \in Nat, NEW d \in Nat \ {0}
  PROVE  (a + d) \div d = 1 + a \div d
OBVIOUS

\* _clamp_symbolic_slice_bound is the clamping of slice.indices.
LEMMA ClampIsBetween ==
  ASSUME NEW index \in Int, NEW dim \in Nat, NEW negative \in BOOLEAN
  PROVE  Clamp(index, dim, negative)
           = IF negative THEN Between(index, dim, -1, dim - 1) ELSE Between(index, dim, 0, dim)
BY DEF Clamp, Between

\* The clamped start is the start of slice.indices.
LEMMA StartsAgree ==
  ASSUME NEW dim \in Nat, NEW start \in Part, NEW step \in Step
  PROVE  FormulaStart(dim, start, step) = PyStart(dim, start, step)
<1> DEFINE negative == StepOf(step) < 0
<1>1. StepOf(step) \in Int \ {0} BY StepIsNonzero
<1>2. negative \in BOOLEAN OBVIOUS
<1>3. CASE start = None
  <2>1. FormulaStart(dim, start, step) = Clamp(IF negative THEN dim - 1 ELSE 0, dim, negative)
    BY <1>3 DEF FormulaStart, Default
  <2>2. CASE negative
    BY <1>1, <1>3, <2>1, <2>2 DEF Clamp, PyStart
  <2>3. CASE ~negative
    BY <1>1, <1>3, <2>1, <2>3 DEF Clamp, PyStart
  <2> QED BY <2>2, <2>3
<1>4. CASE start # None
  <2>1. start \in Int BY <1>4 DEF Part
  <2>2. FormulaStart(dim, start, step) = Clamp(start, dim, negative)
    BY <1>4 DEF FormulaStart, Default
  <2>3. PyStart(dim, start, step)
          = IF negative THEN Between(start, dim, -1, dim - 1) ELSE Between(start, dim, 0, dim)
    BY <1>4 DEF PyStart
  <2> QED BY <1>2, <2>1, <2>2, <2>3, ClampIsBetween
<1> QED BY <1>3, <1>4

\* The clamped stop is the stop of slice.indices.
LEMMA StopsAgree ==
  ASSUME NEW dim \in Nat, NEW stop \in Part, NEW step \in Step
  PROVE  FormulaStop(dim, stop, step) = PyStop(dim, stop, step)
<1> DEFINE negative == StepOf(step) < 0
<1>1. negative \in BOOLEAN OBVIOUS
<1>2. CASE stop = None
  BY <1>2 DEF FormulaStop, PyStop
<1>3. CASE stop # None
  <2>1. stop \in Int BY <1>3 DEF Part
  <2>2. FormulaStop(dim, stop, step) = Clamp(stop, dim, negative)
    BY <1>3 DEF FormulaStop
  <2>3. PyStop(dim, stop, step)
          = IF negative THEN Between(stop, dim, -1, dim - 1) ELSE Between(stop, dim, 0, dim)
    BY <1>3 DEF PyStop
  <2> QED BY <1>1, <2>1, <2>2, <2>3, ClampIsBetween
<1> QED BY <1>2, <1>3

\* The two formulas for the length of a range.
LEMMA CountsAgree ==
  ASSUME NEW start \in Int, NEW stop \in Int, NEW step \in Int \ {0}
  PROVE  FormulaCount(start, stop, step) = PyCount(start, stop, step)
<1>1. CASE step < 0 /\ stop < start
  <2>1. start - stop - 1 \in Nat /\ -step \in Nat \ {0} BY <1>1
  <2>2. start - stop - step - 1 = (start - stop - 1) + (-step) OBVIOUS
  <2>3. ((start - stop - 1) + (-step)) \div (-step) = 1 + (start - stop - 1) \div (-step)
    BY <2>1, OneMore
  <2> QED BY <1>1, <2>2, <2>3 DEF FormulaCount, PyCount
<1>2. CASE step > 0 /\ start < stop
  <2>1. stop - start - 1 \in Nat /\ step \in Nat \ {0} BY <1>2
  <2>2. stop - start + step - 1 = (stop - start - 1) + step OBVIOUS
  <2>3. ((stop - start - 1) + step) \div step = 1 + (stop - start - 1) \div step
    BY <2>1, OneMore
  <2> QED BY <1>2, <2>2, <2>3 DEF FormulaCount, PyCount
<1>3. CASE (step < 0 /\ stop >= start) \/ (step > 0 /\ stop <= start)
  BY <1>3 DEF FormulaCount, PyCount
<1> QED BY <1>1, <1>2, <1>3

\* Where the formula half starts and stops is an integer on the axis or next to it.
LEMMA StartIsOnAxis ==
  ASSUME NEW dim \in Nat, NEW start \in Part, NEW step \in Step
  PROVE  /\ PyStart(dim, start, step) \in Int
         /\ StepOf(step) < 0 => -1 <= PyStart(dim, start, step) /\ PyStart(dim, start, step) < dim
         /\ StepOf(step) > 0 => 0 <= PyStart(dim, start, step) /\ PyStart(dim, start, step) <= dim
<1>1. StepOf(step) \in Int \ {0} BY StepIsNonzero
<1>2. start # None => start \in Int BY DEF Part
<1> QED BY <1>1, <1>2 DEF PyStart, Between

\* A stop lies on its axis or one past an end of it.
LEMMA StopIsOnAxis ==
  ASSUME NEW dim \in Nat, NEW stop \in Part, NEW step \in Step
  PROVE  /\ PyStop(dim, stop, step) \in Int
         /\ StepOf(step) < 0 => -1 <= PyStop(dim, stop, step) /\ PyStop(dim, stop, step) < dim
         /\ StepOf(step) > 0 => 0 <= PyStop(dim, stop, step) /\ PyStop(dim, stop, step) <= dim
<1>1. StepOf(step) \in Int \ {0} BY StepIsNonzero
<1>2. stop # None => stop \in Int BY DEF Part
<1> QED BY <1>1, <1>2 DEF PyStop, Between

\* The formula that the solver reasons with (_resolve_slice) resolves every slice of
\* every dimension and stride as Python does, whatever is left out, negative or
\* beyond the ends.
THEOREM SlicesAgree ==
  ASSUME NEW dim \in Nat, NEW stride \in Int,
         NEW start \in Part, NEW stop \in Part, NEW step \in Step
  PROVE  FormulaSlice(dim, stride, start, stop, step) = ConcreteSlice(dim, stride, start, stop, step)
<1>1. FormulaStart(dim, start, step) = PyStart(dim, start, step) BY StartsAgree
<1>2. FormulaStop(dim, stop, step) = PyStop(dim, stop, step) BY StopsAgree
<1>3. FormulaCount(PyStart(dim, start, step), PyStop(dim, stop, step), StepOf(step))
        = PyCount(PyStart(dim, start, step), PyStop(dim, stop, step), StepOf(step))
  BY CountsAgree, StepIsNonzero, StartIsOnAxis, StopIsOnAxis
<1> QED BY <1>1, <1>2, <1>3 DEF FormulaSlice, ConcreteSlice

\* No position before the last step is beyond the stop.
LEMMA LastStep ==
  ASSUME NEW n \in Nat, NEW d \in Nat \ {0}, NEW k \in Nat, k < 1 + n \div d
  PROVE  k * d <= n
<1>1. n \div d \in Nat /\ d * (n \div d) <= n OBVIOUS
<1>2. k <= n \div d BY <1>1
<1>3. k * d <= (n \div d) * d BY <1>1, <1>2
<1> QED BY <1>1, <1>3

\* Every position that a slice selects is an index of its axis, so a view that is
\* made without validation (skip_validation in __getitem__) stays inside the array
\* along each axis.
THEOREM SlicesStayOnTheirAxis ==
  ASSUME NEW dim \in Nat, NEW stride \in Int,
         NEW start \in Part, NEW stop \in Part, NEW step \in Step,
         NEW k \in Nat, k < FormulaSlice(dim, stride, start, stop, step).dim
  PROVE  PyStart(dim, start, step) + k * StepOf(step) \in 0 .. dim - 1
<1> DEFINE first == PyStart(dim, start, step)
           last == PyStop(dim, stop, step)
           by == StepOf(step)
<1>1. PICK f \in Int : f = first BY StartIsOnAxis
<1>2. PICK l \in Int : l = last BY StopIsOnAxis
<1>3. PICK s \in Int \ {0} : s = by BY StepIsNonzero
<1>4. k < PyCount(f, l, s)
  BY SlicesAgree, <1>1, <1>2, <1>3 DEF ConcreteSlice, Contribution
<1>5. /\ s < 0 => -1 <= f /\ f < dim /\ -1 <= l /\ l < dim
      /\ s > 0 => 0 <= f /\ f <= dim /\ 0 <= l /\ l <= dim
  BY <1>1, <1>2, <1>3, StartIsOnAxis, StopIsOnAxis
<1>6. f + k * s \in 0 .. dim - 1
  <2>1. CASE s < 0
    <3>1. l < f /\ k < 1 + (f - l - 1) \div (-s) BY <1>4, <2>1 DEF PyCount
    <3>2. k * (-s) <= f - l - 1 BY <2>1, <3>1, LastStep
    <3> QED BY <1>5, <2>1, <3>1, <3>2
  <2>2. CASE s > 0
    <3>1. f < l /\ k < 1 + (l - f - 1) \div s BY <1>4, <2>2 DEF PyCount
    <3>2. k * s <= l - f - 1 BY <2>2, <3>1, LastStep
    <3> QED BY <1>5, <2>2, <3>1, <3>2
  <2> QED BY <2>1, <2>2
<1> QED BY <1>1, <1>3, <1>6

----------------------------------------------------------------------------
(* The two extreme addresses speak for all of them. *)

\* What the loop over the dimensions keeps of a set of addresses: its ends.
Covers(b, R) ==
  /\ b.least \in Int /\ b.greatest \in Int /\ b.empty \in BOOLEAN
  /\ R \subseteq Int
  /\ b.empty <=> R = {}
  /\ ~b.empty =>
       /\ b.least \in R /\ b.greatest \in R
       /\ \A r \in R : b.least <= r /\ r <= b.greatest

Spread(R, dim, stride) == {r + c * stride : r \in R, c \in 0 .. dim - 1}

LEMMA StepsAreMonotone ==
  ASSUME NEW m \in Nat, NEW c \in 0 .. m, NEW s \in Int
  PROVE  /\ s >= 0 => 0 <= c * s /\ c * s <= m * s
         /\ s <= 0 => m * s <= c * s /\ c * s <= 0
         /\ c * s \in Int /\ m * s \in Int
  <1>1. c \in Nat /\ m - c \in Nat /\ c * s \in Int /\ m * s \in Int
    OBVIOUS
  <1>2. m * s - c * s = (m - c) * s
    OBVIOUS
  <1>3. \A k \in Nat : (s >= 0 => k * s >= 0) /\ (s <= 0 => k * s <= 0)
    OBVIOUS
  <1>4. (s >= 0 => c * s >= 0 /\ (m - c) * s >= 0) /\ (s <= 0 => c * s <= 0 /\ (m - c) * s <= 0)
    BY <1>1, <1>3
  <1>5. (m - c) * s \in Int
    BY <1>1
  <1> QED
    BY <1>1, <1>2, <1>4, <1>5

\* One more dimension moves one end by the last step along it, and the other not at all.
LEMMA SpreadCovered ==
  ASSUME NEW b, NEW R, NEW dim \in Nat, NEW stride \in Int, Covers(b, R)
  PROVE  /\ Covers(FormulaExtents(b, dim, stride), Spread(R, dim, stride))
         /\ Covers(ConcreteExtents(b, dim, stride), Spread(R, dim, stride))
  <1> DEFINE S == Spread(R, dim, stride)
             delta == (dim - 1) * stride
             f == FormulaExtents(b, dim, stride)
             g == ConcreteExtents(b, dim, stride)
  <1>1. /\ b.least \in Int /\ b.greatest \in Int /\ b.empty \in BOOLEAN /\ R \subseteq Int
        /\ b.empty <=> R = {}
    BY DEF Covers
  <1>2. delta \in Int
    OBVIOUS
  <1>3. f.empty = (b.empty \/ dim = 0) /\ g.empty = (b.empty \/ dim = 0)
    BY DEF FormulaExtents, ConcreteExtents
  <1>4. S \subseteq Int
    BY <1>1 DEF Spread
  <1>5. S = {} <=> (R = {} \/ dim = 0)
    <2>1. R = {} \/ dim = 0 => S = {}
      BY DEF Spread
    <2>2. ASSUME R # {}, dim # 0  PROVE  S # {}
      <3>1. PICK r \in R : TRUE
        BY <2>2
      <3>2. 0 \in 0 .. dim - 1
        BY <2>2
      <3>3. r + 0 * stride \in S
        BY <3>1, <3>2 DEF Spread
      <3> QED
        BY <3>3
    <2> QED
      BY <2>1, <2>2
  <1>6. /\ f.least \in Int /\ f.greatest \in Int /\ f.empty \in BOOLEAN
        /\ g.least \in Int /\ g.greatest \in Int /\ g.empty \in BOOLEAN
    <2> HIDE DEF delta
    <2>1. /\ f.least = b.least + IF dim = 0 \/ stride >= 0 THEN 0 ELSE delta
          /\ f.greatest = b.greatest + IF dim = 0 \/ stride < 0 THEN 0 ELSE delta
      BY DEF FormulaExtents, delta
    <2>2. PICK d \in Int : /\ d = IF dim = 0 THEN 0 ELSE delta
                           /\ g.least = IF d >= 0 THEN b.least ELSE b.least + d
                           /\ g.greatest = IF d >= 0 THEN b.greatest + d ELSE b.greatest
      BY <1>2 DEF ConcreteExtents, delta
    <2> QED
      BY <1>1, <1>2, <1>3, <2>1, <2>2
  <1>7. ASSUME ~b.empty, dim # 0
        PROVE  /\ f.least \in S /\ f.greatest \in S /\ \A s \in S : f.least <= s /\ s <= f.greatest
               /\ f.least = g.least /\ f.greatest = g.greatest
    <2>1. b.least \in R /\ b.greatest \in R /\ \A r \in R : b.least <= r /\ r <= b.greatest
      BY <1>7 DEF Covers
    <2>2. dim - 1 \in Nat /\ dim - 1 \in 0 .. dim - 1 /\ 0 \in 0 .. dim - 1
      BY <1>7
    <2>3. \A c \in 0 .. dim - 1 :
            /\ stride >= 0 => 0 <= c * stride /\ c * stride <= delta
            /\ stride <= 0 => delta <= c * stride /\ c * stride <= 0
            /\ c * stride \in Int
      BY <2>2, StepsAreMonotone
    <2>4. \A r \in R : r + 0 * stride \in S /\ r + delta \in S
      BY <2>2 DEF Spread
    <2>5. \A r \in R : r \in S
      BY <2>4, <1>1
    <2>6. \A s \in S : \E r \in R, c \in 0 .. dim - 1 : s = r + c * stride
      BY DEF Spread
    <2>7. (stride >= 0 => delta >= 0) /\ (stride <= 0 => delta <= 0)
      BY <2>2, <2>3
    <2>8. CASE stride >= 0
      <3>1. f.least = b.least /\ f.greatest = b.greatest + delta
        BY <2>8, <1>7, <1>1, <1>2 DEF FormulaExtents
      <3>2. g.least = b.least /\ g.greatest = b.greatest + delta
        BY <2>7, <2>8, <1>7 DEF ConcreteExtents
      <3>3. \A s \in S : b.least <= s /\ s <= b.greatest + delta
        <4>1. TAKE s \in S
        <4>2. PICK r \in R, c \in 0 .. dim - 1 : s = r + c * stride
          BY <2>6
        <4>3. b.least <= r /\ r <= b.greatest /\ r \in Int
          BY <2>1, <1>1
        <4>4. PICK x \in Int : x = c * stride /\ 0 <= x /\ x <= delta
          BY <2>3, <2>8
        <4> HIDE DEF delta
        <4> QED
          BY <4>2, <4>3, <4>4, <1>1, <1>2
      <3> QED
        BY <3>1, <3>2, <3>3, <2>1, <2>4, <2>5
    <2>9. CASE stride < 0
      <3>1. f.least = b.least + delta /\ f.greatest = b.greatest
        BY <2>9, <1>7, <1>1, <1>2 DEF FormulaExtents
      <3>2. g.least = b.least + delta /\ g.greatest = b.greatest
        <4>1. delta <= 0
          BY <2>7, <2>9
        <4>2. CASE delta = 0
          BY <4>2, <1>7, <1>1 DEF ConcreteExtents
        <4>3. CASE delta < 0
          <5>1. ~(delta >= 0)
            BY <4>3, <1>2
          <5> QED
            BY <5>1, <1>7 DEF ConcreteExtents
        <4> QED
          BY <4>1, <4>2, <4>3, <1>2
      <3>3. \A s \in S : b.least + delta <= s /\ s <= b.greatest
        <4>1. TAKE s \in S
        <4>2. PICK r \in R, c \in 0 .. dim - 1 : s = r + c * stride
          BY <2>6
        <4>3. b.least <= r /\ r <= b.greatest /\ r \in Int
          BY <2>1, <1>1
        <4>4. PICK x \in Int : x = c * stride /\ delta <= x /\ x <= 0
          BY <2>3, <2>9
        <4> HIDE DEF delta
        <4> QED
          BY <4>2, <4>3, <4>4, <1>1, <1>2
      <3> QED
        BY <3>1, <3>2, <3>3, <2>1, <2>4, <2>5
    <2> QED
      BY <2>8, <2>9
  <1>8. f.empty <=> S = {}
    BY <1>1, <1>3, <1>5
  <1>9. g.empty <=> S = {}
    BY <1>1, <1>3, <1>5
  <1>10. ~f.empty => f.least \in S /\ f.greatest \in S /\ \A s \in S : f.least <= s /\ s <= f.greatest
    BY <1>3, <1>7
  <1>11. ~g.empty => g.least \in S /\ g.greatest \in S /\ \A s \in S : g.least <= s /\ s <= g.greatest
    BY <1>3, <1>7
  <1> HIDE DEF f, g, S
  <1>12. Covers(f, S) /\ Covers(g, S)
    BY <1>4, <1>6, <1>8, <1>9, <1>10, <1>11 DEF Covers
  <1> QED
    BY <1>12 DEF f, g, S

\* So the comparison of the ends with the storage is a comparison of all addresses.
LEMMA EndsDecide ==
  ASSUME NEW b, NEW R, Covers(b, R), NEW length \in Int
  PROVE  Within(b, length) <=> R \subseteq 0 .. length - 1
  <1>1. CASE b.empty
    BY <1>1 DEF Covers, Within
  <1>2. CASE ~b.empty
    <2>1. /\ b.least \in R /\ b.greatest \in R /\ R \subseteq Int
          /\ \A r \in R : b.least <= r /\ r <= b.greatest
      BY <1>2 DEF Covers
    <2>2. PICK x \in Int, y \in Int : x = b.least /\ y = b.greatest
      BY <2>1
    <2>3. x \in R /\ y \in R /\ \A r \in R : r \in Int /\ x <= r /\ r <= y
      BY <2>1, <2>2
    <2>4. ASSUME 0 <= x, y < length  PROVE  R \subseteq 0 .. length - 1
      <3> SUFFICES ASSUME NEW r \in R  PROVE r \in 0 .. length - 1
        OBVIOUS
      <3> QED
        BY <2>3, <2>4
    <2>5. ASSUME R \subseteq 0 .. length - 1  PROVE  0 <= x /\ y < length
      <3>1. x \in 0 .. length - 1 /\ y \in 0 .. length - 1
        BY <2>3, <2>5
      <3> QED
        BY <3>1
    <2>6. Within(b, length) <=> 0 <= x /\ y < length
      BY <1>2, <2>2 DEF Within
    <2> QED
      BY <2>4, <2>5, <2>6
  <1> QED
    BY <1>1, <1>2 DEF Covers

----------------------------------------------------------------------------
(* The invariant: what is known of the formula after each check. *)

Running == {"shape", "size", "strides", "offset", "extents"}

Fixed ==
  /\ given \in ArrayInput /\ origin \in {"solver", "strided", "default"}
  /\ formula \subseteq ArrayInput /\ verdict \in BOOLEAN
  /\ check \in Running \cup {"judged"}
  /\ check \in {"shape", "size", "strides", "extents"} => verdict
  /\ check = "shape" => formula = ArrayInput
  /\ check = "size" => ~FromSolver

\* Until the end the formula holds only what every well-typed array has.
Complete ==
  \A i \in ArrayInput : (given.shape # Other => SameRank(i)) /\ WellTyped(i) => i \in formula

Shaped(i) ==
  /\ StorageHolds(i) /\ i.shape # Other
  /\ \A a \in 1 .. Dimensions : a \in DOMAIN i.shape /\ i.shape[a] \in Nat

\* products and total when the axes above "done" are multiplied
ProductsOf(i, done) ==
  /\ total[i] \in Nat /\ products[i] \in Seq(Nat) /\ Len(products[i]) = Dimensions - done
  /\ done = Dimensions => total[i] = 1
  /\ done < Dimensions =>
       products[i][Dimensions - done] = 1 /\ total[i] = i.shape[done + 1] * products[i][1]
  /\ \A k \in 1 .. Dimensions - done - 1 :
       products[i][k] = i.shape[done + k + 1] * products[i][k + 1]

ShapeInv ==
  check \in Running \ {"shape"} =>
    /\ given.shape # Other /\ Dimensions \in Nat
    /\ \A i \in formula : Shaped(i)
    /\ Shaped(given)

SizeInv ==
  /\ check = "size" => axis \in 0 .. Dimensions /\ \A i \in formula : ProductsOf(i, axis)
  /\ check \in {"strides", "offset", "extents"} /\ ~FromSolver =>
       verdict /\ \A i \in formula : ProductsOf(i, 0)

StridesKnown(i) ==
  origin # "default" =>
    /\ i.strides # Other /\ Len(i.strides) = Len(i.shape)
    /\ \A a \in 1 .. Dimensions : i.strides[a] \in Int

StridesInv == check \in {"offset", "extents"} /\ verdict => \A i \in formula : StridesKnown(i)

MeasureInv ==
  /\ check \in Running \ {"extents"} => DOMAIN reach = {}
  /\ check = "extents" =>
       /\ axis \in 1 .. Dimensions + 1 /\ DOMAIN reach = formula
       /\ \A i \in formula : OffsetOf(i) \in Nat /\ Covers(extents[i], reach[i])
       /\ Covers(bounds, reach[given])
       /\ origin = "default" /\ ~bounds.empty =>
            /\ bounds.least = 0
            /\ bounds.greatest = IF axis = 1 THEN 0 ELSE total[given] - products[given][axis - 1]

Agrees == verdict <=> given \in formula

LayoutInv ==
  /\ Fixed /\ Agrees
  /\ check \in Running => Complete
  /\ ShapeInv /\ SizeInv /\ StridesInv /\ MeasureInv
  /\ LayoutsAreExact

\* The fields of an input.
LEMMA FieldTypes ==
  ASSUME NEW i \in ArrayInput
  PROVE  /\ i.storage \in Nat \cup {Other} /\ i.offset \in Int \cup {Other}
         /\ i.shape = Other \/ (i.shape \in Seq(Int \cup {Other}) /\ Len(i.shape) \in Nat /\ DOMAIN i.shape = 1 .. Len(i.shape))
         /\ i.strides = Other \/ (i.strides \in Seq(Int \cup {Other}) /\ Len(i.strides) \in Nat /\ DOMAIN i.strides = 1 .. Len(i.strides))
  <1>1. i \in [storage : Nat \cup {Other}, shape : ShapeLike, strides : ShapeLike,
               offset : Int \cup {Other}, writeable : BOOLEAN \cup {Other}]
    BY LayoutAssumption
  <1>2. \A s \in Seq(Int \cup {Other}) : Len(s) \in Nat /\ DOMAIN s = 1 .. Len(s)
    OBVIOUS
  <1> QED
    BY <1>1, <1>2 DEF ShapeLike

\* An element that is a number is one of the sequence.
LEMMA ElementsInside ==
  ASSUME NEW s, NEW a
  PROVE  /\ ElementAt(s, a) \in Nat => a \in DOMAIN s /\ s[a] \in Nat
         /\ ElementAt(s, a) \in Int => a \in DOMAIN s /\ s[a] \in Int
         /\ a \in DOMAIN s => ElementAt(s, a) = s[a]
  BY LayoutAssumption DEF ElementAt

LEMMA InitSound == LayoutInit => LayoutInv
  <1> SUFFICES ASSUME LayoutInit PROVE LayoutInv
    OBVIOUS
  <1> USE DEF LayoutInit, Running
  <1>1. Fixed /\ Agrees
    BY DEF Fixed, Agrees, FromSolver
  <1>2. Complete
    BY DEF Complete
  <1>3. ShapeInv /\ SizeInv /\ StridesInv
    BY DEF ShapeInv, SizeInv, StridesInv
  <1>4. MeasureInv /\ LayoutsAreExact
    BY DEF MeasureInv, LayoutsAreExact
  <1> QED
    BY <1>1, <1>2, <1>3, <1>4 DEF LayoutInv

\* What a well-typed array has is what the checks look for.
LEMMA WellTypedPasses ==
  ASSUME NEW i \in ArrayInput, WellTyped(i), NEW rank \in {0, Len(i.shape)}
  PROVE  /\ StorageHolds(i) /\ WriteableHolds(i) /\ ShapeHolds(i, rank) /\ OffsetOf(i) \in Nat
         /\ origin # "default" => StridesHold(i, rank)
  <1>1. i.shape # Other /\ \A a \in DOMAIN i.shape : i.shape[a] \in Nat
    BY DEF WellTyped
  <1>2. Len(i.shape) \in Nat /\ DOMAIN i.shape = 1 .. Len(i.shape)
    BY <1>1, FieldTypes
  <1>3. \A a \in 1 .. rank : a \in DOMAIN i.shape
    BY <1>2
  <1>4. ShapeHolds(i, rank)
    BY <1>1, <1>3, ElementsInside DEF ShapeHolds
  <1>5. ASSUME origin # "default"  PROVE StridesHold(i, rank)
    <2>1. /\ i.strides # Other /\ Len(i.strides) = Len(i.shape)
          /\ \A a \in DOMAIN i.strides : i.strides[a] \in Int
      BY <1>5 DEF WellTyped
    <2>2. DOMAIN i.strides = 1 .. Len(i.shape)
      BY <2>1, FieldTypes
    <2>3. \A a \in 1 .. rank : a \in DOMAIN i.strides
      BY <1>2, <2>2
    <2> QED
      BY <2>1, <2>3, ElementsInside DEF StridesHold
  <1>6. OffsetOf(i) \in Nat
    BY DEF WellTyped, OffsetOf
  <1> QED
    BY <1>4, <1>5, <1>6 DEF WellTyped

\* What a formula of the checks says of one input does not change while the run and the
\* origin of the array are the same.
LEMMA SameRun ==
  ASSUME given' = given, origin' = origin
  PROVE  /\ Dimensions' = Dimensions /\ FromSolver' = FromSolver
         /\ \A i : /\ WellTyped(i)' <=> WellTyped(i)
                   /\ SameRank(i)' <=> SameRank(i)
                   /\ Shaped(i)' <=> Shaped(i)
                   /\ StridesKnown(i)' <=> StridesKnown(i)
                   /\ OffsetOf(i)' = OffsetOf(i)
                   /\ StorageHolds(i)' <=> StorageHolds(i)
                   /\ WriteableHolds(i)' <=> WriteableHolds(i)
  BY DEF Dimensions, FromSolver, WellTyped, SameRank, Shaped, StridesKnown, OffsetOf,
         StorageHolds, WriteableHolds

\* _validate_shape_like keeps every well-typed array of the rank.
LEMMA CheckShapeSound == LayoutInv /\ CheckShape => LayoutInv'
  <1> SUFFICES ASSUME LayoutInv, CheckShape PROVE LayoutInv'
    OBVIOUS
  <1> USE DEF Running
  <1>1. check = "shape" /\ given \in ArrayInput /\ given' = given /\ origin' = origin /\ reach' = reach
    BY DEF CheckShape, LayoutInv, Fixed
  <1>2. PICK rank : /\ rank = IF given.shape # Other THEN Dimensions ELSE 0
                    /\ verdict' = (StorageHolds(given) /\ ShapeHolds(given, rank))
                    /\ formula' = {i \in formula : StorageHolds(i) /\ ShapeHolds(i, rank)}
                    /\ axis' = rank
    BY DEF CheckShape
  <1>3. origin \in {"solver", "strided", "default"} /\ formula = ArrayInput /\ DOMAIN reach = {}
    BY <1>1 DEF LayoutInv, Fixed, MeasureInv
  <1>4. check' = IF ~verdict' THEN "judged" ELSE IF FromSolver THEN "strides" ELSE "size"
    BY DEF CheckShape
  <1>5. verdict' \in BOOLEAN
    BY <1>2 DEF StorageHolds, ShapeHolds
  <1>6. Agrees'
    BY <1>1, <1>2, <1>3 DEF Agrees
  <1>7. Fixed'
    BY <1>1, <1>2, <1>3, <1>4, <1>5, SameRun DEF Fixed
  <1>8. Complete'
    <2> SUFFICES ASSUME NEW i \in ArrayInput, given.shape # Other => SameRank(i), WellTyped(i)
                 PROVE  i \in formula'
      BY <1>1, SameRun DEF Complete
    <2>1. rank \in {0, Len(i.shape)}
      BY <1>2 DEF SameRank, Dimensions, WellTyped
    <2> QED
      BY <1>2, <1>3, <2>1, WellTypedPasses
  <1>9. \A i \in ArrayInput : verdict' /\ ShapeHolds(i, rank) /\ StorageHolds(i) => Shaped(i) /\ rank = Dimensions
    <2> SUFFICES ASSUME NEW i \in ArrayInput, verdict', ShapeHolds(i, rank), StorageHolds(i)
                 PROVE  Shaped(i) /\ rank = Dimensions
      OBVIOUS
    <2>1. rank = Dimensions
      BY <1>2 DEF ShapeHolds
    <2> QED
      BY <2>1, ElementsInside DEF Shaped, ShapeHolds
  <1>10. ShapeInv'
    <2> SUFFICES ASSUME verdict'
                 PROVE  /\ given.shape # Other /\ Dimensions \in Nat
                        /\ \A i \in formula' : Shaped(i)
                        /\ Shaped(given)
      BY <1>1, <1>4, SameRun DEF ShapeInv
    <2>1. ShapeHolds(given, rank) /\ StorageHolds(given)
      BY <1>2
    <2> QED
      BY <2>1, <1>1, <1>2, <1>3, <1>9, FieldTypes DEF ShapeHolds, Dimensions
  <1>11. SizeInv'
    <2> SUFFICES ASSUME verdict', ~FromSolver
                 PROVE  axis' \in 0 .. Dimensions /\ \A i \in formula' : ProductsOf(i, axis)'
      BY <1>1, <1>4, SameRun DEF SizeInv
    <2>1. axis' = Dimensions /\ Dimensions \in Nat
      <3>1. given.shape # Other /\ rank = Dimensions
        BY <1>1, <1>2, <1>9 DEF ShapeHolds
      <3> QED
        BY <3>1, <1>1, <1>2, FieldTypes DEF Dimensions
    <2>2. \A i \in formula' : total'[i] = 1 /\ products'[i] = <<>>
      BY DEF CheckShape
    <2>3. <<>> \in Seq(Nat) /\ Len(<<>>) = 0
      OBVIOUS
    <2>4. PICK n \in Nat : n = Dimensions /\ Dimensions' = n /\ axis' = n
      BY <1>1, <2>1, SameRun
    <2>5. n \in 0 .. n /\ n - n = 0 /\ ~(n < n) /\ 1 .. (n - n) - 1 = {}
      OBVIOUS
    <2>6. ASSUME NEW i \in formula'  PROVE ProductsOf(i, axis)'
      <3>1. total'[i] = 1 /\ products'[i] = <<>>
        BY <2>2
      <3>2. 1 .. n - n - 1 = {}
        OBVIOUS
      <3> QED
        BY <3>1, <3>2, <2>3, <2>4, <2>5 DEF ProductsOf
    <2> QED
      BY <2>4, <2>5, <2>6
  <1>12. StridesInv' /\ MeasureInv'
    BY <1>1, <1>3, <1>4 DEF StridesInv, MeasureInv
  <1>13. LayoutsAreExact'
    <2> SUFFICES ASSUME ~verdict'
                 PROVE  /\ verdict' <=> given \in formula'
                        /\ \A i \in ArrayInput : (given.shape # Other => SameRank(i)) /\ WellTyped(i) => i \in formula'
                        /\ ~WellTyped(given)
      BY <1>1, <1>4, SameRun DEF LayoutsAreExact
    <2>1. WellTyped(given) => given \in formula'
      BY <1>1, <1>8, SameRun DEF Complete, SameRank, Dimensions
    <2> QED
      BY <1>1, <1>6, <1>8, <2>1, SameRun DEF Agrees, Complete
  <1> QED
    BY <1>6, <1>7, <1>8, <1>10, <1>11, <1>12, <1>13 DEF LayoutInv

\* One dimension is multiplied into the size, and its stride is the size below it.
LEMMA MultiplySound == LayoutInv /\ MultiplyDimension => LayoutInv'
  <1> SUFFICES ASSUME LayoutInv, MultiplyDimension PROVE LayoutInv'
    OBVIOUS
  <1> USE DEF Running
  <1>1. /\ check = "size" /\ axis > 0 /\ check' = check /\ formula' = formula /\ verdict' = verdict
        /\ given' = given /\ origin' = origin /\ axis' = axis - 1 /\ reach' = reach
        /\ total' = [i \in formula |-> total[i] * i.shape[axis]]
        /\ products' = [i \in formula |-> <<total[i]>> \o products[i]]
    BY DEF MultiplyDimension
  <1>2. axis \in 0 .. Dimensions /\ Dimensions \in Nat /\ \A i \in formula : ProductsOf(i, axis) /\ Shaped(i)
    BY <1>1 DEF LayoutInv, SizeInv, ShapeInv
  <1> PICK done : done = axis - 1
    OBVIOUS
  <1>3. ASSUME NEW i \in formula  PROVE ProductsOf(i, done)'
    <2>1. PICK t \in Nat, d \in Nat, p \in Seq(Nat) : t = total[i] /\ d = i.shape[axis] /\ p = products[i]
      BY <1>1, <1>2 DEF ProductsOf, Shaped
    <2>2. total'[i] = t * d /\ products'[i] = <<t>> \o p
      BY <1>1, <2>1
    <2>3. /\ Len(p) = Dimensions - axis
          /\ axis = Dimensions => t = 1
          /\ axis < Dimensions => p[Dimensions - axis] = 1 /\ t = i.shape[axis + 1] * p[1]
          /\ \A k \in 1 .. Dimensions - axis - 1 : p[k] = i.shape[axis + k + 1] * p[k + 1]
      BY <1>2, <2>1 DEF ProductsOf
    <2>4. PICK q \in Seq(Nat) : q = <<t>> \o p
      <3>1. <<t>> \in Seq(Nat)
        OBVIOUS
      <3> QED
        BY <3>1, ConcatProperties
    <2>5. /\ Len(q) = Dimensions - done /\ q[1] = t
          /\ \A k \in 1 .. Len(p) : q[k + 1] = p[k]
      <3>1. Len(p) \in Nat /\ Len(q) = Len(p) + 1 /\ q[1] = t
        BY <2>4
      <3>2. \A k \in 1 .. Len(p) : q[k + 1] = p[k]
        BY <2>4
      <3> QED
        BY <1>2, <2>3, <3>1, <3>2
    <2>6. t * d \in Nat /\ t * d = d * t
      OBVIOUS
    <2>7. ~(done = Dimensions) /\ done + 1 = axis
      BY <1>2
    <2>8. q[Dimensions - done] = 1
      <3>1. CASE axis = Dimensions
        BY <3>1, <2>3, <2>5, <1>2
      <3>2. CASE axis < Dimensions
        <4>1. Dimensions - axis \in 1 .. Len(p) /\ (Dimensions - axis) + 1 = Dimensions - done
          BY <3>2, <2>3, <1>2
        <4> QED
          BY <4>1, <3>2, <2>3, <2>5
      <3> QED
        BY <3>1, <3>2, <1>2
    <2>9. ASSUME NEW k \in 1 .. Dimensions - done - 1
          PROVE  q[k] = i.shape[done + k + 1] * q[k + 1]
      <3>1. k \in 1 .. Len(p) /\ done + k + 1 = axis + k /\ q[k + 1] = p[k]
        BY <1>2, <2>3, <2>5
      <3>2. CASE k = 1
        BY <3>1, <3>2, <1>1, <1>2, <2>3, <2>5
      <3>3. CASE k > 1
        <4>1. k - 1 \in 1 .. Dimensions - axis - 1 /\ k - 1 \in 1 .. Len(p) /\ (k - 1) + 1 = k
              /\ axis + (k - 1) + 1 = axis + k
          BY <3>1, <3>3, <1>2, <2>3
        <4>2. q[k] = p[k - 1]
          BY <4>1, <2>5
        <4>3. p[k - 1] = i.shape[axis + (k - 1) + 1] * p[(k - 1) + 1]
          BY <4>1, <2>3
        <4> QED
          BY <3>1, <4>1, <4>2, <4>3
      <3> QED
        BY <3>2, <3>3
    <2>10. Dimensions' = Dimensions
      BY <1>1, SameRun
    <2>11. products'[i] = q /\ total'[i] = d * q[1] /\ total'[i] \in Nat
      BY <2>2, <2>4, <2>5, <2>6
    <2> QED
      BY <2>1, <2>5, <2>7, <2>8, <2>9, <2>10, <2>11, <1>1 DEF ProductsOf
  <1>4. SizeInv'
    <2>1. axis' \in 0 .. Dimensions'
      BY <1>1, <1>2, SameRun
    <2>2. \A i \in formula' : ProductsOf(i, axis)'
      BY <1>1, <1>3 DEF ProductsOf
    <2> QED
      BY <2>1, <2>2, <1>1 DEF SizeInv
  <1>5. Fixed' /\ Agrees'
    BY <1>1, SameRun DEF LayoutInv, Fixed, Agrees
  <1>6. Complete' /\ ShapeInv' /\ StridesInv' /\ LayoutsAreExact'
    BY <1>1, SameRun DEF LayoutInv, Complete, ShapeInv, StridesInv, LayoutsAreExact
  <1>7. MeasureInv'
    BY <1>1 DEF LayoutInv, MeasureInv
  <1> QED
    BY <1>4, <1>5, <1>6, <1>7 DEF LayoutInv

LEMMA SizeKnownSound == LayoutInv /\ SizeKnown => LayoutInv'
  <1> SUFFICES ASSUME LayoutInv, SizeKnown PROVE LayoutInv'
    OBVIOUS
  <1> USE DEF Running
  <1>1. /\ check = "size" /\ axis = 0 /\ check' = "strides" /\ formula' = formula /\ verdict' = verdict
        /\ given' = given /\ origin' = origin /\ reach' = reach /\ total' = total /\ products' = products
    BY DEF SizeKnown
  <1>2. verdict /\ \A i \in formula : ProductsOf(i, 0)
    BY <1>1 DEF LayoutInv, SizeInv, Fixed
  <1>3. SizeInv'
    BY <1>1, <1>2, SameRun DEF SizeInv, ProductsOf
  <1>4. Fixed' /\ Agrees'
    BY <1>1, <1>2, SameRun DEF LayoutInv, Fixed, Agrees
  <1>5. Complete' /\ ShapeInv' /\ StridesInv' /\ LayoutsAreExact'
    BY <1>1, SameRun DEF LayoutInv, Complete, ShapeInv, StridesInv, LayoutsAreExact
  <1>6. MeasureInv'
    BY <1>1 DEF LayoutInv, MeasureInv
  <1> QED
    BY <1>3, <1>4, <1>5, <1>6 DEF LayoutInv

LEMMA CheckStridesSound == LayoutInv /\ CheckStrides => LayoutInv'
  <1> SUFFICES ASSUME LayoutInv, CheckStrides PROVE LayoutInv'
    OBVIOUS
  <1> USE DEF Running
  <1>1. /\ check = "strides" /\ given' = given /\ origin' = origin /\ reach' = reach
        /\ total' = total /\ products' = products
        /\ check' = IF FromSolver \/ verdict' THEN "offset" ELSE "judged"
    BY DEF CheckStrides
  <1>2. /\ verdict /\ given \in formula /\ given \in ArrayInput /\ formula \subseteq ArrayInput
        /\ origin \in {"solver", "strided", "default"} /\ Complete /\ DOMAIN reach = {}
        /\ given.shape # Other /\ Dimensions \in Nat /\ \A i \in formula : Shaped(i)
    BY <1>1 DEF LayoutInv, Fixed, Agrees, ShapeInv, MeasureInv
  <1>3. PICK rank : \/ origin = "default" /\ verdict' = verdict /\ formula' = formula
                    \/ /\ origin # "default"
                       /\ rank = IF given.strides # Other /\ Len(given.strides) = Dimensions
                                 THEN Dimensions ELSE 0
                       /\ verdict' = StridesHold(given, rank)
                       /\ formula' = {i \in formula : StridesHold(i, rank)}
    BY DEF CheckStrides
  <1>4. formula' \subseteq formula /\ verdict' \in BOOLEAN /\ (verdict' <=> given \in formula')
    BY <1>2, <1>3 DEF StridesHold
  <1>5. ASSUME NEW i \in ArrayInput, SameRank(i), WellTyped(i)  PROVE i \in formula'
    <2>1. i \in formula
      BY <1>2, <1>5 DEF Complete
    <2>2. CASE origin # "default"
      <3>1. rank \in {0, Len(i.shape)}
        BY <1>3, <2>2, <1>5 DEF SameRank, Dimensions, WellTyped
      <3> QED
        BY <1>3, <1>5, <2>1, <2>2, <3>1, WellTypedPasses
    <2> QED
      BY <1>3, <2>1, <2>2
  <1>6. ASSUME verdict', origin # "default", NEW i \in formula'
        PROVE  StridesKnown(i)
    <2>1. given.strides # Other /\ Len(given.strides) = Dimensions
      BY <1>3, <1>6 DEF StridesHold, Dimensions
    <2>2. rank = Dimensions /\ StridesHold(i, Dimensions)
      BY <1>3, <1>6, <2>1
    <2> QED
      BY <2>2, ElementsInside DEF StridesHold, StridesKnown
  <1>7. Fixed' /\ Agrees'
    BY <1>1, <1>2, <1>4 DEF Fixed, Agrees
  <1>8. Complete'
    BY <1>1, <1>2, <1>5, SameRun DEF Complete
  <1>9. ShapeInv'
    BY <1>1, <1>2, <1>4, SameRun DEF LayoutInv, ShapeInv
  <1>10. SizeInv'
    <2>1. \A i : ProductsOf(i, 0)' <=> ProductsOf(i, 0)
      BY <1>1, SameRun DEF ProductsOf
    <2>2. ~FromSolver => \A i \in formula : ProductsOf(i, 0)
      BY <1>1 DEF LayoutInv, SizeInv
    <2> QED
      BY <1>1, <1>4, <2>1, <2>2, SameRun DEF SizeInv
  <1>11. StridesInv'
    <2>1. \A i \in formula' : verdict' => StridesKnown(i)
      BY <1>6 DEF StridesKnown
    <2> QED
      BY <1>1, <2>1, SameRun DEF StridesInv
  <1>12. MeasureInv'
    BY <1>1, <1>2 DEF MeasureInv
  <1>13. LayoutsAreExact'
    <2>1. check' = "judged" => ~verdict' /\ given.shape # Other
      BY <1>1, <1>2
    <2>2. WellTyped(given) => given \in formula'
      BY <1>2, <1>5 DEF SameRank, Dimensions
    <2> QED
      BY <1>1, <1>2, <1>4, <1>5, <2>1, <2>2, SameRun DEF LayoutsAreExact
  <1> QED
    BY <1>7, <1>8, <1>9, <1>10, <1>11, <1>12, <1>13 DEF LayoutInv

\* Before the first axis the only address is the offset.
LEMMA OffsetCovered ==
  ASSUME NEW o \in Nat
  PROVE  Covers([least |-> o, greatest |-> o, empty |-> FALSE], {o})
  BY DEF Covers

LEMMA CheckOffsetSound == LayoutInv /\ CheckOffset => LayoutInv'
  <1> SUFFICES ASSUME LayoutInv, CheckOffset PROVE LayoutInv'
    OBVIOUS
  <1> USE DEF Running
  <1>1. /\ check = "offset" /\ given' = given /\ origin' = origin
        /\ total' = total /\ products' = products /\ axis' = 1
        /\ verdict' = (verdict /\ OffsetOf(given) \in Nat)
        /\ formula' = {i \in formula : OffsetOf(i) \in Nat}
        /\ check' = IF verdict' THEN "extents" ELSE "judged"
    BY DEF CheckOffset
  <1>2. /\ given \in ArrayInput /\ formula \subseteq ArrayInput /\ verdict \in BOOLEAN
        /\ verdict <=> given \in formula
        /\ origin \in {"solver", "strided", "default"} /\ Complete /\ DOMAIN reach = {}
        /\ given.shape # Other /\ Dimensions \in Nat /\ \A i \in formula : Shaped(i)
    BY <1>1 DEF LayoutInv, Fixed, Agrees, ShapeInv, MeasureInv
  <1>3. PICK measured : /\ measured = IF verdict' THEN formula' ELSE {}
                        /\ extents' = [i \in measured |-> [least |-> OffsetOf(i), greatest |-> OffsetOf(i), empty |-> FALSE]]
                        /\ bounds' = [least |-> OffsetOf(given), greatest |-> OffsetOf(given), empty |-> FALSE]
                        /\ reach' = [i \in measured |-> {OffsetOf(i)}]
    BY DEF CheckOffset
  <1>4. formula' \subseteq formula /\ verdict' \in BOOLEAN /\ (verdict' <=> given \in formula')
    BY <1>1, <1>2
  <1>5. ASSUME NEW i \in ArrayInput, SameRank(i), WellTyped(i)  PROVE i \in formula'
    BY <1>1, <1>2, <1>5, WellTypedPasses DEF Complete
  <1>6. Fixed' /\ Agrees'
    BY <1>1, <1>2, <1>4 DEF Fixed, Agrees
  <1>7. Complete'
    BY <1>1, <1>2, <1>5, SameRun DEF Complete
  <1>8. ShapeInv'
    BY <1>1, <1>2, <1>4, SameRun DEF LayoutInv, ShapeInv
  <1>9. SizeInv'
    <2>1. \A i : ProductsOf(i, 0)' <=> ProductsOf(i, 0)
      BY <1>1, SameRun DEF ProductsOf
    <2>2. ~FromSolver => \A i \in formula : ProductsOf(i, 0)
      BY <1>1 DEF LayoutInv, SizeInv
    <2> QED
      BY <1>1, <1>4, <2>1, <2>2, SameRun DEF SizeInv
  <1>10. StridesInv'
    <2>1. verdict' => \A i \in formula' : StridesKnown(i)
      BY <1>1, <1>4 DEF LayoutInv, StridesInv
    <2> QED
      BY <1>1, <2>1, SameRun DEF StridesInv
  <1>11. MeasureInv'
    <2> SUFFICES ASSUME verdict'
                 PROVE  /\ axis' \in 1 .. Dimensions + 1 /\ DOMAIN reach' = formula'
                        /\ \A i \in formula' : OffsetOf(i) \in Nat /\ Covers(extents'[i], reach'[i])
                        /\ Covers(bounds', reach'[given])
                        /\ origin = "default" => bounds'.least = 0 /\ bounds'.greatest = 0
      BY <1>1, SameRun DEF MeasureInv
    <2>1. measured = formula' /\ given \in formula'
      BY <1>3, <1>4
    <2>2. axis' \in 1 .. Dimensions + 1 /\ DOMAIN reach' = formula'
      BY <1>1, <1>2, <1>3, <2>1
    <2>3. ASSUME NEW i \in formula'  PROVE OffsetOf(i) \in Nat /\ Covers(extents'[i], reach'[i])
      <3>1. PICK o \in Nat : o = OffsetOf(i)
        BY <1>1, <2>3
      <3>2. extents'[i] = [least |-> o, greatest |-> o, empty |-> FALSE] /\ reach'[i] = {o}
        BY <1>3, <2>1, <3>1
      <3> QED
        BY <3>1, <3>2, OffsetCovered
    <2>4. Covers(bounds', reach'[given])
      <3>1. PICK o \in Nat : o = OffsetOf(given)
        BY <1>1
      <3>2. bounds' = [least |-> o, greatest |-> o, empty |-> FALSE] /\ reach'[given] = {o}
        BY <1>3, <2>1, <3>1
      <3> QED
        BY <3>2, OffsetCovered
    <2>5. origin = "default" => bounds'.least = 0 /\ bounds'.greatest = 0
      BY <1>3 DEF OffsetOf
    <2> QED
      BY <2>2, <2>3, <2>4, <2>5
  <1>12. LayoutsAreExact'
    <2>1. check' = "judged" => ~verdict' /\ given.shape # Other
      BY <1>1, <1>2
    <2>2. WellTyped(given) => given \in formula'
      BY <1>2, <1>5 DEF SameRank, Dimensions
    <2> QED
      BY <1>1, <1>2, <1>4, <1>5, <2>1, <2>2, SameRun DEF LayoutsAreExact
  <1> QED
    BY <1>6, <1>7, <1>8, <1>9, <1>10, <1>11, <1>12 DEF LayoutInv

\* The default stride of an axis times its dimension is the stride before it, so that the
\* greatest index telescopes to the size.
LEMMA DefaultEnds ==
  ASSUME LayoutInv, check = "extents", origin = "default", axis <= Dimensions
  PROVE  /\ products[given][axis] \in Nat
         /\ axis = 1 => total[given] = given.shape[axis] * products[given][axis]
         /\ axis # 1 => products[given][axis - 1] = given.shape[axis] * products[given][axis]
                        /\ products[given][axis - 1] \in Nat
  <1> USE DEF Running
  <1>1. /\ axis \in 1 .. Dimensions + 1 /\ Dimensions \in Nat /\ given \in formula
        /\ ProductsOf(given, 0)
    BY DEF LayoutInv, Fixed, Agrees, ShapeInv, SizeInv, MeasureInv, FromSolver
  <1>2. PICK p \in Seq(Nat), n \in Nat : p = products[given] /\ n = Dimensions
    BY <1>1 DEF ProductsOf
  <1>3. /\ Len(p) = n /\ axis \in 1 .. n
        /\ 0 < n => total[given] = given.shape[1] * p[1]
        /\ \A k \in 1 .. n - 0 - 1 : p[k] = given.shape[0 + k + 1] * p[k + 1]
    BY <1>1, <1>2 DEF ProductsOf
  <1>4. p[axis] \in Nat
    BY <1>3
  <1>5. ASSUME axis # 1  PROVE p[axis - 1] = given.shape[axis] * p[axis] /\ p[axis - 1] \in Nat
    <2>1. axis - 1 \in 1 .. n - 0 - 1 /\ 0 + (axis - 1) + 1 = axis /\ (axis - 1) + 1 = axis /\ axis - 1 \in 1 .. n
      BY <1>3, <1>5
    <2>2. p[axis - 1] = given.shape[0 + (axis - 1) + 1] * p[(axis - 1) + 1]
      BY <1>3, <2>1
    <2> QED
      BY <1>3, <2>1, <2>2
  <1> QED
    BY <1>2, <1>3, <1>4, <1>5

LEMMA OneLess ==
  ASSUME NEW d \in Nat, NEW s \in Nat, d # 0
  PROVE  (d - 1) * s = d * s - s /\ (d - 1) * s \in Nat /\ d * s \in Nat
  <1>1. d - 1 \in Nat
    OBVIOUS
  <1> QED
    BY <1>1

LEMMA AddAxisSound == LayoutInv /\ AddAxis => LayoutInv'
  <1> SUFFICES ASSUME LayoutInv, AddAxis PROVE LayoutInv'
    OBVIOUS
  <1> USE DEF Running
  <1>1. /\ check = "extents" /\ axis <= Dimensions /\ check' = check /\ axis' = axis + 1
        /\ given' = given /\ origin' = origin /\ total' = total /\ products' = products
        /\ verdict' = verdict /\ formula' = formula
        /\ extents' = [i \in formula |-> FormulaExtents(extents[i], i.shape[axis], StrideOf(i, axis))]
        /\ bounds' = ConcreteExtents(bounds, given.shape[axis], StrideOf(given, axis))
        /\ reach' = [i \in formula |-> Spread(reach[i], i.shape[axis], StrideOf(i, axis))]
    BY DEF AddAxis, Spread
  <1>2. /\ verdict /\ given \in formula /\ axis \in 1 .. Dimensions + 1 /\ Dimensions \in Nat
        /\ DOMAIN reach = formula
        /\ \A i \in formula : OffsetOf(i) \in Nat /\ Covers(extents[i], reach[i]) /\ Shaped(i) /\ StridesKnown(i)
        /\ Covers(bounds, reach[given])
    BY <1>1 DEF LayoutInv, Fixed, Agrees, ShapeInv, StridesInv, MeasureInv
  <1>3. axis \in 1 .. Dimensions
    BY <1>1, <1>2
  <1>4. ASSUME NEW i \in formula  PROVE i.shape[axis] \in Nat /\ StrideOf(i, axis) \in Int
    <2>1. CASE origin = "default"
      <3>1. ProductsOf(i, 0)
        BY <1>1, <2>1 DEF LayoutInv, SizeInv, FromSolver
      <3>2. PICK p \in Seq(Nat) : p = products[i]
        BY <3>1 DEF ProductsOf
      <3>3. Len(p) = Dimensions
        BY <1>2, <3>1, <3>2 DEF ProductsOf
      <3>4. p[axis] \in Nat
        BY <1>3, <3>3
      <3> QED
        BY <1>2, <1>3, <2>1, <3>2, <3>4 DEF Shaped, StrideOf
    <2>2. CASE origin # "default"
      BY <1>2, <1>3, <2>2 DEF Shaped, StridesKnown, StrideOf
    <2> QED
      BY <2>1, <2>2
  <1>5. ASSUME NEW i \in formula  PROVE Covers(extents'[i], reach'[i])
    <2>1. PICK d \in Nat, s \in Int : d = i.shape[axis] /\ s = StrideOf(i, axis)
      BY <1>4
    <2>2. PICK b, R : b = extents[i] /\ R = reach[i]
      OBVIOUS
    <2>3. extents'[i] = FormulaExtents(b, d, s) /\ reach'[i] = Spread(R, d, s)
      BY <1>1, <2>1, <2>2
    <2>4. Covers(b, R)
      BY <1>2, <2>2
    <2> QED
      BY <2>3, <2>4, SpreadCovered
  <1>6. Covers(bounds', reach'[given])
    <2>1. PICK d \in Nat, s \in Int : d = given.shape[axis] /\ s = StrideOf(given, axis)
      BY <1>2, <1>4
    <2>2. PICK R : R = reach[given]
      OBVIOUS
    <2>3. bounds' = ConcreteExtents(bounds, d, s) /\ reach'[given] = Spread(R, d, s)
      BY <1>1, <1>2, <2>1, <2>2
    <2>4. Covers(bounds, R)
      BY <1>2, <2>2
    <2> QED
      BY <2>3, <2>4, SpreadCovered
  <1>7. ASSUME origin = "default", ~bounds'.empty
        PROVE  bounds'.least = 0 /\ bounds'.greatest = total[given] - products[given][axis]
    <2>1. PICK d \in Nat, s \in Nat : d = given.shape[axis] /\ s = products[given][axis]
      BY <1>1, <1>2, <1>4, <1>7, DefaultEnds
    <2>2. bounds' = ConcreteExtents(bounds, d, s)
      BY <1>1, <1>7, <2>1 DEF StrideOf
    <2>3. d # 0 /\ ~bounds.empty
      BY <1>7, <2>2 DEF ConcreteExtents
    <2>4. (d - 1) * s = d * s - s /\ (d - 1) * s \in Nat /\ d * s \in Nat
      BY <2>3, OneLess
    <2>5. PICK e \in Nat, m \in Nat : e = (d - 1) * s /\ m = d * s
      BY <2>4
    <2>6. /\ bounds.least = 0
          /\ bounds.greatest = IF axis = 1 THEN 0 ELSE total[given] - products[given][axis - 1]
      BY <1>1, <1>7, <2>3 DEF LayoutInv, MeasureInv
    <2>7. bounds'.least = bounds.least /\ bounds'.greatest = bounds.greatest + e
      BY <2>2, <2>3, <2>5 DEF ConcreteExtents
    <2>8. PICK t \in Nat : t = total[given]
      BY <1>1, <1>2, <1>7 DEF LayoutInv, SizeInv, ProductsOf, FromSolver
    <2>9. CASE axis = 1
      <3>1. t = m
        BY <1>1, <1>7, <2>1, <2>5, <2>8, <2>9, DefaultEnds
      <3> QED
        BY <2>1, <2>4, <2>5, <2>6, <2>7, <2>8, <2>9, <3>1
    <2>10. CASE axis # 1
      <3>1. PICK q \in Nat : q = products[given][axis - 1] /\ q = m
        BY <1>1, <1>7, <2>1, <2>5, <2>10, DefaultEnds
      <3> QED
        BY <2>1, <2>4, <2>5, <2>6, <2>7, <2>8, <2>10, <3>1
    <2> QED
      BY <2>9, <2>10
  <1>8. MeasureInv'
    <2>1. axis' \in 1 .. Dimensions + 1 /\ axis' # 1 /\ axis' - 1 = axis
      BY <1>1, <1>3, <1>2
    <2>2. DOMAIN reach' = formula
      BY <1>1
    <2> QED
      BY <1>1, <1>2, <1>5, <1>6, <1>7, <2>1, <2>2, SameRun DEF MeasureInv
  <1>9. SizeInv'
    <2>1. \A i : ProductsOf(i, 0)' <=> ProductsOf(i, 0)
      BY <1>1, SameRun DEF ProductsOf
    <2> QED
      BY <1>1, <2>1, SameRun DEF LayoutInv, SizeInv
  <1>10. Fixed' /\ Agrees'
    BY <1>1, SameRun DEF LayoutInv, Fixed, Agrees
  <1>11. Complete' /\ ShapeInv' /\ StridesInv' /\ LayoutsAreExact'
    BY <1>1, SameRun DEF LayoutInv, Complete, ShapeInv, StridesInv, LayoutsAreExact
  <1> QED
    BY <1>8, <1>9, <1>10, <1>11 DEF LayoutInv

LEMMA JudgeLayoutSound == LayoutInv /\ JudgeLayout => LayoutInv'
  <1> SUFFICES ASSUME LayoutInv, JudgeLayout PROVE LayoutInv'
    OBVIOUS
  <1> USE DEF Running
  <1>1. /\ check = "extents" /\ axis > Dimensions /\ check' = "judged"
        /\ given' = given /\ origin' = origin /\ total' = total /\ reach' = reach
        /\ verdict' = (Within(bounds, LengthOf(given)) /\ WriteableHolds(given))
        /\ formula' = {i \in formula : Within(extents[i], LengthOf(i)) /\ WriteableHolds(i)}
    BY DEF JudgeLayout
  <1>2. /\ verdict /\ given \in formula /\ axis \in 1 .. Dimensions + 1 /\ Dimensions \in Nat
        /\ DOMAIN reach = formula /\ given.shape # Other /\ Complete
        /\ given \in ArrayInput /\ formula \subseteq ArrayInput
        /\ origin \in {"solver", "strided", "default"}
        /\ \A i \in formula : OffsetOf(i) \in Nat /\ Covers(extents[i], reach[i]) /\ Shaped(i) /\ StridesKnown(i)
        /\ Covers(bounds, reach[given])
    BY <1>1 DEF LayoutInv, Fixed, Agrees, ShapeInv, StridesInv, MeasureInv
  <1>3. \A i : /\ InStorage(i)' <=> InStorage(i)
    BY <1>1, SameRun DEF InStorage, LengthOf
  <1>4. \A i \in formula : LengthOf(i) \in Int
    <2> SUFFICES ASSUME NEW i \in formula PROVE LengthOf(i) \in Int
      OBVIOUS
    <2>1. CASE FromSolver
      BY <2>1, <1>2, FieldTypes DEF Shaped, StorageHolds, LengthOf
    <2>2. CASE ~FromSolver
      BY <1>1, <2>2 DEF LayoutInv, SizeInv, ProductsOf, LengthOf
    <2> QED
      BY <2>1, <2>2
  <1>5. \A i \in formula : Within(extents[i], LengthOf(i)) <=> InStorage(i)
    BY <1>2, <1>4, EndsDecide DEF InStorage
  <1>6. Within(bounds, LengthOf(given)) <=> InStorage(given)
    BY <1>2, <1>4, EndsDecide DEF InStorage
  <1>7. verdict' \in BOOLEAN /\ (verdict' <=> given \in formula') /\ formula' \subseteq formula
    <2>1. verdict' \in BOOLEAN
      BY <1>1 DEF Within, WriteableHolds
    <2>2. verdict' <=> InStorage(given) /\ WriteableHolds(given)
      BY <1>1, <1>6
    <2>3. given \in formula' <=> InStorage(given) /\ WriteableHolds(given)
      BY <1>1, <1>2, <1>5
    <2> QED
      BY <1>1, <2>1, <2>2, <2>3
  <1>8. ASSUME NEW i \in formula', SameRank(i)  PROVE WellTyped(i) /\ InStorage(i)
    <2>1. i \in formula /\ InStorage(i) /\ WriteableHolds(i) /\ i \in ArrayInput
      BY <1>1, <1>2, <1>5
    <2>2. Shaped(i) /\ StridesKnown(i) /\ OffsetOf(i) \in Nat
      BY <1>2, <2>1
    <2>3. Len(i.shape) = Dimensions /\ DOMAIN i.shape = 1 .. Dimensions
      BY <1>8, <2>1, <2>2, FieldTypes DEF Shaped, SameRank
    <2>4. origin # "default" => DOMAIN i.strides = 1 .. Dimensions /\ i.offset \in Nat
      BY <2>1, <2>2, <2>3, FieldTypes DEF StridesKnown, OffsetOf
    <2> QED
      BY <2>1, <2>2, <2>3, <2>4 DEF WellTyped, Shaped, StridesKnown
  <1>9. ASSUME NEW i \in ArrayInput, SameRank(i), WellTyped(i), i \in formula => InStorage(i)
        PROVE  i \in formula'
    BY <1>1, <1>2, <1>5, <1>9 DEF Complete, WellTyped
  <1>10. ASSUME origin = "default"  PROVE verdict'
    <2>1. WriteableHolds(given) /\ LengthOf(given) = total[given] /\ axis = Dimensions + 1
      BY <1>1, <1>2, <1>10 DEF WriteableHolds, FromSolver, LengthOf
    <2>2. ProductsOf(given, 0)
      BY <1>1, <1>2, <1>10 DEF LayoutInv, SizeInv, FromSolver
    <2>3. PICK t \in Nat, n \in Nat, p \in Seq(Nat) : t = total[given] /\ n = Dimensions /\ p = products[given]
      BY <1>2, <2>2 DEF ProductsOf
    <2>4. (0 = n => t = 1) /\ (0 < n => p[n - 0] = 1)
      BY <2>2, <2>3 DEF ProductsOf
    <2>5. ~bounds.empty => bounds.least = 0 /\ bounds.greatest = IF axis = 1 THEN 0 ELSE t - p[axis - 1]
      BY <1>1, <1>10, <2>3 DEF LayoutInv, MeasureInv
    <2>6. ~bounds.empty => bounds.least = 0 /\ bounds.greatest = t - 1
      <3>1. CASE n = 0
        BY <3>1, <2>1, <2>3, <2>4, <2>5
      <3>2. CASE n # 0
        <4>1. axis # 1 /\ axis - 1 = n /\ n - 0 = n /\ 0 < n
          BY <3>2, <2>1, <2>3
        <4> QED
          BY <4>1, <2>4, <2>5
      <3> QED
        BY <3>1, <3>2
    <2>7. Within(bounds, t)
      BY <2>6 DEF Within
    <2> QED
      BY <1>1, <2>1, <2>3, <2>7
  <1>11. LayoutsAreExact'
    BY <1>1, <1>2, <1>3, <1>7, <1>8, <1>9, <1>10, SameRun DEF LayoutsAreExact
  <1>12. Fixed' /\ Agrees'
    BY <1>1, <1>2, <1>7 DEF Fixed, Agrees
  <1> QED
    BY <1>1, <1>11, <1>12 DEF LayoutInv, ShapeInv, SizeInv, StridesInv, MeasureInv

\* Every valid array, made up by the solver or made by the function, has all its
\* coordinates in its storage, on every input of the path with its rank.
THEOREM LayoutsAreSafe == LayoutSpec => []LayoutsAreExact
  <1>1. LayoutInit => LayoutInv
    BY InitSound
  <1>2. LayoutInv /\ [LayoutNext]_layoutVars => LayoutInv'
    <2> SUFFICES ASSUME LayoutInv, [LayoutNext]_layoutVars PROVE LayoutInv'
      OBVIOUS
    <2>1. CASE UNCHANGED layoutVars
      <3>1. \A i : /\ InStorage(i)' <=> InStorage(i)
                   /\ ProductsOf(i, axis)' <=> ProductsOf(i, axis)
                   /\ ProductsOf(i, 0)' <=> ProductsOf(i, 0)
        BY <2>1, SameRun DEF layoutVars, InStorage, LengthOf, ProductsOf
      <3> QED
        BY <2>1, <3>1, SameRun DEF layoutVars, LayoutInv, Fixed, Agrees, Complete, ShapeInv, SizeInv,
           StridesInv, MeasureInv, LayoutsAreExact
    <2>2. CASE LayoutNext
      BY <2>1, <2>2, CheckShapeSound, MultiplySound, SizeKnownSound, CheckStridesSound,
         CheckOffsetSound, AddAxisSound, JudgeLayoutSound DEF LayoutNext
    <2> QED
      BY <2>1, <2>2
  <1>3. LayoutInv => LayoutsAreExact
    BY DEF LayoutInv
  <1> QED
    BY <1>1, <1>2, <1>3, PTL DEF LayoutSpec

----------------------------------------------------------------------------
(* The two halves of a view.  First numbers, folds and flattened sequences. *)

Less == OpToRel(<, Nat)

\* Every nonempty set of natural numbers has a least element.
LEMMA LeastNat ==
  ASSUME NEW S, S \subseteq Nat, S # {}
  PROVE  \E x \in S : \A y \in S : x <= y
  <1>1. IsWellFoundedOn(Less, Nat)
    BY NatLessThanWellFounded DEF Less
  <1>2. \A x, y \in Nat : <<x, y>> \in Less <=> x < y
    BY DEF Less, OpToRel
  <1>3. PICK x \in S : \A y \in S : <<y, x>> \notin Less
    BY <1>1, WFMin
  <1>4. \A y \in S : y \in Nat /\ x \in Nat
    OBVIOUS
  <1>5. \A y \in S : ~(y < x)
    BY <1>2, <1>3, <1>4
  <1>6. \A y \in S : x <= y
    BY <1>4, <1>5
  <1> QED
    BY <1>3, <1>6

\* The greatest number of a set of the first numbers.
LEMMA GreatestOf ==
  ASSUME NEW n \in Nat, NEW T \in SUBSET (1 .. n), T # {}
  PROVE  Max(T) \in T /\ \A x \in T : x <= Max(T)
  <1> DEFINE Above == {m \in Nat : \A x \in T : x <= m}
  <1>1. n \in Above
    OBVIOUS
  <1>2. PICK m \in Above : \A k \in Above : m <= k
    BY <1>1, LeastNat
  <1>3. m \in T
    <2> SUFFICES ASSUME m \notin T PROVE FALSE
      OBVIOUS
    <2>1. \A x \in T : x \in Nat /\ x <= m /\ x # m
      BY <1>2
    <2>2. PICK t \in T : TRUE
      OBVIOUS
    <2>3. m - 1 \in Nat /\ \A x \in T : x <= m - 1
      BY <1>2, <2>1, <2>2
    <2> QED
      BY <1>2, <2>3
  <1>4. \E y \in T : \A x \in T : y >= x
    BY <1>2, <1>3
  <1> QED
    BY <1>4 DEF Max

\* The greatest number of a set with a number above all others.
LEMMA GreatestIsLast ==
  ASSUME NEW n \in Nat, NEW T \in SUBSET (1 .. n + 1), n + 1 \in T
  PROVE  Max(T) = n + 1
  <1>1. Max(T) \in T /\ \A x \in T : x <= Max(T)
    BY n + 1 \in Nat, GreatestOf
  <1>2. PICK m \in T : m = Max(T) /\ n + 1 <= m
    BY <1>1
  <1>3. m = n + 1
    BY <1>2
  <1> QED
    BY <1>2, <1>3

\* MapThenFoldSet takes the last element first: the function it is defined by exists.
FoldStep(op, base, f, T) == IF T = {} THEN base ELSE op[<<Max(T), f[T \ {Max(T)}]>>]

HasFold(n, op, base, S) ==
  \E f \in [SUBSET (1 .. n) -> S] : \A T \in SUBSET (1 .. n) : f[T] = FoldStep(op, base, f, T)

\* The recursive function behind a fold over the first numbers exists.
LEMMA FoldExists ==
  ASSUME NEW n \in Nat, NEW S, NEW base \in S, NEW op \in [(1 .. n) \X S -> S]
  PROVE  HasFold(n, op, base, S)
  <1> DEFINE Good(k) == \E f \in [SUBSET (1 .. k) -> S] :
                          \A T \in SUBSET (1 .. k) : f[T] = FoldStep(op, base, f, T)
             Bad == {k \in 0 .. n : ~Good(k)}
  <1>1. Good(0)
    <2> DEFINE f == [T \in SUBSET (1 .. 0) |-> base]
    <2>1. \A T \in SUBSET (1 .. 0) : T = {}
      OBVIOUS
    <2>2. f \in [SUBSET (1 .. 0) -> S] /\ \A T \in SUBSET (1 .. 0) : f[T] = FoldStep(op, base, f, T)
      BY <2>1 DEF FoldStep
    <2> QED
      BY <2>2
  <1>2. ASSUME NEW k \in 0 .. n - 1, Good(k) PROVE Good(k + 1)
    <2>1. PICK f \in [SUBSET (1 .. k) -> S] : \A T \in SUBSET (1 .. k) : f[T] = FoldStep(op, base, f, T)
      BY <1>2
    <2> DEFINE g == [T \in SUBSET (1 .. k + 1) |->
                       IF k + 1 \in T THEN op[<<k + 1, f[T \ {k + 1}]>>] ELSE f[T]]
    <2>2. \A T \in SUBSET (1 .. k + 1) : /\ T \ {k + 1} \in SUBSET (1 .. k)
                                         /\ k + 1 \notin T => T \in SUBSET (1 .. k)
      OBVIOUS
    <2>3. g \in [SUBSET (1 .. k + 1) -> S]
      <3>1. ASSUME NEW T \in SUBSET (1 .. k + 1) PROVE g[T] \in S
        <4>1. CASE k + 1 \in T
          <5>1. f[T \ {k + 1}] \in S /\ k + 1 \in 1 .. n
            BY <2>2
          <5> QED
            BY <4>1, <5>1
        <4>2. CASE k + 1 \notin T
          BY <2>2, <4>2
        <4> QED
          BY <4>1, <4>2
      <3> QED
        BY <3>1
    <2>4. ASSUME NEW T \in SUBSET (1 .. k) PROVE g[T] = f[T]
      <3>1. T \in SUBSET (1 .. k + 1) /\ k + 1 \notin T
        OBVIOUS
      <3> QED
        BY <3>1
    <2>5. ASSUME NEW T \in SUBSET (1 .. k + 1) PROVE g[T] = FoldStep(op, base, g, T)
      <3>1. CASE k + 1 \in T
        <4>1. Max(T) = k + 1
          BY <3>1, k \in Nat, GreatestIsLast
        <4>2. g[T] = op[<<k + 1, f[T \ {k + 1}]>>]
          BY <3>1
        <4>3. g[T \ {k + 1}] = f[T \ {k + 1}]
          BY <2>2, <2>4
        <4> HIDE DEF g
        <4> QED
          BY <3>1, <4>1, <4>2, <4>3 DEF FoldStep
      <3>2. CASE k + 1 \notin T
        <4>1. T \in SUBSET (1 .. k)
          BY <2>2, <3>2
        <4>2. g[T] = FoldStep(op, base, f, T)
          BY <2>1, <2>4, <4>1
        <4>3. T # {} => Max(T) \in T /\ T \ {Max(T)} \in SUBSET (1 .. k)
          BY <4>1, k \in Nat, GreatestOf
        <4>4. T # {} => g[T \ {Max(T)}] = f[T \ {Max(T)}]
          BY <2>4, <4>3
        <4> HIDE DEF g
        <4> QED
          BY <4>2, <4>4 DEF FoldStep
      <3> QED
        BY <3>1, <3>2
    <2> HIDE DEF g
    <2> QED
      BY <2>3, <2>5
  <1> HIDE DEF Good
  <1>3. ASSUME Bad # {} PROVE FALSE
    <2>0. Bad \subseteq Nat
      OBVIOUS
    <2>1. PICK k \in Bad : \A m \in Bad : k <= m
      BY <1>3, <2>0, LeastNat
    <2>2. k # 0 /\ k \in 0 .. n /\ ~Good(k)
      BY <1>1
    <2>3. k - 1 \in 0 .. n - 1 /\ k - 1 \notin Bad
      BY <2>1, <2>2
    <2>4. Good((k - 1) + 1)
      BY <1>2, <2>3
    <2> QED
      BY <2>2, <2>4
  <1>4. Good(n)
    BY <1>3
  <1> QED
    BY <1>4 DEF Good, HasFold

\* The case of a sum: integers, from 0.
LEMMA IntegerFold ==
  ASSUME NEW n \in Nat, NEW op \in [(1 .. n) \X Int -> Int]
  PROVE  HasFold(n, op, 0, Int)
  BY FoldExists

\* The first k numbers without the last are the first k - 1.
LEMMA FirstNumbers ==
  ASSUME NEW n \in Nat, NEW k \in 1 .. n
  PROVE  1 .. k \in SUBSET (1 .. n) /\ 1 .. k # {} /\ (1 .. k) \ {k} = 1 .. k - 1
  OBVIOUS

\* The greatest of the first k numbers is k.
LEMMA GreatestOfFirst ==
  ASSUME NEW n \in Nat, NEW k \in 1 .. n
  PROVE  Max(1 .. k) = k
  <1>1. k - 1 \in Nat /\ (k - 1) + 1 = k
    OBVIOUS
  <1>2. 1 .. k \in SUBSET (1 .. (k - 1) + 1) /\ (k - 1) + 1 \in 1 .. k
    BY <1>1
  <1>3. Max(1 .. k) = (k - 1) + 1
    BY <1>1, <1>2, GreatestIsLast
  <1> QED
    BY <1>1, <1>3

\* Induction, with a set for the property.
LEMMA ByInduction ==
  ASSUME NEW S, 0 \in S, \A k \in Nat : k \in S => k + 1 \in S
  PROVE  \A n \in Nat : n \in S
  <1> DEFINE Bad == {k \in Nat : k \notin S}
  <1>1. ASSUME Bad # {} PROVE FALSE
    <2>1. Bad \subseteq Nat
      OBVIOUS
    <2>2. PICK k \in Bad : \A m \in Bad : k <= m
      BY <1>1, <2>1, LeastNat
    <2>3. k - 1 \in Nat /\ k - 1 \notin Bad
      BY <2>2
    <2>4. (k - 1) + 1 \in S
      BY <2>3
    <2> QED
      BY <2>2, <2>4
  <1> QED
    BY <1>1

\* A sum by its prefixes.
LEMMA SumByPrefix ==
  ASSUME NEW n \in Nat, NEW s \in [1 .. n -> Int]
  PROVE  \E f : f[0] = 0 /\ (\A k \in 1 .. n : f[k] = f[k - 1] + s[k]) /\ SumSeq(s) = f[n]
  <1> DEFINE Unfolded(f) == [T \in SUBSET (1 .. n) |-> IF T = {} THEN 0 ELSE f[T \ {Max(T)}] + s[Max(T)]]
             F == CHOOSE f : f = Unfolded(f)
  <1>1. PICK op \in [(1 .. n) \X Int -> Int] : \A k \in 1 .. n, x \in Int : op[<<k, x>>] = x + s[k]
    <2> DEFINE add == [p \in (1 .. n) \X Int |-> p[2] + s[p[1]]]
    <2>1. add \in [(1 .. n) \X Int -> Int] /\ \A k \in 1 .. n, x \in Int : add[<<k, x>>] = x + s[k]
      OBVIOUS
    <2> HIDE DEF add
    <2> QED
      BY <2>1
  <1>2. PICK f \in [SUBSET (1 .. n) -> Int] : \A T \in SUBSET (1 .. n) : f[T] = FoldStep(op, 0, f, T)
    <2>1. HasFold(n, op, 0, Int)
      BY IntegerFold
    <2> QED
      BY <2>1 DEF HasFold
  <1>3. f = Unfolded(f)
    <2>1. ASSUME NEW T \in SUBSET (1 .. n)
          PROVE  f[T] = IF T = {} THEN 0 ELSE f[T \ {Max(T)}] + s[Max(T)]
      <3>1. CASE T = {}
        BY <1>2, <3>1 DEF FoldStep
      <3>2. CASE T # {}
        <4>1. PICK m \in 1 .. n : m = Max(T)
          BY <3>2, GreatestOf
        <4>2. f[T \ {m}] \in Int
          BY <1>2
        <4>3. f[T] = op[<<m, f[T \ {m}]>>]
          BY <1>2, <3>2, <4>1 DEF FoldStep
        <4> QED
          BY <1>1, <3>2, <4>1, <4>2, <4>3
      <3> QED
        BY <3>1, <3>2
    <2> QED
      BY <2>1
  <1>4. F = Unfolded(F)
    BY <1>3
  <1>5. SumSeq(s) = F[1 .. n]
    <2>1. DOMAIN s = 1 .. n
      OBVIOUS
    <2> QED
      BY <2>1, Zenon DEF SumSeq, FoldLeft, MapThenFoldSet
  <1> HIDE DEF F
  <1>6. F[{}] = 0
    BY <1>4
  <1>7. ASSUME NEW k \in 1 .. n PROVE F[1 .. k] = F[1 .. k - 1] + s[k]
    <2>1. 1 .. k \in SUBSET (1 .. n) /\ 1 .. k # {} /\ (1 .. k) \ {k} = 1 .. k - 1
      BY FirstNumbers
    <2>2. Max(1 .. k) = k
      BY GreatestOfFirst
    <2>3. F[1 .. k] = F[(1 .. k) \ {Max(1 .. k)}] + s[Max(1 .. k)]
      BY <1>4, <2>1
    <2> QED
      BY <2>1, <2>2, <2>3
  <1> DEFINE g == [k \in 0 .. n |-> F[1 .. k]]
  <1>8. g[0] = 0 /\ (\A k \in 1 .. n : g[k] = g[k - 1] + s[k]) /\ SumSeq(s) = g[n]
    <2>1. 1 .. 0 = {}
      OBVIOUS
    <2>2. \A k \in 1 .. n : k \in 0 .. n /\ k - 1 \in 0 .. n
      OBVIOUS
    <2> QED
      BY <1>5, <1>6, <1>7, <2>1, <2>2
  <1> QED
    BY <1>8

\* The prefixes of a flattened sequence.
HasPrefixes(s, S) ==
  \E g \in [0 .. Len(s) -> Seq(S)] :
    /\ g[0] = <<>>
    /\ \A i \in 1 .. Len(s) : g[i] = g[i - 1] \o s[i]
    /\ FlattenSeq(s) = g[Len(s)]

\* Flattening appends one piece after another.
LEMMA FlattenByPrefix ==
  ASSUME NEW S, NEW s \in Seq(Seq(S))
  PROVE  HasPrefixes(s, S)
  <1> DEFINE n == Len(s)
             Rows(k) == [i \in 1 .. k |-> s[i]]
             Good(k) == \E g \in [0 .. k -> Seq(S)] :
                          g[0] = <<>> /\ \A i \in 1 .. k : g[i] = g[i - 1] \o s[i]
             Goods == {k \in Nat : k <= n => Good(k)}
  <1>0. n \in Nat /\ \A i \in 1 .. n : s[i] \in Seq(S)
    OBVIOUS
  <1>1. 0 \in Goods
    <2> DEFINE g == [i \in 0 .. 0 |-> <<>>]
    <2>1. g \in [0 .. 0 -> Seq(S)] /\ g[0] = <<>> /\ \A i \in 1 .. 0 : g[i] = g[i - 1] \o s[i]
      OBVIOUS
    <2> QED
      BY <2>1
  <1> HIDE DEF Good
  <1>2. ASSUME NEW k \in Nat, k \in Goods PROVE k + 1 \in Goods
    <2> SUFFICES ASSUME k + 1 <= n PROVE Good(k + 1)
      BY k + 1 \in Nat
    <2>0. Good(k)
      BY <1>0, <1>2
    <2>1. PICK g \in [0 .. k -> Seq(S)] : g[0] = <<>> /\ \A i \in 1 .. k : g[i] = g[i - 1] \o s[i]
      BY <2>0 DEF Good
    <2> DEFINE h == [i \in 0 .. k + 1 |-> IF i = k + 1 THEN g[k] \o s[k + 1] ELSE g[i]]
    <2>2. g[k] \o s[k + 1] \in Seq(S)
      BY <1>0
    <2>3. h \in [0 .. k + 1 -> Seq(S)]
      BY <2>2
    <2>4. h[k + 1] = g[k] \o s[k + 1] /\ \A i \in 0 .. k : h[i] = g[i]
      OBVIOUS
    <2> HIDE DEF h
    <2>5. ASSUME NEW i \in 1 .. k + 1 PROVE h[i] = h[i - 1] \o s[i]
      <3>1. CASE i = k + 1
        <4>1. i - 1 = k /\ k \in 0 .. k
          BY <3>1
        <4> QED
          BY <2>4, <3>1, <4>1
      <3>2. CASE i # k + 1
        <4>1. i \in 1 .. k /\ i \in 0 .. k /\ i - 1 \in 0 .. k
          BY <3>2
        <4> QED
          BY <2>1, <2>4, <4>1
      <3> QED
        BY <3>1, <3>2
    <2>6. h[0] = <<>>
      BY <2>1, <2>4, 0 \in 0 .. k
    <2> QED
      BY <2>3, <2>5, <2>6 DEF Good
  <1>3. \A k \in Nat : k \in Goods
    BY <1>1, <1>2, ByInduction
  <1>4. Good(n)
    BY <1>0, <1>3
  <1>5. PICK g \in [0 .. n -> Seq(S)] : g[0] = <<>> /\ \A i \in 1 .. n : g[i] = g[i - 1] \o s[i]
    BY <1>4 DEF Good
  <1>6. FlattenSeq(s) = g[n]
    <2>1. CASE n = 0
      <3>1. s = <<>>
        BY <2>1
      <3> QED
        BY <1>5, <2>1, <3>1 DEF FlattenSeq
    <2>2. CASE n # 0
      <3> DEFINE Unfolded(f) == [i \in 1 .. n |-> IF i = 1 THEN s[i] ELSE f[i - 1] \o s[i]]
                 F == CHOOSE f : f = Unfolded(f)
                 h == [i \in 1 .. n |-> g[i]]
      <3>1. h = Unfolded(h)
        <4>1. ASSUME NEW i \in 1 .. n PROVE h[i] = Unfolded(h)[i]
          <5>1. CASE i = 1
            <6>0. 1 \in 1 .. n /\ 1 - 1 = 0
              BY <5>1
            <6>1. g[1] = <<>> \o s[1] /\ s[1] \in Seq(S)
              BY <1>0, <1>5, <6>0
            <6> QED
              BY <5>1, <6>1, ConcatEmptySeq
          <5>2. CASE i # 1
            <6>1. i - 1 \in 1 .. n
              BY <1>0, <5>2
            <6> QED
              BY <1>5, <5>2, <6>1
          <5> QED
            BY <5>1, <5>2
        <4> HIDE DEF h
        <4>2. h = [i \in 1 .. n |-> h[i]]
          BY DEF h
        <4> QED
          BY <4>1, <4>2
      <3>2. F = Unfolded(F)
        BY <3>1
      <3>3. FlattenSeq(s) = F[n]
        BY <2>2, Zenon DEF FlattenSeq
      <3> HIDE DEF F
      <3> DEFINE Same == {i \in Nat : i + 1 <= n => F[i + 1] = g[i + 1]}
      <3>4. 0 \in Same
        <4>0. 1 \in 1 .. n /\ 1 - 1 = 0
          BY <1>0, <2>2
        <4>1. g[1] = <<>> \o s[1] /\ s[1] \in Seq(S) /\ F[1] = s[1]
          BY <1>0, <1>5, <3>2, <4>0
        <4> QED
          BY <4>1, ConcatEmptySeq
      <3>5. ASSUME NEW i \in Nat, i \in Same PROVE i + 1 \in Same
        <4> SUFFICES ASSUME (i + 1) + 1 <= n PROVE F[(i + 1) + 1] = g[(i + 1) + 1]
          OBVIOUS
        <4>1. PICK j \in 1 .. n : j = (i + 1) + 1
          BY <1>0
        <4>2. j # 1 /\ j - 1 = i + 1 /\ i + 1 <= n
          BY <1>0, <4>1
        <4>3. F[j] = F[j - 1] \o s[j]
          BY <3>2, <4>2
        <4>4. g[j] = g[j - 1] \o s[j]
          BY <1>5
        <4> QED
          BY <3>5, <4>1, <4>2, <4>3, <4>4
      <3>6. \A i \in Nat : i \in Same
        BY <3>4, <3>5, ByInduction
      <3>7. PICK m \in Nat : m + 1 = n
        <4>1. n - 1 \in Nat /\ (n - 1) + 1 = n
          BY <1>0, <2>2
        <4> QED
          BY <4>1
      <3>8. m \in Same
        BY <3>6
      <3> QED
        BY <1>0, <3>3, <3>7, <3>8
    <2> QED
      BY <2>1, <2>2
  <1> QED
    BY <1>5, <1>6 DEF HasPrefixes

\* The pieces flattened are a sequence of what the pieces hold.
LEMMA FlattenType ==
  ASSUME NEW S, NEW s \in Seq(Seq(S))
  PROVE  FlattenSeq(s) \in Seq(S)
  <1>1. HasPrefixes(s, S)
    BY FlattenByPrefix
  <1>2. Len(s) \in 0 .. Len(s)
    OBVIOUS
  <1> QED
    BY <1>1, <1>2 DEF HasPrefixes

\* Pieces of the same lengths make sequences of the same length.
LEMMA FlattenLengths ==
  ASSUME NEW S, NEW T, NEW s \in Seq(Seq(S)), NEW t \in Seq(Seq(T)), Len(s) = Len(t),
         \A i \in 1 .. Len(s) : Len(s[i]) = Len(t[i])
  PROVE  Len(FlattenSeq(s)) = Len(FlattenSeq(t))
  <1> DEFINE n == Len(s)
  <1>1. PICK g \in [0 .. n -> Seq(S)] : /\ g[0] = <<>>
                                        /\ \A i \in 1 .. n : g[i] = g[i - 1] \o s[i]
                                        /\ FlattenSeq(s) = g[n]
    BY FlattenByPrefix DEF HasPrefixes
  <1>2. PICK h \in [0 .. n -> Seq(T)] : /\ h[0] = <<>>
                                        /\ \A i \in 1 .. n : h[i] = h[i - 1] \o t[i]
                                        /\ FlattenSeq(t) = h[n]
    BY FlattenByPrefix DEF HasPrefixes
  <1> DEFINE Same == {k \in Nat : k <= n => Len(g[k]) = Len(h[k])}
  <1>3. n \in Nat
    OBVIOUS
  <1>4. 0 \in Same
    BY <1>1, <1>2
  <1>5. ASSUME NEW k \in Nat, k \in Same PROVE k + 1 \in Same
    <2> SUFFICES ASSUME k + 1 <= n PROVE Len(g[k + 1]) = Len(h[k + 1])
      OBVIOUS
    <2>1. PICK i \in 1 .. n : i = k + 1
      BY <1>3
    <2>2. k \in 0 .. n /\ i - 1 = k /\ Len(g[k]) = Len(h[k])
      BY <1>3, <1>5, <2>1
    <2>3. g[i] = g[k] \o s[i] /\ h[i] = h[k] \o t[i]
      BY <1>1, <1>2, <2>2
    <2>4. g[k] \in Seq(S) /\ s[i] \in Seq(S) /\ h[k] \in Seq(T) /\ t[i] \in Seq(T)
      <3>1. s[i] \in Seq(S)
        BY ElementOfSeq
      <3>2. i \in 1 .. Len(t)
        BY <2>1
      <3>3. t[i] \in Seq(T)
        BY <3>2, ElementOfSeq
      <3> QED
        BY <2>2, <3>1, <3>3
    <2>5. Len(g[i]) = Len(g[k]) + Len(s[i]) /\ Len(h[i]) = Len(h[k]) + Len(t[i])
      BY <2>3, <2>4, ConcatProperties
    <2> QED
      BY <2>1, <2>2, <2>5
  <1>6. \A k \in Nat : k \in Same
    BY <1>4, <1>5, ByInduction
  <1> QED
    BY <1>1, <1>2, <1>3, <1>6

\* The arguments that consume an axis.
ConsumingAt(args) == {k \in DOMAIN args : Consuming(args[k])}

\* A set of the first numbers is finite.
LEMMA FirstFinite ==
  ASSUME NEW n \in Int, NEW T \in SUBSET (1 .. n)
  PROVE  IsFiniteSet(T) /\ Cardinality(T) \in Nat
  <1>1. IsFiniteSet(1 .. n)
    BY FS_Interval
  <1>2. IsFiniteSet(T)
    BY <1>1, FS_Subset
  <1> QED
    BY <1>2, FS_CardinalityType

\* Consumed counts the arguments that consume an axis.
LEMMA ConsumedIsCount ==
  ASSUME NEW S, NEW args \in Seq(S)
  PROVE  /\ ConsumingAt(args) \in SUBSET (1 .. Len(args))
         /\ IsFiniteSet(ConsumingAt(args))
         /\ Consumed(args) = Cardinality(ConsumingAt(args))
         /\ Consumed(args) \in Nat
  <1>1. ConsumingAt(args) \in SUBSET (1 .. Len(args)) /\ Len(args) \in Int
    BY DEF ConsumingAt
  <1>2. Consumed(args) = Cardinality(ConsumingAt(args))
    BY DEF Consumed, ConsumingAt
  <1> QED
    BY <1>1, <1>2, FirstFinite

\* The axes consumed add up when arguments follow each other.
LEMMA ConsumedConcat ==
  ASSUME NEW S, NEW s \in Seq(S), NEW t \in Seq(S)
  PROVE  Consumed(s \o t) = Consumed(s) + Consumed(t)
  <1> DEFINE moved == {Len(s) + k : k \in ConsumingAt(t)}
             shift == [k \in ConsumingAt(t) |-> Len(s) + k]
  <1>1. s \o t \in Seq(S) /\ Len(s \o t) = Len(s) + Len(t)
    BY ConcatProperties
  <1>2. ConsumingAt(s) \subseteq 1 .. Len(s) /\ ConsumingAt(t) \subseteq 1 .. Len(t)
    BY ConsumedIsCount
  <1>3. \A k \in 1 .. Len(s) : (s \o t)[k] = s[k]
    OBVIOUS
  <1>4. \A k \in 1 .. Len(t) : (s \o t)[Len(s) + k] = t[k]
    OBVIOUS
  <1>5. ConsumingAt(s \o t) = ConsumingAt(s) \cup moved
    <2>1. ASSUME NEW k \in ConsumingAt(s \o t) PROVE k \in ConsumingAt(s) \cup moved
      <3>1. k \in 1 .. Len(s) + Len(t) /\ Consuming((s \o t)[k])
        BY <1>1 DEF ConsumingAt
      <3>2. CASE k <= Len(s)
        <4>1. k \in 1 .. Len(s)
          BY <3>1, <3>2
        <4> QED
          BY <1>3, <3>1, <4>1 DEF ConsumingAt
      <3>3. CASE k > Len(s)
        <4>1. PICK j \in 1 .. Len(t) : k = Len(s) + j
          <5>1. k - Len(s) \in 1 .. Len(t) /\ k = Len(s) + (k - Len(s))
            BY <3>1, <3>3
          <5> QED
            BY <5>1
        <4>2. j \in ConsumingAt(t)
          BY <1>4, <3>1, <4>1 DEF ConsumingAt
        <4> QED
          BY <4>1, <4>2
      <3> QED
        BY <3>1, <3>2, <3>3
    <2>2. ASSUME NEW k \in ConsumingAt(s) PROVE k \in ConsumingAt(s \o t)
      BY <1>1, <1>2, <1>3 DEF ConsumingAt
    <2>3. ASSUME NEW k \in ConsumingAt(t) PROVE Len(s) + k \in ConsumingAt(s \o t)
      BY <1>1, <1>2, <1>4 DEF ConsumingAt
    <2> QED
      BY <2>1, <2>2, <2>3
  <1>6. ConsumingAt(s) \cap moved = {}
    BY <1>2
  <1>7. IsFiniteSet(moved) /\ Cardinality(moved) = Consumed(t)
    <2>1. \A k \in ConsumingAt(t) : k \in Int
      BY <1>2
    <2>2. shift \in Bijection(ConsumingAt(t), moved)
      BY <2>1 DEF Bijection, Injection, Surjection, IsInjective
    <2>3. ExistsBijection(ConsumingAt(t), moved)
      BY <2>2 DEF ExistsBijection
    <2> QED
      BY <2>3, ConsumedIsCount, FS_Bijection
  <1>8. IsFiniteSet(ConsumingAt(s)) /\ Cardinality(ConsumingAt(s)) = Consumed(s)
    BY ConsumedIsCount
  <1>9. Cardinality(ConsumingAt(s) \cup moved) = Consumed(s) + Consumed(t) - Cardinality({})
    BY <1>6, <1>7, <1>8, FS_Union
  <1>10. Consumed(s) \in Nat /\ Consumed(t) \in Nat
    BY ConsumedIsCount
  <1>11. Consumed(s \o t) = Cardinality(ConsumingAt(s \o t))
    BY <1>1, ConsumedIsCount
  <1> QED
    BY <1>5, <1>9, <1>10, <1>11, FS_EmptySet

\* What one argument consumes.
LEMMA ConsumedOne ==
  ASSUME NEW arg
  PROVE  Consumed(<<arg>>) = IF Consuming(arg) THEN 1 ELSE 0
  <1>1. DOMAIN <<arg>> = {1} /\ <<arg>>[1] = arg
    OBVIOUS
  <1>2. ConsumingAt(<<arg>>) = IF Consuming(arg) THEN {1} ELSE {}
    BY <1>1 DEF ConsumingAt
  <1>3. Consumed(<<arg>>) = Cardinality(ConsumingAt(<<arg>>))
    BY DEF Consumed, ConsumingAt
  <1> QED
    BY <1>2, <1>3, FS_Singleton, FS_EmptySet

\* Full slices consume an axis each.
LEMMA ConsumedFull ==
  ASSUME NEW n \in Nat
  PROVE  Consumed([j \in 1 .. n |-> Full]) = n
  <1> DEFINE full == [j \in 1 .. n |-> Full]
  <1>1. ConsumingAt(full) = 1 .. n
    BY DEF ConsumingAt, Consuming, Full, Slice
  <1>2. Consumed(full) = Cardinality(ConsumingAt(full))
    BY DEF Consumed, ConsumingAt
  <1>3. Cardinality(1 .. n) = n
    BY FS_Interval
  <1> QED
    BY <1>1, <1>2, <1>3

\* Every argument that consumes an axis has one.
LEMMA AxisIsOnView ==
  ASSUME NEW S, NEW args \in Seq(S), NEW rank \in Nat, Consumed(args) <= rank,
         NEW k \in DOMAIN args, Consuming(args[k])
  PROVE  AxisOf(args, k, rank) \in 1 .. rank
  <1> DEFINE before == {j \in 1 .. k - 1 : Consuming(args[j])}
  <1>1. k - 1 \in Int /\ before \in SUBSET (1 .. k - 1)
    OBVIOUS
  <1>2. IsFiniteSet(before) /\ Cardinality(before) \in Nat
    BY <1>1, FirstFinite
  <1>3. before \cup {k} \subseteq ConsumingAt(args) /\ k \notin before
    BY DEF ConsumingAt
  <1>4. Cardinality(before \cup {k}) = Cardinality(before) + 1
    BY <1>2, <1>3, FS_AddElement
  <1>5. IsFiniteSet(ConsumingAt(args)) /\ Consumed(args) = Cardinality(ConsumingAt(args))
    BY ConsumedIsCount
  <1>6. Cardinality(before) + 1 <= Consumed(args)
    BY <1>3, <1>4, <1>5, FS_Subset
  <1>7. Consumed(args) \in Nat
    BY ConsumedIsCount
  <1> HIDE DEF before
  <1>8. AxisOf(args, k, rank)
          = 1 + Cardinality(before)
              + IF \E j \in Ellipses(args) : j < k THEN rank - Consumed(args) ELSE 0
    BY DEF AxisOf, Skipped, before
  <1> QED
    BY <1>2, <1>6, <1>7, <1>8

\* The arguments of an index that is normalized.
NormalArguments ==
  [kind : {"newaxis"}] \cup [kind : {"int"}, at : Int]
    \cup [kind : {"slice"}, start : Part, stop : Part, step : Step]

\* A sequence of one element.
LEMMA OneIsSeq ==
  ASSUME NEW S, NEW x \in S
  PROVE  <<x>> \in Seq(S)
  OBVIOUS

\* An index on an axis is what remains of it after one turn.
LEMMA OneTurn ==
  ASSUME NEW dim \in Nat, NEW i \in 0 .. dim - 1
  PROVE  (dim + i) % dim = i
  <1>1. PICK q \in Int, r \in Int : q = (dim + i) \div dim /\ r = (dim + i) % dim
    OBVIOUS
  <1>2. dim + i = dim * q + r /\ 0 <= r /\ r < dim
    BY <1>1
  <1>3. q > 0
    <2>1. q <= 0 => dim * q <= 0
      OBVIOUS
    <2> QED
      BY <1>2, <2>1
  <1>4. q < 2
    <2>1. q >= 2 => dim * q >= dim * 2
      OBVIOUS
    <2> QED
      BY <1>2, <2>1
  <1> QED
    BY <1>1, <1>2, <1>3, <1>4

\* Both halves count an index in range from the same end (_normalize_index).
LEMMA NormalIndicesAgree ==
  ASSUME NEW i \in Int, NEW dim \in Int, -dim <= i, i < dim
  PROVE  NormalIndex("formula", i, dim) = NormalIndex("concrete", i, dim)
  <1>1. CASE i < 0
    <2>1. 0 <= dim + i /\ dim + i < dim
      BY <1>1
    <2>2. (dim + i) % dim = dim + i
      BY <2>1
    <2> QED
      BY <1>1, <2>2 DEF NormalIndex
  <1>2. CASE i >= 0
    <2>1. dim \in Nat /\ i \in 0 .. dim - 1
      BY <1>2
    <2>2. (dim + i) % dim = i
      BY <2>1, OneTurn
    <2> QED
      BY <1>2, <2>2 DEF NormalIndex
  <1> QED
    BY <1>1, <1>2

\* A normalized index is an integer.
LEMMA NormalIndexIsInt ==
  ASSUME NEW i \in Int, NEW dim \in Int
  PROVE  NormalIndex("formula", i, dim) \in Int
  BY DEF NormalIndex

\* What one argument is replaced by.
Expansion(half, shape, args, k) ==
  CASE args[k].kind = "ellipsis" -> [j \in 1 .. Skipped(args, Len(shape)) |-> Full]
    [] args[k].kind = "int" ->
         <<Int1(NormalIndex(half, args[k].at, shape[AxisOf(args, k, Len(shape))]))>>
    [] OTHER -> <<args[k]>>

Expansions(half, shape, args) == [k \in DOMAIN args |-> Expansion(half, shape, args, k)]
AllExpanded(half, shape, args) == FlattenSeq(Expansions(half, shape, args))

\* Normalize, with its local operators named.
LEMMA NormalizeIsExpanded ==
  ASSUME NEW half, NEW shape, NEW args
  PROVE  Normalize(half, shape, args)
           = AllExpanded(half, shape, args)
               \o [j \in 1 .. Skipped(AllExpanded(half, shape, args), Len(shape)) |-> Full]
  BY Zenon DEF Normalize, AllExpanded, Expansions, Expansion

\* A full slice is a normalized argument.
LEMMA FullIsNormal == Full \in NormalArguments
  BY DEF Full, Slice, NormalArguments, Part, Step

\* Full slices are normalized arguments.
LEMMA FullsAreNormal ==
  ASSUME NEW n \in Nat
  PROVE  [j \in 1 .. n |-> Full] \in Seq(NormalArguments)
  BY FullIsNormal

\* How many axes the replacement of argument k consumes.
Extent(shape, args, k) ==
  IF args[k].kind = "ellipsis" THEN Skipped(args, Len(shape))
  ELSE IF Consuming(args[k]) THEN 1 ELSE 0

\* Both halves replace an argument by the same normalized ones.
LEMMA ExpansionIsNormal ==
  ASSUME NEW shape \in Seq(Nat), NEW args \in Seq(Arguments), ValidIndex(shape, args),
         NEW k \in DOMAIN args
  PROVE  /\ Expansion("formula", shape, args, k) = Expansion("concrete", shape, args, k)
         /\ Expansion("formula", shape, args, k) \in Seq(NormalArguments)
         /\ Consumed(Expansion("formula", shape, args, k)) = Extent(shape, args, k)
  <1>0. args[k] \in Arguments /\ Len(shape) \in Nat
    OBVIOUS
  <1>1. Consumed(args) \in Nat /\ Consumed(args) <= Len(shape)
    BY ConsumedIsCount DEF ValidIndex
  <1>2. CASE args[k].kind = "ellipsis"
    <2>1. Skipped(args, Len(shape)) \in Nat
      BY <1>0, <1>1 DEF Skipped
    <2>2. ASSUME NEW half PROVE Expansion(half, shape, args, k) = [j \in 1 .. Skipped(args, Len(shape)) |-> Full]
      BY <1>2 DEF Expansion
    <2> QED
      BY <1>2, <2>1, <2>2, FullsAreNormal, ConsumedFull DEF Extent
  <1>3. CASE args[k].kind = "int"
    <2> DEFINE place == AxisOf(args, k, Len(shape))
               dim == shape[place]
    <2>1. args[k].at \in Int /\ Consuming(args[k])
      BY <1>0, <1>3 DEF Arguments, Consuming
    <2>2. place \in 1 .. Len(shape)
      BY <1>0, <1>1, <2>1, AxisIsOnView
    <2>3. dim \in Int
      BY <2>2
    <2>4. -dim <= args[k].at /\ args[k].at < dim
      BY <1>3 DEF ValidIndex
    <2> HIDE DEF dim
    <2>5. NormalIndex("formula", args[k].at, dim) = NormalIndex("concrete", args[k].at, dim)
      BY <2>1, <2>3, <2>4, NormalIndicesAgree
    <2>6. NormalIndex("formula", args[k].at, dim) \in Int
      BY <2>1, <2>3, NormalIndexIsInt
    <2>7. ASSUME NEW half PROVE Expansion(half, shape, args, k) = <<Int1(NormalIndex(half, args[k].at, dim))>>
      BY <1>3 DEF Expansion, dim
    <2>8. ASSUME NEW i \in Int PROVE Int1(i) \in NormalArguments /\ Consuming(Int1(i))
      BY DEF Int1, NormalArguments, Consuming
    <2>9. Expansion("formula", shape, args, k) \in Seq(NormalArguments)
      <3>1. Int1(NormalIndex("formula", args[k].at, dim)) \in NormalArguments
        BY <2>6, <2>8
      <3> QED
        BY <2>7, <3>1, OneIsSeq
    <2>10. Consumed(Expansion("formula", shape, args, k)) = 1
      BY <2>6, <2>7, <2>8, ConsumedOne
    <2> QED
      BY <1>3, <2>1, <2>5, <2>7, <2>9, <2>10 DEF Extent
  <1>4. CASE args[k].kind \notin {"ellipsis", "int"}
    <2>1. ASSUME NEW half PROVE Expansion(half, shape, args, k) = <<args[k]>>
      BY <1>4 DEF Expansion
    <2>2. args[k] \in NormalArguments
      <3>1. args[k].kind \in {"newaxis", "slice"}
        BY <1>0, <1>4 DEF Arguments
      <3>2. args[k].kind = "slice" => args[k].step # 0
        BY DEF ValidIndex
      <3> QED
        BY <1>0, <3>1, <3>2 DEF Arguments, NormalArguments, Part, Step
    <2>3. <<args[k]>> \in Seq(NormalArguments)
      BY <2>2, OneIsSeq
    <2>4. Consumed(<<args[k]>>) = Extent(shape, args, k)
      BY <1>4, ConsumedOne DEF Extent
    <2> QED
      BY <2>1, <2>3, <2>4
  <1> QED
    BY <1>2, <1>3, <1>4

\* How many of the first k arguments consume an axis.
CountTo(args, k) == Cardinality({j \in 1 .. k : Consuming(args[j])})

\* The count of consuming arguments, one argument further.
LEMMA CountStep ==
  ASSUME NEW args, NEW k \in Nat
  PROVE  /\ CountTo(args, 0) = 0
         /\ CountTo(args, k) \in Nat
         /\ CountTo(args, k + 1) = CountTo(args, k) + IF Consuming(args[k + 1]) THEN 1 ELSE 0
  <1> DEFINE at(m) == {j \in 1 .. m : Consuming(args[j])}
  <1>1. at(0) = {}
    OBVIOUS
  <1>2. IsFiniteSet(at(k)) /\ Cardinality(at(k)) \in Nat
    <2>1. at(k) \in SUBSET (1 .. k) /\ k \in Int
      OBVIOUS
    <2> QED
      BY <2>1, FirstFinite
  <1>3. at(k + 1) = IF Consuming(args[k + 1]) THEN at(k) \cup {k + 1} ELSE at(k)
    OBVIOUS
  <1>4. k + 1 \notin at(k)
    OBVIOUS
  <1>5. \A m : CountTo(args, m) = Cardinality(at(m))
    BY DEF CountTo
  <1>6. Cardinality(at(k) \cup {k + 1}) = Cardinality(at(k)) + 1
    BY <1>2, <1>4, FS_AddElement
  <1> HIDE DEF at
  <1>7. CountTo(args, 0) = 0
    BY <1>1, <1>5, FS_EmptySet
  <1>8. CountTo(args, k) \in Nat
    BY <1>2, <1>5
  <1>9. CountTo(args, k + 1) = CountTo(args, k) + IF Consuming(args[k + 1]) THEN 1 ELSE 0
    BY <1>2, <1>3, <1>5, <1>6
  <1> QED
    BY <1>7, <1>8, <1>9

SkippedTo(shape, args, k) ==
  IF \E j \in 1 .. k : args[j].kind = "ellipsis" THEN Skipped(args, Len(shape)) ELSE 0

\* The arguments, with the first k of them expanded, and the axes those consume.
IsExpansion(shape, args, g) ==
  /\ g \in [0 .. Len(args) -> Seq(NormalArguments)]
  /\ g[0] = <<>>
  /\ \A k \in 1 .. Len(args) : g[k] = g[k - 1] \o Expansion("formula", shape, args, k)
  /\ AllExpanded("formula", shape, args) = g[Len(args)]
  /\ \A k \in 0 .. Len(args) : Consumed(g[k]) = CountTo(args, k) + SkippedTo(shape, args, k)

\* Expanding one argument after the other.
LEMMA ExpandedInTurn ==
  ASSUME NEW shape \in Seq(Nat), NEW args \in Seq(Arguments), ValidIndex(shape, args)
  PROVE  \E g : IsExpansion(shape, args, g)
  <1> DEFINE n == Len(args)
             s == Expansions("formula", shape, args)
  <1>0. n \in Nat /\ DOMAIN args = 1 .. n
    OBVIOUS
  <1>2. s \in Seq(Seq(NormalArguments)) /\ Len(s) = n
    BY <1>0, ExpansionIsNormal DEF Expansions
  <1>3. \A k \in 1 .. n : Consumed(s[k]) = Extent(shape, args, k)
    BY <1>0, ExpansionIsNormal DEF Expansions
  <1>11. \A k \in 1 .. n : s[k] = Expansion("formula", shape, args, k)
    BY <1>0 DEF Expansions
  <1>12. AllExpanded("formula", shape, args) = FlattenSeq(s)
    BY DEF AllExpanded
  <1> HIDE DEF s
  <1>4. PICK g \in [0 .. n -> Seq(NormalArguments)] :
               /\ g[0] = <<>>
               /\ \A k \in 1 .. n : g[k] = g[k - 1] \o s[k]
               /\ FlattenSeq(s) = g[n]
    <2>1. HasPrefixes(s, NormalArguments)
      BY <1>2, FlattenByPrefix
    <2> QED
      BY <1>2, <2>1 DEF HasPrefixes
  <1>5. Skipped(args, Len(shape)) \in Nat /\ Consumed(args) \in Nat
    BY ConsumedIsCount DEF ValidIndex, Skipped
  <1> DEFINE Right(k) == Consumed(g[k]) = CountTo(args, k) + SkippedTo(shape, args, k)
             Rights == {k \in Nat : k <= n => Right(k)}
  <1>6. 0 \in Rights
    <2>1. Consumed(<<>>) = 0
      BY FS_EmptySet DEF Consumed
    <2>2. CountTo(args, 0) = 0
      BY CountStep
    <2>3. SkippedTo(shape, args, 0) = 0
      BY DEF SkippedTo
    <2> QED
      BY <1>4, <2>1, <2>2, <2>3
  <1>7. ASSUME NEW k \in Nat, k \in Rights PROVE k + 1 \in Rights
    <2> SUFFICES ASSUME k + 1 <= n PROVE Right(k + 1)
      BY k + 1 \in Nat
    <2>1. PICK i \in 1 .. n : i = k + 1
      BY <1>0
    <2>2. i - 1 = k /\ k \in 0 .. n /\ Right(k)
      BY <1>0, <1>7, <2>1
    <2>3. g[i] = g[k] \o s[i] /\ g[k] \in Seq(NormalArguments)
      BY <1>4, <2>2
    <2>4. s[i] \in Seq(NormalArguments)
      BY <1>2, ElementOfSeq
    <2>5. Consumed(g[i]) = Consumed(g[k]) + Extent(shape, args, i)
      BY <1>3, <2>3, <2>4, ConsumedConcat
    <2>6. CountTo(args, i) = CountTo(args, k) + IF Consuming(args[i]) THEN 1 ELSE 0
      BY <2>1, CountStep
    <2>7. CountTo(args, k) \in Nat
      BY CountStep
    <2>8. 1 .. i = (1 .. k) \cup {i}
      BY <2>1
    <2>9. CASE args[i].kind = "ellipsis"
      <3>1. \A j \in 1 .. k : args[j].kind # "ellipsis"
        <4> SUFFICES ASSUME NEW j \in 1 .. k, args[j].kind = "ellipsis" PROVE FALSE
          OBVIOUS
        <4>1. j \in Ellipses(args) /\ i \in Ellipses(args) /\ j # i
          BY <1>0, <2>1, <2>9 DEF Ellipses
        <4> QED
          BY <4>1 DEF ValidIndex
      <3>2. SkippedTo(shape, args, k) = 0 /\ SkippedTo(shape, args, i) = Skipped(args, Len(shape))
        BY <2>8, <2>9, <3>1 DEF SkippedTo
      <3>3. ~Consuming(args[i]) /\ Extent(shape, args, i) = Skipped(args, Len(shape))
        BY <2>9 DEF Consuming, Extent
      <3> QED
        BY <1>5, <2>1, <2>2, <2>5, <2>6, <2>7, <3>2, <3>3
    <2>10. CASE args[i].kind # "ellipsis"
      <3>1. SkippedTo(shape, args, i) = SkippedTo(shape, args, k)
        BY <2>8, <2>10 DEF SkippedTo
      <3>2. Extent(shape, args, i) = IF Consuming(args[i]) THEN 1 ELSE 0
        BY <2>10 DEF Extent
      <3>3. SkippedTo(shape, args, k) \in Nat
        BY <1>5 DEF SkippedTo
      <3> QED
        BY <2>1, <2>2, <2>5, <2>6, <2>7, <3>1, <3>2, <3>3
    <2> QED
      BY <2>9, <2>10
  <1> HIDE DEF Right
  <1>8. \A k \in Nat : k \in Rights
    BY <1>6, <1>7, ByInduction
  <1>9. \A k \in 0 .. n : Consumed(g[k]) = CountTo(args, k) + SkippedTo(shape, args, k)
    BY <1>8 DEF Right
  <1>10. IsExpansion(shape, args, g)
    BY <1>4, <1>9, <1>11, <1>12 DEF IsExpansion
  <1> QED
    BY <1>10

\* With the ellipsis expanded, the arguments consume what they did or every axis.
LEMMA ExpandedConsumes ==
  ASSUME NEW shape \in Seq(Nat), NEW args \in Seq(Arguments), ValidIndex(shape, args)
  PROVE  /\ AllExpanded("formula", shape, args) = AllExpanded("concrete", shape, args)
         /\ AllExpanded("formula", shape, args) \in Seq(NormalArguments)
         /\ Consumed(AllExpanded("formula", shape, args)) \in {Consumed(args), Len(shape)}
  <1>1. PICK n \in Nat : n = Len(args) /\ DOMAIN args = 1 .. n
    OBVIOUS
  <1>2. PICK g : IsExpansion(shape, args, g)
    BY ExpandedInTurn
  <1>3. n \in 0 .. n
    BY <1>1
  <1>4. /\ g[n] \in Seq(NormalArguments)
        /\ AllExpanded("formula", shape, args) = g[n]
        /\ Consumed(g[n]) = CountTo(args, n) + SkippedTo(shape, args, n)
    BY <1>1, <1>2, <1>3 DEF IsExpansion
  <1>5. Skipped(args, Len(shape)) \in Nat /\ Consumed(args) \in Nat
    BY ConsumedIsCount DEF ValidIndex, Skipped
  <1>6. CountTo(args, n) = Consumed(args)
    BY <1>1 DEF CountTo, Consumed
  <1>7. Consumed(g[n]) \in {Consumed(args), Len(shape)}
    BY <1>4, <1>5, <1>6 DEF SkippedTo, Skipped
  <1>8. Expansions("formula", shape, args) = Expansions("concrete", shape, args)
    BY ExpansionIsNormal DEF Expansions
  <1>9. AllExpanded("formula", shape, args) = AllExpanded("concrete", shape, args)
    BY <1>8 DEF AllExpanded
  <1> QED
    BY <1>4, <1>7, <1>9

\* Both halves normalize a valid index to the same arguments, which consume every axis.
LEMMA NormalizedArguments ==
  ASSUME NEW shape \in Seq(Nat), NEW args \in Seq(Arguments), ValidIndex(shape, args)
  PROVE  /\ Normalize("formula", shape, args) = Normalize("concrete", shape, args)
         /\ Normalize("formula", shape, args) \in Seq(NormalArguments)
         /\ Consumed(Normalize("formula", shape, args)) = Len(shape)
  <1> DEFINE e == AllExpanded("formula", shape, args)
             rest == [j \in 1 .. Skipped(e, Len(shape)) |-> Full]
  <1>1. e = AllExpanded("concrete", shape, args) /\ e \in Seq(NormalArguments)
        /\ Consumed(e) \in {Consumed(args), Len(shape)}
    BY ExpandedConsumes
  <1>2. Normalize("formula", shape, args) = e \o rest /\ Normalize("concrete", shape, args) = e \o rest
    BY <1>1, NormalizeIsExpanded
  <1>3. Consumed(args) \in Nat /\ Consumed(args) <= Len(shape) /\ Len(shape) \in Nat
    BY ConsumedIsCount DEF ValidIndex
  <1>4. Skipped(e, Len(shape)) \in Nat /\ Skipped(e, Len(shape)) + Consumed(e) = Len(shape)
    BY <1>1, <1>3 DEF Skipped
  <1>5. rest \in Seq(NormalArguments) /\ Consumed(rest) = Skipped(e, Len(shape))
    BY <1>4, FullsAreNormal, ConsumedFull
  <1> HIDE DEF e, rest
  <1>6. e \o rest \in Seq(NormalArguments) /\ Consumed(e \o rest) = Consumed(e) + Consumed(rest)
    BY <1>1, <1>5, ConcatProperties, ConsumedConcat
  <1>7. Consumed(e) \in Nat
    BY <1>1, <1>3
  <1>8. Consumed(e \o rest) = Len(shape)
    BY <1>4, <1>5, <1>6, <1>7
  <1> QED
    BY <1>2, <1>6, <1>8, Zenon

\* A sum of integers is an integer.
LEMMA SumType ==
  ASSUME NEW n \in Nat, NEW s \in [1 .. n -> Int]
  PROVE  SumSeq(s) \in Int
  <1>1. PICK f : f[0] = 0 /\ (\A k \in 1 .. n : f[k] = f[k - 1] + s[k]) /\ SumSeq(s) = f[n]
    BY SumByPrefix
  <1> DEFINE Typed == {k \in Nat : k <= n => f[k] \in Int}
  <1>2. 0 \in Typed
    BY <1>1
  <1>3. ASSUME NEW k \in Nat, k \in Typed PROVE k + 1 \in Typed
    <2> SUFFICES ASSUME k + 1 <= n PROVE f[k + 1] \in Int
      OBVIOUS
    <2>1. k + 1 \in 1 .. n /\ (k + 1) - 1 = k /\ f[k] \in Int
      BY <1>3
    <2>2. f[k + 1] = f[(k + 1) - 1] + s[k + 1] /\ s[k + 1] \in Int
      BY <1>1, <2>1
    <2> QED
      BY <2>1, <2>2
  <1>4. \A k \in Nat : k \in Typed
    BY <1>2, <1>3, ByInduction
  <1> QED
    BY <1>1, <1>4

\* The length of a range is a natural number.
LEMMA CountIsNatural ==
  ASSUME NEW start \in Int, NEW stop \in Int, NEW step \in Int \ {0}
  PROVE  PyCount(start, stop, step) \in Nat
  <1>1. CASE step < 0 /\ stop < start
    <2>1. start - stop - 1 \in Nat /\ -step \in Nat \ {0}
      BY <1>1
    <2>2. (start - stop - 1) \div (-step) \in Nat
      BY <2>1
    <2> QED
      BY <1>1, <2>2 DEF PyCount
  <1>2. CASE step > 0 /\ start < stop
    <2>1. stop - start - 1 \in Nat /\ step \in Nat \ {0}
      BY <1>2
    <2>2. (stop - start - 1) \div step \in Nat
      BY <2>1
    <2> QED
      BY <1>2, <2>2 DEF PyCount
  <1>3. CASE (step < 0 /\ stop >= start) \/ (step > 0 /\ stop <= start)
    BY <1>3 DEF PyCount
  <1> QED
    BY <1>1, <1>2, <1>3

\* What a slice contributes to a layout is a dimension and two integers.
LEMMA SliceType ==
  ASSUME NEW dim \in Nat, NEW stride \in Int,
         NEW start \in Part, NEW stop \in Part, NEW step \in Step
  PROVE  ConcreteSlice(dim, stride, start, stop, step) \in [dim : Nat, delta : Int, stride : Int]
  <1>1. PICK first \in Int : first = PyStart(dim, start, step)
    BY StartIsOnAxis
  <1>2. PICK last \in Int : last = PyStop(dim, stop, step)
    BY StopIsOnAxis
  <1>3. PICK by \in Int \ {0} : by = StepOf(step)
    BY StepIsNonzero
  <1>4. PICK count \in Nat : count = PyCount(first, last, by)
    BY CountIsNatural
  <1>5. ConcreteSlice(dim, stride, start, stop, step) = Contribution(count, first, by, stride)
    BY <1>1, <1>2, <1>3, <1>4 DEF ConcreteSlice
  <1>6. first * stride \in Int /\ by * stride \in Int
    OBVIOUS
  <1> QED
    BY <1>5, <1>6 DEF Contribution

Layouts ==
  {l \in [shape : Seq(Nat), offset : Int, strides : Seq(Int)] : Len(l.shape) = Len(l.strides)}

\* What one argument contributes to the layout of the view.
PartOf(half, layout, args, k) ==
  LET a == AxisOf(args, k, Rank(layout))
      s == SliceOf(half, layout.shape[a], layout.strides[a], args[k])
  IN  CASE args[k].kind = "newaxis" -> [shape |-> <<1>>, strides |-> <<0>>, delta |-> 0]
        [] args[k].kind = "slice" ->
             [shape |-> <<s.dim>>, strides |-> <<s.stride>>, delta |-> s.delta]
        [] args[k].kind = "int" ->
             [shape |-> <<>>, strides |-> <<>>, delta |-> args[k].at * layout.strides[a]]

PartsOf(half, layout, args) == [k \in DOMAIN args |-> PartOf(half, layout, args, k)]

\* Resolve, with its local operators named.
LEMMA ResolveIsParts ==
  ASSUME NEW half, NEW layout, NEW args
  PROVE  Resolve(half, layout, args)
           = LET parts == PartsOf(half, layout, args)
             IN  [shape |-> FlattenSeq([k \in DOMAIN args |-> parts[k].shape]),
                  offset |-> layout.offset + SumSeq([k \in DOMAIN args |-> parts[k].delta]),
                  strides |-> FlattenSeq([k \in DOMAIN args |-> parts[k].strides])]
  BY Zenon DEF Resolve, PartsOf, PartOf

Parts == [shape : Seq(Nat), strides : Seq(Int), delta : Int]

\* A contribution is made of as many dimensions as strides.
LEMMA PartIsPart ==
  ASSUME NEW shape \in Seq(Nat), NEW strides \in Seq(Int), NEW delta \in Int, Len(shape) = Len(strides)
  PROVE  \E part \in Parts : /\ part = [shape |-> shape, strides |-> strides, delta |-> delta]
                             /\ Len(part.shape) = Len(part.strides)
  <1> DEFINE part == [shape |-> shape, strides |-> strides, delta |-> delta]
  <1>1. part \in Parts
    BY DEF Parts
  <1>2. part.shape = shape /\ part.strides = strides
    OBVIOUS
  <1> HIDE DEF part
  <1>3. Len(part.shape) = Len(part.strides)
    BY <1>2
  <1> QED
    BY <1>1, <1>3 DEF part

\* Both halves compute the same contribution of an argument.
LEMMA PartType ==
  ASSUME NEW layout \in Layouts, NEW args \in Seq(NormalArguments), Consumed(args) <= Rank(layout),
         NEW k \in DOMAIN args
  PROVE  /\ PartOf("formula", layout, args, k) = PartOf("concrete", layout, args, k)
         /\ PartOf("formula", layout, args, k) \in Parts
         /\ Len(PartOf("formula", layout, args, k).shape) = Len(PartOf("formula", layout, args, k).strides)
  <1> DEFINE a == AxisOf(args, k, Rank(layout))
  <1>0. /\ args[k] \in NormalArguments
        /\ layout.shape \in Seq(Nat) /\ layout.strides \in Seq(Int)
        /\ Len(layout.shape) = Len(layout.strides) /\ Rank(layout) \in Nat
        /\ Rank(layout) = Len(layout.shape)
    BY DEF Layouts, Rank
  <1>1. Consuming(args[k]) => a \in 1 .. Rank(layout)
    BY <1>0, AxisIsOnView
  <1>2. Consuming(args[k]) => layout.shape[a] \in Nat /\ layout.strides[a] \in Int
    BY <1>0, <1>1
  <1> HIDE DEF a
  <1>3. CASE args[k].kind = "newaxis"
    <2>1. ASSUME NEW half
          PROVE  PartOf(half, layout, args, k) = [shape |-> <<1>>, strides |-> <<0>>, delta |-> 0]
      BY <1>3 DEF PartOf
    <2>2. <<1>> \in Seq(Nat) /\ <<0>> \in Seq(Int) /\ Len(<<1>>) = Len(<<0>>)
      OBVIOUS
    <2>3. PICK part \in Parts : /\ part = [shape |-> <<1>>, strides |-> <<0>>, delta |-> 0]
                                /\ Len(part.shape) = Len(part.strides)
      <3>1. 0 \in Int
        OBVIOUS
      <3> QED
        BY <2>2, <3>1, Zenon, PartIsPart
    <2>4. \A half : PartOf(half, layout, args, k) = part
      BY <2>1, <2>3
    <2> QED
      BY <2>3, <2>4, Zenon
  <1>4. CASE args[k].kind = "slice"
    <2>1. /\ args[k].start \in Part /\ args[k].stop \in Part /\ args[k].step \in Step
          /\ Consuming(args[k])
      BY <1>0, <1>4 DEF NormalArguments, Consuming
    <2>2. PICK s \in [dim : Nat, delta : Int, stride : Int] :
                 s = ConcreteSlice(layout.shape[a], layout.strides[a],
                                   args[k].start, args[k].stop, args[k].step)
      BY <1>2, <2>1, SliceType
    <2>3. SliceOf("concrete", layout.shape[a], layout.strides[a], args[k]) = s
      BY <2>2 DEF SliceOf
    <2>4. SliceOf("formula", layout.shape[a], layout.strides[a], args[k]) = s
      BY <1>2, <2>1, <2>2, SlicesAgree DEF SliceOf
    <2>5. ASSUME NEW half \in Halves
          PROVE  PartOf(half, layout, args, k)
                   = [shape |-> <<s.dim>>, strides |-> <<s.stride>>, delta |-> s.delta]
      <3>1. SliceOf(half, layout.shape[a], layout.strides[a], args[k]) = s
        BY <2>3, <2>4 DEF Halves
      <3> QED
        BY <1>4, <3>1 DEF PartOf, a
    <2>6. <<s.dim>> \in Seq(Nat) /\ <<s.stride>> \in Seq(Int) /\ Len(<<s.dim>>) = Len(<<s.stride>>)
      OBVIOUS
    <2>7. PICK part \in Parts :
                 /\ part = [shape |-> <<s.dim>>, strides |-> <<s.stride>>, delta |-> s.delta]
                 /\ Len(part.shape) = Len(part.strides)
      BY <2>6, PartIsPart
    <2>8. PartOf("formula", layout, args, k) = part /\ PartOf("concrete", layout, args, k) = part
      BY <2>5, <2>7 DEF Halves
    <2> QED
      BY <2>7, <2>8, Zenon
  <1>5. CASE args[k].kind = "int"
    <2>1. args[k].at \in Int /\ Consuming(args[k])
      BY <1>0, <1>5 DEF NormalArguments, Consuming
    <2>2. PICK d \in Int : d = args[k].at * layout.strides[a]
      BY <1>2, <2>1
    <2>3. ASSUME NEW half
          PROVE  PartOf(half, layout, args, k) = [shape |-> <<>>, strides |-> <<>>, delta |-> d]
      BY <1>5, <2>2 DEF PartOf, a
    <2>4. PICK part \in Parts : /\ part = [shape |-> <<>>, strides |-> <<>>, delta |-> d]
                                /\ Len(part.shape) = Len(part.strides)
      <3>1. <<>> \in Seq(Nat) /\ <<>> \in Seq(Int) /\ Len(<<>>) = Len(<<>>)
        OBVIOUS
      <3> QED
        BY <3>1, PartIsPart
    <2>5. \A half : PartOf(half, layout, args, k) = part
      BY <2>3, <2>4
    <2> QED
      BY <2>4, <2>5, Zenon
  <1>6. args[k].kind \in {"newaxis", "slice", "int"}
    BY <1>0 DEF NormalArguments
  <1> QED
    BY <1>3, <1>4, <1>5, <1>6

\* Both halves resolve normalized arguments to the same layout.
LEMMA ResolveAgrees ==
  ASSUME NEW layout \in Layouts, NEW args \in Seq(NormalArguments), Consumed(args) <= Rank(layout)
  PROVE  /\ Resolve("formula", layout, args) = Resolve("concrete", layout, args)
         /\ Resolve("formula", layout, args) \in Layouts
  <1> DEFINE n == Len(args)
             p == PartsOf("formula", layout, args)
             shapes == [k \in DOMAIN args |-> p[k].shape]
             strides == [k \in DOMAIN args |-> p[k].strides]
             deltas == [k \in DOMAIN args |-> p[k].delta]
  <1>1. p = PartsOf("concrete", layout, args)
    BY PartType DEF PartsOf
  <1>2. n \in Nat /\ DOMAIN args = 1 .. n
    OBVIOUS
  <1>3. \A k \in 1 .. n : p[k] \in Parts /\ Len(p[k].shape) = Len(p[k].strides)
    BY <1>2, PartType DEF PartsOf
  <1> HIDE DEF p
  <1>4. shapes \in Seq(Seq(Nat)) /\ strides \in Seq(Seq(Int)) /\ deltas \in [1 .. n -> Int]
        /\ Len(shapes) = Len(strides)
    BY <1>2, <1>3 DEF Parts
  <1>5. \A k \in 1 .. Len(shapes) : Len(shapes[k]) = Len(strides[k])
    BY <1>2, <1>3
  <1>6. Resolve("formula", layout, args)
          = [shape |-> FlattenSeq(shapes), offset |-> layout.offset + SumSeq(deltas),
             strides |-> FlattenSeq(strides)]
    BY ResolveIsParts DEF p
  <1>7. Resolve("concrete", layout, args)
          = [shape |-> FlattenSeq(shapes), offset |-> layout.offset + SumSeq(deltas),
             strides |-> FlattenSeq(strides)]
    BY <1>1, ResolveIsParts
  <1> HIDE DEF shapes, strides, deltas
  <1>8. FlattenSeq(shapes) \in Seq(Nat) /\ FlattenSeq(strides) \in Seq(Int)
    BY <1>4, FlattenType
  <1>9. Len(FlattenSeq(shapes)) = Len(FlattenSeq(strides))
    BY <1>4, <1>5, FlattenLengths
  <1>10. layout.offset \in Int /\ SumSeq(deltas) \in Int
    BY <1>2, <1>4, SumType DEF Layouts
  <1> QED
    BY <1>6, <1>7, <1>8, <1>9, <1>10 DEF Layouts

\* Both halves resolve every valid index to the same layout.
LEMMA IndexAgrees ==
  ASSUME NEW layout \in Layouts, NEW args \in Seq(Arguments), ValidIndex(layout.shape, args)
  PROVE  /\ Index("formula", layout, args) = Index("concrete", layout, args)
         /\ Index("formula", layout, args) \in Layouts
  <1>1. layout.shape \in Seq(Nat) /\ Rank(layout) = Len(layout.shape) /\ Rank(layout) \in Nat
    BY DEF Layouts, Rank
  <1>2. PICK normal \in Seq(NormalArguments) :
               /\ normal = Normalize("formula", layout.shape, args)
               /\ normal = Normalize("concrete", layout.shape, args)
               /\ Consumed(normal) = Len(layout.shape)
    BY <1>1, NormalizedArguments
  <1>3. Consumed(normal) <= Rank(layout)
    BY <1>1, <1>2
  <1> QED
    BY <1>2, <1>3, ResolveAgrees DEF Index

StrideStep(shape, f) == [a \in DOMAIN shape |-> IF a = Len(shape) THEN 1 ELSE f[a + 1] * shape[a + 1]]

\* The default strides are defined, from the last axis to the first.
LEMMA StridesExist ==
  ASSUME NEW shape \in Seq(Nat)
  PROVE  \E f : f = StrideStep(shape, f)
  <1>0. PICK n \in Nat : n = Len(shape) /\ DOMAIN shape = 1 .. n
    OBVIOUS
  <1> DEFINE last(k) == {a \in 1 .. n : a > n - k}
             Right(f, a) == f[a] = IF a = n THEN 1 ELSE f[a + 1] * shape[a + 1]
             Good(k) == \E f : f = [a \in last(k) |-> f[a]] /\ \A a \in last(k) : Right(f, a)
             Goods == {k \in Nat : k <= n => Good(k)}
  <1>1. 0 \in Goods
    <2> DEFINE f == [a \in last(0) |-> 0]
    <2>1. last(0) = {}
      OBVIOUS
    <2>2. f = [a \in last(0) |-> f[a]] /\ \A a \in last(0) : Right(f, a)
      BY <2>1
    <2>3. Good(0)
      BY <2>2
    <2> HIDE DEF Good
    <2> QED
      BY <2>3
  <1>2. ASSUME NEW k \in Nat, k \in Goods PROVE k + 1 \in Goods
    <2> HIDE DEF Good
    <2> SUFFICES ASSUME k + 1 <= n PROVE Good(k + 1)
      BY k + 1 \in Nat
    <2>1. PICK f : f = [a \in last(k) |-> f[a]] /\ \A a \in last(k) : Right(f, a)
      <3>1. Good(k)
        BY <1>2
      <3> QED
        BY <3>1 DEF Good
    <2> DEFINE b == n - k
               g == [a \in last(k + 1) |->
                       IF a = b THEN IF a = n THEN 1 ELSE f[a + 1] * shape[a + 1] ELSE f[a]]
    <2>2. b \in last(k + 1) /\ b \notin last(k)
      BY <1>0
    <2>3. \A a \in last(k + 1) : a # b => a \in last(k)
      BY <1>0
    <2>4. \A a \in last(k + 1) : a # n => a + 1 \in last(k) /\ a + 1 \in last(k + 1) /\ a + 1 # b
      BY <1>0
    <2>5. g[b] = (IF b = n THEN 1 ELSE f[b + 1] * shape[b + 1]) /\ \A a \in last(k) : g[a] = f[a]
      <3>1. \A a \in last(k) : a \in last(k + 1) /\ a # b
        BY <1>0
      <3> QED
        BY <2>2, <3>1
    <2>6. g = [a \in last(k + 1) |-> g[a]]
      OBVIOUS
    <2> HIDE DEF g
    <2>7. ASSUME NEW a \in last(k + 1) PROVE Right(g, a)
      <3>1. CASE a = b
        BY <2>4, <2>5, <3>1
      <3>2. CASE a # b
        <4>1. a \in last(k) /\ g[a] = f[a]
          BY <2>3, <2>5, <3>2
        <4>2. a # n => g[a + 1] = f[a + 1]
          BY <2>4, <2>5
        <4>3. Right(f, a)
          BY <2>1, <4>1
        <4> QED
          BY <4>1, <4>2, <4>3
      <3> QED
        BY <3>1, <3>2
    <2> HIDE DEF Right
    <2> QED
      BY <2>6, <2>7 DEF Good
  <1> HIDE DEF Good
  <1>3. \A k \in Nat : k \in Goods
    BY <1>1, <1>2, ByInduction
  <1>4. last(n) = 1 .. n
    BY <1>0
  <1>5. PICK f : f = [a \in 1 .. n |-> f[a]] /\ \A a \in 1 .. n : Right(f, a)
    <2>1. Good(n)
      BY <1>0, <1>3
    <2> QED
      BY <1>4, <2>1 DEF Good
  <1>6. f = StrideStep(shape, f)
    BY <1>0, <1>5 DEF StrideStep
  <1> QED
    BY <1>6

\* The default strides are integers, one for each axis.
LEMMA StridesAreIntegers ==
  ASSUME NEW shape \in Seq(Nat)
  PROVE  DefaultStrides(shape) \in Seq(Int) /\ Len(DefaultStrides(shape)) = Len(shape)
  <1>0. PICK n \in Nat : n = Len(shape) /\ DOMAIN shape = 1 .. n
    OBVIOUS
  <1> DEFINE F == CHOOSE f : f = StrideStep(shape, f)
  <1>1. F = StrideStep(shape, F)
    BY StridesExist
  <1>2. DefaultStrides(shape) = F
    BY Zenon DEF DefaultStrides, StrideStep
  <1> HIDE DEF F
  <1> DEFINE Typed == {k \in Nat : k < n => F[n - k] \in Int}
  <1>3. \A a \in 1 .. n : F[a] = IF a = n THEN 1 ELSE F[a + 1] * shape[a + 1]
    BY <1>0, <1>1 DEF StrideStep
  <1>4. 0 \in Typed
    <2>1. 0 < n => n \in 1 .. n
      BY <1>0
    <2> QED
      BY <1>0, <1>3, <2>1
  <1>5. ASSUME NEW k \in Nat, k \in Typed PROVE k + 1 \in Typed
    <2> SUFFICES ASSUME k + 1 < n PROVE F[n - (k + 1)] \in Int
      OBVIOUS
    <2>1. PICK a \in 1 .. n : a = n - (k + 1)
      <3>1. n - (k + 1) \in 1 .. n
        OBVIOUS
      <3> QED
        BY <3>1
    <2>2. a # n /\ a + 1 = n - k /\ a + 1 \in 1 .. n
      BY <1>0, <2>1
    <2>3. F[a + 1] \in Int
      BY <1>0, <1>5, <2>2
    <2>4. shape[a + 1] \in Nat
      BY <1>0, <2>2
    <2> QED
      BY <1>3, <2>1, <2>2, <2>3, <2>4
  <1>6. \A k \in Nat : k \in Typed
    BY <1>4, <1>5, ByInduction
  <1>7. ASSUME NEW a \in 1 .. n PROVE F[a] \in Int
    <2>1. n - a \in Nat /\ n - a < n /\ n - (n - a) = a
      BY <1>0
    <2>2. n - a \in Typed
      BY <1>6, <2>1
    <2> QED
      BY <2>1, <2>2
  <1>8. F = [a \in 1 .. n |-> F[a]]
    BY <1>0, <1>1 DEF StrideStep
  <1> QED
    BY <1>0, <1>2, <1>7, <1>8

\* What is made of the shape and the strides, axis by axis, is a layout again.
LEMMA AxesMakeLayout ==
  ASSUME NEW layout \in Layouts, NEW n \in Nat,
         NEW shape \in [1 .. n -> Nat], NEW strides \in [1 .. n -> Int]
  PROVE  [layout EXCEPT !.shape = shape, !.strides = strides] \in Layouts
  <1>1. shape \in Seq(Nat) /\ strides \in Seq(Int) /\ Len(shape) = n /\ Len(strides) = n
    OBVIOUS
  <1> QED
    BY <1>1 DEF Layouts

\* The fields of a layout.
LEMMA LayoutAxes ==
  ASSUME NEW layout \in Layouts
  PROVE  /\ Rank(layout) \in Nat
         /\ layout.offset \in Int
         /\ layout.shape \in Seq(Nat) /\ layout.strides \in Seq(Int)
         /\ \A a \in 1 .. Rank(layout) : layout.shape[a] \in Nat /\ layout.strides[a] \in Int
         /\ DOMAIN layout.shape = 1 .. Rank(layout) /\ DOMAIN layout.strides = 1 .. Rank(layout)
  BY DEF Layouts, Rank

\* Permuting the axes of a layout makes a layout.
LEMMA PermutedIsLayout ==
  ASSUME NEW layout \in Layouts, NEW source \in [1 .. Rank(layout) -> 1 .. Rank(layout)]
  PROVE  Permuted(layout, source) \in Layouts
  <1>1. DOMAIN source = 1 .. Rank(layout) /\ Rank(layout) \in Nat
    BY LayoutAxes
  <1>2. [a \in DOMAIN source |-> layout.shape[source[a]]] \in [1 .. Rank(layout) -> Nat]
    BY <1>1, LayoutAxes
  <1>3. [a \in DOMAIN source |-> layout.strides[source[a]]] \in [1 .. Rank(layout) -> Int]
    BY <1>1, LayoutAxes
  <1> QED
    BY <1>1, <1>2, <1>3, AxesMakeLayout DEF Permuted

\* Both ways to exchange two axes.
LEMMA SwapsAgree ==
  ASSUME NEW rank \in Nat, NEW a \in 1 .. rank, NEW b \in 1 .. rank
  PROVE  /\ SwapSource("formula", a, b, rank) = SwapSource("concrete", a, b, rank)
         /\ SwapSource("formula", a, b, rank) \in [1 .. rank -> 1 .. rank]
  <1>1. \A c \in 1 .. rank :
          (IF c \in {a, b} THEN a + b - c ELSE c) = IF c = a THEN b ELSE IF c = b THEN a ELSE c
    OBVIOUS
  <1> QED
    BY <1>1 DEF SwapSource

\* A valid axis number, counted from either end, is an axis.
LEMMA AxisIsNormal ==
  ASSUME NEW rank \in Nat, NEW number \in Int, ValidAxis(number, rank)
  PROVE  NormalAxis(number, rank) \in 1 .. rank
  BY DEF ValidAxis, NormalAxis

\* The numbers of a set below and above one that it does not hold.
LEMMA Sides ==
  ASSUME NEW rank \in Nat, NEW T \in SUBSET (1 .. rank), NEW a \in 1 .. rank, a \notin T
  PROVE  /\ Cardinality({b \in T : b < a}) \in Nat
         /\ Cardinality({b \in T : b < a}) <= a - 1
         /\ Cardinality(T) - Cardinality({b \in T : b < a}) <= rank - a
  <1> DEFINE low == {b \in T : b < a}
             high == {b \in T : b > a}
  <1>0. a - 1 \in Nat /\ a + 1 \in Nat /\ \A b \in T : b \in Nat /\ 1 <= b /\ b <= rank /\ b # a
    OBVIOUS
  <1>1. ASSUME NEW b \in low PROVE b \in 1 .. a - 1
    <2>1. b \in T /\ b < a
      OBVIOUS
    <2>2. b \in Nat /\ 1 <= b
      BY <1>0, <2>1
    <2> HIDE DEF low
    <2> QED
      BY <2>1, <2>2
  <1>2. ASSUME NEW b \in high PROVE b \in a + 1 .. rank
    <2>1. b \in T /\ b > a
      OBVIOUS
    <2>2. b \in Nat /\ b <= rank
      BY <1>0, <2>1
    <2> HIDE DEF high
    <2> QED
      BY <2>1, <2>2
  <1>3. low \cup high = T /\ low \cap high = {}
    <2>1. ASSUME NEW b \in T PROVE b \in low \/ b \in high
      <3>1. b \in Nat /\ b # a
        BY <1>0
      <3>2. b < a \/ b > a
        BY <3>1
      <3> QED
        BY <3>2
    <2>2. ASSUME NEW b \in low, b \in high PROVE FALSE
      <3>1. b \in Nat /\ b < a /\ b > a
        BY <1>0, <2>2
      <3> QED
        BY <3>1
    <2>3. low \subseteq T /\ high \subseteq T
      OBVIOUS
    <2> HIDE DEF low, high
    <2> QED
      BY <2>1, <2>2, <2>3
  <1>4. IsFiniteSet(1 .. a - 1) /\ Cardinality(1 .. a - 1) = a - 1
    <2>1. 1 > a - 1 => a - 1 = 0
      BY <1>0
    <2> QED
      BY <1>0, <2>1, FS_Interval
  <1>5. IsFiniteSet(a + 1 .. rank) /\ Cardinality(a + 1 .. rank) = rank - a
    <2>1. IsFiniteSet(a + 1 .. rank) /\ Cardinality(a + 1 .. rank) = IF a + 1 > rank THEN 0 ELSE rank - (a + 1) + 1
      BY <1>0, FS_Interval
    <2> QED
      BY <1>0, <2>1
  <1> HIDE DEF low, high
  <1>6. IsFiniteSet(low) /\ Cardinality(low) <= a - 1
    BY <1>1, <1>4, FS_Subset
  <1>7. IsFiniteSet(high) /\ Cardinality(high) <= rank - a
    BY <1>2, <1>5, FS_Subset
  <1>8. Cardinality(low) \in Nat /\ Cardinality(high) \in Nat
    BY <1>6, <1>7, FS_CardinalityType
  <1>9. Cardinality(low \cup high) = Cardinality(low) + Cardinality(high) - Cardinality(low \cap high)
    BY <1>6, <1>7, FS_Union
  <1>10. Cardinality(T) = Cardinality(low) + Cardinality(high)
    BY <1>3, <1>8, <1>9, FS_EmptySet
  <1>11. Cardinality(T) - Cardinality(low) <= rank - a
    BY <1>7, <1>8, <1>10
  <1> QED
    BY <1>6, <1>8, <1>11 DEF low

\* An axis that is not new was an axis of the array.
LEMMA OldAxes ==
  ASSUME NEW old \in Nat, NEW rank \in Nat, NEW new \in SUBSET (1 .. rank),
         rank = old + Cardinality(new), NEW a \in 1 .. rank, a \notin new
  PROVE  SourceAxis(a, new) \in 1 .. old
  <1>1. PICK low \in Nat : low = Cardinality({b \in new : b < a}) /\ low <= a - 1
                           /\ Cardinality(new) - low <= rank - a
    BY Sides
  <1>2. Cardinality(new) \in Nat
    BY rank \in Int, FirstFinite
  <1>3. SourceAxis(a, new) = a - low
    BY <1>1 DEF SourceAxis
  <1> QED
    BY <1>1, <1>2, <1>3

\* New axes make a layout.
LEMMA ExpandedIsLayout ==
  ASSUME NEW layout \in Layouts, NEW new, new \subseteq 1 .. Rank(layout) + Cardinality(new),
         Cardinality(new) \in Nat
  PROVE  Expanded(layout, new) \in Layouts
  <1>1. PICK rank \in Nat : rank = Rank(layout) + Cardinality(new)
    BY LayoutAxes
  <1>2. \A a \in 1 .. rank : a \notin new => SourceAxis(a, new) \in 1 .. Rank(layout)
    BY <1>1, LayoutAxes, OldAxes
  <1> DEFINE shape == [a \in 1 .. rank |-> IF a \in new THEN 1 ELSE layout.shape[SourceAxis(a, new)]]
             strides == [a \in 1 .. rank |-> IF a \in new THEN 0 ELSE layout.strides[SourceAxis(a, new)]]
  <1>3. shape \in [1 .. rank -> Nat] /\ strides \in [1 .. rank -> Int]
    BY <1>2, LayoutAxes
  <1>4. Expanded(layout, new) = [layout EXCEPT !.shape = shape, !.strides = strides]
    BY <1>1 DEF Expanded
  <1> HIDE DEF shape, strides
  <1>5. [layout EXCEPT !.shape = shape, !.strides = strides] \in Layouts
    BY <1>3, AxesMakeLayout
  <1> QED
    BY <1>4, <1>5, Zenon

\* Broadcasting makes a layout.
LEMMA BroadcastIsLayout ==
  ASSUME NEW layout \in Layouts, NEW new \in Seq(Nat), ValidBroadcast(layout.shape, new)
  PROVE  Broadcast(layout, new) \in Layouts
  <1>1. PICK rank \in Nat : rank = Rank(layout) /\ rank = Len(layout.shape)
    BY LayoutAxes DEF Rank
  <1>2. PICK n \in Nat : n = Len(new) /\ DOMAIN new = 1 .. n
    OBVIOUS
  <1>3. rank <= n
    BY <1>1, <1>2 DEF ValidBroadcast
  <1>4. \A a \in 1 .. n : a > n - rank => layout.strides[a - (n - rank)] \in Int
    BY <1>1, <1>3, LayoutAxes
  <1>5. BroadcastStrides(layout, new) \in [1 .. n -> Int]
    BY <1>1, <1>2, <1>4 DEF BroadcastStrides
  <1>6. BroadcastStrides(layout, new) \in Seq(Int) /\ Len(BroadcastStrides(layout, new)) = n
    BY <1>5
  <1>7. layout.offset \in Int
    BY LayoutAxes
  <1> QED
    BY <1>2, <1>6, <1>7 DEF Broadcast, Layouts

----------------------------------------------------------------------------
(* The halves of every view.                                               *)

IsList(s) == \E S : s \in Seq(S)

ViewInv ==
  /\ IsList(views)
  /\ \A i \in DOMAIN views : views[i].formula = views[i].concrete /\ views[i].concrete \in Layouts

\* A view whose halves are the same layout keeps the invariant.
LEMMA OneMoreView ==
  ASSUME ViewInv, NEW l \in Layouts, NEW view, view.formula = l, view.concrete = l,
         views' = Append(views, view)
  PROVE  ViewInv'
  <1>1. PICK S : views \in Seq(S)
    BY DEF ViewInv, IsList
  <1>2. views \in Seq(S \cup {view})
    BY <1>1, SeqMonotonic
  <1>3. views' \in Seq(S \cup {view})
    BY <1>2
  <1>4. ASSUME NEW i \in DOMAIN views'
        PROVE  views'[i].formula = views'[i].concrete /\ views'[i].concrete \in Layouts
    <2>1. (i \in DOMAIN views /\ views'[i] = views[i]) \/ views'[i] = view
      BY <1>2
    <2> QED
      BY <2>1 DEF ViewInv
  <1> QED
    BY <1>3, <1>4 DEF ViewInv, IsList

\* What the invariant says of one view.
LEMMA ViewTypes ==
  ASSUME ViewInv, NEW i \in DOMAIN views
  PROVE  /\ views[i].formula = views[i].concrete
         /\ views[i].concrete \in Layouts
         /\ Rank(views[i].concrete) \in Nat
         /\ Rank(views[i].concrete) = Len(views[i].concrete.shape)
  BY LayoutAxes DEF ViewInv, Rank

\* The array starts with one layout in both halves.
LEMMA StartAgrees == Init => ViewInv
  <1> SUFFICES ASSUME Init PROVE ViewInv
    OBVIOUS
  <1>0. PICK shape \in Shapes : \E view :
          /\ views = <<view>>
          /\ view.formula = [shape |-> shape, offset |-> 0, strides |-> DefaultStrides(shape)]
          /\ view.concrete = [shape |-> shape, offset |-> 0, strides |-> DefaultStrides(shape)]
    BY DEF Init
  <1>1. PICK view :
          /\ views = <<view>>
          /\ view.formula = [shape |-> shape, offset |-> 0, strides |-> DefaultStrides(shape)]
          /\ view.concrete = [shape |-> shape, offset |-> 0, strides |-> DefaultStrides(shape)]
    BY <1>0
  <1>2. shape \in Seq(Nat)
    BY ArgumentAssumption
  <1>3. view.concrete \in Layouts
    BY <1>1, <1>2, StridesAreIntegers DEF Layouts
  <1>4. views \in Seq({view}) /\ \A i \in DOMAIN views : views[i] = view
    BY <1>1
  <1> QED
    BY <1>1, <1>3, <1>4 DEF ViewInv, IsList

\* Indexing keeps the halves equal.
LEMMA GetItemAgrees ==
  ASSUME ViewInv, NEW i \in DOMAIN views, NEW args \in Indices, GetItem(views[i], args)
  PROVE  ViewInv'
  <1> DEFINE v == views[i]
  <1>1. PICK view : /\ views' = Append(views, view)
                    /\ view.formula = Index("formula", v.formula, args)
                    /\ view.concrete = Index("concrete", v.concrete, args)
    BY DEF GetItem, TakeView, Recreated
  <1>2. args \in Seq(Arguments)
    BY ArgumentAssumption
  <1>3. ValidIndex(v.concrete.shape, args)
    BY DEF GetItem
  <1>4. v.formula = v.concrete /\ v.concrete \in Layouts
    BY ViewTypes
  <1> HIDE DEF v
  <1>5. Index("formula", v.concrete, args) = Index("concrete", v.concrete, args)
        /\ Index("formula", v.concrete, args) \in Layouts
    BY <1>2, <1>3, <1>4, IndexAgrees
  <1> QED
    BY <1>1, <1>4, <1>5, OneMoreView

\* swapaxes keeps the halves equal.
LEMMA SwapAxesAgrees ==
  ASSUME ViewInv, NEW i \in DOMAIN views, NEW axis1 \in Int, NEW axis2 \in Int,
         SwapAxes(views[i], axis1, axis2)
  PROVE  ViewInv'
  <1> DEFINE v == views[i]
             rank == Rank(v.concrete)
             a == NormalAxis(axis1, rank)
             b == NormalAxis(axis2, rank)
  <1>1. PICK view : /\ views' = Append(views, view)
                    /\ view.formula = Permuted(v.formula, SwapSource("formula", a, b, rank))
                    /\ view.concrete = Permuted(v.concrete, SwapSource("concrete", a, b, rank))
    BY DEF SwapAxes, TakeView, Recreated
  <1>2. ValidAxis(axis1, rank) /\ ValidAxis(axis2, rank)
    BY DEF SwapAxes
  <1>3. v.formula = v.concrete /\ v.concrete \in Layouts /\ rank \in Nat
    BY ViewTypes
  <1>4. a \in 1 .. rank /\ b \in 1 .. rank
    BY <1>2, <1>3, AxisIsNormal
  <1> HIDE DEF a, b
  <1>5. SwapSource("formula", a, b, rank) = SwapSource("concrete", a, b, rank)
        /\ SwapSource("formula", a, b, rank) \in [1 .. rank -> 1 .. rank]
    BY <1>3, <1>4, SwapsAgree
  <1> HIDE DEF v
  <1>6. Permuted(v.concrete, SwapSource("formula", a, b, rank)) \in Layouts
    BY <1>3, <1>5, PermutedIsLayout
  <1> QED
    BY <1>1, <1>3, <1>5, <1>6, OneMoreView

\* transpose keeps the halves equal.
LEMMA TransposeAgrees ==
  ASSUME ViewInv, NEW i \in DOMAIN views, NEW axes \in AxisOrders(Rank(views[i].concrete)),
         Transpose(views[i], axes)
  PROVE  ViewInv'
  <1> DEFINE v == views[i]
  <1>1. PICK view : /\ views' = Append(views, view)
                    /\ view.formula = Permuted(v.formula, axes)
                    /\ view.concrete = Permuted(v.concrete, axes)
    BY DEF Transpose, TakeView, Recreated
  <1>2. v.formula = v.concrete /\ v.concrete \in Layouts
    BY ViewTypes
  <1>3. axes \in [1 .. Rank(v.concrete) -> 1 .. Rank(v.concrete)]
    BY DEF AxisOrders
  <1> HIDE DEF v
  <1>4. Permuted(v.concrete, axes) \in Layouts
    BY <1>2, <1>3, PermutedIsLayout
  <1> QED
    BY <1>1, <1>2, <1>4, OneMoreView

\* expand_dims keeps the halves equal.
LEMMA ExpandDimsAgrees ==
  ASSUME ViewInv, NEW i \in DOMAIN views, NEW axes \in Seq(Int), ExpandDims(views[i], axes)
  PROVE  ViewInv'
  <1> DEFINE v == views[i]
             rank == Rank(v.concrete) + Len(axes)
             new == {NormalAxis(axes[k], rank) : k \in DOMAIN axes}
  <1>1. PICK view : /\ views' = Append(views, view)
                    /\ view.formula = Expanded(v.formula, new)
                    /\ view.concrete = Expanded(v.concrete, new)
    <2>1. PICK cells : views' = Append(views, Recreated(Expanded(v.formula, new), Expanded(v.concrete, new),
                                                       v.writeable, cells))
      BY Zenon DEF ExpandDims, TakeView
    <2> HIDE DEF v, new
    <2> QED
      BY <2>1 DEF Recreated
  <1>2. /\ \A k \in DOMAIN axes : ValidAxis(axes[k], rank)
        /\ Cardinality(new) = Len(axes)
    BY DEF ExpandDims
  <1>3. v.formula = v.concrete /\ v.concrete \in Layouts /\ Rank(v.concrete) \in Nat
    BY ViewTypes
  <1>4. rank \in Nat /\ Len(axes) \in Nat /\ \A k \in DOMAIN axes : axes[k] \in Int
    BY <1>3
  <1>5. \A k \in DOMAIN axes : NormalAxis(axes[k], rank) \in 1 .. rank
    BY <1>2, <1>4, AxisIsNormal
  <1>6. new \subseteq 1 .. Rank(v.concrete) + Cardinality(new) /\ Cardinality(new) \in Nat
    BY <1>2, <1>4, <1>5
  <1> HIDE DEF v, new
  <1>7. Expanded(v.concrete, new) \in Layouts
    BY <1>3, <1>6, ExpandedIsLayout
  <1> QED
    BY <1>1, <1>3, <1>7, OneMoreView

\* broadcast_to keeps the halves equal.
LEMMA BroadcastAgrees ==
  ASSUME ViewInv, NEW i \in DOMAIN views, NEW shape \in Targets, BroadcastTo(views[i], shape)
  PROVE  ViewInv'
  <1> DEFINE v == views[i]
  <1>1. PICK view : /\ views' = Append(views, view)
                    /\ view.formula = Broadcast(v.formula, shape)
                    /\ view.concrete = Broadcast(v.concrete, shape)
    BY DEF BroadcastTo, TakeView, Recreated
  <1>2. v.formula = v.concrete /\ v.concrete \in Layouts
    BY ViewTypes
  <1>3. shape \in Seq(Nat) /\ ValidBroadcast(v.concrete.shape, shape)
    BY ArgumentAssumption DEF BroadcastTo
  <1> HIDE DEF v
  <1>4. Broadcast(v.concrete, shape) \in Layouts
    BY <1>2, <1>3, BroadcastIsLayout
  <1> QED
    BY <1>1, <1>2, <1>4, OneMoreView

\* The axis arguments are integers and sequences of integers.
LEMMA AxisTuplesAreTuples == AxisNumbers \subseteq Int /\ AxisTuples \subseteq Seq(Int)
  <1>1. AxisNumbers \subseteq Int
    BY BoundAssumption DEF AxisNumbers
  <1>2. \A a, b \in Int : <<>> \in Seq(Int) /\ <<a>> \in Seq(Int) /\ <<a, b>> \in Seq(Int)
    OBVIOUS
  <1>3. ASSUME NEW axes \in AxisTuples PROVE axes \in Seq(Int)
    <2>1. \/ axes = <<>>
          \/ \E a \in AxisNumbers : axes = <<a>>
          \/ \E a, b \in AxisNumbers : axes = <<a, b>>
      BY DEF AxisTuples
    <2>2. CASE axes = <<>>
      BY <1>2, <2>2
    <2>3. CASE \E a \in AxisNumbers : axes = <<a>>
      BY <1>1, <1>2, <2>3
    <2>4. CASE \E a, b \in AxisNumbers : axes = <<a, b>>
      BY <1>1, <1>2, <2>4
    <2> QED
      BY <2>1, <2>2, <2>3, <2>4
  <1> QED
    BY <1>1, <1>3

\* Every way to take a view keeps the halves equal.
LEMMA ViewStepAgrees == ViewInv /\ ViewStep => ViewInv'
  <1> SUFFICES ASSUME ViewInv, ViewStep PROVE ViewInv'
    OBVIOUS
  <1>1. AxisNumbers \subseteq Int /\ AxisTuples \subseteq Seq(Int)
    BY AxisTuplesAreTuples
  <1>2. PICK i \in DOMAIN views :
          \/ \E args \in Indices : GetItem(views[i], args)
          \/ \E a, b \in AxisNumbers : SwapAxes(views[i], a, b)
          \/ \E axes \in AxisOrders(Rank(views[i].concrete)) : Transpose(views[i], axes)
          \/ \E axes \in AxisTuples : ExpandDims(views[i], axes)
          \/ \E shape \in Targets : BroadcastTo(views[i], shape)
    BY Zenon DEF ViewStep
  <1>3. CASE \E args \in Indices : GetItem(views[i], args)
    BY <1>3, GetItemAgrees
  <1>4. CASE \E a, b \in AxisNumbers : SwapAxes(views[i], a, b)
    BY <1>1, <1>4, SwapAxesAgrees
  <1>5. CASE \E axes \in AxisOrders(Rank(views[i].concrete)) : Transpose(views[i], axes)
    BY <1>5, TransposeAgrees
  <1>6. CASE \E axes \in AxisTuples : ExpandDims(views[i], axes)
    BY <1>1, <1>6, ExpandDimsAgrees
  <1>7. CASE \E shape \in Targets : BroadcastTo(views[i], shape)
    BY <1>7, BroadcastAgrees
  <1> QED
    BY <1>2, <1>3, <1>4, <1>5, <1>6, <1>7

\* Assignments take no views.
LEMMA AssignStepAgrees == ViewInv /\ AssignStep => ViewInv'
  <1> SUFFICES ASSUME ViewInv, AssignStep PROVE ViewInv'
    OBVIOUS
  <1>1. views' = views
    <2>1. PICK i \in DOMAIN views, j \in DOMAIN views :
            \/ \E args \in Indices, x \in Values : i = j /\ SetItem(views[i], args, x)
            \/ CopyTo(views[i], views[j])
            \/ \E k \in DOMAIN views : Ufunc(views[i], views[j], views[k])
            \/ \E reduced \in AxisNumbers \cup {None}, keepdims \in BOOLEAN, initial \in Values \cup {None} :
                 Reduce(views[i], views[j], reduced, keepdims, initial)
      BY Zenon DEF AssignStep
    <2>2. \A args, x : SetItem(views[i], args, x) => views' = views
      BY Zenon DEF SetItem, Assign
    <2>3. CopyTo(views[i], views[j]) => views' = views
      BY Zenon DEF CopyTo, Assign
    <2>4. \A k : Ufunc(views[i], views[j], views[k]) => views' = views
      BY Zenon DEF Ufunc, Assign
    <2>5. \A reduced, keepdims, initial :
            Reduce(views[i], views[j], reduced, keepdims, initial) => views' = views
      BY Zenon DEF Reduce, Assign
    <2> QED
      BY <2>1, <2>2, <2>3, <2>4, <2>5, Zenon
  <1> QED
    BY <1>1 DEF ViewInv

\* The layout the formulas describe is the one the program computes with, for every
\* view of a view of an array of any shape.
THEOREM ViewsAreDescribed == Spec => []HalvesAgree
  <1>1. Init => ViewInv
    BY StartAgrees
  <1>2. ViewInv /\ [Next]_vars => ViewInv'
    <2> SUFFICES ASSUME ViewInv, [Next]_vars PROVE ViewInv'
      OBVIOUS
    <2>1. ViewStep \/ AssignStep \/ UNCHANGED vars
      BY DEF Next
    <2>2. CASE UNCHANGED vars
      BY <2>2 DEF vars, ViewInv
    <2> QED
      BY <2>1, <2>2, ViewStepAgrees, AssignStepAgrees
  <1>3. ViewInv => HalvesAgree
    BY DEF ViewInv, HalvesAgree
  <1> QED
    BY <1>1, <1>2, <1>3, PTL DEF Spec

----------------------------------------------------------------------------
(* Sums.                                                                   *)

\* The prefixes of a sum.
IsPrefixSum(f, s, n) == f[0] = 0 /\ \A k \in 1 .. n : f[k] = f[k - 1] + s[k]

\* A sum has prefixes, which are integers.
LEMMA SumHasPrefixes ==
  ASSUME NEW n \in Nat, NEW s \in [1 .. n -> Int]
  PROVE  \E f \in [0 .. n -> Int] : IsPrefixSum(f, s, n) /\ SumSeq(s) = f[n]
  <1>1. PICK f : f[0] = 0 /\ (\A k \in 1 .. n : f[k] = f[k - 1] + s[k]) /\ SumSeq(s) = f[n]
    BY SumByPrefix
  <1> DEFINE Typed == {k \in Nat : k <= n => f[k] \in Int}
  <1>2. 0 \in Typed
    BY <1>1
  <1>3. ASSUME NEW k \in Nat, k \in Typed PROVE k + 1 \in Typed
    <2> SUFFICES ASSUME k + 1 <= n PROVE f[k + 1] \in Int
      OBVIOUS
    <2>1. k + 1 \in 1 .. n /\ (k + 1) - 1 = k /\ f[k] \in Int
      BY <1>3
    <2>2. f[k + 1] = f[(k + 1) - 1] + s[k + 1] /\ s[k + 1] \in Int
      BY <1>1, <2>1
    <2> QED
      BY <2>1, <2>2
  <1>4. \A k \in Nat : k \in Typed
    BY <1>2, <1>3, ByInduction
  <1> DEFINE g == [k \in 0 .. n |-> f[k]]
  <1>5. g \in [0 .. n -> Int]
    BY <1>4
  <1>6. \A k \in 0 .. n : g[k] = f[k]
    OBVIOUS
  <1> HIDE DEF g
  <1>7. ASSUME NEW k \in 1 .. n PROVE g[k] = g[k - 1] + s[k]
    <2>1. k \in 0 .. n /\ k - 1 \in 0 .. n
      OBVIOUS
    <2> QED
      BY <1>1, <1>6, <2>1
  <1>8. g[0] = 0 /\ SumSeq(s) = g[n]
    BY <1>1, <1>6
  <1> QED
    BY <1>5, <1>7, <1>8 DEF IsPrefixSum

\* Whatever has the prefixes of a sum ends with it.
LEMMA SumIs ==
  ASSUME NEW n \in Nat, NEW s \in [1 .. n -> Int], NEW g, IsPrefixSum(g, s, n)
  PROVE  SumSeq(s) = g[n]
  <1>1. PICK f \in [0 .. n -> Int] : IsPrefixSum(f, s, n) /\ SumSeq(s) = f[n]
    BY SumHasPrefixes
  <1> DEFINE Same == {k \in Nat : k <= n => g[k] = f[k]}
  <1>2. 0 \in Same
    BY <1>1 DEF IsPrefixSum
  <1>3. ASSUME NEW k \in Nat, k \in Same PROVE k + 1 \in Same
    <2> SUFFICES ASSUME k + 1 <= n PROVE g[k + 1] = f[k + 1]
      OBVIOUS
    <2>1. k + 1 \in 1 .. n /\ (k + 1) - 1 = k /\ g[k] = f[k]
      BY <1>3
    <2>2. f[k + 1] = f[(k + 1) - 1] + s[k + 1] /\ g[k + 1] = g[(k + 1) - 1] + s[k + 1]
      BY <1>1, <2>1 DEF IsPrefixSum
    <2> QED
      BY <2>1, <2>2
  <1>4. \A k \in Nat : k \in Same
    BY <1>2, <1>3, ByInduction
  <1> QED
    BY <1>1, <1>4

\* No numbers add up to nothing.
LEMMA SumEmpty ==
  ASSUME NEW s \in [1 .. 0 -> Int]
  PROVE  SumSeq(s) = 0
  <1>1. PICK f \in [0 .. 0 -> Int] : IsPrefixSum(f, s, 0) /\ SumSeq(s) = f[0]
    BY SumHasPrefixes
  <1> QED
    BY <1>1 DEF IsPrefixSum

\* The last number, added to the others.
LEMMA SumLast ==
  ASSUME NEW n \in Nat, NEW s \in [1 .. n + 1 -> Int]
  PROVE  SumSeq(s) = SumSeq([k \in 1 .. n |-> s[k]]) + s[n + 1]
  <1> DEFINE t == [k \in 1 .. n |-> s[k]]
  <1>1. PICK f \in [0 .. n + 1 -> Int] : IsPrefixSum(f, s, n + 1) /\ SumSeq(s) = f[n + 1]
    BY n + 1 \in Nat, SumHasPrefixes
  <1>2. t \in [1 .. n -> Int] /\ \A k \in 1 .. n : t[k] = s[k]
    OBVIOUS
  <1> HIDE DEF t
  <1>3. IsPrefixSum(f, t, n)
    <2>1. \A k \in 1 .. n : k \in 1 .. n + 1
      OBVIOUS
    <2> QED
      BY <1>1, <1>2, <2>1 DEF IsPrefixSum
  <1>4. SumSeq(t) = f[n]
    BY <1>2, <1>3, SumIs
  <1>5. n + 1 \in 1 .. n + 1 /\ (n + 1) - 1 = n
    OBVIOUS
  <1>6. f[n + 1] = f[n] + s[n + 1]
    BY <1>1, <1>5 DEF IsPrefixSum
  <1> QED
    BY <1>1, <1>4, <1>6 DEF t

\* Two sums, number by number.
LEMMA SumPlus ==
  ASSUME NEW n \in Nat, NEW s \in [1 .. n -> Int], NEW t \in [1 .. n -> Int]
  PROVE  SumSeq([k \in 1 .. n |-> s[k] + t[k]]) = SumSeq(s) + SumSeq(t)
  <1> DEFINE u == [k \in 1 .. n |-> s[k] + t[k]]
  <1>1. PICK f \in [0 .. n -> Int] : IsPrefixSum(f, s, n) /\ SumSeq(s) = f[n]
    BY SumHasPrefixes
  <1>2. PICK g \in [0 .. n -> Int] : IsPrefixSum(g, t, n) /\ SumSeq(t) = g[n]
    BY SumHasPrefixes
  <1> DEFINE h == [k \in 0 .. n |-> f[k] + g[k]]
  <1>3. \A k \in 0 .. n : h[k] = f[k] + g[k] /\ f[k] \in Int /\ g[k] \in Int
    OBVIOUS
  <1>4. u \in [1 .. n -> Int] /\ \A k \in 1 .. n : u[k] = s[k] + t[k]
    OBVIOUS
  <1> HIDE DEF h, u
  <1>5. ASSUME NEW k \in 1 .. n PROVE h[k] = h[k - 1] + u[k]
    <2>1. k \in 0 .. n /\ k - 1 \in 0 .. n
      OBVIOUS
    <2>2. f[k] = f[k - 1] + s[k] /\ g[k] = g[k - 1] + t[k]
      BY <1>1, <1>2 DEF IsPrefixSum
    <2>3. s[k] \in Int /\ t[k] \in Int
      OBVIOUS
    <2>4. /\ h[k] = f[k] + g[k] /\ h[k - 1] = f[k - 1] + g[k - 1] /\ u[k] = s[k] + t[k]
          /\ f[k - 1] \in Int /\ g[k - 1] \in Int
      BY <1>3, <1>4, <2>1
    <2> QED
      BY <2>2, <2>3, <2>4
  <1>6. h[0] = 0
    <2>1. f[0] = 0 /\ g[0] = 0 /\ 0 \in 0 .. n
      BY <1>1, <1>2 DEF IsPrefixSum
    <2>2. h[0] = f[0] + g[0]
      BY <1>3, <2>1
    <2> QED
      BY <2>1, <2>2
  <1>7. IsPrefixSum(h, u, n)
    BY <1>5, <1>6 DEF IsPrefixSum
  <1>8. SumSeq(u) = h[n]
    BY <1>4, <1>7, SumIs
  <1> QED
    BY <1>1, <1>2, <1>3, <1>8 DEF u

\* A sum without one of its terms.
LEMMA SumWithout ==
  ASSUME NEW n \in Nat, NEW s \in [1 .. n -> Int], NEW b \in 1 .. n
  PROVE  SumSeq([s EXCEPT ![b] = 0]) = SumSeq(s) - s[b]
  <1> DEFINE u == [s EXCEPT ![b] = 0]
  <1>1. PICK f \in [0 .. n -> Int] : IsPrefixSum(f, s, n) /\ SumSeq(s) = f[n]
    BY SumHasPrefixes
  <1> DEFINE h == [k \in 0 .. n |-> IF k < b THEN f[k] ELSE f[k] - s[b]]
  <1>2. \A k \in 0 .. n : h[k] = IF k < b THEN f[k] ELSE f[k] - s[b]
    OBVIOUS
  <1>3. u \in [1 .. n -> Int] /\ \A k \in 1 .. n : u[k] = IF k = b THEN 0 ELSE s[k]
    OBVIOUS
  <1> HIDE DEF h, u
  <1>4. ASSUME NEW k \in 1 .. n PROVE h[k] = h[k - 1] + u[k]
    <2>1. k \in 0 .. n /\ k - 1 \in 0 .. n
      OBVIOUS
    <2>2. f[k] = f[k - 1] + s[k] /\ f[k - 1] \in Int /\ s[k] \in Int /\ s[b] \in Int
      BY <1>1, <2>1 DEF IsPrefixSum
    <2>3. CASE k < b
      BY <1>2, <1>3, <2>1, <2>2, <2>3
    <2>4. CASE k = b
      <3>1. k - 1 < b /\ ~(k < b)
        BY <2>4
      <3>2. h[k] = f[k] - s[b] /\ h[k - 1] = f[k - 1] /\ u[k] = 0
        BY <1>2, <1>3, <2>1, <2>4, <3>1
      <3> QED
        BY <2>2, <2>4, <3>2
    <2>5. CASE k > b
      <3>1. ~(k - 1 < b) /\ ~(k < b) /\ k # b
        BY <2>5
      <3>2. h[k] = f[k] - s[b] /\ h[k - 1] = f[k - 1] - s[b] /\ u[k] = s[k]
        BY <1>2, <1>3, <2>1, <3>1
      <3> QED
        BY <2>2, <3>2
    <2> QED
      BY <2>3, <2>4, <2>5
  <1>5. h[0] = 0
    BY <1>1, <1>2 DEF IsPrefixSum
  <1>6. IsPrefixSum(h, u, n)
    BY <1>4, <1>5 DEF IsPrefixSum
  <1>7. SumSeq(u) = h[n]
    BY <1>3, <1>6, SumIs
  <1> QED
    BY <1>1, <1>2, <1>7 DEF u

\* at sends each term of s that is not 0 to a term of t of its own with the same
\* value; the others of t are 0.
IsMatching(s, t, m, n, D, at) ==
  /\ D \subseteq 1 .. m
  /\ at \in [D -> 1 .. n]
  /\ \A a, b \in D : at[a] = at[b] => a = b
  /\ \A a \in D : s[a] = t[at[a]]
  /\ \A a \in 1 .. m : a \notin D => s[a] = 0
  /\ \A b \in 1 .. n : t[b] # 0 => \E a \in D : at[a] = b

\* All sums with so many terms on the left.
MatchedSums ==
  {m \in Nat : \A s \in [1 .. m -> Int] : \A n \in Nat : \A t \in [1 .. n -> Int] :
                 (\E D, at : IsMatching(s, t, m, n, D, at)) => SumSeq(s) = SumSeq(t)}

\* A sum of zeros.
LEMMA SumOfZeros ==
  ASSUME NEW n \in Nat, NEW s \in [1 .. n -> Int], \A k \in 1 .. n : s[k] = 0
  PROVE  SumSeq(s) = 0
  <1> DEFINE h == [k \in 0 .. n |-> 0]
  <1>1. \A k \in 0 .. n : h[k] = 0
    OBVIOUS
  <1> HIDE DEF h
  <1>2. IsPrefixSum(h, s, n)
    <2>1. ASSUME NEW k \in 1 .. n PROVE h[k] = h[k - 1] + s[k]
      <3>1. k \in 0 .. n /\ k - 1 \in 0 .. n
        OBVIOUS
      <3> QED
        BY <1>1, <3>1
    <2> QED
      BY <1>1, <2>1, 0 \in 0 .. n DEF IsPrefixSum
  <1>3. SumSeq(s) = h[n]
    BY <1>2, SumIs
  <1> QED
    BY <1>1, <1>3

\* Matched sums are equal.
LEMMA SumsMatch ==
  ASSUME NEW m \in Nat, NEW s \in [1 .. m -> Int], NEW n \in Nat, NEW t \in [1 .. n -> Int],
         NEW D, NEW at, IsMatching(s, t, m, n, D, at)
  PROVE  SumSeq(s) = SumSeq(t)
  <1>1. 0 \in MatchedSums
    <2> SUFFICES ASSUME NEW x \in [1 .. 0 -> Int], NEW i \in Nat, NEW y \in [1 .. i -> Int],
                        NEW E, NEW f, IsMatching(x, y, 0, i, E, f)
                 PROVE  SumSeq(x) = SumSeq(y)
      BY DEF MatchedSums
    <2>1. \A b \in 1 .. i : y[b] = 0
      BY DEF IsMatching
    <2> QED
      BY <2>1, SumEmpty, SumOfZeros
  <1>2. ASSUME NEW k \in Nat, k \in MatchedSums PROVE k + 1 \in MatchedSums
    <2> SUFFICES ASSUME NEW x \in [1 .. k + 1 -> Int], NEW i \in Nat, NEW y \in [1 .. i -> Int],
                        NEW E, NEW f, IsMatching(x, y, k + 1, i, E, f)
                 PROVE  SumSeq(x) = SumSeq(y)
      BY k + 1 \in Nat DEF MatchedSums
    <2> DEFINE w == [a \in 1 .. k |-> x[a]]
    <2>1. SumSeq(x) = SumSeq(w) + x[k + 1]
      BY SumLast
    <2>2. w \in [1 .. k -> Int] /\ \A a \in 1 .. k : w[a] = x[a]
      OBVIOUS
    <2>3. \A z \in [1 .. i -> Int] : (\E F, g : IsMatching(w, z, k, i, F, g)) => SumSeq(w) = SumSeq(z)
      BY <1>2, <2>2 DEF MatchedSums
    <2>4. /\ E \subseteq 1 .. k + 1
          /\ f \in [E -> 1 .. i]
          /\ \A a, b \in E : f[a] = f[b] => a = b
          /\ \A a \in E : x[a] = y[f[a]]
          /\ \A a \in 1 .. k + 1 : a \notin E => x[a] = 0
          /\ \A b \in 1 .. i : y[b] # 0 => \E a \in E : f[a] = b
      BY DEF IsMatching
    <2> HIDE DEF w
    <2>5. CASE k + 1 \notin E
      <3>1. E \subseteq 1 .. k
        BY <2>4, <2>5
      <3>2. IsMatching(w, y, k, i, E, f)
        BY <2>2, <2>4, <3>1 DEF IsMatching
      <3>3. SumSeq(w) = SumSeq(y)
        BY <2>3, <3>2
      <3>4. x[k + 1] = 0 /\ SumSeq(y) \in Int
        BY <2>4, <2>5, SumType
      <3> QED
        BY <2>1, <3>3, <3>4
    <2>6. CASE k + 1 \in E
      <3> DEFINE z == [y EXCEPT ![f[k + 1]] = 0]
                 F == E \ {k + 1}
                 g == [a \in F |-> f[a]]
      <3>1. f[k + 1] \in 1 .. i /\ x[k + 1] = y[f[k + 1]]
        BY <2>4, <2>6
      <3>2. SumSeq(z) = SumSeq(y) - y[f[k + 1]]
        BY <3>1, SumWithout
      <3>3. z \in [1 .. i -> Int] /\ \A b \in 1 .. i : z[b] = IF b = f[k + 1] THEN 0 ELSE y[b]
        BY <3>1
      <3>4. F \subseteq 1 .. k /\ g \in [F -> 1 .. i] /\ \A a \in F : g[a] = f[a] /\ a \in E /\ a # k + 1
        BY <2>4
      <3>5. \A a \in E : a # k + 1 => a \in F
        OBVIOUS
      <3> HIDE DEF z, F, g
      <3>6. \A a \in F : w[a] = z[g[a]]
        <4> SUFFICES ASSUME NEW a \in F PROVE w[a] = z[g[a]]
          OBVIOUS
        <4>1. g[a] # f[k + 1] /\ g[a] = f[a] /\ g[a] \in 1 .. i
          BY <2>4, <2>6, <3>4
        <4>2. w[a] = x[a] /\ x[a] = y[f[a]]
          BY <2>2, <2>4, <3>4
        <4> QED
          BY <3>3, <4>1, <4>2
      <3>7. \A a \in 1 .. k : a \notin F => w[a] = 0
        <4> SUFFICES ASSUME NEW a \in 1 .. k, a \notin F PROVE w[a] = 0
          OBVIOUS
        <4>1. a # k + 1 /\ a \in 1 .. k + 1
          OBVIOUS
        <4> QED
          BY <2>2, <2>4, <3>5, <4>1
      <3>8. \A b \in 1 .. i : z[b] # 0 => \E a \in F : g[a] = b
        <4> SUFFICES ASSUME NEW b \in 1 .. i, z[b] # 0 PROVE \E a \in F : g[a] = b
          OBVIOUS
        <4>1. b # f[k + 1] /\ y[b] # 0
          BY <3>3
        <4>2. PICK a \in E : f[a] = b
          BY <2>4, <4>1
        <4> QED
          BY <3>4, <3>5, <4>1, <4>2
      <3>9. \A a, b \in F : g[a] = g[b] => a = b
        BY <2>4, <3>4
      <3>10. IsMatching(w, z, k, i, F, g)
        BY <3>4, <3>6, <3>7, <3>8, <3>9 DEF IsMatching
      <3>11. SumSeq(w) = SumSeq(z)
        BY <2>3, <3>3, <3>10
      <3>12. SumSeq(y) \in Int /\ y[f[k + 1]] \in Int
        BY <3>1, SumType
      <3> QED
        BY <2>1, <3>1, <3>2, <3>11, <3>12
    <2> QED
      BY <2>5, <2>6
  <1>3. m \in MatchedSums
    BY <1>1, <1>2, ByInduction
  <1> QED
    BY <1>3 DEF MatchedSums

----------------------------------------------------------------------------
(* Coordinates are numbers with a radix for each axis.                     *)

\* The case of a product: integers, from 1.
LEMMA ProductFold ==
  ASSUME NEW n \in Nat, NEW op \in [(1 .. n) \X Int -> Int]
  PROVE  HasFold(n, op, 1, Int)
  <1>1. PICK base \in Int : base = 1
    OBVIOUS
  <1>2. HasFold(n, op, base, Int)
    BY FoldExists
  <1> QED
    BY <1>1, <1>2

\* A product by its prefixes.
LEMMA ProductByPrefix ==
  ASSUME NEW n \in Nat, NEW s \in [1 .. n -> Int]
  PROVE  \E f : f[0] = 1 /\ (\A k \in 1 .. n : f[k] = f[k - 1] * s[k]) /\ Product(s) = f[n]
  <1> DEFINE Unfolded(f) == [T \in SUBSET (1 .. n) |-> IF T = {} THEN 1 ELSE f[T \ {Max(T)}] * s[Max(T)]]
             F == CHOOSE f : f = Unfolded(f)
  <1>1. PICK op \in [(1 .. n) \X Int -> Int] : \A k \in 1 .. n, x \in Int : op[<<k, x>>] = x * s[k]
    <2> DEFINE mul == [p \in (1 .. n) \X Int |-> p[2] * s[p[1]]]
    <2>1. mul \in [(1 .. n) \X Int -> Int] /\ \A k \in 1 .. n, x \in Int : mul[<<k, x>>] = x * s[k]
      OBVIOUS
    <2> HIDE DEF mul
    <2> QED
      BY <2>1
  <1>2. PICK f \in [SUBSET (1 .. n) -> Int] : \A T \in SUBSET (1 .. n) : f[T] = FoldStep(op, 1, f, T)
    <2>1. HasFold(n, op, 1, Int)
      BY ProductFold
    <2> QED
      BY <2>1 DEF HasFold
  <1>3. f = Unfolded(f)
    <2>1. ASSUME NEW T \in SUBSET (1 .. n)
          PROVE  f[T] = IF T = {} THEN 1 ELSE f[T \ {Max(T)}] * s[Max(T)]
      <3>1. CASE T = {}
        BY <1>2, <3>1 DEF FoldStep
      <3>2. CASE T # {}
        <4>1. PICK m \in 1 .. n : m = Max(T)
          BY <3>2, GreatestOf
        <4>2. f[T \ {m}] \in Int
          BY <1>2
        <4>3. f[T] = op[<<m, f[T \ {m}]>>]
          BY <1>2, <3>2, <4>1 DEF FoldStep
        <4> QED
          BY <1>1, <3>2, <4>1, <4>2, <4>3
      <3> QED
        BY <3>1, <3>2
    <2> QED
      BY <2>1
  <1>4. F = Unfolded(F)
    BY <1>3
  <1>5. Product(s) = F[1 .. n]
    <2>1. DOMAIN s = 1 .. n
      OBVIOUS
    <2> QED
      BY <2>1, Zenon DEF Product, FoldLeft, MapThenFoldSet
  <1> HIDE DEF F
  <1>6. F[{}] = 1
    BY <1>4
  <1>7. ASSUME NEW k \in 1 .. n PROVE F[1 .. k] = F[1 .. k - 1] * s[k]
    <2>1. 1 .. k \in SUBSET (1 .. n) /\ 1 .. k # {} /\ (1 .. k) \ {k} = 1 .. k - 1
      BY FirstNumbers
    <2>2. Max(1 .. k) = k
      BY GreatestOfFirst
    <2>3. F[1 .. k] = F[(1 .. k) \ {Max(1 .. k)}] * s[Max(1 .. k)]
      BY <1>4, <2>1
    <2> QED
      BY <2>1, <2>2, <2>3
  <1> DEFINE g == [k \in 0 .. n |-> F[1 .. k]]
  <1>8. g[0] = 1 /\ (\A k \in 1 .. n : g[k] = g[k - 1] * s[k]) /\ Product(s) = g[n]
    <2>1. 1 .. 0 = {}
      OBVIOUS
    <2>2. \A k \in 1 .. n : k \in 0 .. n /\ k - 1 \in 0 .. n
      OBVIOUS
    <2> QED
      BY <1>5, <1>6, <1>7, <2>1, <2>2
  <1> QED
    BY <1>8

\* Induction from n down to 0.
LEMMA Downwards ==
  ASSUME NEW n \in Nat, NEW S, n \in S, \A k \in 1 .. n : k \in S => k - 1 \in S
  PROVE  \A k \in 0 .. n : k \in S
  <1> DEFINE T == {j \in Nat : j <= n => n - j \in S}
  <1>1. 0 \in T
    OBVIOUS
  <1>2. ASSUME NEW j \in Nat, j \in T PROVE j + 1 \in T
    <2> SUFFICES ASSUME j + 1 <= n PROVE n - (j + 1) \in S
      OBVIOUS
    <2>1. n - j \in 1 .. n /\ (n - j) - 1 = n - (j + 1) /\ n - j \in S
      BY <1>2
    <2> QED
      BY <2>1
  <1>3. \A j \in Nat : j \in T
    BY <1>1, <1>2, ByInduction
  <1>4. ASSUME NEW k \in 0 .. n PROVE k \in S
    <2>1. n - k \in Nat /\ n - k <= n /\ n - (n - k) = k
      OBVIOUS
    <2> QED
      BY <1>3, <2>1
  <1> QED
    BY <1>4

\* The weight of each axis; that of no axis is the size.
IsWeights(w, shape, n) ==
  /\ w \in [0 .. n -> Nat]
  /\ w[n] = 1
  /\ \A a \in 1 .. n : w[a - 1] = w[a] * shape[a]

\* The weights are the default strides and the size of a shape.
LEMMA Weights ==
  ASSUME NEW n \in Nat, NEW shape \in [1 .. n -> Nat]
  PROVE  \E w : /\ IsWeights(w, shape, n)
                /\ DefaultStrides(shape) = [a \in 1 .. n |-> w[a]]
                /\ Product(shape) = w[0]
  <1>0. shape \in Seq(Nat) /\ Len(shape) = n /\ DOMAIN shape = 1 .. n
    OBVIOUS
  <1> DEFINE F == CHOOSE f : f = StrideStep(shape, f)
  <1>1. F = StrideStep(shape, F)
    BY <1>0, StridesExist
  <1>2. DefaultStrides(shape) = F
    BY Zenon DEF DefaultStrides, StrideStep
  <1>3. F = [a \in 1 .. n |-> IF a = n THEN 1 ELSE F[a + 1] * shape[a + 1]]
    BY <1>0, <1>1 DEF StrideStep
  <1> HIDE DEF F
  <1> DEFINE w == [a \in 0 .. n |-> IF a = n THEN 1 ELSE IF a = 0 THEN F[1] * shape[1] ELSE F[a]]
             Natural == {a \in 0 .. n : w[a] \in Nat}
  <1>4. w[n] = 1 /\ n \in 0 .. n
    OBVIOUS
  <1>5. \A a \in 1 .. n : F[a] = w[a]
    BY <1>3
  <1>6. ASSUME NEW a \in 1 .. n PROVE w[a - 1] = w[a] * shape[a] /\ a - 1 \in 0 .. n
    <2>1. a - 1 \in 0 .. n /\ a - 1 # n
      OBVIOUS
    <2>2. CASE a = 1
      <3>1. w[0] = F[1] * shape[1] /\ a - 1 = 0
        BY <2>1, <2>2
      <3> QED
        BY <1>5, <2>1, <2>2, <3>1
    <2>3. CASE a # 1
      <3>1. PICK b \in 1 .. n : b = a - 1
        <4>1. a - 1 \in 1 .. n
          BY <2>3
        <4> QED
          BY <4>1
      <3>2. b # n /\ b # 0 /\ b \in 0 .. n /\ b + 1 = a
        BY <3>1
      <3>3. w[b] = F[b]
        BY <3>2
      <3>4. F[b] = F[a] * shape[a]
        BY <1>3, <3>2
      <3> QED
        BY <1>5, <2>1, <3>1, <3>3, <3>4
    <2> QED
      BY <2>1, <2>2, <2>3
  <1>7. DOMAIN w = 0 .. n /\ w = [a \in 0 .. n |-> w[a]]
    OBVIOUS
  <1> HIDE DEF w
  <1>8. \A a \in 0 .. n : a \in Natural
    <2>1. n \in Natural
      BY <1>4
    <2>2. ASSUME NEW a \in 1 .. n, a \in Natural PROVE a - 1 \in Natural
      <3>1. w[a] \in Nat /\ shape[a] \in Nat
        BY <2>2
      <3> QED
        BY <1>6, <3>1
    <2> HIDE DEF Natural
    <2> QED
      BY <2>1, <2>2, Downwards
  <1>9. w \in [0 .. n -> Nat]
    BY <1>7, <1>8
  <1>10. PICK f : f[0] = 1 /\ (\A k \in 1 .. n : f[k] = f[k - 1] * shape[k]) /\ Product(shape) = f[n]
    <2>1. shape \in [1 .. n -> Int]
      OBVIOUS
    <2> QED
      BY <2>1, ProductByPrefix
  <1> DEFINE Constant == {k \in Nat : k <= n => f[k] \in Nat /\ f[k] * w[k] = w[0]}
  <1>11. 0 \in Constant
    BY <1>9, <1>10
  <1>12. ASSUME NEW k \in Nat, k \in Constant PROVE k + 1 \in Constant
    <2> SUFFICES ASSUME k + 1 <= n PROVE f[k + 1] \in Nat /\ f[k + 1] * w[k + 1] = w[0]
      OBVIOUS
    <2>1. k + 1 \in 1 .. n /\ (k + 1) - 1 = k
      OBVIOUS
    <2>2. PICK x \in Nat : x = f[k]
      BY <1>12
    <2>3. PICK y \in Nat, d \in Nat : y = w[k + 1] /\ d = shape[k + 1]
      BY <1>9, <2>1
    <2>4. w[k] = y * d /\ x * w[k] = w[0]
      BY <1>6, <1>12, <2>1, <2>2, <2>3
    <2>5. f[k + 1] = x * d
      BY <1>10, <2>1, <2>2, <2>3
    <2>6. (x * d) * y = x * (y * d) /\ x * d \in Nat
      OBVIOUS
    <2> QED
      BY <2>3, <2>4, <2>5, <2>6
  <1>13. n \in Constant
    BY <1>11, <1>12, ByInduction
  <1>14. Product(shape) = w[0]
    BY <1>4, <1>10, <1>13
  <1>15. F = [a \in 1 .. n |-> w[a]]
    BY <1>3, <1>5
  <1>16. IsWeights(w, shape, n)
    BY <1>4, <1>6, <1>9 DEF IsWeights
  <1> QED
    BY <1>2, <1>14, <1>15, <1>16

IsQuotient(k, m, p, e) == k \div m = p /\ k % m = e

\* Quotient and remainder are what they are for.
LEMMA Quotient ==
  ASSUME NEW k \in Int, NEW m \in Nat \ {0}, NEW p \in Int, NEW e \in 0 .. m - 1, k = m * p + e
  PROVE  IsQuotient(k, m, p, e)
  <1>1. PICK q \in Int, r \in Int : q = k \div m /\ r = k % m
    OBVIOUS
  <1>2. k = m * q + r /\ 0 <= r /\ r < m
    BY <1>1
  <1>3. m * (p - q) = r - e /\ -m < r - e /\ r - e < m
    <2>1. m * (p - q) = m * p - m * q
      OBVIOUS
    <2> QED
      BY <1>2, <2>1
  <1>4. p - q < 1
    <2>1. p - q >= 1 => m * (p - q) >= m
      OBVIOUS
    <2> QED
      BY <1>3, <2>1
  <1>5. p - q > -1
    <2>1. p - q <= -1 => m * (p - q) <= -m
      OBVIOUS
    <2> QED
      BY <1>3, <2>1
  <1>6. p = q
    BY <1>4, <1>5
  <1> QED
    BY <1>1, <1>2, <1>6 DEF IsQuotient

\* A quotient and a remainder exist.
LEMMA Divided ==
  ASSUME NEW k \in Nat, NEW m \in Nat \ {0}
  PROVE  /\ k \div m \in Nat /\ k % m \in 0 .. m - 1
         /\ k = m * (k \div m) + (k % m)
  OBVIOUS

\* A quotient may be taken in two steps.
LEMMA QuotientTwice ==
  ASSUME NEW k \in Nat, NEW m \in Nat \ {0}, NEW d \in Nat \ {0}
  PROVE  k \div (m * d) = (k \div m) \div d
  <1>1. PICK q \in Nat, r \in 0 .. m - 1 : q = k \div m /\ k = m * q + r
    BY Divided
  <1>2. PICK p \in Nat, e \in 0 .. d - 1 : p = q \div d /\ q = d * p + e
    BY Divided
  <1>3. m * d \in Nat \ {0}
    OBVIOUS
  <1>4. m * q = (m * d) * p + m * e
    <2>1. m * (d * p + e) = m * (d * p) + m * e /\ m * (d * p) = (m * d) * p
      OBVIOUS
    <2> QED
      BY <1>2, <2>1
  <1>5. m * e + r \in 0 .. m * d - 1
    <2>1. m * e <= m * (d - 1) /\ 0 <= m * e /\ m * e \in Int
      BY StepsAreMonotone
    <2>2. m * (d - 1) = m * d - m
      OBVIOUS
    <2> QED
      BY <2>1, <2>2
  <1>6. k = (m * d) * p + (m * e + r)
    BY <1>1, <1>4
  <1>7. k \div (m * d) = p
    <2>1. IsQuotient(k, m * d, p, m * e + r)
      BY <1>3, <1>5, <1>6, Quotient
    <2> QED
      BY <2>1 DEF IsQuotient
  <1> QED
    BY <1>1, <1>2, <1>7

\* The digits of k.
Digits(w, shape, n, k) == [a \in 1 .. n |-> (k \div w[a]) % shape[a]]

\* Below the size every weight and every dimension is positive.
LEMMA WeightsArePositive ==
  ASSUME NEW n \in Nat, NEW shape \in [1 .. n -> Nat], NEW w, IsWeights(w, shape, n), w[0] # 0
  PROVE  \A a \in 0 .. n : w[a] \in Nat \ {0} /\ (a # 0 => shape[a] \in Nat \ {0})
  <1> DEFINE Fine == {k \in Nat : k <= n => w[k] \in Nat \ {0} /\ (k # 0 => shape[k] \in Nat \ {0})}
  <1>1. w \in [0 .. n -> Nat] /\ \A a \in 1 .. n : w[a - 1] = w[a] * shape[a]
    BY DEF IsWeights
  <1>2. 0 \in Fine
    BY <1>1
  <1>3. ASSUME NEW k \in Nat, k \in Fine PROVE k + 1 \in Fine
    <2> SUFFICES ASSUME k + 1 <= n PROVE w[k + 1] \in Nat \ {0} /\ shape[k + 1] \in Nat \ {0}
      OBVIOUS
    <2>1. k + 1 \in 1 .. n /\ (k + 1) - 1 = k /\ k + 1 \in 0 .. n
      OBVIOUS
    <2>2. PICK x \in Nat, d \in Nat : x = w[k + 1] /\ d = shape[k + 1]
      BY <1>1, <2>1
    <2>3. w[k] = x * d /\ w[k] # 0
      BY <1>1, <1>3, <2>1, <2>2
    <2>4. x # 0 /\ d # 0
      BY <2>3
    <2> QED
      BY <2>2, <2>4
  <1>4. \A k \in Nat : k \in Fine
    BY <1>2, <1>3, ByInduction
  <1> QED
    BY <1>4

DigitsMake(w, shape, n, k) ==
  /\ Digits(w, shape, n, k) \in [1 .. n -> Nat]
  /\ \A a \in 1 .. n : Digits(w, shape, n, k)[a] < shape[a]
  /\ SumSeq([a \in 1 .. n |-> Digits(w, shape, n, k)[a] * w[a]]) = k

\* The digits of a number below the size are on their axes, and make the number.
LEMMA DigitsMakeNumber ==
  ASSUME NEW n \in Nat, NEW shape \in [1 .. n -> Nat], NEW w, IsWeights(w, shape, n),
         NEW k \in Nat, k < w[0]
  PROVE  DigitsMake(w, shape, n, k)
  <1> DEFINE c == Digits(w, shape, n, k)
             s == [a \in 1 .. n |-> c[a] * w[a]]
             g == [a \in 0 .. n |-> (k \div w[a]) * w[a]]
  <1>0. w \in [0 .. n -> Nat] /\ w[n] = 1 /\ \A a \in 1 .. n : w[a - 1] = w[a] * shape[a]
    BY DEF IsWeights
  <1>1. \A a \in 0 .. n : w[a] \in Nat \ {0} /\ (a # 0 => shape[a] \in Nat \ {0})
    <2>1. w[0] # 0
      BY <1>0
    <2> QED
      BY <2>1, WeightsArePositive
  <1>2. ASSUME NEW a \in 1 .. n
        PROVE  /\ c[a] \in Nat /\ c[a] < shape[a] /\ c[a] * w[a] \in Int
               /\ g[a] = g[a - 1] + c[a] * w[a]
    <2>0. a \in 0 .. n /\ a - 1 \in 0 .. n /\ a # 0
      OBVIOUS
    <2>1. PICK x \in Nat \ {0}, d \in Nat \ {0} : x = w[a] /\ d = shape[a]
      BY <1>1, <2>0
    <2>2. PICK q \in Nat : q = k \div x
      BY Divided
    <2>3. c[a] = q % d
      BY <2>1, <2>2 DEF Digits
    <2>4. PICK p \in Nat, e \in 0 .. d - 1 : p = q \div d /\ e = q % d /\ q = d * p + e
      BY Divided
    <2>5. w[a - 1] = x * d /\ k \div (x * d) = p
      BY <1>0, <2>1, <2>2, <2>4, QuotientTwice
    <2>6. g[a] = q * x /\ g[a - 1] = p * (x * d)
      BY <2>0, <2>1, <2>2, <2>5
    <2>7. (d * p + e) * x = p * (x * d) + e * x /\ e * x \in Int
      OBVIOUS
    <2> QED
      BY <2>1, <2>3, <2>4, <2>6, <2>7
  <1>3. g[0] = 0
    <2>1. k = w[0] * 0 + k /\ w[0] \in Nat \ {0} /\ k \in 0 .. w[0] - 1
      BY <1>0, <1>1
    <2>2. IsQuotient(k, w[0], 0, k)
      BY <2>1, Quotient
    <2>3. k \div w[0] = 0
      BY <2>2 DEF IsQuotient
    <2> QED
      BY <1>0, <2>3
  <1>4. g[n] = k
    <2>1. k \div 1 = k
      OBVIOUS
    <2> QED
      BY <1>0, <2>1
  <1>5. s \in [1 .. n -> Int] /\ \A a \in 1 .. n : s[a] = c[a] * w[a]
    BY <1>2
  <1>6. c \in [1 .. n -> Nat]
    <2>1. c = [a \in 1 .. n |-> c[a]]
      BY DEF Digits
    <2> QED
      BY <1>2, <2>1
  <1> HIDE DEF g, s, c
  <1>7. IsPrefixSum(g, s, n)
    BY <1>2, <1>3, <1>5 DEF IsPrefixSum
  <1>8. SumSeq(s) = k
    BY <1>4, <1>5, <1>7, SumIs
  <1> QED
    BY <1>2, <1>6, <1>8 DEF s, c, DigitsMake

Horner(h, x, d, y) ==
  /\ h * d + y \in Nat
  /\ h * (x * d) + y * x = (h * d + y) * x
  /\ (h * d + y) * x = x * (h * d + y)
  /\ h * d + y = d * h + y

\* One more digit.
LEMMA OneMoreDigit ==
  ASSUME NEW h \in Nat, NEW x \in Nat, NEW d \in Nat, NEW y \in Nat
  PROVE  Horner(h, x, d, y)
  <1>1. PICK m \in Nat : m = h * d
    OBVIOUS
  <1>2. (m + y) * x = m * x + y * x
    OBVIOUS
  <1>3. (h * d) * x = h * (x * d)
    OBVIOUS
  <1>4. m * x = h * (x * d)
    BY <1>1, <1>3
  <1>5. (h * d + y) * x = h * (x * d) + y * x
    BY <1>1, <1>2, <1>4
  <1>6. (m + y) * x = x * (m + y) /\ h * d = d * h /\ m + y \in Nat
    OBVIOUS
  <1> QED
    BY <1>1, <1>5, <1>6 DEF Horner

HasNumber(w, shape, n, c) == \E k \in Nat : k < w[0] /\ Digits(w, shape, n, k) = c

\* Digits on their axes make a number below the size, of which they are the digits.
LEMMA NumberHasDigits ==
  ASSUME NEW n \in Nat, NEW shape \in [1 .. n -> Nat], NEW w, IsWeights(w, shape, n),
         NEW c \in [1 .. n -> Nat], \A a \in 1 .. n : c[a] < shape[a]
  PROVE  HasNumber(w, shape, n, c)
  <1> DEFINE s == [a \in 1 .. n |-> c[a] * w[a]]
  <1>0. w \in [0 .. n -> Nat] /\ w[n] = 1 /\ \A a \in 1 .. n : w[a - 1] = w[a] * shape[a]
    BY DEF IsWeights
  <1>1. ASSUME NEW a \in 1 .. n PROVE s[a] \in Nat
    <2>1. PICK x \in Nat, y \in Nat : x = w[a] /\ y = c[a]
      BY <1>0
    <2> QED
      BY <2>1
  <1>2. s \in [1 .. n -> Int] /\ \A a \in 1 .. n : s[a] = c[a] * w[a]
    BY <1>1
  <1> HIDE DEF s
  <1>3. PICK g \in [0 .. n -> Int] : IsPrefixSum(g, s, n) /\ SumSeq(s) = g[n]
    BY <1>2, SumHasPrefixes
  <1>4. g[0] = 0 /\ \A a \in 1 .. n : g[a] = g[a - 1] + c[a] * w[a]
    BY <1>2, <1>3 DEF IsPrefixSum
  <1> DEFINE Multiple == {a \in Nat : a <= n => \E h \in Nat : g[a] = h * w[a]}
             Rest == {a \in 0 .. n : 0 <= g[n] - g[a] /\ g[n] - g[a] < w[a]}
  <1>5. \A a \in Nat : a \in Multiple
    <2>1. 0 \in Multiple
      <3>1. g[0] = 0 * w[0]
        BY <1>0, <1>4
      <3> QED
        BY <3>1
    <2>2. ASSUME NEW a \in Nat, a \in Multiple PROVE a + 1 \in Multiple
      <3> SUFFICES ASSUME a + 1 <= n PROVE \E h \in Nat : g[a + 1] = h * w[a + 1]
        OBVIOUS
      <3>1. a + 1 \in 1 .. n /\ (a + 1) - 1 = a /\ a + 1 \in 0 .. n
        OBVIOUS
      <3>2. PICK h \in Nat : g[a] = h * w[a]
        BY <2>2
      <3>3. PICK x \in Nat, d \in Nat, y \in Nat : x = w[a + 1] /\ d = shape[a + 1] /\ y = c[a + 1]
        BY <1>0, <3>1
      <3>4. g[a + 1] = h * (x * d) + y * x
        BY <1>0, <1>4, <3>1, <3>2, <3>3
      <3>5. h * (x * d) + y * x = (h * d + y) * x /\ h * d + y \in Nat
        <4>1. Horner(h, x, d, y)
          BY OneMoreDigit
        <4> QED
          BY <4>1 DEF Horner
      <3> QED
        BY <3>3, <3>4, <3>5
    <2> HIDE DEF Multiple
    <2> QED
      BY <2>1, <2>2, ByInduction
  <1>6. \A a \in 0 .. n : a \in Rest
    <2>1. n \in Rest
      BY <1>0
    <2>2. ASSUME NEW a \in 1 .. n, a \in Rest PROVE a - 1 \in Rest
      <3>1. a - 1 \in 0 .. n
        OBVIOUS
      <3>2. PICK x \in Nat, d \in Nat, y \in Nat : x = w[a] /\ d = shape[a] /\ y = c[a]
        BY <1>0, a \in 0 .. n
      <3>3. y <= d - 1 /\ d - 1 \in Nat
        BY <3>2
      <3>4. w[a - 1] = x * d /\ g[a] = g[a - 1] + y * x
        BY <1>0, <1>4, <3>2
      <3>5. 0 <= y * x /\ y * x <= (d - 1) * x
        BY <3>3, StepsAreMonotone
      <3>6. (d - 1) * x = x * d - x /\ x * d \in Int /\ y * x \in Int
        OBVIOUS
      <3>7. 0 <= g[n] - g[a] /\ g[n] - g[a] < x /\ g[n] \in Int /\ g[a] \in Int /\ g[a - 1] \in Int
        BY <2>2, <3>1, <3>2
      <3>8. g[n] - g[a - 1] = (g[n] - g[a]) + y * x
        BY <3>4, <3>6, <3>7
      <3>9. 0 <= g[n] - g[a - 1] /\ g[n] - g[a - 1] < w[a - 1]
        <4>1. PICK u \in Int, v \in Int : u = g[n] - g[a] /\ v = y * x
          BY <3>6, <3>7
        <4>2. PICK m \in Int : m = x * d
          BY <3>6
        <4>3. 0 <= u /\ u < x /\ 0 <= v /\ v <= m - x /\ w[a - 1] = m /\ g[n] - g[a - 1] = u + v
          BY <3>4, <3>5, <3>6, <3>7, <3>8, <4>1, <4>2
        <4>4. 0 <= u + v /\ u + v < m
          BY <4>3
        <4> QED
          BY <4>3, <4>4
      <3> QED
        BY <3>1, <3>9
    <2> HIDE DEF Rest
    <2> QED
      BY <2>1, <2>2, Downwards
  <1>7. g[n] \in Nat /\ g[n] < w[0]
    <2>1. 0 \in Rest
      BY <1>6
    <2> QED
      BY <1>4, <2>1
  <1>8. ASSUME NEW a \in 1 .. n PROVE (g[n] \div w[a]) % shape[a] = c[a]
    <2>1. PICK x \in Nat, d \in Nat, y \in Nat : x = w[a] /\ d = shape[a] /\ y = c[a]
      BY <1>0, a \in 0 .. n
    <2>2. PICK z \in Int : z = g[n] - g[a] /\ 0 <= z /\ z < x
      BY <1>6, <2>1
    <2>3. PICK h \in Nat : g[a - 1] = h * w[a - 1]
      <3>1. a - 1 \in Nat /\ a - 1 <= n
        OBVIOUS
      <3> QED
        BY <1>5, <3>1
    <2>4. g[a] = h * (x * d) + y * x
      BY <1>0, <1>4, <2>1, <2>3
    <2>5. h * (x * d) + y * x = x * (h * d + y) /\ h * d + y \in Nat
      <3>1. Horner(h, x, d, y)
        BY OneMoreDigit
      <3> QED
        BY <3>1 DEF Horner
    <2>6. PICK m \in Nat : m = h * d + y /\ g[a] = x * m
      BY <2>4, <2>5
    <2>7. g[n] \div x = m
      <3>1. g[n] \in Int /\ g[a] \in Int /\ x * m \in Int /\ z \in 0 .. x - 1 /\ x \in Nat \ {0}
        BY <2>2, a \in 0 .. n
      <3>2. g[n] = x * m + z
        BY <2>2, <2>6, <3>1
      <3>3. IsQuotient(g[n], x, m, z)
        BY <3>1, <3>2, Quotient
      <3> QED
        BY <3>3 DEF IsQuotient
    <2>8. y \in 0 .. d - 1 /\ d \in Nat \ {0} /\ m = d * h + y
      <3>1. y < d
        BY <2>1
      <3>2. h * d + y = d * h + y
        <4>1. Horner(h, x, d, y)
          BY OneMoreDigit
        <4> QED
          BY <4>1 DEF Horner
      <3> QED
        BY <2>6, <3>1, <3>2
    <2>9. m % d = y
      <3>1. IsQuotient(m, d, h, y)
        BY <2>8, Quotient
      <3> QED
        BY <3>1 DEF IsQuotient
    <2> QED
      BY <2>1, <2>7, <2>9
  <1>9. Digits(w, shape, n, g[n]) = c
    BY <1>8 DEF Digits
  <1> QED
    BY <1>7, <1>9 DEF HasNumber

\* The coordinates of an array of that shape.
Box(shape) == {c \in [1 .. Len(shape) -> Nat] : \A a \in 1 .. Len(shape) : c[a] < shape[a]}

\* The place of a coordinate in the order of the elements.
PlaceOf(shape, c) == SumSeq([a \in 1 .. Len(shape) |-> c[a] * DefaultStrides(shape)[a]])

\* The coordinates are listed in the order of their elements, and all of them are.
LEMMA CoordinatesInOrder ==
  ASSUME NEW shape \in Seq(Nat)
  PROVE  /\ Product(shape) \in Nat
         /\ DOMAIN Coordinates(shape) = 1 .. Product(shape)
         /\ \A k \in 1 .. Product(shape) :
              Coordinates(shape)[k] \in Box(shape) /\ PlaceOf(shape, Coordinates(shape)[k]) = k - 1
         /\ \A c \in Box(shape) : \E k \in 1 .. Product(shape) : Coordinates(shape)[k] = c
  <1>0. PICK n \in Nat : n = Len(shape) /\ DOMAIN shape = 1 .. n /\ shape \in [1 .. n -> Nat]
    OBVIOUS
  <1>1. PICK w : /\ IsWeights(w, shape, n)
                 /\ DefaultStrides(shape) = [a \in 1 .. n |-> w[a]]
                 /\ Product(shape) = w[0]
    BY <1>0, Weights
  <1>2. w[0] \in Nat
    BY <1>1, 0 \in 0 .. n DEF IsWeights
  <1>3. Coordinates(shape) = [k \in 1 .. w[0] |-> Digits(w, shape, n, k - 1)]
    <2>1. Coordinates(shape)
            = [k \in 1 .. Product(shape) |->
                 [a \in DOMAIN shape |-> ((k - 1) \div DefaultStrides(shape)[a]) % shape[a]]]
      BY DEF Coordinates
    <2>2. \A a \in 1 .. n : DefaultStrides(shape)[a] = w[a]
      BY <1>1
    <2> QED
      BY <1>0, <1>1, <2>1, <2>2 DEF Digits
  <1>4. \A c : PlaceOf(shape, c) = SumSeq([a \in 1 .. n |-> c[a] * w[a]])
    <2>1. \A a \in 1 .. n : DefaultStrides(shape)[a] = w[a]
      BY <1>1
    <2> QED
      BY <1>0, <2>1 DEF PlaceOf
  <1>5. ASSUME NEW k \in 1 .. w[0]
        PROVE  Coordinates(shape)[k] \in Box(shape) /\ PlaceOf(shape, Coordinates(shape)[k]) = k - 1
    <2>1. k - 1 \in Nat /\ k - 1 < w[0]
      BY <1>2
    <2>2. /\ Digits(w, shape, n, k - 1) \in [1 .. n -> Nat]
          /\ \A a \in 1 .. n : Digits(w, shape, n, k - 1)[a] < shape[a]
          /\ SumSeq([a \in 1 .. n |-> Digits(w, shape, n, k - 1)[a] * w[a]]) = k - 1
      <3>1. DigitsMake(w, shape, n, k - 1)
        BY <1>0, <1>1, <2>1, DigitsMakeNumber
      <3> QED
        BY <3>1 DEF DigitsMake
    <2>3. Coordinates(shape)[k] = Digits(w, shape, n, k - 1)
      BY <1>3
    <2> HIDE DEF Box
    <2>4. Coordinates(shape)[k] \in Box(shape)
      BY <1>0, <2>2, <2>3 DEF Box
    <2> QED
      BY <1>4, <2>2, <2>3, <2>4
  <1>6. ASSUME NEW c \in Box(shape) PROVE \E k \in 1 .. w[0] : Coordinates(shape)[k] = c
    <2>1. c \in [1 .. n -> Nat] /\ \A a \in 1 .. n : c[a] < shape[a]
      BY <1>0 DEF Box
    <2>2. PICK k \in Nat : k < w[0] /\ Digits(w, shape, n, k) = c
      <3>1. HasNumber(w, shape, n, c)
        BY <1>0, <1>1, <2>1, NumberHasDigits
      <3> QED
        BY <3>1 DEF HasNumber
    <2>3. k + 1 \in 1 .. w[0] /\ (k + 1) - 1 = k
      BY <1>2, <2>2
    <2>4. Coordinates(shape)[k + 1] = Digits(w, shape, n, (k + 1) - 1)
      BY <1>3, <2>3
    <2> QED
      BY <2>2, <2>3, <2>4
  <1>7. DOMAIN Coordinates(shape) = 1 .. w[0]
    BY <1>3
  <1> QED
    BY <1>1, <1>2, <1>5, <1>6, <1>7

\* The positions of a shape are the coordinates on its axes.
LEMMA PositionsAreBox ==
  ASSUME NEW shape \in Seq(Nat)
  PROVE  Positions(shape) = Box(shape)
  <1>1. /\ DOMAIN Coordinates(shape) = 1 .. Product(shape)
        /\ \A k \in 1 .. Product(shape) : Coordinates(shape)[k] \in Box(shape)
        /\ \A c \in Box(shape) : \E k \in 1 .. Product(shape) : Coordinates(shape)[k] = c
    BY CoordinatesInOrder
  <1>2. Positions(shape) = {Coordinates(shape)[k] : k \in DOMAIN Coordinates(shape)}
    BY DEF Positions, Range
  <1> QED
    BY <1>1, <1>2

\* Address over the axes of the view.
LEMMA AddressIsSum ==
  ASSUME NEW l \in Layouts, NEW c \in Box(l.shape)
  PROVE  /\ Address(l, c) = l.offset + SumSeq([a \in 1 .. Rank(l) |-> c[a] * l.strides[a]])
         /\ [a \in 1 .. Rank(l) |-> c[a] * l.strides[a]] \in [1 .. Rank(l) -> Int]
         /\ Address(l, c) \in Int
  <1>1. DOMAIN c = 1 .. Rank(l) /\ c \in [1 .. Rank(l) -> Nat]
    BY DEF Box, Rank
  <1>2. \A a \in 1 .. Rank(l) : l.strides[a] \in Int /\ c[a] \in Int
    BY <1>1, LayoutAxes
  <1>3. [a \in 1 .. Rank(l) |-> c[a] * l.strides[a]] \in [1 .. Rank(l) -> Int]
    BY <1>2
  <1>4. Rank(l) \in Nat /\ l.offset \in Int
    BY LayoutAxes
  <1>5. SumSeq([a \in 1 .. Rank(l) |-> c[a] * l.strides[a]]) \in Int
    BY <1>3, <1>4, SumType
  <1>6. Address(l, c) = l.offset + SumSeq([a \in 1 .. Rank(l) |-> c[a] * l.strides[a]])
    BY <1>1 DEF Address
  <1> QED
    BY <1>3, <1>4, <1>5, <1>6

----------------------------------------------------------------------------
(* Counting the members of a set of numbers numbers them.                  *)

\* f counts the members of C.
Counts(f, C, n) ==
  /\ f \in [0 .. n -> Nat] /\ f[0] = 0
  /\ \A k \in 1 .. n : f[k] = f[k - 1] + IF k \in C THEN 1 ELSE 0

Numbered(f, C, n) ==
  /\ \A k \in C : f[k] \in 1 .. f[n]
  /\ \A j, k \in C : f[j] = f[k] => j = k
  /\ \A p \in 1 .. f[n] : \E k \in C : f[k] = p

\* Each member has a number of its own, and there are no others.
LEMMA CountsNumber ==
  ASSUME NEW n \in Nat, NEW C \in SUBSET (1 .. n), NEW f, Counts(f, C, n)
  PROVE  Numbered(f, C, n)
  <1>1. /\ f \in [0 .. n -> Nat] /\ f[0] = 0
        /\ \A k \in 1 .. n : f[k] = f[k - 1] + IF k \in C THEN 1 ELSE 0
    BY DEF Counts
  <1> DEFINE Rising == {k \in Nat : k <= n => \A j \in 0 .. k : f[j] <= f[k] /\ (j < k /\ k \in C => f[j] < f[k])}
             Onto == {k \in Nat : k <= n => \A p \in 1 .. f[k] : \E j \in C : f[j] = p}
  <1>2. 0 \in Rising
    BY <1>1
  <1>3. ASSUME NEW k \in Nat, k \in Rising PROVE k + 1 \in Rising
    <2> SUFFICES ASSUME k + 1 <= n, NEW j \in 0 .. k + 1
                 PROVE  f[j] <= f[k + 1] /\ (j < k + 1 /\ k + 1 \in C => f[j] < f[k + 1])
      OBVIOUS
    <2>1. k + 1 \in 1 .. n /\ (k + 1) - 1 = k /\ k \in 0 .. n /\ k + 1 \in 0 .. n /\ j \in 0 .. n
      OBVIOUS
    <2>2. f[k + 1] = f[k] + (IF k + 1 \in C THEN 1 ELSE 0)
      BY <1>1, <2>1
    <2>3. f[k] \in Nat /\ f[j] \in Nat /\ f[k + 1] \in Nat
      BY <1>1, <2>1
    <2>4. CASE j = k + 1
      BY <2>3, <2>4
    <2>5. CASE j # k + 1
      <3>1. j \in 0 .. k
        BY <2>5
      <3>2. f[j] <= f[k]
        BY <1>3, <2>1, <3>1
      <3> QED
        BY <2>2, <2>3, <3>2
    <2> QED
      BY <2>4, <2>5
  <1>4. \A k \in Nat : k \in Rising
    BY <1>2, <1>3, ByInduction
  <1>5. 0 \in Onto
    BY <1>1
  <1>6. ASSUME NEW k \in Nat, k \in Onto PROVE k + 1 \in Onto
    <2> SUFFICES ASSUME k + 1 <= n, NEW p \in 1 .. f[k + 1] PROVE \E j \in C : f[j] = p
      OBVIOUS
    <2>1. k + 1 \in 1 .. n /\ (k + 1) - 1 = k /\ k \in 0 .. n /\ k + 1 \in 0 .. n
      OBVIOUS
    <2>2. f[k + 1] = f[k] + (IF k + 1 \in C THEN 1 ELSE 0) /\ f[k] \in Nat
      BY <1>1, <2>1
    <2>3. CASE p <= f[k]
      <3>1. p \in 1 .. f[k]
        BY <2>2, <2>3
      <3> QED
        BY <1>6, <2>1, <3>1
    <2>4. CASE p > f[k]
      <3>1. k + 1 \in C /\ f[k + 1] = p
        BY <2>2, <2>4
      <3> QED
        BY <3>1
    <2> QED
      BY <2>2, <2>3, <2>4
  <1>7. \A k \in Nat : k \in Onto
    BY <1>5, <1>6, ByInduction
  <1>8. ASSUME NEW j \in C, NEW k \in C, j < k PROVE f[j] < f[k]
    <2>1. k \in Nat /\ k <= n /\ j \in 0 .. k
      BY <1>8
    <2> QED
      BY <1>4, <1>8, <2>1
  <1>9. \A k \in C : f[k] \in 1 .. f[n]
    <2> SUFFICES ASSUME NEW k \in C PROVE f[k] \in 1 .. f[n]
      OBVIOUS
    <2>1. k \in Nat /\ k <= n /\ 0 \in 0 .. k /\ 0 < k /\ k \in 0 .. n
      OBVIOUS
    <2>2. f[0] < f[k]
      BY <1>4, <2>1
    <2>3. f[k] <= f[n]
      BY <1>4, <2>1
    <2> QED
      BY <1>1, <2>1, <2>2, <2>3
  <1>10. \A j, k \in C : f[j] = f[k] => j = k
    <2> SUFFICES ASSUME NEW j \in C, NEW k \in C, f[j] = f[k], j # k PROVE FALSE
      OBVIOUS
    <2>1. j < k \/ k < j
      OBVIOUS
    <2>2. f[j] \in Nat /\ f[k] \in Nat
      BY <1>1
    <2> QED
      BY <1>8, <2>1, <2>2
  <1> QED
    BY <1>7, <1>9, <1>10 DEF Numbered

\* The members of C up to k.
CountIn(C, k) == Cardinality({j \in C : j <= k})

\* They can be counted.
LEMMA CanCount ==
  ASSUME NEW n \in Nat, NEW C \in SUBSET (1 .. n)
  PROVE  /\ Counts([k \in 0 .. n |-> CountIn(C, k)], C, n)
         /\ CountIn(C, n) = Cardinality(C)
  <1> DEFINE upto(k) == {j \in C : j <= k}
             f == [k \in 0 .. n |-> CountIn(C, k)]
  <1>1. \A k \in 0 .. n : IsFiniteSet(upto(k)) /\ Cardinality(upto(k)) \in Nat
    <2> SUFFICES ASSUME NEW k \in 0 .. n PROVE IsFiniteSet(upto(k)) /\ Cardinality(upto(k)) \in Nat
      OBVIOUS
    <2>1. upto(k) \subseteq C /\ n \in Int
      OBVIOUS
    <2>2. upto(k) \in SUBSET (1 .. n)
      BY <2>1
    <2> QED
      BY <2>1, <2>2, FirstFinite
  <1>0. \A j \in C : j \in Int /\ 1 <= j /\ j <= n /\ ~(j <= 0)
    OBVIOUS
  <1>2. upto(0) = {} /\ upto(n) = C
    BY <1>0
  <1>3. ASSUME NEW k \in 1 .. n
        PROVE  Cardinality(upto(k)) = Cardinality(upto(k - 1)) + IF k \in C THEN 1 ELSE 0
    <2>0. \A j \in C : j <= k <=> j <= k - 1 \/ j = k
      BY <1>0
    <2>1. upto(k) = IF k \in C THEN upto(k - 1) \cup {k} ELSE upto(k - 1)
      <3>1. \A j : j \in upto(k) <=> j \in C /\ j <= k
        OBVIOUS
      <3>2. \A j : j \in upto(k - 1) <=> j \in C /\ j <= k - 1
        OBVIOUS
      <3>3. k <= k
        OBVIOUS
      <3> HIDE DEF upto
      <3> QED
        BY <2>0, <3>1, <3>2, <3>3
    <2>2. k \notin upto(k - 1) /\ k - 1 \in 0 .. n
      OBVIOUS
    <2>3. Cardinality(upto(k - 1) \cup {k}) = Cardinality(upto(k - 1)) + 1
      BY <1>1, <2>2, FS_AddElement
    <2> QED
      BY <1>1, <2>1, <2>2, <2>3
  <1>4. \A k : CountIn(C, k) = Cardinality(upto(k))
    BY DEF CountIn
  <1> HIDE DEF upto
  <1>5. \A k \in 0 .. n : f[k] = Cardinality(upto(k)) /\ f[k] \in Nat
    BY <1>1, <1>4
  <1>6. f[0] = 0
    BY <1>2, <1>5, FS_EmptySet, 0 \in 0 .. n
  <1>7. \A k \in 1 .. n : f[k] = f[k - 1] + IF k \in C THEN 1 ELSE 0
    <2>1. \A k \in 1 .. n : k \in 0 .. n /\ k - 1 \in 0 .. n
      OBVIOUS
    <2> QED
      BY <1>3, <1>5, <2>1
  <1>8. f \in [0 .. n -> Nat]
    BY <1>5
  <1> QED
    BY <1>2, <1>4, <1>6, <1>7, <1>8 DEF Counts

\* The members of C are numbered.
LEMMA MembersAreNumbered ==
  ASSUME NEW n \in Nat, NEW C \in SUBSET (1 .. n)
  PROVE  /\ Cardinality(C) \in Nat
         /\ \A k \in C : CountIn(C, k) \in 1 .. Cardinality(C)
         /\ \A j, k \in C : CountIn(C, j) = CountIn(C, k) => j = k
         /\ \A p \in 1 .. Cardinality(C) : \E k \in C : CountIn(C, k) = p
  <1> DEFINE f == [k \in 0 .. n |-> CountIn(C, k)]
  <1>1. Counts(f, C, n) /\ CountIn(C, n) = Cardinality(C)
    BY CanCount
  <1>2. \A k \in 0 .. n : f[k] = CountIn(C, k)
    OBVIOUS
  <1>3. \A k \in C : k \in 0 .. n
    OBVIOUS
  <1> HIDE DEF f
  <1>4. /\ \A k \in C : f[k] \in 1 .. f[n]
        /\ \A j, k \in C : f[j] = f[k] => j = k
        /\ \A p \in 1 .. f[n] : \E k \in C : f[k] = p
    <2>1. Numbered(f, C, n)
      BY <1>1, CountsNumber
    <2> QED
      BY <2>1 DEF Numbered
  <1>5. n \in 0 .. n /\ f[n] \in Nat
    BY <1>1 DEF Counts
  <1> QED
    BY <1>1, <1>2, <1>3, <1>4, <1>5

\* Pieces of at most one element, and those that have one.
Filled(s) == {k \in 1 .. Len(s) : Len(s[k]) = 1}

ShortPieces(s) == \A k \in 1 .. Len(s) : Len(s[k]) <= 1

\* The element of a piece is where the pieces before it put it.
PiecesInOrder(s, flat) ==
  /\ Len(flat) = Cardinality(Filled(s))
  /\ \A k \in Filled(s) : flat[CountIn(Filled(s), k)] = s[k][1]

Joined(s, t) ==
  /\ \A i \in 1 .. Len(s) : (s \o t)[i] = s[i]
  /\ \A i \in 1 .. Len(t) : (s \o t)[Len(s) + i] = t[i]

\* Where the elements of a concatenation come from.
LEMMA ConcatAt ==
  ASSUME NEW S, NEW s \in Seq(S), NEW t \in Seq(S)
  PROVE  Joined(s, t)
  <1>1. \A i \in 1 .. Len(s) : (s \o t)[i] = s[i]
    OBVIOUS
  <1>2. \A i \in 1 .. Len(t) : (s \o t)[Len(s) + i] = t[i]
    OBVIOUS
  <1> QED
    BY <1>1, <1>2 DEF Joined

\* No more than one.
LEMMA NoneOrOne ==
  ASSUME NEW m \in Nat, m <= 1
  PROVE  m = 0 \/ m = 1
  OBVIOUS

\* Pieces of at most one element, flattened.
LEMMA FlattenShort ==
  ASSUME NEW S, NEW s \in Seq(Seq(S)), ShortPieces(s)
  PROVE  PiecesInOrder(s, FlattenSeq(s))
  <1>0. PICK n \in Nat : n = Len(s)
    OBVIOUS
  <1> DEFINE C == Filled(s)
             f == [k \in 0 .. n |-> CountIn(C, k)]
  <1>1. C \in SUBSET (1 .. n) /\ \A k \in 1 .. n : k \in C <=> Len(s[k]) = 1
    BY <1>0 DEF Filled
  <1>2. Counts(f, C, n) /\ CountIn(C, n) = Cardinality(C)
    BY <1>1, CanCount
  <1>3. \A k \in 0 .. n : f[k] = CountIn(C, k)
    OBVIOUS
  <1>4. /\ \A k \in C : f[k] \in 1 .. f[n]
        /\ \A j, k \in C : f[j] = f[k] => j = k
    <2> HIDE DEF f, C
    <2>1. Numbered(f, C, n)
      BY <1>1, <1>2, CountsNumber
    <2> QED
      BY <2>1 DEF Numbered
  <1>5. /\ f \in [0 .. n -> Nat] /\ f[0] = 0
        /\ \A k \in 1 .. n : f[k] = f[k - 1] + IF k \in C THEN 1 ELSE 0
    BY <1>2 DEF Counts
  <1> HIDE DEF f, C
  <1>6. PICK g \in [0 .. n -> Seq(S)] : /\ g[0] = <<>>
                                        /\ \A k \in 1 .. n : g[k] = g[k - 1] \o s[k]
                                        /\ FlattenSeq(s) = g[n]
    BY <1>0, FlattenByPrefix DEF HasPrefixes
  <1>7. ASSUME NEW k \in 1 .. n
        PROVE  s[k] \in Seq(S) /\ (k \in C => Len(s[k]) = 1) /\ (k \notin C => Len(s[k]) = 0)
    <2>1. s[k] \in Seq(S) /\ Len(s[k]) <= 1
      BY <1>0 DEF ShortPieces
    <2>2. PICK m \in Nat : m = Len(s[k]) /\ m <= 1
      BY <2>1
    <2>3. m = 0 \/ m = 1
      BY <2>2, NoneOrOne
    <2> QED
      BY <1>1, <2>1, <2>2, <2>3
  <1> DEFINE Right(k) == Len(g[k]) = f[k] /\ \A j \in C : j <= k => f[j] <= f[k] /\ g[k][f[j]] = s[j][1]
             Rights == {k \in Nat : k <= n => Right(k)}
  <1>8. 0 \in Rights
    <2>1. \A j \in C : ~(j <= 0)
      BY <1>1
    <2> QED
      BY <1>5, <1>6, <2>1
  <1>9. ASSUME NEW k \in Nat, k \in Rights PROVE k + 1 \in Rights
    <2> HIDE DEF Right
    <2> SUFFICES ASSUME k + 1 <= n PROVE Right(k + 1)
      BY k + 1 \in Nat
    <2>1. PICK i \in 1 .. n : i = k + 1 /\ i - 1 = k /\ k \in 0 .. n /\ i \in 0 .. n
      OBVIOUS
    <2>2. Right(k)
      BY <1>9, <2>1
    <2>3. Len(g[k]) = f[k] /\ \A j \in C : j <= k => f[j] <= f[k] /\ g[k][f[j]] = s[j][1]
      BY <2>2 DEF Right
    <2>4. g[i] = g[k] \o s[i] /\ g[k] \in Seq(S) /\ s[i] \in Seq(S)
      BY <1>6, <1>7, <2>1
    <2>9. Joined(g[k], s[i])
      BY <2>4, ConcatAt
    <2>5. f[i] = f[k] + (IF i \in C THEN 1 ELSE 0) /\ f[k] \in Nat
      BY <1>5, <2>1
    <2>6. Len(g[i]) = Len(g[k]) + Len(s[i])
      BY <2>4, ConcatProperties
    <2>7. Len(g[i]) = f[i]
      BY <1>7, <2>3, <2>5, <2>6
    <2>8. ASSUME NEW j \in C, j <= i PROVE f[j] <= f[i] /\ g[i][f[j]] = s[j][1]
      <3>1. f[j] \in Nat /\ f[j] >= 1 /\ j \in 1 .. n
        BY <1>1, <1>4
      <3>2. CASE j = i
        <4>1. f[j] = Len(g[k]) + 1 /\ Len(s[i]) = 1
          BY <1>7, <2>3, <2>5, <3>2
        <4>2. (g[k] \o s[i])[Len(g[k]) + 1] = s[i][1]
          BY <2>9, <4>1, 1 \in 1 .. Len(s[i]) DEF Joined
        <4> QED
          BY <2>4, <3>1, <3>2, <4>1, <4>2
      <3>3. CASE j # i
        <4>1. j <= k
          BY <2>1, <2>8, <3>1, <3>3
        <4>2. f[j] <= f[k] /\ g[k][f[j]] = s[j][1]
          BY <2>3, <4>1
        <4>3. f[j] \in 1 .. Len(g[k])
          BY <2>3, <2>5, <3>1, <4>2
        <4>4. (g[k] \o s[i])[f[j]] = g[k][f[j]]
          BY <2>9, <4>3 DEF Joined
        <4> QED
          BY <2>4, <2>5, <3>1, <4>2, <4>4
      <3> QED
        BY <3>2, <3>3
    <2> QED
      BY <2>1, <2>7, <2>8 DEF Right
  <1> HIDE DEF Right
  <1>10. Right(n)
    <2>1. \A k \in Nat : k \in Rights
      BY <1>8, <1>9, ByInduction
    <2> QED
      BY <2>1
  <1>11. Len(g[n]) = f[n] /\ \A j \in C : g[n][f[j]] = s[j][1]
    BY <1>1, <1>10 DEF Right
  <1>12. Len(FlattenSeq(s)) = Cardinality(C)
    BY <1>2, <1>3, <1>6, <1>11, n \in 0 .. n
  <1>13. \A j \in C : FlattenSeq(s)[CountIn(C, j)] = s[j][1]
    <2>1. \A j \in C : j \in 0 .. n
      BY <1>1
    <2> QED
      BY <1>3, <1>6, <1>11, <2>1
  <1> QED
    BY <1>12, <1>13 DEF PiecesInOrder, C

----------------------------------------------------------------------------
(* Views whose axes are axes of the array, besides those with stride 0.    *)

\* Axis a of m, if in D, is axis at[a] of l; the axes of l left out have size 1.
AxisMap(l, m, D, at) ==
  /\ m.offset = l.offset
  /\ D \subseteq 1 .. Rank(m)
  /\ at \in [D -> 1 .. Rank(l)]
  /\ \A a, b \in D : at[a] = at[b] => a = b
  /\ \A a \in D : m.shape[a] = l.shape[at[a]] /\ m.strides[a] = l.strides[at[a]]
  /\ \A a \in 1 .. Rank(m) : a \notin D => m.strides[a] = 0
  /\ \A b \in 1 .. Rank(l) : (\A a \in D : at[a] # b) => l.shape[b] = 1

\* d is the coordinate of l that c is in m.
Follows(l, D, at, c, d) ==
  /\ d \in [1 .. Rank(l) -> Nat]
  /\ \A a \in D : d[at[a]] = c[a]
  /\ \A b \in 1 .. Rank(l) : (\A a \in D : at[a] # b) => d[b] = 0

\* They have one address.
LEMMA Regrouped ==
  ASSUME NEW l \in Layouts, NEW m \in Layouts, NEW D, NEW at, AxisMap(l, m, D, at),
         NEW c \in Box(m.shape), NEW d, Follows(l, D, at, c, d)
  PROVE  d \in Box(l.shape) /\ Address(m, c) = Address(l, d)
  <1>0. /\ m.offset = l.offset
        /\ D \subseteq 1 .. Rank(m)
        /\ at \in [D -> 1 .. Rank(l)]
        /\ \A a, b \in D : at[a] = at[b] => a = b
        /\ \A a \in D : m.shape[a] = l.shape[at[a]] /\ m.strides[a] = l.strides[at[a]]
        /\ \A a \in 1 .. Rank(m) : a \notin D => m.strides[a] = 0
        /\ \A b \in 1 .. Rank(l) : (\A a \in D : at[a] # b) => l.shape[b] = 1
    BY DEF AxisMap
  <1>1. /\ d \in [1 .. Rank(l) -> Nat]
        /\ \A a \in D : d[at[a]] = c[a]
        /\ \A b \in 1 .. Rank(l) : (\A a \in D : at[a] # b) => d[b] = 0
    BY DEF Follows
  <1>2. c \in [1 .. Rank(m) -> Nat] /\ \A a \in 1 .. Rank(m) : c[a] < m.shape[a]
    BY DEF Box, Rank
  <1>3. d \in Box(l.shape)
    <2>1. ASSUME NEW b \in 1 .. Rank(l) PROVE d[b] < l.shape[b]
      <3>1. CASE \A a \in D : at[a] # b
        <4>1. d[b] = 0 /\ l.shape[b] = 1
          BY <1>0, <1>1, <3>1
        <4> QED
          BY <4>1
      <3>2. CASE \E a \in D : at[a] = b
        <4>1. PICK a \in D : at[a] = b
          BY <3>2
        <4>2. d[b] = c[a] /\ m.shape[a] = l.shape[b] /\ a \in 1 .. Rank(m)
          BY <1>0, <1>1, <4>1
        <4>3. c[a] < m.shape[a]
          BY <1>2, <4>2
        <4> QED
          BY <4>2, <4>3
      <3> QED
        BY <3>1, <3>2
    <2> QED
      BY <1>1, <2>1 DEF Box, Rank
  <1> DEFINE s == [a \in 1 .. Rank(m) |-> c[a] * m.strides[a]]
             t == [b \in 1 .. Rank(l) |-> d[b] * l.strides[b]]
  <1>4. Address(m, c) = m.offset + SumSeq(s) /\ s \in [1 .. Rank(m) -> Int]
    BY AddressIsSum
  <1>5. Address(l, d) = l.offset + SumSeq(t) /\ t \in [1 .. Rank(l) -> Int]
    BY <1>3, AddressIsSum
  <1>6. \A a \in 1 .. Rank(m) : s[a] = c[a] * m.strides[a]
    OBVIOUS
  <1>7. \A b \in 1 .. Rank(l) : t[b] = d[b] * l.strides[b]
    OBVIOUS
  <1> HIDE DEF s, t
  <1>8. \A a \in D : s[a] = t[at[a]]
    <2> SUFFICES ASSUME NEW a \in D PROVE s[a] = t[at[a]]
      OBVIOUS
    <2>1. a \in 1 .. Rank(m) /\ at[a] \in 1 .. Rank(l)
      BY <1>0
    <2>2. s[a] = c[a] * m.strides[a] /\ t[at[a]] = d[at[a]] * l.strides[at[a]]
      BY <1>6, <1>7, <2>1
    <2> QED
      BY <1>0, <1>1, <2>2
  <1>9. ASSUME NEW a \in 1 .. Rank(m), a \notin D PROVE s[a] = 0
    <2>1. m.strides[a] = 0 /\ c[a] \in Nat
      BY <1>0, <1>2, <1>9
    <2> QED
      BY <1>6, <2>1
  <1>10. ASSUME NEW b \in 1 .. Rank(l), t[b] # 0 PROVE \E a \in D : at[a] = b
    <2> SUFFICES ASSUME \A a \in D : at[a] # b PROVE FALSE
      OBVIOUS
    <2>1. d[b] = 0 /\ l.strides[b] \in Int
      BY <1>1, LayoutAxes
    <2>2. t[b] = 0
      BY <1>7, <2>1
    <2> QED
      BY <1>10, <2>2
  <1>11. IsMatching(s, t, Rank(m), Rank(l), D, at)
    BY <1>0, <1>8, <1>9, <1>10 DEF IsMatching
  <1>12. Rank(m) \in Nat /\ Rank(l) \in Nat
    BY LayoutAxes
  <1>13. SumSeq(s) = SumSeq(t)
    BY <1>4, <1>5, <1>11, <1>12, SumsMatch
  <1> QED
    BY <1>0, <1>3, <1>4, <1>5, <1>13

\* With nothing else in m than axes of size 1, no two coordinates are the same one.
LEMMA RegroupedOnce ==
  ASSUME NEW l \in Layouts, NEW m \in Layouts, NEW D, NEW at, AxisMap(l, m, D, at),
         \A a \in 1 .. Rank(m) : a \notin D => m.shape[a] = 1,
         NEW c \in Box(m.shape), NEW e \in Box(m.shape), NEW d,
         Follows(l, D, at, c, d), Follows(l, D, at, e, d)
  PROVE  c = e
  <1>1. c \in [1 .. Rank(m) -> Nat] /\ \A a \in 1 .. Rank(m) : c[a] < m.shape[a]
    BY DEF Box, Rank
  <1>2. e \in [1 .. Rank(m) -> Nat] /\ \A a \in 1 .. Rank(m) : e[a] < m.shape[a]
    BY DEF Box, Rank
  <1>3. ASSUME NEW a \in 1 .. Rank(m) PROVE c[a] = e[a]
    <2>1. CASE a \in D
      BY <2>1 DEF Follows
    <2>2. CASE a \notin D
      <3>1. c[a] \in Nat /\ c[a] < 1 /\ e[a] \in Nat /\ e[a] < 1
        <4>1. m.shape[a] = 1
          BY <2>2
        <4> QED
          BY <1>1, <1>2, <4>1
      <3> QED
        BY <3>1
    <2> QED
      BY <2>1, <2>2
  <1>4. c = [a \in 1 .. Rank(m) |-> c[a]] /\ e = [a \in 1 .. Rank(m) |-> e[a]]
    BY <1>1, <1>2
  <1>5. [a \in 1 .. Rank(m) |-> c[a]] = [a \in 1 .. Rank(m) |-> e[a]]
    BY <1>3
  <1> QED
    BY <1>4, <1>5, Zenon

\* An order of the axes holds every axis.
LEMMA OrdersAreOnto ==
  ASSUME NEW n \in Nat, NEW f \in [1 .. n -> 1 .. n], \A a, b \in 1 .. n : f[a] = f[b] => a = b
  PROVE  \A b \in 1 .. n : \E a \in 1 .. n : f[a] = b
  <1>1. f \in Injection(1 .. n, 1 .. n)
    BY DEF Injection, IsInjective
  <1>2. IsFiniteSet(1 .. n)
    BY FS_Interval
  <1>3. f \in Surjection(1 .. n, 1 .. n)
    BY <1>1, <1>2, FS_Injection
  <1> QED
    BY <1>3 DEF Surjection

\* The axes of a permuted layout.
LEMMA PermutedMap ==
  ASSUME NEW l \in Layouts, NEW source \in [1 .. Rank(l) -> 1 .. Rank(l)],
         \A a, b \in 1 .. Rank(l) : source[a] = source[b] => a = b
  PROVE  /\ Rank(Permuted(l, source)) = Rank(l)
         /\ AxisMap(l, Permuted(l, source), 1 .. Rank(l), source)
  <1> DEFINE m == Permuted(l, source)
  <1>1. PICK n \in Nat : n = Rank(l)
    BY LayoutAxes
  <1>2. /\ m.shape = [a \in 1 .. n |-> l.shape[source[a]]]
        /\ m.strides = [a \in 1 .. n |-> l.strides[source[a]]]
        /\ m.offset = l.offset
    <2>1. DOMAIN source = 1 .. n
      BY <1>1
    <2>2. l = [l EXCEPT !.shape = l.shape, !.strides = l.strides] /\ DOMAIN l = {"shape", "offset", "strides"}
      BY DEF Layouts
    <2> QED
      BY <2>1, <2>2 DEF Permuted
  <1>3. Rank(m) = n
    BY <1>2 DEF Rank
  <1>4. \A b \in 1 .. n : \E a \in 1 .. n : source[a] = b
    <2>1. source \in [1 .. n -> 1 .. n] /\ \A a, b \in 1 .. n : source[a] = source[b] => a = b
      BY <1>1
    <2> QED
      BY <2>1, OrdersAreOnto
  <1> HIDE DEF m
  <1>5. AxisMap(l, m, 1 .. n, source)
    BY <1>1, <1>2, <1>3, <1>4 DEF AxisMap
  <1> QED
    BY <1>1, <1>3, <1>5 DEF m

\* Each axis that is not new has an axis of its own, and every axis is one of those.
LEMMA OldAxesAreNumbered ==
  ASSUME NEW old \in Nat, NEW rank \in Nat, NEW new \in SUBSET (1 .. rank),
         rank = old + Cardinality(new)
  PROVE  /\ \A a \in (1 .. rank) \ new : SourceAxis(a, new) \in 1 .. old
         /\ \A a, b \in (1 .. rank) \ new : SourceAxis(a, new) = SourceAxis(b, new) => a = b
         /\ \A p \in 1 .. old : \E a \in (1 .. rank) \ new : SourceAxis(a, new) = p
  <1> DEFINE C == (1 .. rank) \ new
             f == [k \in 0 .. rank |-> CountIn(new, k)]
             g == [k \in 0 .. rank |-> k - f[k]]
  <1>1. Counts(f, new, rank) /\ CountIn(new, rank) = Cardinality(new)
    BY CanCount
  <1>2. /\ f \in [0 .. rank -> Nat] /\ f[0] = 0
        /\ \A k \in 1 .. rank : f[k] = f[k - 1] + IF k \in new THEN 1 ELSE 0
    BY <1>1 DEF Counts
  <1>3. f[rank] = Cardinality(new)
    BY <1>1, rank \in 0 .. rank
  <1>4. \A k \in 0 .. rank : f[k] = CountIn(new, k)
    OBVIOUS
  <1> HIDE DEF f
  <1>5. \A k \in 0 .. rank : g[k] = k - f[k]
    OBVIOUS
  <1> HIDE DEF g
  <1>6. \A k \in 1 .. rank : g[k] = g[k - 1] + IF k \in C THEN 1 ELSE 0
    <2> SUFFICES ASSUME NEW k \in 1 .. rank PROVE g[k] = g[k - 1] + IF k \in C THEN 1 ELSE 0
      OBVIOUS
    <2>1. k \in 0 .. rank /\ k - 1 \in 0 .. rank
      OBVIOUS
    <2>2. f[k] = f[k - 1] + (IF k \in new THEN 1 ELSE 0) /\ f[k - 1] \in Nat
      BY <1>2, <2>1
    <2>3. g[k] = k - f[k] /\ g[k - 1] = (k - 1) - f[k - 1]
      BY <1>5, <2>1
    <2> QED
      BY <2>2, <2>3
  <1> DEFINE Natural == {k \in Nat : k <= rank => g[k] \in Nat}
  <1>7. \A k \in Nat : k \in Natural
    <2>1. g[0] = 0
      BY <1>2, <1>5, 0 \in 0 .. rank
    <2>2. 0 \in Natural
      BY <2>1
    <2>3. ASSUME NEW k \in Nat, k \in Natural PROVE k + 1 \in Natural
      <3> SUFFICES ASSUME k + 1 <= rank PROVE g[k + 1] \in Nat
        OBVIOUS
      <3>1. k + 1 \in 1 .. rank /\ (k + 1) - 1 = k /\ g[k] \in Nat
        BY <2>3
      <3>2. g[k + 1] = g[k] + (IF k + 1 \in C THEN 1 ELSE 0)
        BY <1>6, <3>1
      <3> QED
        BY <3>1, <3>2
    <2> HIDE DEF Natural
    <2> QED
      BY <2>2, <2>3, ByInduction
  <1>8. Counts(g, C, rank)
    <2>1. g = [k \in 0 .. rank |-> g[k]]
      BY DEF g
    <2>2. g \in [0 .. rank -> Nat]
      BY <1>7, <2>1
    <2>3. g[0] = 0
      BY <1>2, <1>5, 0 \in 0 .. rank
    <2> HIDE DEF C
    <2> QED
      BY <1>6, <2>2, <2>3 DEF Counts
  <1>9. C \in SUBSET (1 .. rank)
    OBVIOUS
  <1>10. g[rank] = old
    <2>1. Cardinality(new) \in Nat
      BY rank \in Int, FirstFinite
    <2> QED
      BY <1>3, <1>5, <2>1, rank \in 0 .. rank
  <1> HIDE DEF C
  <1>11. /\ \A k \in C : g[k] \in 1 .. old
         /\ \A j, k \in C : g[j] = g[k] => j = k
         /\ \A p \in 1 .. old : \E k \in C : g[k] = p
    <2>1. /\ \A k \in C : g[k] \in 1 .. g[rank]
          /\ \A j, k \in C : g[j] = g[k] => j = k
          /\ \A p \in 1 .. g[rank] : \E k \in C : g[k] = p
      <3>1. Numbered(g, C, rank)
        BY <1>8, <1>9, CountsNumber
      <3> QED
        BY <3>1 DEF Numbered
    <2> QED
      BY <1>10, <2>1
  <1>12. ASSUME NEW a \in C PROVE SourceAxis(a, new) = g[a]
    <2>1. a \in 0 .. rank /\ a \notin new
      BY <1>9 DEF C
    <2>2. {b \in new : b < a} = {b \in new : b <= a}
      <3>1. \A b \in new : b \in Nat /\ b # a
        BY <2>1
      <3>2. \A b \in new : b < a <=> b <= a
        BY <2>1, <3>1
      <3> QED
        BY <3>2
    <2>3. SourceAxis(a, new) = a - CountIn(new, a)
      BY <2>2 DEF SourceAxis, CountIn
    <2> QED
      BY <1>4, <1>5, <2>1, <2>3
  <1> QED
    BY <1>11, <1>12 DEF C

\* The axes of an expanded layout.
LEMMA ExpandedMap ==
  ASSUME NEW l \in Layouts, NEW rank \in Nat, NEW new \in SUBSET (1 .. rank),
         rank = Rank(l) + Cardinality(new)
  PROVE  /\ Rank(Expanded(l, new)) = rank
         /\ \A a \in new : Expanded(l, new).shape[a] = 1
         /\ AxisMap(l, Expanded(l, new), (1 .. rank) \ new, [a \in (1 .. rank) \ new |-> SourceAxis(a, new)])
  <1> DEFINE m == Expanded(l, new)
             D == (1 .. rank) \ new
             at == [a \in D |-> SourceAxis(a, new)]
  <1>1. PICK n \in Nat : n = Rank(l)
    BY LayoutAxes
  <1>2. /\ m.shape = [a \in 1 .. rank |-> IF a \in new THEN 1 ELSE l.shape[SourceAxis(a, new)]]
        /\ m.strides = [a \in 1 .. rank |-> IF a \in new THEN 0 ELSE l.strides[SourceAxis(a, new)]]
        /\ m.offset = l.offset
    <2>2. l = [l EXCEPT !.shape = l.shape, !.strides = l.strides] /\ DOMAIN l = {"shape", "offset", "strides"}
      BY DEF Layouts
    <2> QED
      BY <2>2 DEF Expanded
  <1>3. Rank(m) = rank
    BY <1>2 DEF Rank
  <1>4. /\ \A a \in D : SourceAxis(a, new) \in 1 .. n
        /\ \A a, b \in D : SourceAxis(a, new) = SourceAxis(b, new) => a = b
        /\ \A p \in 1 .. n : \E a \in D : SourceAxis(a, new) = p
    BY <1>1, OldAxesAreNumbered
  <1>5. \A a \in D : at[a] = SourceAxis(a, new)
    OBVIOUS
  <1>6. at \in [D -> 1 .. n]
    BY <1>4
  <1>7. D \subseteq 1 .. rank /\ \A a \in 1 .. rank : a \in D <=> a \notin new
    OBVIOUS
  <1> HIDE DEF m, D, at
  <1>8. AxisMap(l, m, D, at)
    BY <1>1, <1>2, <1>3, <1>4, <1>5, <1>6, <1>7 DEF AxisMap
  <1>9. \A a \in new : m.shape[a] = 1
    BY <1>2
  <1> QED
    BY <1>3, <1>8, <1>9 DEF m, D, at

\* The axes of a broadcast layout.
LEMMA BroadcastMap ==
  ASSUME NEW l \in Layouts, NEW new \in Seq(Nat), ValidBroadcast(l.shape, new),
         NEW shift, shift = Len(new) - Rank(l),
         NEW D, D = {a \in 1 .. Len(new) : a > shift /\ l.shape[a - shift] # 1}
  PROVE  /\ Rank(Broadcast(l, new)) = Len(new)
         /\ AxisMap(l, Broadcast(l, new), D, [a \in D |-> a - shift])
  <1> DEFINE m == Broadcast(l, new)
             at == [a \in D |-> a - shift]
  <1>1. PICK n \in Nat : n = Rank(l) /\ n = Len(l.shape) /\ DOMAIN l.shape = 1 .. n
    BY LayoutAxes DEF Rank
  <1>2. PICK k \in Nat : k = Len(new) /\ DOMAIN new = 1 .. k
    OBVIOUS
  <1>3. PICK z \in Nat : z = shift /\ k = n + z
    BY <1>1, <1>2 DEF ValidBroadcast
  <1>31. \A a \in 1 .. n : l.shape[a] = 1 \/ l.shape[a] = new[z + a]
    <2>1. \A a \in 1 .. n : l.shape[a] \in {1, new[Len(new) - Len(l.shape) + a]}
      BY <1>1 DEF ValidBroadcast
    <2>2. Len(new) - Len(l.shape) = z
      BY <1>1, <1>2, <1>3
    <2> QED
      BY <2>1, <2>2
  <1>4. m.shape = new /\ m.offset = l.offset /\ m.strides = BroadcastStrides(l, new) /\ Rank(m) = k
    BY <1>2 DEF Broadcast, Rank
  <1>5. \A a \in 1 .. k : m.strides[a] = IF a <= z \/ l.shape[a - z] = 1 THEN 0 ELSE l.strides[a - z]
    BY <1>2, <1>3, <1>4 DEF BroadcastStrides
  <1>6. \A a : a \in D <=> a \in 1 .. k /\ a > z /\ l.shape[a - z] # 1
    BY <1>2, <1>3
  <1>7. ASSUME NEW a \in D PROVE at[a] = a - z /\ a - z \in 1 .. n
    <2>1. a \in 1 .. k /\ a > z
      BY <1>6
    <2> QED
      BY <1>3, <2>1
  <1>8. at \in [D -> 1 .. n]
    BY <1>7
  <1> HIDE DEF m, at
  <1>9. ASSUME NEW a \in D PROVE m.shape[a] = l.shape[at[a]] /\ m.strides[a] = l.strides[at[a]]
    <2>1. a \in 1 .. k /\ a > z /\ l.shape[a - z] # 1 /\ a - z \in 1 .. n
      BY <1>6, <1>7
    <2>2. ~(a <= z) /\ z + (a - z) = a
      BY <2>1
    <2> QED
      BY <1>31, <1>4, <1>5, <1>7, <2>1, <2>2
  <1>10. ASSUME NEW a \in 1 .. k, a \notin D PROVE m.strides[a] = 0
    <2>1. a <= z \/ l.shape[a - z] = 1
      BY <1>6, <1>10
    <2> QED
      BY <1>5, <2>1
  <1>11. ASSUME NEW b \in 1 .. n, l.shape[b] # 1 PROVE \E a \in D : at[a] = b
    <2>1. b + z \in 1 .. k /\ b + z > z /\ (b + z) - z = b
      BY <1>3
    <2>2. b + z \in D
      BY <1>6, <1>11, <2>1
    <2> QED
      BY <1>7, <2>1, <2>2
  <1>12. \A a, b \in D : at[a] = at[b] => a = b
    <2>1. \A a \in D : a \in Nat /\ at[a] = a - z
      BY <1>6, <1>7
    <2> QED
      BY <2>1
  <1>13. D \subseteq 1 .. k
    BY <1>6
  <1>14. AxisMap(l, m, D, at)
    BY <1>1, <1>4, <1>8, <1>9, <1>10, <1>11, <1>12, <1>13 DEF AxisMap
  <1> QED
    BY <1>2, <1>4, <1>14 DEF m, at

----------------------------------------------------------------------------
(* What a view by an index shows.                                          *)

\* i is an index, counted from the front, on axis a.
OnAxis(shape, a, i) == a \in 1 .. Len(shape) /\ i \in 0 .. shape[a] - 1

\* The integers of normalized arguments are indices on the axes they consume.
IntsOnAxes(shape, args) ==
  \A k \in DOMAIN args : args[k].kind = "int" => OnAxis(shape, 1 + CountTo(args, k - 1), args[k].at)

\* All arguments counted.
LEMMA ConsumedIsCountTo ==
  ASSUME NEW S, NEW args \in Seq(S)
  PROVE  Consumed(args) = CountTo(args, Len(args))
  <1>1. DOMAIN args = 1 .. Len(args)
    OBVIOUS
  <1> QED
    BY <1>1 DEF Consumed, CountTo

\* Arguments count alike in sequences that begin alike.
LEMMA SameCount ==
  ASSUME NEW s, NEW t, NEW k \in Nat, \A j \in 1 .. k : s[j] = t[j]
  PROVE  CountTo(s, k) = CountTo(t, k)
  <1>1. {j \in 1 .. k : Consuming(s[j])} = {j \in 1 .. k : Consuming(t[j])}
    OBVIOUS
  <1> QED
    BY <1>1 DEF CountTo

\* A piece with at most one integer, which is on the axis it consumes.
PieceOnAxis(shape, a, t) ==
  \A j \in 1 .. Len(t) : t[j].kind = "int" => Len(t) = 1 /\ OnAxis(shape, a, t[1].at)

\* Arguments with one more piece.
LEMMA IntsConcat ==
  ASSUME NEW shape, NEW s \in Seq(NormalArguments), NEW t \in Seq(NormalArguments),
         IntsOnAxes(shape, s), PieceOnAxis(shape, 1 + Consumed(s), t)
  PROVE  IntsOnAxes(shape, s \o t)
  <1>1. PICK m \in Nat, n \in Nat : m = Len(s) /\ n = Len(t)
    OBVIOUS
  <1>2. DOMAIN s = 1 .. m /\ DOMAIN (s \o t) = 1 .. m + n
    BY <1>1, ConcatProperties
  <1>3. Joined(s, t)
    BY ConcatAt
  <1>4. (\A i \in 1 .. m : (s \o t)[i] = s[i]) /\ \A i \in 1 .. n : (s \o t)[m + i] = t[i]
    BY <1>1, <1>3 DEF Joined
  <1> SUFFICES ASSUME NEW k \in 1 .. m + n, (s \o t)[k].kind = "int"
               PROVE  OnAxis(shape, 1 + CountTo(s \o t, k - 1), (s \o t)[k].at)
    BY <1>2 DEF IntsOnAxes
  <1>5. CASE k <= m
    <2>1. k \in 1 .. m /\ k - 1 \in Nat /\ \A j \in 1 .. k - 1 : j \in 1 .. m
      BY <1>5
    <2>2. CountTo(s \o t, k - 1) = CountTo(s, k - 1)
      <3>1. \A j \in 1 .. k - 1 : (s \o t)[j] = s[j]
        BY <1>4, <2>1
      <3> QED
        BY <2>1, <3>1, SameCount
    <2>3. (s \o t)[k] = s[k] /\ s[k].kind = "int"
      BY <1>4, <2>1
    <2>4. OnAxis(shape, 1 + CountTo(s, k - 1), s[k].at)
      BY <1>2, <2>1, <2>3 DEF IntsOnAxes
    <2> QED
      BY <2>2, <2>3, <2>4
  <1>6. CASE k > m
    <2>1. PICK j \in 1 .. n : k = m + j
      <3>1. k - m \in 1 .. n /\ k = m + (k - m)
        BY <1>6
      <3> QED
        BY <3>1
    <2>2. (s \o t)[k] = t[j] /\ t[j].kind = "int"
      BY <1>4, <2>1
    <2>3. n = 1 /\ OnAxis(shape, 1 + Consumed(s), t[1].at)
      BY <1>1, <2>2 DEF PieceOnAxis
    <2>4. j = 1 /\ k - 1 = m
      BY <2>1, <2>3
    <2>5. CountTo(s \o t, k - 1) = Consumed(s)
      <3>1. CountTo(s \o t, m) = CountTo(s, m)
        BY <1>4, SameCount
      <3>2. Consumed(s) = CountTo(s, m)
        BY <1>1, ConsumedIsCountTo
      <3> QED
        BY <2>4, <3>1, <3>2
    <2> QED
      BY <2>2, <2>3, <2>4, <2>5
  <1>7. k <= m \/ k > m
    <2>1. k \in Nat
      OBVIOUS
    <2> QED
      BY <2>1
  <1> QED
    BY <1>5, <1>6, <1>7

\* The axis an argument consumes, when no ellipsis is left or it is still there.
LEMMA AxisIsCount ==
  ASSUME NEW shape, NEW args, NEW k \in DOMAIN args, DOMAIN args \subseteq Nat \ {0},
         \A j \in 1 .. k - 1 : j \in DOMAIN args
  PROVE  AxisOf(args, k, Len(shape)) = 1 + CountTo(args, k - 1) + SkippedTo(shape, args, k - 1)
  <1>1. (\E j \in Ellipses(args) : j < k) <=> \E j \in 1 .. k - 1 : args[j].kind = "ellipsis"
    <2>1. ASSUME NEW j \in Ellipses(args), j < k PROVE j \in 1 .. k - 1 /\ args[j].kind = "ellipsis"
      <3>1. j \in DOMAIN args /\ args[j].kind = "ellipsis"
        BY DEF Ellipses
      <3>2. j \in Nat \ {0} /\ k \in Nat
        BY <3>1
      <3> QED
        BY <2>1, <3>1, <3>2
    <2>2. ASSUME NEW j \in 1 .. k - 1, args[j].kind = "ellipsis" PROVE j \in Ellipses(args) /\ j < k
      <3>1. k \in Nat /\ j < k
        OBVIOUS
      <3> QED
        BY <2>2, <3>1 DEF Ellipses
    <2> QED
      BY <2>1, <2>2
  <1> QED
    BY <1>1 DEF AxisOf, CountTo, SkippedTo

\* An index that is valid is on its axis once it is normalized.
LEMMA NormalOnAxis ==
  ASSUME NEW i \in Int, NEW dim \in Nat, -dim <= i, i < dim
  PROVE  NormalIndex("formula", i, dim) \in 0 .. dim - 1
  BY DEF NormalIndex

\* The integers of the expanded arguments are on their axes.
LEMMA ExpandedInts ==
  ASSUME NEW shape \in Seq(Nat), NEW args \in Seq(Arguments), ValidIndex(shape, args)
  PROVE  IntsOnAxes(shape, AllExpanded("formula", shape, args))
  <1>1. PICK n \in Nat : n = Len(args) /\ DOMAIN args = 1 .. n
    OBVIOUS
  <1>2. PICK g : IsExpansion(shape, args, g)
    BY ExpandedInTurn
  <1>3. /\ g \in [0 .. n -> Seq(NormalArguments)]
        /\ g[0] = <<>>
        /\ \A k \in 1 .. n : g[k] = g[k - 1] \o Expansion("formula", shape, args, k)
        /\ AllExpanded("formula", shape, args) = g[n]
        /\ \A k \in 0 .. n : Consumed(g[k]) = CountTo(args, k) + SkippedTo(shape, args, k)
    BY <1>1, <1>2 DEF IsExpansion
  <1> DEFINE Right == {k \in Nat : k <= n => IntsOnAxes(shape, g[k])}
  <1>4. 0 \in Right
    BY <1>3 DEF IntsOnAxes
  <1>5. ASSUME NEW k \in Nat, k \in Right PROVE k + 1 \in Right
    <2> SUFFICES ASSUME k + 1 <= n PROVE IntsOnAxes(shape, g[k + 1])
      OBVIOUS
    <2>1. PICK i \in 1 .. n : i = k + 1 /\ i - 1 = k /\ k \in 0 .. n
      OBVIOUS
    <2> DEFINE t == Expansion("formula", shape, args, i)
    <2>2. g[i] = g[k] \o t /\ g[k] \in Seq(NormalArguments) /\ IntsOnAxes(shape, g[k])
      <3>1. IntsOnAxes(shape, g[k])
        BY <1>5, <2>1
      <3>2. g[i] = g[i - 1] \o Expansion("formula", shape, args, i)
        BY <1>3
      <3>3. g[k] \in Seq(NormalArguments)
        BY <1>3, <2>1
      <3> QED
        BY <2>1, <3>1, <3>2, <3>3
    <2>3. t \in Seq(NormalArguments)
      BY <1>1, ExpansionIsNormal
    <2>4. Consumed(g[k]) = CountTo(args, i - 1) + SkippedTo(shape, args, i - 1)
      BY <1>3, <2>1
    <2>5. AxisOf(args, i, Len(shape)) = 1 + CountTo(args, i - 1) + SkippedTo(shape, args, i - 1)
      <3>1. i \in DOMAIN args /\ DOMAIN args \subseteq Nat \ {0} /\ \A j \in 1 .. i - 1 : j \in DOMAIN args
        BY <1>1
      <3> QED
        BY <3>1, AxisIsCount
    <2>6. Consumed(g[k]) \in Nat /\ CountTo(args, i - 1) \in Nat
      <3>1. Consumed(g[k]) \in Nat
        BY <2>2, ConsumedIsCount
      <3> QED
        BY <2>1, <3>1, CountStep
    <2>7. PieceOnAxis(shape, 1 + Consumed(g[k]), t)
      <3>1. CASE args[i].kind = "ellipsis"
        <4>1. t = [j \in 1 .. Skipped(args, Len(shape)) |-> Full]
          BY <3>1 DEF Expansion
        <4>2. Skipped(args, Len(shape)) \in Nat
          BY ConsumedIsCount DEF ValidIndex, Skipped
        <4>3. \A j \in 1 .. Len(t) : t[j].kind = "slice"
          BY <4>1, <4>2 DEF Full, Slice
        <4> HIDE DEF t
        <4> QED
          BY <4>3 DEF PieceOnAxis
      <3>2. CASE args[i].kind = "int"
        <4>1. PICK a \in 1 .. Len(shape) : a = AxisOf(args, i, Len(shape))
          <5>1. Len(shape) \in Nat /\ Consumed(args) <= Len(shape) /\ i \in DOMAIN args /\ Consuming(args[i])
            BY <1>1, <3>2 DEF ValidIndex, Consuming
          <5> QED
            BY <5>1, AxisIsOnView
        <4>2. PICK dim \in Nat : dim = shape[a]
          OBVIOUS
        <4>3. -dim <= args[i].at /\ args[i].at < dim
          BY <1>1, <3>2, <4>1, <4>2 DEF ValidIndex
        <4>4. args[i] \in Arguments
          BY <1>1
        <4>5. args[i].at \in Int
          BY <3>2, <4>4 DEF Arguments
        <4>6. NormalIndex("formula", args[i].at, dim) \in 0 .. dim - 1
          BY <4>3, <4>5, NormalOnAxis
        <4>7. t = <<Int1(NormalIndex("formula", args[i].at, dim))>>
          BY <3>2, <4>1, <4>2 DEF Expansion
        <4>8. Len(t) = 1 /\ t[1].at = NormalIndex("formula", args[i].at, dim)
          BY <4>7 DEF Int1
        <4>9. SkippedTo(shape, args, i - 1) = Consumed(g[k]) - CountTo(args, i - 1) => a = 1 + Consumed(g[k])
          BY <2>5, <2>6, <4>1
        <4>10. a = 1 + Consumed(g[k])
          <5>1. SkippedTo(shape, args, i - 1) \in Int
            BY ConsumedIsCount DEF SkippedTo, Skipped
          <5> QED
            BY <2>4, <2>6, <4>9, <5>1
        <4> HIDE DEF t
        <4> QED
          BY <4>2, <4>6, <4>8, <4>10 DEF PieceOnAxis, OnAxis
      <3>3. CASE args[i].kind \notin {"ellipsis", "int"}
        <4>1. t = <<args[i]>>
          BY <3>3 DEF Expansion
        <4>2. \A j \in 1 .. Len(t) : t[j].kind # "int"
          BY <3>3, <4>1
        <4> HIDE DEF t
        <4> QED
          BY <4>2 DEF PieceOnAxis
      <3> QED
        BY <3>1, <3>2, <3>3
    <2> HIDE DEF t
    <2>8. IntsOnAxes(shape, g[k] \o t)
      BY <2>2, <2>3, <2>7, IntsConcat
    <2> QED
      BY <2>1, <2>2, <2>8
  <1>6. n \in Right
    BY <1>4, <1>5, ByInduction
  <1> QED
    BY <1>3, <1>6

\* So are those of all normalized arguments.
LEMMA NormalizedInts ==
  ASSUME NEW shape \in Seq(Nat), NEW args \in Seq(Arguments), ValidIndex(shape, args)
  PROVE  IntsOnAxes(shape, Normalize("formula", shape, args))
  <1> DEFINE e == AllExpanded("formula", shape, args)
             rest == [j \in 1 .. Skipped(e, Len(shape)) |-> Full]
  <1>1. e \in Seq(NormalArguments) /\ Consumed(e) \in {Consumed(args), Len(shape)} /\ IntsOnAxes(shape, e)
    BY ExpandedConsumes, ExpandedInts
  <1>2. Normalize("formula", shape, args) = e \o rest
    BY NormalizeIsExpanded
  <1>3. Consumed(args) \in Nat /\ Consumed(args) <= Len(shape) /\ Len(shape) \in Nat
    BY ConsumedIsCount DEF ValidIndex
  <1>4. Skipped(e, Len(shape)) \in Nat
    BY <1>1, <1>3 DEF Skipped
  <1>5. rest \in Seq(NormalArguments)
    BY <1>4, FullsAreNormal
  <1>6. \A j \in 1 .. Len(rest) : rest[j].kind = "slice"
    BY <1>4 DEF Full, Slice
  <1> HIDE DEF e, rest
  <1>7. PieceOnAxis(shape, 1 + Consumed(e), rest)
    BY <1>6 DEF PieceOnAxis
  <1> QED
    BY <1>1, <1>2, <1>5, <1>7, IntsConcat

Affine(f, k, b, s) == f * s + k * (b * s) = (f + k * b) * s

\* Scaling an arithmetic progression.
LEMMA Progression ==
  ASSUME NEW f \in Int, NEW k \in Int, NEW b \in Int, NEW s \in Int
  PROVE  Affine(f, k, b, s)
  <1>1. PICK m \in Int : m = k * b
    OBVIOUS
  <1>2. (f + m) * s = f * s + m * s
    OBVIOUS
  <1>3. (k * b) * s = k * (b * s)
    OBVIOUS
  <1>4. m * s = k * (b * s)
    BY <1>1, <1>3
  <1>5. (f + k * b) * s = f * s + k * (b * s)
    BY <1>1, <1>2, <1>4
  <1> QED
    BY <1>5 DEF Affine

\* The element of a slice at i is that of the axis at start + i * step.
LEMMA SliceElement ==
  ASSUME NEW dim \in Nat, NEW stride \in Int,
         NEW start \in Part, NEW stop \in Part, NEW step \in Step,
         NEW s, s = FormulaSlice(dim, stride, start, stop, step),
         NEW i \in Nat, i < s.dim
  PROVE  /\ s.delta + i * s.stride = (PyStart(dim, start, step) + i * StepOf(step)) * stride
         /\ PyStart(dim, start, step) + i * StepOf(step) \in 0 .. dim - 1
  <1>1. PICK first \in Int : first = PyStart(dim, start, step) /\ first = FormulaStart(dim, start, step)
    BY StartIsOnAxis, StartsAgree
  <1>2. PICK by \in Int : by = StepOf(step)
    BY StepIsNonzero
  <1>3. PICK count : s = Contribution(count, first, by, stride)
    BY <1>1, <1>2 DEF FormulaSlice
  <1>4. count # 0
    <2>1. count = 0 => s.dim = 0
      BY <1>3 DEF Contribution
    <2> QED
      BY <2>1
  <1>5. s.delta = first * stride /\ s.stride = by * stride
    BY <1>3, <1>4 DEF Contribution
  <1>6. Affine(first, i, by, stride)
    BY Progression
  <1>7. s.delta + i * s.stride = (first + i * by) * stride
    BY <1>5, <1>6 DEF Affine
  <1>8. PyStart(dim, start, step) + i * StepOf(step) \in 0 .. dim - 1
    BY SlicesStayOnTheirAxis
  <1> QED
    BY <1>1, <1>2, <1>7, <1>8

----------------------------------------------------------------------------
(* The axes of the array and of the view that an argument is about.        *)

Kept(args) == {k \in 1 .. Len(args) : args[k].kind # "int"}
AxisNumber(args, k) == CountIn(ConsumingAt(args), k)
Along(args, k) == CountIn(Kept(args), k)

\* The coordinate on axis a that argument arg shows at i.
ShownAt(l, arg, a, i) ==
  IF arg.kind = "int" THEN arg.at ELSE PyStart(l.shape[a], arg.start, arg.step) + i * StepOf(arg.step)

\* What argument k adds to the address of a coordinate that is i on its axis.
Added(l, args, k, i) ==
  LET part == PartOf("formula", l, args, k)
  IN  part.delta + IF k \in Kept(args) THEN i * part.strides[1] ELSE 0

\* Each consuming argument has an axis of the array, and each axis an argument.
LEMMA AxesAreNumbered ==
  ASSUME NEW rank \in Nat, NEW args \in Seq(NormalArguments), Consumed(args) = rank
  PROVE  /\ \A k \in ConsumingAt(args) :
              /\ AxisOf(args, k, rank) = AxisNumber(args, k)
              /\ 1 + CountTo(args, k - 1) = AxisNumber(args, k)
              /\ AxisNumber(args, k) \in 1 .. rank
         /\ \A j, k \in ConsumingAt(args) : AxisNumber(args, j) = AxisNumber(args, k) => j = k
         /\ \A a \in 1 .. rank : \E k \in ConsumingAt(args) : AxisNumber(args, k) = a
  <1> DEFINE C == ConsumingAt(args)
  <1>1. PICK n \in Nat : n = Len(args) /\ DOMAIN args = 1 .. n
    OBVIOUS
  <1>2. C \in SUBSET (1 .. n) /\ Cardinality(C) = rank
    BY <1>1, ConsumedIsCount
  <1>3. /\ \A k \in C : CountIn(C, k) \in 1 .. Cardinality(C)
        /\ \A j, k \in C : CountIn(C, j) = CountIn(C, k) => j = k
        /\ \A p \in 1 .. Cardinality(C) : \E k \in C : CountIn(C, k) = p
    <2> HIDE DEF C
    <2> QED
      BY <1>2, MembersAreNumbered
  <1>4. ASSUME NEW k \in C PROVE AxisOf(args, k, rank) = CountIn(C, k) /\ 1 + CountTo(args, k - 1) = CountIn(C, k)
    <2>0. k \in 1 .. n /\ k \in DOMAIN args /\ Consuming(args[k])
      BY <1>1 DEF ConsumingAt
    <2>1. {j \in 1 .. k : Consuming(args[j])} = {j \in C : j <= k}
      <3>1. ASSUME NEW j \in 1 .. k PROVE j \in DOMAIN args /\ j <= k
        BY <1>1, <2>0
      <3>2. ASSUME NEW j \in C, j <= k PROVE j \in 1 .. k /\ Consuming(args[j])
        BY <1>1, <2>0, <3>2 DEF ConsumingAt
      <3>3. \A j : j \in C <=> j \in DOMAIN args /\ Consuming(args[j])
        BY DEF ConsumingAt
      <3> HIDE DEF C
      <3> QED
        BY <3>1, <3>2, <3>3
    <2>2. CountTo(args, k) = CountIn(C, k)
      BY <2>1 DEF CountTo, CountIn
    <2>3. k - 1 \in Nat /\ (k - 1) + 1 = k
      BY <2>0
    <2>4. CountTo(args, k) = CountTo(args, k - 1) + 1 /\ CountTo(args, k - 1) \in Nat
      <3>1. CountTo(args, (k - 1) + 1) = CountTo(args, k - 1) + IF Consuming(args[(k - 1) + 1]) THEN 1 ELSE 0
        BY <2>3, CountStep
      <3>2. CountTo(args, k - 1) \in Nat
        BY <2>3, CountStep
      <3> QED
        BY <2>0, <2>3, <3>1, <3>2
    <2>5. Ellipses(args) = {}
      <3>1. \A j \in DOMAIN args : args[j].kind # "ellipsis"
        <4>1. \A j \in DOMAIN args : args[j] \in NormalArguments
          OBVIOUS
        <4>2. \A x \in NormalArguments : x.kind # "ellipsis"
          BY DEF NormalArguments
        <4> QED
          BY <4>1, <4>2
      <3> QED
        BY <3>1 DEF Ellipses
    <2>6. AxisOf(args, k, rank) = 1 + CountTo(args, k - 1)
      BY <2>4, <2>5 DEF AxisOf, CountTo
    <2> QED
      BY <2>2, <2>4, <2>6
  <1> QED
    BY <1>2, <1>3, <1>4 DEF AxisNumber

\* What a consuming argument adds is what its coordinate adds to the array's address.
LEMMA ArgumentShows ==
  ASSUME NEW l \in Layouts, NEW args \in Seq(NormalArguments), Consumed(args) = Rank(l),
         IntsOnAxes(l.shape, args),
         NEW k \in ConsumingAt(args), NEW a, a = AxisNumber(args, k),
         NEW i, k \in Kept(args) => i \in Nat /\ i < PartOf("formula", l, args, k).shape[1]
  PROVE  /\ Added(l, args, k, i) = ShownAt(l, args[k], a, i) * l.strides[a]
         /\ ShownAt(l, args[k], a, i) \in 0 .. l.shape[a] - 1
  <1>0. k \in DOMAIN args /\ k \in 1 .. Len(args) /\ Consuming(args[k]) /\ args[k] \in NormalArguments
    BY DEF ConsumingAt
  <1>1. Rank(l) \in Nat /\ Rank(l) = Len(l.shape)
    BY LayoutAxes DEF Rank
  <1>2. AxisOf(args, k, Rank(l)) = a /\ 1 + CountTo(args, k - 1) = a /\ a \in 1 .. Rank(l)
    BY <1>1, AxesAreNumbered
  <1>3. PICK dim \in Nat, stride \in Int : dim = l.shape[a] /\ stride = l.strides[a]
    BY <1>2, LayoutAxes
  <1>4. CASE args[k].kind = "int"
    <2>1. PartOf("formula", l, args, k) = [shape |-> <<>>, strides |-> <<>>, delta |-> args[k].at * stride]
      BY <1>2, <1>3, <1>4 DEF PartOf
    <2>2. k \notin Kept(args)
      BY <1>4 DEF Kept
    <2>3. OnAxis(l.shape, a, args[k].at)
      BY <1>0, <1>2, <1>4 DEF IntsOnAxes
    <2>4. args[k].at \in 0 .. dim - 1
      BY <1>3, <2>3 DEF OnAxis
    <2>5. args[k].at * stride \in Int
      BY <2>4
    <2>6. Added(l, args, k, i) = args[k].at * stride
      BY <2>1, <2>2, <2>5 DEF Added
    <2>7. ShownAt(l, args[k], a, i) = args[k].at
      BY <1>4 DEF ShownAt
    <2> QED
      BY <1>3, <2>4, <2>6, <2>7
  <1>5. CASE args[k].kind = "slice"
    <2>1. PICK start \in Part, stop \in Part, step \in Step :
             start = args[k].start /\ stop = args[k].stop /\ step = args[k].step
      BY <1>0, <1>5 DEF NormalArguments
    <2>2. PICK s : s = FormulaSlice(dim, stride, start, stop, step)
      OBVIOUS
    <2>3. PartOf("formula", l, args, k) = [shape |-> <<s.dim>>, strides |-> <<s.stride>>, delta |-> s.delta]
      BY <1>2, <1>3, <1>5, <2>1, <2>2 DEF PartOf, SliceOf
    <2>4. k \in Kept(args)
      BY <1>0, <1>5 DEF Kept
    <2>5. i \in Nat /\ i < s.dim
      BY <2>3, <2>4
    <2>6. /\ s.delta + i * s.stride = (PyStart(dim, start, step) + i * StepOf(step)) * stride
          /\ PyStart(dim, start, step) + i * StepOf(step) \in 0 .. dim - 1
      BY <2>2, <2>5, SliceElement
    <2>7. Added(l, args, k, i) = s.delta + i * s.stride
      BY <2>3, <2>4 DEF Added
    <2>8. ShownAt(l, args[k], a, i) = PyStart(dim, start, step) + i * StepOf(step)
      BY <1>3, <1>5, <2>1 DEF ShownAt
    <2> QED
      BY <1>3, <2>6, <2>7, <2>8
  <1> QED
    BY <1>0, <1>4, <1>5 DEF Consuming

\* The layout of a view, argument by argument.
ResolvedAs(l, args, m) ==
  /\ Rank(m) = Cardinality(Kept(args))
  /\ \A k \in Kept(args) :
       LET part == PartOf("formula", l, args, k)
       IN  m.shape[Along(args, k)] = part.shape[1] /\ m.strides[Along(args, k)] = part.strides[1]
  /\ m.offset = l.offset + SumSeq([k \in 1 .. Len(args) |-> PartOf("formula", l, args, k).delta])

\* What is kept of an argument.
LEMMA PartKept ==
  ASSUME NEW l \in Layouts, NEW args \in Seq(NormalArguments), Consumed(args) = Rank(l),
         NEW k \in 1 .. Len(args), NEW part, part = PartOf("formula", l, args, k)
  PROVE  /\ part \in Parts /\ Len(part.shape) = Len(part.strides)
         /\ Len(part.shape) = IF k \in Kept(args) THEN 1 ELSE 0
  <1>1. k \in DOMAIN args /\ Consumed(args) <= Rank(l) /\ args[k] \in NormalArguments
    BY LayoutAxes
  <1>2. part \in Parts /\ Len(part.shape) = Len(part.strides)
    BY <1>1, PartType
  <1>3. k \in Kept(args) <=> args[k].kind # "int"
    BY DEF Kept
  <1>4. args[k].kind \in {"newaxis", "slice", "int"}
    BY <1>1 DEF NormalArguments
  <1>5. CASE args[k].kind = "int"
    <2>1. part.shape = <<>>
      BY <1>5 DEF PartOf
    <2> QED
      BY <1>2, <1>3, <1>5, <2>1
  <1>6. CASE args[k].kind = "slice"
    <2>1. \E dim : part.shape = <<dim>>
      BY <1>6 DEF PartOf
    <2> QED
      BY <1>2, <1>3, <1>6, <2>1
  <1>7. CASE args[k].kind = "newaxis"
    <2>1. part.shape = <<1>>
      BY <1>7 DEF PartOf
    <2> QED
      BY <1>2, <1>3, <1>7, <2>1
  <1> QED
    BY <1>4, <1>5, <1>6, <1>7

\* Resolving normalized arguments, one after the other.
LEMMA ResolvedByArgument ==
  ASSUME NEW l \in Layouts, NEW args \in Seq(NormalArguments), Consumed(args) = Rank(l),
         NEW m, m = Resolve("formula", l, args)
  PROVE  ResolvedAs(l, args, m)
  <1>1. PICK n \in Nat : n = Len(args) /\ DOMAIN args = 1 .. n
    OBVIOUS
  <1> DEFINE p(k) == PartOf("formula", l, args, k)
             shapes == [k \in 1 .. n |-> p(k).shape]
             strides == [k \in 1 .. n |-> p(k).strides]
             deltas == [k \in 1 .. n |-> p(k).delta]
  <1>2. \A k \in 1 .. n : /\ p(k) \in Parts /\ Len(p(k).shape) = Len(p(k).strides)
                          /\ Len(p(k).shape) = IF k \in Kept(args) THEN 1 ELSE 0
    BY <1>1, PartKept
  <1>3. m.shape = FlattenSeq(shapes) /\ m.strides = FlattenSeq(strides) /\ m.offset = l.offset + SumSeq(deltas)
    <2>1. \A k \in 1 .. n : PartsOf("formula", l, args)[k] = p(k)
      BY <1>1 DEF PartsOf
    <2>2. /\ [k \in DOMAIN args |-> PartsOf("formula", l, args)[k].shape] = shapes
          /\ [k \in DOMAIN args |-> PartsOf("formula", l, args)[k].strides] = strides
          /\ [k \in DOMAIN args |-> PartsOf("formula", l, args)[k].delta] = deltas
      BY <1>1, <2>1
    <2> HIDE DEF p, shapes, strides, deltas
    <2>3. m = [shape |-> FlattenSeq(shapes), offset |-> l.offset + SumSeq(deltas), strides |-> FlattenSeq(strides)]
      BY <2>2, ResolveIsParts
    <2> QED
      BY <2>3
  <1>4. shapes \in Seq(Seq(Nat)) /\ strides \in Seq(Seq(Int)) /\ Len(shapes) = n /\ Len(strides) = n
    BY <1>2 DEF Parts
  <1>5. \A k \in 1 .. n : /\ shapes[k] = p(k).shape /\ strides[k] = p(k).strides
                          /\ Len(shapes[k]) = Len(strides[k])
                          /\ Len(shapes[k]) = IF k \in Kept(args) THEN 1 ELSE 0
    BY <1>2
  <1>6. Kept(args) \subseteq 1 .. n
    BY <1>1 DEF Kept
  <1> HIDE DEF shapes, strides, p
  <1>7. Filled(shapes) = Kept(args) /\ Filled(strides) = Kept(args)
    <2>1. ASSUME NEW k \in 1 .. n PROVE k \in Kept(args) <=> Len(shapes[k]) = 1
      <3>1. Len(shapes[k]) = IF k \in Kept(args) THEN 1 ELSE 0
        BY <1>5
      <3> QED
        BY <3>1
    <2>2. ASSUME NEW k \in 1 .. n PROVE k \in Kept(args) <=> Len(strides[k]) = 1
      <3>1. Len(strides[k]) = IF k \in Kept(args) THEN 1 ELSE 0
        BY <1>5
      <3> QED
        BY <3>1
    <2> QED
      BY <1>4, <1>6, <2>1, <2>2 DEF Filled
  <1>8. ShortPieces(shapes) /\ ShortPieces(strides)
    <2>1. \A k \in 1 .. n : Len(shapes[k]) <= 1 /\ Len(strides[k]) <= 1
      <3> SUFFICES ASSUME NEW k \in 1 .. n PROVE Len(shapes[k]) <= 1 /\ Len(strides[k]) <= 1
        OBVIOUS
      <3>1. Len(shapes[k]) = 0 \/ Len(shapes[k]) = 1
        BY <1>5
      <3> QED
        BY <1>5, <3>1
    <2> QED
      BY <1>4, <2>1 DEF ShortPieces
  <1>9. PiecesInOrder(shapes, FlattenSeq(shapes)) /\ PiecesInOrder(strides, FlattenSeq(strides))
    BY <1>4, <1>8, FlattenShort
  <1>10. Rank(m) = Cardinality(Kept(args))
    BY <1>3, <1>7, <1>9 DEF PiecesInOrder, Rank
  <1>11. ASSUME NEW k \in Kept(args)
         PROVE  m.shape[Along(args, k)] = p(k).shape[1] /\ m.strides[Along(args, k)] = p(k).strides[1]
    <2>1. k \in 1 .. n /\ k \in Filled(shapes) /\ k \in Filled(strides)
      BY <1>6, <1>7
    <2>2. FlattenSeq(shapes)[CountIn(Filled(shapes), k)] = shapes[k][1]
      BY <1>9, <2>1 DEF PiecesInOrder
    <2>3. FlattenSeq(strides)[CountIn(Filled(strides), k)] = strides[k][1]
      BY <1>9, <2>1 DEF PiecesInOrder
    <2> QED
      BY <1>3, <1>5, <1>7, <2>1, <2>2, <2>3 DEF Along
  <1>12. m.offset = l.offset + SumSeq([k \in 1 .. Len(args) |-> PartOf("formula", l, args, k).delta])
    BY <1>1, <1>3 DEF deltas, p
  <1> QED
    BY <1>10, <1>11, <1>12 DEF ResolvedAs, p

\* Each argument that is kept has an axis of the view, and each axis an argument.
LEMMA KeptAreNumbered ==
  ASSUME NEW l, NEW S, NEW args \in Seq(S), NEW m, ResolvedAs(l, args, m)
  PROVE  /\ \A k \in Kept(args) : Along(args, k) \in 1 .. Rank(m)
         /\ \A j, k \in Kept(args) : Along(args, j) = Along(args, k) => j = k
         /\ \A p \in 1 .. Rank(m) : \E k \in Kept(args) : Along(args, k) = p
  <1>1. PICK n \in Nat : n = Len(args)
    OBVIOUS
  <1>2. Kept(args) \in SUBSET (1 .. n)
    BY <1>1 DEF Kept
  <1>3. Rank(m) = Cardinality(Kept(args))
    BY DEF ResolvedAs
  <1> QED
    BY <1>2, <1>3, MembersAreNumbered DEF Along

\* d is the coordinate of the array that c is in the view.
IndexFollows(l, args, c, d) ==
  /\ DOMAIN d = 1 .. Rank(l) /\ d = [a \in 1 .. Rank(l) |-> d[a]]
  /\ \A k \in ConsumingAt(args) :
       d[AxisNumber(args, k)] = ShownAt(l, args[k], AxisNumber(args, k), c[Along(args, k)])

\* A coordinate of the view on the axis of an argument.
LEMMA KeptCoordinate ==
  ASSUME NEW l, NEW S, NEW args \in Seq(S), NEW m, ResolvedAs(l, args, m),
         NEW c \in Box(m.shape), NEW k \in Kept(args)
  PROVE  /\ Along(args, k) \in 1 .. Rank(m)
         /\ c[Along(args, k)] \in Nat
         /\ c[Along(args, k)] < PartOf("formula", l, args, k).shape[1]
  <1>1. Along(args, k) \in 1 .. Rank(m)
    BY KeptAreNumbered
  <1>2. m.shape[Along(args, k)] = PartOf("formula", l, args, k).shape[1]
    BY DEF ResolvedAs
  <1>3. c[Along(args, k)] \in Nat /\ c[Along(args, k)] < m.shape[Along(args, k)]
    BY <1>1 DEF Box, Rank
  <1> QED
    BY <1>1, <1>2, <1>3

\* They have one address.
LEMMA IndexShows ==
  ASSUME NEW l \in Layouts, NEW args \in Seq(NormalArguments), Consumed(args) = Rank(l),
         IntsOnAxes(l.shape, args), NEW m \in Layouts, ResolvedAs(l, args, m),
         NEW c \in Box(m.shape), NEW d, IndexFollows(l, args, c, d)
  PROVE  d \in Box(l.shape) /\ Address(m, c) = Address(l, d)
  <1>1. PICK n \in Nat : n = Len(args) /\ DOMAIN args = 1 .. n
    OBVIOUS
  <1> DEFINE C == ConsumingAt(args)
             K == Kept(args)
             p(k) == PartOf("formula", l, args, k)
             ax == [k \in C |-> AxisNumber(args, k)]
             al == [k \in K |-> Along(args, k)]
             s == [a \in 1 .. Rank(m) |-> c[a] * m.strides[a]]
             t == [a \in 1 .. Rank(l) |-> d[a] * l.strides[a]]
             u == [k \in 1 .. n |-> p(k).delta]
             v == [k \in 1 .. n |-> IF k \in K THEN c[al[k]] * p(k).strides[1] ELSE 0]
             w == [k \in 1 .. n |-> u[k] + v[k]]
  <1>2. Rank(l) \in Nat /\ Rank(m) \in Nat /\ l.offset \in Int
    BY LayoutAxes
  <1>3. /\ \A k \in C : AxisNumber(args, k) \in 1 .. Rank(l)
        /\ \A j, k \in C : AxisNumber(args, j) = AxisNumber(args, k) => j = k
        /\ \A a \in 1 .. Rank(l) : \E k \in C : AxisNumber(args, k) = a
    BY <1>2, AxesAreNumbered
  <1>4. /\ \A k \in K : Along(args, k) \in 1 .. Rank(m)
        /\ \A j, k \in K : Along(args, j) = Along(args, k) => j = k
        /\ \A a \in 1 .. Rank(m) : \E k \in K : Along(args, k) = a
    BY KeptAreNumbered
  <1>5. C \subseteq 1 .. n /\ K \subseteq 1 .. n
    BY <1>1 DEF ConsumingAt, Kept
  <1>6. \A k \in C : ax[k] = AxisNumber(args, k)
    OBVIOUS
  <1>7. \A k \in K : al[k] = Along(args, k)
    OBVIOUS
  <1>8. ax \in [C -> 1 .. Rank(l)] /\ al \in [K -> 1 .. Rank(m)]
    BY <1>3, <1>4
  <1>9. \A k \in 1 .. n : p(k) \in Parts /\ (k \in K => p(k).strides[1] \in Int)
    <2> SUFFICES ASSUME NEW k \in 1 .. n PROVE p(k) \in Parts /\ (k \in K => p(k).strides[1] \in Int)
      OBVIOUS
    <2>1. /\ p(k) \in Parts /\ Len(p(k).shape) = Len(p(k).strides)
          /\ Len(p(k).shape) = IF k \in K THEN 1 ELSE 0
      BY <1>1, PartKept
    <2>2. k \in K => Len(p(k).strides) = 1
      BY <2>1
    <2>3. p(k).strides \in Seq(Int)
      BY <2>1 DEF Parts
    <2> QED
      BY <2>1, <2>2, <2>3
  <1>10. \A k \in K : /\ c[al[k]] \in Nat /\ c[al[k]] < p(k).shape[1]
                      /\ m.strides[al[k]] = p(k).strides[1]
    <2> SUFFICES ASSUME NEW k \in K
                 PROVE  /\ c[al[k]] \in Nat /\ c[al[k]] < p(k).shape[1]
                        /\ m.strides[al[k]] = p(k).strides[1]
      OBVIOUS
    <2>1. m.strides[Along(args, k)] = p(k).strides[1]
      BY DEF ResolvedAs
    <2> QED
      BY <1>7, <2>1, KeptCoordinate
  <1> HIDE DEF ax, al, C, K
  <1>11. \A k \in 1 .. n : u[k] = p(k).delta /\ u[k] \in Int
    BY <1>9 DEF Parts
  <1>12. \A k \in 1 .. n : v[k] = (IF k \in K THEN c[al[k]] * p(k).strides[1] ELSE 0) /\ v[k] \in Int
    <2> SUFFICES ASSUME NEW k \in 1 .. n PROVE v[k] \in Int
      OBVIOUS
    <2>1. CASE k \in K
      <3>1. c[al[k]] \in Int /\ p(k).strides[1] \in Int
        BY <1>9, <1>10, <2>1
      <3> HIDE DEF p
      <3> QED
        BY <2>1, <3>1
    <2>2. CASE k \notin K
      BY <2>2
    <2> QED
      BY <2>1, <2>2
  <1>13. u \in [1 .. n -> Int] /\ v \in [1 .. n -> Int]
    BY <1>11, <1>12
  <1>14. \A a \in 1 .. Rank(m) : s[a] = c[a] * m.strides[a]
    OBVIOUS
  <1>15. Address(m, c) = m.offset + SumSeq(s) /\ s \in [1 .. Rank(m) -> Int]
    BY AddressIsSum
  <1>16. m.offset = l.offset + SumSeq(u)
    BY <1>1 DEF ResolvedAs
  <1>17. \A a \in 1 .. Rank(l) : t[a] = d[a] * l.strides[a]
    OBVIOUS
  <1>18. \A k \in 1 .. n : w[k] = u[k] + v[k]
    OBVIOUS
  <1>19. ASSUME NEW k \in C
         PROVE  /\ u[k] + v[k] = d[ax[k]] * l.strides[ax[k]]
                /\ d[ax[k]] \in 0 .. l.shape[ax[k]] - 1
    <2>1. PICK a : a = ax[k] /\ a = AxisNumber(args, k)
      BY <1>6
    <2>2. PICK i : i = c[Along(args, k)]
      OBVIOUS
    <2>3. k \in K => i \in Nat /\ i < p(k).shape[1]
      BY <1>7, <1>10, <2>2
    <2>4. /\ Added(l, args, k, i) = ShownAt(l, args[k], a, i) * l.strides[a]
          /\ ShownAt(l, args[k], a, i) \in 0 .. l.shape[a] - 1
      BY <2>1, <2>3, ArgumentShows DEF C, K
    <2>5. Added(l, args, k, i) = u[k] + v[k]
      <3>1. k \in 1 .. n
        BY <1>5
      <3>2. Added(l, args, k, i) = p(k).delta + IF k \in K THEN i * p(k).strides[1] ELSE 0
        BY DEF Added, K
      <3>3. k \in K => c[al[k]] = i
        BY <1>7, <2>2
      <3> HIDE DEF p, u, v
      <3> QED
        BY <1>11, <1>12, <3>1, <3>2, <3>3
    <2>6. d[a] = ShownAt(l, args[k], a, i)
      BY <2>1, <2>2 DEF IndexFollows, C
    <2> QED
      BY <2>1, <2>4, <2>5, <2>6
  <1> HIDE DEF s, t, u, v, w
  <1>20. d \in Box(l.shape)
    <2>1. ASSUME NEW a \in 1 .. Rank(l) PROVE d[a] \in Nat /\ d[a] < l.shape[a]
      <3>1. PICK k \in C : ax[k] = a
        BY <1>3, <1>6
      <3>2. d[a] \in 0 .. l.shape[a] - 1 /\ l.shape[a] \in Nat
        BY <1>19, <3>1, LayoutAxes
      <3> QED
        BY <3>2
    <2>2. d = [a \in 1 .. Rank(l) |-> d[a]]
      BY DEF IndexFollows
    <2>3. d \in [1 .. Rank(l) -> Nat]
      BY <2>1, <2>2
    <2> QED
      BY <2>1, <2>3 DEF Box, Rank
  <1>21. Address(l, d) = l.offset + SumSeq(t) /\ t \in [1 .. Rank(l) -> Int]
    BY <1>20, AddressIsSum DEF t
  <1>22. SumSeq(v) = SumSeq(s)
    <2>1. ASSUME NEW k \in K PROVE v[k] = s[al[k]]
      <3>1. al[k] \in 1 .. Rank(m) /\ k \in 1 .. n
        BY <1>5, <1>8
      <3>2. v[k] = c[al[k]] * p(k).strides[1]
        BY <1>12, <3>1
      <3> HIDE DEF p
      <3> QED
        BY <1>10, <1>14, <3>1, <3>2
    <2>2. \A k \in 1 .. n : k \notin K => v[k] = 0
      <3> HIDE DEF p
      <3> QED
        BY <1>12
    <2>3. \A a \in 1 .. Rank(m) : \E k \in K : al[k] = a
      BY <1>4, <1>7
    <2>4. \A j, k \in K : al[j] = al[k] => j = k
      BY <1>4, <1>7
    <2>5. IsMatching(v, s, n, Rank(m), K, al)
      BY <1>5, <1>8, <2>1, <2>2, <2>3, <2>4 DEF IsMatching
    <2> QED
      BY <1>2, <1>13, <1>15, <2>5, SumsMatch
  <1>23. SumSeq(w) = SumSeq(u) + SumSeq(v)
    BY <1>13, SumPlus DEF w
  <1>24. w \in [1 .. n -> Int]
    <2>1. \A k \in 1 .. n : u[k] + v[k] \in Int
      BY <1>13
    <2> QED
      BY <2>1 DEF w
  <1>25. SumSeq(w) = SumSeq(t)
    <2>1. ASSUME NEW k \in C PROVE w[k] = t[ax[k]]
      <3>1. ax[k] \in 1 .. Rank(l) /\ k \in 1 .. n
        BY <1>5, <1>8
      <3> QED
        BY <1>17, <1>18, <1>19, <3>1
    <2>2. ASSUME NEW k \in 1 .. n, k \notin C PROVE w[k] = 0
      <3>1. args[k].kind = "newaxis"
        <4>1. ~Consuming(args[k]) /\ args[k] \in NormalArguments
          BY <1>1, <2>2 DEF C, ConsumingAt
        <4>2. args[k].kind \in {"newaxis", "slice", "int"}
          BY <4>1 DEF NormalArguments
        <4> QED
          BY <4>1, <4>2 DEF Consuming
      <3>2. p(k) = [shape |-> <<1>>, strides |-> <<0>>, delta |-> 0]
        BY <3>1 DEF PartOf
      <3>3. p(k).delta = 0 /\ p(k).strides[1] = 0
        BY <3>2
      <3>4. u[k] = 0
        BY <1>11, <3>3
      <3>5. v[k] = 0
        <4>1. CASE k \in K
          <5>1. v[k] = c[al[k]] * 0 /\ c[al[k]] \in Nat
            BY <1>10, <1>12, <3>3, <4>1
          <5> QED
            BY <5>1
        <4>2. CASE k \notin K
          <5> HIDE DEF p
          <5> QED
            BY <1>12, <4>2
        <4> QED
          BY <4>1, <4>2
      <3> QED
        BY <1>18, <3>4, <3>5
    <2>3. \A a \in 1 .. Rank(l) : \E k \in C : ax[k] = a
      BY <1>3, <1>6
    <2>4. \A j, k \in C : ax[j] = ax[k] => j = k
      BY <1>3, <1>6
    <2>5. IsMatching(w, t, n, Rank(l), C, ax)
      BY <1>5, <1>8, <2>1, <2>2, <2>3, <2>4 DEF IsMatching
    <2> QED
      BY <1>2, <1>21, <1>24, <2>5, SumsMatch
  <1>26. SumSeq(u) \in Int /\ SumSeq(v) \in Int
    BY <1>13, SumType
  <1>27. PICK x \in Int, y \in Int : x = SumSeq(u) /\ y = SumSeq(v)
    BY <1>26
  <1>28. Address(m, c) = (l.offset + x) + y
    BY <1>15, <1>16, <1>22, <1>27
  <1>29. Address(l, d) = l.offset + (x + y)
    BY <1>21, <1>23, <1>25, <1>27
  <1>30. Address(m, c) = Address(l, d)
    BY <1>2, <1>28, <1>29
  <1> QED
    BY <1>20, <1>30

----------------------------------------------------------------------------
(* An index of integers, one for each axis.                                *)

Ints(n, x) == [a \in 1 .. n |-> Int1(x[a])]

\* Each of them is about the axis with its number.
LEMMA IntsConsume ==
  ASSUME NEW n \in Nat, NEW x
  PROVE  /\ DOMAIN Ints(n, x) = 1 .. n
         /\ \A k \in 1 .. n : /\ Ints(n, x)[k].kind = "int" /\ Ints(n, x)[k].at = x[k]
                              /\ AxisOf(Ints(n, x), k, n) = k
         /\ Consumed(Ints(n, x)) = n
         /\ Ellipses(Ints(n, x)) = {}
  <1> DEFINE args == Ints(n, x)
  <1>1. DOMAIN args = 1 .. n /\ \A k \in 1 .. n : args[k].kind = "int" /\ args[k].at = x[k]
    BY DEF Ints, Int1
  <1> HIDE DEF args
  <1>2. \A k \in 1 .. n : Consuming(args[k])
    BY <1>1 DEF Consuming
  <1>3. Ellipses(args) = {}
    BY <1>1 DEF Ellipses
  <1>4. Consumed(args) = n
    <2>1. {k \in DOMAIN args : Consuming(args[k])} = 1 .. n
      BY <1>1, <1>2
    <2>2. Cardinality(1 .. n) = n
      <3>1. Cardinality(1 .. n) = IF 1 > n THEN 0 ELSE n - 1 + 1
        BY FS_Interval
      <3> QED
        BY <3>1
    <2> QED
      BY <2>1, <2>2 DEF Consumed
  <1>5. ASSUME NEW k \in 1 .. n PROVE AxisOf(args, k, n) = k
    <2>1. PICK m \in Nat : m = k - 1
      OBVIOUS
    <2>2. {j \in 1 .. m : Consuming(args[j])} = 1 .. m
      <3>1. \A j \in 1 .. m : j \in 1 .. n
        BY <2>1
      <3> QED
        BY <1>2, <3>1
    <2>3. Cardinality(1 .. m) = m
      <3>1. Cardinality(1 .. m) = IF 1 > m THEN 0 ELSE m - 1 + 1
        BY FS_Interval
      <3> QED
        BY <3>1
    <2>4. AxisOf(args, k, n) = 1 + m + 0
      BY <1>3, <2>1, <2>2, <2>3 DEF AxisOf
    <2> QED
      BY <2>1, <2>4
  <1> QED
    BY <1>1, <1>3, <1>4, <1>5 DEF args

\* x is the coordinate c, counted from either end.
FromEitherEnd(shape, x, c) ==
  \A a \in 1 .. Len(shape) :
    /\ x[a] \in Int /\ -shape[a] <= x[a] /\ x[a] < shape[a]
    /\ NormalIndex("formula", x[a], shape[a]) = c[a]

\* Such an index is valid, and is normalized to the coordinate.
LEMMA IntsAreNormalized ==
  ASSUME NEW shape \in Seq(Nat), NEW c \in Box(shape), NEW x, FromEitherEnd(shape, x, c),
         NEW n, n = Len(shape)
  PROVE  /\ Ints(n, x) \in Seq(Arguments)
         /\ ValidIndex(shape, Ints(n, x))
         /\ Normalize("formula", shape, Ints(n, x)) = Ints(n, c)
  <1>0. n \in Nat /\ Len(shape) = n
    OBVIOUS
  <1> DEFINE args == Ints(n, x)
             pieces == Expansions("formula", shape, args)
             flat == FlattenSeq(pieces)
  <1>1. /\ \A a \in 1 .. n : x[a] \in Int /\ -shape[a] <= x[a] /\ x[a] < shape[a]
        /\ \A a \in 1 .. n : NormalIndex("formula", x[a], shape[a]) = c[a]
    BY <1>0 DEF FromEitherEnd
  <1>2. /\ DOMAIN args = 1 .. n
        /\ \A k \in 1 .. n : args[k].kind = "int" /\ args[k].at = x[k] /\ AxisOf(args, k, n) = k
        /\ Consumed(args) = n /\ Ellipses(args) = {}
    BY <1>0, IntsConsume
  <1>3. args \in Seq(Arguments)
    <2>1. \A k \in 1 .. n : Int1(x[k]) \in Arguments
      BY <1>1 DEF Int1, Arguments
    <2> QED
      BY <1>0, <2>1 DEF Ints
  <1> HIDE DEF args
  <1>4. ValidIndex(shape, args)
    <2>1. \A k \in DOMAIN args : -shape[AxisOf(args, k, Len(shape))] <= args[k].at
                                 /\ args[k].at < shape[AxisOf(args, k, Len(shape))]
      BY <1>0, <1>1, <1>2
    <2>2. Consumed(args) <= Len(shape)
      BY <1>0, <1>2
    <2>3. \A k \in DOMAIN args : args[k].kind # "slice"
      BY <1>2
    <2> QED
      BY <1>2, <2>1, <2>2, <2>3 DEF ValidIndex
  <1>5. DOMAIN pieces = 1 .. n /\ \A k \in 1 .. n : pieces[k] = <<Int1(c[k])>>
    <2>1. DOMAIN pieces = 1 .. n /\ \A k \in 1 .. n : pieces[k] = Expansion("formula", shape, args, k)
      BY <1>2 DEF Expansions
    <2>2. ASSUME NEW k \in 1 .. n PROVE Expansion("formula", shape, args, k) = <<Int1(c[k])>>
      <3>1. args[k].kind = "int" /\ args[k].at = x[k] /\ AxisOf(args, k, Len(shape)) = k
        BY <1>0, <1>2
      <3>2. Expansion("formula", shape, args, k) = <<Int1(NormalIndex("formula", x[k], shape[k]))>>
        BY <3>1 DEF Expansion
      <3> QED
        BY <1>1, <3>2
    <2> QED
      BY <2>1, <2>2
  <1> DEFINE S == {Int1(c[k]) : k \in 1 .. n}
  <1>6. pieces \in Seq(Seq(S)) /\ Len(pieces) = n
    <2>1. \A k \in 1 .. n : <<Int1(c[k])>> \in Seq(S)
      <3>1. \A k \in 1 .. n : Int1(c[k]) \in S
        OBVIOUS
      <3> HIDE DEF S
      <3> QED
        BY <3>1
    <2>2. pieces = [k \in 1 .. n |-> <<Int1(c[k])>>]
      <3>1. pieces = [k \in 1 .. n |-> pieces[k]]
        BY <1>5 DEF Expansions
      <3> HIDE DEF pieces
      <3> QED
        BY <1>5, <3>1
    <2> HIDE DEF S, pieces
    <2> QED
      BY <1>0, <2>1, <2>2
  <1> HIDE DEF S, pieces
  <1>7. Filled(pieces) = 1 .. n /\ ShortPieces(pieces)
    <2>1. \A z : Len(<<z>>) = 1
      OBVIOUS
    <2>2. \A k \in 1 .. n : Len(pieces[k]) = 1
      BY <1>5, <2>1, Zenon
    <2>3. \A k \in 1 .. n : Len(pieces[k]) <= 1
      <3>1. \A z : z = 1 => z <= 1
        OBVIOUS
      <3> QED
        BY <2>2, <3>1, Zenon
    <2>4. {k \in 1 .. n : Len(pieces[k]) = 1} = 1 .. n
      BY <2>2
    <2> QED
      BY <1>6, <2>3, <2>4 DEF Filled, ShortPieces
  <1>8. Len(flat) = Cardinality(1 .. n) /\ \A k \in 1 .. n : flat[CountIn(1 .. n, k)] = pieces[k][1]
    <2>1. PiecesInOrder(pieces, flat)
      BY <1>6, <1>7, FlattenShort
    <2> QED
      BY <1>7, <2>1 DEF PiecesInOrder
  <1>9. flat \in Seq(S)
    BY <1>6, FlattenType
  <1> HIDE DEF flat
  <1>10. \A m \in Nat : Cardinality(1 .. m) = m
    <2> SUFFICES ASSUME NEW m \in Nat PROVE Cardinality(1 .. m) = m
      OBVIOUS
    <2>1. Cardinality(1 .. m) = IF 1 > m THEN 0 ELSE m - 1 + 1
      BY FS_Interval
    <2> QED
      BY <2>1
  <1>11. ASSUME NEW k \in 1 .. n PROVE CountIn(1 .. n, k) = k
    <2>1. {j \in 1 .. n : j <= k} = 1 .. k
      BY <1>0
    <2>2. Cardinality(1 .. k) = k
      BY <1>0, <1>10
    <2> QED
      BY <2>1, <2>2 DEF CountIn
  <1>12. flat = Ints(n, c)
    <2>1. Len(flat) = n
      BY <1>0, <1>8, <1>10
    <2>2. \A k \in 1 .. n : flat[k] = Int1(c[k])
      BY <1>5, <1>8, <1>11
    <2>3. flat = [k \in 1 .. n |-> flat[k]]
      BY <1>9, <2>1
    <2> QED
      BY <2>2, <2>3 DEF Ints
  <1>13. AllExpanded("formula", shape, args) = Ints(n, c)
    BY <1>12 DEF AllExpanded, flat, pieces
  <1>14. Normalize("formula", shape, args) = Ints(n, c) \o [j \in 1 .. Skipped(Ints(n, c), n) |-> Full]
    BY <1>0, <1>13, NormalizeIsExpanded
  <1>15. Skipped(Ints(n, c), n) = 0
    <2>1. Consumed(Ints(n, c)) = n
      BY <1>0, IntsConsume
    <2> QED
      BY <1>0, <2>1 DEF Skipped
  <1>16. Normalize("formula", shape, args) = Ints(n, c)
    <2>1. [j \in 1 .. 0 |-> Full] = <<>>
      OBVIOUS
    <2>2. Ints(n, c) \in Seq(S)
      BY <1>9, <1>12
    <2>3. Ints(n, c) \o <<>> = Ints(n, c)
      BY <2>2
    <2> QED
      BY <1>14, <1>15, <2>1, <2>3
  <1> QED
    BY <1>3, <1>4, <1>16 DEF args

\* It finds the address of the coordinate.
LEMMA IntsFind ==
  ASSUME NEW l \in Layouts, NEW c \in Box(l.shape), NEW x, FromEitherEnd(l.shape, x, c),
         NEW half \in Halves, NEW n, n = Rank(l)
  PROVE  Index(half, l, Ints(n, x)).offset = Address(l, c)
  <1>0. n = Len(l.shape) /\ n \in Nat /\ l.shape \in Seq(Nat)
    BY LayoutAxes DEF Rank
  <1>1. /\ Ints(n, x) \in Seq(Arguments) /\ ValidIndex(l.shape, Ints(n, x))
        /\ Normalize("formula", l.shape, Ints(n, x)) = Ints(n, c)
    BY <1>0, IntsAreNormalized
  <1>2. Index(half, l, Ints(n, x)) = Index("formula", l, Ints(n, x))
    <2>1. Index("formula", l, Ints(n, x)) = Index("concrete", l, Ints(n, x))
      BY <1>1, IndexAgrees
    <2> QED
      BY <2>1 DEF Halves
  <1>3. Ints(n, c) \in Seq(NormalArguments) /\ Consumed(Ints(n, c)) = Rank(l)
    <2>1. /\ Normalize("formula", l.shape, Ints(n, x)) \in Seq(NormalArguments)
          /\ Consumed(Normalize("formula", l.shape, Ints(n, x))) = Len(l.shape)
      BY <1>0, <1>1, NormalizedArguments
    <2> QED
      BY <1>0, <1>1, <2>1
  <1>4. PICK m : m = Resolve("formula", l, Ints(n, c))
    OBVIOUS
  <1>5. ResolvedAs(l, Ints(n, c), m)
    BY <1>3, <1>4, ResolvedByArgument
  <1>6. /\ DOMAIN Ints(n, c) = 1 .. n
        /\ \A k \in 1 .. n : /\ Ints(n, c)[k].kind = "int" /\ Ints(n, c)[k].at = c[k]
                             /\ AxisOf(Ints(n, c), k, n) = k
    BY <1>0, IntsConsume
  <1>7. Len(Ints(n, c)) = n
    BY <1>0, <1>3, <1>6
  <1>8. \A k \in 1 .. n : PartOf("formula", l, Ints(n, c), k).delta = c[k] * l.strides[k]
    <2> SUFFICES ASSUME NEW k \in 1 .. n PROVE PartOf("formula", l, Ints(n, c), k).delta = c[k] * l.strides[k]
      OBVIOUS
    <2>1. AxisOf(Ints(n, c), k, Rank(l)) = k
      BY <1>6
    <2>2. PartOf("formula", l, Ints(n, c), k)
            = [shape |-> <<>>, strides |-> <<>>, delta |-> Ints(n, c)[k].at * l.strides[k]]
      BY <1>6, <2>1 DEF PartOf
    <2>3. PICK z : z = Ints(n, c)[k].at * l.strides[k]
      OBVIOUS
    <2>4. PartOf("formula", l, Ints(n, c), k).delta = z
      BY <2>2, <2>3
    <2> QED
      BY <1>6, <2>3, <2>4
  <1>9. m.offset = l.offset + SumSeq([k \in 1 .. n |-> c[k] * l.strides[k]])
    <2>1. m.offset = l.offset + SumSeq([k \in 1 .. Len(Ints(n, c)) |-> PartOf("formula", l, Ints(n, c), k).delta])
      BY <1>5 DEF ResolvedAs
    <2>2. [k \in 1 .. Len(Ints(n, c)) |-> PartOf("formula", l, Ints(n, c), k).delta]
            = [k \in 1 .. n |-> c[k] * l.strides[k]]
      BY <1>7, <1>8
    <2> QED
      BY <2>1, <2>2
  <1>10. Address(l, c) = l.offset + SumSeq([k \in 1 .. n |-> c[k] * l.strides[k]])
    BY AddressIsSum
  <1>11. Index("formula", l, Ints(n, x)) = m
    BY <1>1, <1>4 DEF Index
  <1> QED
    BY <1>2, <1>9, <1>10, <1>11

\* An index of integers reads what the coordinate shows, counted from either end.
LEMMA IntegersRead ==
  ASSUME NEW l \in Layouts, NEW c \in Box(l.shape), NEW half \in Halves
  PROVE  /\ Index(half, l, [a \in DOMAIN c |-> Int1(c[a])]).offset = Address(l, c)
         /\ Index(half, l, [a \in DOMAIN c |-> Int1(c[a] - l.shape[a])]).offset = Address(l, c)
  <1>0. PICK n \in Nat : n = Rank(l) /\ n = Len(l.shape)
    BY LayoutAxes DEF Rank
  <1>1. c \in [1 .. n -> Nat] /\ \A a \in 1 .. n : c[a] < l.shape[a]
    BY <1>0 DEF Box
  <1> DEFINE x == [a \in 1 .. n |-> c[a] - l.shape[a]]
  <1>2. \A a \in 1 .. n : x[a] = c[a] - l.shape[a] /\ l.shape[a] \in Nat
    BY <1>0, LayoutAxes
  <1>3. [a \in DOMAIN c |-> Int1(c[a])] = Ints(n, c)
    BY <1>1 DEF Ints
  <1>4. [a \in DOMAIN c |-> Int1(c[a] - l.shape[a])] = Ints(n, x)
    BY <1>1 DEF Ints
  <1> HIDE DEF x
  <1>5. FromEitherEnd(l.shape, c, c)
    <2>1. \A a \in 1 .. n : /\ c[a] \in Int /\ -l.shape[a] <= c[a] /\ c[a] < l.shape[a]
                            /\ NormalIndex("formula", c[a], l.shape[a]) = c[a]
      BY <1>1, <1>2 DEF NormalIndex
    <2> QED
      BY <1>0, <2>1 DEF FromEitherEnd
  <1>6. FromEitherEnd(l.shape, x, c)
    <2>1. ASSUME NEW a \in 1 .. n
          PROVE  /\ x[a] \in Int /\ -l.shape[a] <= x[a] /\ x[a] < l.shape[a]
                 /\ NormalIndex("formula", x[a], l.shape[a]) = c[a]
      <3>1. c[a] \in Nat /\ c[a] < l.shape[a] /\ l.shape[a] \in Nat /\ x[a] = c[a] - l.shape[a]
        BY <1>1, <1>2
      <3>2. x[a] < 0 /\ l.shape[a] + x[a] = c[a]
        BY <3>1
      <3> QED
        BY <3>1, <3>2 DEF NormalIndex
    <2> QED
      BY <1>0, <2>1 DEF FromEitherEnd
  <1>7. Index(half, l, Ints(n, c)).offset = Address(l, c)
    BY <1>0, <1>5, IntsFind
  <1>8. Index(half, l, Ints(n, x)).offset = Address(l, c)
    BY <1>0, <1>6, IntsFind
  <1> QED
    BY <1>3, <1>4, <1>7, <1>8

\* No two coordinates of a view by an index show one coordinate of the array.
LEMMA IndexOnce ==
  ASSUME NEW l \in Layouts, NEW args \in Seq(NormalArguments), Consumed(args) = Rank(l),
         NEW m \in Layouts, ResolvedAs(l, args, m),
         NEW c \in Box(m.shape), NEW e \in Box(m.shape), NEW d,
         IndexFollows(l, args, c, d), IndexFollows(l, args, e, d)
  PROVE  c = e
  <1>1. ASSUME NEW k \in Kept(args) PROVE c[Along(args, k)] = e[Along(args, k)]
    <2>0. PICK x \in Nat, y \in Nat : /\ x = c[Along(args, k)] /\ y = e[Along(args, k)]
                                      /\ x < PartOf("formula", l, args, k).shape[1]
                                      /\ y < PartOf("formula", l, args, k).shape[1]
      BY KeptCoordinate
    <2>1. k \in 1 .. Len(args) /\ args[k].kind # "int" /\ k \in DOMAIN args /\ args[k] \in NormalArguments
      BY DEF Kept
    <2>2. CASE args[k].kind = "newaxis"
      <3>1. PartOf("formula", l, args, k) = [shape |-> <<1>>, strides |-> <<0>>, delta |-> 0]
        BY <2>2 DEF PartOf
      <3>2. PartOf("formula", l, args, k).shape[1] = 1
        BY <3>1
      <3> QED
        BY <2>0, <3>2
    <2>3. CASE args[k].kind = "slice"
      <3>1. k \in ConsumingAt(args)
        BY <2>1, <2>3 DEF ConsumingAt, Consuming
      <3>2. PICK a : a = AxisNumber(args, k)
        OBVIOUS
      <3>3. ShownAt(l, args[k], a, x) = ShownAt(l, args[k], a, y)
        BY <2>0, <3>1, <3>2 DEF IndexFollows
      <3>4. args[k].start \in Part /\ args[k].step \in Step
        BY <2>1, <2>3 DEF NormalArguments
      <3>5. PICK by \in Int \ {0} : by = StepOf(args[k].step)
        BY <3>4, StepIsNonzero
      <3>6. a \in 1 .. Rank(l)
        BY <3>1, <3>2, LayoutAxes, AxesAreNumbered
      <3>7. PICK first \in Int : first = PyStart(l.shape[a], args[k].start, args[k].step)
        <4>1. l.shape[a] \in Nat
          BY <3>6, LayoutAxes
        <4> QED
          BY <3>4, <4>1, StartsAgree, StartIsOnAxis
      <3>8. first + x * by = first + y * by
        BY <2>3, <3>3, <3>5, <3>7 DEF ShownAt
      <3>9. x = y
        BY <3>8
      <3> QED
        BY <2>0, <3>9
    <2>4. args[k].kind \in {"newaxis", "slice", "int"}
      BY <2>1 DEF NormalArguments
    <2> QED
      BY <2>1, <2>2, <2>3, <2>4
  <1>2. \A p \in 1 .. Rank(m) : \E k \in Kept(args) : Along(args, k) = p
    BY KeptAreNumbered
  <1>3. \A p \in 1 .. Rank(m) : c[p] = e[p]
    BY <1>1, <1>2
  <1>4. c = [p \in 1 .. Rank(m) |-> c[p]] /\ e = [p \in 1 .. Rank(m) |-> e[p]]
    BY DEF Box, Rank
  <1>5. [p \in 1 .. Rank(m) |-> c[p]] = [p \in 1 .. Rank(m) |-> e[p]]
    BY <1>3
  <1> QED
    BY <1>4, <1>5, Zenon

\* What the code that the index stands for shows: the model's history follows the view.
LEMMA IndexSourceFollows ==
  ASSUME NEW v, v.concrete \in Layouts, NEW args, NEW normal \in Seq(NormalArguments),
         normal = Normalize("concrete", v.concrete.shape, args),
         Consumed(normal) = Rank(v.concrete), NEW c
  PROVE  IndexFollows(v.concrete, normal, c, IndexSource(v, args, c))
  <1> DEFINE l == v.concrete
             n == Rank(v.concrete)
             N == Normalize("concrete", v.concrete.shape, args)
  <1>0. normal = N
    OBVIOUS
  <1>1. n \in Nat /\ n = Rank(l) /\ DOMAIN l.shape = 1 .. n
    BY LayoutAxes
  <1>00. Consumed(normal) = n
    OBVIOUS
  <1> DEFINE along(k) == Cardinality({j \in 1 .. k : N[j].kind # "int"})
             of(a) == CHOOSE k \in DOMAIN N : Consuming(N[k]) /\ AxisOf(N, k, n) = a
             at(a) == IF N[of(a)].kind = "int" THEN N[of(a)].at
                      ELSE PyStart(l.shape[a], N[of(a)].start, N[of(a)].step)
                             + c[along(of(a))] * StepOf(N[of(a)].step)
             d == IndexSource(v, args, c)
  <1>2. d = [a \in 1 .. n |-> at(a)]
    <2>1. d = [a \in DOMAIN v.concrete.shape |-> at(a)]
      BY Zenon DEF IndexSource
    <2> HIDE DEF at
    <2> QED
      BY <1>1, <2>1
  <1> HIDE DEF d, N, n, l
  <1>3. ASSUME NEW k \in ConsumingAt(normal)
        PROVE  d[AxisNumber(normal, k)]
                 = ShownAt(l, normal[k], AxisNumber(normal, k), c[Along(normal, k)])
    <2>1. PICK a : a = AxisNumber(normal, k)
      OBVIOUS
    <2>2. a \in 1 .. n /\ AxisOf(normal, k, n) = a
      BY <1>1, <1>00, <2>1, AxesAreNumbered
    <2>3. of(a) = k
      <3>1. k \in DOMAIN normal /\ Consuming(normal[k]) /\ AxisOf(normal, k, n) = a
        BY <2>2 DEF ConsumingAt
      <3>2. ASSUME NEW j \in DOMAIN normal, Consuming(normal[j]) /\ AxisOf(normal, j, n) = a PROVE j = k
        <4>1. j \in ConsumingAt(normal)
          BY <3>2 DEF ConsumingAt
        <4>2. AxisNumber(normal, j) = a
          BY <1>1, <1>00, <3>2, <4>1, AxesAreNumbered
        <4> QED
          BY <1>1, <1>00, <2>1, <4>1, <4>2, AxesAreNumbered
      <3> QED
        BY <1>0, <3>1, <3>2
    <2>4. along(k) = Along(normal, k)
      <3>1. k \in DOMAIN normal /\ DOMAIN normal = 1 .. Len(normal)
        BY DEF ConsumingAt
      <3>2. \A j : j \in 1 .. k /\ normal[j].kind # "int" <=> j \in 1 .. Len(normal) /\ normal[j].kind # "int" /\ j <= k
        BY <3>1
      <3>3. {j \in 1 .. k : normal[j].kind # "int"} = {j \in Kept(normal) : j <= k}
        BY <3>2 DEF Kept
      <3> QED
        BY <1>0, <3>3 DEF Along, CountIn
    <2>5. d[a] = at(a)
      <3> HIDE DEF at
      <3> QED
        BY <1>2, <2>2
    <2>6. at(a) = ShownAt(l, normal[k], a, c[Along(normal, k)])
      <3> HIDE DEF of, along
      <3> QED
        BY <1>0, <2>3, <2>4 DEF ShownAt
    <2> QED
      BY <2>1, <2>5, <2>6
  <1>4. DOMAIN d = 1 .. n /\ d = [a \in 1 .. n |-> d[a]]
    <2> HIDE DEF at
    <2> QED
      BY <1>2
  <1>5. IndexFollows(l, normal, c, d)
    BY <1>1, <1>3, <1>4 DEF IndexFollows
  <1> QED
    BY <1>5 DEF d, l

\* A view by an index: its address, and the coordinate of the array behind each of its own.
IndexShown(v, args, m) ==
  /\ \A c \in Box(m.shape) : /\ IndexSource(v, args, c) \in Box(v.concrete.shape)
                             /\ Address(m, c) = Address(v.concrete, IndexSource(v, args, c))
  /\ \A c, e \in Box(m.shape) : IndexSource(v, args, c) = IndexSource(v, args, e) => c = e

\* It shows what numpy shows.
LEMMA IndexIsShown ==
  ASSUME NEW v, v.concrete \in Layouts, NEW args \in Seq(Arguments), ValidIndex(v.concrete.shape, args)
  PROVE  IndexShown(v, args, Index("concrete", v.concrete, args))
  <1>0. PICK l \in Layouts : l = v.concrete
    OBVIOUS
  <1>1. l.shape \in Seq(Nat) /\ Rank(l) = Len(l.shape)
    BY LayoutAxes DEF Rank
  <1>2. PICK normal \in Seq(NormalArguments) :
          /\ normal = Normalize("formula", l.shape, args)
          /\ normal = Normalize("concrete", l.shape, args)
          /\ Consumed(normal) = Rank(l)
    BY <1>0, <1>1, NormalizedArguments
  <1>3. IntsOnAxes(l.shape, normal)
    BY <1>0, <1>1, <1>2, NormalizedInts
  <1>4. PICK m \in Layouts : m = Index("formula", l, args) /\ m = Index("concrete", l, args)
    BY <1>0, IndexAgrees
  <1>5. m = Resolve("formula", l, normal)
    BY <1>2, <1>4 DEF Index
  <1>6. ResolvedAs(l, normal, m)
    BY <1>2, <1>5, ResolvedByArgument
  <1>7. \A c : IndexFollows(l, normal, c, IndexSource(v, args, c))
    BY <1>0, <1>2, IndexSourceFollows
  <1>8. \A c \in Box(m.shape) : /\ IndexSource(v, args, c) \in Box(l.shape)
                                /\ Address(m, c) = Address(l, IndexSource(v, args, c))
    BY <1>2, <1>3, <1>6, <1>7, IndexShows
  <1>9. \A c, e \in Box(m.shape) : IndexSource(v, args, c) = IndexSource(v, args, e) => c = e
    <2> SUFFICES ASSUME NEW c \in Box(m.shape), NEW e \in Box(m.shape),
                        IndexSource(v, args, c) = IndexSource(v, args, e)
                 PROVE  c = e
      OBVIOUS
    <2>1. PICK d : d = IndexSource(v, args, c) /\ d = IndexSource(v, args, e)
      OBVIOUS
    <2>2. IndexFollows(l, normal, c, d) /\ IndexFollows(l, normal, e, d)
      BY <1>7, <2>1
    <2> QED
      BY <1>2, <1>6, <2>2, IndexOnce
  <1> QED
    BY <1>0, <1>4, <1>8, <1>9 DEF IndexShown

----------------------------------------------------------------------------
(* What each way to take a view shows: src[c] is the coordinate behind c.  *)

ShownBy(l, m, src) ==
  \A c \in Box(m.shape) : src[c] \in Box(l.shape) /\ Address(m, c) = Address(l, src[c])

ShownOnce(m, src) == \A c, e \in Box(m.shape) : src[c] = src[e] => c = e

\* A view whose axes are axes of the array shows what its coordinates follow.
LEMMA FollowedIsShown ==
  ASSUME NEW l \in Layouts, NEW m \in Layouts, NEW D, NEW at, AxisMap(l, m, D, at), NEW src,
         \A c \in Box(m.shape) : Follows(l, D, at, c, src[c])
  PROVE  /\ ShownBy(l, m, src)
         /\ (\A a \in 1 .. Rank(m) : a \notin D => m.shape[a] = 1) => ShownOnce(m, src)
  <1>1. \A c \in Box(m.shape) : src[c] \in Box(l.shape) /\ Address(m, c) = Address(l, src[c])
    BY Regrouped
  <1>2. ASSUME \A a \in 1 .. Rank(m) : a \notin D => m.shape[a] = 1,
               NEW c \in Box(m.shape), NEW e \in Box(m.shape), src[c] = src[e]
        PROVE  c = e
    <2>1. PICK d : d = src[c] /\ d = src[e]
      BY <1>2
    <2>2. Follows(l, D, at, c, d) /\ Follows(l, D, at, e, d)
      BY <2>1
    <2> QED
      BY <1>2, <2>2, RegroupedOnce
  <1> QED
    BY <1>1, <1>2 DEF ShownBy, ShownOnce

Inverts(from, axes, n) == \A a \in 1 .. n : from[a] \in 1 .. n /\ axes[from[a]] = a
Reorders(src, m, n, from) == \A c \in Box(m.shape) : src[c] = [a \in 1 .. n |-> c[from[a]]]

\* transpose
LEMMA TransposeShows ==
  ASSUME NEW l \in Layouts, NEW n, n = Rank(l), NEW axes \in [1 .. n -> 1 .. n],
         \A a, b \in 1 .. n : axes[a] = axes[b] => a = b, NEW m, m = Permuted(l, axes),
         NEW from, Inverts(from, axes, n), NEW src, Reorders(src, m, n, from)
  PROVE  ShownBy(l, m, src) /\ ShownOnce(m, src)
  <1>0. n \in Nat /\ DOMAIN axes = 1 .. n
    BY LayoutAxes
  <1>1. Rank(m) = n /\ AxisMap(l, m, 1 .. n, axes)
    BY PermutedMap
  <1>2. m \in Layouts
    BY PermutedIsLayout
  <1>3. \A b \in 1 .. n : \E a \in 1 .. n : axes[a] = b
    BY <1>0, OrdersAreOnto
  <1>6. ASSUME NEW c \in Box(m.shape) PROVE Follows(l, 1 .. n, axes, c, src[c])
    <2>1. c \in [1 .. n -> Nat]
      BY <1>1 DEF Box, Rank
    <2>2. PICK d : d = src[c] /\ d = [a \in 1 .. n |-> c[from[a]]]
      BY DEF Reorders
    <2>3. d \in [1 .. n -> Nat]
      <3>1. \A a \in 1 .. n : c[from[a]] \in Nat
        BY <2>1 DEF Inverts
      <3> QED
        BY <2>2, <3>1
    <2>4. ASSUME NEW a \in 1 .. n PROVE d[axes[a]] = c[a]
      <3>1. axes[a] \in 1 .. n /\ from[axes[a]] = a
        BY DEF Inverts
      <3> QED
        BY <2>2, <3>1
    <2> QED
      BY <1>3, <2>2, <2>3, <2>4 DEF Follows
  <1>7. \A a \in 1 .. Rank(m) : a \notin 1 .. n => m.shape[a] = 1
    BY <1>1
  <1> QED
    BY <1>1, <1>2, <1>6, <1>7, FollowedIsShown

\* swapaxes
LEMMA SwapShows ==
  ASSUME NEW l \in Layouts, NEW n, n = Rank(l), NEW p \in 1 .. n, NEW q \in 1 .. n,
         NEW m, m = Permuted(l, SwapSource("formula", p, q, n)), NEW src,
         src = [c \in Box(m.shape) |-> [c EXCEPT ![p] = c[q], ![q] = c[p]]]
  PROVE  ShownBy(l, m, src) /\ ShownOnce(m, src)
  <1>0. n \in Nat
    BY LayoutAxes
  <1>1. PICK s : s = SwapSource("formula", p, q, n)
    OBVIOUS
  <1>2. s \in [1 .. n -> 1 .. n]
    BY <1>0, <1>1, SwapsAgree
  <1>3. \A a \in 1 .. n : s[a] = IF a = p THEN q ELSE IF a = q THEN p ELSE a
    BY <1>1 DEF SwapSource
  <1>4. \A a, b \in 1 .. n : s[a] = s[b] => a = b
    BY <1>3
  <1>5. Rank(m) = n /\ AxisMap(l, m, 1 .. n, s)
    BY <1>1, <1>2, <1>4, PermutedMap
  <1>6. m \in Layouts
    BY <1>1, <1>2, PermutedIsLayout
  <1>7. ASSUME NEW c \in Box(m.shape) PROVE Follows(l, 1 .. n, s, c, src[c])
    <2>1. c \in [1 .. n -> Nat]
      BY <1>5 DEF Box, Rank
    <2>2. src[c] = [c EXCEPT ![p] = c[q], ![q] = c[p]]
      OBVIOUS
    <2>3. src[c] \in [1 .. n -> Nat]
      BY <2>1, <2>2
    <2>4. \A a \in 1 .. n : src[c][a] = IF a = q THEN c[p] ELSE IF a = p THEN c[q] ELSE c[a]
      BY <2>1, <2>2
    <2>5. \A a \in 1 .. n : src[c][s[a]] = c[a]
      BY <1>2, <1>3, <2>4
    <2>6. \A b \in 1 .. n : \E a \in 1 .. n : s[a] = b
      BY <1>0, <1>2, <1>4, OrdersAreOnto
    <2> QED
      BY <2>3, <2>5, <2>6 DEF Follows
  <1>8. \A a \in 1 .. Rank(m) : a \notin 1 .. n => m.shape[a] = 1
    BY <1>5
  <1> QED
    BY <1>5, <1>6, <1>7, <1>8, FollowedIsShown

\* expand_dims
LEMMA ExpandShows ==
  ASSUME NEW l \in Layouts, NEW rank \in Nat, NEW new \in SUBSET (1 .. rank),
         rank = Rank(l) + Cardinality(new), NEW m, m = Expanded(l, new), NEW src,
         src = [c \in Box(m.shape) |->
                  [a \in DOMAIN l.shape |-> c[CHOOSE b \in (1 .. rank) \ new : SourceAxis(b, new) = a]]]
  PROVE  ShownBy(l, m, src) /\ ShownOnce(m, src)
  <1> DEFINE D == (1 .. rank) \ new
             at == [a \in D |-> SourceAxis(a, new)]
  <1>0. PICK n \in Nat : n = Rank(l) /\ DOMAIN l.shape = 1 .. n
    BY LayoutAxes
  <1>1. /\ Rank(m) = rank
        /\ \A a \in new : m.shape[a] = 1
        /\ AxisMap(l, m, D, at)
    BY ExpandedMap
  <1>2. m \in Layouts
    <2>1. Cardinality(new) \in Nat
      BY rank \in Int, FirstFinite
    <2> QED
      BY <2>1, ExpandedIsLayout
  <1>3. /\ \A a \in D : SourceAxis(a, new) \in 1 .. n
        /\ \A a, b \in D : SourceAxis(a, new) = SourceAxis(b, new) => a = b
        /\ \A p \in 1 .. n : \E a \in D : SourceAxis(a, new) = p
    BY <1>0, OldAxesAreNumbered
  <1> DEFINE from == [a \in 1 .. n |-> CHOOSE b \in (1 .. rank) \ new : SourceAxis(b, new) = a]
  <1>4. \A a \in 1 .. n : from[a] \in D /\ SourceAxis(from[a], new) = a
    BY <1>3
  <1>5. \A c \in Box(m.shape) : src[c] = [a \in 1 .. n |-> c[from[a]]]
    BY <1>0
  <1>6. \A a \in D : at[a] = SourceAxis(a, new) /\ a \in 1 .. rank
    OBVIOUS
  <1>7. \A a \in 1 .. Rank(m) : a \notin D => m.shape[a] = 1
    BY <1>1
  <1> HIDE DEF from, D, at
  <1>8. ASSUME NEW c \in Box(m.shape) PROVE Follows(l, D, at, c, src[c])
    <2>1. c \in [1 .. rank -> Nat]
      BY <1>1 DEF Box, Rank
    <2>0. PICK d : d = src[c] /\ d = [a \in 1 .. n |-> c[from[a]]]
      BY <1>5
    <2>2. d \in [1 .. n -> Nat]
      <3>1. \A a \in 1 .. n : c[from[a]] \in Nat
        BY <1>4, <1>6, <2>1
      <3> QED
        BY <2>0, <3>1
    <2>3. ASSUME NEW a \in D PROVE d[at[a]] = c[a]
      <3>1. at[a] \in 1 .. n /\ from[at[a]] = a
        BY <1>3, <1>4, <1>6
      <3> QED
        BY <2>0, <3>1
    <2>4. \A b \in 1 .. n : \E a \in D : at[a] = b
      BY <1>3, <1>6
    <2> QED
      BY <1>0, <2>0, <2>2, <2>3, <2>4 DEF Follows
  <1> QED
    BY <1>1, <1>2, <1>7, <1>8, FollowedIsShown

\* The coordinate that numpy stretches a dimension of size 1 from is the one the loop reads.
LEMMA StretchedIsRead ==
  ASSUME NEW shape \in Seq(Nat), NEW new \in Seq(Nat), ValidBroadcast(shape, new), NEW c \in Box(new)
  PROVE  /\ OperandCoords(shape, c) \in Box(shape)
         /\ Stretched(shape, c) = OperandCoords(shape, c)
         /\ Len(c) = Len(new)
  <1>1. PICK n \in Nat, k \in Nat : n = Len(shape) /\ DOMAIN shape = 1 .. n /\ k = Len(new)
    OBVIOUS
  <1>2. c \in [1 .. k -> Nat] /\ \A a \in 1 .. k : c[a] < new[a]
    BY <1>1 DEF Box
  <1>3. Len(c) = k
    BY <1>1, <1>2
  <1>4. PICK z \in Nat : z = k - n /\ k = n + z
    BY <1>1 DEF ValidBroadcast
  <1>5. \A a \in 1 .. n : shape[a] \in Nat /\ (shape[a] = 1 \/ shape[a] = new[z + a])
    <2>1. \A a \in 1 .. n : shape[a] \in {1, new[Len(new) - Len(shape) + a]}
      BY <1>1 DEF ValidBroadcast
    <2>2. Len(new) - Len(shape) = z
      BY <1>1, <1>4
    <2>3. \A a \in 1 .. n : shape[a] \in Nat
      BY <1>1
    <2> QED
      BY <2>1, <2>2, <2>3
  <1> DEFINE d == OperandCoords(shape, c)
  <1>6. d = [a \in 1 .. n |-> IF shape[a] = 1 THEN 0 ELSE c[z + a]]
    BY <1>1, <1>3, <1>4 DEF OperandCoords
  <1> HIDE DEF d
  <1>7. \A a \in 1 .. n : z + a \in 1 .. k
    BY <1>4
  <1>8. \A a \in 1 .. n : d[a] \in Nat /\ d[a] < shape[a] /\ (shape[a] = 1 \/ d[a] = c[z + a])
    <2> SUFFICES ASSUME NEW a \in 1 .. n
                 PROVE  d[a] \in Nat /\ d[a] < shape[a] /\ (shape[a] = 1 \/ d[a] = c[z + a])
      OBVIOUS
    <2>1. d[a] = IF shape[a] = 1 THEN 0 ELSE c[z + a]
      BY <1>6
    <2>2. c[z + a] \in Nat /\ c[z + a] < new[z + a]
      BY <1>2, <1>7
    <2>3. CASE shape[a] = 1
      BY <2>1, <2>3
    <2>4. CASE shape[a] # 1
      <3>1. d[a] = c[z + a] /\ shape[a] = new[z + a]
        BY <1>5, <2>1, <2>4
      <3> QED
        BY <2>2, <3>1
    <2> QED
      BY <2>3, <2>4
  <1>9. d \in [1 .. n -> Nat]
    BY <1>6, <1>8
  <1>10. d \in Box(shape)
    BY <1>1, <1>8, <1>9 DEF Box
  <1>11. Positions(shape) = Box(shape)
    BY PositionsAreBox
  <1>12. ASSUME NEW e \in Box(shape), \A a \in 1 .. n : shape[a] = 1 \/ e[a] = c[z + a]
         PROVE  e = d
    <2>1. e \in [1 .. n -> Nat] /\ \A a \in 1 .. n : e[a] < shape[a]
      BY <1>1 DEF Box
    <2>2. ASSUME NEW a \in 1 .. n PROVE e[a] = d[a]
      <3>1. CASE shape[a] = 1
        <4>1. e[a] \in Nat /\ e[a] < 1 /\ d[a] \in Nat /\ d[a] < 1
          BY <1>8, <2>1, <3>1
        <4> QED
          BY <4>1
      <3>2. CASE shape[a] # 1
        BY <1>8, <1>12, <3>2
      <3> QED
        BY <3>1, <3>2
    <2>3. e = [a \in 1 .. n |-> e[a]] /\ d = [a \in 1 .. n |-> d[a]]
      BY <1>9, <2>1
    <2>4. [a \in 1 .. n |-> e[a]] = [a \in 1 .. n |-> d[a]]
      BY <2>2
    <2> QED
      BY <2>3, <2>4, Zenon
  <1>13. Stretched(shape, c) = d
    <2>1. Len(c) - Len(shape) = z
      BY <1>1, <1>3, <1>4
    <2>2. \A e \in Box(shape) : (\A a \in DOMAIN shape : shape[a] = 1 \/ e[a] = c[Len(c) - Len(shape) + a]) <=> e = d
      BY <1>1, <1>8, <1>12, <2>1
    <2>3. Stretched(shape, c) = CHOOSE e \in Box(shape) :
            \A a \in DOMAIN shape : shape[a] = 1 \/ e[a] = c[Len(c) - Len(shape) + a]
      BY <1>11, Zenon DEF Stretched
    <2> QED
      BY <1>10, <2>2, <2>3
  <1> QED
    BY <1>1, <1>3, <1>10, <1>13 DEF d

\* broadcast_to
LEMMA BroadcastShows ==
  ASSUME NEW l \in Layouts, NEW new \in Seq(Nat), ValidBroadcast(l.shape, new),
         NEW m, m = Broadcast(l, new), NEW src,
         src = [c \in Box(m.shape) |-> Stretched(l.shape, c)]
  PROVE  ShownBy(l, m, src)
  <1>0. PICK n \in Nat, k \in Nat : n = Rank(l) /\ n = Len(l.shape) /\ DOMAIN l.shape = 1 .. n /\ k = Len(new)
    BY LayoutAxes DEF Rank
  <1>1. PICK z \in Nat : z = Len(new) - Rank(l) /\ k = n + z
    <2>1. n <= k /\ Len(new) - Rank(l) = k - n
      BY <1>0 DEF ValidBroadcast
    <2>2. k - n \in Nat /\ k = n + (k - n)
      BY <2>1
    <2> QED
      BY <2>1, <2>2
  <1> DEFINE D == {a \in 1 .. Len(new) : a > z /\ l.shape[a - z] # 1}
             at == [a \in D |-> a - z]
  <1>2. Rank(m) = Len(new) /\ AxisMap(l, m, D, at)
    BY <1>1, BroadcastMap
  <1>3. m \in Layouts
    BY BroadcastIsLayout
  <1>4. m.shape = new
    BY DEF Broadcast
  <1>5. \A a : a \in D <=> a \in 1 .. k /\ a > z /\ l.shape[a - z] # 1
    BY <1>0
  <1>6. \A a \in D : at[a] = a - z
    OBVIOUS
  <1> HIDE DEF D, at
  <1>7. ASSUME NEW c \in Box(m.shape) PROVE Follows(l, D, at, c, src[c])
    <2>0. l.shape \in Seq(Nat)
      BY LayoutAxes
    <2>1. /\ OperandCoords(l.shape, c) \in Box(l.shape)
          /\ Stretched(l.shape, c) = OperandCoords(l.shape, c)
          /\ Len(c) = Len(new)
      BY <1>4, <2>0, StretchedIsRead
    <2>2. PICK d : d = src[c] /\ d = OperandCoords(l.shape, c)
      BY <2>1
    <2>3. d \in [1 .. n -> Nat]
      BY <1>0, <2>1, <2>2 DEF Box
    <2>4. \A a \in 1 .. n : d[a] = IF l.shape[a] = 1 THEN 0 ELSE c[z + a]
      <3>1. Len(c) - Len(l.shape) = z
        BY <1>0, <1>1, <2>1
      <3> QED
        BY <1>0, <2>2, <3>1 DEF OperandCoords
    <2>5. ASSUME NEW a \in D PROVE d[at[a]] = c[a]
      <3>1. a \in 1 .. k /\ a > z /\ l.shape[a - z] # 1 /\ at[a] = a - z
        BY <1>5, <1>6
      <3>2. a - z \in 1 .. n /\ z + (a - z) = a
        BY <1>1, <3>1
      <3> QED
        BY <2>4, <3>1, <3>2
    <2>6. ASSUME NEW b \in 1 .. n, \A a \in D : at[a] # b PROVE d[b] = 0
      <3>1. z + b \in 1 .. k /\ z + b > z /\ (z + b) - z = b
        BY <1>1
      <3>2. l.shape[b] = 1
        BY <1>5, <1>6, <2>6, <3>1
      <3> QED
        BY <2>4, <3>2
    <2> QED
      BY <1>0, <2>2, <2>3, <2>5, <2>6 DEF Follows
  <1> QED
    BY <1>2, <1>3, <1>7, FollowedIsShown

\* Indexing
LEMMA IndexShowsBack ==
  ASSUME NEW v, v.concrete \in Layouts, NEW args \in Seq(Arguments), ValidIndex(v.concrete.shape, args),
         NEW m, m = Index("concrete", v.concrete, args), NEW src,
         src = [c \in Box(m.shape) |-> IndexSource(v, args, c)]
  PROVE  ShownBy(v.concrete, m, src) /\ ShownOnce(m, src)
  <1>1. IndexShown(v, args, m)
    BY IndexIsShown
  <1>2. \A c \in Box(m.shape) : src[c] = IndexSource(v, args, c)
    OBVIOUS
  <1> QED
    BY <1>1, <1>2 DEF IndexShown, ShownBy, ShownOnce

----------------------------------------------------------------------------
(* The cells behind every view.                                            *)

\* Each coordinate of the view has the address of a cell, a cell of its own where
\* the view is writeable.
Showing(v, cells) ==
  /\ {"cells", "writeable"} \subseteq DOMAIN v
  /\ DOMAIN v.cells = Box(v.concrete.shape)
  /\ \A c \in Box(v.concrete.shape) : v.cells[c] = Address(v.concrete, c) /\ v.cells[c] \in cells
  /\ v.writeable => \A c, d \in Box(v.concrete.shape) : v.cells[c] = v.cells[d] => c = d

CellsInv == \A i \in DOMAIN views : Showing(views[i], DOMAIN plain)

\* What the invariant is for.
LEMMA CellsAreShown == ViewInv /\ CellsInv => ViewsShowTheirCells
  <1> SUFFICES ASSUME ViewInv, CellsInv PROVE ViewsShowTheirCells
    OBVIOUS
  <1>1. ASSUME NEW i \in DOMAIN views, NEW half \in Halves, NEW c \in DOMAIN views[i].cells,
               NEW l, l = views[i][half]
        PROVE  /\ Address(l, c) = views[i].cells[c]
               /\ Index(half, l, [a \in DOMAIN c |-> Int1(c[a])]).offset = views[i].cells[c]
               /\ Index(half, l, [a \in DOMAIN c |-> Int1(c[a] - l.shape[a])]).offset = views[i].cells[c]
    <2>1. l = views[i].concrete /\ l \in Layouts
      <3>1. views[i].formula = views[i].concrete /\ views[i].concrete \in Layouts
        BY ViewTypes
      <3>2. l = views[i].formula \/ l = views[i].concrete
        BY <1>1 DEF Halves
      <3> QED
        BY <3>1, <3>2
    <2>2. c \in Box(l.shape) /\ views[i].cells[c] = Address(l, c)
      BY <2>1 DEF CellsInv, Showing
    <2>3. /\ Index(half, l, [a \in DOMAIN c |-> Int1(c[a])]).offset = Address(l, c)
          /\ Index(half, l, [a \in DOMAIN c |-> Int1(c[a] - l.shape[a])]).offset = Address(l, c)
      BY <2>1, <2>2, IntegersRead
    <2> QED
      BY <2>2, <2>3
  <1>2. WriteableWithoutAliases
    BY DEF WriteableWithoutAliases, CellsInv, Showing
  <1> QED
    BY <1>1, <1>2 DEF ViewsShowTheirCells

\* A view of a view shows cells of the same array.
LEMMA OneMoreShown ==
  ASSUME ViewInv, CellsInv, NEW i \in DOMAIN views, NEW m, NEW src,
         ShownBy(views[i].concrete, m, src), NEW view,
         views' = Append(views, view), plain' = plain, view.concrete = m,
         {"cells", "writeable"} \subseteq DOMAIN view, DOMAIN view.cells = Box(m.shape),
         \A c \in Box(m.shape) : view.cells[c] = views[i].cells[src[c]],
         view.writeable => views[i].writeable /\ ShownOnce(m, src)
  PROVE  CellsInv'
  <1>1. PICK S : views \in Seq(S)
    BY DEF ViewInv, IsList
  <1>2. views \in Seq(S \cup {view})
    BY <1>1, SeqMonotonic
  <1>3. Showing(views[i], DOMAIN plain)
    BY DEF CellsInv
  <1>4. Showing(view, DOMAIN plain)
    <2>1. ASSUME NEW c \in Box(m.shape) PROVE view.cells[c] = Address(m, c) /\ view.cells[c] \in DOMAIN plain
      <3>1. src[c] \in Box(views[i].concrete.shape) /\ Address(m, c) = Address(views[i].concrete, src[c])
        BY DEF ShownBy
      <3>2. /\ views[i].cells[src[c]] = Address(views[i].concrete, src[c])
            /\ views[i].cells[src[c]] \in DOMAIN plain
        BY <1>3, <3>1 DEF Showing
      <3> QED
        BY <3>1, <3>2
    <2>2. ASSUME view.writeable, NEW c \in Box(m.shape), NEW d \in Box(m.shape), view.cells[c] = view.cells[d]
          PROVE  c = d
      <3>1. src[c] \in Box(views[i].concrete.shape) /\ src[d] \in Box(views[i].concrete.shape)
        BY DEF ShownBy
      <3>2. views[i].cells[src[c]] = views[i].cells[src[d]]
        BY <2>2
      <3>3. src[c] = src[d]
        BY <1>3, <2>2, <3>1, <3>2 DEF Showing
      <3> QED
        BY <2>2, <3>3 DEF ShownOnce
    <2> QED
      BY <2>1, <2>2 DEF Showing
  <1>5. ASSUME NEW j \in DOMAIN views' PROVE Showing(views'[j], DOMAIN plain)
    <2>1. (j \in DOMAIN views /\ views'[j] = views[j]) \/ views'[j] = view
      BY <1>2
    <2> QED
      BY <1>4, <2>1 DEF CellsInv
  <1> QED
    BY <1>5 DEF CellsInv

\* The array starts with a cell for each coordinate.
LEMMA StartShows == Init => CellsInv
  <1> SUFFICES ASSUME Init PROVE CellsInv
    OBVIOUS
  <1>1. PICK shape \in Shapes :
          LET layout == [shape |-> shape, offset |-> 0, strides |-> DefaultStrides(shape)]
              number(c) == CHOOSE k \in DOMAIN Coordinates(shape) : Coordinates(shape)[k] = c
          IN  /\ views = <<[formula |-> layout, concrete |-> layout, writeable |-> TRUE,
                            cells |-> [c \in Positions(shape) |-> number(c) - 1]]>>
              /\ storage = [p \in 0 .. Product(shape) - 1 |-> p]
              /\ plain = storage
    BY Zenon DEF Init
  <1> DEFINE number == [c \in Positions(shape) |->
                          CHOOSE k \in DOMAIN Coordinates(shape) : Coordinates(shape)[k] = c]
  <1>2. PICK l, view : /\ l = [shape |-> shape, offset |-> 0, strides |-> DefaultStrides(shape)]
                       /\ views = <<view>>
                       /\ view.concrete = l /\ {"cells", "writeable"} \subseteq DOMAIN view
                       /\ view.cells = [c \in Positions(shape) |->
                            (CHOOSE k \in DOMAIN Coordinates(shape) : Coordinates(shape)[k] = c) - 1]
    <2>1. PICK cells : cells = [c \in Positions(shape) |->
                            (CHOOSE k \in DOMAIN Coordinates(shape) : Coordinates(shape)[k] = c) - 1]
      OBVIOUS
    <2>2. PICK l : l = [shape |-> shape, offset |-> 0, strides |-> DefaultStrides(shape)]
      OBVIOUS
    <2>3. PICK view : view = [formula |-> l, concrete |-> l, writeable |-> TRUE, cells |-> cells]
      OBVIOUS
    <2>4. views = <<[formula |-> l, concrete |-> l, writeable |-> TRUE,
                     cells |-> [c \in Positions(shape) |->
                        (CHOOSE k \in DOMAIN Coordinates(shape) : Coordinates(shape)[k] = c) - 1]]>>
      BY <1>1, <2>2, Zenon
    <2>5. views = <<view>>
      BY <2>1, <2>3, <2>4, Zenon
    <2>6. view.concrete = l /\ view.cells = cells /\ {"cells", "writeable"} \subseteq DOMAIN view
      BY <2>3
    <2> QED
      BY <2>1, <2>2, <2>5, <2>6, Zenon
  <1>3. DOMAIN plain = 0 .. Product(shape) - 1
    BY <1>1
  <1>4. shape \in Seq(Nat)
    BY ArgumentAssumption
  <1>5. PICK n \in Nat : n = Len(shape)
    BY <1>4
  <1>6. l \in Layouts /\ l.shape = shape /\ l.offset = 0 /\ l.strides = DefaultStrides(shape) /\ Rank(l) = n
    BY <1>2, <1>4, <1>5, StridesAreIntegers DEF Layouts, Rank
  <1>7. Positions(shape) = Box(shape)
    BY <1>4, PositionsAreBox
  <1>8. /\ Product(shape) \in Nat
        /\ DOMAIN Coordinates(shape) = 1 .. Product(shape)
        /\ \A k \in 1 .. Product(shape) : PlaceOf(shape, Coordinates(shape)[k]) = k - 1
        /\ \A c \in Box(shape) : \E k \in 1 .. Product(shape) : Coordinates(shape)[k] = c
    BY <1>4, CoordinatesInOrder
  <1>9. \A c \in Box(shape) : /\ number[c] \in 1 .. Product(shape) /\ Coordinates(shape)[number[c]] = c
                              /\ view.cells[c] = number[c] - 1
    BY <1>2, <1>7, <1>8
  <1> HIDE DEF number
  <1>10. ASSUME NEW c \in Box(shape) PROVE view.cells[c] = Address(l, c) /\ view.cells[c] \in DOMAIN plain
    <2>1. PlaceOf(shape, c) = number[c] - 1
      BY <1>8, <1>9
    <2>2. PlaceOf(shape, c) = SumSeq([a \in 1 .. n |-> c[a] * DefaultStrides(shape)[a]])
      BY <1>5 DEF PlaceOf
    <2>3. Address(l, c) = 0 + SumSeq([a \in 1 .. n |-> c[a] * DefaultStrides(shape)[a]])
      BY <1>6, AddressIsSum
    <2>4. PICK z \in Nat : z = number[c] - 1 /\ z \in 0 .. Product(shape) - 1
      BY <1>8, <1>9
    <2>5. Address(l, c) = 0 + z
      BY <2>1, <2>2, <2>3, <2>4
    <2> QED
      BY <1>3, <1>9, <2>4, <2>5
  <1>11. ASSUME NEW c \in Box(shape), NEW d \in Box(shape), view.cells[c] = view.cells[d] PROVE c = d
    <2>1. number[c] = number[d]
      BY <1>9, <1>11
    <2> QED
      BY <1>9, <2>1
  <1>12. DOMAIN view.cells = Box(shape)
    BY <1>2, <1>7
  <1>13. Showing(view, DOMAIN plain)
    BY <1>2, <1>6, <1>10, <1>11, <1>12 DEF Showing
  <1>14. \A i \in DOMAIN views : views[i] = view
    BY <1>2
  <1> QED
    BY <1>13, <1>14 DEF CellsInv

\* Indexing shows cells of the array.
LEMMA GetItemShows ==
  ASSUME ViewInv, CellsInv, NEW i \in DOMAIN views, NEW args \in Indices, GetItem(views[i], args)
  PROVE  CellsInv'
  <1> DEFINE v == views[i]
             m == Index("concrete", v.concrete, args)
             src == [c \in Positions(m.shape) |-> IndexSource(v, args, c)]
             cells == [c \in Positions(m.shape) |-> v.cells[IndexSource(v, args, c)]]
  <1>1. views' = Append(views, Recreated(Index("formula", v.formula, args), m, v.writeable, cells))
        /\ plain' = plain
    BY Zenon DEF GetItem, TakeView
  <1>2. args \in Seq(Arguments) /\ ValidIndex(v.concrete.shape, args)
    BY ArgumentAssumption DEF GetItem
  <1>3. v.concrete \in Layouts
    BY ViewTypes
  <1>4. m \in Layouts
    BY <1>2, <1>3, IndexAgrees
  <1>5. Positions(m.shape) = Box(m.shape)
    BY <1>4, LayoutAxes, PositionsAreBox
  <1>6. DOMAIN cells = Box(m.shape) /\ \A c \in Box(m.shape) : cells[c] = v.cells[src[c]]
    <2> HIDE DEF m, v
    <2> QED
      BY <1>5
  <1>7. ShownBy(v.concrete, m, src) /\ ShownOnce(m, src)
    <2>1. src = [c \in Box(m.shape) |-> IndexSource(v, args, c)]
      <3> HIDE DEF m, v
      <3> QED
        BY <1>5
    <2> HIDE DEF src, m, v
    <2> QED
      BY <1>2, <1>3, <2>1, IndexShowsBack DEF m
  <1> HIDE DEF m, src, cells
  <1>8. PICK view : /\ views' = Append(views, view) /\ view.concrete = m /\ view.cells = cells
                    /\ view.writeable = v.writeable /\ {"cells", "writeable"} \subseteq DOMAIN view
    BY <1>1 DEF Recreated
  <1> QED
    BY <1>1, <1>6, <1>7, <1>8, OneMoreShown

\* swapaxes shows cells of the array.
LEMMA SwapAxesShows ==
  ASSUME ViewInv, CellsInv, NEW i \in DOMAIN views, NEW axis1 \in Int, NEW axis2 \in Int,
         SwapAxes(views[i], axis1, axis2)
  PROVE  CellsInv'
  <1> DEFINE v == views[i]
             rank == Rank(v.concrete)
             a == NormalAxis(axis1, rank)
             b == NormalAxis(axis2, rank)
             m == Permuted(v.concrete, SwapSource("concrete", a, b, rank))
             src == [c \in Positions(m.shape) |-> [c EXCEPT ![a] = c[b], ![b] = c[a]]]
             cells == [c \in Positions(m.shape) |-> v.cells[[c EXCEPT ![a] = c[b], ![b] = c[a]]]]
  <1>1. /\ views' = Append(views, Recreated(Permuted(v.formula, SwapSource("formula", a, b, rank)),
                                            m, v.writeable, cells))
        /\ plain' = plain
    BY Zenon DEF SwapAxes, TakeView
  <1>2. ValidAxis(axis1, rank) /\ ValidAxis(axis2, rank)
    BY DEF SwapAxes
  <1>3. v.concrete \in Layouts /\ rank \in Nat
    BY ViewTypes
  <1>4. a \in 1 .. rank /\ b \in 1 .. rank
    BY <1>2, <1>3, AxisIsNormal
  <1> HIDE DEF a, b, v
  <1>5. SwapSource("formula", a, b, rank) = SwapSource("concrete", a, b, rank)
        /\ SwapSource("concrete", a, b, rank) \in [1 .. rank -> 1 .. rank]
    BY <1>3, <1>4, SwapsAgree
  <1>6. m \in Layouts /\ m = Permuted(v.concrete, SwapSource("formula", a, b, rank))
    BY <1>3, <1>5, PermutedIsLayout
  <1> HIDE DEF m
  <1>7. Positions(m.shape) = Box(m.shape)
    BY <1>6, LayoutAxes, PositionsAreBox
  <1>8. DOMAIN cells = Box(m.shape) /\ \A c \in Box(m.shape) : cells[c] = v.cells[src[c]]
    BY <1>7
  <1>9. src = [c \in Box(m.shape) |-> [c EXCEPT ![a] = c[b], ![b] = c[a]]]
    BY <1>7
  <1> HIDE DEF src, cells
  <1>10. ShownBy(v.concrete, m, src) /\ ShownOnce(m, src)
    BY <1>3, <1>4, <1>6, <1>9, SwapShows
  <1>11. PICK view : /\ views' = Append(views, view) /\ view.concrete = m /\ view.cells = cells
                     /\ view.writeable = v.writeable /\ {"cells", "writeable"} \subseteq DOMAIN view
    BY <1>1 DEF Recreated
  <1> QED
    BY <1>1, <1>8, <1>10, <1>11, OneMoreShown DEF v

\* transpose shows cells of the array.
LEMMA TransposeShowsCells ==
  ASSUME ViewInv, CellsInv, NEW i \in DOMAIN views, NEW axes \in AxisOrders(Rank(views[i].concrete)),
         Transpose(views[i], axes)
  PROVE  CellsInv'
  <1> DEFINE v == views[i]
             n == Rank(v.concrete)
             m == Permuted(v.concrete, axes)
             src == [c \in Positions(m.shape) |->
                       [a \in DOMAIN axes |-> c[CHOOSE b \in DOMAIN axes : axes[b] = a]]]
             cells == [c \in Positions(m.shape) |->
                         v.cells[[a \in DOMAIN axes |-> c[CHOOSE b \in DOMAIN axes : axes[b] = a]]]]
  <1>1. /\ views' = Append(views, Recreated(Permuted(v.formula, axes), m, v.writeable, cells))
        /\ plain' = plain
    BY Zenon DEF Transpose, TakeView
  <1>2. v.concrete \in Layouts
    BY ViewTypes
  <1>3. axes \in [1 .. n -> 1 .. n] /\ \A a, b \in 1 .. n : axes[a] = axes[b] => a = b
    <2>1. axes \in [1 .. n -> 1 .. n] /\ IsPermutation(axes, n)
      BY DEF AxisOrders
    <2>2. DOMAIN axes = 1 .. n
      BY <2>1
    <2> QED
      BY <2>1, <2>2 DEF IsPermutation
  <1> HIDE DEF v
  <1>4. m \in Layouts
    BY <1>2, <1>3, PermutedIsLayout
  <1>41. m = Permuted(v.concrete, axes)
    OBVIOUS
  <1> HIDE DEF m
  <1>5. Positions(m.shape) = Box(m.shape)
    BY <1>4, LayoutAxes, PositionsAreBox
  <1>6. DOMAIN cells = Box(m.shape) /\ \A c \in Box(m.shape) : cells[c] = v.cells[src[c]]
    BY <1>5
  <1> DEFINE from == [a \in 1 .. n |-> CHOOSE b \in DOMAIN axes : axes[b] = a]
  <1>7. DOMAIN axes = 1 .. n /\ n \in Nat
    BY <1>2, <1>3, LayoutAxes
  <1>8. Inverts(from, axes, n)
    <2>1. \A a \in 1 .. n : \E b \in DOMAIN axes : axes[b] = a
      BY <1>3, <1>7, OrdersAreOnto
    <2>2. \A a \in 1 .. n : from[a] \in 1 .. n /\ axes[from[a]] = a
      BY <1>7, <2>1
    <2> QED
      BY <2>2 DEF Inverts
  <1>9. Reorders(src, m, n, from)
    <2>1. \A c \in Box(m.shape) : src[c] = [a \in 1 .. n |-> c[from[a]]]
      BY <1>5, <1>7
    <2> HIDE DEF src, from
    <2> QED
      BY <2>1 DEF Reorders
  <1>10. n = Rank(v.concrete)
    OBVIOUS
  <1> HIDE DEF src, cells, n, from
  <1>11. ShownBy(v.concrete, m, src) /\ ShownOnce(m, src)
    BY <1>2, <1>3, <1>41, <1>8, <1>9, <1>10, TransposeShows
  <1>12. PICK view : /\ views' = Append(views, view) /\ view.concrete = m /\ view.cells = cells
                    /\ view.writeable = v.writeable /\ {"cells", "writeable"} \subseteq DOMAIN view
    BY <1>1 DEF Recreated
  <1> QED
    BY <1>1, <1>6, <1>11, <1>12, OneMoreShown DEF v

\* expand_dims shows cells of the array.
LEMMA ExpandDimsShows ==
  ASSUME ViewInv, CellsInv, NEW i \in DOMAIN views, NEW axes \in Seq(Int), ExpandDims(views[i], axes)
  PROVE  CellsInv'
  <1> DEFINE v == views[i]
             rank == Rank(v.concrete) + Len(axes)
             new == {NormalAxis(axes[k], rank) : k \in DOMAIN axes}
             m == Expanded(v.concrete, new)
             src == [c \in Positions(m.shape) |->
                       [a \in DOMAIN v.concrete.shape |->
                          c[CHOOSE b \in (1 .. rank) \ new : SourceAxis(b, new) = a]]]
             cells == [c \in Positions(m.shape) |->
                         v.cells[[a \in DOMAIN v.concrete.shape |->
                            c[CHOOSE b \in (1 .. rank) \ new : SourceAxis(b, new) = a]]]]
  <1>1. /\ views' = Append(views, Recreated(Expanded(v.formula, new), m, v.writeable, cells))
        /\ plain' = plain
    BY Zenon DEF ExpandDims, TakeView
  <1>2. /\ \A k \in DOMAIN axes : ValidAxis(axes[k], rank)
        /\ Cardinality(new) = Len(axes)
    BY DEF ExpandDims
  <1>3. v.concrete \in Layouts /\ Rank(v.concrete) \in Nat
    BY ViewTypes
  <1>4. rank \in Nat /\ Len(axes) \in Nat /\ \A k \in DOMAIN axes : axes[k] \in Int
    BY <1>3
  <1>5. \A k \in DOMAIN axes : NormalAxis(axes[k], rank) \in 1 .. rank
    BY <1>2, <1>4, AxisIsNormal
  <1>6. new \in SUBSET (1 .. rank) /\ Cardinality(new) \in Nat /\ rank = Rank(v.concrete) + Cardinality(new)
    BY <1>2, <1>4, <1>5
  <1> HIDE DEF v, new, rank
  <1>7. m \in Layouts
    BY <1>3, <1>6, ExpandedIsLayout
  <1>8. m = Expanded(v.concrete, new)
    OBVIOUS
  <1> HIDE DEF m
  <1>9. Positions(m.shape) = Box(m.shape)
    BY <1>7, LayoutAxes, PositionsAreBox
  <1>10. DOMAIN cells = Box(m.shape) /\ \A c \in Box(m.shape) : cells[c] = v.cells[src[c]]
    BY <1>9
  <1>11. src = [c \in Box(m.shape) |->
                  [a \in DOMAIN v.concrete.shape |->
                     c[CHOOSE b \in (1 .. rank) \ new : SourceAxis(b, new) = a]]]
    BY <1>9
  <1> HIDE DEF src, cells
  <1>12. ShownBy(v.concrete, m, src) /\ ShownOnce(m, src)
    BY <1>3, <1>4, <1>6, <1>8, <1>11, ExpandShows
  <1>13. PICK view : /\ views' = Append(views, view) /\ view.concrete = m /\ view.cells = cells
                     /\ view.writeable = v.writeable /\ {"cells", "writeable"} \subseteq DOMAIN view
    BY <1>1 DEF Recreated
  <1> QED
    BY <1>1, <1>10, <1>12, <1>13, OneMoreShown DEF v

\* broadcast_to shows cells of the array; its view is not written through.
LEMMA BroadcastShowsCells ==
  ASSUME ViewInv, CellsInv, NEW i \in DOMAIN views, NEW shape \in Targets, BroadcastTo(views[i], shape)
  PROVE  CellsInv'
  <1> DEFINE v == views[i]
             m == Broadcast(v.concrete, shape)
             src == [c \in Positions(m.shape) |-> Stretched(v.concrete.shape, c)]
             cells == [c \in Positions(m.shape) |-> v.cells[Stretched(v.concrete.shape, c)]]
  <1>1. /\ views' = Append(views, Recreated(Broadcast(v.formula, shape), m, FALSE, cells))
        /\ plain' = plain
    BY Zenon DEF BroadcastTo, TakeView, BroadcastWriteable
  <1>2. shape \in Seq(Nat) /\ ValidBroadcast(v.concrete.shape, shape)
    BY ArgumentAssumption DEF BroadcastTo
  <1>3. v.concrete \in Layouts
    BY ViewTypes
  <1> HIDE DEF v
  <1>4. m \in Layouts
    BY <1>2, <1>3, BroadcastIsLayout
  <1>5. m = Broadcast(v.concrete, shape)
    OBVIOUS
  <1> HIDE DEF m
  <1>6. Positions(m.shape) = Box(m.shape)
    BY <1>4, LayoutAxes, PositionsAreBox
  <1>7. DOMAIN cells = Box(m.shape) /\ \A c \in Box(m.shape) : cells[c] = v.cells[src[c]]
    BY <1>6
  <1>8. src = [c \in Box(m.shape) |-> Stretched(v.concrete.shape, c)]
    BY <1>6
  <1> HIDE DEF src, cells
  <1>9. ShownBy(v.concrete, m, src)
    BY <1>2, <1>3, <1>5, <1>8, BroadcastShows
  <1>10. PICK view : views' = Append(views, view) /\ view.concrete = m /\ view.cells = cells
                     /\ view.writeable = FALSE /\ {"cells", "writeable"} \subseteq DOMAIN view
    BY <1>1 DEF Recreated
  <1>11. view.writeable => v.writeable /\ ShownOnce(m, src)
    BY <1>10
  <1>12. DOMAIN view.cells = Box(m.shape) /\ \A c \in Box(m.shape) : view.cells[c] = v.cells[src[c]]
    BY <1>7, <1>10
  <1>13. ShownBy(views[i].concrete, m, src) /\ view.concrete = m /\ views' = Append(views, view)
         /\ plain' = plain
    BY <1>1, <1>9, <1>10 DEF v
  <1> QED
    BY <1>10, <1>11, <1>12, <1>13, OneMoreShown DEF v

\* Every way to take a view shows cells of the array.
LEMMA ViewStepShows == ViewInv /\ CellsInv /\ ViewStep => CellsInv'
  <1> SUFFICES ASSUME ViewInv, CellsInv, ViewStep PROVE CellsInv'
    OBVIOUS
  <1>1. AxisNumbers \subseteq Int /\ AxisTuples \subseteq Seq(Int)
    BY AxisTuplesAreTuples
  <1>2. PICK i \in DOMAIN views :
          \/ \E args \in Indices : GetItem(views[i], args)
          \/ \E a, b \in AxisNumbers : SwapAxes(views[i], a, b)
          \/ \E axes \in AxisOrders(Rank(views[i].concrete)) : Transpose(views[i], axes)
          \/ \E axes \in AxisTuples : ExpandDims(views[i], axes)
          \/ \E shape \in Targets : BroadcastTo(views[i], shape)
    BY Zenon DEF ViewStep
  <1>3. CASE \E args \in Indices : GetItem(views[i], args)
    BY <1>3, GetItemShows
  <1>4. CASE \E a, b \in AxisNumbers : SwapAxes(views[i], a, b)
    BY <1>1, <1>4, SwapAxesShows
  <1>5. CASE \E axes \in AxisOrders(Rank(views[i].concrete)) : Transpose(views[i], axes)
    BY <1>5, TransposeShowsCells
  <1>6. CASE \E axes \in AxisTuples : ExpandDims(views[i], axes)
    BY <1>1, <1>6, ExpandDimsShows
  <1>7. CASE \E shape \in Targets : BroadcastTo(views[i], shape)
    BY <1>7, BroadcastShowsCells
  <1> QED
    BY <1>2, <1>3, <1>4, <1>5, <1>6, <1>7

\* Assignments take no views and keep numpy's array as large as it is.
LEMMA AssignStepShows == CellsInv /\ AssignStep => CellsInv'
  <1> SUFFICES ASSUME CellsInv, AssignStep PROVE CellsInv'
    OBVIOUS
  <1>1. views' = views /\ DOMAIN plain' = DOMAIN plain
    <2>1. PICK i \in DOMAIN views, j \in DOMAIN views :
            \/ \E args \in Indices, x \in Values : i = j /\ SetItem(views[i], args, x)
            \/ CopyTo(views[i], views[j])
            \/ \E k \in DOMAIN views : Ufunc(views[i], views[j], views[k])
            \/ \E reduced \in AxisNumbers \cup {None}, keepdims \in BOOLEAN, initial \in Values \cup {None} :
                 Reduce(views[i], views[j], reduced, keepdims, initial)
      BY Zenon DEF AssignStep
    <2>2. \A args, x : SetItem(views[i], args, x) => views' = views /\ DOMAIN plain' = DOMAIN plain
      BY Zenon DEF SetItem, Assign
    <2>3. CopyTo(views[i], views[j]) => views' = views /\ DOMAIN plain' = DOMAIN plain
      BY Zenon DEF CopyTo, Assign
    <2>4. \A k : Ufunc(views[i], views[j], views[k]) => views' = views /\ DOMAIN plain' = DOMAIN plain
      BY Zenon DEF Ufunc, Assign
    <2>5. \A reduced, keepdims, initial :
            Reduce(views[i], views[j], reduced, keepdims, initial)
              => views' = views /\ DOMAIN plain' = DOMAIN plain
      BY Zenon DEF Reduce, Assign
    <2> QED
      BY <2>1, <2>2, <2>3, <2>4, <2>5, Zenon
  <1> QED
    BY <1>1 DEF CellsInv

\* Every coordinate of every view has the address of the cell that numpy shows there,
\* for an array of any shape and views of views of every kind; an index of integers
\* finds it from either end; and no cell is written through two coordinates.
THEOREM ViewsAreRight == Spec => []ViewsShowTheirCells
  <1>1. Init => ViewInv /\ CellsInv
    BY StartAgrees, StartShows
  <1>2. ViewInv /\ CellsInv /\ [Next]_vars => ViewInv' /\ CellsInv'
    <2> SUFFICES ASSUME ViewInv, CellsInv, [Next]_vars PROVE ViewInv' /\ CellsInv'
      OBVIOUS
    <2>1. ViewStep \/ AssignStep \/ UNCHANGED vars
      BY DEF Next
    <2>2. CASE UNCHANGED vars
      BY <2>2 DEF vars, ViewInv, CellsInv
    <2> QED
      BY <2>1, <2>2, ViewStepAgrees, AssignStepAgrees, ViewStepShows, AssignStepShows
  <1>3. ViewInv /\ CellsInv => ViewsShowTheirCells
    BY CellsAreShown
  <1> QED
    BY <1>1, <1>2, <1>3, PTL DEF Spec

----------------------------------------------------------------------------
(* Writing through a view.                                                 *)

\* The values written one after another.
IsWriting(g, n, store, at, values) ==
  /\ g[0] = store
  /\ \A k \in 1 .. n : g[k] = [g[k - 1] EXCEPT ![at[k]] = values[k]]

\* The cells of a layout in the order of its elements.
CellsInOrder(n, layout) == [k \in 1 .. n |-> Address(layout, Coordinates(layout.shape)[k])]

HasWriting(n, layout, store, values) ==
  \E g : /\ IsWriting(g, n, store, CellsInOrder(n, layout), values)
         /\ Written(store, layout, values) = g[n]

\* What is written, value by value.
LEMMA WrittenByPrefix ==
  ASSUME NEW n \in Nat, NEW layout, DOMAIN Coordinates(layout.shape) = 1 .. n,
         NEW P, NEW V, NEW store \in [P -> V], NEW values \in [1 .. n -> V]
  PROVE  HasWriting(n, layout, store, values)
  <1> DEFINE at == CellsInOrder(n, layout)
             coords == Coordinates(layout.shape)
             order == [k \in DOMAIN coords |-> k]
             Unfolded(f) == [T \in SUBSET DOMAIN order |->
                               IF T = {} THEN store
                               ELSE [f[T \ {Max(T)}] EXCEPT ![Address(layout, coords[order[Max(T)]])]
                                                              = values[order[Max(T)]]]]
             F == CHOOSE f : f = Unfolded(f)
  <1>0. DOMAIN order = 1 .. n /\ \A k \in 1 .. n : order[k] = k
    OBVIOUS
  <1>01. \A k \in 1 .. n : at[k] = Address(layout, coords[k])
    BY DEF CellsInOrder
  <1> HIDE DEF at
  <1>1. PICK op \in [(1 .. n) \X [P -> V] -> [P -> V]] :
          \A k \in 1 .. n, s \in [P -> V] : op[<<k, s>>] = [s EXCEPT ![at[k]] = values[k]]
    <2> DEFINE put == [p \in (1 .. n) \X [P -> V] |-> [p[2] EXCEPT ![at[p[1]]] = values[p[1]]]]
    <2>1. \A k \in 1 .. n, s \in [P -> V] : [s EXCEPT ![at[k]] = values[k]] \in [P -> V]
      OBVIOUS
    <2>2. put \in [(1 .. n) \X [P -> V] -> [P -> V]]
      BY <2>1
    <2>3. \A k \in 1 .. n, s \in [P -> V] : put[<<k, s>>] = [s EXCEPT ![at[k]] = values[k]]
      OBVIOUS
    <2> HIDE DEF put
    <2> QED
      BY <2>2, <2>3
  <1>2. PICK f \in [SUBSET (1 .. n) -> [P -> V]] : \A T \in SUBSET (1 .. n) : f[T] = FoldStep(op, store, f, T)
    <2>1. PICK S : S = [P -> V]
      OBVIOUS
    <2>2. HasFold(n, op, store, S)
      BY <2>1, FoldExists
    <2> QED
      BY <2>1, <2>2 DEF HasFold
  <1> DEFINE Next1(f0, T) == [f0[T \ {Max(T)}] EXCEPT ![Address(layout, coords[order[Max(T)]])]
                                                         = values[order[Max(T)]]]
  <1>3. f = Unfolded(f)
    <2>1. ASSUME NEW T \in SUBSET (1 .. n)
          PROVE  f[T] = IF T = {} THEN store ELSE Next1(f, T)
      <3>1. CASE T = {}
        BY <1>2, <3>1 DEF FoldStep
      <3>2. CASE T # {}
        <4>1. PICK m \in 1 .. n : m = Max(T)
          BY <3>2, GreatestOf
        <4>2. f[T \ {m}] \in [P -> V]
          BY <1>2
        <4>3. f[T] = op[<<m, f[T \ {m}]>>]
          BY <1>2, <3>2, <4>1 DEF FoldStep
        <4>4. f[T] = [f[T \ {m}] EXCEPT ![at[m]] = values[m]]
          BY <1>1, <4>2, <4>3
        <4>5. order[m] = m /\ at[m] = Address(layout, coords[m])
          BY <1>0, <1>01
        <4> HIDE DEF order, coords
        <4>6. Next1(f, T) = [f[T \ {m}] EXCEPT ![at[m]] = values[m]]
          BY <4>1, <4>5, Zenon
        <4> QED
          BY <3>2, <4>4, <4>6, Zenon
      <3> QED
        BY <3>1, <3>2
    <2>2. f = [T \in SUBSET (1 .. n) |-> f[T]]
      OBVIOUS
    <2>3. [T \in SUBSET (1 .. n) |-> f[T]] = [T \in SUBSET (1 .. n) |-> IF T = {} THEN store ELSE Next1(f, T)]
      <3> HIDE DEF Next1
      <3> QED
        BY <2>1
    <2>4. f = [T \in SUBSET (1 .. n) |-> IF T = {} THEN store ELSE Next1(f, T)]
      BY <2>2, <2>3, Zenon
    <2> HIDE DEF order, coords
    <2> QED
      BY <1>0, <2>4, Zenon
  <1>4. F = Unfolded(F)
    <2> HIDE DEF Unfolded
    <2> QED
      BY <1>3
  <1>5. Written(store, layout, values) = F[DOMAIN order]
    BY Zenon DEF Written, FoldLeft, MapThenFoldSet
  <1> HIDE DEF F
  <1>6. \A T \in SUBSET (1 .. n) : F[T] = IF T = {} THEN store ELSE Next1(F, T)
    <2> HIDE DEF order, coords
    <2>1. F = [T \in SUBSET (1 .. n) |-> IF T = {} THEN store ELSE Next1(F, T)]
      BY <1>0, <1>4, Zenon
    <2> HIDE DEF Next1
    <2> QED
      BY <2>1
  <1>7. F[{}] = store
    BY <1>6
  <1>8. ASSUME NEW k \in 1 .. n PROVE F[1 .. k] = [F[1 .. k - 1] EXCEPT ![at[k]] = values[k]]
    <2>1. 1 .. k \in SUBSET (1 .. n) /\ 1 .. k # {} /\ (1 .. k) \ {k} = 1 .. k - 1
      BY FirstNumbers
    <2>2. Max(1 .. k) = k
      BY GreatestOfFirst
    <2>3. order[k] = k /\ at[k] = Address(layout, coords[k])
      BY <1>0, <1>01
    <2> HIDE DEF order, coords
    <2>4. F[1 .. k] = Next1(F, 1 .. k)
      <3> HIDE DEF Next1
      <3> QED
        BY <1>6, <2>1
    <2> QED
      BY <2>1, <2>2, <2>3, <2>4, Zenon
  <1> DEFINE g == [k \in 0 .. n |-> F[1 .. k]]
  <1>9. g[0] = store /\ g[n] = F[1 .. n]
    <2>1. 1 .. 0 = {} /\ 0 \in 0 .. n /\ n \in 0 .. n
      OBVIOUS
    <2> QED
      BY <1>7, <2>1
  <1>10. ASSUME NEW k \in 1 .. n PROVE g[k] = [g[k - 1] EXCEPT ![at[k]] = values[k]]
    <2>1. k \in 0 .. n /\ k - 1 \in 0 .. n
      OBVIOUS
    <2>2. g[k] = F[1 .. k] /\ g[k - 1] = F[1 .. k - 1]
      BY <2>1
    <2> QED
      BY <1>8, <2>2, Zenon
  <1> HIDE DEF g, order
  <1>11. IsWriting(g, n, store, at, values)
    BY <1>9, <1>10 DEF IsWriting
  <1> QED
    BY <1>0, <1>5, <1>9, <1>11 DEF HasWriting, at

\* The result has the values where they are written, and the rest of the store.
WrittenAt(result, n, P, store, at, values) ==
  /\ result = [p \in P |-> result[p]]
  /\ \A k \in 1 .. n : result[at[k]] = values[k]
  /\ \A p \in P : (\A k \in 1 .. n : at[k] # p) => result[p] = store[p]

\* Values written at different cells.
LEMMA AllWritten ==
  ASSUME NEW n \in Nat, NEW P, NEW at \in [1 .. n -> P], NEW V, NEW store \in [P -> V],
         NEW values \in [1 .. n -> V], \A j, k \in 1 .. n : at[j] = at[k] => j = k,
         NEW g, IsWriting(g, n, store, at, values)
  PROVE  WrittenAt(g[n], n, P, store, at, values)
  <1>1. g[0] = store /\ \A k \in 1 .. n : g[k] = [g[k - 1] EXCEPT ![at[k]] = values[k]]
    BY DEF IsWriting
  <1> DEFINE Good == {k \in Nat : k <= n =>
                /\ g[k] \in [P -> V]
                /\ \A j \in 1 .. k : g[k][at[j]] = values[j]
                /\ \A p \in P : (\A j \in 1 .. k : at[j] # p) => g[k][p] = store[p]}
  <1>2. 0 \in Good
    BY <1>1
  <1>3. ASSUME NEW k \in Nat, k \in Good PROVE k + 1 \in Good
    <2> SUFFICES ASSUME k + 1 <= n
                 PROVE  /\ g[k + 1] \in [P -> V]
                        /\ \A j \in 1 .. k + 1 : g[k + 1][at[j]] = values[j]
                        /\ \A p \in P : (\A j \in 1 .. k + 1 : at[j] # p) => g[k + 1][p] = store[p]
      OBVIOUS
    <2>1. PICK m \in 1 .. n : m = k + 1 /\ m - 1 = k
      <3>1. k + 1 \in 1 .. n /\ (k + 1) - 1 = k
        OBVIOUS
      <3> QED
        BY <3>1
    <2>2. /\ g[k] \in [P -> V]
          /\ \A j \in 1 .. k : g[k][at[j]] = values[j]
          /\ \A p \in P : (\A j \in 1 .. k : at[j] # p) => g[k][p] = store[p]
      BY <1>3, <2>1
    <2>3. g[m] = [g[k] EXCEPT ![at[m]] = values[m]]
      BY <1>1, <2>1
    <2>4. at[m] \in P /\ values[m] \in V
      OBVIOUS
    <2>5. g[m] \in [P -> V] /\ \A p \in P : g[m][p] = IF p = at[m] THEN values[m] ELSE g[k][p]
      BY <2>2, <2>3, <2>4
    <2>6. ASSUME NEW j \in 1 .. m PROVE g[m][at[j]] = values[j]
      <3>1. j \in 1 .. n /\ at[j] \in P
        BY <2>1
      <3>2. CASE j = m
        BY <2>4, <2>5, <3>2
      <3>3. CASE j # m
        <4>1. j \in 1 .. k /\ at[j] # at[m]
          BY <2>1, <3>1, <3>3
        <4> QED
          BY <2>2, <2>5, <3>1, <4>1
      <3> QED
        BY <3>2, <3>3
    <2>7. ASSUME NEW p \in P, \A j \in 1 .. m : at[j] # p PROVE g[m][p] = store[p]
      <3>1. at[m] # p /\ \A j \in 1 .. k : at[j] # p
        BY <2>1, <2>7
      <3> QED
        BY <2>2, <2>5, <3>1
    <2> QED
      BY <2>1, <2>5, <2>6, <2>7
  <1>4. n \in Good
    BY <1>2, <1>3, ByInduction
  <1>5. /\ g[n] \in [P -> V]
        /\ \A j \in 1 .. n : g[n][at[j]] = values[j]
        /\ \A p \in P : (\A j \in 1 .. n : at[j] # p) => g[n][p] = store[p]
    BY <1>4
  <1> QED
    BY <1>5 DEF WrittenAt

\* The cells of the coordinates of a layout, each of its own.
OwnCells(l, cells, P) ==
  /\ DOMAIN cells = Box(l.shape)
  /\ \A c \in Box(l.shape) : cells[c] = Address(l, c) /\ cells[c] \in P
  /\ \A c, d \in Box(l.shape) : cells[c] = cells[d] => c = d

\* numpy's array, where the cells have the values of their coordinates.
Assigned(plain0, cells, val) ==
  [p \in DOMAIN plain0 |->
     IF p \in Range(cells) THEN val[CHOOSE c \in DOMAIN cells : cells[c] = p] ELSE plain0[p]]

\* Writing the values in order through a layout makes the assigned array.
LEMMA WrittenIsAssigned ==
  ASSUME NEW l \in Layouts, NEW store, store = [p \in DOMAIN store |-> store[p]],
         NEW cells, OwnCells(l, cells, DOMAIN store), NEW val, NEW values,
         values = [k \in DOMAIN Coordinates(l.shape) |-> val[Coordinates(l.shape)[k]]]
  PROVE  Written(store, l, values) = Assigned(store, cells, val)
  <1>0. l.shape \in Seq(Nat)
    BY LayoutAxes
  <1>1. PICK n \in Nat : n = Product(l.shape)
    BY <1>0, CoordinatesInOrder
  <1> DEFINE coords == Coordinates(l.shape)
             P == DOMAIN store
             at == CellsInOrder(n, l)
             V == {store[p] : p \in P} \cup {values[k] : k \in 1 .. n}
  <1>2. /\ DOMAIN coords = 1 .. n
        /\ \A k \in 1 .. n : coords[k] \in Box(l.shape) /\ PlaceOf(l.shape, coords[k]) = k - 1
        /\ \A c \in Box(l.shape) : \E k \in 1 .. n : coords[k] = c
    BY <1>0, <1>1, CoordinatesInOrder
  <1>3. \A k \in 1 .. n : values[k] = val[coords[k]]
    BY <1>2
  <1>4. \A k \in 1 .. n : at[k] = Address(l, coords[k])
    BY DEF CellsInOrder
  <1>5. DOMAIN at = 1 .. n /\ at = [k \in 1 .. n |-> at[k]]
    BY DEF CellsInOrder
  <1>6. values = [k \in 1 .. n |-> values[k]]
    BY <1>2
  <1>7. store \in [P -> V] /\ values \in [1 .. n -> V]
    BY <1>6
  <1>8. /\ DOMAIN cells = Box(l.shape)
        /\ \A c \in Box(l.shape) : cells[c] = Address(l, c) /\ cells[c] \in P
        /\ \A c, d \in Box(l.shape) : cells[c] = cells[d] => c = d
    BY DEF OwnCells
  <1>9. \A k \in 1 .. n : at[k] = cells[coords[k]] /\ at[k] \in P
    BY <1>2, <1>4, <1>8
  <1>10. at \in [1 .. n -> P]
    BY <1>5, <1>9
  <1>11. ASSUME NEW j \in 1 .. n, NEW k \in 1 .. n, at[j] = at[k] PROVE j = k
    <2>1. coords[j] = coords[k]
      BY <1>2, <1>8, <1>9, <1>11
    <2>2. j - 1 = k - 1
      BY <1>2, <2>1
    <2> QED
      BY <2>2
  <1> HIDE DEF V, P
  <1>12. PICK g : IsWriting(g, n, store, at, values) /\ Written(store, l, values) = g[n]
    <2>1. DOMAIN Coordinates(l.shape) = 1 .. n
      BY <1>2
    <2>2. HasWriting(n, l, store, values)
      BY <1>7, <2>1, WrittenByPrefix
    <2> QED
      BY <2>2 DEF HasWriting
  <1> HIDE DEF at
  <1>13. WrittenAt(g[n], n, P, store, at, values)
    BY <1>7, <1>10, <1>11, <1>12, AllWritten
  <1>14. PICK r : r = Written(store, l, values) /\ r = g[n]
    BY <1>12
  <1>15. /\ r = [p \in P |-> r[p]]
         /\ \A k \in 1 .. n : r[at[k]] = values[k]
         /\ \A p \in P : (\A k \in 1 .. n : at[k] # p) => r[p] = store[p]
    BY <1>13, <1>14 DEF WrittenAt
  <1> DEFINE from == [p \in P |-> CHOOSE c \in DOMAIN cells : cells[c] = p]
  <1>16. Range(cells) = {cells[c] : c \in Box(l.shape)}
    BY <1>8 DEF Range
  <1>17. Assigned(store, cells, val) = [p \in P |-> IF p \in Range(cells) THEN val[from[p]] ELSE store[p]]
    BY DEF Assigned, P
  <1>18. \A p \in P : p \in Range(cells) => from[p] \in Box(l.shape) /\ cells[from[p]] = p
    BY <1>8, <1>16
  <1> HIDE DEF from
  <1>19. ASSUME NEW p \in P PROVE r[p] = IF p \in Range(cells) THEN val[from[p]] ELSE store[p]
    <2>1. CASE p \in Range(cells)
      <3>1. from[p] \in Box(l.shape) /\ cells[from[p]] = p
        BY <1>18, <2>1
      <3>2. PICK k \in 1 .. n : coords[k] = from[p]
        BY <1>2, <3>1
      <3>3. at[k] = p /\ values[k] = val[from[p]]
        BY <1>3, <1>9, <3>1, <3>2
      <3> QED
        BY <1>15, <2>1, <3>3
    <2>2. CASE p \notin Range(cells)
      <3>1. ASSUME NEW k \in 1 .. n PROVE at[k] # p
        <4>1. at[k] = cells[coords[k]] /\ coords[k] \in Box(l.shape)
          BY <1>2, <1>9
        <4>2. at[k] \in Range(cells)
          BY <1>16, <4>1
        <4> QED
          BY <2>2, <4>2
      <3> QED
        BY <1>15, <2>2, <3>1
    <2> QED
      BY <2>1, <2>2
  <1>191. store = [p \in P |-> store[p]] /\ DOMAIN store = P
    BY DEF P
  <1>20. [p \in P |-> r[p]] = [p \in P |-> IF p \in Range(cells) THEN val[from[p]] ELSE store[p]]
    BY <1>19
  <1> QED
    BY <1>14, <1>15, <1>17, <1>20, Zenon

----------------------------------------------------------------------------
(* Assignments.                                                            *)

\* Storage and numpy's array are one function.
StorageInv == storage = plain /\ plain = [p \in DOMAIN plain |-> plain[p]]

\* Both halves of an assignment that agree on the values change the same cells.
LEMMA AssignmentAgrees ==
  ASSUME StorageInv, NEW l \in Layouts, NEW cells, OwnCells(l, cells, DOMAIN plain),
         NEW val, NEW values,
         values = [k \in DOMAIN Coordinates(l.shape) |-> val[Coordinates(l.shape)[k]]],
         storage' = Written(storage, l, values), plain' = Assigned(plain, cells, val)
  PROVE  StorageInv'
  <1>1. storage = plain /\ plain = [p \in DOMAIN plain |-> plain[p]]
    BY DEF StorageInv
  <1>2. PICK store : store = plain
    OBVIOUS
  <1>3. store = [p \in DOMAIN store |-> store[p]] /\ OwnCells(l, cells, DOMAIN store)
    BY <1>1, <1>2, Zenon
  <1>4. Written(store, l, values) = Assigned(store, cells, val)
    BY <1>3, WrittenIsAssigned
  <1>5. storage' = plain'
    BY <1>1, <1>2, <1>4
  <1>6. plain' = [p \in DOMAIN plain' |-> plain'[p]]
    BY DEF Assigned
  <1> QED
    BY <1>5, <1>6 DEF StorageInv

\* The cells of a writeable view, each of its own.
LEMMA WriteableCells ==
  ASSUME NEW v, NEW P, Showing(v, P), v.writeable
  PROVE  OwnCells(v.concrete, v.cells, P)
  BY DEF Showing, OwnCells

\* A scalar through an index.
LEMMA SetItemAgrees ==
  ASSUME ViewInv, CellsInv, StorageInv, NEW i \in DOMAIN views, NEW args \in Indices, NEW x,
         SetItem(views[i], args, x)
  PROVE  StorageInv'
  <1> DEFINE v == views[i]
             m == Index("concrete", v.concrete, args)
             src == [c \in Box(m.shape) |-> IndexSource(v, args, c)]
             shown == [c \in Positions(m.shape) |-> v.cells[IndexSource(v, args, c)]]
             all == [k \in DOMAIN Coordinates(m.shape) |-> x]
             val == [c \in Box(m.shape) |-> x]
             dst == [v EXCEPT !.cells = shown]
  <1>1. /\ ValidIndex(v.concrete.shape, args)
        /\ dst.writeable
        /\ storage' = Written(storage, m, all)
        /\ plain' = [p \in DOMAIN plain |-> IF p \in Range(dst.cells) THEN x ELSE plain[p]]
    BY Zenon DEF SetItem, Assign, EnsureWriteable
  <1>2. args \in Seq(Arguments)
    BY ArgumentAssumption
  <1>3. v.concrete \in Layouts /\ Showing(v, DOMAIN plain)
    BY ViewTypes DEF CellsInv
  <1>4. m \in Layouts
    BY <1>1, <1>2, <1>3, IndexAgrees
  <1>5. Positions(m.shape) = Box(m.shape) /\ m.shape \in Seq(Nat)
    BY <1>4, LayoutAxes, PositionsAreBox
  <1>6. ShownBy(v.concrete, m, src) /\ ShownOnce(m, src)
    <2>1. src = [c \in Box(m.shape) |-> IndexSource(v, args, c)]
      OBVIOUS
    <2> HIDE DEF src, m, v
    <2> QED
      BY <1>1, <1>2, <1>3, <2>1, IndexShowsBack DEF m
  <1> HIDE DEF m, v
  <1>7. DOMAIN shown = Box(m.shape) /\ \A c \in Box(m.shape) : shown[c] = v.cells[src[c]]
    BY <1>5
  <1> HIDE DEF shown
  <1>8. dst.cells = shown /\ v.writeable
    <2>1. {"cells", "writeable"} \subseteq DOMAIN v
      BY <1>3 DEF Showing
    <2> QED
      BY <1>1, <2>1
  <1> HIDE DEF src, dst
  <1>9. OwnCells(m, shown, DOMAIN plain)
    <2>1. ASSUME NEW c \in Box(m.shape) PROVE shown[c] = Address(m, c) /\ shown[c] \in DOMAIN plain
      <3>1. src[c] \in Box(v.concrete.shape) /\ Address(m, c) = Address(v.concrete, src[c])
        BY <1>6 DEF ShownBy
      <3>2. v.cells[src[c]] = Address(v.concrete, src[c]) /\ v.cells[src[c]] \in DOMAIN plain
        BY <1>3, <3>1 DEF Showing
      <3> QED
        BY <1>7, <3>1, <3>2
    <2>2. ASSUME NEW c \in Box(m.shape), NEW d \in Box(m.shape), shown[c] = shown[d] PROVE c = d
      <3>1. src[c] \in Box(v.concrete.shape) /\ src[d] \in Box(v.concrete.shape)
        BY <1>6 DEF ShownBy
      <3>2. v.cells[src[c]] = v.cells[src[d]]
        BY <1>7, <2>2
      <3>3. src[c] = src[d]
        BY <1>3, <1>8, <3>1, <3>2 DEF Showing
      <3> QED
        BY <1>6, <3>3 DEF ShownOnce
    <2> QED
      BY <1>7, <2>1, <2>2 DEF OwnCells
  <1>10. all = [k \in DOMAIN Coordinates(m.shape) |-> val[Coordinates(m.shape)[k]]]
    <2>1. \A k \in DOMAIN Coordinates(m.shape) : Coordinates(m.shape)[k] \in Box(m.shape)
      BY <1>5, CoordinatesInOrder
    <2> QED
      BY <2>1
  <1>11. plain' = Assigned(plain, shown, val)
    <2>1. \A p \in Range(shown) : val[CHOOSE c \in DOMAIN shown : shown[c] = p] = x
      <3>1. \A p \in Range(shown) : (CHOOSE c \in DOMAIN shown : shown[c] = p) \in Box(m.shape)
        BY <1>7 DEF Range
      <3> QED
        BY <3>1
    <2> HIDE DEF val
    <2> QED
      BY <1>1, <1>8, <2>1 DEF Assigned
  <1> HIDE DEF all, val
  <1> QED
    BY <1>1, <1>4, <1>9, <1>10, <1>11, AssignmentAgrees

\* What an operand shows at a coordinate of a result that it is stretched to.
LEMMA OperandIsRead ==
  ASSUME NEW v, NEW P, Showing(v, P), v.concrete \in Layouts, NEW shape \in Seq(Nat),
         ValidBroadcast(v.concrete.shape, shape), NEW c \in Box(shape)
  PROVE  /\ Address(v.concrete, OperandCoords(v.concrete.shape, c))
              = v.cells[Stretched(v.concrete.shape, c)]
         /\ Address(Broadcast(v.concrete, shape), c) = v.cells[Stretched(v.concrete.shape, c)]
  <1> DEFINE m == Broadcast(v.concrete, shape)
             src == [d \in Box(m.shape) |-> Stretched(v.concrete.shape, d)]
  <1>0. v.concrete.shape \in Seq(Nat) /\ m.shape = shape
    BY LayoutAxes DEF Broadcast
  <1>1. /\ OperandCoords(v.concrete.shape, c) \in Box(v.concrete.shape)
        /\ Stretched(v.concrete.shape, c) = OperandCoords(v.concrete.shape, c)
    BY <1>0, StretchedIsRead
  <1>2. PICK d : d = Stretched(v.concrete.shape, c) /\ d = OperandCoords(v.concrete.shape, c)
    BY <1>1
  <1>3. v.cells[d] = Address(v.concrete, d)
    BY <1>1, <1>2 DEF Showing
  <1>4. ShownBy(v.concrete, m, src)
    <2>1. src = [d1 \in Box(m.shape) |-> Stretched(v.concrete.shape, d1)] /\ m = Broadcast(v.concrete, shape)
      OBVIOUS
    <2> HIDE DEF src, m
    <2> QED
      BY <2>1, BroadcastShows
  <1>5. src[c] = d
    BY <1>0, <1>2
  <1> HIDE DEF src, m
  <1>6. Address(m, c) = Address(v.concrete, d)
    BY <1>0, <1>4, <1>5 DEF ShownBy
  <1> QED
    BY <1>2, <1>3, <1>6 DEF m

\* copyto
LEMMA CopyToAgrees ==
  ASSUME ViewInv, CellsInv, StorageInv, NEW i \in DOMAIN views, NEW j \in DOMAIN views,
         CopyTo(views[i], views[j])
  PROVE  StorageInv'
  <1> DEFINE dst == views[i]
             v == views[j]
             shape == dst.concrete.shape
             m == Broadcast(v.concrete, shape)
             values == [k \in DOMAIN Coordinates(shape) |-> storage[Address(m, Coordinates(shape)[k])]]
             val == [c \in Box(shape) |-> plain[v.cells[Stretched(v.concrete.shape, c)]]]
  <1>1. /\ ValidBroadcast(v.concrete.shape, shape)
        /\ dst.writeable
        /\ storage' = Written(storage, dst.concrete, values)
        /\ plain' = [p \in DOMAIN plain |->
                       IF p \in Range(dst.cells)
                       THEN plain[v.cells[Stretched(v.concrete.shape,
                                            CHOOSE c \in DOMAIN dst.cells : dst.cells[c] = p)]]
                       ELSE plain[p]]
    BY Zenon DEF CopyTo, Copied, Assign, EnsureWriteable
  <1>2. /\ dst.concrete \in Layouts /\ Showing(dst, DOMAIN plain)
        /\ v.concrete \in Layouts /\ Showing(v, DOMAIN plain)
    BY ViewTypes DEF CellsInv
  <1>3. shape \in Seq(Nat)
    BY <1>2, LayoutAxes
  <1> HIDE DEF dst, v
  <1>4. OwnCells(dst.concrete, dst.cells, DOMAIN plain) /\ DOMAIN dst.cells = Box(shape)
    BY <1>1, <1>2, WriteableCells DEF Showing
  <1>5. \A k \in DOMAIN Coordinates(shape) : Coordinates(shape)[k] \in Box(shape)
    <2> HIDE DEF shape
    <2> QED
      BY <1>3, CoordinatesInOrder
  <1>6. \A c \in Box(shape) : storage[Address(m, c)] = val[c]
    <2> SUFFICES ASSUME NEW c \in Box(shape) PROVE storage[Address(m, c)] = val[c]
      OBVIOUS
    <2>1. val[c] = plain[v.cells[Stretched(v.concrete.shape, c)]]
      OBVIOUS
    <2> HIDE DEF val, shape
    <2>2. Address(m, c) = v.cells[Stretched(v.concrete.shape, c)]
      BY <1>1, <1>2, <1>3, OperandIsRead
    <2> QED
      BY <2>1, <2>2 DEF StorageInv
  <1>7. plain' = Assigned(plain, dst.cells, val)
    <2>1. \A p \in Range(dst.cells) : (CHOOSE c \in DOMAIN dst.cells : dst.cells[c] = p) \in Box(shape)
      <3> HIDE DEF shape
      <3> QED
        BY <1>4 DEF Range
    <2>2. \A p \in Range(dst.cells) :
            val[CHOOSE c \in DOMAIN dst.cells : dst.cells[c] = p]
              = plain[v.cells[Stretched(v.concrete.shape, CHOOSE c \in DOMAIN dst.cells : dst.cells[c] = p)]]
      BY <2>1
    <2> HIDE DEF val, shape, m, values
    <2> QED
      BY <1>1, <2>2 DEF Assigned
  <1>8. values = [k \in DOMAIN Coordinates(shape) |-> val[Coordinates(shape)[k]]]
    <2> HIDE DEF val, shape, m
    <2> QED
      BY <1>5, <1>6
  <1>9. shape = dst.concrete.shape
    OBVIOUS
  <1> HIDE DEF values, val, shape
  <1> QED
    BY <1>1, <1>2, <1>4, <1>7, <1>8, <1>9, AssignmentAgrees

\* The shape of a ufunc's result is one that every operand can be stretched to.
LEMMA OperandsStretch ==
  ASSUME NEW s \in Seq(Nat), NEW t \in Seq(Nat), NEW shape \in Seq(Nat), NEW shapes,
         shapes = <<s, t, shape>>, Broadcastable(shapes), BroadcastShapes(shapes) = shape
  PROVE  ValidBroadcast(s, shape) /\ ValidBroadcast(t, shape)
  <1>1. DOMAIN shapes = {1, 2, 3} /\ shapes[1] = s /\ shapes[2] = t /\ shapes[3] = shape
    BY DEF Seq
  <1> DEFINE lengths == {Len(shapes[k]) : k \in DOMAIN shapes}
             rank == CHOOSE n \in lengths : \A k \in DOMAIN shapes : Len(shapes[k]) <= n
  <1>2. Len(s) \in Nat /\ Len(t) \in Nat /\ Len(shape) \in Nat
    OBVIOUS
  <1>3. rank \in lengths /\ \A k \in DOMAIN shapes : Len(shapes[k]) <= rank
    <2>1. lengths = {Len(s), Len(t), Len(shape)}
      BY <1>1
    <2>2. \E n \in lengths : Len(s) <= n /\ Len(t) <= n /\ Len(shape) <= n
      <3>1. PICK x \in Nat, y \in Nat, z \in Nat : x = Len(s) /\ y = Len(t) /\ z = Len(shape)
        BY <1>2
      <3>2. lengths = {x, y, z}
        BY <2>1, <3>1
      <3> HIDE DEF lengths
      <3>3. \E n \in lengths : x <= n /\ y <= n /\ z <= n
        BY <3>2
      <3> QED
        BY <3>1, <3>3
    <2>3. \E n \in lengths : \A k \in DOMAIN shapes : Len(shapes[k]) <= n
      BY <1>1, <2>2
    <2> HIDE DEF lengths
    <2> QED
      BY <2>3
  <1>4. rank \in Nat
    BY <1>1, <1>2, <1>3
  <1>5. DOMAIN BroadcastShapes(shapes) = 1 .. rank
    BY DEF BroadcastShapes
  <1> HIDE DEF rank, lengths
  <1>6. rank = Len(shape)
    <2>1. DOMAIN shape = 1 .. rank
      BY <1>5
    <2> QED
      BY <1>4, <2>1
  <1>7. \A k \in DOMAIN shapes, a \in DOMAIN shape : DimAt(shapes[k], a, Len(shape)) \in {1, shape[a]}
    BY DEF Broadcastable
  <1>8. ASSUME NEW k \in DOMAIN shapes, NEW u \in Seq(Nat), u = shapes[k] PROVE ValidBroadcast(u, shape)
    <2>1. PICK n \in Nat, r \in Nat : n = Len(u) /\ DOMAIN u = 1 .. n /\ r = Len(shape) /\ DOMAIN shape = 1 .. r
      OBVIOUS
    <2>2. n <= r
      BY <1>3, <1>6, <1>8, <2>1
    <2>3. ASSUME NEW a \in 1 .. n PROVE u[a] \in {1, shape[r - n + a]}
      <3>1. PICK b \in 1 .. r : b = r - n + a
        <4>1. r - n + a \in 1 .. r
          BY <2>2
        <4> QED
          BY <4>1
      <3>2. DimAt(u, b, r) \in {1, shape[b]}
        BY <1>7, <1>8, <2>1
      <3>3. b + n > r /\ b + n - r = a
        BY <3>1
      <3>4. DimAt(u, b, r) = u[a]
        BY <2>1, <3>3 DEF DimAt
      <3> QED
        BY <3>1, <3>2, <3>4
    <2> QED
      BY <2>1, <2>2, <2>3 DEF ValidBroadcast
  <1> QED
    BY <1>1, <1>8

\* A ufunc of two operands.
LEMMA UfuncAgrees ==
  ASSUME ViewInv, CellsInv, StorageInv, NEW i \in DOMAIN views, NEW j \in DOMAIN views,
         NEW k \in DOMAIN views, Ufunc(views[i], views[j], views[k])
  PROVE  StorageInv'
  <1> DEFINE dst == views[i]
             x == views[j]
             y == views[k]
             shape == dst.concrete.shape
             read(v, c) == storage[Address(v.concrete, OperandCoords(v.concrete.shape, c))]
             shown(v, c) == plain[v.cells[Stretched(v.concrete.shape, c)]]
             values == [n \in DOMAIN Coordinates(shape) |->
                          Apply(read(x, Coordinates(shape)[n]), read(y, Coordinates(shape)[n]))]
             val == [c \in Box(shape) |-> Apply(shown(x, c), shown(y, c))]
  <1>1. /\ Broadcastable(<<x.concrete.shape, y.concrete.shape, shape>>)
        /\ BroadcastShapes(<<x.concrete.shape, y.concrete.shape, shape>>) = shape
        /\ dst.writeable
        /\ storage' = Written(storage, dst.concrete, values)
        /\ plain' = [p \in DOMAIN plain |->
                       IF p \in Range(dst.cells)
                       THEN Apply(shown(x, CHOOSE c \in DOMAIN dst.cells : dst.cells[c] = p),
                                  shown(y, CHOOSE c \in DOMAIN dst.cells : dst.cells[c] = p))
                       ELSE plain[p]]
    BY Zenon DEF Ufunc, Assign, EnsureWriteable
  <1>2. /\ dst.concrete \in Layouts /\ Showing(dst, DOMAIN plain)
        /\ x.concrete \in Layouts /\ Showing(x, DOMAIN plain)
        /\ y.concrete \in Layouts /\ Showing(y, DOMAIN plain)
    BY ViewTypes DEF CellsInv
  <1>3. shape \in Seq(Nat) /\ x.concrete.shape \in Seq(Nat) /\ y.concrete.shape \in Seq(Nat)
    BY <1>2, LayoutAxes
  <1> HIDE DEF dst, x, y
  <1>4. ValidBroadcast(x.concrete.shape, shape) /\ ValidBroadcast(y.concrete.shape, shape)
    <2> HIDE DEF shape
    <2> QED
      BY <1>1, <1>3, OperandsStretch
  <1>5. OwnCells(dst.concrete, dst.cells, DOMAIN plain) /\ DOMAIN dst.cells = Box(shape)
    BY <1>1, <1>2, WriteableCells DEF Showing
  <1>6. \A n \in DOMAIN Coordinates(shape) : Coordinates(shape)[n] \in Box(shape)
    <2> HIDE DEF shape
    <2> QED
      BY <1>3, CoordinatesInOrder
  <1>7. \A c \in Box(shape) : read(x, c) = shown(x, c) /\ read(y, c) = shown(y, c)
    <2> SUFFICES ASSUME NEW c \in Box(shape) PROVE read(x, c) = shown(x, c) /\ read(y, c) = shown(y, c)
      OBVIOUS
    <2> HIDE DEF shape
    <2>1. Address(x.concrete, OperandCoords(x.concrete.shape, c)) = x.cells[Stretched(x.concrete.shape, c)]
      BY <1>2, <1>3, <1>4, OperandIsRead
    <2>2. Address(y.concrete, OperandCoords(y.concrete.shape, c)) = y.cells[Stretched(y.concrete.shape, c)]
      BY <1>2, <1>3, <1>4, OperandIsRead
    <2>3. storage = plain
      BY DEF StorageInv
    <2> QED
      BY <2>1, <2>2, <2>3, Zenon
  <1>8. plain' = Assigned(plain, dst.cells, val)
    <2>1. \A p \in Range(dst.cells) : (CHOOSE c \in DOMAIN dst.cells : dst.cells[c] = p) \in Box(shape)
      <3> HIDE DEF shape
      <3> QED
        BY <1>5 DEF Range
    <2>2. \A c \in Box(shape) : val[c] = Apply(shown(x, c), shown(y, c))
      <3> HIDE DEF shown, shape
      <3> QED
        OBVIOUS
    <2>3. \A p \in Range(dst.cells) :
            val[CHOOSE c \in DOMAIN dst.cells : dst.cells[c] = p]
              = Apply(shown(x, CHOOSE c \in DOMAIN dst.cells : dst.cells[c] = p),
                      shown(y, CHOOSE c \in DOMAIN dst.cells : dst.cells[c] = p))
      <3> HIDE DEF val, shown, shape
      <3> QED
        BY <2>1, <2>2
    <2> HIDE DEF val, shape, values, shown
    <2> QED
      BY <1>1, <2>3 DEF Assigned
  <1>9. values = [n \in DOMAIN Coordinates(shape) |-> val[Coordinates(shape)[n]]]
    <2> HIDE DEF read, shape
    <2>1. \A c \in Box(shape) : val[c] = Apply(shown(x, c), shown(y, c))
      <3> HIDE DEF shown
      <3> QED
        OBVIOUS
    <2>2. \A c \in Box(shape) : Apply(read(x, c), read(y, c)) = val[c]
      <3> HIDE DEF val, shown
      <3> QED
        BY <1>7, <2>1
    <2> HIDE DEF val, shown
    <2> QED
      BY <1>6, <2>2
  <1>10. shape = dst.concrete.shape
    OBVIOUS
  <1> HIDE DEF values, val, shape
  <1> QED
    BY <1>1, <1>2, <1>5, <1>8, <1>9, <1>10, AssignmentAgrees

----------------------------------------------------------------------------
(* Reduction.                                                              *)

\* The axes that the result of a reduction has.
KeptAxes(n, R, keepdims) == IF keepdims THEN 1 .. n ELSE (1 .. n) \ R

\* The sequence with x on the axes that are kept, and z on those of size 1.
KeptOf(x, n, R, keepdims, z) ==
  FlattenSeq([a \in 1 .. n |-> IF a \notin R THEN <<x[a]>> ELSE IF keepdims THEN <<z>> ELSE <<>>])

IsKept(flat, x, n, R, keepdims, z) ==
  /\ flat \in Seq(Nat) /\ Len(flat) = Cardinality(KeptAxes(n, R, keepdims))
  /\ \A a \in KeptAxes(n, R, keepdims) :
       flat[CountIn(KeptAxes(n, R, keepdims), a)] = IF a \notin R THEN x[a] ELSE z

\* The elements of a sequence that are kept, in their order.
LEMMA KeptInOrder ==
  ASSUME NEW n \in Nat, NEW x \in [1 .. n -> Nat], NEW R \in SUBSET (1 .. n),
         NEW keepdims \in BOOLEAN, NEW z \in Nat
  PROVE  IsKept(KeptOf(x, n, R, keepdims, z), x, n, R, keepdims, z)
  <1> DEFINE pieces == [a \in 1 .. n |-> IF a \notin R THEN <<x[a]>> ELSE IF keepdims THEN <<z>> ELSE <<>>]
             C == KeptAxes(n, R, keepdims)
             flat == KeptOf(x, n, R, keepdims, z)
  <1>1. \A a \in 1 .. n : pieces[a] = IF a \notin R THEN <<x[a]>> ELSE IF keepdims THEN <<z>> ELSE <<>>
    OBVIOUS
  <1>2. pieces \in Seq(Seq(Nat)) /\ Len(pieces) = n /\ DOMAIN pieces = 1 .. n
    OBVIOUS
  <1>3. flat = FlattenSeq(pieces)
    BY Zenon DEF KeptOf
  <1> HIDE DEF pieces, flat
  <1>4. ASSUME NEW a \in 1 .. n
        PROVE  /\ a \in C => Len(pieces[a]) = 1 /\ pieces[a][1] = IF a \notin R THEN x[a] ELSE z
               /\ a \notin C => Len(pieces[a]) = 0
    <2>1. CASE a \notin R
      <3>1. pieces[a] = <<x[a]>> /\ a \in C
        BY <1>1, <2>1 DEF KeptAxes
      <3>2. Len(pieces[a]) = 1 /\ pieces[a][1] = x[a]
        BY <3>1
      <3> QED
        BY <2>1, <3>1, <3>2
    <2>2. CASE a \in R /\ keepdims
      <3>1. pieces[a] = <<z>> /\ a \in C
        BY <1>1, <2>2 DEF KeptAxes
      <3>2. Len(pieces[a]) = 1 /\ pieces[a][1] = z
        BY <3>1
      <3> QED
        BY <2>2, <3>1, <3>2
    <2>3. CASE a \in R /\ ~keepdims
      <3>1. pieces[a] = <<>> /\ a \notin C
        BY <1>1, <2>3 DEF KeptAxes
      <3>2. Len(pieces[a]) = 0
        BY <3>1
      <3> QED
        BY <3>1, <3>2
    <2> QED
      BY <2>1, <2>2, <2>3
  <1>5. Filled(pieces) = C /\ ShortPieces(pieces)
    <2>1. C \subseteq 1 .. n
      BY DEF KeptAxes
    <2> HIDE DEF C
    <2>2. \A a \in 1 .. n : Len(pieces[a]) = 1 <=> a \in C
      BY <1>4
    <2>3. \A a \in 1 .. n : Len(pieces[a]) <= 1
      <3>1. \A y : (y = 1 \/ y = 0) => y <= 1
        OBVIOUS
      <3>2. \A a \in 1 .. n : Len(pieces[a]) = 1 \/ Len(pieces[a]) = 0
        BY <1>4
      <3> QED
        BY <3>1, <3>2, Zenon
    <2> QED
      BY <1>2, <2>1, <2>2, <2>3 DEF Filled, ShortPieces
  <1>6. PiecesInOrder(pieces, flat)
    BY <1>2, <1>3, <1>5, FlattenShort
  <1>7. flat \in Seq(Nat)
    BY <1>2, <1>3, FlattenType
  <1>8. ASSUME NEW a \in C PROVE pieces[a][1] = IF a \notin R THEN x[a] ELSE z
    BY <1>4 DEF KeptAxes
  <1>9. Len(flat) = Cardinality(C) /\ \A a \in C : flat[CountIn(C, a)] = pieces[a][1]
    BY <1>5, <1>6, Zenon DEF PiecesInOrder
  <1>10. \A a \in C : flat[CountIn(C, a)] = IF a \notin R THEN x[a] ELSE z
    <2> HIDE DEF C
    <2> QED
      BY <1>8, <1>9
  <1> QED
    BY <1>7, <1>9, <1>10, Zenon DEF IsKept, flat

\* The axes that are not reduced, counted.
LEMMA UnreducedAreNumbered ==
  ASSUME NEW n \in Nat, NEW R \in SUBSET (1 .. n), NEW a \in (1 .. n) \ R
  PROVE  CountIn((1 .. n) \ R, a) = a - Cardinality({b \in R : b < a})
  <1> DEFINE C == (1 .. n) \ R
             f == [k \in 0 .. n |-> CountIn(C, k)]
             g == [k \in 0 .. n |-> CountIn(R, k)]
             Good == {k \in Nat : k <= n => f[k] + g[k] = k}
  <1>1. C \in SUBSET (1 .. n)
    OBVIOUS
  <1>2. Counts(f, C, n) /\ Counts(g, R, n)
    <2> HIDE DEF C
    <2> QED
      BY <1>1, CanCount
  <1>3. f[a] = CountIn(C, a) /\ g[a] = CountIn(R, a) /\ a \in 0 .. n
    OBVIOUS
  <1> HIDE DEF f, g
  <1>4. /\ f \in [0 .. n -> Nat] /\ f[0] = 0
        /\ \A k \in 1 .. n : f[k] = f[k - 1] + IF k \in C THEN 1 ELSE 0
        /\ g \in [0 .. n -> Nat] /\ g[0] = 0
        /\ \A k \in 1 .. n : g[k] = g[k - 1] + IF k \in R THEN 1 ELSE 0
    BY <1>2 DEF Counts
  <1>5. 0 \in Good
    BY <1>4
  <1>6. ASSUME NEW k \in Nat, k \in Good PROVE k + 1 \in Good
    <2> SUFFICES ASSUME k + 1 <= n PROVE f[k + 1] + g[k + 1] = k + 1
      OBVIOUS
    <2>1. k + 1 \in 1 .. n /\ (k + 1) - 1 = k /\ k \in 0 .. n /\ f[k] + g[k] = k
      BY <1>6
    <2>2. f[k] \in Nat /\ g[k] \in Nat
      BY <1>4, <2>1
    <2>3. /\ f[k + 1] = f[k] + (IF k + 1 \in C THEN 1 ELSE 0)
          /\ g[k + 1] = g[k] + (IF k + 1 \in R THEN 1 ELSE 0)
      BY <1>4, <2>1
    <2> QED
      BY <2>1, <2>2, <2>3
  <1>7. \A k \in Nat : k \in Good
    <2> HIDE DEF Good
    <2> QED
      BY <1>5, <1>6, ByInduction
  <1>8. f[a] + g[a] = a /\ f[a] \in Nat /\ g[a] \in Nat
    BY <1>3, <1>4, <1>7
  <1>9. {b \in R : b <= a} = {b \in R : b < a}
    <2>1. \A b \in R : b \in Int /\ b # a
      OBVIOUS
    <2>2. \A b \in R : b <= a <=> b < a
      BY <2>1
    <2> QED
      BY <2>2
  <1>10. g[a] = Cardinality({b \in R : b < a})
    BY <1>3, <1>9 DEF CountIn
  <1> QED
    BY <1>3, <1>8, <1>10

\* The first numbers, counted.
LEMMA FirstAreNumbered ==
  ASSUME NEW n \in Nat, NEW a \in 1 .. n
  PROVE  CountIn(1 .. n, a) = a
  <1>1. {b \in {} : b < a} = {} /\ (1 .. n) \ {} = 1 .. n /\ a \in (1 .. n) \ {} /\ {} \in SUBSET (1 .. n)
    OBVIOUS
  <1>2. CountIn((1 .. n) \ {}, a) = a - Cardinality({b \in {} : b < a})
    BY <1>1, UnreducedAreNumbered
  <1>3. Cardinality({}) = 0
    BY FS_EmptySet
  <1>4. Cardinality({b \in {} : b < a}) = 0
    BY <1>1, <1>3
  <1>5. CountIn(1 .. n, a) = a - 0
    BY <1>1, <1>2, <1>4
  <1> QED
    BY <1>5

\* Where the result has an axis that is not reduced.
LEMMA AxisOfResult ==
  ASSUME NEW n \in Nat, NEW R \in SUBSET (1 .. n), NEW keepdims \in BOOLEAN, NEW a \in (1 .. n) \ R
  PROVE  /\ a \in KeptAxes(n, R, keepdims)
         /\ CountIn(KeptAxes(n, R, keepdims), a)
              = IF keepdims THEN a ELSE a - Cardinality({b \in R : b < a})
  <1>1. CASE keepdims
    BY <1>1, FirstAreNumbered DEF KeptAxes
  <1>2. CASE ~keepdims
    BY <1>2, UnreducedAreNumbered DEF KeptAxes
  <1> QED
    BY <1>1, <1>2

\* The coordinates along the axis that is reduced.
LEMMA AlongAxis ==
  ASSUME NEW n \in Nat, NEW shape \in [1 .. n -> Nat], NEW r \in 1 .. n, NEW F,
         F = FlattenSeq([a \in 1 .. n |-> IF a \in {r} THEN <<shape[a]>> ELSE <<>>])
  PROVE  \A k \in DOMAIN Coordinates(F) :
           /\ Coordinates(F)[k][1] = k - 1
           /\ k \in Nat /\ k - 1 \in Nat /\ k - 1 < shape[r]
  <1> DEFINE R == (1 .. n) \ {r}
             C == KeptAxes(n, R, FALSE)
  <1>1. KeptOf(shape, n, R, FALSE, 0) = F
    <2>1. \A a \in 1 .. n : a \notin R <=> a \in {r}
      OBVIOUS
    <2>2. [a \in 1 .. n |-> IF a \notin R THEN <<shape[a]>> ELSE IF FALSE THEN <<0>> ELSE <<>>]
            = [a \in 1 .. n |-> IF a \in {r} THEN <<shape[a]>> ELSE <<>>]
      BY <2>1
    <2> QED
      BY <2>2, Zenon DEF KeptOf
  <1>2. C = {r} /\ r \notin R
    BY DEF KeptAxes
  <1>3. IsKept(F, shape, n, R, FALSE, 0)
    <2>1. R \in SUBSET (1 .. n)
      OBVIOUS
    <2> HIDE DEF R
    <2> QED
      BY <1>1, <2>1, KeptInOrder
  <1>4. {b \in {r} : b <= r} = {r} /\ Cardinality({r}) = 1
    <2>1. {b \in {r} : b <= r} = {r}
      OBVIOUS
    <2> QED
      BY <2>1, FS_Singleton
  <1>5. Len(F) = 1 /\ F \in Seq(Nat) /\ F[1] = shape[r]
    <2>1. CountIn({r}, r) = 1
      BY <1>4 DEF CountIn
    <2> HIDE DEF R
    <2> QED
      BY <1>2, <1>3, <1>4, <2>1 DEF IsKept
  <1>6. F \in [1 .. 1 -> Nat]
    BY <1>5
  <1>7. PICK w : IsWeights(w, F, 1) /\ DefaultStrides(F) = [a \in 1 .. 1 |-> w[a]]
    <2>1. 1 \in Nat
      OBVIOUS
    <2> QED
      BY <1>6, <2>1, Weights
  <1>8. DefaultStrides(F)[1] = 1
    BY <1>7 DEF IsWeights
  <1> SUFFICES ASSUME NEW k \in DOMAIN Coordinates(F)
               PROVE  /\ Coordinates(F)[k][1] = k - 1
                      /\ k \in Nat /\ k - 1 \in Nat /\ k - 1 < shape[r]
    OBVIOUS
  <1>9. PICK c : c = Coordinates(F)[k]
    OBVIOUS
  <1>10. c \in Box(F) /\ PlaceOf(F, c) = k - 1 /\ k \in Nat
    BY <1>5, <1>9, CoordinatesInOrder
  <1>11. c \in [1 .. 1 -> Nat] /\ c[1] < shape[r]
    <2>1. c \in [1 .. Len(F) -> Nat] /\ \A a \in 1 .. Len(F) : c[a] < F[a]
      BY <1>10 DEF Box
    <2>2. 1 \in 1 .. 1
      OBVIOUS
    <2> QED
      BY <1>5, <2>1, <2>2, Zenon
  <1>12. PlaceOf(F, c) = c[1]
    <2> DEFINE s == [a \in 1 .. Len(F) |-> c[a] * DefaultStrides(F)[a]]
               t == [a \in 1 .. 0 |-> s[a]]
    <2>1. s[1] = c[1] /\ s \in [1 .. 1 -> Int] /\ t \in [1 .. 0 -> Int]
      <3>1. c[1] \in Int /\ 1 .. 1 = {1} /\ 1 .. 0 = {}
        BY <1>11
      <3>2. s = [a \in {1} |-> c[a] * DefaultStrides(F)[a]]
        BY <1>5, <3>1, Zenon
      <3> HIDE DEF s
      <3>3. s[1] = c[1]
        BY <1>8, <3>1, <3>2
      <3>4. s \in [1 .. 1 -> Int]
        BY <3>1, <3>2, <3>3
      <3> QED
        BY <3>1, <3>3, <3>4
    <2>2. PlaceOf(F, c) = SumSeq(s)
      BY DEF PlaceOf
    <2> HIDE DEF s
    <2>3. SumSeq(s) = SumSeq(t) + s[1]
      <3>1. s \in [1 .. 0 + 1 -> Int] /\ 0 \in Nat /\ 0 + 1 = 1
        BY <2>1
      <3>2. SumSeq(s) = SumSeq([a \in 1 .. 0 |-> s[a]]) + s[0 + 1]
        BY <3>1, SumLast
      <3> QED
        BY <3>1, <3>2
    <2>4. SumSeq(t) = 0
      <3> HIDE DEF t
      <3> QED
        BY <2>1, SumEmpty
    <2> HIDE DEF t
    <2> QED
      BY <1>11, <2>1, <2>2, <2>3, <2>4
  <1> QED
    BY <1>9, <1>10, <1>11, <1>12

\* d is an element of an array with that coordinate in the result.
ReducesTo(d, shape, n, R, keepdims, c, j) ==
  d \in Box(shape) /\ KeptOf(d, n, R, keepdims, 0) = c /\ \A a \in R : d[a] = j

\* A coordinate of the result and a place on the reduced axes make one of the array.
ReducedTogether(n, R, keepdims, c, j) ==
  [a \in 1 .. n |-> IF a \in R THEN j
                    ELSE c[IF keepdims THEN a ELSE a - Cardinality({b \in R : b < a})]]

OnlyReduced(e, shape, n, R, keepdims, c, j) ==
  /\ ReducesTo(e, shape, n, R, keepdims, c, j)
  /\ \A d : ReducesTo(d, shape, n, R, keepdims, c, j) => d = e

\* It is the only one that the two make.
LEMMA ReducedOnce ==
  ASSUME NEW n \in Nat, NEW shape \in Seq(Nat), n = Len(shape), NEW R \in SUBSET (1 .. n),
         NEW keepdims \in BOOLEAN, NEW c \in Box(KeptOf(shape, n, R, keepdims, 1)), NEW j \in Nat,
         \A a \in R : j < shape[a], NEW e, e = ReducedTogether(n, R, keepdims, c, j)
  PROVE  OnlyReduced(e, shape, n, R, keepdims, c, j)
  <1> DEFINE C == KeptAxes(n, R, keepdims)
  <1>0. shape \in [1 .. n -> Nat] /\ C \in SUBSET (1 .. n)
    BY DEF KeptAxes
  <1>1. PICK result : result = KeptOf(shape, n, R, keepdims, 1)
    OBVIOUS
  <1>2. IsKept(result, shape, n, R, keepdims, 1)
    BY <1>0, <1>1, KeptInOrder
  <1>3. /\ Len(result) = Cardinality(C)
        /\ \A a \in C : result[CountIn(C, a)] = IF a \notin R THEN shape[a] ELSE 1
    BY <1>2 DEF IsKept
  <1>4. \A a \in (1 .. n) \ R :
          a \in C /\ CountIn(C, a) = IF keepdims THEN a ELSE a - Cardinality({b \in R : b < a})
    BY AxisOfResult
  <1> HIDE DEF C
  <1>5. PICK m \in Nat : m = Cardinality(C)
    BY <1>0, MembersAreNumbered
  <1>6. c \in [1 .. m -> Nat] /\ \A p \in 1 .. m : c[p] < result[p]
    BY <1>1, <1>3, <1>5 DEF Box
  <1>7. /\ \A a \in C : CountIn(C, a) \in 1 .. m
        /\ \A p \in 1 .. m : \E a \in C : CountIn(C, a) = p
    BY <1>0, <1>5, MembersAreNumbered
  <1>8. ASSUME NEW a \in 1 .. n PROVE e[a] = IF a \in R THEN j ELSE c[CountIn(C, a)]
    <2>1. e[a] = IF a \in R THEN j
                 ELSE c[IF keepdims THEN a ELSE a - Cardinality({b \in R : b < a})]
      BY DEF ReducedTogether
    <2> QED
      BY <1>4, <2>1
  <1>9. ASSUME NEW a \in 1 .. n PROVE e[a] \in Nat /\ e[a] < shape[a]
    <2>1. CASE a \in R
      BY <1>8, <2>1
    <2>2. CASE a \notin R
      <3>1. a \in C /\ CountIn(C, a) \in 1 .. m
        BY <1>4, <1>7, <2>2
      <3>2. result[CountIn(C, a)] = shape[a]
        BY <1>3, <2>2, <3>1
      <3>3. e[a] = c[CountIn(C, a)]
        BY <1>8, <2>2
      <3> QED
        BY <1>6, <3>1, <3>2, <3>3
    <2> QED
      BY <2>1, <2>2
  <1>10. e = [a \in 1 .. n |-> e[a]]
    BY DEF ReducedTogether
  <1>11. e \in [1 .. n -> Nat]
    BY <1>9, <1>10
  <1>12. e \in Box(shape)
    BY <1>9, <1>11 DEF Box
  <1>13. ASSUME NEW d \in [1 .. n -> Nat]
         PROVE  /\ Len(KeptOf(d, n, R, keepdims, 0)) = m /\ KeptOf(d, n, R, keepdims, 0) \in Seq(Nat)
                /\ \A a \in C : KeptOf(d, n, R, keepdims, 0)[CountIn(C, a)] = IF a \notin R THEN d[a] ELSE 0
    <2>1. IsKept(KeptOf(d, n, R, keepdims, 0), d, n, R, keepdims, 0)
      BY KeptInOrder
    <2> QED
      BY <1>5, <2>1 DEF IsKept, C
  <1>14. KeptOf(e, n, R, keepdims, 0) = c
    <2>1. PICK k : k = KeptOf(e, n, R, keepdims, 0)
      OBVIOUS
    <2>2. Len(k) = m /\ k \in Seq(Nat) /\ \A a \in C : k[CountIn(C, a)] = IF a \notin R THEN e[a] ELSE 0
      BY <1>11, <1>13, <2>1
    <2>3. ASSUME NEW p \in 1 .. m PROVE k[p] = c[p]
      <3>1. PICK a \in C : CountIn(C, a) = p
        BY <1>7
      <3>2. a \in 1 .. n
        BY <1>0
      <3>3. CASE a \notin R
        <4>1. k[p] = e[a] /\ e[a] = c[p]
          BY <1>8, <2>2, <3>1, <3>2, <3>3
        <4> QED
          BY <4>1
      <3>4. CASE a \in R
        <4>1. k[p] = 0 /\ result[p] = 1
          BY <1>3, <2>2, <3>1, <3>4
        <4>2. c[p] \in Nat /\ c[p] < 1
          BY <1>6, <4>1
        <4> QED
          BY <4>1, <4>2
      <3> QED
        BY <3>3, <3>4
    <2>4. k = [p \in 1 .. m |-> k[p]] /\ c = [p \in 1 .. m |-> c[p]]
      BY <1>6, <2>2
    <2>5. k = c
      BY <2>3, <2>4
    <2> QED
      BY <2>1, <2>5
  <1>15. ASSUME NEW d, ReducesTo(d, shape, n, R, keepdims, c, j) PROVE d = e
    <2>1. d \in [1 .. n -> Nat] /\ KeptOf(d, n, R, keepdims, 0) = c /\ \A a \in R : d[a] = j
      BY <1>15 DEF ReducesTo, Box
    <2>2. \A a \in C : c[CountIn(C, a)] = IF a \notin R THEN d[a] ELSE 0
      BY <1>13, <2>1
    <2>3. ASSUME NEW a \in 1 .. n PROVE d[a] = e[a]
      BY <1>4, <1>8, <2>1, <2>2
    <2>4. d = [a \in 1 .. n |-> d[a]]
      BY <2>1
    <2> QED
      BY <1>10, <2>3, <2>4
  <1>16. \A a \in R : e[a] = j
    BY <1>8
  <1> QED
    BY <1>12, <1>14, <1>15, <1>16 DEF ReducesTo, OnlyReduced

\* An axis that is given, or none.
LEMMA NoneOrOneAxis ==
  ASSUME NEW n \in Nat, NEW R \in SUBSET (1 .. n), Cardinality(R) <= 1
  PROVE  R = {} \/ \E r \in 1 .. n : R = {r}
  <1>1. IsFiniteSet(R)
    <2>1. IsFiniteSet(1 .. n)
      BY FS_Interval
    <2> QED
      BY <2>1, FS_Subset
  <1>2. PICK m \in Nat : m = Cardinality(R)
    BY <1>1, FS_CardinalityType
  <1>3. m = 0 \/ m = 1
    BY <1>2
  <1>4. CASE m = 0
    BY <1>1, <1>2, <1>4, FS_EmptySet
  <1>5. CASE m = 1
    BY <1>1, <1>2, <1>5, FS_Singleton
  <1> QED
    BY <1>3, <1>4, <1>5

\* The axes of a reduction are axes of the array.
LEMMA ReducedAxesAreAxes ==
  ASSUME NEW rank \in Nat, NEW number \in AxisNumbers \cup {None}, ValidAxes(number, rank)
  PROVE  ReducedAxes(number, rank) \in SUBSET (1 .. rank)
  <1>1. CASE number = None
    BY <1>1 DEF ReducedAxes
  <1>2. CASE number # None /\ rank = 0
    BY <1>2 DEF ReducedAxes
  <1>3. CASE number # None /\ rank # 0
    <2>1. number \in Int /\ ValidAxis(number, rank)
      BY <1>3, AxisTuplesAreTuples DEF ValidAxes
    <2>2. NormalAxis(number, rank) \in 1 .. rank
      BY <2>1, AxisIsNormal
    <2> QED
      BY <1>3, <2>2 DEF ReducedAxes
  <1> QED
    BY <1>1, <1>2, <1>3

\* The code reads the element that the coordinate and place k of the axis make.
ReadTogether(shape, n, R, keepdims, c, along, k) ==
  \E j \in Nat :
    /\ \A a \in R : j < shape[a] /\ j = k - 1
    /\ ReduceSource(shape, R, keepdims, c, along[k]) = ReducedTogether(n, R, keepdims, c, j)

\* Where the code reads the element of an axis, or of the whole coordinate.
LEMMA SourceIsTogether ==
  ASSUME NEW n \in Nat, NEW shape \in [1 .. n -> Nat], NEW R \in SUBSET (1 .. n), Cardinality(R) <= 1,
         NEW keepdims \in BOOLEAN, NEW c, NEW F,
         F = FlattenSeq([a \in 1 .. n |-> IF a \in R THEN <<shape[a]>> ELSE <<>>]),
         NEW k \in DOMAIN Coordinates(F)
  PROVE  ReadTogether(shape, n, R, keepdims, c, Coordinates(F), k)
  <1>0. DOMAIN shape = 1 .. n
    OBVIOUS
  <1>1. CASE R = {}
    <2>1. ReduceSource(shape, R, keepdims, c, Coordinates(F)[k]) = ReducedTogether(n, R, keepdims, c, 0)
      BY <1>0, <1>1 DEF ReduceSource, ReducedTogether
    <2>2. 0 \in Nat
      OBVIOUS
    <2> QED
      BY <1>1, <2>1, <2>2 DEF ReadTogether
  <1>2. ASSUME NEW r \in 1 .. n, R = {r}
        PROVE  ReadTogether(shape, n, R, keepdims, c, Coordinates(F), k)
    <2>1. PICK d : d = Coordinates(F)[k]
      OBVIOUS
    <2>2. d[1] = k - 1 /\ k - 1 \in Nat /\ k - 1 < shape[r]
      <3>1. F = FlattenSeq([a \in 1 .. n |-> IF a \in {r} THEN <<shape[a]>> ELSE <<>>])
        BY <1>2, Zenon
      <3>2. \A i \in DOMAIN Coordinates(F) :
              /\ Coordinates(F)[i][1] = i - 1
              /\ i \in Nat /\ i - 1 \in Nat /\ i - 1 < shape[r]
        BY <3>1, AlongAxis
      <3> QED
        BY <2>1, <3>2
    <2>3. PICK j \in Nat : j = k - 1
      BY <2>2
    <2>4. \A a \in R : Cardinality({b \in R : b <= a}) = 1
      <3>1. {b \in {r} : b <= r} = {r}
        OBVIOUS
      <3>2. Cardinality({r}) = 1
        BY FS_Singleton
      <3>3. Cardinality({b \in R : b <= r}) = 1
        BY <1>2, <3>1, <3>2, Zenon
      <3> QED
        BY <1>2, <3>3, Zenon
    <2>5. ReduceSource(shape, R, keepdims, c, d) = ReducedTogether(n, R, keepdims, c, j)
      BY <1>0, <2>2, <2>3, <2>4 DEF ReduceSource, ReducedTogether
    <2> QED
      BY <1>2, <2>1, <2>2, <2>3, <2>5 DEF ReadTogether
  <1> QED
    BY <1>1, <1>2, NoneOrOneAxis

\* Element k reduced at a coordinate: what the code reads, and the cell that numpy does.
SameElements(v, R, keepdims, c, along, k) ==
  Address(v.concrete, ReduceSource(v.concrete.shape, R, keepdims, c, along[k]))
    = v.cells[CHOOSE d \in DOMAIN v.cells :
                KeptOf(d, Rank(v.concrete), R, keepdims, 0) = c /\ \A a \in R : d[a] = k - 1]

\* They are one element.
LEMMA ReducedIsRead ==
  ASSUME NEW v, NEW P, Showing(v, P), v.concrete \in Layouts, NEW n, n = Rank(v.concrete),
         NEW R \in SUBSET (1 .. n), Cardinality(R) <= 1, NEW keepdims \in BOOLEAN,
         NEW c \in Box(KeptOf(v.concrete.shape, n, R, keepdims, 1)), NEW F,
         F = FlattenSeq([a \in 1 .. n |-> IF a \in R THEN <<v.concrete.shape[a]>> ELSE <<>>]),
         NEW k \in DOMAIN Coordinates(F)
  PROVE  SameElements(v, R, keepdims, c, Coordinates(F), k)
  <1>1. PICK shape : shape = v.concrete.shape
    OBVIOUS
  <1>2. shape \in Seq(Nat) /\ n = Len(shape) /\ n \in Nat /\ shape \in [1 .. n -> Nat]
    BY <1>1, LayoutAxes DEF Rank
  <1>3. F = FlattenSeq([a \in 1 .. n |-> IF a \in R THEN <<shape[a]>> ELSE <<>>])
    BY <1>1, Zenon
  <1>4. PICK j \in Nat :
           /\ \A a \in R : j < shape[a] /\ j = k - 1
           /\ ReduceSource(shape, R, keepdims, c, Coordinates(F)[k]) = ReducedTogether(n, R, keepdims, c, j)
    <2>1. ReadTogether(shape, n, R, keepdims, c, Coordinates(F), k)
      BY <1>2, <1>3, SourceIsTogether
    <2> QED
      BY <2>1 DEF ReadTogether
  <1>5. PICK e : e = ReducedTogether(n, R, keepdims, c, j)
    OBVIOUS
  <1>6. c \in Box(KeptOf(shape, n, R, keepdims, 1))
    BY <1>1
  <1>7. OnlyReduced(e, shape, n, R, keepdims, c, j)
    BY <1>2, <1>4, <1>5, <1>6, ReducedOnce
  <1>8. /\ e \in Box(shape) /\ KeptOf(e, n, R, keepdims, 0) = c /\ \A a \in R : e[a] = k - 1
        /\ \A d \in Box(shape) : KeptOf(d, n, R, keepdims, 0) = c /\ (\A a \in R : d[a] = k - 1) => d = e
    BY <1>4, <1>7 DEF OnlyReduced, ReducesTo
  <1>9. (CHOOSE d \in Box(shape) : KeptOf(d, n, R, keepdims, 0) = c /\ \A a \in R : d[a] = k - 1) = e
    BY <1>8
  <1>10. DOMAIN v.cells = Box(shape) /\ v.cells[e] = Address(v.concrete, e)
    BY <1>1, <1>8 DEF Showing
  <1>11. v.cells[CHOOSE d \in DOMAIN v.cells : KeptOf(d, n, R, keepdims, 0) = c /\ \A a \in R : d[a] = k - 1]
           = v.cells[e]
    BY <1>9, <1>10, Zenon
  <1>12. Address(v.concrete, ReduceSource(v.concrete.shape, R, keepdims, c, Coordinates(F)[k]))
           = Address(v.concrete, e)
    BY <1>1, <1>4, <1>5, Zenon
  <1> QED
    BY <1>10, <1>11, <1>12, Zenon DEF SameElements

\* A reduction over an axis, or over none.
LEMMA ReduceAgrees ==
  ASSUME ViewInv, CellsInv, StorageInv, NEW i \in DOMAIN views, NEW j \in DOMAIN views,
         NEW number \in AxisNumbers \cup {None}, NEW keepdims \in BOOLEAN, NEW initial,
         Reduce(views[i], views[j], number, keepdims, initial)
  PROVE  StorageInv'
  <1> DEFINE dst == views[i]
             v == views[j]
             shape == v.concrete.shape
             R == ReducedAxes(number, Len(shape))
             along == Coordinates(FlattenSeq([a \in DOMAIN shape |-> IF a \in R THEN <<shape[a]>> ELSE <<>>]))
             result == ReducedShape(shape, R, keepdims)
             read(c) == Accumulated(initial, [k \in DOMAIN along |->
                          storage[Address(v.concrete, ReduceSource(shape, R, keepdims, c, along[k]))]])
             kept(d) == FlattenSeq([a \in DOMAIN shape |->
                          IF a \notin R THEN <<d[a]>> ELSE IF keepdims THEN <<0>> ELSE <<>>])
             at(c, k) == CHOOSE d \in DOMAIN v.cells : kept(d) = c /\ \A a \in R : d[a] = k - 1
             shown(c) == Accumulated(initial, [k \in DOMAIN along |-> plain[v.cells[at(c, k)]]])
             values == [k \in DOMAIN Coordinates(result) |-> read(Coordinates(result)[k])]
             val == [c \in Box(result) |-> shown(c)]
  <1>1. /\ ValidAxes(number, Len(shape)) /\ Cardinality(R) <= 1
        /\ dst.concrete.shape = result
        /\ dst.writeable
        /\ storage' = Written(storage, dst.concrete, values)
        /\ plain' = [p \in DOMAIN plain |->
                       IF p \in Range(dst.cells)
                       THEN shown(CHOOSE c \in DOMAIN dst.cells : dst.cells[c] = p) ELSE plain[p]]
    BY Zenon DEF Reduce, Assign, EnsureWriteable
  <1>2. /\ dst.concrete \in Layouts /\ Showing(dst, DOMAIN plain)
        /\ v.concrete \in Layouts /\ Showing(v, DOMAIN plain)
    BY ViewTypes DEF CellsInv
  <1> HIDE DEF dst, v
  <1>3. PICK n \in Nat : n = Rank(v.concrete) /\ n = Len(shape) /\ DOMAIN shape = 1 .. n
    BY <1>2, LayoutAxes DEF Rank
  <1>4. R \in SUBSET (1 .. n)
    BY <1>1, <1>3, ReducedAxesAreAxes
  <1> HIDE DEF R
  <1>5. result = KeptOf(shape, n, R, keepdims, 1)
    <2> HIDE DEF shape
    <2> QED
      BY <1>3, Zenon DEF ReducedShape, KeptOf
  <1>6. \A d : kept(d) = KeptOf(d, n, R, keepdims, 0)
    <2> HIDE DEF shape
    <2> QED
      BY <1>3, Zenon DEF KeptOf
  <1>7. result \in Seq(Nat)
    BY <1>1, <1>2, LayoutAxes
  <1>8. PICK F : F = FlattenSeq([a \in 1 .. n |-> IF a \in R THEN <<shape[a]>> ELSE <<>>]) /\ along = Coordinates(F)
    <2> HIDE DEF shape
    <2> QED
      BY <1>3, Zenon
  <1> HIDE DEF result, along, kept
  <1>9. ASSUME NEW c \in Box(result), NEW k \in DOMAIN along
        PROVE  storage[Address(v.concrete, ReduceSource(shape, R, keepdims, c, along[k]))]
                 = plain[v.cells[at(c, k)]]
    <2>1. SameElements(v, R, keepdims, c, Coordinates(F), k)
      BY <1>1, <1>2, <1>3, <1>4, <1>5, <1>8, ReducedIsRead
    <2>2. Address(v.concrete, ReduceSource(shape, R, keepdims, c, along[k]))
            = v.cells[CHOOSE d \in DOMAIN v.cells :
                        KeptOf(d, n, R, keepdims, 0) = c /\ \A a \in R : d[a] = k - 1]
      BY <1>3, <1>8, <2>1, Zenon DEF SameElements
    <2>3. at(c, k) = CHOOSE d \in DOMAIN v.cells :
                        KeptOf(d, n, R, keepdims, 0) = c /\ \A a \in R : d[a] = k - 1
      BY <1>6
    <2>4. storage = plain
      BY DEF StorageInv
    <2> QED
      BY <2>2, <2>3, <2>4, Zenon
  <1>10. \A c \in Box(result) : read(c) = shown(c)
    <2> SUFFICES ASSUME NEW c \in Box(result) PROVE read(c) = shown(c)
      OBVIOUS
    <2>1. [k \in DOMAIN along |-> storage[Address(v.concrete, ReduceSource(shape, R, keepdims, c, along[k]))]]
            = [k \in DOMAIN along |-> plain[v.cells[at(c, k)]]]
      <3> HIDE DEF at, shape
      <3> QED
        BY <1>9
    <2> QED
      BY <2>1, Zenon
  <1> HIDE DEF read, shown
  <1>11. OwnCells(dst.concrete, dst.cells, DOMAIN plain) /\ DOMAIN dst.cells = Box(result)
    BY <1>1, <1>2, WriteableCells DEF Showing
  <1>12. \A k \in DOMAIN Coordinates(result) : Coordinates(result)[k] \in Box(result)
    BY <1>7, CoordinatesInOrder
  <1>13. \A c \in Box(result) : val[c] = shown(c)
    OBVIOUS
  <1> HIDE DEF val
  <1>14. plain' = Assigned(plain, dst.cells, val)
    <2>1. \A p \in Range(dst.cells) : (CHOOSE c \in DOMAIN dst.cells : dst.cells[c] = p) \in Box(result)
      BY <1>11 DEF Range
    <2>2. \A p \in Range(dst.cells) :
            val[CHOOSE c \in DOMAIN dst.cells : dst.cells[c] = p]
              = shown(CHOOSE c \in DOMAIN dst.cells : dst.cells[c] = p)
      BY <1>13, <2>1
    <2> HIDE DEF values
    <2> QED
      BY <1>1, <2>2 DEF Assigned
  <1>15. values = [k \in DOMAIN Coordinates(result) |-> val[Coordinates(result)[k]]]
    BY <1>10, <1>12, <1>13
  <1> HIDE DEF values
  <1>16. values = [k \in DOMAIN Coordinates(dst.concrete.shape) |-> val[Coordinates(dst.concrete.shape)[k]]]
    BY <1>1, <1>15, Zenon
  <1> QED
    BY <1>1, <1>2, <1>11, <1>14, <1>16, AssignmentAgrees

----------------------------------------------------------------------------
(* The storage is numpy's array.                                           *)

\* The array the function makes.
LEMMA StartIsNumpys == Init => StorageInv
  <1> SUFFICES ASSUME Init PROVE StorageInv
    OBVIOUS
  <1>1. PICK shape \in Shapes : storage = [p \in 0 .. Product(shape) - 1 |-> p] /\ plain = storage
    BY DEF Init
  <1> QED
    BY <1>1 DEF StorageInv

\* Taking a view changes no element.
LEMMA ViewStepKeeps == StorageInv /\ ViewStep => StorageInv'
  <1> SUFFICES ASSUME StorageInv, ViewStep PROVE StorageInv'
    OBVIOUS
  <1>1. UNCHANGED <<storage, plain>>
    BY Zenon DEF ViewStep, GetItem, SwapAxes, Transpose, ExpandDims, BroadcastTo, TakeView
  <1> QED
    BY <1>1 DEF StorageInv

\* Every assignment changes both alike.
LEMMA AssignStepKeeps == ViewInv /\ CellsInv /\ StorageInv /\ AssignStep => StorageInv'
  <1> SUFFICES ASSUME ViewInv, CellsInv, StorageInv, AssignStep PROVE StorageInv'
    OBVIOUS
  <1>1. PICK i \in DOMAIN views, j \in DOMAIN views :
          \/ \E args \in Indices, x \in Values : i = j /\ SetItem(views[i], args, x)
          \/ CopyTo(views[i], views[j])
          \/ \E k \in DOMAIN views : Ufunc(views[i], views[j], views[k])
          \/ \E number \in AxisNumbers \cup {None}, keepdims \in BOOLEAN, initial \in Values \cup {None} :
               Reduce(views[i], views[j], number, keepdims, initial)
    BY Zenon DEF AssignStep
  <1>2. CASE \E args \in Indices, x \in Values : i = j /\ SetItem(views[i], args, x)
    BY <1>2, SetItemAgrees
  <1>3. CASE CopyTo(views[i], views[j])
    BY <1>3, CopyToAgrees
  <1>4. CASE \E k \in DOMAIN views : Ufunc(views[i], views[j], views[k])
    BY <1>4, UfuncAgrees
  <1>5. CASE \E number \in AxisNumbers \cup {None}, keepdims \in BOOLEAN, initial \in Values \cup {None} :
               Reduce(views[i], views[j], number, keepdims, initial)
    BY <1>5, ReduceAgrees
  <1> QED
    BY <1>1, <1>2, <1>3, <1>4, <1>5

\* After any assignments, through any views, in place or with overlap, the storage
\* is numpy's array (array.py, operations.py, ufuncs/bases.py).
THEOREM StorageIsRight == Spec => []StorageIsNumpys
  <1> DEFINE Inv == ViewInv /\ CellsInv /\ StorageInv
  <1>1. Init => Inv
    BY StartAgrees, StartShows, StartIsNumpys
  <1>2. Inv /\ [Next]_vars => Inv'
    <2> SUFFICES ASSUME Inv, [Next]_vars PROVE Inv'
      OBVIOUS
    <2>1. CASE ViewStep
      BY <2>1, ViewStepAgrees, ViewStepShows, ViewStepKeeps
    <2>2. CASE AssignStep
      BY <2>2, AssignStepAgrees, AssignStepShows, AssignStepKeeps
    <2>3. CASE UNCHANGED vars
      BY <2>3 DEF vars, ViewInv, CellsInv, StorageInv
    <2> QED
      BY <2>1, <2>2, <2>3 DEF Next
  <1>3. Inv => StorageIsNumpys
    BY DEF StorageInv, StorageIsNumpys
  <1> QED
    BY <1>1, <1>2, <1>3, PTL DEF Spec
================================================================================
