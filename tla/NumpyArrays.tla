------------------------------- MODULE NumpyArrays -------------------------------
(***************************************************************************)
(* One numpy array and the views a function takes of it: views are taken   *)
(* of views, and all of them are read and written through, also in one     *)
(* assignment whose two sides overlap (libraries/impls/numpy: array.py,    *)
(* operations.py, ufuncs/bases.py).  Calls with invalid arguments raise    *)
(* and change nothing; they are guards here.  Elements have one dtype.     *)
(***************************************************************************)
EXTENDS NumpyViews

CONSTANTS
  Shapes,      \* shapes of the array the function makes
  Targets,     \* shapes it broadcasts to
  Indices,     \* index arguments it uses
  Apply(_, _), \* the operation of the ufunc it calls; not reorderable
  Values,      \* values it assigns
  MaxRank,     \* bound: axes of a view
  MaxViews,    \* bound: arrays and views
  MaxOps       \* bound: views taken and assignments made

ASSUME BoundAssumption == MaxRank \in Nat /\ MaxViews \in Nat /\ MaxOps \in Nat
ASSUME ArgumentAssumption ==
  Shapes \subseteq Seq(Nat) /\ Targets \subseteq Seq(Nat) /\ Indices \subseteq Seq(Arguments)

VARIABLES
  storage,  \* the backing array
  views,    \* the array and the views taken: both halves of the layout, the flag
            \* writeable, and, as history, the cell of numpy's array behind each
            \* coordinate
  plain,    \* history: numpy's array
  ops       \* operations, for the bound

vars == <<storage, views, plain, ops>>

Positions(shape) == Range(Coordinates(shape))

\* A new array, which the function has filled with different values.
Init ==
  \E shape \in Shapes :
    LET layout == [shape |-> shape, offset |-> 0, strides |-> DefaultStrides(shape)]
        number(c) == CHOOSE k \in DOMAIN Coordinates(shape) : Coordinates(shape)[k] = c
    IN  /\ views = <<[formula |-> layout, concrete |-> layout, writeable |-> TRUE,
                      cells |-> [c \in Positions(shape) |-> number(c) - 1]]>>
        /\ storage = [p \in 0 .. Product(shape) - 1 |-> p]
        /\ plain = storage
        /\ ops = 0

\* No array at all, in a run about something else.
ArraysIdle == views = <<>> /\ storage = <<>> /\ plain = <<>> /\ ops = MaxOps

----------------------------------------------------------------------------------
(* Views.  Source(c) is the coordinate of view v that numpy shows at       *)
(* coordinate c of the new view.                                           *)

\* ndarray._recreate: a view made without validation
Recreated(formula, concrete, writeable, cells) ==
  [formula |-> formula, concrete |-> concrete, writeable |-> writeable, cells |-> cells]

TakeView(v, Layout(_, _), Source(_), writeable) ==
  /\ ops < MaxOps /\ Len(views) < MaxViews
  /\ LET concrete == Layout("concrete", v.concrete)
     IN  /\ Rank(concrete) <= MaxRank
         /\ views' = Append(views, Recreated(Layout("formula", v.formula), concrete, writeable,
                      [c \in Positions(concrete.shape) |-> v.cells[Source(c)]]))
  /\ ops' = ops + 1
  /\ UNCHANGED <<storage, plain>>

\* What v[args] shows at c, by the Python meaning of each argument.
IndexSource(v, args, c) ==
  LET normal == Normalize("concrete", v.concrete.shape, args)
      along(k) == Cardinality({j \in 1 .. k : normal[j].kind # "int"})
  IN  [a \in DOMAIN v.concrete.shape |->
         LET k == CHOOSE k \in DOMAIN normal :
                    Consuming(normal[k]) /\ AxisOf(normal, k, Rank(v.concrete)) = a
         IN  IF normal[k].kind = "int" THEN normal[k].at
             ELSE PyStart(v.concrete.shape[a], normal[k].start, normal[k].step)
                    + c[along(k)] * StepOf(normal[k].step)]

\* __getitem__, when it returns a view
GetItem(v, args) ==
  /\ ValidIndex(v.concrete.shape, args) /\ ~IsScalar(args, Rank(v.concrete))
  /\ TakeView(v, LAMBDA half, l : Index(half, l, args),
                 LAMBDA c : IndexSource(v, args, c), v.writeable)

SwapAxes(v, axis1, axis2) ==
  LET rank == Rank(v.concrete)
      a == NormalAxis(axis1, rank)
      b == NormalAxis(axis2, rank)
  IN  /\ ValidAxis(axis1, rank) /\ ValidAxis(axis2, rank)
      /\ TakeView(v, LAMBDA half, l : Permuted(l, SwapSource(half, a, b, rank)),
                     LAMBDA c : [c EXCEPT ![a] = c[b], ![b] = c[a]], v.writeable)

Transpose(v, axes) ==
  /\ IsPermutation(axes, Rank(v.concrete))
  /\ TakeView(v, LAMBDA half, l : Permuted(l, axes),
                 LAMBDA c : [a \in DOMAIN axes |-> c[CHOOSE b \in DOMAIN axes : axes[b] = a]],
                 v.writeable)

\* axes holds different axes of the result.
ExpandDims(v, axes) ==
  LET rank == Rank(v.concrete) + Len(axes)
      new == {NormalAxis(axes[k], rank) : k \in DOMAIN axes}
  IN  /\ \A k \in DOMAIN axes : ValidAxis(axes[k], rank)
      /\ Cardinality(new) = Len(axes)
      /\ TakeView(v, LAMBDA half, l : Expanded(l, new),
                     LAMBDA c : [a \in DOMAIN v.concrete.shape |->
                                   c[CHOOSE b \in (1 .. rank) \ new : SourceAxis(b, new) = a]],
                     v.writeable)

\* Where numpy finds coordinate c of a broadcast result in an operand of that shape.
Stretched(shape, c) ==
  CHOOSE d \in Positions(shape) :
    \A a \in DOMAIN shape : shape[a] = 1 \/ d[a] = c[Len(c) - Len(shape) + a]

\* A broadcast view is read-only.
BroadcastWriteable(v) == FALSE

BroadcastTo(v, shape) ==
  /\ ValidBroadcast(v.concrete.shape, shape)
  /\ TakeView(v, LAMBDA half, l : Broadcast(l, shape),
                 LAMBDA c : Stretched(v.concrete.shape, c), BroadcastWriteable(v))

----------------------------------------------------------------------------------
(* Assignments.                                                            *)

\* The values, in order of the coordinates, are written one after another.
Written(store, layout, values) ==
  LET coords == Coordinates(layout.shape)
  IN  FoldLeft(LAMBDA s, k : [s EXCEPT ![Address(layout, coords[k])] = values[k]],
               store, [k \in DOMAIN coords |-> k])

EnsureWriteable(dst) == dst.writeable

\* The storage changes to store, numpy's array to what value says of each of the
\* cells that dst shows at the coordinates.
Assign(dst, store, Value(_)) ==
  /\ ops < MaxOps
  /\ EnsureWriteable(dst)
  /\ storage' = store
  /\ plain' = [p \in DOMAIN plain |->
                 IF p \in Range(dst.cells)
                 THEN Value(CHOOSE c \in DOMAIN dst.cells : dst.cells[c] = p) ELSE plain[p]]
  /\ ops' = ops + 1
  /\ UNCHANGED views

\* __setitem__ of a scalar, through the view v[args] (which is not kept)
SetItem(v, args, x) ==
  /\ ValidIndex(v.concrete.shape, args)
  /\ LET layout == Index("concrete", v.concrete, args)
         shown == [c \in Positions(layout.shape) |-> v.cells[IndexSource(v, args, c)]]
         all == [k \in DOMAIN Coordinates(layout.shape) |-> x]
     IN  Assign([v EXCEPT !.cells = shown], Written(storage, layout, all), LAMBDA c : x)

\* Mutant: each element is written as soon as it is read.
CopiedInPlace(store, dst, src) ==
  LET coords == Coordinates(dst.shape)
  IN  FoldLeft(LAMBDA s, k : [s EXCEPT ![Address(dst, coords[k])] = s[Address(src, coords[k])]],
               store, [k \in DOMAIN coords |-> k])

\* All reads come before the writes.
Copied(store, dst, src) ==
  Written(store, dst, [k \in DOMAIN Coordinates(dst.shape) |->
                         store[Address(src, Coordinates(dst.shape)[k])]])

\* copyto, also from __setitem__ of an array
CopyTo(dst, src) ==
  LET shape == dst.concrete.shape
  IN  /\ ValidBroadcast(src.concrete.shape, shape)
      /\ Assign(dst, Copied(storage, dst.concrete, Broadcast(src.concrete, shape)),
                LAMBDA c : plain[src.cells[Stretched(src.concrete.shape, c)]])

\* The coordinate _execute_loop reads of an operand.
OperandCoords(shape, c) ==
  [a \in DOMAIN shape |-> IF shape[a] = 1 THEN 0 ELSE c[Len(c) - Len(shape) + a]]

\* UFunc.__call__ with out=dst
Ufunc(dst, x, y) ==
  LET shape == dst.concrete.shape
      shapes == <<x.concrete.shape, y.concrete.shape, shape>>
      read(v, c) == storage[Address(v.concrete, OperandCoords(v.concrete.shape, c))]
      values == [k \in DOMAIN Coordinates(shape) |->
                   LET c == Coordinates(shape)[k] IN Apply(read(x, c), read(y, c))]
      shown(v, c) == plain[v.cells[Stretched(v.concrete.shape, c)]]
  IN  /\ Broadcastable(shapes) /\ BroadcastShapes(shapes) = shape
      /\ Assign(dst, Written(storage, dst.concrete, values),
                LAMBDA c : Apply(shown(x, c), shown(y, c)))

----------------------------------------------------------------------------------
(* UFunc.reduce with out=dst, over at most one axis.                       *)

\* _normalize_reducelike_axes and get_reduce_axis_flags: None stands for every axis.
ValidAxes(axis, rank) ==
  axis # None => IF rank = 0 THEN axis \in {0, -1} ELSE ValidAxis(axis, rank)
ReducedAxes(axis, rank) ==
  IF axis = None THEN 1 .. rank ELSE IF rank = 0 THEN {} ELSE {NormalAxis(axis, rank)}

\* The shape of the result: a reduced axis is dropped, or kept with size 1.
ReducedShape(shape, reduced, keepdims) ==
  FlattenSeq([a \in DOMAIN shape |->
                IF a \notin reduced THEN <<shape[a]>> ELSE IF keepdims THEN <<1>> ELSE <<>>])

\* _get_reduce_source_coords, c in the result and d in the reduced axes
ReduceSource(shape, reduced, keepdims, c, d) ==
  [a \in DOMAIN shape |->
     IF a \in reduced THEN d[Cardinality({b \in reduced : b <= a})]
     ELSE c[IF keepdims THEN a ELSE a - Cardinality({b \in reduced : b < a})]]

\* Without an initial value the first element is the seed.
Accumulated(initial, values) ==
  IF initial = None THEN FoldLeft(Apply, Head(values), Tail(values))
  ELSE FoldLeft(Apply, initial, values)

Reduce(dst, src, axis, keepdims, initial) ==
  LET shape == src.concrete.shape
      reduced == ReducedAxes(axis, Len(shape))
      along == Coordinates(FlattenSeq([a \in DOMAIN shape |->
                                         IF a \in reduced THEN <<shape[a]>> ELSE <<>>]))
      result == ReducedShape(shape, reduced, keepdims)
      fold(c) == Accumulated(initial, [k \in DOMAIN along |->
                   storage[Address(src.concrete, ReduceSource(shape, reduced, keepdims, c, along[k]))]])
      kept(d) == FlattenSeq([a \in DOMAIN shape |->
                   IF a \notin reduced THEN <<d[a]>> ELSE IF keepdims THEN <<0>> ELSE <<>>])
      at(c, j) == CHOOSE d \in DOMAIN src.cells : kept(d) = c /\ \A a \in reduced : d[a] = j - 1
  IN  /\ ValidAxes(axis, Len(shape)) /\ Cardinality(reduced) <= 1
      /\ dst.concrete.shape = result
      /\ initial = None => along # <<>>
      /\ Assign(dst, Written(storage, dst.concrete,
                             [k \in DOMAIN Coordinates(result) |-> fold(Coordinates(result)[k])]),
                LAMBDA c : Accumulated(initial, [j \in DOMAIN along |-> plain[src.cells[at(c, j)]]]))

----------------------------------------------------------------------------------
AxisNumbers == -MaxRank .. MaxRank - 1
AxisTuples == {<<>>} \cup {<<a>> : a \in AxisNumbers} \cup {<<a, b>> : a, b \in AxisNumbers}
AxisOrders(rank) == {s \in [1 .. rank -> 1 .. rank] : IsPermutation(s, rank)}

ViewStep ==
  \E i \in DOMAIN views : LET v == views[i] IN
    \/ \E args \in Indices : GetItem(v, args)
    \/ \E a, b \in AxisNumbers : SwapAxes(v, a, b)
    \/ \E axes \in AxisOrders(Rank(v.concrete)) : Transpose(v, axes)
    \/ \E axes \in AxisTuples : ExpandDims(v, axes)
    \/ \E shape \in Targets : BroadcastTo(v, shape)

AssignStep ==
  \E i, j \in DOMAIN views :
    \/ \E args \in Indices, x \in Values : i = j /\ SetItem(views[i], args, x)
    \/ CopyTo(views[i], views[j])
    \/ \E k \in DOMAIN views : Ufunc(views[i], views[j], views[k])
    \/ \E axis \in AxisNumbers \cup {None}, keepdims \in BOOLEAN, initial \in Values \cup {None} :
         Reduce(views[i], views[j], axis, keepdims, initial)

Next == ViewStep \/ AssignStep \/ (ops = MaxOps /\ UNCHANGED vars)

Spec == Init /\ [][Next]_vars

----------------------------------------------------------------------------------
(* Properties.                                                             *)

\* The layout the solver reasons about is the one the program computes with, for
\* every index argument: negative ones, clamped slices of either direction, new axes.
HalvesAgree == \A i \in DOMAIN views : views[i].formula = views[i].concrete

\* No element of a writeable view is written through two of its coordinates.
WriteableWithoutAliases ==
  \A i \in DOMAIN views : views[i].writeable =>
    \A c, d \in DOMAIN views[i].cells :
      Address(views[i].concrete, c) = Address(views[i].concrete, d) => c = d

\* Every coordinate of every view addresses the cell that numpy shows there, so no
\* view reaches outside the storage, although none is validated; and so does an
\* index of integers, counted from either end.  A view in which two coordinates
\* show one cell is read-only.
ViewsShowTheirCells ==
  /\ \A i \in DOMAIN views, half \in Halves : LET l == views[i][half] IN
       \A c \in DOMAIN views[i].cells :
         /\ Address(l, c) = views[i].cells[c]
         /\ Index(half, l, [a \in DOMAIN c |-> Int1(c[a])]).offset = views[i].cells[c]
         /\ Index(half, l, [a \in DOMAIN c |-> Int1(c[a] - l.shape[a])]).offset = views[i].cells[c]
  /\ WriteableWithoutAliases

\* After any assignments the storage is numpy's array, also where the two sides of
\* an assignment share memory.
StorageIsNumpys == storage = plain
==================================================================================
