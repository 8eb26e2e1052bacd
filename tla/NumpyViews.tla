-------------------------------- MODULE NumpyViews --------------------------------
(***************************************************************************)
(* Views of a numpy array (libraries/impls/numpy: slicing.py, views.py,    *)
(* util.py).  A view is a layout (shape, offset, strides) over the storage *)
(* it shares with the array it was taken from.  Layouts are computed       *)
(* twice: on the concrete values of the input that runs, and as formulas;  *)
(* "half" says which.  No view is validated when it is made: the code      *)
(* passes skip_validation and relies on the layout being right.            *)
(* Axes are numbered from 1 here.                                          *)
(***************************************************************************)
EXTENDS NumpySlices, Sequences, SequencesExt

Halves == {"formula", "concrete"}

SumSeq(s) == FoldLeft(LAMBDA x, y : x + y, 0, s)
Product(s) == FoldLeft(LAMBDA x, y : x * y, 1, s)
Rank(layout) == Len(layout.shape)

----------------------------------------------------------------------------------
(* Coordinates and addresses.                                              *)

\* _default_strides, from the back
DefaultStrides(shape) ==
  LET stride[a \in DOMAIN shape] == IF a = Len(shape) THEN 1 ELSE stride[a + 1] * shape[a + 1]
  IN  stride

\* itertools.product over the dimensions: the last axis runs fastest.
Coordinates(shape) ==
  LET strides == DefaultStrides(shape)
  IN  [k \in 1 .. Product(shape) |->
         [a \in DOMAIN shape |-> ((k - 1) \div strides[a]) % shape[a]]]

\* _resolve_scalar_coordinates
Address(layout, coords) ==
  layout.offset + SumSeq([a \in DOMAIN coords |-> coords[a] * layout.strides[a]])

----------------------------------------------------------------------------------
(* Basic indexing: v[args].                                                *)

Int1(i) == [kind |-> "int", at |-> i]
Slice(start, stop, step) == [kind |-> "slice", start |-> start, stop |-> stop, step |-> step]
Full == Slice(None, None, None)
NewAxis == [kind |-> "newaxis"]
Ellipsis == [kind |-> "ellipsis"]

Arguments ==
  [kind : {"newaxis", "ellipsis"}] \cup [kind : {"int"}, at : Int]
    \cup [kind : {"slice"}, start : Int \cup {None}, stop : Int \cup {None}, step : Int \cup {None}]

Consuming(arg) == arg.kind \in {"int", "slice"}
Consumed(args) == Cardinality({k \in DOMAIN args : Consuming(args[k])})
Ellipses(args) == {k \in DOMAIN args : args[k].kind = "ellipsis"}

\* The axes an ellipsis stands for.
Skipped(args, rank) == rank - Consumed(args)

\* The axis argument k consumes.
AxisOf(args, k, rank) ==
  1 + Cardinality({j \in 1 .. k - 1 : Consuming(args[j])})
    + IF \E j \in Ellipses(args) : j < k THEN Skipped(args, rank) ELSE 0

\* _validate_basic_index
ValidIndex(shape, args) ==
  /\ \A j, k \in Ellipses(args) : j = k
  /\ Consumed(args) <= Len(shape)
  /\ \A k \in DOMAIN args :
       args[k].kind = "int" =>
         LET dim == shape[AxisOf(args, k, Len(shape))] IN -dim <= args[k].at /\ args[k].at < dim
  /\ \A k \in DOMAIN args : args[k].kind = "slice" => args[k].step # 0

\* _normalize_index
NormalIndex(half, i, dim) ==
  IF half = "concrete" THEN (dim + i) % dim ELSE IF i < 0 THEN dim + i ELSE i

\* _normalize_basic_index: no ellipsis, no negative index, an argument for every axis.
Normalize(half, shape, args) ==
  LET rank == Len(shape)
      expand(k) ==
        CASE args[k].kind = "ellipsis" -> [j \in 1 .. Skipped(args, rank) |-> Full]
          [] args[k].kind = "int" ->
               <<Int1(NormalIndex(half, args[k].at, shape[AxisOf(args, k, rank)]))>>
          [] OTHER -> <<args[k]>>
      expanded == FlattenSeq([k \in DOMAIN args |-> expand(k)])
  IN  expanded \o [j \in 1 .. Skipped(expanded, rank) |-> Full]

SliceOf(half, dim, stride, arg) ==
  IF half = "concrete"
  THEN ConcreteSlice(dim, stride, arg.start, arg.stop, arg.step)
  ELSE FormulaSlice(dim, stride, arg.start, arg.stop, arg.step)

\* _resolve_basic_index, on normalized arguments
Resolve(half, layout, args) ==
  LET part(k) ==
        LET a == AxisOf(args, k, Rank(layout))
            s == SliceOf(half, layout.shape[a], layout.strides[a], args[k])
        IN  CASE args[k].kind = "newaxis" -> [shape |-> <<1>>, strides |-> <<0>>, delta |-> 0]
              [] args[k].kind = "slice" ->
                   [shape |-> <<s.dim>>, strides |-> <<s.stride>>, delta |-> s.delta]
              [] args[k].kind = "int" ->
                   [shape |-> <<>>, strides |-> <<>>, delta |-> args[k].at * layout.strides[a]]
      parts == [k \in DOMAIN args |-> part(k)]
  IN  [shape |-> FlattenSeq([k \in DOMAIN args |-> parts[k].shape]),
       offset |-> layout.offset + SumSeq([k \in DOMAIN args |-> parts[k].delta]),
       strides |-> FlattenSeq([k \in DOMAIN args |-> parts[k].strides])]

Index(half, layout, args) == Resolve(half, layout, Normalize(half, layout.shape, args))

\* An index of integers only, one for each axis, reads or writes a scalar.
IsScalar(args, rank) == Consumed(args) = rank /\ \A k \in DOMAIN args : args[k].kind = "int"

----------------------------------------------------------------------------------
(* Views with other axes.                                                  *)

\* An axis of an array of that rank, where negative numbers count from the end.
ValidAxis(axis, rank) == -rank <= axis /\ axis < rank
NormalAxis(axis, rank) == 1 + IF axis < 0 THEN axis + rank ELSE axis

Permuted(layout, source) ==
  [layout EXCEPT !.shape = [a \in DOMAIN source |-> layout.shape[source[a]]],
                 !.strides = [a \in DOMAIN source |-> layout.strides[source[a]]]]

\* swapaxes: where each axis comes from.  The concrete half uses exclusive or.
SwapSource(half, axis1, axis2, rank) ==
  [a \in 1 .. rank |->
     IF half = "concrete"
     THEN IF a \in {axis1, axis2} THEN axis1 + axis2 - a ELSE a
     ELSE IF a = axis1 THEN axis2 ELSE IF a = axis2 THEN axis1 ELSE a]

\* transpose
IsPermutation(axes, rank) ==
  /\ Len(axes) = rank
  /\ \A a \in DOMAIN axes : axes[a] \in 1 .. rank
  /\ \A a, b \in DOMAIN axes : axes[a] = axes[b] => a = b

\* expand_dims: axis a of the result was this axis, unless it is a new one.
SourceAxis(a, new) == a - Cardinality({b \in new : b < a})

Expanded(layout, new) ==
  LET rank == Rank(layout) + Cardinality(new)
  IN  [layout EXCEPT
         !.shape = [a \in 1 .. rank |-> IF a \in new THEN 1 ELSE layout.shape[SourceAxis(a, new)]],
         !.strides = [a \in 1 .. rank |-> IF a \in new THEN 0 ELSE layout.strides[SourceAxis(a, new)]]]

\* broadcast_to: the axes of the array are the last ones of the result.
ValidBroadcast(old, new) ==
  /\ Len(old) <= Len(new)
  /\ \A a \in DOMAIN old : old[a] \in {1, new[Len(new) - Len(old) + a]}

\* Mutant: a dimension of size 1 keeps its stride.
KeptStrides(layout, new) ==
  LET shift == Len(new) - Rank(layout)
  IN  [a \in DOMAIN new |-> IF a <= shift THEN 0 ELSE layout.strides[a - shift]]

BroadcastStrides(layout, new) ==
  LET shift == Len(new) - Rank(layout)
  IN  [a \in DOMAIN new |->
         IF a <= shift \/ layout.shape[a - shift] = 1 THEN 0 ELSE layout.strides[a - shift]]

Broadcast(layout, new) ==
  [shape |-> new, offset |-> layout.offset, strides |-> BroadcastStrides(layout, new)]

\* broadcast_shapes: along each axis the first dimension that is not 1; the
\* others must be 1 or the same.
DimAt(shape, a, rank) == IF a + Len(shape) > rank THEN shape[a + Len(shape) - rank] ELSE 1
FirstNotOne(dims) == FoldLeft(LAMBDA x, y : IF x = 1 THEN y ELSE x, 1, dims)
BroadcastShapes(shapes) ==
  LET rank == CHOOSE n \in {Len(shapes[k]) : k \in DOMAIN shapes} :
                \A k \in DOMAIN shapes : Len(shapes[k]) <= n
  IN  [a \in 1 .. rank |-> FirstNotOne([k \in DOMAIN shapes |-> DimAt(shapes[k], a, rank)])]
Broadcastable(shapes) ==
  LET shape == BroadcastShapes(shapes)
  IN  \A k \in DOMAIN shapes, a \in DOMAIN shape :
        DimAt(shapes[k], a, Len(shape)) \in {1, shape[a]}
==================================================================================
