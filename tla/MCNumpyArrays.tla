------------------------------ MODULE MCNumpyArrays ------------------------------
(***************************************************************************)
(* Arrays of up to four elements and views of up to three axes.  The       *)
(* indices cover both directions, steps of two, bounds inside, at and      *)
(* beyond the ends, and empty slices.                                      *)
(*                                                                         *)
(* Layouts that are checked for safety: of rank two with every sign and    *)
(* order of the strides, of rank one, and with fields of other types and   *)
(* lengths.  One starts where the other is idle: they share no state.      *)
(***************************************************************************)
EXTENDS NumpyArrays, ArrayLayouts

MCShapes == {<<4>>, <<2, 2>>, <<1, 3>>}
MCTargets == {<<2, 3>>, <<2, 1, 3>>, <<2, 2>>}
MCIndices ==
  {<<Slice(1, None, None)>>, <<Slice(None, -1, None)>>, <<Slice(None, None, -1)>>,
   <<Slice(-9, 9, 2)>>, <<Slice(9, -9, -2)>>, <<Slice(2, 1, None)>>, <<Slice(-1, 0, -1)>>,
   <<Ellipsis, Slice(None, 1, None)>>, <<NewAxis, Ellipsis, Int1(-1)>>,
   <<Int1(1)>>, <<Int1(0), Int1(-1)>>, <<Slice(None, None, None), NewAxis, Int1(0)>>, <<>>}
MCApply(x, y) == (2 * x + y) % 5

Rank2 ==
  {[storage |-> p[2], shape |-> <<d, e>>, strides |-> s, offset |-> p[1], writeable |-> TRUE] :
     d \in 0 .. 2, e \in 0 .. 2, s \in {<<1, 1>>, <<2, 1>>, <<-1, 2>>, <<2, -1>>, <<0, 1>>},
     p \in {<<0, 0>>, <<0, 2>>, <<1, 4>>, <<2, 3>>, <<3, 4>>}}
Rank1 ==
  {[storage |-> p[2], shape |-> <<d>>, strides |-> s, offset |-> p[1], writeable |-> w] :
     d \in {0, 1, 3}, s \in {<<1>>, <<-1>>}, w \in {FALSE, Other},
     p \in {<<0, 2>>, <<1, 4>>, <<2, 3>>, <<3, 4>>}}
OddFields ==
  {[storage |-> n, shape |-> sh, strides |-> st, offset |-> o, writeable |-> TRUE] :
     n \in {1, Other}, sh \in {<<>>, <<-1>>, <<Other>>, <<1>>, Other},
     st \in {<<>>, <<1>>, <<Other>>, Other}, o \in {-1, 0, 1, Other}}
MCArrayInput == Rank2 \cup Rank1 \cup OddFields

MCInit == (Init /\ LayoutIdle) \/ (ArraysIdle /\ LayoutInit)
MCNext == (Next /\ UNCHANGED layoutVars) \/ (LayoutNext /\ UNCHANGED vars)
MCSpec == MCInit /\ [][MCNext]_<<vars, layoutVars>>
==================================================================================
