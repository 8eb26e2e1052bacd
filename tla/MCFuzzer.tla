-------------------------------- MODULE MCFuzzer --------------------------------
(***************************************************************************)
(* Two branches, three argument tuples, and every way the tuples can       *)
(* behave: a call meets any of the branches, one in a loop perhaps with    *)
(* both outcomes.  No call raises, the last one does, or all do.            *)
(***************************************************************************)
EXTENDS Fuzzer

MCSite == {"a", "b"}
MCArg == {1, 2, 3}

Outcome(marks, raises) == [marks |-> marks, raises |-> raises]
MCBehaviours ==
  {<<Outcome(m1, 1 \in raising), Outcome(m2, 2 \in raising), Outcome(m3, 3 \in raising)>> :
     m1 \in SUBSET Mark, m2 \in SUBSET Mark, m3 \in SUBSET Mark, raising \in {{}, {3}, MCArg}}
=================================================================================
