-------------------------------- MODULE MCReplay --------------------------------
(***************************************************************************)
(* Functions over three values: every outcome for each argument, arguments *)
(* and globals left alone or changed, in place or by assignment.           *)
(***************************************************************************)
EXTENDS Replay

MCVal == 0 .. 2

Same == [v \in MCVal |-> v]
Step == [v \in MCVal |-> IF v < 2 THEN v + 1 ELSE 0]

MCFunctions ==
  {[newArg |-> na, newGlob |-> ng, inPlace |-> ip, outcome |-> out, valid |-> va] :
     na \in {Same, Step}, ng \in {Same, Step}, ip \in BOOLEAN,
     out \in {[v \in MCVal |-> IF v = 0 THEN o0 ELSE IF v = 1 THEN o1 ELSE "return"] :
                o0 \in {"return", "hang"}, o1 \in {"return", "raise", "assert"}},
     va \in {MCVal, {0, 2}}}
=================================================================================
