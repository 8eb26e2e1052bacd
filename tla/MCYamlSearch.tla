----------------------------- MODULE MCYamlSearch -----------------------------
(***************************************************************************)
(* Feature trees with one and two features over three API nodes, nested    *)
(* both ways, and functions under test that make two calls, each compared  *)
(* with one or two of the API nodes, possibly under an `if'.               *)
(***************************************************************************)
EXTENDS YamlSearch

MCInput == 0 .. 2
MCNode == 1 .. 5

Leaf == "api"
Tree(kind, children, roots) == [kind |-> kind, children |-> children, roots |-> roots]

\* and(or(3, 2), 1) and or(and(3, 2), 1); and two separate features.
AndOverOr == Tree(<<Leaf, Leaf, Leaf, "or", "and">>, <<{}, {}, {}, {3, 2}, {4, 1}>>, <<5>>)
OrOverAnd == Tree(<<Leaf, Leaf, Leaf, "and", "or">>, <<{}, {}, {}, {3, 2}, {4, 1}>>, <<5>>)
TwoFeatures == Tree(<<Leaf, Leaf, Leaf, "or", "and">>, <<{}, {}, {}, {1}, {3, 2}>>, <<5, 4>>)

MCSpecs == {AndOverOr, OrOverAnd, TwoFeatures}

\* A call compares itself with those of the named nodes that a feature has.
Conditions(a, holds) == IF holds = MCInput THEN <<>> ELSE <<[api |-> a, holds |-> holds]>>
Compared(apis, holds) ==
  [named |-> apis,
   checks |-> (IF 3 \in apis THEN Conditions(3, holds[1]) ELSE <<>>)
              \o (IF 2 \in apis THEN Conditions(2, holds[2]) ELSE <<>>)
              \o (IF 1 \in apis THEN Conditions(1, holds[2]) ELSE <<>>)]
MakeCall(spec, when, apis, holds) ==
  [when |-> when,
   compare |-> [f \in DOMAIN spec.roots |->
                  Compared(apis \cap BelowIn(spec)[spec.roots[f]], holds)]]

Conds == {{0}, {1}, {1, 2}, {2}}
MCPrograms ==
  [spec \in MCSpecs |->
     {<<MakeCall(spec, MCInput, a1, <<c1, c2>>), MakeCall(spec, w, a2, <<c3, MCInput>>)>> :
        a1 \in {{3}, {1}, {3, 2}}, a2 \in {{2}, {1}, {3, 1}}, c1 \in Conds, c2 \in Conds,
        c3 \in Conds, w \in {MCInput, {0, 1}, {2}}}]
=================================================================================
