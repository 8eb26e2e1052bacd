---------------------------- MODULE MCConcolicEngine ----------------------------
(***************************************************************************)
(* Small functions under test for ConcolicEngine: two symbolic conditions  *)
(* in sequence or in a loop, then one other engine call, with and without  *)
(* exception handlers, over every choice of the sets the conditions hold   *)
(* for.                                                                    *)
(***************************************************************************)
EXTENDS ConcolicEngine

CONSTANTS Tails     \* the kinds tried for the third node

MCInput == 0..2
MoreInput == 0..4
MCNode == 1..5
MCSite == {"none", "a", "b", "c"}

\* Node 5 returns, node 4 raises; 1 and 2 are recorded conditions; 3 varies.
Straight == [then |-> <<2, 3, 5, 5, 5>>, else |-> <<3, 4, 5, 5, 5>>]
Loop == [then |-> <<2, 1, 5, 5, 5>>, else |-> <<3, 4, 5, 5, 5>>]

Uncaught == <<None, None, None, None, None>>
\* try: <node 2, node 4> except: <node 3>
CatchEarly == <<None, 3, None, 3, None>>
\* try: <node 3> except: return
CatchLate == <<None, None, 5, None, None>>

Function(shape, second, tail, h1, h2, h3, handler, positional) ==
  [entry |-> 1,
   kind |-> <<"if", second, tail, "raise", "return">>,
   site |-> <<"a", "b", "c", "none", "none">>,
   holds |-> <<h1, h2, h3, {}, {}>>,
   then |-> shape.then,
   else |-> shape.else,
   handler |-> handler,
   positional |-> positional]

MCPrograms ==
  {Function(shape, second, tail, h1, h2, h3, handler, TRUE) :
     shape \in {Straight, Loop}, second \in {"if", "check"}, tail \in Tails,
     h1 \in {{0}, {1}, {0, 1}, Input \ {0}}, h2 \in SUBSET Input,
     h3 \in {{}, {0}, {1, 2}, Input}, handler \in {Uncaught, CatchEarly, CatchLate}}
  \cup {Function(Straight, "if", "plain", {0}, {1}, {}, Uncaught, FALSE)}

AllTails == {"plain", "assume", "assert", "prove", "call"}

\* Input 0 holds a set: it never compares equal to itself.
SomeComparable == {1, 2}

Identity == [i \in MCInput |-> i]
\* convert_model answers 0 for a term it cannot simplify.
Lossy == [i \in MoreInput |-> IF i = 2 THEN 0 ELSE i]
\* Input 3 holds a set, and copying input 4 raises.
ButThree == MoreInput \ {3}
=================================================================================
