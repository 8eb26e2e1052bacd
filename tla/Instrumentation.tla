------------------------------ MODULE Instrumentation ------------------------------
(***************************************************************************)
(* How the test of an if or while of the tested module is rewritten        *)
(* (astmanip.py) and what the rewritten test does (overrides).  Comparisons*)
(* and calls are rewritten first; then the atoms of the test, what is left *)
(* of and, or and not, are wrapped in a call that records and marks them.  *)
(*                                                                         *)
(* Values are None and small numbers; True is 1.  A container n holds the  *)
(* numbers below n.                                                        *)
(***************************************************************************)
EXTENDS Integers, Sequences, FiniteSets

CONSTANTS
  Variable,  \* variables of the tested function
  Values,    \* what they may hold
  Tests      \* the tests: expressions

None == -1
Stopped == 99
NoValue == 98
ASSUME ValuesAssumption == Values \subseteq -1 .. 97

\* Expressions
Node(node, of, args) == [node |-> node, of |-> of, args |-> args]
Name(x) == Node("name", x, <<>>)
NoneConstant == Node("none", "", <<>>)
Not(e) == Node("not", "", <<e>>)
BoolOp(op, es) == Node(op, "", es)
Compare(left, operators, comparators) == Node("compare", operators, <<left>> \o comparators)
Call(f, args) == Node("call", f, args)

Intercepted(function, args) == Node("intercept", function, args)

VARIABLES
  test,     \* the test, fixed
  holds,    \* variable -> value, fixed
  outcome   \* what evaluating the rewritten test gave

testVars == <<test, holds, outcome>>

----------------------------------------------------------------------------------
(* The rewriting.                                                          *)

\* Mutant: the operands change places.
SwappedIn(e) == Intercepted("in", <<e.args[2], e.args[1]>>)

\* generate_in_interception
InInterception(e) == Intercepted("in", e.args)

EqualsNone(e) == Node("compare", <<"==">>, e.args)

\* visit_Compare looks at the first operator only.
VisitCompare(e) ==
  CASE e.of[1] = "in" -> InInterception(e)
    [] e.of[1] = "not in" -> Not(InInterception(e))
    [] e.of[1] = "is" /\ e.args[2] = NoneConstant -> EqualsNone(e)
    [] e.of[1] = "is not" /\ e.args[2] = NoneConstant -> Not(EqualsNone(e))
    [] OTHER -> e

\* visit_Call
VisitCall(e) == Intercepted("call", e.args)

Each(es, F(_)) == [k \in DOMAIN es |-> F(es[k])]

\* InterceptStatements on an expression: the children first
RECURSIVE Rewritten(_)
Rewritten(e) ==
  LET visited == [e EXCEPT !.args = Each(@, Rewritten)]
  IN  CASE e.node = "compare" -> VisitCompare(visited)
        [] e.node = "call" -> VisitCall(visited)
        [] OTHER -> visited

IsAtom(e) == e.node \notin {"and", "or", "not"}

\* generate_if_interception, generate_while_interception
ConditionInterception(e) == Intercepted("condition", <<e>>)

\* Mutant: an atom below a not is left alone.
WrapBelow(e) == IF IsAtom(e) /\ e.node # "name" THEN ConditionInterception(e) ELSE e

WrapAtom(e) == IF IsAtom(e) THEN ConditionInterception(e) ELSE e

\* InterceptAtoms descends into atoms as well.
RECURSIVE InterceptAtoms(_)
InterceptAtoms(e) ==
  LET visited == [e EXCEPT !.args = Each(@, InterceptAtoms)]
  IN  IF IsAtom(e) THEN visited ELSE [visited EXCEPT !.args = Each(@, WrapAtom)]

\* visit_If, visit_While
Instrumented(e) ==
  LET rewritten == Rewritten(e)
  IN  IF IsAtom(rewritten) THEN ConditionInterception(rewritten) ELSE InterceptAtoms(rewritten)

----------------------------------------------------------------------------------
(* Evaluation: the value, the variables read and the truths marked.        *)

Result(value, loads, marks) == [value |-> value, loads |-> loads, marks |-> marks]
IsTrue(value) == value \notin {None, 0}
ToBool(b) == IF b THEN 1 ELSE 0
Then(r, s) == Result(s.value, r.loads \o s.loads, r.marks \o s.marks)
With(r, value) == Result(value, r.loads, r.marks)

Related(op, a, b) ==
  CASE op = "<" -> a < b
    [] op = "in" -> a \in 0 .. b - 1
    [] op = "not in" -> a \notin 0 .. b - 1
    [] op \in {"==", "is"} -> a = b
    [] op = "is not" -> a # b

Returned(n) == (n + 2) % 3

\* The calls that the rewriting put in, of values.
\* intercept_in refuses a chain; intercept_if and intercept_while mark and return a bool.
Intercept(function, r, values) ==
  CASE Stopped \in {values[k] : k \in DOMAIN values} -> With(r, Stopped)
    [] function = "in" /\ Len(values) > 2 -> With(r, Stopped)
    [] function = "in" /\ Len(values) = 2 -> With(r, ToBool(Related("in", values[1], values[2])))
    [] function = "call" -> With(r, Returned(values[1]))
    [] function = "condition" ->
         Result(ToBool(IsTrue(values[1])), r.loads, Append(r.marks, IsTrue(values[1])))

\* Python's evaluation.  A comparison with more operands than operators does not
\* compile, which is an exception too.
RECURSIVE Eval(_), EvalArgs(_, _), EvalBool(_, _), EvalChain(_, _, _)
EvalArgs(es, k) ==   \* all of them, in order; the values are a sequence
  IF k > Len(es) THEN Result(<<>>, <<>>, <<>>)
  ELSE LET r == Eval(es[k])
           rest == EvalArgs(es, k + 1)
       IN  Result(<<r.value>> \o rest.value, r.loads \o rest.loads, r.marks \o rest.marks)
EvalBool(e, k) ==
  LET r == Eval(e.args[k])
  IN  IF k = Len(e.args) \/ r.value = Stopped \/ IsTrue(r.value) = (e.node = "or") THEN r
      ELSE Then(r, EvalBool(e, k + 1))
EvalChain(e, k, left) ==
  LET r == Eval(e.args[k + 1])
      b == With(r, IF r.value = Stopped THEN Stopped ELSE ToBool(Related(e.of[k], left, r.value)))
  IN  IF k = Len(e.of) \/ b.value # 1 THEN b ELSE Then(b, EvalChain(e, k + 1, r.value))
Eval(e) ==
  CASE e.node = "name" -> Result(holds[e.of], <<e.of>>, <<>>)
    [] e.node = "none" -> Result(None, <<>>, <<>>)
    [] e.node = "not" -> LET r == Eval(e.args[1])
                         IN  IF r.value = Stopped THEN r ELSE With(r, ToBool(~IsTrue(r.value)))
    [] e.node \in {"and", "or"} -> EvalBool(e, 1)
    [] e.node = "call" -> LET r == EvalArgs(e.args, 1) IN Intercept("call", r, r.value)
    [] e.node = "intercept" -> LET r == EvalArgs(e.args, 1) IN Intercept(e.of, r, r.value)
    [] e.node = "compare" /\ Len(e.args) # Len(e.of) + 1 -> Result(Stopped, <<>>, <<>>)
    [] e.node = "compare" /\ Len(e.args) = Len(e.of) + 1 ->
         LET r == Eval(e.args[1])
         IN  IF r.value = Stopped THEN r ELSE Then(r, EvalChain(e, 1, r.value))

NotEvaluated == Result(NoValue, <<>>, <<>>)

TestIdle == test = NoneConstant /\ holds = [x \in Variable |-> 0] /\ outcome = Eval(Instrumented(test))

TestInit == test \in Tests /\ holds \in [Variable -> Values] /\ outcome = NotEvaluated

Evaluate ==
  /\ outcome = NotEvaluated
  /\ outcome' = Eval(Instrumented(test))
  /\ UNCHANGED <<test, holds>>

TestNext == Evaluate \/ (outcome # NotEvaluated /\ UNCHANGED testVars)

TestSpec == TestInit /\ [][TestNext]_testVars

----------------------------------------------------------------------------------
(* Properties.                                                             *)

RECURSIVE Has(_, _)
Has(e, nodes) == e.node \in nodes \/ \E k \in DOMAIN e.args : Has(e.args[k], nodes)

\* and, or and not down to the atoms; not in and is not None are negations.
RECURSIVE Atoms(_)
Atoms(e) == IF IsAtom(e) THEN {e} ELSE UNION {Atoms(e.args[k]) : k \in DOMAIN e.args}

Negation(e) ==
  e.node = "compare" /\ (e.of[1] = "not in" \/ (e.of[1] = "is not" /\ e.args[2] = NoneConstant))

\* The test is one atom, or no atom computes with the value of an and or an or: such a
\* value is replaced by True or False, so that x and (y or z) == 2 never holds.
KeepsValues(e) ==
  (IsAtom(e) /\ ~Negation(e)) \/ \A a \in Atoms(e) : ~Has(a, {"and", "or"})

RECURSIVE RefusedChain(_)
RefusedChain(e) ==
  \/ e.node = "compare" /\ Len(e.of) > 1
     /\ (e.of[1] \in {"in", "not in"} \/ (e.of[1] \in {"is", "is not"} /\ e.args[2] = NoneConstant))
  \/ \E k \in DOMAIN e.args : RefusedChain(e.args[k])

\* The truths of the atoms that Python evaluates, in its order.
RECURSIVE Truths(_), TruthsOf(_, _)
Truths(e) ==
  IF e.node = "not" THEN Truths(e.args[1])
  ELSE IF IsAtom(e) THEN <<IF Negation(e) THEN ~IsTrue(Eval(e).value) ELSE IsTrue(Eval(e).value)>>
  ELSE TruthsOf(e, 1)
TruthsOf(e, k) ==
  Truths(e.args[k]) \o
    (IF k = Len(e.args) \/ IsTrue(Eval(e.args[k]).value) = (e.node = "or") THEN <<>>
     ELSE TruthsOf(e, k + 1))

RECURSIVE HidesTest(_)
HidesTest(e) ==
  \E k \in DOMAIN e.args : LET a == e.args[k] IN ~IsAtom(a) \/ Negation(a) \/ HidesTest(a)

\* The rewritten test goes the way of the one in the source and reads the same
\* variables once each and in the same order; a chain of comparisons that begins with
\* in or is None may stop the run, and never changes it.  And unless an atom hides one
\* of its own, every atom that is evaluated, and no other, is marked once, with its
\* truth: what is reported as taken both ways was.
TestsKeepTheirTruth ==
  outcome # NotEvaluated =>
    /\ KeepsValues(test) =>
         LET plainly == Eval(test)
         IN  \/ /\ IsTrue(outcome.value) = IsTrue(plainly.value)
                /\ outcome.loads = plainly.loads
             \/ outcome.value = Stopped /\ RefusedChain(test)
    /\ ~RefusedChain(test) /\ (\A a \in Atoms(test) : ~HidesTest(a)) =>
         outcome.marks = Truths(test)
==================================================================================
