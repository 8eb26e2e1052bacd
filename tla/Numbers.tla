---------------------------------- MODULE Numbers ----------------------------------
(***************************************************************************)
(* Python's numbers and their formulas.  A formula of sort any is a tagged *)
(* number; a float is a real, a NaN or an infinity (the exreal sort of     *)
(* symbolic/util.py).  Rounding and overflow of floats are left out: a     *)
(* finite float is a fraction.                                             *)
(***************************************************************************)
EXTENDS Integers

Kinds == {"bool", "int", "float"}
Classes == {"finite", "nan", "inf", "neginf"}

\* Fractions with a positive denominator; not in lowest terms.
Fraction(n, d) == IF d > 0 THEN [num |-> n, den |-> d] ELSE [num |-> -n, den |-> -d]
Zero == [num |-> 0, den |-> 1]
Finite(kind, real) == [kind |-> kind, class |-> "finite", real |-> real]
Whole(kind, n) == Finite(kind, [num |-> n, den |-> 1])
Truth(b) == Whole("bool", IF b THEN 1 ELSE 0)
Special(class) == [kind |-> "float", class |-> class, real |-> Zero]

Plus(a, b) == Fraction(a.num * b.den + b.num * a.den, a.den * b.den)
Minus(a, b) == Fraction(a.num * b.den - b.num * a.den, a.den * b.den)
Times(a, b) == Fraction(a.num * b.num, a.den * b.den)
Over(a, b) == Fraction(a.num * b.den, a.den * b.num)
Below(a, b) == a.num * b.den < b.num * a.den
SameReal(a, b) == a.num * b.den = b.num * a.den
Floor(a) == a.num \div a.den
Sign(a) == IF a.num < 0 THEN "neg" ELSE IF a.num = 0 THEN "zero" ELSE "pos"

\* What op does to two reals, on either side.
OnReals(op, a, b) ==
  CASE op = "+" -> Plus(a, b)
    [] op = "-" -> Minus(a, b)
    [] op = "*" -> Times(a, b)
    [] op = "/" -> Over(a, b)

----------------------------------------------------------------------------------
(* Python's arithmetic.                                                    *)

IsFinite(x) == x.class = "finite"
IsInfinite(x) == x.class \in {"inf", "neginf"}
Signum(x) == IF IsFinite(x) THEN Sign(x.real) ELSE IF x.class = "inf" THEN "pos" ELSE "neg"
Infinity(sign) == Special(IF sign = "pos" THEN "inf" ELSE "neginf")
Opposite(sign) == IF sign = "pos" THEN "neg" ELSE "pos"

\* IEEE 754, where a or b is not finite.  Division by zero raises in Python.
PySpecial(op, x, y) ==
  IF "nan" \in {x.class, y.class} THEN Special("nan") ELSE
  CASE op = "+" -> IF IsInfinite(x) /\ IsInfinite(y) /\ x.class # y.class THEN Special("nan")
                   ELSE IF IsInfinite(x) THEN Infinity(Signum(x)) ELSE Infinity(Signum(y))
    [] op = "-" -> IF IsInfinite(x) /\ x.class = y.class THEN Special("nan")
                   ELSE IF IsInfinite(x) THEN Infinity(Signum(x))
                   ELSE Infinity(Opposite(Signum(y)))
    [] op = "*" -> IF "zero" \in {Signum(x), Signum(y)} THEN Special("nan")
                   ELSE Infinity(IF Signum(x) = Signum(y) THEN "pos" ELSE "neg")
    [] op = "/" -> IF IsInfinite(x) /\ IsInfinite(y) THEN Special("nan")
                   ELSE IF IsInfinite(y) THEN Finite("float", Zero)
                   ELSE Infinity(IF Signum(x) = Signum(y) THEN "pos" ELSE "neg")

Floating(x, y) == "float" \in {x.kind, y.kind}

PyArith(op, x, y) ==
  IF IsFinite(x) /\ IsFinite(y)
  THEN Finite(IF Floating(x, y) \/ op = "/" THEN "float" ELSE "int", OnReals(op, x.real, y.real))
  ELSE PySpecial(op, x, y)

PyFloorDiv(x, y) == Whole("int", Floor(Over(x.real, y.real)))

PyLess(x, y) ==
  /\ "nan" \notin {x.class, y.class}
  /\ IF IsFinite(x) /\ IsFinite(y) THEN Below(x.real, y.real)
     ELSE x.class # y.class /\ (x.class = "neginf" \/ y.class = "inf")
PyEqual(x, y) == x.class # "nan" /\ x.class = y.class /\ SameReal(x.real, y.real)
PyCompare(op, x, y) ==
  CASE op = "<" -> PyLess(x, y)
    [] op = ">" -> PyLess(y, x)
    [] op = "<=" -> PyLess(x, y) \/ PyEqual(x, y)
    [] op = ">=" -> PyLess(y, x) \/ PyEqual(x, y)
    [] op = "==" -> PyEqual(x, y)

\* int() drops the fraction.
Negated(real) == [real EXCEPT !.num = -@]
PyInt(x) ==
  Whole("int", IF x.real.num < 0 THEN -Floor(Negated(x.real)) ELSE Floor(x.real))

----------------------------------------------------------------------------------
(* The formulas.                                                           *)

\* to_int, to_float, narrow_from_any_t
ToInt(real) == IF real.num >= 0 THEN Floor(real) ELSE -Floor(Negated(real))
Narrowed(f, kind) ==
  IF f.kind = kind THEN f ELSE
  CASE kind = "float" -> Finite("float", f.real)
    [] kind = "int" -> Whole("int", ToInt(f.real))
    [] kind = "bool" -> Truth(f.class # "finite" \/ f.real.num # 0)

\* The sort two operands are converted to, by their kinds in the run.
CommonKind(a, b) == IF a = b THEN a ELSE IF "float" \in {a, b} THEN "float" ELSE "int"

Reals == {"neg", "zero", "pos"}
Infinities == {"inf", "neginf"}

\* exreal_prop_op: the pairs of operands whose row gives inf, -inf or zero.  A pair
\* without a row is a NaN, and so are the rows left out here.
ToInf(op) ==
  CASE op = "+" -> ({"inf"} \X (Reals \cup {"inf"})) \cup (Reals \X {"inf"})
    [] op = "-" -> ({"inf"} \X (Reals \cup {"neginf"})) \cup (Reals \X {"neginf"})
    [] op = "*" -> {<<"inf", "inf">>, <<"inf", "pos">>, <<"pos", "inf">>,
                    <<"neginf", "neg">>, <<"neg", "neginf">>}
    [] op = "/" -> {<<"inf", "pos">>, <<"neginf", "neg">>}

\* Mutant: a number minus an infinity has no row.
RowsOfTheLeft(op) ==
  CASE op \in {"+", "-"} -> {"neginf"} \X Reals
    [] op = "*" -> {<<"inf", "neginf">>, <<"neginf", "inf">>, <<"neginf", "pos">>,
                    <<"pos", "neginf">>, <<"inf", "neg">>, <<"neg", "inf">>}
    [] op = "/" -> {<<"neginf", "pos">>, <<"inf", "neg">>}

ToNegInf(op) ==
  CASE op = "+" -> ({"neginf"} \X Reals) \cup (Reals \X {"neginf"})
    [] op = "-" -> ({"neginf"} \X (Reals \cup {"inf"})) \cup (Reals \X {"inf"})
    [] op = "*" -> {<<"inf", "neginf">>, <<"neginf", "inf">>, <<"neginf", "pos">>,
                    <<"pos", "neginf">>, <<"inf", "neg">>, <<"neg", "inf">>}
    [] op = "/" -> {<<"neginf", "pos">>, <<"inf", "neg">>}
ToZero(op) == IF op = "/" THEN Reals \X Infinities ELSE {}

Row(f) == IF IsFinite(f) THEN Sign(f.real) ELSE f.class

\* add, sub, mul and div on exreal
ExRealArith(op, f, g) ==
  IF IsFinite(f) /\ IsFinite(g) THEN Finite("float", OnReals(op, f.real, g.real))
  ELSE IF "nan" \in {f.class, g.class} THEN Special("nan")
  ELSE IF <<Row(f), Row(g)>> \in ToInf(op) THEN Special("inf")
  ELSE IF <<Row(f), Row(g)>> \in ToNegInf(op) THEN Special("neginf")
  ELSE IF <<Row(f), Row(g)>> \in ToZero(op) THEN Finite("float", Zero)
  ELSE Special("nan")

\* exreal_comp_op: the pairs that compare true.
\* Mutant: an infinity is not at least itself.
StrictPairs(op) ==
  IF op \in {">", ">="} THEN {<<"inf", "neginf">>, <<"inf", "finite">>, <<"finite", "neginf">>}
  ELSE {<<"neginf", "inf">>, <<"finite", "inf">>, <<"neginf", "finite">>}

TruePairs(op) ==
  CASE op = ">" -> {<<"inf", "neginf">>, <<"inf", "finite">>, <<"finite", "neginf">>}
    [] op = ">=" -> {<<"inf", "neginf">>, <<"inf", "inf">>, <<"inf", "finite">>,
                     <<"finite", "neginf">>, <<"neginf", "neginf">>}
    [] op = "<" -> {<<"neginf", "inf">>, <<"finite", "inf">>, <<"neginf", "finite">>}
    [] op = "<=" -> {<<"neginf", "inf">>, <<"inf", "inf">>, <<"finite", "inf">>,
                     <<"neginf", "finite">>, <<"neginf", "neginf">>}

CompareReals(op, a, b) ==
  CASE op = "<" -> Below(a, b)
    [] op = ">" -> Below(b, a)
    [] op = "<=" -> ~Below(b, a)
    [] op = ">=" -> ~Below(a, b)

\* gt, ge, lt, le, and handle_eq, on operands of one sort
FormulaCompare(op, f, g) ==
  IF op = "==" THEN
    /\ "nan" \notin {f.class, g.class}
    /\ f.kind = g.kind /\ f.class = g.class /\ SameReal(f.real, g.real)
  ELSE IF IsFinite(f) /\ IsFinite(g) THEN CompareReals(op, f.real, g.real)
  ELSE /\ "nan" \notin {f.class, g.class}
       /\ <<f.class, g.class>> \in TruePairs(op)

\* The division of two formulas of sort int is that of SMT-LIB: the remainder is
\* not negative.
IntDivision(a, b) == IF b > 0 THEN a \div b ELSE -(a \div (-b))

\* handle_regular_op after both halves are converted
FormulaArith(op, f, g) ==
  IF f.kind = "float" THEN ExRealArith(op, f, g)
  ELSE IF op = "/" THEN Whole("int", IntDivision(f.real.num, g.real.num))
  ELSE Finite("int", OnReals(op, f.real, g.real))

FormulaFloorDiv(f, g) == Whole("int", Floor(Over(f.real, g.real)))
==================================================================================
