-------------------------- MODULE SymbolicValues_proof --------------------------
(***************************************************************************)
(* Formulas of symbolic values mean what Python computes, for any inputs:  *)
(* numbers, loops over range(), symbolic arrays, slices, files, lists and  *)
(* dicts.                                                                  *)
(***************************************************************************)
EXTENDS SymbolicNumbers, RangeLoops, SymbolicArray, SymbolicList, SymbolicDict, SymbolicFiles,
        SequenceTheorems, FiniteSetTheorems, TLAPS

----------------------------------------------------------------------------
(* Numbers: the formula is Python's number for any number of operations,   *)
(* as long as no input or constant is a negative infinity and no integer   *)
(* is divided by an integer with /.                                        *)

\* The kind of the result of an operation on two numbers.
ResultKind(k, l) == IF "float" \in {k, l} THEN "float" ELSE "int"

(* Fractions stay fractions. *)
LEMMA RealsAreFractions ==
  ASSUME NEW op \in {"+", "-", "*", "/"},
         NEW a \in [num : Int, den : Nat \ {0}], NEW b \in [num : Int, den : Nat \ {0}],
         op = "/" => b.num # 0
  PROVE  /\ OnReals(op, a, b) \in [num : Int, den : Nat \ {0}]
         /\ a.den = 1 /\ b.den = 1 /\ op # "/" => OnReals(op, a, b).den = 1
  <1>1. a.num * b.den \in Int /\ b.num * a.den \in Int /\ a.num * b.num \in Int
        /\ a.den * b.den \in Nat \ {0} /\ a.den * b.num \in Int
    OBVIOUS
  <1>2. op = "/" => a.den * b.num # 0
    OBVIOUS
  <1>3. a.den = 1 /\ b.den = 1 => a.den * b.den = 1
    OBVIOUS
  <1>4. CASE op = "+"
    BY <1>1, <1>3, <1>4 DEF OnReals, Plus, Fraction
  <1>5. CASE op = "-"
    BY <1>1, <1>3, <1>5 DEF OnReals, Minus, Fraction
  <1>6. CASE op = "*"
    BY <1>1, <1>3, <1>6 DEF OnReals, Times, Fraction
  <1>7. CASE op = "/"
    BY <1>1, <1>2, <1>7 DEF OnReals, Over, Fraction
  <1> QED
    BY <1>4, <1>5, <1>6, <1>7

(* A conversion to the common kind keeps the number, its kind apart. *)
LEMMA ConversionKeepsTheNumber ==
  ASSUME NEW x, IsNumber(x), NEW k \in Kinds, k = "int" => x.kind # "float",
         k = "bool" => x.kind = "bool"
  PROVE  /\ Narrowed(x, k) \in Number
         /\ Narrowed(x, k).kind = k
         /\ Narrowed(x, k).class = x.class
         /\ Narrowed(x, k).real = x.real
  <1>1. CASE x.kind = k
    BY <1>1 DEF Narrowed, IsNumber
  <1>2. CASE x.kind # k /\ k = "float"
    BY <1>2 DEF Narrowed, IsNumber, Number, Finite, Kinds, Classes
  <1>3. CASE x.kind # k /\ k = "int"
    <2>1. x.kind = "bool" /\ x.class = "finite" /\ x.real.den = 1 /\ x.real.num \in {0, 1}
      BY <1>3 DEF IsNumber, Number, Kinds
    <2>2. ToInt(x.real) = x.real.num
      BY <2>1 DEF ToInt, Floor
    <2>3. x.real = [num |-> x.real.num, den |-> 1]
      BY <2>1 DEF IsNumber, Number
    <2> QED
      BY <1>3, <2>1, <2>2, <2>3 DEF Narrowed, Whole, Finite, IsNumber, Number, Kinds, Classes
  <1>4. x.kind = k \/ (x.kind # k /\ k = "float") \/ (x.kind # k /\ k = "int")
    BY DEF Kinds
  <1> QED
    BY <1>1, <1>2, <1>3, <1>4

(* The tables of the formulas agree with IEEE 754, two negative infinities apart. *)
LEMMA TablesAgree ==
  ASSUME NEW op \in {"+", "-", "*"}, NEW x, NEW y, IsNumber(x), IsNumber(y),
         x.class # "finite" \/ y.class # "finite", x.class # "neginf" \/ y.class # "neginf"
  PROVE  ExRealArith(op, x, y) = PySpecial(op, x, y)
  <1>1. x.class \in Classes /\ y.class \in Classes /\ x.real.num \in Int /\ y.real.num \in Int
    BY DEF IsNumber, Number
  <1>2. x.class = "finite" => Row(x) = Sign(x.real) /\ Row(x) \in Reals /\ Signum(x) = Row(x)
    BY <1>1 DEF Row, Sign, Reals, Signum, IsFinite
  <1>3. y.class = "finite" => Row(y) = Sign(y.real) /\ Row(y) \in Reals /\ Signum(y) = Row(y)
    BY <1>1 DEF Row, Sign, Reals, Signum, IsFinite
  <1>4. x.class # "finite" => Row(x) = x.class /\ Signum(x) = IF x.class = "inf" THEN "pos" ELSE "neg"
    BY DEF Row, Signum, IsFinite
  <1>5. y.class # "finite" => Row(y) = y.class /\ Signum(y) = IF y.class = "inf" THEN "pos" ELSE "neg"
    BY DEF Row, Signum, IsFinite
  <1>6. CASE "nan" \in {x.class, y.class}
    BY <1>6 DEF ExRealArith, PySpecial, IsFinite
  <1>7. CASE "nan" \notin {x.class, y.class}
    <2>1. ~(IsFinite(x) /\ IsFinite(y))
      BY DEF IsFinite
    <2>2. CASE op = "+"
      BY <1>1, <1>2, <1>3, <1>4, <1>5, <1>7, <2>1, <2>2
         DEF ExRealArith, PySpecial, ToInf, ToNegInf, ToZero, Reals, Infinity, IsInfinite, Classes, IsFinite
    <2>3. CASE op = "-"
      BY <1>1, <1>2, <1>3, <1>4, <1>5, <1>7, <2>1, <2>3
         DEF ExRealArith, PySpecial, ToInf, ToNegInf, ToZero, Reals, Infinity, IsInfinite, Classes, IsFinite, Opposite
    <2>4. CASE op = "*"
      BY <1>1, <1>2, <1>3, <1>4, <1>5, <1>7, <2>1, <2>4
         DEF ExRealArith, PySpecial, ToInf, ToNegInf, ToZero, Reals, Infinity, IsInfinite, Classes, IsFinite
    <2> QED
      BY <2>2, <2>3, <2>4
  <1> QED
    BY <1>6, <1>7

(* Results are numbers. *)
LEMMA SpecialIsANumber ==
  ASSUME NEW c \in {"nan", "inf", "neginf"}
  PROVE  IsNumber(Special(c)) /\ Special(c).kind = "float"
  BY DEF Special, IsNumber, Number, Kinds, Classes, Zero

(* So are finite ones, of either kind. *)
LEMMA FiniteIsANumber ==
  ASSUME NEW kind \in {"int", "float"}, NEW real \in [num : Int, den : Nat \ {0}],
         kind = "int" => real.den = 1
  PROVE  IsNumber(Finite(kind, real)) /\ Finite(kind, real).kind = kind
  BY DEF Finite, IsNumber, Number, Kinds, Classes

(* And what the tables give. *)
LEMMA PySpecialIsANumber ==
  ASSUME NEW op \in {"+", "-", "*"}, NEW x, NEW y
  PROVE  IsNumber(PySpecial(op, x, y)) /\ PySpecial(op, x, y).kind = "float"
  <1>1. \E c \in {"nan", "inf", "neginf"} : PySpecial(op, x, y) = Special(c)
    BY DEF PySpecial, Infinity
  <1> QED
    BY <1>1, SpecialIsANumber

(* handle_regular_op computes Python's result. *)
LEMMA ArithmeticAgrees ==
  ASSUME NEW op \in {"+", "-", "*"}, NEW x, NEW y, IsNumber(x), IsNumber(y),
         x.class # "neginf" \/ y.class # "neginf",
         NEW k, k = CommonKind(x.kind, y.kind)
  PROVE  /\ FormulaArith(op, Narrowed(x, k), Narrowed(y, k)) = PyArith(op, x, y)
         /\ IsNumber(PyArith(op, x, y))
         /\ PyArith(op, x, y).kind = ResultKind(x.kind, y.kind)
  <1>1. x.kind \in Kinds /\ y.kind \in Kinds
        /\ x.real \in [num : Int, den : Nat \ {0}] /\ y.real \in [num : Int, den : Nat \ {0}]
    BY DEF IsNumber, Number
  <1>2. /\ k \in Kinds
        /\ k = "int" => x.kind # "float" /\ y.kind # "float"
        /\ k = "bool" => x.kind = "bool" /\ y.kind = "bool"
        /\ k = "float" <=> "float" \in {x.kind, y.kind}
    BY <1>1 DEF CommonKind, Kinds
  <1> DEFINE f == Narrowed(x, k)
             g == Narrowed(y, k)
  <1>3. /\ f \in Number /\ f.kind = k /\ f.class = x.class /\ f.real = x.real
        /\ g \in Number /\ g.kind = k /\ g.class = y.class /\ g.real = y.real
    BY <1>2, ConversionKeepsTheNumber
  <1>4. /\ OnReals(op, x.real, y.real) \in [num : Int, den : Nat \ {0}]
        /\ x.real.den = 1 /\ y.real.den = 1 => OnReals(op, x.real, y.real).den = 1
    BY <1>1, RealsAreFractions
  <1> HIDE DEF f, g
  <1>5. CASE k # "float"
    <2>1. x.class = "finite" /\ y.class = "finite" /\ x.real.den = 1 /\ y.real.den = 1
      BY <1>2, <1>5 DEF IsNumber
    <2>2. PyArith(op, x, y) = Finite("int", OnReals(op, x.real, y.real))
      BY <1>2, <1>5, <2>1 DEF PyArith, Floating, IsFinite
    <2>3. FormulaArith(op, f, g) = Finite("int", OnReals(op, x.real, y.real))
      BY <1>3, <1>5 DEF FormulaArith
    <2> QED
      BY <1>2, <1>4, <1>5, <2>1, <2>2, <2>3, FiniteIsANumber DEF ResultKind, f, g
  <1>6. CASE k = "float"
    <2>1. FormulaArith(op, f, g) = ExRealArith(op, f, g)
      BY <1>3, <1>6 DEF FormulaArith
    <2>2. ResultKind(x.kind, y.kind) = "float"
      BY <1>2, <1>6 DEF ResultKind
    <2>3. CASE x.class = "finite" /\ y.class = "finite"
      <3>1. PyArith(op, x, y) = Finite("float", OnReals(op, x.real, y.real))
        BY <1>2, <1>6, <2>3 DEF PyArith, Floating, IsFinite
      <3>2. ExRealArith(op, f, g) = Finite("float", OnReals(op, x.real, y.real))
        BY <1>3, <2>3 DEF ExRealArith, IsFinite
      <3> QED
        BY <1>4, <2>1, <2>2, <3>1, <3>2, FiniteIsANumber DEF f, g
    <2>4. CASE x.class # "finite" \/ y.class # "finite"
      <3>1. PyArith(op, x, y) = PySpecial(op, x, y)
        BY <2>4 DEF PyArith, IsFinite
      <3>2. ExRealArith(op, f, g) = ExRealArith(op, x, y)
        BY <1>3, <2>4 DEF ExRealArith, IsFinite, Row
      <3> QED
        BY <2>1, <2>2, <2>4, <3>1, <3>2, TablesAgree, PySpecialIsANumber DEF f, g
    <2> QED
      BY <2>3, <2>4
  <1> QED
    BY <1>5, <1>6

(* A division of a float by an integer that is not zero. *)
LEMMA DivisionAgrees ==
  ASSUME NEW x, NEW y, IsNumber(x), IsNumber(y), x.kind = "float", y.kind # "float",
         y.real.num # 0, NEW k, k = CommonKind(x.kind, y.kind)
  PROVE  /\ FormulaArith("/", Narrowed(x, k), Narrowed(y, k)) = PyArith("/", x, y)
         /\ IsNumber(PyArith("/", x, y))
         /\ PyArith("/", x, y).kind = "float"
  <1>1. /\ x.kind \in Kinds /\ y.kind \in Kinds /\ x.class \in Classes /\ y.class = "finite"
        /\ x.real \in [num : Int, den : Nat \ {0}] /\ y.real \in [num : Int, den : Nat \ {0}]
    BY DEF IsNumber, Number
  <1>2. k = "float"
    BY DEF CommonKind
  <1> DEFINE f == Narrowed(x, k)
             g == Narrowed(y, k)
  <1>3. /\ f.kind = "float" /\ f.class = x.class /\ f.real = x.real
        /\ g.kind = "float" /\ g.class = y.class /\ g.real = y.real
    BY <1>2, ConversionKeepsTheNumber DEF Kinds
  <1>4. OnReals("/", x.real, y.real) \in [num : Int, den : Nat \ {0}]
    BY <1>1, RealsAreFractions
  <1> HIDE DEF f, g
  <1>5. FormulaArith("/", f, g) = ExRealArith("/", f, g)
    BY <1>3 DEF FormulaArith
  <1>6. CASE x.class = "finite"
    <2>1. PyArith("/", x, y) = Finite("float", OnReals("/", x.real, y.real))
      BY <1>1, <1>6 DEF PyArith, IsFinite
    <2>2. ExRealArith("/", f, g) = Finite("float", OnReals("/", x.real, y.real))
      BY <1>1, <1>3, <1>6 DEF ExRealArith, IsFinite
    <2> QED
      BY <1>4, <1>5, <2>1, <2>2, FiniteIsANumber DEF f, g
  <1>7. CASE x.class # "finite"
    <2>1. PyArith("/", x, y) = PySpecial("/", x, y)
      BY <1>7 DEF PyArith, IsFinite
    <2>2. Row(g) = Sign(y.real) /\ Signum(y) = Sign(y.real) /\ Sign(y.real) \in {"neg", "pos"}
      BY <1>1, <1>3 DEF Row, Signum, Sign, IsFinite
    <2>3. Row(f) = x.class /\ Signum(x) = IF x.class = "inf" THEN "pos" ELSE "neg"
      BY <1>3, <1>7 DEF Row, Signum, IsFinite
    <2>4. \E c \in {"nan", "inf", "neginf"} :
             PySpecial("/", x, y) = Special(c) /\ ExRealArith("/", f, g) = Special(c)
      BY <1>1, <1>3, <1>7, <2>2, <2>3
         DEF PySpecial, ExRealArith, ToInf, ToNegInf, ToZero, Reals, Infinities, Infinity, IsInfinite,
             IsFinite, Classes
    <2> QED
      BY <1>5, <2>1, <2>4, SpecialIsANumber DEF f, g
  <1> QED
    BY <1>6, <1>7

(* Integers and booleans keep Python's quotient. *)
LEMMA FloorDivisionAgrees ==
  ASSUME NEW x, NEW y, IsNumber(x), IsNumber(y), x.kind # "float", y.kind # "float",
         y.real.num # 0, NEW k, k = CommonKind(x.kind, y.kind)
  PROVE  /\ FormulaFloorDiv(Narrowed(x, k), Narrowed(y, k)) = PyFloorDiv(x, y)
         /\ IsNumber(PyFloorDiv(x, y))
         /\ PyFloorDiv(x, y).kind = "int"
  <1>1. /\ x.kind \in Kinds /\ y.kind \in Kinds
        /\ x.real \in [num : Int, den : Nat \ {0}] /\ y.real \in [num : Int, den : Nat \ {0}]
    BY DEF IsNumber, Number
  <1>2. k \in Kinds /\ k # "float" /\ (k = "bool" => x.kind = "bool" /\ y.kind = "bool")
    BY <1>1 DEF CommonKind, Kinds
  <1>3. Narrowed(x, k).real = x.real /\ Narrowed(y, k).real = y.real
    BY <1>2, ConversionKeepsTheNumber
  <1>4. Over(x.real, y.real) \in [num : Int, den : Nat \ {0}]
    BY <1>1, RealsAreFractions DEF OnReals
  <1>5. Floor(Over(x.real, y.real)) \in Int
    BY <1>4 DEF Floor
  <1>6. [num |-> Floor(Over(x.real, y.real)), den |-> 1] \in [num : Int, den : Nat \ {0}]
    BY <1>5
  <1> QED
    BY <1>3, <1>6, FiniteIsANumber DEF FormulaFloorDiv, PyFloorDiv, Whole

(* Comparisons, NaNs and infinities included. *)
LEMMA ComparisonsAgree ==
  ASSUME NEW op \in {"<", "<=", ">", ">=", "=="}, NEW x, NEW y, IsNumber(x), IsNumber(y),
         NEW k, k = CommonKind(x.kind, y.kind)
  PROVE  FormulaCompare(op, Narrowed(x, k), Narrowed(y, k)) <=> PyCompare(op, x, y)
  <1>1. /\ x.kind \in Kinds /\ y.kind \in Kinds /\ x.class \in Classes /\ y.class \in Classes
        /\ x.real.num \in Int /\ x.real.den \in Int /\ y.real.num \in Int /\ y.real.den \in Int
    BY DEF IsNumber, Number
  <1>2. /\ k \in Kinds
        /\ k = "int" => x.kind # "float" /\ y.kind # "float"
        /\ k = "bool" => x.kind = "bool" /\ y.kind = "bool"
    BY <1>1 DEF CommonKind, Kinds
  <1> DEFINE f == Narrowed(x, k)
             g == Narrowed(y, k)
             l == x.real.num * y.real.den
             r == y.real.num * x.real.den
  <1>3. /\ f.kind = k /\ f.class = x.class /\ f.real = x.real
        /\ g.kind = k /\ g.class = y.class /\ g.real = y.real
    BY <1>2, ConversionKeepsTheNumber
  <1>4. l \in Int /\ r \in Int
    BY <1>1
  <1> HIDE DEF f, g
  <1>5. CASE op = "=="
    BY <1>3, <1>5 DEF f, g, FormulaCompare, PyCompare, PyEqual
  <1>6. CASE op # "==" /\ x.class = "finite" /\ y.class = "finite"
    <2>1. FormulaCompare(op, f, g) <=> CompareReals(op, x.real, y.real)
      BY <1>3, <1>6 DEF FormulaCompare, IsFinite
    <2>2. /\ Below(x.real, y.real) <=> l < r
          /\ Below(y.real, x.real) <=> r < l
          /\ SameReal(x.real, y.real) <=> l = r
      BY DEF Below, SameReal
    <2>3. /\ PyLess(x, y) <=> l < r
          /\ PyLess(y, x) <=> r < l
          /\ PyEqual(x, y) <=> l = r
      BY <1>6, <2>2 DEF PyLess, PyEqual, IsFinite
    <2> HIDE DEF l, r
    <2>4. CompareReals(op, x.real, y.real) <=> PyCompare(op, x, y)
      BY <1>4, <1>6, <2>2, <2>3 DEF CompareReals, PyCompare
    <2> QED
      BY <2>1, <2>4 DEF f, g
  <1>7. CASE op # "==" /\ (x.class # "finite" \/ y.class # "finite")
    <2>1. x.class = y.class => SameReal(x.real, y.real)
      BY <1>7 DEF IsNumber, SameReal, Zero
    <2>2. FormulaCompare(op, f, g) <=> ("nan" \notin {x.class, y.class} /\ <<x.class, y.class>> \in TruePairs(op))
      BY <1>3, <1>7 DEF FormulaCompare, IsFinite
    <2>3. ("nan" \notin {x.class, y.class} /\ <<x.class, y.class>> \in TruePairs(op)) <=> PyCompare(op, x, y)
      BY <1>1, <1>7, <2>1 DEF TruePairs, PyCompare, PyLess, PyEqual, IsFinite, Classes
    <2> QED
      BY <2>2, <2>3 DEF f, g
  <1> QED
    BY <1>5, <1>6, <1>7

(* int() and float(). *)
LEMMA IntAgrees ==
  ASSUME NEW x, IsNumber(x), x.class = "finite"
  PROVE  /\ Narrowed(x, "int") = PyInt(x)
         /\ IsNumber(PyInt(x))
         /\ PyInt(x).kind = "int"
  <1>1. x.kind \in Kinds /\ x.real \in [num : Int, den : Nat \ {0}] /\ x \in Number
    BY DEF IsNumber, Number
  <1>2. Floor(x.real) \in Int /\ Floor(Negated(x.real)) \in Int
    BY <1>1 DEF Floor, Negated
  <1>3. PyInt(x) = Whole("int", ToInt(x.real))
    BY <1>1, <1>2 DEF PyInt, ToInt
  <1>4. [num |-> ToInt(x.real), den |-> 1] \in [num : Int, den : Nat \ {0}]
    BY <1>1, <1>2 DEF ToInt
  <1>5. IsNumber(PyInt(x)) /\ PyInt(x).kind = "int"
    BY <1>3, <1>4, FiniteIsANumber DEF Whole
  <1>6. CASE x.kind # "int"
    BY <1>3, <1>5, <1>6 DEF Narrowed
  <1>7. CASE x.kind = "int"
    <2>1. x.real.den = 1
      BY <1>7 DEF IsNumber
    <2>2. ToInt(x.real) = x.real.num
      BY <1>1, <2>1 DEF ToInt, Floor, Negated
    <2>3. x.real = [num |-> x.real.num, den |-> 1]
      BY <1>1, <2>1
    <2>4. x = [kind |-> x.kind, class |-> x.class, real |-> x.real]
      BY <1>1 DEF Number
    <2> QED
      BY <1>3, <1>5, <1>7, <2>2, <2>3, <2>4 DEF Narrowed, Whole, Finite
  <1> QED
    BY <1>6, <1>7

(* float() changes the kind and nothing else. *)
LEMMA FloatAgrees ==
  ASSUME NEW x, IsNumber(x)
  PROVE  /\ Narrowed(x, "float") = [x EXCEPT !.kind = "float"]
         /\ IsNumber([x EXCEPT !.kind = "float"])
         /\ [x EXCEPT !.kind = "float"].kind = "float"
  <1>1. x \in Number
    BY DEF IsNumber
  <1>2. x = [kind |-> x.kind, class |-> x.class, real |-> x.real]
    BY <1>1 DEF Number
  <1>3. [x EXCEPT !.kind = "float"] = [kind |-> "float", class |-> x.class, real |-> x.real]
    BY <1>1 DEF Number
  <1>4. x.kind # "float" => x.class = "finite"
    BY DEF IsNumber
  <1>5. Narrowed(x, "float") = [kind |-> "float", class |-> x.class, real |-> x.real]
    BY <1>2, <1>4 DEF Narrowed, Finite
  <1>6. IsNumber([kind |-> "float", class |-> x.class, real |-> x.real])
    BY <1>1 DEF IsNumber, Number, Kinds
  <1> QED
    BY <1>3, <1>5, <1>6

----------------------------------------------------------------------------------
(* The invariant: on the inputs of the path on which int() has not raised, formula *)
(* and value are one number, of one kind on all of them.                           *)

AgreesAt(i) ==
  python[i] # NotFinite =>
    IsNumber(python[i]) /\ formula[i] = python[i] /\ python[i].kind = python[arg].kind

NumberInv ==
  /\ DOMAIN python \subseteq {i \in Inputs : i.kind = arg.kind}
  /\ arg \in DOMAIN python
  /\ class \subseteq DOMAIN python
  /\ pyPath \subseteq DOMAIN python
  /\ running => /\ arg \in class
                /\ ~Raised(python[arg])
                /\ pyPath = {i \in class : python[i] # NotFinite}
                /\ \A i \in class : AgreesAt(i)

(* What int() or a division raised is no number. *)
LEMMA RaisedIsNoNumber ==
  ASSUME NEW x, IsNumber(x)
  PROVE  x # NotFinite /\ ~Raised(x)
  <1>1. x.class \in Classes
    BY DEF IsNumber, Number
  <1>2. NotFinite.class = "raised"
    BY DEF NotFinite, Exception
  <1> QED
    BY <1>1, <1>2 DEF Classes, Raised

(* The argument is its own formula. *)
LEMMA NumberInitInv == NumberInit => NumberInv
  <1> SUFFICES ASSUME NumberInit PROVE NumberInv
    OBVIOUS
  <1>1. arg \in class /\ class \subseteq Inputs /\ DOMAIN python = class /\ pyPath = class
        /\ \A i \in class : i.kind = arg.kind /\ python[i] = i /\ formula[i] = i
    BY DEF NumberInit
  <1>2. \A i \in class : IsNumber(i) /\ i # NotFinite /\ ~Raised(i)
    BY <1>1, NumbersAssumption, RaisedIsNoNumber
  <1> QED
    BY <1>1, <1>2 DEF NumberInv, AgreesAt

(* Operands: both halves are one number, of the kind the run has for them. *)
LEMMA OperandsAgree ==
  ASSUME NumberInv, running, NEW o \in {Value, X} \cup Literals, NEW i \in class, python[i] # NotFinite
  PROVE  /\ IsNumber(At(python, o, i))
         /\ At(formula, o, i) = At(python, o, i)
         /\ At(python, o, i).kind = KindOf(o)
         /\ o # Value => At(python, o, i) \in Inputs \cup Literals
  <1>1. Value # X
    BY DEF Value, X
  <1>2. CASE o = Value
    BY <1>1, <1>2 DEF At, KindOf, NumberInv, AgreesAt
  <1>3. CASE o = X
    <2>1. At(python, o, i) = i /\ At(formula, o, i) = i /\ KindOf(o) = arg.kind
      BY <1>1, <1>3 DEF At, KindOf
    <2>2. i \in Inputs /\ i.kind = arg.kind
      BY DEF NumberInv
    <2> QED
      BY <2>1, <2>2, NumbersAssumption
  <1>4. CASE o \in Literals
    <2>1. IsNumber(o)
      BY <1>4, NumbersAssumption
    <2>2. o # Value /\ o # X
      BY <2>1 DEF IsNumber, Number, Kinds, Value, X
    <2> QED
      BY <1>4, <2>1, <2>2 DEF At, KindOf
  <1> QED
    BY <1>2, <1>3, <1>4

(* A computation keeps the invariant when it gives a number of one kind to both halves, *)
(* or raises as int() does, and leaves the path only where it raises otherwise.        *)
LEMMA ComputedKeepsInv ==
  ASSUME NumberInv, running, arg' = arg, DOMAIN python' = DOMAIN python, class' \subseteq class,
         running' = ~Raised(python'[arg]),
         pyPath' = {i \in pyPath : Raised(python'[i]) = Raised(python'[arg])},
         NEW kind,
         \A i \in class' : python[i] = NotFinite => python'[i] = NotFinite,
         \A i \in class' : python[i] # NotFinite =>
           \/ python'[i] = NotFinite
           \/ IsNumber(python'[i]) /\ formula'[i] = python'[i] /\ python'[i].kind = kind,
         running' => arg \in class' /\ \A i \in class \ class' : python[i] # NotFinite => Raised(python'[i])
  PROVE  NumberInv'
  <1>1. Raised(NotFinite)
    BY DEF Raised, NotFinite, Exception
  <1>2. DOMAIN python' \subseteq {i \in Inputs : i.kind = arg'.kind} /\ arg' \in DOMAIN python'
        /\ class' \subseteq DOMAIN python' /\ pyPath' \subseteq DOMAIN python'
    BY DEF NumberInv
  <1>3. ASSUME running'
        PROVE  /\ arg' \in class' /\ ~Raised(python'[arg'])
               /\ pyPath' = {i \in class' : python'[i] # NotFinite}
               /\ \A i \in class' : AgreesAt(i)'
    <2>1. arg \in class' /\ ~Raised(python'[arg])
      BY <1>3
    <2>2. pyPath = {i \in class : python[i] # NotFinite}
      BY DEF NumberInv
    <2>3. \A i \in class' : python'[i] # NotFinite =>
            ~Raised(python'[i]) /\ python[i] # NotFinite /\ IsNumber(python'[i])
            /\ formula'[i] = python'[i] /\ python'[i].kind = kind
      BY RaisedIsNoNumber
    <2>4. pyPath' = {i \in class : python[i] # NotFinite /\ ~Raised(python'[i])}
      BY <2>1, <2>2 DEF Raised
    <2>5. \A i \in class : python[i] # NotFinite /\ ~Raised(python'[i]) => i \in class' /\ python'[i] # NotFinite
      BY <1>1, <1>3
    <2>6. pyPath' = {i \in class' : python'[i] # NotFinite}
      <3>1. \A i \in pyPath' : i \in class' /\ python'[i] # NotFinite
        BY <2>4, <2>5
      <3>2. \A i \in class' : python'[i] # NotFinite => i \in class /\ python[i] # NotFinite /\ ~Raised(python'[i])
        BY <2>3
      <3>3. \A i \in class' : python'[i] # NotFinite => i \in pyPath'
        BY <2>4, <3>2
      <3> QED
        BY <3>1, <3>3
    <2>7. python'[arg].kind = kind
      BY <1>1, <2>1, <2>3
    <2>8. \A i \in class' : AgreesAt(i)'
      BY <2>3, <2>7 DEF AgreesAt
    <2> QED
      BY <2>1, <2>6, <2>8
  <1> QED
    BY <1>2, <1>3 DEF NumberInv

(* What the invariant says of one input of the path. *)
LEMMA PathsNumbers ==
  ASSUME NumberInv, running, NEW i \in class
  PROVE  /\ i \in DOMAIN python
         /\ python[i] = NotFinite => Raised(python[i])
         /\ python[i] # NotFinite => ~Raised(python[i]) /\ IsNumber(python[i]) /\ formula[i] = python[i]
                                    /\ python[i].kind = python[arg].kind
  <1>1. i \in DOMAIN python /\ AgreesAt(i)
    BY DEF NumberInv
  <1>2. Raised(NotFinite)
    BY DEF Raised, NotFinite, Exception
  <1> QED
    BY <1>1, <1>2, RaisedIsNoNumber DEF AgreesAt

(* + - * *)
LEMMA ArithmeticKeepsInv ==
  ASSUME NumberInv, running, NEW op \in {"+", "-", "*"}, NEW p \in OperandPairs, Arithmetic(op, p[1], p[2]),
         \A x \in Inputs \cup Literals : x.class # "neginf"
  PROVE  NumberInv'
  <1> DEFINE l == p[1]
             r == p[2]
             k == CommonKind(KindOf(l), KindOf(r))
             py(i) == PyArith(op, At(python, l, i), At(python, r, i))
             smt(i) == FormulaArith(op, Converted(l, l, r, i), Converted(r, l, r, i))
             kind == ResultKind(KindOf(l), KindOf(r))
  <1>1. l \in {Value, X} \cup Literals /\ r \in {Value, X} \cup Literals /\ (l # Value \/ r # Value)
    <2>1. \A x \in Literals : x # Value
      BY NumbersAssumption DEF IsNumber, Number, Kinds, Value
    <2> QED
      BY <2>1 DEF OperandPairs, Value, X
  <1>2. /\ arg' = arg /\ class' = class
        /\ python' = [i \in DOMAIN python |-> IF Raised(python[i]) THEN python[i] ELSE py(i)]
        /\ formula' = [i \in class' |-> smt(i)]
        /\ running' = ~Raised(python'[arg])
        /\ pyPath' = {i \in pyPath : Raised(python'[i]) = Raised(python'[arg])}
    BY DEF Arithmetic, Compute
  <1>3. ASSUME NEW i \in class, python[i] # NotFinite
        PROVE  IsNumber(py(i)) /\ smt(i) = py(i) /\ py(i).kind = kind
    <2>1. /\ IsNumber(At(python, l, i)) /\ At(formula, l, i) = At(python, l, i)
          /\ At(python, l, i).kind = KindOf(l) /\ (l # Value => At(python, l, i) \in Inputs \cup Literals)
      BY <1>1, <1>3, OperandsAgree
    <2>2. /\ IsNumber(At(python, r, i)) /\ At(formula, r, i) = At(python, r, i)
          /\ At(python, r, i).kind = KindOf(r) /\ (r # Value => At(python, r, i) \in Inputs \cup Literals)
      BY <1>1, <1>3, OperandsAgree
    <2>3. At(python, l, i).class # "neginf" \/ At(python, r, i).class # "neginf"
      BY <1>1, <2>1, <2>2
    <2>4. PICK x, y : x = At(python, l, i) /\ y = At(python, r, i)
      OBVIOUS
    <2>5. /\ FormulaArith(op, Narrowed(x, k), Narrowed(y, k)) = PyArith(op, x, y)
          /\ IsNumber(PyArith(op, x, y)) /\ PyArith(op, x, y).kind = kind
      BY <2>1, <2>2, <2>3, <2>4, ArithmeticAgrees
    <2> QED
      BY <2>1, <2>2, <2>4, <2>5 DEF Converted
  <1> HIDE DEF py, smt, kind
  <1>4. \A i \in class' : python[i] = NotFinite => python'[i] = NotFinite
    BY <1>2, PathsNumbers
  <1>5. \A i \in class' : python[i] # NotFinite =>
          IsNumber(python'[i]) /\ formula'[i] = python'[i] /\ python'[i].kind = kind
    BY <1>2, <1>3, PathsNumbers
  <1>6. arg \in class' /\ class' \subseteq class /\ DOMAIN python' = DOMAIN python
    BY <1>2 DEF NumberInv
  <1> QED
    BY <1>2, <1>4, <1>5, <1>6, ComputedKeepsInv

(* / and //, after their branch on the denominator. *)
LEMMA DivisionKeepsInv ==
  ASSUME NumberInv, running, NEW op \in {"/", "//"}, NEW p \in OperandPairs, Division(op, p[1], p[2]),
         DividesIntegers = FALSE
  PROVE  NumberInv'
  <1> DEFINE l == p[1]
             r == p[2]
             k == CommonKind(KindOf(l), KindOf(r))
             zero(i) == At(python, r, i).real.num = 0
             py(i) == IF op = "/" THEN PyArith(op, At(python, l, i), At(python, r, i))
                      ELSE PyFloorDiv(At(python, l, i), At(python, r, i))
             smt(i) == IF op = "/" THEN FormulaArith(op, Converted(l, l, r, i), Converted(r, l, r, i))
                       ELSE FormulaFloorDiv(Converted(l, l, r, i), Converted(r, l, r, i))
             kind == IF op = "/" THEN "float" ELSE "int"
  <1>1. l \in {Value, X} \cup Literals /\ r \in {Value, X} \cup Literals
    BY DEF OperandPairs
  <1>2. /\ arg' = arg /\ class' = SameZero(r)
        /\ python' = [i \in DOMAIN python |->
                        IF Raised(python[i]) THEN python[i] ELSE IF zero(i) THEN DividedByZero ELSE py(i)]
        /\ formula' = [i \in class' |-> IF ~NonZero(r, i) THEN formula[i] ELSE smt(i)]
        /\ running' = ~Raised(python'[arg])
        /\ pyPath' = {i \in pyPath : Raised(python'[i]) = Raised(python'[arg])}
    BY DEF Division, Compute
  <1>3. KindOf(r) # "float" /\ (op = "/" => KindOf(l) = "float") /\ (op = "//" => KindOf(l) # "float")
    BY DEF Division
  <1>4. ASSUME NEW i \in class, python[i] # NotFinite
        PROVE  /\ NonZero(r, i) <=> ~zero(i)
               /\ ~zero(i) => IsNumber(py(i)) /\ smt(i) = py(i) /\ py(i).kind = kind
    <2>1. /\ IsNumber(At(python, l, i)) /\ At(formula, l, i) = At(python, l, i)
          /\ At(python, l, i).kind = KindOf(l)
      BY <1>1, <1>4, OperandsAgree
    <2>2. /\ IsNumber(At(python, r, i)) /\ At(formula, r, i) = At(python, r, i)
          /\ At(python, r, i).kind = KindOf(r)
      BY <1>1, <1>4, OperandsAgree
    <2>3. NonZero(r, i) <=> ~zero(i)
      BY <2>2 DEF NonZero, Narrowed
    <2>4. PICK x, y : x = At(python, l, i) /\ y = At(python, r, i)
      OBVIOUS
    <2>5. CASE op = "/" /\ ~zero(i)
      <3>1. /\ FormulaArith("/", Narrowed(x, k), Narrowed(y, k)) = PyArith("/", x, y)
            /\ IsNumber(PyArith("/", x, y)) /\ PyArith("/", x, y).kind = "float"
        BY <1>3, <2>1, <2>2, <2>4, <2>5, DivisionAgrees
      <3> QED
        BY <2>1, <2>2, <2>3, <2>4, <2>5, <3>1 DEF Converted
    <2>6. CASE op = "//" /\ ~zero(i)
      <3>1. /\ FormulaFloorDiv(Narrowed(x, k), Narrowed(y, k)) = PyFloorDiv(x, y)
            /\ IsNumber(PyFloorDiv(x, y)) /\ PyFloorDiv(x, y).kind = "int"
        BY <1>3, <2>1, <2>2, <2>4, <2>6, FloorDivisionAgrees
      <3> QED
        BY <2>1, <2>2, <2>3, <2>4, <2>6, <3>1 DEF Converted
    <2> QED
      BY <2>3, <2>5, <2>6
  <1> HIDE DEF py, smt, kind, zero
  <1>5. Raised(DividedByZero)
    BY DEF Raised, DividedByZero, Exception
  <1>6. class' \subseteq class /\ arg \in class /\ DOMAIN python' = DOMAIN python
        /\ \A i \in class : i \in class' <=> (NonZero(r, i) <=> NonZero(r, arg))
    BY <1>2 DEF NumberInv, SameZero, NonZero
  <1>7. \A i \in class' : python[i] = NotFinite => python'[i] = NotFinite
    BY <1>2, <1>6, PathsNumbers
  <1>8. CASE zero(arg)
    <2>1. ~Raised(python[arg]) /\ python[arg] # NotFinite /\ arg \in DOMAIN python
      BY PathsNumbers DEF NumberInv
    <2>2. ~running'
      BY <1>2, <1>5, <1>8, <2>1
    <2> QED
      BY <1>2, <1>6, <2>2 DEF NumberInv
  <1>9. CASE ~zero(arg)
    <2>1. python[arg] # NotFinite
      BY <1>6, PathsNumbers DEF NumberInv
    <2>2. NonZero(r, arg)
      BY <1>4, <1>6, <1>9, <2>1
    <2>3. \A i \in class' : python[i] # NotFinite =>
            IsNumber(python'[i]) /\ formula'[i] = python'[i] /\ python'[i].kind = kind
      BY <1>2, <1>4, <1>6, <2>2, PathsNumbers
    <2>4. arg \in class' /\ \A i \in class \ class' : python[i] # NotFinite => Raised(python'[i])
      BY <1>2, <1>4, <1>5, <1>6, <2>2, PathsNumbers
    <2> QED
      BY <1>2, <1>6, <1>7, <2>3, <2>4, ComputedKeepsInv
  <1> QED
    BY <1>8, <1>9

(* int() and float() of the value. *)
LEMMA ConversionsKeepInv ==
  ASSUME NumberInv, running, ConvertToInt \/ ConvertToFloat
  PROVE  NumberInv'
  <1>1. arg \in class /\ python[arg] # NotFinite /\ ~Raised(python[arg])
    BY PathsNumbers DEF NumberInv
  <1>2. CASE ConvertToInt
    <2>1. /\ arg' = arg /\ class' = class
          /\ python' = [i \in DOMAIN python |-> IF Raised(python[i]) THEN python[i]
                         ELSE IF IsFinite(python[i]) THEN PyInt(python[i]) ELSE NotFinite]
          /\ formula' = [i \in class' |-> Narrowed(formula[i], "int")]
          /\ running' = ~Raised(python'[arg])
          /\ pyPath' = {i \in pyPath : Raised(python'[i]) = Raised(python'[arg])}
      BY <1>2 DEF ConvertToInt, Compute
    <2>2. \A i \in class' : python[i] = NotFinite => python'[i] = NotFinite
      BY <2>1, PathsNumbers
    <2>3. ASSUME NEW i \in class', python[i] # NotFinite
          PROVE  \/ python'[i] = NotFinite
                 \/ IsNumber(python'[i]) /\ formula'[i] = python'[i] /\ python'[i].kind = "int"
      <3>1. /\ i \in DOMAIN python /\ ~Raised(python[i]) /\ IsNumber(python[i])
            /\ formula[i] = python[i]
        BY <2>1, <2>3, PathsNumbers
      <3>2. CASE IsFinite(python[i])
        BY <2>1, <3>1, <3>2, IntAgrees DEF IsFinite
      <3> QED
        BY <2>1, <3>1, <3>2
    <2> QED
      BY <1>1, <2>1, <2>2, <2>3, ComputedKeepsInv
  <1>3. CASE ConvertToFloat
    <2>1. /\ arg' = arg /\ class' = class
          /\ python' = [i \in DOMAIN python |-> IF Raised(python[i]) THEN python[i]
                         ELSE [python[i] EXCEPT !.kind = "float"]]
          /\ formula' = [i \in class' |-> Narrowed(formula[i], "float")]
          /\ running' = ~Raised(python'[arg])
          /\ pyPath' = {i \in pyPath : Raised(python'[i]) = Raised(python'[arg])}
      BY <1>3 DEF ConvertToFloat, Compute
    <2>2. \A i \in class' : python[i] = NotFinite => python'[i] = NotFinite
      BY <2>1, PathsNumbers
    <2>3. ASSUME NEW i \in class', python[i] # NotFinite
          PROVE  IsNumber(python'[i]) /\ formula'[i] = python'[i] /\ python'[i].kind = "float"
      <3>1. /\ i \in DOMAIN python /\ ~Raised(python[i]) /\ IsNumber(python[i])
            /\ formula[i] = python[i]
        BY <2>1, <2>3, PathsNumbers
      <3> QED
        BY <2>1, <3>1, FloatAgrees
    <2> QED
      BY <1>1, <2>1, <2>2, <2>3, ComputedKeepsInv
  <1> QED
    BY <1>2, <1>3

(* Both comparisons are true or false, whatever is compared. *)
LEMMA ComparisonsAreBoolean ==
  ASSUME NEW op \in {"<", "<=", ">", ">=", "=="}, NEW f, NEW g
  PROVE  FormulaCompare(op, f, g) \in BOOLEAN /\ PyCompare(op, f, g) \in BOOLEAN
  <1>1. /\ PyLess(f, g) \in BOOLEAN /\ PyLess(g, f) \in BOOLEAN /\ PyEqual(f, g) \in BOOLEAN
        /\ Below(f.real, g.real) \in BOOLEAN /\ Below(g.real, f.real) \in BOOLEAN
    BY DEF PyLess, PyEqual, Below
  <1>2. PyCompare(op, f, g) \in BOOLEAN
    BY <1>1 DEF PyCompare
  <1>3. op # "==" => CompareReals(op, f.real, g.real) \in BOOLEAN
    BY <1>1 DEF CompareReals
  <1> QED
    BY <1>2, <1>3 DEF FormulaCompare

(* if l op r *)
LEMMA BranchKeepsInv ==
  ASSUME NumberInv, running, NEW op \in {"<", "<=", ">", ">=", "=="}, NEW p \in OperandPairs,
         Branch(op, p[1], p[2])
  PROVE  NumberInv'
  <1> DEFINE l == p[1]
             r == p[2]
             k == CommonKind(KindOf(l), KindOf(r))
             true(i) == FormulaCompare(op, Converted(l, l, r, i), Converted(r, l, r, i))
             pyTrue(i) == PyCompare(op, At(python, l, i), At(python, r, i))
  <1>1. l \in {Value, X} \cup Literals /\ r \in {Value, X} \cup Literals
    BY DEF OperandPairs
  <1>2. /\ arg' = arg /\ python' = python /\ running' = running
        /\ class' = {i \in class : true(i) = pyTrue(arg)}
        /\ pyPath' = {i \in pyPath : pyTrue(i) = pyTrue(arg)}
        /\ formula' = [i \in class' |-> formula[i]]
    BY DEF Branch
  <1>3. ASSUME NEW i \in class, python[i] # NotFinite
        PROVE  true(i) = pyTrue(i)
    <2>1. /\ IsNumber(At(python, l, i)) /\ At(formula, l, i) = At(python, l, i)
          /\ At(python, l, i).kind = KindOf(l)
      BY <1>1, <1>3, OperandsAgree
    <2>2. /\ IsNumber(At(python, r, i)) /\ At(formula, r, i) = At(python, r, i)
          /\ At(python, r, i).kind = KindOf(r)
      BY <1>1, <1>3, OperandsAgree
    <2>3. PICK x, y : x = At(python, l, i) /\ y = At(python, r, i)
      OBVIOUS
    <2>4. FormulaCompare(op, Narrowed(x, k), Narrowed(y, k)) <=> PyCompare(op, x, y)
      BY <2>1, <2>2, <2>3, ComparisonsAgree
    <2>5. /\ FormulaCompare(op, Narrowed(x, k), Narrowed(y, k)) \in BOOLEAN
          /\ PyCompare(op, x, y) \in BOOLEAN
      BY ComparisonsAreBoolean
    <2>6. FormulaCompare(op, Narrowed(x, k), Narrowed(y, k)) = PyCompare(op, x, y)
      BY <2>4, <2>5
    <2> QED
      BY <2>1, <2>2, <2>3, <2>6 DEF Converted
  <1> HIDE DEF true, pyTrue
  <1>4. arg \in class /\ python[arg] # NotFinite /\ ~Raised(python[arg])
        /\ pyPath = {i \in class : python[i] # NotFinite} /\ \A i \in class : AgreesAt(i)
    BY PathsNumbers DEF NumberInv
  <1>5. arg \in class' /\ class' \subseteq class /\ pyPath' \subseteq pyPath
    BY <1>2, <1>3, <1>4
  <1>6. pyPath' = {i \in class' : python[i] # NotFinite}
    <2>1. \A i \in pyPath' : i \in class' /\ python[i] # NotFinite
      BY <1>2, <1>3, <1>4
    <2>2. \A i \in class' : python[i] # NotFinite => i \in pyPath'
      BY <1>2, <1>3, <1>4
    <2> QED
      BY <2>1, <2>2
  <1>7. \A i \in class' : AgreesAt(i)'
    BY <1>2, <1>4, <1>5 DEF AgreesAt
  <1> QED
    BY <1>2, <1>4, <1>5, <1>6, <1>7 DEF NumberInv

(* On every input of the path the formula is Python's number and the branches are Python's *)
(* (NumbersArePythons): what handle_regular_op, handle_int, handle_float and  *)
(* handle_eq build for the solver is what Python computes, for any numbers but negative     *)
(* infinities and as long as / does not divide integers.                                    *)
THEOREM FormulasAreRight ==
  ASSUME \A x \in Inputs \cup Literals : x.class # "neginf", DividesIntegers = FALSE
  PROVE  NumberSpec => []NumbersArePythons
  <1>1. NumberInv => NumbersArePythons
    BY DEF NumberInv, AgreesAt, NumbersArePythons, FormulaIsPythons, PathIsPythons
  <1>2. NumberInv /\ [NumberNext]_numberVars => NumberInv'
    <2> SUFFICES ASSUME NumberInv, [NumberNext]_numberVars PROVE NumberInv'
      OBVIOUS
    <2>1. CASE Operation
      <3>1. running
        BY <2>1 DEF Operation
      <3>2. \/ \E p \in OperandPairs :
                 \/ \E op \in {"+", "-", "*"} : Arithmetic(op, p[1], p[2])
                 \/ \E op \in {"/", "//"} : Division(op, p[1], p[2])
                 \/ \E op \in {"<", "<=", ">", ">=", "=="} : Branch(op, p[1], p[2])
            \/ ConvertToInt \/ ConvertToFloat
        BY <2>1 DEF Operation
      <3> QED
        BY <3>1, <3>2, ArithmeticKeepsInv, DivisionKeepsInv, BranchKeepsInv, ConversionsKeepInv
    <2>2. CASE UNCHANGED numberVars
      BY <2>2 DEF numberVars, NumberInv, AgreesAt, Raised
    <2> QED
      BY <2>1, <2>2 DEF NumberNext
  <1> QED
    BY <1>1, <1>2, NumberInitInv, PTL DEF NumberSpec

----------------------------------------------------------------------------
(* A loop over range() yields the formulas of Python's values.  *)

LoopFormula == [RangeInput -> Int]

\* What __next__ relies on: while the loop runs, starting_value is Python's next value
\* on every input, not only on the one that runs.
LoopInv ==
  /\ call \in RangeCall /\ given \in RangeInput /\ samePath \subseteq RangeInput
  /\ begin \in LoopFormula /\ yields \in Seq(LoopFormula)
  /\ loop \in {"new", "iterating", "ended"}
  /\ \E k \in DOMAIN call : call[k].symbolic
  /\ loop = "new" => yields = <<>>
  /\ loop = "iterating" =>
       \A i \in RangeInput : begin[i] = PyStart.value[i] + Len(yields) * Stride.value[i]

RangeInv == LoopInv /\ YieldsAreTheRange

\* The arguments of a call, its start, end and stride are integers on every input.
LEMMA ArgumentTypes ==
  ASSUME call \in RangeCall
  PROVE  /\ Len(call) \in 1 .. 3 /\ DOMAIN call = 1 .. Len(call)
         /\ \A k \in DOMAIN call : call[k] \in Argument
         /\ \A i \in RangeInput :
              PyStart.value[i] \in Int /\ EndValue.value[i] \in Int /\ Stride.value[i] \in Int
  <1>1. call \in Seq(Argument) /\ Len(call) \in 1 .. 3
    BY RangeCallAssumption
  <1>2. DOMAIN call = 1 .. Len(call) /\ \A k \in DOMAIN call : call[k] \in Argument
    BY <1>1
  <1>3. 1 \in DOMAIN call /\ (Len(call) # 1 => 2 \in DOMAIN call) /\ (Len(call) = 3 => 3 \in DOMAIN call)
    BY <1>1, <1>2
  <1>4. \A k \in DOMAIN call : \A i \in RangeInput : call[k].value[i] \in Int
    BY <1>2 DEF Argument
  <1>5. \A n \in Int : \A i \in RangeInput : Literal(n).value[i] = n
    BY DEF Literal
  <1> QED
    BY <1>1, <1>2, <1>3, <1>4, <1>5 DEF PyStart, EndValue, Stride, Three

\* capture_symbolic_iterator hides a literal start in a formula of the end, which
\* cancels.
LEMMA StartIsPythons ==
  ASSUME call \in RangeCall
  PROVE  StartingValue \in LoopFormula /\ \A i \in RangeInput : StartingValue[i] = PyStart.value[i]
  <1>1. Len(call) \in 1 .. 3 /\ \A k \in DOMAIN call : call[k] \in Argument
    BY ArgumentTypes
  <1>2. 1 \in DOMAIN call /\ (Len(call) > 1 => 2 \in DOMAIN call)
    BY ArgumentTypes
  <1>3. \A k \in DOMAIN call : call[k].value \in LoopFormula
    BY <1>1 DEF Argument, LoopFormula
  <1>4. CASE Len(call) = 1
    BY <1>4 DEF StartingValue, PyStart, Literal, LoopFormula
  <1>5. CASE Len(call) > 1 /\ ~call[1].symbolic /\ call[2].symbolic
    <2>1. \A i \in RangeInput : call[2].value[i] \in Int /\ call[1].value[i] \in Int
      BY <1>2, <1>3, <1>5 DEF LoopFormula
    <2>2. StartingValue = [i \in RangeInput |-> call[2].value[i] - (call[2].value[i] - call[1].value[i])]
      BY <1>5 DEF StartingValue
    <2>3. PyStart = call[1]
      BY <1>5 DEF PyStart
    <2> QED
      BY <2>1, <2>2, <2>3 DEF LoopFormula
  <1>6. CASE Len(call) > 1 /\ ~(~call[1].symbolic /\ call[2].symbolic)
    <2>1. StartingValue = call[1].value /\ PyStart = call[1]
      BY <1>6 DEF StartingValue, PyStart
    <2> QED
      BY <2>1, <1>2, <1>3
  <1> QED
    BY <1>1, <1>4, <1>5, <1>6

\* The recorded branch separates the inputs whose loop runs from the others; a branch on
\* the stride alone separates nothing, and then start and end are the same for all.
LEMMA BranchDecidesTheLoop ==
  ASSUME call \in RangeCall, NEW i \in RangeInput, NEW j \in RangeInput, Recorded(i) = Recorded(j)
  PROVE  ContinueLoop(PyStart.value, i) <=> ContinueLoop(PyStart.value, j)
  <1>1. /\ Len(call) \in 1 .. 3 /\ \A k \in DOMAIN call : call[k] \in Argument
        /\ 1 \in DOMAIN call /\ (Len(call) > 1 => 2 \in DOMAIN call)
    BY ArgumentTypes
  <1>2. \A k \in RangeInput : PyStart.value[k] \in Int /\ EndValue.value[k] \in Int
    BY ArgumentTypes
  <1>3. CASE call[1].symbolic \/ (Len(call) > 1 /\ call[2].symbolic)
    <2>1. SkipsBody(i) <=> SkipsBody(j)
      BY <1>3 DEF Recorded, SkipsBody
    <2> QED
      BY <1>2, <2>1 DEF SkipsBody, ContinueLoop
  <1>4. CASE ~call[1].symbolic /\ (Len(call) > 1 => ~call[2].symbolic)
    <2>1. PyStart.value[i] = PyStart.value[j]
      BY <1>1, <1>4 DEF PyStart, Argument, Literal
    <2>2. EndValue.value[i] = EndValue.value[j]
      BY <1>1, <1>4 DEF EndValue, Argument
    <2> QED
      BY <2>1, <2>2 DEF ContinueLoop
  <1> QED
    BY <1>3, <1>4

\* One stride more.
LEMMA OneStrideMore == \A n \in Nat, s \in Int : (n + 1) * s = n * s + s
  <1> QED
    OBVIOUS

\* Nothing is yielded before the loop starts.
LEMMA RangeInitInv == LoopInit => RangeInv
  <1> SUFFICES ASSUME LoopInit PROVE RangeInv
    OBVIOUS
  <1>1. begin \in LoopFormula /\ yields = <<>> /\ yields \in Seq(LoopFormula)
    BY EmptySeq DEF LoopInit, LoopFormula
  <1>2. LoopInv
    BY <1>1 DEF LoopInit, LoopInv
  <1>3. YieldsAreTheRange
    BY <1>1 DEF LoopInit, YieldsAreTheRange
  <1> QED
    BY <1>2, <1>3 DEF RangeInv

\* The start of the loop and each of its steps.
LEMMA RangeNextInv == RangeInv /\ [LoopNext]_loopVars => RangeInv'
  <1> SUFFICES ASSUME RangeInv, [LoopNext]_loopVars PROVE RangeInv'
    OBVIOUS
  <1> USE DEF RangeInv
  <1>0. /\ call \in RangeCall /\ given \in RangeInput
        /\ Len(yields) \in Nat /\ DOMAIN yields = 1 .. Len(yields)
    BY DEF LoopInv
  <1>1. \A i \in RangeInput :
          PyStart.value[i] \in Int /\ EndValue.value[i] \in Int /\ Stride.value[i] \in Int
    BY <1>0, ArgumentTypes
  <1>2. CASE Iter
    <2>1. /\ loop = "new" /\ loop' = "iterating" /\ yields = <<>> /\ yields' = <<>>
          /\ call' = call /\ given' = given /\ begin' = StartingValue
          /\ samePath' = {i \in RangeInput : Recorded(i) = Recorded(given)}
      BY <1>2 DEF Iter, LoopInv
    <2>2. PyStart' = PyStart /\ Stride' = Stride /\ EndValue' = EndValue
      BY <2>1 DEF PyStart, Stride, EndValue, Three
    <2>3. begin' \in LoopFormula /\ \A i \in RangeInput : begin'[i] = PyStart.value[i]
      BY <1>0, <2>1, StartIsPythons
    <2>4. Len(yields') = 0 /\ DOMAIN yields' = {}
      BY <2>1
    <2>5. \A i \in RangeInput : begin'[i] = PyStart.value[i] + 0 * Stride.value[i]
      BY <1>1, <2>3
    <2>6. LoopInv'
      BY <2>1, <2>2, <2>3, <2>4, <2>5 DEF LoopInv
    <2>7. \A i \in samePath' : ContinueLoop(PyStart.value, i) <=> ContinueLoop(PyStart.value, given)
      BY <1>0, <2>1, BranchDecidesTheLoop
    <2>8. YieldsAreTheRange'
      BY <2>1, <2>2, <2>4, <2>7 DEF YieldsAreTheRange, ContinueLoop
    <2> QED
      BY <2>6, <2>8
  <1>3. CASE NextValue
    <2>1. /\ loop = "iterating" /\ begin' = Advanced
          /\ call' = call /\ given' = given /\ samePath' = samePath
      BY <1>3 DEF NextValue
    <2>2. PyStart' = PyStart /\ Stride' = Stride /\ EndValue' = EndValue
      BY <2>1 DEF PyStart, Stride, EndValue, Three
    <2>3. /\ begin \in LoopFormula /\ yields \in Seq(LoopFormula)
          /\ \A i \in RangeInput : begin[i] = PyStart.value[i] + Len(yields) * Stride.value[i]
      BY <2>1 DEF LoopInv
    <2>4. begin' \in LoopFormula /\ \A i \in RangeInput : begin'[i] = begin[i] + Stride.value[i]
      BY <1>1, <2>1, <2>3 DEF Advanced, LoopFormula
    <2>5. /\ \A n \in DOMAIN yields : \A i \in RangeInput :
               yields[n][i] = PyStart.value[i] + (n - 1) * Stride.value[i]
          /\ \A n \in DOMAIN yields : yields[n][given] < EndValue.value[given]
          /\ \A i \in samePath : ContinueLoop(PyStart.value, i) <=> ContinueLoop(PyStart.value, given)
      BY <2>1 DEF YieldsAreTheRange
    <2>6. CASE ContinueLoop(Current, given) /\ Len(yields) <= MaxLoopIterations
      <3>1. yields' = Append(yields, begin) /\ loop' = "iterating"
        BY <1>3, <2>1, <2>6 DEF NextValue, Current
      <3>2. /\ yields' \in Seq(LoopFormula) /\ Len(yields') = Len(yields) + 1
            /\ DOMAIN yields' = 1 .. Len(yields) + 1
            /\ \A n \in 1 .. Len(yields) : yields'[n] = yields[n]
            /\ yields'[Len(yields) + 1] = begin
        BY <2>3, <3>1, AppendProperties
      <3>3. \A i \in RangeInput : begin'[i] = PyStart.value[i] + (Len(yields) + 1) * Stride.value[i]
        <4> SUFFICES ASSUME NEW i \in RangeInput
                     PROVE  begin'[i] = PyStart.value[i] + (Len(yields) + 1) * Stride.value[i]
          OBVIOUS
        <4>1. (Len(yields) + 1) * Stride.value[i] = Len(yields) * Stride.value[i] + Stride.value[i]
          BY <1>0, <1>1, OneStrideMore
        <4>2. Len(yields) * Stride.value[i] \in Int
          BY <1>0, <1>1
        <4> QED
          BY <1>1, <2>3, <2>4, <4>1, <4>2
      <3>4. LoopInv'
        BY <2>1, <2>2, <2>4, <3>1, <3>2, <3>3 DEF LoopInv
      <3>5. \A n \in DOMAIN yields' : \A i \in RangeInput :
              yields'[n][i] = PyStart.value[i] + (n - 1) * Stride.value[i]
        <4> SUFFICES ASSUME NEW n \in DOMAIN yields', NEW i \in RangeInput
                     PROVE  yields'[n][i] = PyStart.value[i] + (n - 1) * Stride.value[i]
          OBVIOUS
        <4>1. CASE n = Len(yields) + 1
          <5>1. n - 1 = Len(yields)
            BY <1>0, <4>1
          <5> QED
            BY <2>3, <3>2, <4>1, <5>1
        <4>2. CASE n # Len(yields) + 1
          <5>1. n \in 1 .. Len(yields)
            BY <1>0, <3>2, <4>2
          <5> QED
            BY <1>0, <2>5, <3>2, <5>1
        <4> QED
          BY <4>1, <4>2
      <3>6. \A n \in DOMAIN yields' : yields'[n][given] < EndValue.value[given]
        BY <1>0, <2>5, <2>6, <3>2 DEF ContinueLoop, Current
      <3> QED
        BY <2>1, <2>2, <2>5, <3>1, <3>4, <3>5, <3>6 DEF YieldsAreTheRange, ContinueLoop
    <2>7. CASE ~(ContinueLoop(Current, given) /\ Len(yields) <= MaxLoopIterations)
      <3>1. yields' = yields /\ loop' = "ended"
        BY <1>3, <2>7 DEF NextValue
      <3>2. LoopInv'
        BY <2>1, <2>2, <2>3, <2>4, <3>1 DEF LoopInv
      <3>3. Len(yields) <= MaxLoopIterations =>
              PyStart.value[given] + Len(yields) * Stride.value[given] >= EndValue.value[given]
        <4> HAVE Len(yields) <= MaxLoopIterations
        <4>1. ~(begin[given] < EndValue.value[given])
          BY <2>7 DEF ContinueLoop, Current
        <4>2. begin[given] \in Int /\ EndValue.value[given] \in Int
          BY <1>0, <1>1, <2>3 DEF LoopFormula
        <4>3. begin[given] >= EndValue.value[given]
          BY <4>1, <4>2
        <4> QED
          BY <1>0, <2>3, <4>3
      <3> QED
        BY <2>1, <2>2, <2>5, <3>1, <3>2, <3>3 DEF YieldsAreTheRange, ContinueLoop
    <2> QED
      BY <2>6, <2>7
  <1>4. CASE UNCHANGED loopVars
    <2>1. LoopInv'
      BY <1>4 DEF loopVars, LoopInv, PyStart, Stride, Three
    <2>2. YieldsAreTheRange'
      BY <1>4 DEF loopVars, YieldsAreTheRange, PyStart, EndValue, Stride, Three, ContinueLoop
    <2> QED
      BY <2>1, <2>2
  <1> QED
    BY <1>2, <1>3, <1>4 DEF LoopNext

\* Without a branch per iteration, each value of the loop is still the formula of Python's
\* value on every input, and the one branch decides for all inputs of the path whether the
\* body runs: for any arguments with integer values.
THEOREM YieldsAreRight == LoopSpec => []YieldsAreTheRange
  <1>1. RangeInv => YieldsAreTheRange
    BY DEF RangeInv
  <1> QED
    BY <1>1, RangeInitInv, RangeNextInv, PTL DEF LoopSpec

----------------------------------------------------------------------------
(* The formulas that Array.get returns, for any array and writes.  *)

ArrayWrite == [key : SymIndex, value : SymElem]

HitsIn(log, s, x) == {k \in DOMAIN log : log[k].key[s] = x}

\* The last write of the log to position x, for input s, wrote what arr holds there.
LastIs(log, s, x, arr) ==
  \E k \in HitsIn(log, s, x) :
    log[k].value[s] = arr[x] /\ \A j \in HitsIn(log, s, x) : j <= k

\* The log is right about every position it mentions.
LogSound(log, arrays) ==
  \A s \in Input, x \in Index : HitsIn(log, s, x) # {} => LastIs(log, s, x, arrays[s])

\* Positions the log does not mention were never written.
LogComplete(log, arrays) ==
  \A s \in Input, x \in Index : HitsIn(log, s, x) = {} => arrays[s][x] = base[s][x]

\* Dropping the oldest write leaves the log right about what it still mentions.
LEMMA TailIsSound ==
  ASSUME NEW log \in Seq(ArrayWrite), NEW arrays, Len(log) # 0, LogSound(log, arrays)
  PROVE  LogSound(Tail(log), arrays)
  <1> PICK rest : rest = Tail(log)
    OBVIOUS
  <1>1. /\ Len(log) \in Nat /\ DOMAIN log = 1 .. Len(log) /\ DOMAIN rest = 1 .. (Len(log) - 1)
        /\ \A k \in DOMAIN rest : k + 1 \in DOMAIN log /\ rest[k] = log[k + 1]
    <2>1. log # <<>>
      BY EmptySeq
    <2>2. /\ rest \in Seq(ArrayWrite) /\ Len(rest) = Len(log) - 1
          /\ \A k \in 1 .. Len(rest) : rest[k] = log[k + 1]
      BY <2>1, HeadTailProperties
    <2> QED
      BY <2>2, LenProperties
  <1> SUFFICES ASSUME NEW s \in Input, NEW x \in Index, HitsIn(rest, s, x) # {}
               PROVE  LastIs(rest, s, x, arrays[s])
    BY DEF LogSound
  <1>2. \A k \in HitsIn(rest, s, x) : k \in Nat /\ k >= 1 /\ k + 1 \in HitsIn(log, s, x)
    BY <1>1 DEF HitsIn
  <1>3. PICK k \in HitsIn(log, s, x) :
          log[k].value[s] = arrays[s][x] /\ \A j \in HitsIn(log, s, x) : j <= k
    BY <1>2 DEF LogSound, LastIs
  <1>4. PICK j \in HitsIn(rest, s, x) : TRUE
    OBVIOUS
  <1>5. k \in Nat /\ k >= 2 /\ k <= Len(log)
    BY <1>1, <1>2, <1>3, <1>4 DEF HitsIn
  <1>6. k - 1 \in DOMAIN rest /\ rest[k - 1] = log[k]
    BY <1>1, <1>5
  <1>7. k - 1 \in HitsIn(rest, s, x)
    BY <1>6 DEF HitsIn
  <1>8. ASSUME NEW i \in HitsIn(rest, s, x) PROVE i <= k - 1
    <2>1. i \in Nat /\ i + 1 <= k
      BY <1>2, <1>3
    <2> QED
      BY <1>5, <2>1
  <1> QED
    BY <1>3, <1>6, <1>7, <1>8 DEF LastIs

\* The bound on the log is a number.
LEMMA LimitIsInt == TypeOK => limit \in Int
  BY WritesAssumption DEF TypeOK

\* Cutting the log back to its bound keeps the newest writes in order.
LEMMA BoundedIsSound ==
  ASSUME TypeOK, LogSound(writes, plain), limit # 0
  PROVE  /\ Bounded(writes) \in Seq(ArrayWrite) /\ LogSound(Bounded(writes), plain)
         /\ limit > 0 => Len(Bounded(writes)) < limit
         /\ limit < 0 => Bounded(writes) = writes
  <1>1. writes \in Seq(ArrayWrite) /\ Len(writes) \in Nat
    BY LenProperties DEF TypeOK, ArrayWrite
  <1>2. CASE Len(writes) = limit
    <2>1. Len(writes) # 0 /\ writes # <<>>
      BY <1>1, <1>2, EmptySeq
    <2>2. Tail(writes) \in Seq(ArrayWrite) /\ Len(Tail(writes)) = Len(writes) - 1
      BY <1>1, <2>1, HeadTailProperties
    <2> QED
      BY <1>1, <1>2, <2>1, <2>2, TailIsSound, LimitIsInt DEF Bounded
  <1>3. CASE Len(writes) # limit
    BY <1>1, <1>3, LimitIsInt DEF Bounded, TypeOK
  <1> QED
    BY <1>2, <1>3

\* Writing to every input's array, and to the log.
LEMMA AppendIsSound ==
  ASSUME NEW log \in Seq(ArrayWrite), NEW i \in SymIndex, NEW e \in SymElem,
         NEW before \in [Input -> Array], NEW after, LogSound(log, before),
         after = [s \in Input |-> [before[s] EXCEPT ![i[s]] = e[s]]]
  PROVE  /\ LogSound(Append(log, [key |-> i, value |-> e]), after)
         /\ LogComplete(log, before) => LogComplete(Append(log, [key |-> i, value |-> e]), after)
  <1> PICK w \in ArrayWrite : w = [key |-> i, value |-> e]
    BY DEF ArrayWrite
  <1> PICK longer : longer = Append(log, w)
    OBVIOUS
  <1>1. /\ Len(log) \in Nat /\ DOMAIN log = 1 .. Len(log)
        /\ DOMAIN longer = 1 .. (Len(log) + 1)
        /\ \A k \in DOMAIN log : k \in DOMAIN longer /\ longer[k] = log[k]
        /\ longer[Len(log) + 1] = w
    <2>1. longer \in Seq(ArrayWrite) /\ Len(longer) = Len(log) + 1
      BY AppendProperties
    <2>2. \A k \in 1 .. Len(log) : longer[k] = log[k]
      BY AppendProperties
    <2> QED
      BY <2>1, <2>2, LenProperties, AppendProperties
  <1> SUFFICES ASSUME NEW s \in Input, NEW x \in Index
               PROVE  /\ HitsIn(longer, s, x) # {} => LastIs(longer, s, x, after[s])
                      /\ LogComplete(log, before) /\ HitsIn(longer, s, x) = {} => after[s][x] = base[s][x]
    BY DEF LogSound, LogComplete
  <1>2. i[s] \in Index /\ before[s] \in Array
    BY DEF SymIndex
  <1>3. CASE i[s] = x
    <2>1. after[s][x] = e[s]
      BY <1>2, <1>3 DEF Array
    <2>2. Len(log) + 1 \in HitsIn(longer, s, x) /\ longer[Len(log) + 1].value[s] = e[s]
      BY <1>1, <1>3 DEF HitsIn
    <2>3. \A j \in HitsIn(longer, s, x) : j <= Len(log) + 1
      BY <1>1 DEF HitsIn
    <2> QED
      BY <2>1, <2>2, <2>3 DEF LastIs
  <1>4. CASE i[s] # x
    <2>1. after[s][x] = before[s][x]
      BY <1>2, <1>4 DEF Array
    <2>2. HitsIn(longer, s, x) = HitsIn(log, s, x)
      <3>1. Len(log) + 1 \notin HitsIn(longer, s, x)
        BY <1>1, <1>4 DEF HitsIn
      <3>2. \A k \in DOMAIN longer : k # Len(log) + 1 => k \in DOMAIN log
        BY <1>1
      <3> QED
        BY <1>1, <3>1, <3>2 DEF HitsIn
    <2>3. \A k \in HitsIn(log, s, x) : longer[k] = log[k]
      BY <1>1 DEF HitsIn
    <2> QED
      BY <2>1, <2>2, <2>3 DEF LogSound, LastIs, LogComplete
  <1> QED
    BY <1>3, <1>4

ArrayInv ==
  /\ TypeOK
  /\ concrete = plain[Ran]
  /\ LogSound(writes, plain)
  /\ limit < 0 => LogComplete(writes, plain)

\* A new array has an empty log.
LEMMA ArrayInitInv == ArrayInit => ArrayInv
  <1> SUFFICES ASSUME ArrayInit PROVE ArrayInv
    OBVIOUS
  <1>1. TypeOK
    BY RanAssumption, WritesAssumption, EmptySeq DEF ArrayInit, TypeOK
  <1>2. \A s \in Input, x \in Index : HitsIn(writes, s, x) = {}
    BY DEF ArrayInit, HitsIn
  <1> QED
    BY <1>1, <1>2 DEF ArrayInit, ArrayInv, LogSound, LogComplete

\* A write extends the log by what it wrote.
LEMMA ArrayNextInv == ArrayInv /\ [ArrayNext]_arrayVars => ArrayInv'
  <1> SUFFICES ASSUME ArrayInv, [ArrayNext]_arrayVars PROVE ArrayInv'
    OBVIOUS
  <1> USE DEF ArrayInv
  <1>1. CASE UNCHANGED arrayVars
    BY <1>1 DEF arrayVars, TypeOK, LogSound, LogComplete, HitsIn, LastIs
  <1>2. ASSUME NEW i \in SymIndex, NEW e \in SymElem, Set(i, e) PROVE ArrayInv'
    <2>1. /\ plain' = [s \in Input |-> [plain[s] EXCEPT ![i[s]] = e[s]]]
          /\ concrete' = [concrete EXCEPT ![i[Ran]] = e[Ran]]
          /\ base' = base /\ limit' = limit /\ sets' = sets + 1 /\ sets < MaxSets
      BY <1>2 DEF Set
    <2>2. plain \in [Input -> Array] /\ \A s \in Input : i[s] \in Index /\ e[s] \in Elem
      BY DEF TypeOK, SymIndex, SymElem
    <2>3. plain' \in [Input -> Array] /\ concrete' = plain'[Ran] /\ concrete' \in Array
      <3>1. \A s \in Input : [plain[s] EXCEPT ![i[s]] = e[s]] \in Array
        BY <2>2 DEF Array
      <3> QED
        BY <2>1, <2>2, <3>1, RanAssumption
    <2>4. sets' \in 0 .. MaxSets
      BY <2>1, WritesAssumption DEF TypeOK
    <2>5. CASE limit = 0
      <3>1. writes' = writes
        BY <1>2, <2>5 DEF Set
      <3>2. \A s \in Input, x \in Index : HitsIn(writes, s, x) = {}
        <4>1. writes \in Seq(ArrayWrite) /\ Len(writes) <= 0
          BY <2>5 DEF TypeOK, ArrayWrite
        <4> QED
          BY <4>1, LenProperties DEF HitsIn
      <3>3. TypeOK'
        BY <2>1, <2>3, <2>4, <3>1 DEF TypeOK
      <3> QED
        BY <2>1, <2>3, <2>5, <3>1, <3>2, <3>3 DEF LogSound
    <2>6. CASE limit # 0
      <3>1. PICK log : log = Bounded(writes)
        OBVIOUS
      <3>2. /\ log \in Seq(ArrayWrite) /\ LogSound(log, plain)
            /\ limit > 0 => Len(log) < limit
            /\ limit < 0 => log = writes
        BY <2>6, <3>1, BoundedIsSound
      <3>3. writes' = Append(log, [key |-> i, value |-> e])
        BY <1>2, <2>6, <3>1 DEF Set, SymbolicKey
      <3>4. LogSound(writes', plain') /\ (LogComplete(log, plain) => LogComplete(writes', plain'))
        <4>1. PICK longer : longer = Append(log, [key |-> i, value |-> e])
          OBVIOUS
        <4>2. PICK after : after = [s \in Input |-> [plain[s] EXCEPT ![i[s]] = e[s]]]
          OBVIOUS
        <4>3. LogSound(longer, after) /\ (LogComplete(log, plain) => LogComplete(longer, after))
          BY <2>2, <3>2, <4>1, <4>2, AppendIsSound
        <4> QED
          BY <2>1, <3>3, <4>1, <4>2, <4>3
      <3>5. LogComplete(writes', plain') => LogComplete(writes, plain)'
        BY <2>1 DEF LogComplete, HitsIn
      <3>6. TypeOK'
        <4>1. [key |-> i, value |-> e] \in ArrayWrite
          BY DEF ArrayWrite
        <4>2. writes' \in Seq(ArrayWrite) /\ Len(writes') = Len(log) + 1
          BY <3>2, <3>3, <4>1, AppendProperties
        <4>3. limit >= 0 => Len(writes') <= limit
          BY <2>1, <2>6, <3>2, <4>2, LimitIsInt, LenProperties
        <4> QED
          BY <2>1, <2>3, <2>4, <4>2, <4>3 DEF TypeOK, ArrayWrite
      <3> QED
        BY <2>1, <2>3, <3>2, <3>4, <3>5, <3>6 DEF LogSound, HitsIn, LastIs
    <2> QED
      BY <2>5, <2>6
  <1> QED
    BY <1>1, <1>2 DEF ArrayNext

\* A sound and complete log makes the formulas of reads right.
LEMMA ArrayInvMeansRead == ArrayInv => FormulaIsRead
  <1> SUFFICES ASSUME ArrayInv PROVE FormulaIsRead
    OBVIOUS
  <1>1. ASSUME NEW i \in SymIndex, NEW s \in Input, Hits(s, i[s]) # {}
        PROVE  Formula(s, i) = plain[s][i[s]]
    <2>1. i[s] \in Index /\ Hits(s, i[s]) = HitsIn(writes, s, i[s])
      BY DEF SymIndex, Hits, HitsIn
    <2>2. PICK k \in Hits(s, i[s]) :
            writes[k].value[s] = plain[s][i[s]] /\ \A j \in Hits(s, i[s]) : j <= k
      BY <1>1, <2>1 DEF ArrayInv, LogSound, LastIs
    <2>3. \A j \in Hits(s, i[s]) : j \in Nat
      BY LenProperties DEF ArrayInv, TypeOK, Hits
    <2>4. Winner(Hits(s, i[s])) = k
      <3>1. Winner(Hits(s, i[s])) \in Hits(s, i[s]) /\ \A j \in Hits(s, i[s]) : j <= Winner(Hits(s, i[s]))
        BY <2>2 DEF Winner
      <3> QED
        BY <2>2, <2>3, <3>1
    <2> QED
      BY <1>1, <2>2, <2>4 DEF Formula
  <1>2. ASSUME limit < 0, NEW i \in SymIndex, NEW s \in Input
        PROVE  Formula(s, i) = plain[s][i[s]]
    <2>1. i[s] \in Index /\ Hits(s, i[s]) = HitsIn(writes, s, i[s])
      BY DEF SymIndex, Hits, HitsIn
    <2>2. Hits(s, i[s]) = {} => plain[s][i[s]] = base[s][i[s]]
      BY <1>2, <2>1 DEF ArrayInv, LogComplete
    <2> QED
      BY <1>1, <2>2 DEF Formula
  <1> QED
    BY <1>1, <1>2, RanAssumption DEF ArrayInv, FormulaIsRead

\* Without a bound on the log, as configured, every read returns a formula that
\* is right for every input taking the path, and the concrete element of this run;
\* with any bound, a read of a position the log mentions does.
THEOREM ReadsAreRight == ArraySpec => [](TypeOK /\ FormulaIsRead)
  <1>1. ArrayInv => TypeOK /\ FormulaIsRead
    BY ArrayInvMeansRead DEF ArrayInv
  <1> QED
    BY <1>1, ArrayInitInv, ArrayNextInv, PTL DEF ArraySpec

----------------------------------------------------------------------------
(* Slices of strings and lists, for any sequences, bounds and inputs.      *)

\* The bounds of a slice are integers on every input.
LEMMA BoundTypes ==
  ASSUME slice \in [kind : {"str", "list"}, start : Bound, stop : Bound], NEW i \in SliceInput
  PROVE  /\ StartOf(i) \in Int /\ StopOf(i) \in Int /\ StopFormula(i) \in Int
         /\ i.seq \in Seq(Char) /\ Len(i.seq) \in Nat
  <1>1. i.seq \in Seq(Char) /\ i.start \in Int /\ i.stop \in Int
    BY SliceInputAssumption
  <1>2. Len(i.seq) \in Nat
    BY <1>1, LenProperties
  <1>3. slice.start \in Bound /\ slice.stop \in Bound
    OBVIOUS
  <1>4. StartOf(i) \in Int
    BY <1>1, <1>3, BoundAssumption DEF StartOf
  <1>5. StopOf(i) \in Int
    BY <1>1, <1>2, <1>3, BoundAssumption DEF StopOf
  <1> QED
    BY <1>1, <1>2, <1>4, <1>5 DEF StopFormula

\* The solver's substring, with the stop counted from the front, is Python's slice:
\* bounds past either end are clamped by both.
LEMMA SubStringIsSlice ==
  ASSUME NEW S, NEW s \in Seq(S), NEW start \in Nat, NEW stop \in Int
  PROVE  SubString(s, start, (IF stop >= 0 THEN stop ELSE stop + Len(s)) - start)
           = PySlice(s, start, stop)
  <1> DEFINE end == IF stop >= 0 THEN stop ELSE stop + Len(s)
             c == Clamped(stop, Len(s))
             b == Clamped(start, Len(s))
  <1>1. Len(s) \in Nat /\ end \in Int
    BY LenProperties
  <1>2. /\ c = IF end < 0 THEN 0 ELSE IF end > Len(s) THEN Len(s) ELSE end
        /\ b = IF start > Len(s) THEN Len(s) ELSE start
    BY <1>1 DEF Clamped
  <1>3. c \in Nat /\ b \in Nat
    BY <1>1, <1>2
  <1>4. CASE start < Len(s) /\ end > start
    <2>1. start \in 0 .. Len(s) - 1 /\ end - start > 0 /\ start + (end - start) = end
      BY <1>1, <1>4
    <2>2. b = start /\ c = IF end < Len(s) THEN end ELSE Len(s)
      BY <1>1, <1>2, <1>4
    <2> QED
      BY <2>1, <2>2 DEF SubString, PySlice
  <1>5. CASE ~(start < Len(s) /\ end > start)
    <2>1. ~(start \in 0 .. Len(s) - 1 /\ end - start > 0)
      BY <1>1, <1>5
    <2>2. c <= b
      BY <1>1, <1>2, <1>5
    <2>3. SubSeq(s, b + 1, c) = <<>>
      BY <1>1, <1>3, <2>2
    <2> QED
      BY <2>1, <2>3 DEF SubString, PySlice
  <1> QED
    BY <1>4, <1>5

\* The branch that was recorded holds for the whole path as it did for the run.
SliceInv ==
  /\ slice \in [kind : {"str", "list"}, start : Bound, stop : Bound]
  /\ owner \in SliceInput /\ slicePath \subseteq SliceInput /\ sliced \in BOOLEAN
  /\ sliced => \A i \in slicePath : Within(i) = Within(owner)

LEMMA SliceInitInv == SliceInit => SliceInv
  BY DEF SliceInit, SliceInv

LEMMA SliceNextInv == SliceInv /\ [SliceNext]_sliceVars => SliceInv'
  <1> SUFFICES ASSUME SliceInv, [SliceNext]_sliceVars PROVE SliceInv'
    OBVIOUS
  <1>1. CASE GetSlice
    <2>1. slice' = slice /\ owner' = owner /\ slicePath' \subseteq SliceInput /\ sliced' = TRUE
      BY <1>1 DEF GetSlice, SliceInv
    <2>2. \A i : Within(i)' = Within(i)
      BY <2>1 DEF Within, StopWithin, StopFormula, StopOf, StartOf
    <2>3. Within(owner)' = Within(owner)
      BY <2>1 DEF Within, StopWithin, StopFormula, StopOf, StartOf
    <2>4. \A i \in slicePath' : Within(i) = Within(owner)
      BY <1>1 DEF GetSlice
    <2> QED
      BY <2>1, <2>2, <2>3, <2>4 DEF SliceInv
  <1>2. CASE UNCHANGED sliceVars
    BY <1>2 DEF sliceVars, SliceInv, Within, StopWithin, StopFormula, StopOf, StartOf
  <1> QED
    BY <1>1, <1>2 DEF SliceNext

\* On the path of a run whose stop was inside its list, every stop is inside its list.
LEMMA SliceInvMeansPythons == SliceInv => SliceIsPythons
  <1> SUFFICES ASSUME SliceInv, sliced, NEW i \in slicePath, StartOf(i) >= 0
               PROVE  /\ slice.kind = "str" => StringFormula(i) = PythonSlice(i)
                      /\ slice.kind = "list" /\ StopOf(owner) \in 1 .. Len(owner.seq) /\ Constrained(i)
                           => ListFormula(i) = PythonSlice(i)
    BY DEF SliceIsPythons
  <1>1. /\ StartOf(i) \in Nat /\ StopOf(i) \in Int /\ StopFormula(i) \in Int
        /\ i.seq \in Seq(Char) /\ Len(i.seq) \in Nat
    BY BoundTypes DEF SliceInv
  <1>2. StringFormula(i) = PythonSlice(i)
    BY <1>1, SubStringIsSlice DEF StringFormula, PythonSlice, StopFormula
  <1>3. ASSUME StopOf(owner) \in 1 .. Len(owner.seq), Constrained(i)
        PROVE  ListFormula(i) = PythonSlice(i)
    <2>1. StopOf(owner) \in Int /\ Len(owner.seq) \in Nat /\ StopFormula(owner) \in Int
      BY BoundTypes DEF SliceInv
    <2>2. StopOf(owner) > 0 /\ StopFormula(owner) <= Len(owner.seq)
      BY <1>3, <2>1 DEF StopFormula
    <2>3. Within(owner) /\ Within(i)
      BY <2>1, <2>2 DEF Within, StopWithin, SliceInv
    <2>4. StopFormula(i) <= Len(i.seq)
      BY <1>1, <2>2, <2>3 DEF Within, StopWithin
    <2>5. StartOf(i) < StopFormula(i)
      BY <1>1, <1>3 DEF Constrained
    <2>6. Clamped(StartOf(i), Len(i.seq)) = StartOf(i) /\ Clamped(StopOf(i), Len(i.seq)) = StopFormula(i)
      BY <1>1, <2>4, <2>5 DEF Clamped, StopFormula
    <2>7. PythonSlice(i) = SubSeq(i.seq, StartOf(i) + 1, StopFormula(i))
      BY <2>6 DEF PythonSlice, PySlice
    <2>8. SubSeq(i.seq, StartOf(i) + 1, StopFormula(i))
            = [k \in 1 .. StopFormula(i) - StartOf(i) |-> i.seq[StartOf(i) + k]]
      BY <1>1, <2>4, <2>5
    <2>9. \A k \in 1 .. StopFormula(i) - StartOf(i) : StartOf(i) + k \in DOMAIN i.seq
      BY <1>1, <2>4, <2>5
    <2> QED
      BY <2>7, <2>8, <2>9 DEF ListFormula
  <1> QED
    BY <1>2, <1>3

\* The formula of a slice is Python's slice: of a string on every input whose start
\* is not negative, of a list on the path of a run that sliced inside its list.
THEOREM SlicesAreRight == SliceSpec => []SliceIsPythons
  <1>1. SliceInv /\ [SliceNext]_sliceVars => SliceInv'
    BY SliceNextInv
  <1> QED
    BY <1>1, SliceInitInv, SliceInvMeansPythons, PTL DEF SliceSpec

----------------------------------------------------------------------------
(* Files, for any contents.  *)

Less == OpToRel(<, Nat)

LEMMA LeastNat ==
  ASSUME NEW S, S \subseteq Nat, S # {}
  PROVE  \E x \in S : \A y \in S : x <= y
  <1>1. IsWellFoundedOn(Less, Nat)
    BY NatLessThanWellFounded DEF Less
  <1>2. \A x, y \in Nat : <<x, y>> \in Less <=> x < y
    BY DEF Less, OpToRel
  <1>3. PICK x \in S : \A y \in S : <<y, x>> \notin Less
    BY <1>1, WFMin
  <1>4. \A y \in S : y \in Nat /\ x \in Nat
    OBVIOUS
  <1>5. \A y \in S : ~(y < x)
    BY <1>2, <1>3, <1>4
  <1>6. \A y \in S : x <= y
    BY <1>4, <1>5
  <1> QED
    BY <1>3, <1>6

\* Find returns the first newline, one less than its place in the sequence, or -1.
LEMMA FindIsFirst ==
  ASSUME NEW S, NEW s \in Seq(S)
  PROVE  \/ Find(s) = -1 /\ \A k \in DOMAIN s : s[k] # Newline
         \/ /\ Find(s) + 1 \in DOMAIN s /\ s[Find(s) + 1] = Newline
            /\ \A k \in DOMAIN s : s[k] = Newline => Find(s) + 1 <= k
            /\ Find(s) \in Int /\ Find(s) >= 0
  <1> DEFINE places == {k \in DOMAIN s : s[k] = Newline}
             first == CHOOSE k \in places : \A j \in places : k <= j
  <1>1. DOMAIN s = 1 .. Len(s) /\ Len(s) \in Nat
    BY LenProperties
  <1>2. CASE places = {}
    BY <1>2 DEF Find
  <1>3. CASE places # {}
    <2>1. places \subseteq Nat
      BY <1>1
    <2>2. first \in places /\ \A j \in places : first <= j
      <3> HIDE DEF places
      <3> QED
        BY <1>3, <2>1, LeastNat
    <2>3. Find(s) = first - 1
      BY <1>3 DEF Find
    <2>4. first \in Int /\ first >= 1
      BY <1>1, <2>2
    <2> HIDE DEF first
    <2>5. Find(s) + 1 = first /\ Find(s) \in Int /\ Find(s) >= 0
      BY <2>3, <2>4
    <2> QED
      BY <2>2, <2>5
  <1> QED
    BY <1>2, <1>3

\* A sequence is what its first e elements and the others make together.
LEMMA PiecesJoin ==
  ASSUME NEW S, NEW s \in Seq(S), NEW line \in Seq(S), NEW rest \in Seq(S),
         NEW e \in Nat, e <= Len(s), Len(line) = e, Len(rest) = Len(s) - e,
         \A k \in 1 .. e : line[k] = s[k],
         \A k \in 1 .. Len(s) - e : rest[k] = s[e + k]
  PROVE  line \o rest = s
  <1>1. Len(s) \in Nat
    BY LenProperties
  <1>2. /\ line \o rest \in Seq(S) /\ Len(line \o rest) = Len(line) + Len(rest)
        /\ \A k \in 1 .. Len(line) + Len(rest) :
             (line \o rest)[k] = IF k <= Len(line) THEN line[k] ELSE rest[k - Len(line)]
    BY ConcatProperties
  <1>3. Len(line \o rest) = Len(s)
    BY <1>1, <1>2
  <1>4. \A k \in 1 .. Len(s) : (line \o rest)[k] = s[k]
    <2>1. TAKE k \in 1 .. Len(s)
    <2>2. CASE k <= e
      <3>1. k \in 1 .. e /\ k \in 1 .. Len(line) + Len(rest)
        BY <1>1, <2>2
      <3> QED
        BY <1>2, <2>2, <3>1
    <2>3. CASE ~(k <= e)
      <3>1. k - e \in 1 .. Len(s) - e /\ k \in 1 .. Len(line) + Len(rest) /\ e + (k - e) = k
        BY <1>1, <2>3
      <3> QED
        BY <1>2, <2>3, <3>1
    <2> QED
      BY <2>2, <2>3
  <1> QED
    BY <1>2, <1>3, <1>4, SeqEqual

\* readline splits what is left: a line, then the rest; if there is a rest, the line
\* ends at its newline, the only one in it.
LEMMA LineSplits ==
  ASSUME NEW S, NEW s \in Seq(S)
  PROVE  LET e == EndOfLine(s)
             line == SubString(s, 0, e)
             rest == SubString(s, e, Len(s))
         IN  /\ e \in 0 .. Len(s) /\ ConcreteEnd(s) = e
             /\ line \in Seq(S) /\ rest \in Seq(S) /\ line \o rest = s
             /\ rest # <<>> => EndsALine(line)
             /\ PySlice(s, 0, e) = line /\ PySlice(s, e, Len(s)) = rest
  <1> PICK e : e = EndOfLine(s)
    OBVIOUS
  <1> PICK length : length = Len(s)
    OBVIOUS
  <1>1. DOMAIN s = 1 .. length /\ length \in Nat
    BY LenProperties
  <1>2. ConcreteEnd(s) = e
    BY DEF ConcreteEnd, EndOfLine
  <1>3. /\ e \in Nat /\ e <= length /\ (length > 0 => e > 0)
        /\ e < length => e \in 1 .. length /\ s[e] = Newline /\ \A k \in 1 .. length : s[k] = Newline => e <= k
    <2>1. CASE Find(s) = -1
      BY <1>1, <2>1 DEF EndOfLine
    <2>2. CASE Find(s) # -1
      <3>1. /\ Find(s) + 1 \in 1 .. length /\ s[Find(s) + 1] = Newline
            /\ \A k \in 1 .. length : s[k] = Newline => Find(s) + 1 <= k
            /\ Find(s) \in Int /\ Find(s) >= 0
        BY <1>1, <2>2, FindIsFirst
      <3>2. e = Find(s) + 1
        BY <3>1 DEF EndOfLine
      <3> QED
        BY <1>1, <3>1, <3>2
    <2> QED
      BY <2>1, <2>2
  <1>4. SubString(s, 0, e) = SubSeq(s, 1, e)
    <2>1. CASE length = 0
      <3>1. e = 0 /\ 0 \notin 0 .. length - 1
        BY <1>1, <1>3, <2>1
      <3>2. SubString(s, 0, e) = <<>>
        BY <3>1 DEF SubString
      <3>3. SubSeq(s, 1, 0) = <<>>
        OBVIOUS
      <3> QED
        BY <3>1, <3>2, <3>3
    <2>2. CASE length > 0
      <3>1. 0 \in 0 .. length - 1 /\ e > 0 /\ 0 + e = e /\ 0 + 1 = 1
        BY <1>1, <1>3, <2>2
      <3>2. (IF 0 + e < length THEN 0 + e ELSE length) = e
        BY <1>1, <1>3
      <3>3. SubString(s, 0, e) = SubSeq(s, 0 + 1, IF 0 + e < length THEN 0 + e ELSE length)
        BY <3>1 DEF SubString
      <3> QED
        BY <3>1, <3>2, <3>3
    <2> QED
      BY <1>1, <2>1, <2>2
  <1>5. SubString(s, e, length) = SubSeq(s, e + 1, length)
    <2>1. CASE e < length
      <3>1. e \in 0 .. length - 1 /\ length > 0 /\ ~(e + length < length)
        BY <1>1, <1>3, <2>1
      <3> QED
        BY <3>1 DEF SubString
    <2>2. CASE e = length
      <3>1. e \notin 0 .. length - 1
        BY <1>1, <2>2
      <3>2. SubString(s, e, length) = <<>>
        BY <3>1 DEF SubString
      <3>3. SubSeq(s, e + 1, length) = <<>>
        BY <1>1, <2>2
      <3> QED
        BY <3>2, <3>3
    <2> QED
      BY <1>1, <1>3, <2>1, <2>2
  <1>6. PySlice(s, 0, e) = SubSeq(s, 1, e) /\ PySlice(s, e, length) = SubSeq(s, e + 1, length)
    <2>1. /\ Clamped(0, length) = 0 /\ Clamped(e, length) = e /\ Clamped(length, length) = length
          /\ 0 + 1 = 1
      BY <1>1, <1>3 DEF Clamped
    <2> QED
      BY <2>1, Zenon DEF PySlice
  <1>line. PICK line : line = SubSeq(s, 1, e)
    OBVIOUS
  <1>rest. PICK rest : rest = SubSeq(s, e + 1, length)
    OBVIOUS
  <1>7. /\ Len(line) = e /\ DOMAIN line = 1 .. e /\ \A k \in 1 .. e : line[k] = s[k]
        /\ line \in Seq(S)
    <2>1. 1 \in 1 .. length + 1 /\ e \in 1 - 1 .. length
      BY <1>1, <1>3
    <2> QED
      BY <1>1, <1>3, <1>line, <2>1
  <1>8. /\ rest \in Seq(S) /\ Len(rest) = length - e
        /\ \A k \in 1 .. length - e : rest[k] = s[e + k]
    BY <1>1, <1>3, <1>rest
  <1>9. line \o rest = s
    BY <1>1, <1>3, <1>7, <1>8, PiecesJoin
  <1>10. ASSUME rest # <<>> PROVE EndsALine(line)
    <2>1. e < length
      BY <1>1, <1>3, <1>8, <1>10, EmptySeq
    <2>2. line # <<>>
      BY <1>3, <1>7, <2>1
    <2>3. ASSUME NEW k \in 1 .. e PROVE line[k] = Newline <=> k = e
      <3>1. line[k] = s[k] /\ k \in 1 .. length
        BY <1>1, <1>3, <1>7
      <3>2. s[k] = Newline => e <= k
        BY <1>3, <2>1, <3>1
      <3>3. k \in Nat /\ k <= e
        BY <1>3
      <3> QED
        BY <1>3, <2>1, <3>1, <3>2, <3>3
    <2> QED
      BY <1>7, <2>2, <2>3 DEF EndsALine
  <1>11. SubString(s, 0, e) = line /\ SubString(s, e, Len(s)) = rest
    BY <1>4, <1>5, <1>line, <1>rest
  <1>12. PySlice(s, 0, e) = line /\ PySlice(s, e, Len(s)) = rest
    BY <1>6, <1>line, <1>rest
  <1>13. e \in 0 .. Len(s)
    BY <1>1, <1>3
  <1> QED
    BY <1>2, <1>7, <1>8, <1>9, <1>10, <1>11, <1>12, <1>13

\* What an open file keeps, on every contents it may have.
FileKept ==
  /\ handle.formula \in [Contents -> Seq(Char)]
  /\ got.formula \in [Contents -> Seq(Char)]
  /\ readSoFar \in [Contents -> Seq(Char)]
  /\ \A c \in Contents : readSoFar[c] \o handle.formula[c] = c
  /\ \A c \in Contents : readSoFar[c] # <<>> /\ handle.formula[c] # <<>> => EndsALine(got.formula[c])
  /\ handle.v = handle.formula[Known] /\ got.v = got.formula[Known]

NotEmpty == {c \in Contents : c # <<>>}

FileInv ==
  /\ known \in Contents \cup {NoFile}
  /\ filePath \in {Contents, NotEmpty}
  /\ Opened => FileKept

LEMMA FileInitInv == FileInit => FileInv
  BY DEF FileInit, FileInv, Opened

LEMMA KnownIsContents == known \in Contents \cup {NoFile} => Known \in Contents
  BY ContentsAssumption DEF Known

\* One read keeps what an open file keeps, if it splits what is left on every contents.
LEMMA ReturnsKeepsFile ==
  ASSUME NEW value, NEW rest, FileInv, Returns(value, rest),
         value.formula \in [Contents -> Seq(Char)], rest.formula \in [Contents -> Seq(Char)],
         \A c \in Contents :
           /\ value.formula[c] \o rest.formula[c] = handle.formula[c]
           /\ rest.formula[c] # <<>> => EndsALine(value.formula[c]),
         Known \in Contents => value.v = value.formula[Known] /\ rest.v = rest.formula[Known]
  PROVE  FileInv'
  <1>1. /\ Opened /\ FileKept /\ known' = known /\ filePath' = filePath
        /\ got' = value /\ handle' = rest
        /\ readSoFar' = [c \in Contents |-> readSoFar[c] \o value.formula[c]]
    BY DEF Returns, FileInv
  <1>2. Known \in Contents /\ Known' = Known
    BY <1>1, KnownIsContents DEF FileInv, Known
  <1>3. ASSUME NEW c \in Contents
        PROVE  readSoFar'[c] \in Seq(Char) /\ readSoFar'[c] \o rest.formula[c] = c
    <2>1. readSoFar[c] \in Seq(Char) /\ value.formula[c] \in Seq(Char) /\ rest.formula[c] \in Seq(Char)
      BY <1>1 DEF FileKept
    <2>2. readSoFar'[c] = readSoFar[c] \o value.formula[c]
      BY <1>1
    <2>3. readSoFar[c] \o (value.formula[c] \o rest.formula[c]) = c
      BY <1>1 DEF FileKept
    <2>4. \A a, b, d \in Seq(Char) : (a \o b) \o d = a \o (b \o d)
      BY ConcatAssociative
    <2>5. \A a, b \in Seq(Char) : a \o b \in Seq(Char)
      BY ConcatProperties
    <2>6. readSoFar[c] \o value.formula[c] \in Seq(Char)
      BY <2>1, <2>5, Zenon
    <2>7. (readSoFar[c] \o value.formula[c]) \o rest.formula[c] = c
      BY <2>1, <2>3, <2>4, Zenon
    <2> QED
      BY <2>2, <2>6, <2>7, Zenon
  <1>4. readSoFar' \in [Contents -> Seq(Char)]
    BY <1>1, <1>3
  <1>5. FileKept'
    BY <1>1, <1>2, <1>3, <1>4 DEF FileKept
  <1>6. filePath' \in {Contents, NotEmpty}
    BY <1>1 DEF FileInv
  <1> QED
    BY <1>1, <1>5, <1>6 DEF FileInv, NotEmpty

LEMMA OpenKeepsFile == FileInv /\ Open => FileInv'
  <1> SUFFICES ASSUME FileInv, Open PROVE FileInv'
    OBVIOUS
  <1>1. /\ filePath' = {c \in filePath : c # <<>>} /\ handle' = Both(Known, AllOfIt)
        /\ got' = Both(<<>>, NothingYet) /\ readSoFar' = NothingYet /\ known' = known
    BY DEF Open
  <1>2. Known \in Contents /\ Known' = Known
    BY <1>1, KnownIsContents DEF FileInv, Known
  <1>3. filePath' = NotEmpty
    BY <1>1 DEF FileInv, NotEmpty
  <1>4. /\ handle'.formula = AllOfIt /\ handle'.v = Known
        /\ got'.formula = NothingYet /\ got'.v = <<>>
    BY <1>1 DEF Both
  <1>5. /\ AllOfIt \in [Contents -> Seq(Char)] /\ NothingYet \in [Contents -> Seq(Char)]
        /\ \A c \in Contents : AllOfIt[c] = c /\ NothingYet[c] = <<>> /\ <<>> \o c = c
    <2>1. \A c \in Contents : c \in Seq(Char)
      BY ContentsAssumption
    <2>2. \A c \in Seq(Char) : <<>> \o c = c
      BY ConcatEmptySeq
    <2> QED
      BY <2>1, <2>2, EmptySeq DEF AllOfIt, NothingYet
  <1>6. FileKept'
    BY <1>1, <1>2, <1>4, <1>5 DEF FileKept
  <1> QED
    BY <1>1, <1>3, <1>6 DEF FileInv, NotEmpty

LEMMA ReadKeepsFile == FileInv /\ Read => FileInv'
  <1> SUFFICES ASSUME FileInv, Read PROVE FileInv'
    OBVIOUS
  <1>value. PICK value : value = handle
    OBVIOUS
  <1>rest. PICK rest : rest = Both(PySlice(handle.v, Len(handle.v), Len(handle.v)),
                              [c \in Contents |-> Rest(handle.formula[c])])
    OBVIOUS
  <1>1. Returns(value, rest) /\ FileKept
    BY <1>value, <1>rest DEF Read, Returns, FileInv
  <1>2. ASSUME NEW s \in Seq(Char)
        PROVE  Rest(s) = <<>> /\ PySlice(s, Len(s), Len(s)) = <<>> /\ s \o <<>> = s
    <2>1. Len(s) \in Nat
      BY LenProperties
    <2>2. Rest(s) = <<>>
      BY <2>1 DEF Rest, SubString
    <2>3. PICK n \in Nat : n = Len(s)
      BY <2>1
    <2>4. Clamped(n, n) = n
      BY DEF Clamped
    <2>5. SubSeq(s, n + 1, n) = <<>>
      BY <2>3
    <2>6. PySlice(s, Len(s), Len(s)) = <<>>
      BY <2>3, <2>4, <2>5 DEF PySlice
    <2> QED
      BY <2>2, <2>6, ConcatEmptySeq
  <1>3. rest.formula = [c \in Contents |-> <<>>]
    BY <1>1, <1>2, <1>rest DEF Both, FileKept
  <1>4. Known \in Contents
    BY KnownIsContents DEF FileInv
  <1>5. handle.formula[Known] \in Seq(Char)
    BY <1>1, <1>4 DEF FileKept
  <1>6. value.v = value.formula[Known] /\ rest.v = rest.formula[Known]
    <2>1. rest.v = <<>>
      BY <1>1, <1>2, <1>5, <1>rest DEF Both, FileKept
    <2> QED
      BY <1>1, <1>3, <1>4, <1>value, <2>1 DEF FileKept
  <1>7. value.formula \in [Contents -> Seq(Char)] /\ rest.formula \in [Contents -> Seq(Char)]
    BY <1>1, <1>3, <1>value, EmptySeq DEF FileKept
  <1>8. \A c \in Contents :
          /\ value.formula[c] \o rest.formula[c] = handle.formula[c]
          /\ rest.formula[c] = <<>>
    BY <1>1, <1>2, <1>3, <1>value DEF FileKept
  <1> QED
    BY <1>1, <1>6, <1>7, <1>8, ReturnsKeepsFile

LEMMA ReadLineKeepsFile == FileInv /\ ReadLine => FileInv'
  <1> SUFFICES ASSUME FileInv, ReadLine PROVE FileInv'
    OBVIOUS
  <1> DEFINE f == handle.formula
             v == handle.v
  <1>1. PICK value :
          value = Both(PySlice(v, 0, ConcreteEnd(v)),
                       [c \in Contents |-> SubString(f[c], 0, EndOfLine(f[c]))])
    OBVIOUS
  <1>2. PICK rest :
          rest = Both(PySlice(v, ConcreteEnd(v), Len(v)),
                      [c \in Contents |-> SubString(f[c], EndOfLine(f[c]), Len(f[c]))])
    OBVIOUS
  <1>3. Returns(value, rest)
    BY <1>1, <1>2 DEF ReadLine
  <1>4. FileKept
    BY <1>3 DEF Returns, FileInv
  <1>5. /\ value.formula = [c \in Contents |-> SubString(f[c], 0, EndOfLine(f[c]))]
        /\ rest.formula = [c \in Contents |-> SubString(f[c], EndOfLine(f[c]), Len(f[c]))]
        /\ value.v = PySlice(v, 0, ConcreteEnd(v)) /\ rest.v = PySlice(v, ConcreteEnd(v), Len(v))
    BY <1>1, <1>2 DEF Both
  <1>6. \A c \in Contents : f[c] \in Seq(Char)
    BY <1>4 DEF FileKept
  <1>7. Known \in Contents /\ v = f[Known]
    BY <1>4, KnownIsContents DEF FileInv, FileKept
  <1> HIDE DEF f, v
  <1>8. ASSUME NEW c \in Contents
        PROVE  /\ value.formula[c] \in Seq(Char) /\ rest.formula[c] \in Seq(Char)
               /\ value.formula[c] \o rest.formula[c] = f[c]
               /\ rest.formula[c] # <<>> => EndsALine(value.formula[c])
               /\ PySlice(f[c], 0, ConcreteEnd(f[c])) = value.formula[c]
               /\ PySlice(f[c], ConcreteEnd(f[c]), Len(f[c])) = rest.formula[c]
    <2>1. /\ value.formula[c] = SubString(f[c], 0, EndOfLine(f[c]))
          /\ rest.formula[c] = SubString(f[c], EndOfLine(f[c]), Len(f[c]))
      BY <1>5
    <2>2. f[c] \in Seq(Char)
      BY <1>6
    <2> QED
      BY <2>1, <2>2, LineSplits
  <1>9. value.formula \in [Contents -> Seq(Char)] /\ rest.formula \in [Contents -> Seq(Char)]
    BY <1>5, <1>8
  <1>10. value.v = value.formula[Known] /\ rest.v = rest.formula[Known]
    BY <1>5, <1>7, <1>8
  <1>11. f = handle.formula
    BY DEF f
  <1> QED
    BY <1>3, <1>8, <1>9, <1>10, <1>11, ReturnsKeepsFile

LEMMA FileNextInv == FileInv /\ [FileNext]_fileVars => FileInv'
  <1> SUFFICES ASSUME FileInv, [FileNext]_fileVars PROVE FileInv'
    OBVIOUS
  <1>1. CASE UNCHANGED fileVars
    BY <1>1 DEF fileVars, FileInv, Opened, FileKept, Known, NotEmpty
  <1> QED
    BY <1>1, OpenKeepsFile, ReadKeepsFile, ReadLineKeepsFile DEF FileNext

LEMMA FileInvMeansReads == FileInv => ReadsAreTheFile
  <1> SUFFICES ASSUME FileInv, Opened PROVE ReadsAreTheFile
    BY DEF ReadsAreTheFile
  <1>1. FileKept /\ filePath = NotEmpty
    BY DEF FileInv, Opened
  <1>2. Known # <<>> => Known \in filePath
    BY <1>1, KnownIsContents DEF FileInv, NotEmpty
  <1> QED
    BY <1>1, <1>2 DEF ReadsAreTheFile, FileKept

\* What was read and what is left are the whole file, on every contents it may have.
THEOREM ReadsCoverTheFile == FileSpec => []ReadsAreTheFile
  BY FileInitInv, FileNextInv, FileInvMeansReads, PTL DEF FileSpec

----------------------------------------------------------------------------
(* Lists, for any elements and lengths.  *)

IsList(l) == Length(l) \in Nat /\ l \in List(Length(l))

LEMMA LengthOfList ==
  ASSUME NEW n \in Nat, NEW l \in List(n)
  PROVE  IsList(l) /\ Length(l) = n /\ DOMAIN l = 0 .. (n - 1)
  <1>1. DOMAIN l = 0 .. (n - 1)
    BY DEF List
  <1>2. Cardinality(0 .. (n - 1)) = n
    <2>1. CASE n = 0
      BY <2>1, FS_EmptySet
    <2>2. CASE n # 0
      <3>1. Cardinality(0 .. (n - 1)) = IF 0 > n - 1 THEN 0 ELSE (n - 1) - 0 + 1
        BY FS_Interval
      <3> QED
        BY <2>2, <3>1
    <2> QED
      BY <2>1, <2>2
  <1> QED
    BY <1>1, <1>2 DEF IsList, Length

LEMMA ListExtended ==
  ASSUME NEW l, IsList(l), NEW x \in Val, NEW k \in Int, k = Length(l)
  PROVE  LET e == Extend(l, k, x)
         IN  /\ IsList(e) /\ Length(e) = k + 1 /\ e[k] = x
             /\ \A i \in 0 .. k - 1 : e[i] = l[i]
  <1>1. k \in Nat /\ l \in [0 .. k - 1 -> Val]
    BY DEF IsList, List
  <1>2. (0 .. k - 1) \cup {k} = 0 .. (k + 1) - 1
    BY <1>1
  <1>3. Extend(l, k, x) = [j \in 0 .. (k + 1) - 1 |-> IF j = k THEN x ELSE l[j]]
    BY <1>1, <1>2 DEF Extend
  <1>4. Extend(l, k, x) \in List(k + 1)
    BY <1>1, <1>3 DEF List
  <1>5. k \in 0 .. (k + 1) - 1 /\ \A i \in 0 .. k - 1 : i \in 0 .. (k + 1) - 1 /\ i # k
    BY <1>1
  <1> QED
    BY <1>1, <1>3, <1>4, <1>5, LengthOfList

LEMMA ListShortened ==
  ASSUME NEW l, IsList(l), NEW k \in Nat, Length(l) = k + 1
  PROVE  LET w == Without(l, k)
         IN  IsList(w) /\ Length(w) = k /\ \A i \in 0 .. k - 1 : w[i] = l[i]
  <1>1. l \in [0 .. k -> Val]
    BY DEF IsList, List
  <1>2. (0 .. k) \ {k} = 0 .. k - 1
    OBVIOUS
  <1>3. Without(l, k) = [j \in 0 .. k - 1 |-> l[j]]
    BY <1>1, <1>2 DEF Without
  <1>4. Without(l, k) \in List(k)
    BY <1>1, <1>3 DEF List
  <1> QED
    BY <1>3, <1>4, LengthOfList

LEMMA ListAssigned ==
  ASSUME NEW l, IsList(l), NEW x \in Val, NEW k \in DOMAIN l
  PROVE  IsList([l EXCEPT ![k] = x]) /\ Length([l EXCEPT ![k] = x]) = Length(l)
BY LengthOfList DEF IsList, List, Length

\* As long as the program assigns and appends one element, the value assigned last
\* is in the mutations, and an element that was not assigned is the original's.
AssignedInv ==
  LET n == Length(original)
  IN  /\ Length(pyList) \in {n, n + 1}
      /\ DOMAIN mutations \subseteq DOMAIN pyList
      /\ \A i \in DOMAIN mutations : mutations[i] = pyList[i]
      /\ \A i \in DOMAIN original : listValue[i] = pyList[i]
      /\ \A i \in DOMAIN original : i \notin DOMAIN mutations => original[i] = pyList[i]
      /\ Length(pyList) = n + 1 => n \in DOMAIN mutations

\* With appends one at a time and pops, the only mutation is the element past the
\* end, which a pop leaves behind.
PoppedInv ==
  LET n == Length(original)
      m == Length(pyList)
  IN  /\ m <= n + 1 /\ additions = m - n /\ listValue = original
      /\ popped[1] = popped[2] /\ ~raised
      /\ DOMAIN mutations \subseteq {n}
      /\ \A i \in DOMAIN original : i < m => original[i] = pyList[i]
      /\ m = n + 1 => n \in DOMAIN mutations /\ mutations[n] = pyList[n]

ListInv ==
  /\ IsList(original) /\ IsList(pyList) /\ IsList(listValue)
  /\ Length(listValue) = Length(original)
  /\ ~raised /\ used \subseteq {"overwrite", "append"} => AssignedInv
  /\ used \subseteq {"append", "pop"} => PoppedInv

LEMMA ListInitInv == ListInit => ListInv
  <1> SUFFICES ASSUME ListInit PROVE ListInv
    OBVIOUS
  <1>1. PICK n \in 0 .. MaxLen : original \in List(n)
    BY DEF ListInit
  <1>2. n \in Nat
    BY <1>1
  <1>3. IsList(original)
    BY <1>1, <1>2, LengthOfList
  <1>4. /\ listValue = original /\ pyList = original /\ DOMAIN mutations = {} /\ additions = 0
        /\ popped[1] = popped[2] /\ ~raised
    BY DEF ListInit, Empty
  <1>5. Length(original) \in Nat /\ Length(original) # Length(original) + 1
    BY <1>3 DEF IsList
  <1>6. AssignedInv
    BY <1>4, <1>5 DEF AssignedInv
  <1>7. PoppedInv
    BY <1>4, <1>5 DEF PoppedInv
  <1> QED
    BY <1>3, <1>4, <1>6, <1>7 DEF ListInv

LEMMA AppendKeepsList ==
  ASSUME ListInv, NEW x \in Val, AppendItem(x)
  PROVE  ListInv'
  <1> PICK n : n = Length(original)
    OBVIOUS
  <1> PICK m : m = Length(pyList)
    OBVIOUS
  <1>1. /\ n \in Nat /\ m \in Nat /\ Length(listValue) = n
        /\ DOMAIN original = 0 .. n - 1 /\ DOMAIN pyList = 0 .. m - 1
    BY DEF ListInv, IsList, List
  <1>2. /\ ~raised /\ used' = used \cup {IF m = n THEN "append" ELSE "append again"}
        /\ original' = original /\ listValue' = listValue /\ popped' = popped /\ raised' = raised
        /\ additions' = additions + 1
        /\ mutations' = Extend(mutations, n, x)
        /\ pyList' = Extend(pyList, m, x)
    BY <1>1 DEF AppendItem, Op, NewIndex
  <1>3. /\ IsList(pyList') /\ Length(pyList') = m + 1 /\ pyList'[m] = x
        /\ \A i \in 0 .. m - 1 : pyList'[i] = pyList[i]
    <2>1. IsList(pyList) /\ m \in Int
      BY <1>1 DEF ListInv
    <2>2. LET e == Extend(pyList, m, x)
          IN  /\ IsList(e) /\ Length(e) = m + 1 /\ e[m] = x
              /\ \A i \in 0 .. m - 1 : e[i] = pyList[i]
      BY <2>1, ListExtended
    <2> QED
      BY <1>2, <2>2, Zenon
  <1>4. DOMAIN pyList' = 0 .. m
    BY <1>1, <1>3 DEF IsList, List
  <1>5. /\ DOMAIN mutations' = DOMAIN mutations \cup {n} /\ mutations'[n] = x
        /\ \A i \in DOMAIN mutations : i # n => mutations'[i] = mutations[i]
    BY <1>2 DEF Extend
  <1>6. ASSUME used' \subseteq {"overwrite", "append"} PROVE AssignedInv'
    <2>1. m = n /\ AssignedInv
      BY <1>2, <1>6 DEF ListInv
    <2> QED
      BY <1>1, <1>2, <1>3, <1>4, <1>5, <2>1 DEF AssignedInv
  <1>7. ASSUME used' \subseteq {"append", "pop"} PROVE PoppedInv'
    <2>1. m = n /\ PoppedInv
      BY <1>2, <1>7 DEF ListInv
    <2>2. /\ additions = 0 /\ listValue = original /\ popped[1] = popped[2] /\ ~raised
          /\ DOMAIN mutations \subseteq {n}
          /\ \A i \in DOMAIN original : i < m => original[i] = pyList[i]
      <3>1. additions = m - n
        BY <2>1 DEF PoppedInv
      <3>2. m - n = 0
        BY <1>1, <2>1
      <3> QED
        BY <2>1, <3>1, <3>2 DEF PoppedInv
    <2>3. /\ Length(pyList') = n + 1 /\ Length(original') = n /\ additions' = (n + 1) - n
          /\ n + 1 <= n + 1
      BY <1>1, <1>2, <1>3, <2>1, <2>2
    <2>4. DOMAIN mutations' \subseteq {n} /\ n \in DOMAIN mutations' /\ mutations'[n] = pyList'[n]
      BY <1>3, <1>5, <2>1, <2>2
    <2>5. \A i \in DOMAIN original' : original'[i] = pyList'[i]
      BY <1>1, <1>2, <1>3, <2>1, <2>2
    <2> QED
      BY <1>2, <2>2, <2>3, <2>4, <2>5 DEF PoppedInv
  <1> QED
    BY <1>2, <1>3, <1>6, <1>7 DEF ListInv

LEMMA SetItemKeepsList ==
  ASSUME ListInv, NEW x \in Val, NEW at \in Int, SetItem(at, x)
  PROVE  ListInv'
  <1> PICK n : n = Length(original)
    OBVIOUS
  <1> PICK m : m = Length(pyList)
    OBVIOUS
  <1>1. /\ n \in Nat /\ m \in Nat /\ Length(listValue) = n
        /\ DOMAIN original = 0 .. n - 1 /\ DOMAIN pyList = 0 .. m - 1 /\ DOMAIN listValue = 0 .. n - 1
    BY DEF ListInv, IsList, List
  <1>2. /\ ~raised /\ used' = used \cup {IF at < 0 THEN "negative" ELSE "overwrite"}
        /\ original' = original
        /\ Position(pyList, at) \in DOMAIN pyList
        /\ pyList' = [pyList EXCEPT ![Position(pyList, at)] = x]
    BY DEF SetItem, Op, InRange
  <1>3. IsList(pyList') /\ Length(pyList') = m
    BY <1>2, ListAssigned DEF ListInv
  <1>4. CASE InRange(listValue, at)
    <2>1. /\ listValue' = [listValue EXCEPT ![Position(listValue, at)] = x]
          /\ Position(listValue, at) \in DOMAIN listValue
          /\ mutations' = Extend(mutations, at, x) /\ raised' = raised
      BY <1>4 DEF SetItem, InRange, Mutated
    <2>2. IsList(listValue') /\ Length(listValue') = n
      BY <1>1, <2>1, ListAssigned DEF ListInv
    <2>3. /\ DOMAIN mutations' = DOMAIN mutations \cup {at} /\ mutations'[at] = x
          /\ \A j \in DOMAIN mutations : j # at => mutations'[j] = mutations[j]
      BY <2>1 DEF Extend
    <2>4. ASSUME used' \subseteq {"overwrite", "append"} PROVE AssignedInv'
      <3>1. AssignedInv /\ at >= 0
        BY <1>2, <2>4 DEF ListInv
      <3>2. Position(pyList, at) = at /\ Position(listValue, at) = at
        BY <3>1 DEF Position
      <3>3. DOMAIN pyList' = DOMAIN pyList /\ DOMAIN listValue' = DOMAIN listValue
        BY <1>2, <2>1
      <3>4. /\ \A j \in DOMAIN pyList : pyList'[j] = IF j = at THEN x ELSE pyList[j]
            /\ \A j \in DOMAIN listValue : listValue'[j] = IF j = at THEN x ELSE listValue[j]
        BY <1>2, <2>1, <3>2
      <3>5. at \in DOMAIN pyList
        BY <1>2, <3>2
      <3>6. DOMAIN original \subseteq DOMAIN pyList
        BY <1>1, <3>1 DEF AssignedInv
      <3>7. Length(pyList') \in {n, n + 1} /\ Length(original') = n
        BY <1>2, <1>3, <3>1 DEF AssignedInv
      <3>8. DOMAIN mutations' \subseteq DOMAIN pyList' /\ \A j \in DOMAIN mutations' : mutations'[j] = pyList'[j]
        BY <2>3, <3>1, <3>3, <3>4, <3>5 DEF AssignedInv
      <3>9. \A j \in DOMAIN original' : listValue'[j] = pyList'[j]
        BY <1>1, <1>2, <2>3, <3>1, <3>4, <3>6 DEF AssignedInv
      <3>10. \A j \in DOMAIN original' : j \notin DOMAIN mutations' => original'[j] = pyList'[j]
        BY <1>1, <1>2, <2>3, <3>1, <3>4, <3>6 DEF AssignedInv
      <3>11. Length(pyList') = n + 1 => n \in DOMAIN mutations'
        BY <1>3, <2>3, <3>1 DEF AssignedInv
      <3>12. /\ Length(pyList') \in {Length(original'), Length(original') + 1}
             /\ Length(pyList') = Length(original') + 1 => Length(original') \in DOMAIN mutations'
        BY <3>7, <3>11
      <3> QED
        BY <3>8, <3>9, <3>10, <3>12, Zenon DEF AssignedInv
    <2> QED
      BY <1>1, <1>2, <1>3, <2>1, <2>2, <2>4 DEF ListInv
  <1>5. CASE ~InRange(listValue, at)
    BY <1>1, <1>2, <1>3, <1>5 DEF SetItem, ListInv
  <1> QED
    BY <1>4, <1>5

LEMMA PopKeepsList == ListInv /\ Pop => ListInv'
  <1> SUFFICES ASSUME ListInv, Pop PROVE ListInv'
    OBVIOUS
  <1> PICK n : n = Length(original)
    OBVIOUS
  <1> PICK m : m = Length(pyList)
    OBVIOUS
  <1>1. /\ n \in Nat /\ m \in Nat /\ Length(listValue) = n
        /\ DOMAIN original = 0 .. n - 1 /\ pyList \in [0 .. m - 1 -> Val]
        /\ IsList(original) /\ IsList(pyList) /\ IsList(listValue)
    BY DEF ListInv, IsList, List
  <1> PICK read : read = IF n - 1 \in DOMAIN mutations THEN mutations[n - 1] ELSE ReadItem(SymbolicLen - 1)
    OBVIOUS
  <1>2. /\ used' = used \cup {"pop"} /\ m > 0
        /\ original' = original /\ listValue' = listValue
        /\ mutations' = IF n - 1 \in DOMAIN mutations THEN Without(mutations, n - 1) ELSE mutations
        /\ raised' = (read = NoVal)
        /\ additions' = IF read = NoVal THEN additions ELSE additions - 1
        /\ popped' = <<read, pyList[m - 1]>>
        /\ pyList' = Without(pyList, m - 1)
    BY <1>1 DEF Pop, Op, Shortened
  <1>3. m - 1 \in Nat /\ m = (m - 1) + 1
    BY <1>1, <1>2
  <1>4. IsList(pyList') /\ Length(pyList') = m - 1 /\ \A i \in 0 .. (m - 1) - 1 : pyList'[i] = pyList[i]
    BY <1>1, <1>2, <1>3, ListShortened
  <1>5. ASSUME used' \subseteq {"append", "pop"} PROVE PoppedInv'
    <2>1. PoppedInv
      BY <1>2, <1>5 DEF ListInv
    <2>2. /\ m <= n + 1 /\ additions = m - n /\ listValue = original /\ DOMAIN mutations \subseteq {n}
          /\ \A i \in DOMAIN original : i < m => original[i] = pyList[i]
          /\ m = n + 1 => n \in DOMAIN mutations /\ mutations[n] = pyList[n]
      BY <2>1 DEF PoppedInv
    <2>3. n - 1 \notin DOMAIN mutations
      BY <1>1, <2>2
    <2>4. read = ReadItem(m - 1)
      <3>1. SymbolicLen - 1 = m - 1
        BY <1>1, <2>2 DEF SymbolicLen
      <3> QED
        BY <2>3, <3>1
    <2>5. read = pyList[m - 1]
      <3>1. CASE m = n + 1
        <4>1. m - 1 = n
          BY <1>1, <3>1
        <4> QED
          BY <2>2, <2>4, <3>1, <4>1 DEF ReadItem
      <3>2. CASE m # n + 1
        <4>1. m - 1 \in 0 .. n - 1 /\ m - 1 # n /\ ~(m - 1 < 0) /\ m - 1 < m
          BY <1>1, <1>3, <2>2, <3>2
        <4>2. Position(listValue, m - 1) = m - 1
          BY <4>1 DEF Position
        <4>3. InRange(listValue, m - 1)
          BY <1>1, <2>2, <4>1, <4>2 DEF InRange
        <4>4. ReadItem(m - 1) = listValue[m - 1]
          BY <2>2, <4>1, <4>2, <4>3 DEF ReadItem
        <4> QED
          BY <1>1, <2>2, <2>4, <4>1, <4>4
      <3> QED
        BY <3>1, <3>2
    <2>6. pyList[m - 1] \in Val
      BY <1>1, <1>3
    <2>7. read # NoVal
      BY <2>5, <2>6, ValAssumption
    <2>8. additions' = (m - 1) - n /\ ~raised' /\ popped'[1] = popped'[2] /\ mutations' = mutations
      <3>1. raised' = FALSE /\ additions' = additions - 1
        BY <1>2, <2>7
      <3>2. (m - n) - 1 = (m - 1) - n
        BY <1>1
      <3>3. mutations' = mutations
        BY <1>2, <2>3
      <3>4. popped'[1] = popped'[2]
        BY <1>2, <2>5
      <3> QED
        BY <2>2, <3>1, <3>2, <3>3, <3>4
    <2>9. m - 1 <= n + 1 /\ m - 1 # n + 1
      BY <1>1, <2>2
    <2>10. \A i \in DOMAIN original : i < m - 1 => original[i] = pyList'[i]
      BY <1>1, <1>4, <2>2
    <2> QED
      BY <1>2, <1>4, <2>2, <2>8, <2>9, <2>10 DEF PoppedInv
  <1>6. ~(used' \subseteq {"overwrite", "append"})
    BY <1>2
  <1> QED
    BY <1>1, <1>2, <1>4, <1>5, <1>6 DEF ListInv

LEMMA ListNextInv == ListInv /\ [ListNext]_listVars => ListInv'
  <1> SUFFICES ASSUME ListInv, [ListNext]_listVars PROVE ListInv'
    OBVIOUS
  <1>1. ASSUME NEW x \in Val, AppendItem(x) PROVE ListInv'
    BY <1>1, AppendKeepsList
  <1>2. ASSUME NEW x \in Val, NEW i \in -1 .. MaxLen + MaxListOps, SetItem(i, x) PROVE ListInv'
    <2>1. i \in Int
      BY <1>2, ListBoundAssumption
    <2> QED
      BY <1>2, <2>1, SetItemKeepsList
  <1>3. CASE UNCHANGED listVars
    BY <1>3 DEF listVars, ListInv, IsList, AssignedInv, PoppedInv, Length, List
  <1> QED
    BY <1>1, <1>2, <1>3, PopKeepsList DEF ListNext

LEMMA ListInvMeansPythons == ListInv => ListIsPythons
  <1> SUFFICES ASSUME ListInv PROVE ListIsPythons
    OBVIOUS
  <1>1. /\ Length(original) \in Nat /\ DOMAIN original = 0 .. Length(original) - 1
        /\ DOMAIN listValue = DOMAIN original /\ DOMAIN pyList = 0 .. Length(pyList) - 1
    BY DEF ListInv, IsList, List
  <1>2. ASSUME ~raised, used \subseteq {"overwrite", "append"}, NEW i \in DOMAIN pyList
        PROVE  ReadItem(i) = pyList[i] /\ ItemFormula(i) = pyList[i]
    <2>1. AssignedInv
      BY <1>2 DEF ListInv
    <2>2. CASE i \in DOMAIN mutations
      BY <2>1, <2>2 DEF AssignedInv, ReadItem, ItemFormula
    <2>3. CASE i \notin DOMAIN mutations
      <3>1. i \in DOMAIN original /\ ~(i < 0)
        BY <1>1, <1>2, <2>1, <2>3 DEF AssignedInv
      <3>2. InRange(listValue, i) /\ Position(listValue, i) = i
        BY <1>1, <3>1 DEF InRange, Position
      <3> QED
        BY <2>1, <2>3, <3>1, <3>2 DEF AssignedInv, ReadItem, ItemFormula
    <2> QED
      BY <2>2, <2>3
  <1>3. ASSUME used \subseteq {"append", "pop"}
        PROVE  popped[1] = popped[2] /\ ~raised /\ SymbolicLen = Length(pyList)
    <2>1. PoppedInv
      BY <1>3 DEF ListInv
    <2>2. Length(pyList) \in Nat
      BY DEF ListInv, IsList
    <2> QED
      BY <1>1, <2>1, <2>2 DEF PoppedInv, SymbolicLen
  <1> QED
    BY <1>2, <1>3 DEF ListIsPythons

\* Reads of a list that was assigned to, and pops and lengths of one that was appended
\* to and popped, are Python's, for any list and any elements.
THEOREM ListsAreRight == ListSpec => []ListIsPythons
  BY ListInitInv, ListNextInv, ListInvMeansPythons, PTL DEF ListSpec

----------------------------------------------------------------------------
(* Dicts, for any keys, values and dicts.  *)

\* A dict after the writes: those keys with those values, and the others as they were.
WrittenOver(p, d) ==
  /\ Keys(p) = Keys(d) \cup DOMAIN written
  /\ \A k \in Keys(p) : p.assoc[k] = IF k \in DOMAIN written THEN written[k] ELSE d.assoc[k]
  /\ p.keys \in Seq(Key) /\ Len(p.keys) >= Len(d.keys)

AnswersRight ==
  /\ source \in onPath /\ answer.v = answer.formula[source]
  /\ \A d \in onPath : Len(d.keys) <= Len(source.keys) + 1 => answer.formula[d] = answer.dicts[d]

DictInv ==
  /\ source \in DictInput /\ onPath \subseteq DictInput
  /\ dicts = [d \in DictInput |-> dicts[d]] /\ current = dicts[source]
  /\ \A d \in DictInput : WrittenOver(dicts[d], d)
  /\ Untouched => added = 0 /\ \A d \in DictInput : dicts[d] = d
  /\ clear => AnswersRight

LEMMA DictSizes ==
  ASSUME DictInv
  PROVE  /\ Size \in Nat /\ Len(source.keys) \in Nat /\ Len(source.keys) <= Size
         /\ \A d \in DictInput : d.keys \in Seq(Key) /\ Len(d.keys) \in Nat
  <1>1. \A d \in DictInput : d.keys \in Seq(Key) /\ Len(d.keys) \in Nat
    BY DictInputAssumption, LenProperties
  <1>2. current.keys \in Seq(Key) /\ Len(current.keys) >= Len(source.keys)
    BY DEF DictInv, WrittenOver
  <1>3. Len(current.keys) \in Nat
    BY <1>2, LenProperties
  <1>4. Len(source.keys) \in Nat
    BY <1>1 DEF DictInv
  <1> QED
    BY <1>1, <1>2, <1>3, <1>4 DEF Size

\* What a dict holds under a key that was written, and under one that was not.
LEMMA LookAfterWrites ==
  ASSUME DictInv, NEW d \in DictInput, NEW k, NEW otherwise
  PROVE  /\ k \in DOMAIN written => Look(dicts[d], k, otherwise) = written[k]
         /\ k \notin DOMAIN written => /\ Look(dicts[d], k, otherwise) = Look(d, k, otherwise)
                                       /\ k \in Keys(dicts[d]) <=> k \in Keys(d)
  <1>1. WrittenOver(dicts[d], d)
    BY DEF DictInv
  <1> QED
    BY <1>1 DEF WrittenOver, Look, Keys

\* On a dict with at most one key more than the run's, the search through the keys
\* finds what is a key, unless writes confuse it.
LEMMA ExistsIsKey ==
  ASSUME DictInv, NEW d \in DictInput, NEW k, NotConfused(k), Len(d.keys) <= Size + 1
  PROVE  ExistsInKeys(d, k) <=> k \in Keys(d)
  <1>1. Size \in Nat /\ d.keys \in Seq(Key) /\ Len(d.keys) \in Nat
    BY DictSizes
  <1>2. DOMAIN d.keys = 1 .. Len(d.keys) /\ Keys(d) = {d.keys[x] : x \in DOMAIN d.keys}
    BY <1>1, DictInputAssumption, LenProperties DEF Keys
  <1>3. k \notin WrittenValues /\ \A x \in 0 .. Size : x \notin DOMAIN written
    BY DEF NotConfused
  <1>4. ASSUME ExistsInKeys(d, k) PROVE k \in Keys(d)
    <2>1. CASE Len(d.keys) >= Size + 1 /\ d.keys[Size + 1] = k
      <3>1. Size + 1 \in 1 .. Len(d.keys)
        BY <1>1, <2>1
      <3> QED
        BY <1>2, <2>1, <3>1
    <2>2. ASSUME NEW x \in 0 .. Size - 1, x < Len(d.keys), d.keys[x + 1] = k
          PROVE  k \in Keys(d)
      <3>1. x + 1 \in 1 .. Len(d.keys)
        BY <1>1, <2>2
      <3> QED
        BY <1>2, <2>2, <3>1
    <2> QED
      BY <1>3, <1>4, <2>1, <2>2 DEF ExistsInKeys
  <1>5. ASSUME k \in Keys(d) PROVE ExistsInKeys(d, k)
    <2>1. PICK x \in 1 .. Len(d.keys) : d.keys[x] = k
      BY <1>2, <1>5
    <2>2. CASE x = Size + 1
      <3>1. Len(d.keys) >= Size + 1 /\ d.keys[Size + 1] = k
        BY <1>1, <2>1, <2>2
      <3> QED
        BY <3>1 DEF ExistsInKeys
    <2>3. CASE x # Size + 1
      <3>1. x - 1 \in 0 .. Size - 1 /\ x - 1 \in 0 .. Size /\ x - 1 < Len(d.keys) /\ (x - 1) + 1 = x
        BY <1>1, <2>1, <2>3
      <3>2. x - 1 \notin DOMAIN written
        BY <1>3, <3>1
      <3>3. d.keys[(x - 1) + 1] = k
        BY <2>1, <3>1
      <3> QED
        BY <3>1, <3>2, <3>3, Zenon DEF ExistsInKeys
    <2> QED
      BY <2>2, <2>3
  <1> QED
    BY <1>4, <1>5

\* The run stays on its own path when it asks for a key.
LEMMA OwnKeyExists ==
  ASSUME DictInv, NEW k, NotConfused(k), k \notin DOMAIN written
  PROVE  ExistsInKeys(source, k) <=> k \in Keys(current)
  <1>1. source \in DictInput /\ current = dicts[source]
    BY DEF DictInv
  <1>2. Len(source.keys) <= Size + 1
    BY DictSizes
  <1>3. ExistsInKeys(source, k) <=> k \in Keys(source)
    BY <1>1, <1>2, ExistsIsKey
  <1>4. k \in Keys(dicts[source]) <=> k \in Keys(source)
    BY <1>1, LookAfterWrites
  <1> QED
    BY <1>1, <1>3, <1>4

\* A question changes neither the dicts nor the mutations.
LEMMA QuestionKeepsDict ==
  ASSUME DictInv, UNCHANGED <<source, current, written, added, dicts>>,
         onPath' \subseteq onPath, clear' => clear /\ AnswersRight'
  PROVE  DictInv'
BY DEF DictInv, WrittenOver, Untouched

LEMMA DictInitInv == DictInit => DictInv
  <1> SUFFICES ASSUME DictInit PROVE DictInv
    OBVIOUS
  <1>1. /\ source \in DictInput /\ current = source /\ DOMAIN written = {} /\ added = 0
        /\ dicts = [d \in DictInput |-> d] /\ onPath = DictInput /\ answer = NoAnswer
    BY DEF DictInit
  <1>2. \A d \in DictInput : WrittenOver(dicts[d], d)
    <2>1. TAKE d \in DictInput
    <2>2. dicts[d] = d /\ d.keys \in Seq(Key)
      BY <1>1, DictInputAssumption
    <2>3. Len(d.keys) \in Nat
      BY <2>2, LenProperties
    <2> QED
      BY <1>1, <2>2, <2>3 DEF WrittenOver
  <1>3. AnswersRight
    BY <1>1 DEF AnswersRight, NoAnswer
  <1> QED
    BY <1>1, <1>2, <1>3 DEF DictInv

LEMMA AssignKeepsDict ==
  ASSUME DictInv, NEW k \in Key, NEW x \in Content, Assign(k, x)
  PROVE  DictInv'
  <1>1. /\ current' = Put(current, k, x) /\ written' = Written(k, x)
        /\ dicts' = [d \in DictInput |-> Put(dicts[d], k, x)]
        /\ source' = source /\ onPath' = onPath /\ answer' = answer /\ clear' = clear
    BY DEF Assign
  <1>2. DOMAIN written' = DOMAIN written \cup {k}
        /\ \A j \in DOMAIN written' : written'[j] = IF j = k THEN x ELSE written[j]
    BY <1>1 DEF Written
  <1>3. ASSUME NEW d \in DictInput PROVE WrittenOver(dicts[d], d)' /\ dicts'[d] = Put(dicts[d], k, x)
    <2> PICK p : p = dicts[d]
      OBVIOUS
    <2> PICK q : q = Put(p, k, x)
      OBVIOUS
    <2>1. dicts'[d] = q
      BY <1>1
    <2>2. WrittenOver(p, d)
      BY DEF DictInv
    <2>3. /\ q.keys = IF k \in Keys(p) THEN p.keys ELSE Append(p.keys, k)
          /\ Keys(q) = Keys(p) \cup {k}
          /\ \A j \in Keys(q) : q.assoc[j] = IF j = k THEN x ELSE p.assoc[j]
      BY DEF Put, Keys
    <2>4. Keys(q) = Keys(d) \cup DOMAIN written'
      BY <1>2, <2>2, <2>3 DEF WrittenOver
    <2>5. \A j \in Keys(q) : q.assoc[j] = IF j \in DOMAIN written' THEN written'[j] ELSE d.assoc[j]
      BY <1>2, <2>2, <2>3 DEF WrittenOver
    <2>6. q.keys \in Seq(Key) /\ Len(q.keys) >= Len(d.keys)
      <3>1. p.keys \in Seq(Key) /\ Len(p.keys) >= Len(d.keys) /\ Len(d.keys) \in Nat
        BY <2>2, DictSizes DEF WrittenOver
      <3>2. Len(p.keys) \in Nat
        BY <3>1, LenProperties
      <3>3. Append(p.keys, k) \in Seq(Key) /\ Len(Append(p.keys, k)) = Len(p.keys) + 1
        BY <3>1, AppendProperties
      <3>4. Len(p.keys) + 1 >= Len(d.keys)
        BY <3>1, <3>2
      <3> QED
        BY <2>3, <3>1, <3>3, <3>4
    <2> QED
      BY <2>1, <2>4, <2>5, <2>6 DEF WrittenOver
  <1>4. ~Untouched'
    BY <1>2 DEF Untouched
  <1>5. current' = dicts'[source'] /\ dicts' = [d \in DictInput |-> dicts'[d]]
    BY <1>1, <1>3 DEF DictInv
  <1>6. AnswersRight' = AnswersRight
    BY <1>1 DEF AnswersRight
  <1> QED
    BY <1>1, <1>3, <1>4, <1>5, <1>6 DEF DictInv

\* What a branch on a key keeps of the path.
LEMMA BranchOnKey ==
  ASSUME DictInv, NEW k, k \notin DOMAIN written, NotConfused(k), clear,
         onPath' = {d \in onPath : ExistsInKeys(d, k) = (k \in Keys(current))}
  PROVE  source \in onPath' /\ onPath' \subseteq onPath
  <1>1. source \in onPath
    BY DEF DictInv, AnswersRight
  <1>2. ExistsInKeys(source, k) <=> k \in Keys(current)
    BY OwnKeyExists
  <1>3. ExistsInKeys(source, k) \in BOOLEAN /\ (k \in Keys(current)) \in BOOLEAN
    BY DEF ExistsInKeys
  <1>4. ExistsInKeys(source, k) = (k \in Keys(current))
    BY <1>2, <1>3
  <1> QED
    BY <1>1, <1>4

LEMMA ReadKeyKeepsDict ==
  ASSUME DictInv, NEW k \in Key, ReadKey(k)
  PROVE  DictInv'
  <1>1. /\ UNCHANGED <<source, current, written, added, dicts>>
        /\ clear' = (clear /\ NotConfused(k))
    BY DEF ReadKey
  <1>2. CASE k \in DOMAIN written
    <2>1. /\ answer' = [v |-> written[k], formula |-> [d \in DictInput |-> written[k]],
                        dicts |-> [d \in DictInput |-> Look(dicts[d], k, KeyError)]]
          /\ onPath' = onPath
      BY <1>2 DEF ReadKey, Answers
    <2>2. ASSUME clear' PROVE AnswersRight'
      <3>1. clear /\ source \in onPath /\ onPath \subseteq DictInput
        BY <1>1, <2>2 DEF DictInv, AnswersRight
      <3>2. \A d \in DictInput : Look(dicts[d], k, KeyError) = written[k]
        BY <1>2, LookAfterWrites
      <3> QED
        BY <1>1, <2>1, <3>1, <3>2 DEF AnswersRight
    <2> QED
      BY <1>1, <2>1, <2>2, QuestionKeepsDict
  <1>3. CASE k \notin DOMAIN written
    <2>1. /\ answer' = [v |-> Look(current, k, KeyError),
                        formula |-> [d \in DictInput |-> Look(d, k, KeyError)],
                        dicts |-> [d \in DictInput |-> Look(dicts[d], k, KeyError)]]
          /\ onPath' = {d \in onPath : ExistsInKeys(d, k) = (k \in Keys(current))}
      BY <1>3 DEF ReadKey, Answers, Record
    <2>2. ASSUME clear' PROVE AnswersRight'
      <3>1. source \in onPath' /\ onPath' \subseteq DictInput
        BY <1>1, <1>3, <2>1, <2>2, BranchOnKey DEF DictInv
      <3>2. \A d \in DictInput : Look(dicts[d], k, KeyError) = Look(d, k, KeyError)
        BY <1>3, LookAfterWrites
      <3>3. current = dicts[source] /\ source \in DictInput
        BY DEF DictInv
      <3> QED
        BY <1>1, <2>1, <3>1, <3>2, <3>3 DEF AnswersRight
    <2> QED
      BY <1>1, <2>1, <2>2, QuestionKeepsDict
  <1> QED
    BY <1>2, <1>3

LEMMA ContainsKeepsDict ==
  ASSUME DictInv, NEW k \in Key, Contains(k)
  PROVE  DictInv'
  <1>1. /\ UNCHANGED <<source, current, written, added, dicts>>
        /\ clear' = (clear /\ NotConfused(k) /\ k \notin DOMAIN written)
        /\ onPath' \subseteq onPath
    BY DEF Contains, Record
  <1>2. ASSUME clear' PROVE AnswersRight'
    <2>1. clear /\ NotConfused(k) /\ k \notin DOMAIN written /\ k \notin WrittenValues
      BY <1>1, <1>2 DEF NotConfused
    <2>2. /\ answer' = [v |-> k \in Keys(current),
                        formula |-> [d \in DictInput |-> ExistsInKeys(d, k)],
                        dicts |-> [d \in DictInput |-> k \in Keys(dicts[d])]]
          /\ onPath' = {d \in onPath : ExistsInKeys(d, k) = (k \in Keys(current))}
      BY <2>1 DEF Contains, Answers, Record
    <2>3. source \in onPath' /\ onPath' \subseteq DictInput
      BY <1>1, <2>1, <2>2, BranchOnKey DEF DictInv
    <2>4. ASSUME NEW d \in DictInput, Len(d.keys) <= Len(source.keys) + 1
          PROVE  ExistsInKeys(d, k) <=> k \in Keys(dicts[d])
      <3>1. Len(d.keys) <= Size + 1
        BY <2>4, DictSizes
      <3> QED
        BY <2>1, <3>1, ExistsIsKey, LookAfterWrites
    <2>5. ExistsInKeys(source, k) = (k \in Keys(current))
      BY <2>2, <2>3
    <2>6. \A d \in DictInput : Len(d.keys) <= Len(source.keys) + 1 =>
            ExistsInKeys(d, k) = (k \in Keys(dicts[d]))
      <3>1. \A d : ExistsInKeys(d, k) \in BOOLEAN /\ (k \in Keys(dicts[d])) \in BOOLEAN
        BY DEF ExistsInKeys
      <3> QED
        BY <2>4, <3>1
    <2>7. /\ answer'.v = (k \in Keys(current))
          /\ \A d \in DictInput : /\ answer'.formula[d] = ExistsInKeys(d, k)
                                 /\ answer'.dicts[d] = (k \in Keys(dicts[d]))
      BY <2>2, Zenon
    <2>8. source \in DictInput
      BY DEF DictInv
    <2> QED
      BY <1>1, <2>3, <2>5, <2>6, <2>7, <2>8, Zenon DEF AnswersRight
  <1> QED
    BY <1>1, <1>2, QuestionKeepsDict

LEMMA GetKeepsDict ==
  ASSUME DictInv, NEW k \in Key, NEW default \in Content, Get(k, default)
  PROVE  DictInv'
  <1>1. /\ UNCHANGED <<source, current, written, added, dicts>>
        /\ clear' = (clear /\ NotConfused(k))
        /\ onPath' \subseteq onPath
    BY DEF Get, Record
  <1>2. ASSUME clear', k \in DOMAIN written PROVE AnswersRight'
    <2>1. /\ answer' = [v |-> written[k], formula |-> [d \in DictInput |-> written[k]],
                        dicts |-> [d \in DictInput |-> Look(dicts[d], k, default)]]
          /\ onPath' = onPath
      BY <1>2 DEF Get, Answers
    <2>2. source \in onPath /\ onPath \subseteq DictInput
      BY <1>1, <1>2 DEF DictInv, AnswersRight
    <2>3. \A d \in DictInput : Look(dicts[d], k, default) = written[k]
      BY <1>2, LookAfterWrites
    <2> QED
      BY <1>1, <2>1, <2>2, <2>3 DEF AnswersRight
  <1>3. ASSUME clear', k \notin DOMAIN written PROVE AnswersRight'
    <2>1. /\ answer' = [v |-> Look(current, k, default),
                        formula |-> [d \in DictInput |->
                          IF ExistsInKeys(d, k) THEN Look(d, k, Unconstrained) ELSE default],
                        dicts |-> [d \in DictInput |-> Look(dicts[d], k, default)]]
          /\ onPath' = {d \in onPath : ExistsInKeys(d, k) = (k \in Keys(current))}
      BY <1>3 DEF Get, Answers, Record
    <2>2. clear /\ NotConfused(k)
      BY <1>1, <1>3
    <2>3. source \in onPath' /\ onPath' \subseteq DictInput
      BY <1>3, <1>1, <2>1, <2>2, BranchOnKey DEF DictInv
    <2>4. ASSUME NEW d \in DictInput, Len(d.keys) <= Len(source.keys) + 1
          PROVE  (IF ExistsInKeys(d, k) THEN Look(d, k, Unconstrained) ELSE default)
                   = Look(dicts[d], k, default)
      <3>1. Len(d.keys) <= Size + 1
        BY <2>4, DictSizes
      <3>2. ExistsInKeys(d, k) <=> k \in Keys(d)
        BY <2>2, <3>1, ExistsIsKey
      <3>3. Look(dicts[d], k, default) = Look(d, k, default)
        BY <1>3, LookAfterWrites
      <3> QED
        BY <3>2, <3>3 DEF Look
    <2>5. current = dicts[source] /\ source \in DictInput /\ Len(source.keys) <= Len(source.keys) + 1
      BY DictSizes DEF DictInv
    <2> QED
      BY <1>1, <2>1, <2>3, <2>4, <2>5 DEF AnswersRight
  <1> QED
    BY <1>1, <1>2, <1>3, QuestionKeepsDict

\* The questions about the whole dict are only clear about one that was not written.
LEMMA WholeDictKeepsDict == DictInv /\ (DictLen \/ KeysList \/ ItemsList) => DictInv'
  <1> SUFFICES ASSUME DictInv, DictLen \/ KeysList \/ ItemsList PROVE DictInv'
    OBVIOUS
  <1>1. /\ UNCHANGED <<source, current, written, added, dicts>>
        /\ clear' = (clear /\ Untouched)
        /\ onPath' \subseteq onPath
    BY DEF DictLen, KeysList, ItemsList
  <1>2. ASSUME clear' PROVE AnswersRight'
    <2>1. /\ source \in onPath /\ source \in DictInput /\ onPath \subseteq DictInput
          /\ added = 0 /\ current = source
          /\ \A d \in DictInput : dicts[d] = d
      BY <1>1, <1>2 DEF DictInv, AnswersRight
    <2>2. Size = Len(source.keys) /\ Size \in Nat /\ \A d \in DictInput : Len(d.keys) \in Nat
      BY <2>1, DictSizes DEF Size
    <2>3. CASE DictLen
      <3>1. /\ answer' = [v |-> Size + added, formula |-> [d \in DictInput |-> Len(d.keys) + added],
                          dicts |-> [d \in DictInput |-> Len(dicts[d].keys)]]
            /\ onPath' = onPath
        BY <2>3 DEF DictLen, Answers
      <3>2. \A d \in DictInput : Len(d.keys) + added = Len(dicts[d].keys)
        BY <2>1, <2>2
      <3> QED
        BY <1>1, <2>1, <2>2, <3>1, <3>2 DEF AnswersRight
    <2>4. CASE KeysList
      <3>1. /\ answer' = [v |-> current.keys, formula |-> [d \in DictInput |-> d.keys],
                          dicts |-> [d \in DictInput |-> dicts[d].keys]]
            /\ onPath' = onPath
        BY <2>4 DEF KeysList, Answers
      <3> QED
        BY <1>1, <2>1, <3>1 DEF AnswersRight
    <2>5. CASE ItemsList
      <3> DEFINE most(d) == Items(d, IF Len(d.keys) < Size THEN Len(d.keys) ELSE Size)
      <3>1. /\ answer' = [v |-> Items(current, Size), formula |-> [d \in DictInput |-> most(d)],
                          dicts |-> [d \in DictInput |-> most(dicts[d])]]
            /\ onPath' = {d \in onPath : LongEnough(d)}
        BY <2>5 DEF ItemsList, Answers
      <3>2. LongEnough(source) /\ most(source) = Items(current, Size)
        BY <2>1, <2>2 DEF LongEnough
      <3>3. source \in onPath'
        BY <2>1, <3>1, <3>2
      <3>4. \A d \in DictInput : most(dicts[d]) = most(d)
        BY <2>1
      <3> HIDE DEF most
      <3> QED
        BY <1>1, <2>1, <3>1, <3>2, <3>3, <3>4 DEF AnswersRight
    <2> QED
      BY <2>3, <2>4, <2>5
  <1> QED
    BY <1>1, <1>2, QuestionKeepsDict

LEMMA DictNextInv == DictInv /\ [DictNext]_dictVars => DictInv'
  <1> SUFFICES ASSUME DictInv, [DictNext]_dictVars PROVE DictInv'
    OBVIOUS
  <1>1. ASSUME NEW k \in Key, ReadKey(k) \/ Contains(k) PROVE DictInv'
    BY <1>1, ReadKeyKeepsDict, ContainsKeepsDict
  <1>2. ASSUME NEW k \in Key, NEW x \in Content, Assign(k, x) \/ Get(k, x) PROVE DictInv'
    BY <1>2, AssignKeepsDict, GetKeepsDict
  <1>3. CASE UNCHANGED dictVars
    BY <1>3 DEF dictVars, DictInv, WrittenOver, Untouched, AnswersRight
  <1> QED
    BY <1>1, <1>2, <1>3, WholeDictKeepsDict DEF DictNext

\* A dict answers as Python's would on every input of the path with at most one key
\* more than the run's, and the run stays on its own path.
THEOREM DictsAreRight == DictSpec => []DictIsPythons
  <1>1. DictInv => DictIsPythons
    BY DEF DictInv, AnswersRight, DictIsPythons
  <1> QED
    BY <1>1, DictInitInv, DictNextInv, PTL DEF DictSpec
=================================================================================
