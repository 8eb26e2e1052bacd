----------------------------- MODULE SymbolicNumbers -----------------------------
(***************************************************************************)
(* A function computes on an annotated numeric argument x (symbolic/       *)
(* handleops/arithmetic.py, and handle_eq of generic.py): a value is       *)
(* combined with constants and with x, converted, and compared in          *)
(* branches.  The solver sees a formula of x and takes it for the value on *)
(* every input of the path.                                                *)
(***************************************************************************)
EXTENDS Numbers

CONSTANTS
  Inputs,          \* numbers x may be
  Literals,        \* constants of the function
  DividesIntegers, \* whether it divides an integer by an integer with /
  MaxOps           \* bound: operations

Number == [kind : Kinds, class : Classes, real : [num : Int, den : Nat \ {0}]]
IsNumber(x) ==
  /\ x \in Number
  /\ x.class # "finite" => x.kind = "float" /\ x.real = Zero
  /\ x.kind # "float" => x.real.den = 1
  /\ x.kind = "bool" => x.real.num \in {0, 1}

ASSUME NumbersAssumption == \A x \in Inputs \cup Literals : IsNumber(x)
ASSUME SwitchAssumption == DividesIntegers \in BOOLEAN /\ MaxOps \in Nat

VARIABLES
  arg,      \* the input of the run
  formula,  \* the formula of the value, as a function of the input
  python,   \* history: Python's value, likewise, or what it raised
  class,    \* the inputs on the path, by the recorded conditions
  pyPath,   \* history: the inputs on which Python does what it does in the run
  running, ops

numberVars == <<arg, formula, python, class, pyPath, running, ops>>

Exception(name) == [kind |-> name, class |-> "raised", real |-> Zero]
DividedByZero == Exception("ZeroDivisionError")
NotFinite == Exception("not finite")   \* of int(): ValueError or OverflowError
Raised(x) == x.class = "raised"

NumberIdle ==
  /\ arg = (CHOOSE i \in Inputs : TRUE)
  /\ class = {} /\ formula = <<>> /\ python = <<>> /\ pyPath = {} /\ running = FALSE /\ ops = 0

NumberInit ==
  /\ arg \in Inputs
  /\ class = {i \in Inputs : i.kind = arg.kind}
  /\ formula = [i \in class |-> i]
  /\ python = formula
  /\ pyPath = class
  /\ running = TRUE
  /\ ops = 0

----------------------------------------------------------------------------------
(* Operands: the value so far, x, or a constant, on each input.            *)

Value == [kind |-> "value"]
X == [kind |-> "x"]
OperandPairs == {<<Value, X>>, <<X, Value>>} \cup ({Value} \X Literals) \cup (Literals \X {Value})
At(values, operand, i) ==
  CASE operand = Value -> values[i] [] operand = X -> i [] OTHER -> operand
KindOf(operand) == At(python, operand, arg).kind

\* convert_both_halves: to the sort that the kinds in the run call for
Converted(operand, l, r, i) == Narrowed(At(formula, operand, i), CommonKind(KindOf(l), KindOf(r)))

\* One operation, with Python's value Py(i) on input i and the formula F(i).  Python
\* goes on where it has not raised.
Compute(Py(_), F(_)) ==
  /\ python' = [i \in DOMAIN python |-> IF Raised(python[i]) THEN python[i] ELSE Py(i)]
  /\ formula' = [i \in class' |-> F(i)]
  /\ running' = ~Raised(python'[arg])
  /\ pyPath' = {i \in pyPath : Raised(python'[i]) = Raised(python'[arg])}
  /\ ops' = ops + 1
  /\ UNCHANGED arg

\* + - *
Arithmetic(op, l, r) ==
  /\ class' = class
  /\ Compute(LAMBDA i : PyArith(op, At(python, l, i), At(python, r, i)),
             LAMBDA i : FormulaArith(op, Converted(l, l, r, i), Converted(r, l, r, i)))

\* The denominator is compared with zero in the sort of its kind in the run.
NonZero(r, i) == Narrowed(At(formula, r, i), KindOf(r)).real.num # 0

SameZero(r) == {i \in class : NonZero(r, i) = NonZero(r, arg)}

\* / and //: a zero denominator raises, after a branch.  A denominator that is a
\* float, and an operand of // that is one, are not modelled.
Division(op, l, r) ==
  /\ KindOf(r) # "float"
  /\ op = "//" => KindOf(l) # "float"
  /\ op = "/" => KindOf(l) = "float" \/ DividesIntegers
  /\ class' = SameZero(r)
  /\ Compute(LAMBDA i : IF At(python, r, i).real.num = 0 THEN DividedByZero
                        ELSE IF op = "/" THEN PyArith(op, At(python, l, i), At(python, r, i))
                        ELSE PyFloorDiv(At(python, l, i), At(python, r, i)),
             LAMBDA i : IF ~NonZero(r, i) THEN formula[i]
                        ELSE IF op = "/" THEN FormulaArith(op, Converted(l, l, r, i), Converted(r, l, r, i))
                        ELSE FormulaFloorDiv(Converted(l, l, r, i), Converted(r, l, r, i)))

\* handle_int: int of a NaN or an infinity raises, and no branch is recorded.
ConvertToInt ==
  /\ class' = class
  /\ Compute(LAMBDA i : IF IsFinite(python[i]) THEN PyInt(python[i]) ELSE NotFinite,
             LAMBDA i : Narrowed(formula[i], "int"))

\* handle_float
ConvertToFloat ==
  /\ class' = class
  /\ Compute(LAMBDA i : [python[i] EXCEPT !.kind = "float"],
             LAMBDA i : Narrowed(formula[i], "float"))

\* if l op r:
Branch(op, l, r) ==
  LET true(i) == FormulaCompare(op, Converted(l, l, r, i), Converted(r, l, r, i))
      pyTrue(i) == PyCompare(op, At(python, l, i), At(python, r, i))
  IN  /\ class' = {i \in class : true(i) = pyTrue(arg)}
      /\ pyPath' = {i \in pyPath : pyTrue(i) = pyTrue(arg)}
      /\ formula' = [i \in class' |-> formula[i]]
      /\ ops' = ops + 1
      /\ UNCHANGED <<arg, python, running>>

Operation ==
  /\ running /\ ops < MaxOps
  /\ \/ \E p \in OperandPairs :
          \/ \E op \in {"+", "-", "*"} : Arithmetic(op, p[1], p[2])
          \/ \E op \in {"/", "//"} : Division(op, p[1], p[2])
          \/ \E op \in {"<", "<=", ">", ">=", "=="} : Branch(op, p[1], p[2])
     \/ ConvertToInt \/ ConvertToFloat

NumberNext == Operation \/ ((~running \/ ops = MaxOps) /\ UNCHANGED numberVars)

NumberSpec == NumberInit /\ [][NumberNext]_numberVars

----------------------------------------------------------------------------------
(* Properties.                                                             *)

\* On every input of the path the formula is Python's value: after conversions
\* between kinds, with NaNs and infinities, and for either order of the operands.
\* Only where int() has raised does the formula say nothing.
FormulaIsPythons == running => \A i \in class : python[i] # NotFinite => formula[i] = python[i]

\* The recorded branches, those on zero denominators included, hold on the inputs on
\* which Python takes them, and on no others but those on which int() has raised.
PathIsPythons == running => pyPath = {i \in class : python[i] # NotFinite}

\* The number and the way to it are Python's.
NumbersArePythons == FormulaIsPythons /\ PathIsPythons
==================================================================================
