------------------------------ MODULE SymbolicSlices ------------------------------
(***************************************************************************)
(* handle_getslice (symbolic/handleops/method.py): s[start:stop] of a      *)
(* symbolic string or list.  A bound is absent, a literal or a parameter.  *)
(* Two assertions tie a new variable to the slice, one for strings and one *)
(* for lists; what they say of it on an input is its formula.              *)
(***************************************************************************)
EXTENDS Integers, Sequences, FiniteSets

CONSTANTS
  Char,        \* characters, and elements of lists
  SliceInput,  \* inputs: the sequence and the values of the parameters
  Bound        \* the bounds of slices

Absent == [by |-> "absent", n |-> 0]
LiteralBound(n) == [by |-> "literal", n |-> n]
BoundParameter == [by |-> "parameter", n |-> 0]

ASSUME BoundAssumption ==
  \A b \in Bound : b \in {Absent, BoundParameter} \/ (b.n \in Int /\ b = LiteralBound(b.n))
ASSUME SliceInputAssumption ==
  \A i \in SliceInput : i.seq \in Seq(Char) /\ i.start \in Int /\ i.stop \in Int

\* str.substr of the solver
SubString(s, offset, length) ==
  IF offset \in 0 .. Len(s) - 1 /\ length > 0
  THEN SubSeq(s, offset + 1, IF offset + length < Len(s) THEN offset + length ELSE Len(s))
  ELSE <<>>

\* s[start:stop] of Python
Clamped(n, length) ==
  LET m == IF n < 0 THEN n + length ELSE n
  IN  IF m < 0 THEN 0 ELSE IF m > length THEN length ELSE m
PySlice(s, start, stop) == SubSeq(s, Clamped(start, Len(s)) + 1, Clamped(stop, Len(s)))

VARIABLES
  slice,     \* [kind, start, stop]: the operation
  owner,     \* the input of the run
  sliced,    \* handle_getslice has recorded its branch
  slicePath  \* inputs on the path

sliceVars == <<slice, owner, sliced, slicePath>>

StartOf(i) == CASE slice.start = Absent -> 0
                [] slice.start = BoundParameter -> i.start
                [] OTHER -> slice.start.n
StopOf(i) == CASE slice.stop = Absent -> Len(i.seq)
               [] slice.stop = BoundParameter -> i.stop
               [] OTHER -> slice.stop.n

\* Mutant: a negative stop is not counted from the end.
RawStop(i) == StopOf(i)

\* stop_formula
StopFormula(i) == IF StopOf(i) >= 0 THEN StopOf(i) ELSE StopOf(i) + Len(i.seq)

SliceIdle ==
  /\ slice = [kind |-> "str", start |-> Absent, stop |-> Absent]
  /\ owner = CHOOSE i \in SliceInput : TRUE
  /\ sliced = TRUE /\ slicePath = {}

SliceInit ==
  /\ slice \in [kind : {"str", "list"}, start : Bound, stop : Bound]
  /\ owner \in SliceInput
  /\ sliced = FALSE /\ slicePath = SliceInput

\* Mutant: the bound that is compared is the start.
StartWithin(i) == Len(i.seq) >= StartOf(i)

StopWithin(i) == Len(i.seq) >= StopFormula(i)

\* Which bound is compared with the length hangs on the concrete stop, unrecorded.
Within(i) == IF StopOf(owner) > 0 THEN StopWithin(i) ELSE Len(i.seq) >= StartOf(i)

GetSlice ==
  /\ ~sliced
  /\ slicePath' = {i \in slicePath : Within(i) = Within(owner)}
  /\ sliced' = TRUE
  /\ UNCHANGED <<slice, owner>>

\* The assertion for strings
StringFormula(i) == SubString(i.seq, StartOf(i), StopFormula(i) - StartOf(i))

\* The assertion for lists says nothing when there is no index below the length.
Constrained(i) == StopFormula(i) > StartOf(i)

\* Below the length of the slice; what is past the end of the list is any value.
Outside == "outside"
ListFormula(i) ==
  [k \in 1 .. StopFormula(i) - StartOf(i) |->
     IF StartOf(i) + k \in DOMAIN i.seq THEN i.seq[StartOf(i) + k] ELSE Outside]

SliceNext == GetSlice \/ (sliced /\ UNCHANGED sliceVars)

SliceSpec == SliceInit /\ [][SliceNext]_sliceVars

----------------------------------------------------------------------------------
(* Properties.                                                             *)

PythonSlice(i) == PySlice(i.seq, StartOf(i), StopOf(i))

\* With a start that is not negative, a slice of a string is Python's on every input,
\* and so is a slice of a list that is not empty, on every input of the path of a run
\* whose stop was positive and inside the list: the one branch recorded keeps the
\* stops of the other inputs inside theirs.
SliceIsPythons ==
  sliced => \A i \in slicePath : StartOf(i) >= 0 =>
    /\ slice.kind = "str" => StringFormula(i) = PythonSlice(i)
    /\ slice.kind = "list" /\ StopOf(owner) \in 1 .. Len(owner.seq) /\ Constrained(i) =>
         ListFormula(i) = PythonSlice(i)
==================================================================================
