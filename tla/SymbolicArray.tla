------------------------------ MODULE SymbolicArray ------------------------------
(***************************************************************************)
(* The concolic array behind the numpy model (types/array.py).  It keeps   *)
(* the plain list of the input that runs, and a log of symbolic writes; a  *)
(* read returns a formula, an if-then-else chain over the log.  The solver *)
(* uses that formula for the other inputs that take the same path, so the  *)
(* module runs the program on all of them at once and compares: an index   *)
(* or element is a function from the input to its value.                   *)
(***************************************************************************)
EXTENDS Integers, Sequences

CONSTANTS
  Input,              \* inputs that take the path of this run
  Ran,                \* the one that runs
  Index,              \* indices in bounds for all of them
  Elem,               \* elements
  Limits,             \* values of _MAX_SYMBOLIC_WRITES considered; -1 is configured
  MaxSets             \* bound: writes the function makes

ASSUME RanAssumption == Ran \in Input
ASSUME WritesAssumption == Limits \subseteq Int /\ MaxSets \in Nat

SymIndex == [Input -> Index]
SymElem == [Input -> Elem]
Array == [Index -> Elem]

VARIABLES
  limit,     \* _MAX_SYMBOLIC_WRITES: bound of the log, fixed; none if negative
  base,      \* what the formula of the array stands for, fixed
  plain,     \* history: the array of each input, had it run
  concrete,  \* _concrete_array
  writes,    \* _symbolic_writes
  sets       \* writes made, for the bound

arrayVars == <<limit, base, plain, concrete, writes, sets>>

ArrayIdle ==
  /\ limit = (CHOOSE l \in Limits : TRUE) /\ base = (CHOOSE b \in [Input -> Array] : TRUE)
  /\ plain = base /\ concrete = base[Ran] /\ writes = <<>> /\ sets = MaxSets

ArrayInit ==
  /\ limit \in Limits
  /\ base \in [Input -> Array]
  /\ plain = base
  /\ concrete = base[Ran]
  /\ writes = <<>>
  /\ sets = 0

\* The log before a write is appended to it: a full one loses its oldest write.
Bounded(log) == IF Len(log) = limit THEN Tail(log) ELSE log

\* Mutant: the position is logged as the number it is in this run.
ConcreteKey(i) == [s \in Input |-> i[Ran]]

\* The formula of the index.
SymbolicKey(i) == i

\* Array.set
Set(i, e) ==
  /\ sets < MaxSets
  /\ sets' = sets + 1
  /\ plain' = [s \in Input |-> [plain[s] EXCEPT ![i[s]] = e[s]]]
  /\ concrete' = [concrete EXCEPT ![i[Ran]] = e[Ran]]
  /\ writes' = IF limit # 0
               THEN Append(Bounded(writes), [key |-> SymbolicKey(i), value |-> e])
               ELSE writes
  /\ UNCHANGED <<limit, base>>

ArrayNext == (\E i \in SymIndex, e \in SymElem : Set(i, e)) \/ (sets = MaxSets /\ UNCHANGED arrayVars)

ArraySpec == ArrayInit /\ [][ArrayNext]_arrayVars

\* The writes whose position is x for input s.
Hits(s, x) == {k \in DOMAIN writes : writes[k].key[s] = x}

\* Mutant: the chain is built from the latest write to the earliest.
First(hits) == CHOOSE k \in hits : \A j \in hits : k <= j

\* In the chain the last write wins.
Winner(hits) == CHOOSE k \in hits : \A j \in hits : j <= k

\* Array.get: the formula of the element at symbolic index i, valued for input s.
Formula(s, i) ==
  IF Hits(s, i[s]) = {} THEN base[s][i[s]] ELSE writes[Winner(Hits(s, i[s]))].value[s]

----------------------------------------------------------------------------------
(* Properties.                                                             *)

TypeOK ==
  /\ limit \in Limits
  /\ base \in [Input -> Array] /\ plain \in [Input -> Array]
  /\ concrete \in Array
  /\ writes \in Seq([key : SymIndex, value : SymElem])
  /\ sets \in 0 .. MaxSets
  /\ limit >= 0 => Len(writes) <= limit

\* Without a bound on the log, whatever index is read next, the formula Array.get
\* returns is right for every input that takes the path, also where the writes
\* before went to positions that coincide for one input and differ for another.
\* For the input that runs it is the concrete element.  With a bound on the log the
\* formula is right for the positions the log still mentions.
FormulaIsRead ==
  \A i \in SymIndex :
    /\ \A s \in Input : (limit < 0 \/ Hits(s, i[s]) # {}) => Formula(s, i) = plain[s][i[s]]
    /\ limit < 0 => Formula(Ran, i) = concrete[i[Ran]]
=================================================================================
