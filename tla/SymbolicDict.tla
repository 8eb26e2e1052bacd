------------------------------- MODULE SymbolicDict -------------------------------
(***************************************************************************)
(* A concolic dict under the operations of symbolic/handleops/method.py,   *)
(* on every input at once: a formula stands for its value on each dict the *)
(* parameter may be, the concrete half is that of the dict of the run.     *)
(* Beside it the same program runs on plain Python dicts.                  *)
(***************************************************************************)
EXTENDS Integers, Sequences, FiniteSets

CONSTANTS
  Key,       \* keys; 0, 1 and so on are positions as well
  Content,   \* values
  DictInput, \* the dicts of the inputs: [keys: in their order, assoc: key -> value]
  MaxSteps   \* bound on operations

KeyError == -1
Unconstrained == -2

ASSUME ContentAssumption == Content \subseteq Nat
ASSUME DictInputAssumption ==
  \A d \in DictInput : /\ d.keys \in Seq(Key)
                       /\ DOMAIN d.assoc = {d.keys[x] : x \in DOMAIN d.keys}
                       /\ Cardinality(DOMAIN d.assoc) = Len(d.keys)

VARIABLES
  source,   \* the dict of the run, fixed; the formulas speak of the input's dict
  current,  \* get_value(): its concrete dict, mutated in place
  written,  \* get_mutations()
  added,    \* get_additions()
  dicts,    \* history: each input's Python dict
  onPath,   \* inputs on the path
  answer,   \* the last answer: concrete half, formula, Python's
  failed,   \* the run ended with a KeyError
  clear,    \* history: only questions that the mutations do not confuse
  steps     \* operations made, for the bound

dictVars == <<source, current, written, added, dicts, onPath, answer, failed, clear, steps>>

Keys(d) == DOMAIN d.assoc
Put(d, k, x) ==
  [keys |-> IF k \in Keys(d) THEN d.keys ELSE Append(d.keys, k),
   assoc |-> [j \in Keys(d) \cup {k} |-> IF j = k THEN x ELSE d.assoc[j]]]
Look(d, k, otherwise) == IF k \in Keys(d) THEN d.assoc[k] ELSE otherwise

NoAnswer == [v |-> 0, formula |-> [d \in DictInput |-> 0], dicts |-> [d \in DictInput |-> 0]]

DictInit ==
  /\ source \in DictInput /\ current = source
  /\ written = [k \in {} |-> 0] /\ added = 0
  /\ dicts = [d \in DictInput |-> d]
  /\ onPath = DictInput /\ answer = NoAnswer /\ failed = FALSE /\ clear = TRUE /\ steps = 0

DictIdle ==
  /\ source = (CHOOSE d \in DictInput : TRUE) /\ current = source
  /\ written = [k \in {} |-> 0] /\ added = 0
  /\ dicts = [d \in DictInput |-> d]
  /\ onPath = DictInput /\ answer = NoAnswer /\ failed = FALSE /\ clear = FALSE /\ steps = MaxSteps

Step == ~failed /\ steps < MaxSteps /\ steps' = steps + 1

\* A branch with that concrete half and formula
Record(v, Formula(_)) == onPath' = {d \in onPath : Formula(d) = v}

Answers(v, Formula(_), Python(_)) ==
  answer' = [v |-> v, formula |-> [d \in DictInput |-> Formula(d)],
             dicts |-> [d \in DictInput |-> Python(dicts[d])]]

Size == Len(current.keys)
WrittenValues == {written[k] : k \in DOMAIN written}

\* Written values are not asked for as keys, nor are positions written.
NotConfused(k) == k \notin WrittenValues /\ DOMAIN written \cap 0 .. Size = {}
Untouched == DOMAIN written = {}

\* Mutant: no look past the length of the dict of the run.
NoLookAhead(d, k) ==
  \/ \E i \in 0 .. Size - 1 : i \notin DOMAIN written /\ i < Len(d.keys) /\ d.keys[i + 1] = k
  \/ k \in WrittenValues

\* exists_in_dict_keys, of the concrete length: one key further than it, then each
\* position that is not a written key, then the written VALUES.
ExistsInKeys(d, k) ==
  \/ Len(d.keys) >= Size + 1 /\ d.keys[Size + 1] = k
  \/ \E i \in 0 .. Size - 1 : i \notin DOMAIN written /\ i < Len(d.keys) /\ d.keys[i + 1] = k
  \/ k \in WrittenValues

\* Mutant: the mutation is made in the concrete dict only.
NotWritten(k, x) == written

Written(k, x) == [j \in DOMAIN written \cup {k} |-> IF j = k THEN x ELSE written[j]]

\* handle_setitem of a literal key
Assign(k, x) ==
  /\ Step
  /\ added' = IF k \notin Keys(current) /\ k \notin DOMAIN written THEN added + 1 ELSE added
  /\ current' = Put(current, k, x)
  /\ written' = Written(k, x)
  /\ dicts' = [d \in DictInput |-> Put(dicts[d], k, x)]
  /\ UNCHANGED <<source, onPath, answer, failed, clear>>

\* handle_getitem of a literal key
ReadKey(k) ==
  /\ Step
  /\ IF k \in DOMAIN written
     THEN /\ Answers(written[k], LAMBDA d : written[k], LAMBDA p : Look(p, k, KeyError))
          /\ UNCHANGED onPath
     ELSE /\ Record(k \in Keys(current), LAMBDA d : ExistsInKeys(d, k))
          /\ Answers(Look(current, k, KeyError), LAMBDA d : Look(d, k, KeyError),
                     LAMBDA p : Look(p, k, KeyError))
  /\ failed' = (k \notin DOMAIN written /\ k \notin Keys(current))
  /\ clear' = (clear /\ NotConfused(k))
  /\ UNCHANGED <<source, current, written, added, dicts>>

\* handle_contains, as the test of an if; a written VALUE that is equal answers True.
Contains(k) ==
  /\ Step
  /\ IF k \in WrittenValues
     THEN /\ Answers(TRUE, LAMBDA d : TRUE, LAMBDA p : k \in Keys(p))
          /\ UNCHANGED onPath
     ELSE /\ Record(k \in Keys(current), LAMBDA d : ExistsInKeys(d, k))
          /\ Answers(k \in Keys(current), LAMBDA d : ExistsInKeys(d, k), LAMBDA p : k \in Keys(p))
  /\ clear' = (clear /\ NotConfused(k) /\ k \notin DOMAIN written)
  /\ UNCHANGED <<source, current, written, added, dicts, failed>>

\* handle_get with a literal default
Get(k, default) ==
  /\ Step
  /\ IF k \in DOMAIN written
     THEN /\ Answers(written[k], LAMBDA d : written[k], LAMBDA p : Look(p, k, default))
          /\ UNCHANGED onPath
     ELSE /\ Record(k \in Keys(current), LAMBDA d : ExistsInKeys(d, k))
          /\ Answers(Look(current, k, default),
                     LAMBDA d : IF ExistsInKeys(d, k) THEN Look(d, k, Unconstrained) ELSE default,
                     LAMBDA p : Look(p, k, default))
  /\ clear' = (clear /\ NotConfused(k))
  /\ UNCHANGED <<source, current, written, added, dicts, failed>>

\* handle_len
DictLen ==
  /\ Step
  /\ Answers(Size + added, LAMBDA d : Len(d.keys) + added, LAMBDA p : Len(p.keys))
  /\ clear' = (clear /\ Untouched)
  /\ UNCHANGED <<source, current, written, added, dicts, failed, onPath>>

\* handle_keys: a new list asserted to be the keys
KeysList ==
  /\ Step
  /\ Answers(current.keys, LAMBDA d : d.keys, LAMBDA p : p.keys)
  /\ clear' = (clear /\ Untouched)
  /\ UNCHANGED <<source, current, written, added, dicts, failed, onPath>>

Items(d, n) == [x \in 1 .. n |-> <<d.keys[x], d.assoc[d.keys[x]]>>]

\* Every item of the run's dict is asserted to be one of the input's.
LongEnough(d) == Len(d.keys) >= Size

\* handle_items; items past the length of the run's dict are not constrained.
ItemsList ==
  /\ Step
  /\ onPath' = {d \in onPath : LongEnough(d)}
  /\ Answers(Items(current, Size),
             LAMBDA d : Items(d, IF Len(d.keys) < Size THEN Len(d.keys) ELSE Size),
             LAMBDA p : Items(p, IF Len(p.keys) < Size THEN Len(p.keys) ELSE Size))
  /\ clear' = (clear /\ Untouched)
  /\ UNCHANGED <<source, current, written, added, dicts, failed>>

DictNext ==
  \/ \E k \in Key : \/ ReadKey(k) \/ Contains(k)
                    \/ \E x \in Content : Assign(k, x) \/ Get(k, x)
  \/ DictLen \/ KeysList \/ ItemsList
  \/ (failed \/ steps = MaxSteps) /\ UNCHANGED dictVars

DictSpec == DictInit /\ [][DictNext]_dictVars

----------------------------------------------------------------------------------
(* Properties.                                                             *)

\* A dict that was not written answers every question, and a written one the reading
\* of its keys, as Python would on every input of the path that has at most one key
\* more than the run's; the run stays on its own path.
DictIsPythons ==
  clear =>
    /\ source \in onPath /\ answer.v = answer.formula[source]
    /\ \A d \in onPath : Len(d.keys) <= Len(source.keys) + 1 => answer.formula[d] = answer.dicts[d]
==================================================================================
