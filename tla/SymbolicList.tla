------------------------------- MODULE SymbolicList -------------------------------
(***************************************************************************)
(* A concolic list under the operations of symbolic/handleops/method.py.   *)
(* The list is kept as the concrete list of the input, the mutations made  *)
(* since (index -> assigned value) and additions, the change in length.    *)
(* Beside it the module runs the same program on a plain Python list.       *)
(***************************************************************************)
EXTENDS Integers, FiniteSets, Functions

CONSTANTS
  Val,      \* elements; they are numbers, since setitem compares them with indices
  MaxLen,   \* bound: length of the list in the input
  MaxListOps,   \* bound: operations
  NoVal     \* what a read that raises IndexError returns

ASSUME ValAssumption == Val \subseteq Int /\ NoVal \notin Val
ASSUME ListBoundAssumption == MaxLen \in Nat /\ MaxListOps \in Nat

VARIABLES
  original,   \* the list the formulas speak of, fixed
  listValue,  \* get_value()
  mutations,  \* get_mutations()
  additions,  \* get_additions()
  pyList,     \* history: the Python list
  used,       \* history: kinds of operations made
  popped,     \* history: what the last pop returned, here and in Python
  listOps,    \* operations made, for the bound
  raised      \* an operation raised, which ends the run

listVars == <<original, listValue, mutations, additions, pyList, used, popped, listOps, raised>>

\* Lists of n elements are functions on 0 .. n - 1.
List(n) == [0 .. n - 1 -> Val]
Length(l) == Cardinality(DOMAIN l)

\* Python's reading of an index: negative ones count from the end.
Position(l, i) == IF i < 0 THEN i + Length(l) ELSE i
InRange(l, i) == Position(l, i) \in DOMAIN l
Extend(f, i, x) == [j \in DOMAIN f \cup {i} |-> IF j = i THEN x ELSE f[j]]
Without(f, i) == [j \in DOMAIN f \ {i} |-> f[j]]
Empty == [j \in {} |-> NoVal]

ListIdle ==
  /\ original = Empty /\ listValue = Empty /\ mutations = Empty /\ additions = 0
  /\ pyList = Empty /\ used = {} /\ popped = <<NoVal, NoVal>> /\ listOps = MaxListOps /\ raised = FALSE

ListInit ==
  /\ \E n \in 0 .. MaxLen : original \in List(n)
  /\ listValue = original
  /\ mutations = Empty
  /\ additions = 0
  /\ pyList = original
  /\ used = {}
  /\ popped = <<NoVal, NoVal>>
  /\ listOps = 0
  /\ raised = FALSE

Op(kind) ==
  /\ ~raised /\ listOps < MaxListOps
  /\ listOps' = listOps + 1
  /\ used' = used \cup {kind}

\* handle_getitem: the concrete half of what reading index i returns.
ReadItem(i) ==
  IF i \in DOMAIN mutations THEN mutations[i]
  ELSE IF InRange(listValue, i) THEN listValue[Position(listValue, i)] ELSE NoVal

\* The formula of the same read, valued for the input that runs.
ItemFormula(i) ==
  IF i \in DOMAIN mutations THEN mutations[i] ELSE IF i \in DOMAIN original THEN original[i] ELSE NoVal

\* handle_len
SymbolicLen == Length(listValue) + additions

\* Mutant: an assignment is stored in the concrete list only.
NotMutated(i, x) == mutations

Mutated(i, x) == Extend(mutations, i, x)

\* handle_setitem.  additions grows when the index is neither among the list's
\* VALUES nor in the mutations.  The program makes no call that Python refuses.
SetItem(i, x) ==
  /\ Op(IF i < 0 THEN "negative" ELSE "overwrite")
  /\ InRange(pyList, i)
  /\ additions' = IF i \notin Range(listValue) /\ i \notin DOMAIN mutations THEN additions + 1 ELSE additions
  /\ pyList' = [pyList EXCEPT ![Position(pyList, i)] = x]
  /\ IF InRange(listValue, i)
     THEN /\ listValue' = [listValue EXCEPT ![Position(listValue, i)] = x]
          /\ mutations' = Mutated(i, x)
          /\ UNCHANGED raised
     ELSE raised' = TRUE /\ UNCHANGED <<listValue, mutations>>
  /\ UNCHANGED <<original, popped>>

\* Mutant: the new element goes to the last index.
LastIndex == Length(listValue) - 1

NewIndex == Length(listValue)

\* handle_append
AppendItem(x) ==
  /\ Op(IF Length(pyList) = Length(original) THEN "append" ELSE "append again")
  /\ mutations' = Extend(mutations, NewIndex, x)
  /\ additions' = additions + 1
  /\ pyList' = Extend(pyList, Length(pyList), x)
  /\ UNCHANGED <<original, listValue, popped, raised>>

\* Mutant: a pop does not shorten the list.
KeepLength == 0

Shortened == 1

\* handle_pop
Pop ==
  /\ Op("pop")
  /\ Length(pyList) > 0
  /\ LET last == Length(listValue) - 1
         end == Length(pyList) - 1
         read == IF last \in DOMAIN mutations THEN mutations[last] ELSE ReadItem(SymbolicLen - 1)
     IN  /\ mutations' = IF last \in DOMAIN mutations THEN Without(mutations, last) ELSE mutations
         /\ raised' = (read = NoVal)
         /\ additions' = IF read = NoVal THEN additions ELSE additions - Shortened
         /\ popped' = <<read, pyList[end]>>
         /\ pyList' = Without(pyList, end)
  /\ UNCHANGED <<original, listValue>>

ListNext ==
  \/ \E x \in Val : AppendItem(x) \/ \E i \in -1 .. MaxLen + MaxListOps : SetItem(i, x)
  \/ Pop
  \/ (raised \/ listOps = MaxListOps) /\ UNCHANGED listVars

ListSpec == ListInit /\ [][ListNext]_listVars

----------------------------------------------------------------------------------
(* Properties.                                                             *)

\* As long as the program assigns to non-negative indices and appends at most one
\* element, reading any index of the Python list returns what Python returns, and the
\* formula of the read says the same.  With appends one at a time and pops, a pop
\* returns Python's last element, and the length is Python's.
ListIsPythons ==
  /\ ~raised /\ used \subseteq {"overwrite", "append"} =>
       \A i \in DOMAIN pyList : ReadItem(i) = pyList[i] /\ ItemFormula(i) = pyList[i]
  /\ used \subseteq {"append", "pop"} =>
       popped[1] = popped[2] /\ ~raised /\ SymbolicLen = Length(pyList)

\* SymbolicValue.get_additions: "the deviation from the starting length of a list".
AdditionsIsDeviation ==
  ~raised /\ "negative" \notin used => additions = Length(pyList) - Length(original)
=================================================================================
