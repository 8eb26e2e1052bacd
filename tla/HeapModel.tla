-------------------------------- MODULE HeapModel --------------------------------
(***************************************************************************)
(* The solver's heap (symbolic/util.py): the values and cells of a model,  *)
(* the axioms every model satisfies, and the formulas that look at a       *)
(* value: type tests, members and equality.                                *)
(***************************************************************************)
EXTENDS Integers, Sequences, FiniteSets

CONSTANTS
  Ref,      \* references
  Class,    \* classes of the tested module
  Field,    \* all_fields
  Bases,    \* class -> its base classes
  Methods   \* class -> the methods it defines

ASSUME ClassAssumption == Bases \in [Class -> SUBSET Class] /\ DOMAIN Methods = Class

\* The any sort.  Opaque values are terms convert_model cannot read; an unassigned
\* one is a variable Z3 left out of its model.
AnyInt(n) == [tag |-> "int", of |-> n]
AnyBool(b) == [tag |-> "bool", of |-> IF b THEN 1 ELSE 0]
AnyFloat(n) == [tag |-> "float", of |-> n]
AnyNone == [tag |-> "none", of |-> 0]
AnyRef(r) == [tag |-> "reference", of |-> r]
Opaque == [tag |-> "opaque", of |-> 0]
Unassigned == [tag |-> "unassigned", of |-> 0]

\* The heap sort.  keys and items are what lies below the length of the list or dict.
ListCell(items, mutable) == [sort |-> "list", items |-> items, mutable |-> mutable]
ObjectCell(class, fields) == [sort |-> "object", class |-> class, fields |-> fields]
DictCell(keys, assoc) == [sort |-> "dict", keys |-> keys, assoc |-> assoc]
\* setmembers is an array without an end, of which the cell keeps a start.
SetCell(members) == [sort |-> "set", members |-> members]
ArrayCell(items) == [sort |-> "array", items |-> items]

\* How many of its entries are in a set the heap does not say: __bound is a function of
\* the reference, which may be below zero.
Bounded(cell, bound) ==
  IF cell.sort = "set" THEN SetCell([x \in 1 .. bound |-> cell.members[x]]) ELSE cell

\* The heap of a model with its sets cut at their bounds.
Contents(m) == [r \in DOMAIN m.heap |-> Bounded(m.heap[r], m.bound[r])]

----------------------------------------------------------------------------------
(* Sorts and axioms.                                                              *)

Distinct(s) == \A x, y \in DOMAIN s : x # y => s[x] # s[y]
Elements(s) == {s[x] : x \in DOMAIN s}
IsSequence(s) == s \in Seq(Elements(s))

IsValue(v) ==
  /\ v = [tag |-> v.tag, of |-> v.of]
  /\ \/ v.tag = "reference" /\ v.of \in Ref
     \/ v.tag \in {"int", "bool", "float"} /\ v.of \in Int
     \/ v.tag \in {"none", "opaque", "unassigned"} /\ v.of = 0
AreValues(s) == IsSequence(s) /\ \A v \in Elements(s) : IsValue(v)

WellSorted(cell) ==
  CASE cell.sort = "list" -> AreValues(cell.items) /\ cell.mutable \in BOOLEAN
    [] cell.sort = "object" -> /\ cell = ObjectCell(cell.class, cell.fields)
                               /\ cell.class \in Class /\ DOMAIN cell.fields \subseteq Field
                               /\ \A f \in DOMAIN cell.fields : IsValue(cell.fields[f])
    [] cell.sort = "dict" -> /\ AreValues(cell.keys) /\ AreValues(cell.assoc)
                             /\ DOMAIN cell.keys = DOMAIN cell.assoc
    [] cell.sort = "set" -> AreValues(cell.members)
    [] cell.sort = "array" -> AreValues(cell.items)
    [] OTHER -> FALSE

\* A model gives each set an array at least as long as its bound.
IsHeap(m) ==
  /\ DOMAIN m.heap = Ref
  /\ \A r \in Ref :
       /\ WellSorted(m.heap[r])
       /\ m.heap[r].sort = "set" => m.bound[r] \in Int /\ m.bound[r] <= Len(m.heap[r].members)

SetMembersDistinct(cell) == Distinct(cell.members)

KeysAreNotReferences(cell) == \A x \in DOMAIN cell.keys : cell.keys[x].tag # "reference"

\* "0 == 0.0 == False", "1 == 1.0 == True", "an int is equal to its corresponding
\* float": the positions x and y differ, but it is one key that must not be both.
NumericKeysOnce(cell) ==
  \A x, y \in DOMAIN cell.keys : x # y =>
    /\ \A n \in {0, 1} : ~(cell.keys[x] = AnyInt(n) /\ cell.keys[x] \in {AnyBool(n = 1), AnyFloat(n)})
    /\ ~(cell.keys[x].tag = "int" /\ cell.keys[x] = AnyFloat(cell.keys[x].of))

KeysDistinct(cell) == Distinct(cell.keys)

ListsNotInSets(heap, cell) ==
  \A v \in Elements(cell.members) : v.tag = "reference" => heap[v.of].sort # "list"

NumericMembersOnce(cell) ==
  \A n \in {0, 1} : AnyBool(n = 1) \in Elements(cell.members) =>
    AnyInt(n) \notin Elements(cell.members) /\ AnyFloat(n) \notin Elements(cell.members)

IntegerMembersOnce(cell) ==
  \A v \in Elements(cell.members) : v.tag = "int" => AnyFloat(v.of) \notin Elements(cell.members)

\* get_axioms, under Z3, of the contents of a model: __s holds below __bound.
Axioms(heap) ==
  \A r \in DOMAIN heap :
    /\ heap[r].sort = "dict" =>
         KeysAreNotReferences(heap[r]) /\ NumericKeysOnce(heap[r]) /\ KeysDistinct(heap[r])
    /\ heap[r].sort = "set" =>
         /\ SetMembersDistinct(heap[r]) /\ ListsNotInSets(heap, heap[r])
         /\ NumericMembersOnce(heap[r]) /\ IntegerMembersOnce(heap[r])

----------------------------------------------------------------------------------
(* Formulas.                                                               *)

\* create_subtree_graph inverts the base classes.
Subclasses(c) == {d \in Class : c \in Bases[d]}

\* Mutant: the class itself and its direct subclasses.
OneLevel(c) == {c} \cup Subclasses(c)

\* class_type_recognizer walks the inverted graph: what is reached is in every set
\* that has the class and all subclasses of its members.
Recognized(c) ==
  {d \in Class : \A S \in SUBSET Class : c \in S /\ (\A e \in S : Subclasses(e) \subseteq S) => d \in S}

IsCell(heap, v, sort) == v.tag = "reference" /\ heap[v.of].sort = sort

\* Mutant: lists and tuples are not told apart.
AnyList(heap, v, mutable) == IsCell(heap, v, "list")

ListTest(heap, v, mutable) == IsCell(heap, v, "list") /\ heap[v.of].mutable = mutable

\* intercept_isinstance, for the classes of the module and for builtins
IsInstance(heap, v, type) ==
  CASE type \in Class -> IsCell(heap, v, "object") /\ heap[v.of].class \in Recognized(type)
    [] type = "list" -> ListTest(heap, v, TRUE)
    [] type = "tuple" -> ListTest(heap, v, FALSE)
    [] type \in {"dict", "set"} -> IsCell(heap, v, type)
    [] OTHER -> v.tag = type

\* handle_member: a field is looked up, a method decided by the class.
HasField(heap, v, f) == IsCell(heap, v, "object") /\ f \in DOMAIN heap[v.of].fields
HasMethod(heap, v, m) ==
  IsCell(heap, v, "object") /\ \E c \in Class : m \in Methods[c] /\ heap[v.of].class \in Recognized(c)

\* Mutant: the recognizers are conjoined and the dereferenced values are not.
EqualSorts(heap, v, w) == heap[v.of].sort = heap[w.of].sort

\* generate_list_eq, generate_set_eq, generate_dict_eq: references to equal cells.  The cell
\* of a list or dict has its length, that of a set has not.
EqualCells(heap, v, w) == heap[v.of] = heap[w.of]

SameAnyType(heap, v, w) ==
  /\ v.tag = w.tag
  /\ v.tag = "reference" =>
       heap[v.of].sort = heap[w.of].sort /\ heap[v.of].sort # "array"

\* handle_eq of two symbolic values whose Python types are those given
EqFormula(heap, v, w, type, otherType) ==
  IF type = otherType /\ type \in {"list", "tuple", "set", "dict"} THEN EqualCells(heap, v, w)
  ELSE IF {type, otherType} \subseteq {"int", "bool", "float"} THEN v.of = w.of
  ELSE SameAnyType(heap, v, w) /\ v = w
==================================================================================
