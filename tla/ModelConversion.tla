----------------------------- MODULE ModelConversion -----------------------------
(***************************************************************************)
(* record_path turns each model of the solver into a frame of concrete     *)
(* parameters (engine/engine.py:224-263).  convert_model and               *)
(* convert_reference (engine/util.py) walk the model's heap, which may     *)
(* share cells and have cycles, and keep the objects they made in a cache  *)
(* that is global to the process.  An activation of convert_reference is a *)
(* record on the stack; it catches every exception and then returns [].    *)
(***************************************************************************)
EXTENDS HeapModel

CONSTANTS
  Importable,  \* classes found in the module
  FieldOrder,  \* all_fields, in its order
  Queries,     \* bound on queries
  Answers(_)   \* bound: what the solver may answer to each

ASSUME QueriesAssumption == Queries \in Nat
ASSUME ImportableAssumption == Importable \subseteq Class
ASSUME NamesAssumption ==
  Class \cap {"int", "bool", "float", "none", "opaque", "list", "tuple", "dict", "set", "array"} = {}
ASSUME FieldAssumption ==
  FieldOrder \in Seq(Field) /\ Elements(FieldOrder) = Field /\ Distinct(FieldOrder)
ASSUME AnswersAssumption ==
  \A k \in 1 .. Queries : \A m \in Answers(k) :
    IsHeap(m) /\ AreValues(m.params) /\ Axioms(Contents(m))

VARIABLES
  model,    \* the model being converted
  frame,    \* parameters converted so far
  stack,    \* activations of convert_reference, the innermost first
  result,   \* what the last call returned, if its caller has not taken it
  cache,    \* references: reference -> object
  objects,  \* Python objects, by identity
  first,    \* history: the first object of this conversion
  caught,   \* history: convert_reference caught an exception in this conversion
  escaped,  \* history: the last conversion ended with an exception
  answers   \* queries answered, for the bound

vars == <<model, frame, stack, result, cache, objects, first, caught, escaped, answers>>

NoModel == [heap |-> <<>>, bound |-> <<>>, params |-> <<>>]
Nothing == [tag |-> "nothing", of |-> 0]
Raise == [tag |-> "raise", of |-> 0]
Object(id) == [tag |-> "pointer", of |-> id]
PyObject(kind, class, contents) == [kind |-> kind, class |-> class, contents |-> contents]
EmptyList == PyObject("list", "list", <<>>)
EmptyCache == [r \in {} |-> 0]

Init ==
  /\ model = NoModel /\ frame = <<>> /\ stack = <<>> /\ result = Nothing
  /\ cache = EmptyCache /\ objects = <<>>
  /\ first = 1 /\ caught = FALSE /\ escaped = FALSE /\ answers = 0

\* No query, in a run about something else.
Idle ==
  /\ model = NoModel /\ frame = <<>> /\ stack = <<>> /\ result = Nothing
  /\ cache = EmptyCache /\ objects = <<>>
  /\ first = 1 /\ caught = FALSE /\ escaped = FALSE /\ answers = Queries

\* solver.check() is sat
Answer ==
  /\ model = NoModel /\ answers < Queries
  /\ \E m \in Answers(answers + 1) : model' = m
  /\ answers' = answers + 1
  /\ frame' = <<>>
  /\ first' = Len(objects) + 1
  /\ caught' = FALSE
  /\ UNCHANGED <<stack, result, cache, objects, escaped>>

Complete == model # NoModel /\ stack = <<>> /\ result = Nothing /\ Len(frame) = Len(model.params)

Working == model # NoModel /\ result = Nothing /\ ~Complete
Children == stack[1].todo

\* A field the object of the model has not, which the loop over all_fields passes over.
Absent == [tag |-> "absent", of |-> 0]

\* The value the code is about to convert.
Pending == IF stack = <<>> THEN model.params[Len(frame) + 1] ELSE Children[1].value
HasPending == Working /\ (stack # <<>> => Children # <<>> /\ Children[1].value # Absent)

\* Simplifying what Z3 left out of its model raises, and 0 is returned.
Plain(v) == IF v = Unassigned THEN AnyInt(0) ELSE v

\* convert_model of a value that is no reference, or of one in the cache
ConvertValue ==
  /\ HasPending
  /\ Pending.tag = "reference" => Pending.of \in DOMAIN cache
  /\ result' = CASE Pending.tag = "reference" -> Object(cache[Pending.of])
                 [] Pending = Opaque -> Raise
                 [] OTHER -> Plain(Pending)
  /\ UNCHANGED <<model, frame, stack, cache, objects, first, caught, escaped, answers>>

\* What is still to be converted for a cell, in the order of the code; a dict's keys
\* and values alternate.
NoKey == Nothing
ToConvert(cell) ==
  CASE cell.sort = "list" -> [k \in DOMAIN cell.items |-> [slot |-> k, value |-> cell.items[k]]]
    [] cell.sort = "set" -> [k \in DOMAIN cell.members |-> [slot |-> k, value |-> cell.members[k]]]
    [] cell.sort = "dict" ->
         [k \in 1 .. 2 * Len(cell.keys) |->
            LET x == (k + 1) \div 2
            IN  IF k % 2 = 1 THEN [slot |-> NoKey, value |-> cell.keys[x]]
                ELSE [slot |-> cell.keys[x], value |-> cell.assoc[x]]]
    [] cell.sort = "object" ->
         [k \in DOMAIN FieldOrder |->
            LET f == FieldOrder[k]
            IN  [slot |-> f, value |-> IF f \in DOMAIN cell.fields THEN cell.fields[f] ELSE Absent]]

\* The object that stands for a cell before its children are converted.
Shell(cell) ==
  CASE cell.sort = "object" -> PyObject("object", cell.class, [f \in {} |-> 0])
    [] cell.sort = "set" -> PyObject("set", "set", {})
    [] cell.sort = "dict" -> PyObject("dict", "dict", [k \in {} |-> 0])
    [] OTHER -> EmptyList

\* convert_reference of a cell with children: the shell is cached first.
EnterCell(r) ==
  LET cell == Contents(model)[r]
      id == Len(objects) + 1
  IN  /\ cell.sort # "array"
      /\ cell.sort = "object" => cell.class \in Importable
      /\ objects' = Append(objects, Shell(cell))
      /\ cache' = [q \in DOMAIN cache \cup {r} |-> IF q = r THEN id ELSE cache[q]]
      /\ stack' = <<[ref |-> r, id |-> id, todo |-> ToConvert(cell)]>> \o stack
      /\ UNCHANGED <<result, caught>>

\* get_class fails before anything is cached, and [] is returned.
ClassNotFound(r) ==
  /\ Contents(model)[r].sort = "object" /\ Contents(model)[r].class \notin Importable
  /\ objects' = Append(objects, EmptyList)
  /\ result' = Object(Len(objects) + 1)
  /\ caught' = TRUE
  /\ UNCHANGED <<stack, cache>>

\* Arrays of ints, floats or bools are built at once.
ConvertArray(r) ==
  /\ Contents(model)[r].sort = "array"
  /\ objects' = Append(objects, PyObject("array", "array", Contents(model)[r].items))
  /\ cache' = [q \in DOMAIN cache \cup {r} |-> IF q = r THEN Len(objects) + 1 ELSE cache[q]]
  /\ result' = Object(Len(objects) + 1)
  /\ UNCHANGED <<stack, caught>>

ConvertReference ==
  /\ HasPending
  /\ Pending.tag = "reference" /\ Pending.of \notin DOMAIN cache
  /\ EnterCell(Pending.of) \/ ClassNotFound(Pending.of) \/ ConvertArray(Pending.of)
  /\ UNCHANGED <<model, frame, first, escaped, answers>>

Numeric == {"int", "bool", "float"}
PyEqual(v, w) == v = w \/ ({v.tag, w.tag} \subseteq Numeric /\ v.of = w.of)

\* dct[key] = value keeps a key that is equal.
PutKey(dct, key, value) ==
  IF \E k \in DOMAIN dct : PyEqual(k, key)
  THEN [k \in DOMAIN dct |-> IF PyEqual(k, key) THEN value ELSE dct[k]]
  ELSE [k \in DOMAIN dct \cup {key} |-> IF k = key THEN value ELSE dct[k]]

\* Objects are told apart by identity: tuples with equal contents, of which Python keeps
\* one, are not met in a set of Faithful.
PutMember(st, v) == IF \E w \in st : PyEqual(v, w) THEN st ELSE st \cup {v}

\* The object under construction after the converted value went into its slot.
Filled(o, slot, v) ==
  CASE o.kind = "list" -> [o EXCEPT !.contents = Append(@, v)]
    [] o.kind = "object" ->
         [o EXCEPT !.contents = [f \in DOMAIN @ \cup {slot} |-> IF f = slot THEN v ELSE @[f]]]
    [] o.kind = "dict" /\ slot # NoKey -> [o EXCEPT !.contents = PutKey(@, Plain(slot), v)]
    [] o.kind = "set" -> [o EXCEPT !.contents = PutMember(@, v)]
    [] OTHER -> o

\* A tuple, whose members are older, is hashed by them.
HasNoHash[id \in DOMAIN objects] ==
  \/ objects[id].kind \in {"list", "dict", "set"}
  \/ objects[id].kind = "tuple" /\ \E v \in Elements(objects[id].contents) : v.tag = "pointer" /\ HasNoHash[v.of]

Unhashable(v) == v.tag = "pointer" /\ HasNoHash[v.of]
Refused(v) == objects[stack[1].id].kind = "set" /\ Unhashable(v)

Returned == model # NoModel /\ result \notin {Nothing, Raise}

StoreParameter ==
  /\ Returned /\ stack = <<>>
  /\ frame' = Append(frame, result)
  /\ result' = Nothing
  /\ UNCHANGED <<model, stack, cache, objects, first, caught, escaped, answers>>

\* lst.append, setattr, dct[key] = value, st.add
Store ==
  /\ Returned /\ stack # <<>>
  /\ IF Refused(result) THEN result' = Raise /\ UNCHANGED <<objects, stack>>
     ELSE /\ objects' = [objects EXCEPT ![stack[1].id] = Filled(@, Children[1].slot, result)]
          /\ stack' = [stack EXCEPT ![1].todo = Tail(@)]
          /\ result' = Nothing
  /\ UNCHANGED <<model, frame, cache, first, caught, escaped, answers>>

SkipField ==
  /\ Working /\ stack # <<>> /\ Children # <<>> /\ Children[1].value = Absent
  /\ stack' = [stack EXCEPT ![1].todo = Tail(@)]
  /\ UNCHANGED <<model, frame, result, cache, objects, first, caught, escaped, answers>>

\* Mutant: the tuple is returned and not put back into the cache.
NotCached(r, id) == cache

Recached(r, id) == [cache EXCEPT ![r] = id]

\* return references[reference]; an immutable list became a new tuple.
Leave ==
  /\ Working /\ stack # <<>> /\ Children = <<>>
  /\ LET r == stack[1].ref
         cell == Contents(model)[r]
         id == Len(objects) + 1
     IN  IF cell.sort = "list" /\ ~cell.mutable
         THEN /\ objects' = Append(objects, PyObject("tuple", "tuple", objects[stack[1].id].contents))
              /\ cache' = Recached(r, id)
              /\ result' = Object(id)
         ELSE result' = Object(cache[r]) /\ UNCHANGED <<objects, cache>>
  /\ stack' = Tail(stack)
  /\ UNCHANGED <<model, frame, first, caught, escaped, answers>>

\* The bare except of convert_reference: [] is returned, and what was built so far
\* stays in the cache.
Caught ==
  /\ model # NoModel /\ result = Raise /\ stack # <<>>
  /\ objects' = Append(objects, EmptyList)
  /\ result' = Object(Len(objects) + 1)
  /\ stack' = Tail(stack)
  /\ caught' = TRUE
  /\ UNCHANGED <<model, frame, cache, first, escaped, answers>>

\* A parameter that cannot be converted: the exception leaves record_path.
Escape ==
  /\ model # NoModel /\ result = Raise /\ stack = <<>>
  /\ model' = NoModel /\ frame' = <<>> /\ result' = Nothing
  /\ escaped' = TRUE
  /\ UNCHANGED <<stack, cache, objects, first, caught, answers>>

\* Mutant: reset_references is not called.
KeepCache == cache

AfterReset == EmptyCache

\* The frame is pushed; then reset_references.
Push ==
  /\ Complete
  /\ model' = NoModel
  /\ cache' = AfterReset
  /\ escaped' = FALSE
  /\ UNCHANGED <<frame, stack, result, objects, first, caught, answers>>

Done == model = NoModel /\ answers = Queries

Next ==
  \/ Answer \/ ConvertValue \/ ConvertReference
  \/ StoreParameter \/ Store \/ SkipField \/ Leave \/ Caught \/ Escape \/ Push
  \/ Done /\ UNCHANGED vars

Spec == Init /\ [][Next]_vars

----------------------------------------------------------------------------------
(* Properties.                                                             *)

Values(cell) ==
  CASE cell.sort = "list" -> Elements(cell.items)
    [] cell.sort = "set" -> Elements(cell.members)
    [] cell.sort = "dict" -> Elements(cell.assoc)
    [] cell.sort = "object" -> {cell.fields[f] : f \in DOMAIN cell.fields}
    [] OTHER -> {}

\* The references a cell holds, and what is reached from them: a set is closed under
\* references if it has those of its members.
Direct(r) == {q \in Ref : AnyRef(q) \in Values(Contents(model)[r])}
ClosedUnder(S) == \A q \in S : Direct(q) \subseteq S
OnCycle(r) == \A S \in SUBSET Ref : Direct(r) \subseteq S /\ ClosedUnder(S) => r \in S

IsTuple(cell) == cell.sort = "list" /\ ~cell.mutable
TupleOnCycle == \E r \in Ref : IsTuple(Contents(model)[r]) /\ OnCycle(r)

PythonDistinct(keys) ==
  \A x, y \in DOMAIN keys : x # y => ~PyEqual(Plain(keys[x]), Plain(keys[y]))

TuplesIn(values) == {v \in Elements(values) : v.tag = "reference" /\ IsTuple(Contents(model)[v.of])}

\* Models whose values Python has, converted from an empty cache without an exception.
Faithful ==
  /\ Complete /\ ~caught /\ ~escaped
  /\ ~TupleOnCycle
  /\ \A r \in Ref :
       /\ Contents(model)[r].sort = "dict" => PythonDistinct(Contents(model)[r].keys)
       /\ Contents(model)[r].sort = "set" =>
            /\ PythonDistinct(Contents(model)[r].members)
            /\ Cardinality(TuplesIn(Contents(model)[r].members)) <= 1

\* A Python value shows a value of the model.
Shows(p, v) == IF v.tag = "reference" THEN v.of \in DOMAIN cache /\ p = Object(cache[v.of])
               ELSE p = Plain(v)

AllShow(ps, vs) == DOMAIN ps = DOMAIN vs /\ \A k \in DOMAIN ps : Shows(ps[k], vs[k])

ShowsCell(o, cell) ==
  CASE cell.sort = "list" ->
         o.kind = (IF cell.mutable THEN "list" ELSE "tuple") /\ AllShow(o.contents, cell.items)
    [] cell.sort = "object" ->
         o.kind = "object" /\ o.class = cell.class /\ AllShow(o.contents, cell.fields)
    [] cell.sort = "dict" ->
         /\ o.kind = "dict" /\ Cardinality(DOMAIN o.contents) = Len(cell.keys)
         /\ \A k \in DOMAIN cell.keys :
              /\ Plain(cell.keys[k]) \in DOMAIN o.contents
              /\ Shows(o.contents[Plain(cell.keys[k])], cell.assoc[k])
    [] cell.sort = "set" ->
         /\ o.kind = "set" /\ Cardinality(o.contents) = Len(cell.members)
         /\ \A v \in Elements(cell.members) : \E p \in o.contents : Shows(p, v)
    [] cell.sort = "array" -> o.kind = "array" /\ o.contents = cell.items

\* A converted frame shows the model's heap: every parameter and every reached cell
\* has its type, its length, its members in place, and two places hold one object
\* exactly when the model gives them one reference, through cycles as well.
SharingIsTheModels ==
  Faithful =>
    /\ AllShow(frame, model.params)
    /\ \A r \in DOMAIN cache : ShowsCell(objects[cache[r]], Contents(model)[r])
    /\ \A r, q \in DOMAIN cache : r # q => cache[r] # cache[q]

Held(o) == CASE o.kind \in {"list", "tuple", "array"} -> Elements(o.contents)
             [] o.kind = "set" -> o.contents
             [] OTHER -> {o.contents[k] : k \in DOMAIN o.contents}

\* No frame shares an object with the frame of an earlier model: a program run on
\* one cannot change the other.
FreshObjects ==
  Complete /\ ~escaped =>
    \A v \in Elements(frame) \cup UNION {Held(objects[id]) : id \in first .. Len(objects)} :
      v.tag = "pointer" => v.of >= first

TypeOf(p) == IF p.tag # "pointer" THEN p.tag
             ELSE IF objects[p.of].kind = "object" THEN objects[p.of].class ELSE objects[p.of].kind

SubclassOf(c, d) == \A S \in SUBSET Class : c \in S /\ (\A e \in S : Bases[e] \subseteq S) => d \in S

PyIsInstance(p, type) ==
  \/ TypeOf(p) = type
  \/ TypeOf(p) \in Class /\ type \in Class /\ SubclassOf(TypeOf(p), type)

PyHasAttr(p, name) ==
  /\ TypeOf(p) \in Class
  /\ \/ name \in DOMAIN objects[p.of].contents
     \/ \E c \in Class : SubclassOf(TypeOf(p), c) /\ name \in Methods[c]

PyContents(p) == IF p.tag = "pointer" THEN objects[p.of] ELSE p

\* Sets of which one is a part of the other: equal ones, if they have as many members.
OneHasTheOther(p, q) ==
  /\ TypeOf(p) = "set" /\ TypeOf(q) = "set"
  /\ LET a == PyContents(p).contents
         b == PyContents(q).contents
     IN  a \subseteq b \/ b \subseteq a

Types == Class \cup {"int", "bool", "float", "none", "list", "tuple", "dict", "set"}

AllMethods == UNION {Methods[c] : c \in Class}

\* On the frame made of a model, isinstance and attribute tests answer what their
\* formulas say of the model (bool as an int apart, and a name that is both a field
\* and a method), and two values whose equality the formula claims are one object,
\* equal numbers or have equal contents.  Sets are the exception: the formula compares
\* their arrays and not their sizes, so that two sets it claims to be equal are equal
\* if they have as many members, and else one has all members of the other.
FormulasSeeTheValues ==
  Faithful =>
    \A k \in DOMAIN frame : LET v == model.params[k] IN v # Unassigned =>
      /\ \A type \in Types : IsInstance(model.heap, v, type) <=> PyIsInstance(frame[k], type)
      /\ \A f \in Field \ AllMethods : HasField(model.heap, v, f) <=> PyHasAttr(frame[k], f)
      /\ \A m \in AllMethods \ Field : HasMethod(model.heap, v, m) <=> PyHasAttr(frame[k], m)
      /\ \A j \in DOMAIN frame : LET w == model.params[j] IN
           w # Unassigned /\ EqFormula(model.heap, v, w, TypeOf(frame[k]), TypeOf(frame[j])) =>
             \/ PyEqual(frame[k], frame[j])
             \/ PyContents(frame[k]) = PyContents(frame[j])
             \/ OneHasTheOther(frame[k], frame[j])

\* reset_references: "Should be called before converting a new SMT model."
NoReferencesYet ==
  model # NoModel /\ frame = <<>> /\ stack = <<>> /\ result = Nothing => cache = EmptyCache
==================================================================================
