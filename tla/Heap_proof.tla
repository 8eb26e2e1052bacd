------------------------------- MODULE Heap_proof --------------------------------
(***************************************************************************)
(* Converting the solver's models, for any classes, fields and models, and *)
(* symbolic objects, for any inputs.                                       *)
(***************************************************************************)
EXTENDS ModelConversion, SymbolicObjects, SequenceTheorems, FiniteSetTheorems, TLAPS

----------------------------------------------------------------------------
(* Sequences of values of any kinds.                                       *)

(* A sequence is a function on the numbers up to its length. *)
LEMMA SequenceShape ==
  ASSUME NEW s, IsSequence(s)
  PROVE  /\ Len(s) \in Nat /\ DOMAIN s = 1 .. Len(s)
         /\ s = [k \in 1 .. Len(s) |-> s[k]]
         /\ s = <<>> <=> Len(s) = 0
  BY DEF IsSequence, Elements

(* Such a function is a sequence. *)
LEMMA FunctionIsSequence ==
  ASSUME NEW n \in Nat, NEW s, s = [k \in 1 .. n |-> s[k]]
  PROVE  IsSequence(s) /\ Len(s) = n
  <1>1. DOMAIN s = 1 .. n
    OBVIOUS
  <1>2. s \in [1 .. n -> Elements(s)]
    BY <1>1 DEF Elements
  <1> QED
    BY <1>2 DEF IsSequence

(* So is a sequence over any set. *)
LEMMA SeqIsSequence ==
  ASSUME NEW T, NEW s \in Seq(T)
  PROVE  IsSequence(s)
  <1>1. Len(s) \in Nat /\ DOMAIN s = 1 .. Len(s) /\ s = [k \in 1 .. Len(s) |-> s[k]]
    OBVIOUS
  <1> QED
    BY <1>1, FunctionIsSequence

(* One more element. *)
LEMMA Appended ==
  ASSUME NEW s, IsSequence(s), NEW v
  PROVE  /\ IsSequence(Append(s, v)) /\ Len(Append(s, v)) = Len(s) + 1
         /\ \A k \in 1 .. Len(s) : Append(s, v)[k] = s[k]
         /\ Append(s, v)[Len(s) + 1] = v
  <1> DEFINE T == Elements(s) \cup {v}
  <1>1. s \in Seq(T)
    BY SequenceShape DEF Elements
  <1>2. Append(s, v) \in Seq(T) /\ Len(Append(s, v)) = Len(s) + 1
    BY <1>1
  <1>3. IsSequence(Append(s, v))
    BY <1>2, SeqIsSequence
  <1>4. \A k \in 1 .. Len(s) + 1 : Append(s, v)[k] = IF k <= Len(s) THEN s[k] ELSE v
    BY <1>1
  <1> QED
    BY <1>1, <1>2, <1>3, <1>4

(* The elements of a longer sequence. *)
LEMMA AppendedElements ==
  ASSUME NEW s, IsSequence(s), NEW v
  PROVE  Elements(Append(s, v)) = Elements(s) \cup {v}
  <1>1. DOMAIN s = 1 .. Len(s) /\ DOMAIN Append(s, v) = 1 .. Len(s) + 1 /\ Len(s) \in Nat
    BY SequenceShape, Appended
  <1>2. \A k \in 1 .. Len(s) + 1 : k \in 1 .. Len(s) \/ k = Len(s) + 1
    BY <1>1
  <1> QED
    BY <1>1, <1>2, Appended DEF Elements

(* One element less. *)
LEMMA Shortened ==
  ASSUME NEW s, IsSequence(s), s # <<>>
  PROVE  /\ IsSequence(Tail(s)) /\ Len(Tail(s)) = Len(s) - 1 /\ Len(s) \in Nat \ {0}
         /\ \A k \in 1 .. Len(s) - 1 : Tail(s)[k] = s[k + 1]
  <1>1. s \in Seq(Elements(s))
    BY DEF IsSequence
  <1>2. Len(s) \in Nat \ {0}
    BY <1>1
  <1>3. Tail(s) \in Seq(Elements(s)) /\ Len(Tail(s)) = Len(s) - 1
    BY <1>1
  <1>4. IsSequence(Tail(s))
    BY <1>3, SeqIsSequence
  <1>5. \A k \in 1 .. Len(s) - 1 : Tail(s)[k] = s[k + 1]
    BY <1>1, <1>2
  <1> QED
    BY <1>1, <1>2, <1>3, <1>4, <1>5

(* One element put in front. *)
LEMMA Prefixed ==
  ASSUME NEW s, IsSequence(s), NEW v
  PROVE  /\ IsSequence(<<v>> \o s) /\ Len(<<v>> \o s) = Len(s) + 1
         /\ (<<v>> \o s)[1] = v
         /\ \A k \in 1 .. Len(s) : (<<v>> \o s)[k + 1] = s[k]
  <1> DEFINE T == Elements(s) \cup {v}
  <1>1. s \in Seq(T)
    BY SequenceShape DEF Elements
  <1>2. <<v>> \in Seq(T) /\ Len(<<v>>) = 1 /\ <<v>>[1] = v
    OBVIOUS
  <1>3. <<v>> \o s \in Seq(T) /\ Len(<<v>> \o s) = Len(s) + 1
    BY <1>1, <1>2
  <1>4. \A k \in 1 .. Len(s) + 1 : (<<v>> \o s)[k] = IF k <= 1 THEN <<v>>[k] ELSE s[k - 1]
    BY <1>1, <1>2
  <1>5. IsSequence(<<v>> \o s)
    BY <1>3, SeqIsSequence
  <1>6. Len(s) \in Nat
    BY <1>1
  <1>7. (<<v>> \o s)[1] = v
    BY <1>2, <1>4, <1>6
  <1>8. \A k \in 1 .. Len(s) : (<<v>> \o s)[k + 1] = s[k]
    BY <1>4, <1>6
  <1> QED
    BY <1>3, <1>5, <1>7, <1>8

(* One element replaced. *)
LEMMA Replaced ==
  ASSUME NEW s, IsSequence(s), NEW k \in DOMAIN s, NEW v
  PROVE  /\ IsSequence([s EXCEPT ![k] = v]) /\ Len([s EXCEPT ![k] = v]) = Len(s)
         /\ \A j \in DOMAIN s : [s EXCEPT ![k] = v][j] = IF j = k THEN v ELSE s[j]
  <1>1. Len(s) \in Nat /\ DOMAIN s = 1 .. Len(s) /\ DOMAIN [s EXCEPT ![k] = v] = 1 .. Len(s)
    BY SequenceShape
  <1>2. [s EXCEPT ![k] = v] = [j \in 1 .. Len(s) |-> [s EXCEPT ![k] = v][j]]
    BY <1>1
  <1>3. \A j \in DOMAIN s : [s EXCEPT ![k] = v][j] = IF j = k THEN v ELSE s[j]
    BY <1>1
  <1> QED
    BY <1>1, <1>2, <1>3, FunctionIsSequence

----------------------------------------------------------------------------
(* The shape of the state: objects are only added, every reference of the   *)
(* cache has an object of its own, and an activation has still to convert a *)
(* last part of its cell.                                                   *)

\* A value still to be converted, or a field that is not there.
IsPart(part) == part = [slot |-> part.slot, value |-> part.value]
                /\ (part.value = Absent \/ IsValue(part.value))

IsModel(m) == /\ IsHeap(m) /\ \A r \in Ref : WellSorted(Contents(m)[r])
              /\ AreValues(m.params) /\ Axioms(Contents(m))

IsPython(o) == /\ o = PyObject(o.kind, o.class, o.contents)
               /\ o.kind \in {"list", "tuple", "array"} => IsSequence(o.contents)
               /\ o.kind \in {"dict", "object"} => o.contents = [k \in DOMAIN o.contents |-> o.contents[k]]

\* todo is the last part of what is to be converted for the cell.
IsRest(todo, cell) ==
  /\ IsSequence(todo) /\ Len(todo) <= Len(ToConvert(cell))
  /\ \A k \in 1 .. Len(todo) : todo[k] = ToConvert(cell)[Len(ToConvert(cell)) - Len(todo) + k]

\* An activation of convert_reference, given the heap, the cache and the objects.
IsActivation(s, heap, refs, pythons) ==
  /\ s = [ref |-> s.ref, id |-> s.id, todo |-> s.todo]
  /\ s.ref \in DOMAIN refs /\ refs[s.ref] = s.id
  /\ heap[s.ref].sort # "array"
  /\ pythons[s.id].kind = Shell(heap[s.ref]).kind
  /\ IsRest(s.todo, heap[s.ref])

Activated(s) == IsActivation(s, Contents(model), cache, objects)

ObjectsOK == IsSequence(objects) /\ \A id \in 1 .. Len(objects) : IsPython(objects[id])

CacheOK ==
  /\ DOMAIN cache \subseteq Ref /\ cache = [r \in DOMAIN cache |-> cache[r]]
  /\ \A r \in DOMAIN cache : cache[r] \in 1 .. Len(objects)
  /\ \A r, q \in DOMAIN cache : r # q => cache[r] # cache[q]

StackOK ==
  /\ IsSequence(stack)
  /\ \A k \in 1 .. Len(stack) : Activated(stack[k])
  /\ \A k \in 1 .. Len(stack) : k = 1 \/ stack[k].todo # <<>>
  /\ \A j, k \in 1 .. Len(stack) : j # k => stack[j].ref # stack[k].ref
  /\ result # Nothing /\ stack # <<>> => stack[1].todo # <<>>

ResultOK == result.tag = "pointer" => result.of \in 1 .. Len(objects)

FrameOK ==
  /\ IsSequence(frame) /\ Len(frame) <= Len(model.params)
  /\ stack # <<>> \/ result # Nothing => Len(frame) < Len(model.params)

CountersOK == answers \in Nat /\ first \in 1 .. Len(objects) + 1

Shape ==
  /\ ObjectsOK /\ CacheOK /\ ResultOK /\ CountersOK
  /\ IF model = NoModel THEN stack = <<>> /\ result = Nothing
     ELSE IsModel(model) /\ StackOK /\ FrameOK

(* What is to be converted for a cell is a sequence of parts. *)
LEMMA PartsOfCell ==
  ASSUME NEW cell, WellSorted(cell), cell.sort # "array"
  PROVE  /\ IsSequence(ToConvert(cell))
         /\ \A k \in 1 .. Len(ToConvert(cell)) : IsPart(ToConvert(cell)[k])
  <1>1. CASE cell.sort = "list"
    <2>1. DOMAIN cell.items = 1 .. Len(cell.items) /\ Len(cell.items) \in Nat
      BY <1>1, SequenceShape DEF WellSorted, AreValues
    <2>2. ToConvert(cell) = [k \in 1 .. Len(cell.items) |-> [slot |-> k, value |-> cell.items[k]]]
      BY <1>1, <2>1 DEF ToConvert
    <2>3. IsSequence(ToConvert(cell)) /\ Len(ToConvert(cell)) = Len(cell.items)
      BY <2>1, <2>2, FunctionIsSequence
    <2>4. \A k \in 1 .. Len(cell.items) : IsValue(cell.items[k])
      BY <1>1, <2>1 DEF WellSorted, AreValues, Elements
    <2> QED
      BY <2>2, <2>3, <2>4 DEF IsPart
  <1>2. CASE cell.sort = "set"
    <2>1. DOMAIN cell.members = 1 .. Len(cell.members) /\ Len(cell.members) \in Nat
      BY <1>2, SequenceShape DEF WellSorted, AreValues
    <2>2. ToConvert(cell) = [k \in 1 .. Len(cell.members) |-> [slot |-> k, value |-> cell.members[k]]]
      BY <1>2, <2>1 DEF ToConvert
    <2>3. IsSequence(ToConvert(cell)) /\ Len(ToConvert(cell)) = Len(cell.members)
      BY <2>1, <2>2, FunctionIsSequence
    <2>4. \A k \in 1 .. Len(cell.members) : IsValue(cell.members[k])
      BY <1>2, <2>1 DEF WellSorted, AreValues, Elements
    <2> QED
      BY <2>2, <2>3, <2>4 DEF IsPart
  <1>3. CASE cell.sort = "dict"
    <2> DEFINE n == Len(cell.keys)
               part(k) == LET x == (k + 1) \div 2
                          IN  IF k % 2 = 1 THEN [slot |-> NoKey, value |-> cell.keys[x]]
                              ELSE [slot |-> cell.keys[x], value |-> cell.assoc[x]]
    <2>1. DOMAIN cell.keys = 1 .. n /\ DOMAIN cell.assoc = 1 .. n /\ n \in Nat
      BY <1>3, SequenceShape DEF WellSorted, AreValues
    <2>2. ToConvert(cell) = [k \in 1 .. 2 * n |-> part(k)]
      BY <1>3 DEF ToConvert
    <2>3. IsSequence(ToConvert(cell)) /\ Len(ToConvert(cell)) = 2 * n
      BY <2>1, <2>2, FunctionIsSequence
    <2>4. \A x \in 1 .. n : IsValue(cell.keys[x]) /\ IsValue(cell.assoc[x])
      BY <1>3, <2>1 DEF WellSorted, AreValues, Elements
    <2>5. ASSUME NEW k \in 1 .. 2 * n PROVE IsPart(part(k))
      <3>1. (k + 1) \div 2 \in 1 .. n
        BY <2>1
      <3> QED
        BY <2>4, <3>1 DEF IsPart
    <2> QED
      BY <2>2, <2>3, <2>5
  <1>4. CASE cell.sort = "object"
    <2> DEFINE part(k) == LET f == FieldOrder[k]
                          IN  [slot |-> f, value |-> IF f \in DOMAIN cell.fields THEN cell.fields[f] ELSE Absent]
    <2>1. Len(FieldOrder) \in Nat /\ DOMAIN FieldOrder = 1 .. Len(FieldOrder)
      BY FieldAssumption
    <2>2. ToConvert(cell) = [k \in 1 .. Len(FieldOrder) |-> part(k)]
      BY <1>4, <2>1 DEF ToConvert
    <2>3. IsSequence(ToConvert(cell)) /\ Len(ToConvert(cell)) = Len(FieldOrder)
      BY <2>1, <2>2, FunctionIsSequence
    <2>4. \A f \in DOMAIN cell.fields : IsValue(cell.fields[f])
      BY <1>4 DEF WellSorted
    <2>5. ASSUME NEW k \in 1 .. Len(FieldOrder) PROVE IsPart(part(k))
      BY <2>4 DEF IsPart
    <2> QED
      BY <2>2, <2>3, <2>5
  <1>5. cell.sort \in {"list", "set", "dict", "object"}
    BY DEF WellSorted
  <1> QED
    BY <1>1, <1>2, <1>3, <1>4, <1>5

(* All of it is a last part, and so is the rest of a last part. *)
LEMMA RestOfCell ==
  ASSUME NEW cell, WellSorted(cell), cell.sort # "array"
  PROVE  /\ IsRest(ToConvert(cell), cell)
         /\ \A todo : IsRest(todo, cell) /\ todo # <<>> => IsRest(Tail(todo), cell) /\ IsPart(todo[1])
  <1> DEFINE all == ToConvert(cell)
  <1>1. IsSequence(all) /\ Len(all) \in Nat /\ \A k \in 1 .. Len(all) : IsPart(all[k])
    BY PartsOfCell, SequenceShape
  <1>2. IsRest(all, cell)
    BY <1>1 DEF IsRest
  <1>3. ASSUME NEW todo, IsRest(todo, cell), todo # <<>>
        PROVE  IsRest(Tail(todo), cell) /\ IsPart(todo[1])
    <2>1. /\ IsSequence(todo) /\ Len(todo) <= Len(all)
          /\ \A k \in 1 .. Len(todo) : todo[k] = all[Len(all) - Len(todo) + k]
      BY <1>3 DEF IsRest
    <2>2. /\ IsSequence(Tail(todo)) /\ Len(Tail(todo)) = Len(todo) - 1 /\ Len(todo) \in Nat \ {0}
          /\ \A k \in 1 .. Len(todo) - 1 : Tail(todo)[k] = todo[k + 1]
      BY <1>3, <2>1, Shortened
    <2>3. \A k \in 1 .. Len(todo) - 1 : Tail(todo)[k] = all[Len(all) - (Len(todo) - 1) + k]
      BY <1>1, <2>1, <2>2
    <2>4. IsPart(todo[1])
      BY <1>1, <2>1, <2>2
    <2> QED
      BY <1>1, <2>1, <2>2, <2>3, <2>4 DEF IsRest
  <1> QED
    BY <1>2, <1>3

(* The fields of what the conversion handles. *)
LEMMA Tags ==
  /\ Nothing.tag = "nothing" /\ Raise.tag = "raise" /\ Absent.tag = "absent"
  /\ Nothing # Raise
  /\ \A id : Object(id).tag = "pointer" /\ Object(id).of = id
  /\ \A id : Object(id) # Nothing /\ Object(id) # Raise
  /\ \A v : IsValue(v) => v.tag \notin {"pointer", "nothing", "raise", "absent"}
  BY DEF Nothing, Raise, Absent, Object, IsValue

(* What is about to be converted is a value. *)
LEMMA PendingIsValue ==
  ASSUME Shape, HasPending
  PROVE  /\ IsValue(Pending)
         /\ Pending.tag = "reference" => Pending.of \in Ref
         /\ stack = <<>> => Len(frame) < Len(model.params)
  <1>1. model # NoModel /\ IsModel(model) /\ StackOK /\ FrameOK
    BY DEF Shape, HasPending, Working
  <1>2. CASE stack = <<>>
    <2>1. Len(frame) # Len(model.params) /\ Len(frame) <= Len(model.params) /\ Len(frame) \in Nat
      BY <1>1, <1>2, SequenceShape DEF HasPending, Working, Complete, FrameOK
    <2>2. IsSequence(model.params) /\ \A v \in Elements(model.params) : IsValue(v)
      BY <1>1 DEF IsModel, AreValues
    <2>3. Len(frame) + 1 \in DOMAIN model.params /\ Len(frame) < Len(model.params)
      BY <2>1, <2>2, SequenceShape
    <2>4. IsValue(Pending)
      BY <1>2, <2>2, <2>3 DEF Pending, Elements
    <2> QED
      BY <2>3, <2>4 DEF IsValue
  <1>3. CASE stack # <<>>
    <2>1. 1 \in 1 .. Len(stack)
      BY <1>1, <1>3, SequenceShape DEF StackOK
    <2>2. Activated(stack[1])
      BY <1>1, <2>1 DEF StackOK
    <2>3. Contents(model)[stack[1].ref].sort # "array" /\ WellSorted(Contents(model)[stack[1].ref])
          /\ IsRest(stack[1].todo, Contents(model)[stack[1].ref])
      BY <1>1, <2>2 DEF Activated, IsActivation, IsModel, Shape, CacheOK
    <2>4. IsPart(stack[1].todo[1])
      BY <1>3, <2>3, RestOfCell DEF HasPending, Children
    <2>5. IsValue(Pending)
      BY <1>3, <2>4 DEF HasPending, Children, Pending, IsPart
    <2> QED
      BY <1>3, <2>5 DEF IsValue
  <1> QED
    BY <1>2, <1>3

(* An activation stays one while its reference has its object. *)
LEMMA ActivationKept ==
  ASSUME NEW s, Activated(s), s.ref \in DOMAIN cache', cache'[s.ref] = cache[s.ref],
         objects'[s.id].kind = objects[s.id].kind
  PROVE  IsActivation(s, Contents(model), cache', objects')
  BY DEF Activated, IsActivation

LEMMA InitShape == Init => Shape
  <1> SUFFICES ASSUME Init PROVE Shape
    OBVIOUS
  <1>1. IsSequence(objects) /\ Len(objects) = 0
    BY DEF Init, IsSequence
  <1> QED
    BY <1>1, Tags DEF Init, Shape, ObjectsOK, CacheOK, ResultOK, CountersOK, EmptyCache

(* Cutting the sets of a model at their bounds leaves them sets of values, and leaves *)
(* all other cells alone.                                                             *)
LEMMA ContentsOfModel ==
  ASSUME NEW m, IsHeap(m), NEW r \in Ref
  PROVE  /\ DOMAIN Contents(m) = Ref /\ Contents(m)[r] = Bounded(m.heap[r], m.bound[r])
         /\ Contents(m)[r].sort = m.heap[r].sort /\ WellSorted(Contents(m)[r])
         /\ m.heap[r].sort # "set" => Contents(m)[r] = m.heap[r]
  <1>1. DOMAIN Contents(m) = Ref /\ Contents(m)[r] = Bounded(m.heap[r], m.bound[r]) /\ WellSorted(m.heap[r])
    BY DEF Contents, IsHeap
  <1>2. CASE m.heap[r].sort # "set"
    BY <1>1, <1>2 DEF Bounded
  <1>3. CASE m.heap[r].sort = "set"
    <2> DEFINE b == m.bound[r]
               s == m.heap[r].members
               t == [x \in 1 .. b |-> s[x]]
    <2>1. b \in Int /\ b <= Len(s)
      BY <1>3 DEF IsHeap
    <2>2. IsSequence(s) /\ \A v \in Elements(s) : IsValue(v)
      BY <1>1, <1>3 DEF WellSorted, AreValues
    <2>3. DOMAIN s = 1 .. Len(s) /\ Len(s) \in Nat
      BY <2>2, SequenceShape
    <2>4. \A x \in 1 .. b : x \in DOMAIN s
      BY <2>1, <2>3
    <2>5. \A v \in Elements(t) : IsValue(v)
      BY <2>2, <2>4 DEF Elements
    <2>6. IsSequence(t)
      <3>1. CASE b \in Nat
        BY <3>1, FunctionIsSequence
      <3>2. CASE b \notin Nat
        <4>1. t = [x \in 1 .. 0 |-> s[x]]
          <5>1. 1 .. b = 1 .. 0
            BY <2>1, <3>2
          <5> QED
            BY <5>1
        <4> HIDE DEF t
        <4> QED
          BY <4>1, FunctionIsSequence
      <3> QED
        BY <3>1, <3>2
    <2>7. Contents(m)[r] = SetCell(t)
      BY <1>1, <1>3 DEF Bounded
    <2> HIDE DEF t
    <2> QED
      BY <1>1, <1>3, <2>5, <2>6, <2>7 DEF SetCell, WellSorted, AreValues
  <1> QED
    BY <1>2, <1>3, <1>1

LEMMA AnswerKeepsShape == Shape /\ Answer => Shape'
  <1> SUFFICES ASSUME Shape, Answer PROVE Shape'
    OBVIOUS
  <1>1. answers + 1 \in 1 .. Queries /\ answers' \in Nat
    BY QueriesAssumption DEF Shape, CountersOK, Answer
  <1>2. PICK m \in Answers(answers + 1) : model' = m
    BY DEF Answer
  <1>3. IsModel(m)
    <2>1. IsHeap(m) /\ AreValues(m.params) /\ Axioms(Contents(m))
      BY <1>1, <1>2, AnswersAssumption
    <2> QED
      BY <2>1, ContentsOfModel DEF IsModel
  <1>4. stack = <<>> /\ result = Nothing
    BY DEF Shape, Answer
  <1>5. StackOK'
    <2>1. IsSequence(stack) /\ Len(stack) = 0
      BY <1>4 DEF IsSequence
    <2> QED
      BY <1>4, <2>1 DEF StackOK, Answer
  <1>6. FrameOK'
    <2>1. IsSequence(frame') /\ Len(frame') = 0
      BY DEF Answer, IsSequence
    <2>2. Len(m.params) \in Nat
      BY <1>3, SequenceShape DEF IsModel, AreValues
    <2> QED
      BY <1>2, <1>4, <2>1, <2>2 DEF FrameOK, Answer
  <1>7. CountersOK'
    BY <1>1, SequenceShape DEF Answer, CountersOK, Shape, ObjectsOK
  <1>8. ObjectsOK' /\ CacheOK' /\ ResultOK'
    BY DEF Answer, Shape, ObjectsOK, CacheOK, ResultOK
  <1> QED
    BY <1>2, <1>3, <1>4, <1>5, <1>6, <1>7, <1>8 DEF Shape, Answer, IsModel

(* A step that converts no reference and adds no object. *)
LEMMA ConvertValueKeepsShape == Shape /\ ConvertValue => Shape'
  <1> SUFFICES ASSUME Shape, ConvertValue PROVE Shape'
    OBVIOUS
  <1>1. IsValue(Pending) /\ (stack = <<>> => Len(frame) < Len(model.params))
    BY PendingIsValue DEF ConvertValue
  <1>2. /\ model # NoModel /\ IsModel(model) /\ StackOK /\ FrameOK
        /\ stack # <<>> => stack[1].todo # <<>>
    BY DEF Shape, ConvertValue, HasPending, Working, Children
  <1>3. ResultOK'
    <2>1. CASE Pending.tag = "reference"
      BY <2>1, Tags DEF ConvertValue, ResultOK, Shape, CacheOK
    <2>2. CASE Pending.tag # "reference"
      <3>1. result' = Raise \/ result' = Pending \/ result' = AnyInt(0)
        BY <2>2 DEF ConvertValue, Plain
      <3> QED
        BY <1>1, <3>1, PendingIsValue, Tags DEF ConvertValue, ResultOK, AnyInt
    <2> QED
      BY <2>1, <2>2
  <1>4. StackOK' /\ FrameOK'
    <2>1. stack # <<>> => Len(frame) < Len(model.params)
      BY <1>2, PendingIsValue DEF ConvertValue, FrameOK, Shape, HasPending, Working
    <2> QED
      BY <1>1, <1>2, <2>1, PendingIsValue
      DEF ConvertValue, StackOK, FrameOK, Activated, HasPending, Children, Shape, Working
  <1>5. ObjectsOK' /\ CacheOK' /\ CountersOK'
    BY DEF ConvertValue, Shape, ObjectsOK, CacheOK, CountersOK
  <1> QED
    BY <1>2, <1>3, <1>4, <1>5 DEF Shape, ConvertValue, IsModel, HasPending, Working

(* A new object is added at the end. *)
LEMMA ObjectAdded ==
  ASSUME ObjectsOK, NEW o, IsPython(o), objects' = Append(objects, o)
  PROVE  /\ ObjectsOK'
         /\ Len(objects') = Len(objects) + 1 /\ Len(objects) \in Nat
         /\ \A id \in 1 .. Len(objects) : objects'[id] = objects[id]
         /\ objects'[Len(objects) + 1] = o
  <1>1. /\ IsSequence(objects') /\ Len(objects') = Len(objects) + 1
        /\ \A id \in 1 .. Len(objects) : objects'[id] = objects[id]
        /\ objects'[Len(objects) + 1] = o
    BY Appended DEF ObjectsOK
  <1>2. Len(objects) \in Nat
    BY SequenceShape DEF ObjectsOK
  <1>3. \A id \in 1 .. Len(objects') : IsPython(objects'[id])
    BY <1>1, <1>2 DEF ObjectsOK
  <1> QED
    BY <1>1, <1>2, <1>3 DEF ObjectsOK

(* The objects that are added are well-formed. *)
LEMMA ShellIsPython ==
  ASSUME NEW cell, WellSorted(cell), cell.sort # "array"
  PROVE  IsPython(Shell(cell)) /\ Shell(cell).kind = cell.sort
  <1>1. IsSequence(<<>>)
    BY DEF IsSequence
  <1>2. cell.sort \in {"list", "set", "dict", "object"}
    BY DEF WellSorted
  <1> QED
    BY <1>1, <1>2 DEF Shell, IsPython, PyObject, EmptyList

LEMMA EmptyListIsPython == IsPython(EmptyList)
  BY DEF IsPython, PyObject, EmptyList, IsSequence

(* The state before a reference is converted. *)
LEMMA ReferenceState ==
  ASSUME Shape, ConvertReference
  PROVE  /\ model # NoModel /\ IsModel(model) /\ StackOK /\ FrameOK
         /\ ObjectsOK /\ CacheOK /\ CountersOK
         /\ Pending.tag = "reference" /\ Pending.of \in Ref /\ Pending.of \notin DOMAIN cache
         /\ WellSorted(Contents(model)[Pending.of])
         /\ Len(frame) < Len(model.params)
         /\ stack # <<>> => stack[1].todo # <<>>
         /\ result = Nothing
  <1>1. model # NoModel /\ HasPending /\ Pending.tag = "reference" /\ Pending.of \notin DOMAIN cache
        /\ result = Nothing
    BY DEF ConvertReference, HasPending, Working
  <1>2. IsModel(model) /\ StackOK /\ FrameOK /\ ObjectsOK /\ CacheOK /\ CountersOK
    BY <1>1 DEF Shape
  <1>3. Pending.of \in Ref
    BY <1>1, PendingIsValue
  <1>4. Len(frame) < Len(model.params)
    BY <1>1, <1>2, PendingIsValue DEF FrameOK
  <1> QED
    BY <1>1, <1>2, <1>3, <1>4 DEF IsModel, HasPending, Children

LEMMA EnterKeepsShape ==
  ASSUME Shape, ConvertReference, EnterCell(Pending.of)
  PROVE  Shape'
  <1> DEFINE r == Pending.of
             cell == Contents(model)[r]
             id == Len(objects) + 1
             new == [ref |-> r, id |-> id, todo |-> ToConvert(cell)]
  <1>1. /\ model # NoModel /\ IsModel(model) /\ StackOK /\ FrameOK /\ ObjectsOK /\ CacheOK /\ CountersOK
        /\ r \in Ref /\ r \notin DOMAIN cache /\ WellSorted(cell)
        /\ Len(frame) < Len(model.params) /\ (stack # <<>> => stack[1].todo # <<>>) /\ result = Nothing
    BY ReferenceState
  <1>2. /\ cell.sort # "array" /\ objects' = Append(objects, Shell(cell))
        /\ cache' = [q \in DOMAIN cache \cup {r} |-> IF q = r THEN id ELSE cache[q]]
        /\ stack' = <<new>> \o stack
        /\ UNCHANGED <<result, caught, model, frame, first, escaped, answers>>
    BY DEF EnterCell, ConvertReference
  <1> HIDE DEF r, cell
  <1>3. IsPython(Shell(cell)) /\ Shell(cell).kind = cell.sort
    BY <1>1, <1>2, ShellIsPython
  <1>4. /\ ObjectsOK' /\ Len(objects') = id /\ Len(objects) \in Nat
        /\ \A k \in 1 .. Len(objects) : objects'[k] = objects[k]
        /\ objects'[id] = Shell(cell)
    BY <1>1, <1>2, <1>3, ObjectAdded
  <1>5. CacheOK'
    BY <1>1, <1>2, <1>4 DEF CacheOK
  <1>6. IsActivation(new, Contents(model), cache', objects')
    <2>1. IsRest(ToConvert(cell), cell)
      BY <1>1, <1>2, RestOfCell
    <2>2. Contents(model)[r] = cell
      BY DEF cell
    <2> QED
      BY <1>2, <1>4, <2>1, <2>2 DEF IsActivation
  <1>7. /\ IsSequence(stack') /\ Len(stack') = Len(stack) + 1 /\ Len(stack) \in Nat
        /\ stack'[1] = new /\ \A k \in 1 .. Len(stack) : stack'[k + 1] = stack[k]
    <2>1. IsSequence(stack)
      BY <1>1 DEF StackOK
    <2> HIDE DEF new
    <2> QED
      BY <1>2, <2>1, Prefixed, SequenceShape
  <1>8. ASSUME NEW k \in 1 .. Len(stack)
        PROVE  IsActivation(stack[k], Contents(model), cache', objects') /\ stack[k].ref # r
               /\ stack[k].todo # <<>>
    <2>1. Activated(stack[k]) /\ (k = 1 \/ stack[k].todo # <<>>)
      BY <1>1 DEF StackOK
    <2>2. stack[k].ref \in DOMAIN cache /\ cache[stack[k].ref] = stack[k].id
          /\ stack[k].id \in 1 .. Len(objects)
      BY <1>1, <2>1 DEF Activated, IsActivation, CacheOK
    <2>3. stack[k].ref \in DOMAIN cache' /\ cache'[stack[k].ref] = cache[stack[k].ref]
          /\ objects'[stack[k].id].kind = objects[stack[k].id].kind
      BY <1>1, <1>2, <1>4, <2>2
    <2>4. stack # <<>>
      BY <1>1, SequenceShape DEF StackOK
    <2> QED
      BY <1>1, <2>1, <2>2, <2>3, <2>4, ActivationKept
  <1>9. StackOK'
    <2>1. \A k \in 1 .. Len(stack') : k = 1 \/ k - 1 \in 1 .. Len(stack)
      BY <1>7
    <2>2. \A k \in 1 .. Len(stack') : stack'[k] = IF k = 1 THEN new ELSE stack[k - 1]
      BY <1>7, <2>1
    <2>3. \A k \in 1 .. Len(stack') : IsActivation(stack'[k], Contents(model), cache', objects')
      BY <1>6, <1>8, <2>1, <2>2
    <2>4. \A k \in 1 .. Len(stack') : k = 1 \/ stack'[k].todo # <<>>
      BY <1>8, <2>1, <2>2
    <2>5. \A j, k \in 1 .. Len(stack) : j # k => stack[j].ref # stack[k].ref
      BY <1>1 DEF StackOK
    <2>6. new.ref = r /\ \A k \in 1 .. Len(stack) : stack[k].ref # r
      BY <1>8
    <2>7. ASSUME NEW j \in 1 .. Len(stack'), NEW k \in 1 .. Len(stack'), j # k
          PROVE  stack'[j].ref # stack'[k].ref
      <3> HIDE DEF new
      <3>1. CASE j = 1
        BY <2>1, <2>2, <2>6, <2>7, <3>1
      <3>2. CASE k = 1
        BY <2>1, <2>2, <2>6, <2>7, <3>2
      <3>3. CASE j # 1 /\ k # 1
        <4>1. stack'[j] = stack[j - 1] /\ stack'[k] = stack[k - 1] /\ j - 1 # k - 1
              /\ j - 1 \in 1 .. Len(stack) /\ k - 1 \in 1 .. Len(stack)
          BY <1>7, <2>1, <2>2, <2>7, <3>3
        <4> QED
          BY <2>5, <4>1
      <3> QED
        BY <3>1, <3>2, <3>3
    <2> QED
      BY <1>1, <1>2, <1>7, <2>3, <2>4, <2>7 DEF StackOK, Activated
  <1>10. ResultOK' /\ CountersOK' /\ FrameOK'
    BY <1>1, <1>2, <1>4, Tags DEF ResultOK, CountersOK, FrameOK
  <1> QED
    BY <1>1, <1>2, <1>4, <1>5, <1>9, <1>10 DEF Shape, IsModel

(* Activations stay while objects are only added and their references keep theirs. *)
LEMMA ActivationsKept ==
  ASSUME CacheOK, StackOK, NEW k \in 1 .. Len(stack),
         \A id \in 1 .. Len(objects) : objects'[id].kind = objects[id].kind,
         stack[k].ref \in DOMAIN cache', cache'[stack[k].ref] = cache[stack[k].ref]
  PROVE  IsActivation(stack[k], Contents(model), cache', objects')
  <1>1. Activated(stack[k])
    BY DEF StackOK
  <1>2. stack[k].id \in 1 .. Len(objects)
    BY <1>1 DEF Activated, IsActivation, CacheOK
  <1> QED
    BY <1>1, <1>2, ActivationKept

(* References that are converted at once. *)
LEMMA AtOnceKeepsShape ==
  ASSUME Shape, ConvertReference, ClassNotFound(Pending.of) \/ ConvertArray(Pending.of)
  PROVE  Shape'
  <1> DEFINE r == Pending.of
             id == Len(objects) + 1
  <1>1. /\ model # NoModel /\ IsModel(model) /\ StackOK /\ FrameOK /\ ObjectsOK /\ CacheOK /\ CountersOK
        /\ r \in Ref /\ r \notin DOMAIN cache /\ WellSorted(Contents(model)[r])
        /\ Len(frame) < Len(model.params) /\ (stack # <<>> => stack[1].todo # <<>>)
    BY ReferenceState
  <1>2. PICK o : /\ IsPython(o) /\ objects' = Append(objects, o) /\ result' = Object(id)
                 /\ UNCHANGED <<model, frame, stack, first, escaped, answers>>
                 /\ \/ UNCHANGED cache
                    \/ cache' = [q \in DOMAIN cache \cup {r} |-> IF q = r THEN id ELSE cache[q]]
    <2>1. CASE ClassNotFound(r)
      BY <2>1, EmptyListIsPython DEF ClassNotFound, ConvertReference
    <2>2. CASE ConvertArray(r)
      <3>1. Contents(model)[r].sort = "array" /\ IsSequence(Contents(model)[r].items)
        BY <1>1, <2>2 DEF ConvertArray, WellSorted, AreValues
      <3>2. IsPython(PyObject("array", "array", Contents(model)[r].items))
        BY <3>1 DEF IsPython, PyObject
      <3> QED
        BY <2>2, <3>2 DEF ConvertArray, ConvertReference
    <2> QED
      BY <2>1, <2>2
  <1>3. /\ ObjectsOK' /\ Len(objects') = id /\ Len(objects) \in Nat
        /\ \A k \in 1 .. Len(objects) : objects'[k] = objects[k]
    BY <1>1, <1>2, ObjectAdded
  <1> HIDE DEF r
  <1>4. CacheOK'
    <2>1. CASE UNCHANGED cache
      BY <1>1, <1>3, <2>1 DEF CacheOK
    <2>2. CASE cache' = [q \in DOMAIN cache \cup {r} |-> IF q = r THEN id ELSE cache[q]]
      BY <1>1, <1>3, <2>2 DEF CacheOK
    <2> QED
      BY <1>2, <2>1, <2>2
  <1>5. \A q \in DOMAIN cache : q \in DOMAIN cache' /\ cache'[q] = cache[q]
    BY <1>1, <1>2
  <1>6. \A k \in 1 .. Len(stack) : IsActivation(stack[k], Contents(model), cache', objects')
    <2>1. \A k \in 1 .. Len(stack) : stack[k].ref \in DOMAIN cache
      BY <1>1 DEF StackOK, Activated, IsActivation
    <2> QED
      BY <1>1, <1>3, <1>5, <2>1, ActivationsKept
  <1>7. StackOK'
    BY <1>1, <1>2, <1>6 DEF StackOK, Activated
  <1>8. ResultOK' /\ CountersOK' /\ FrameOK'
    BY <1>1, <1>2, <1>3, Tags DEF ResultOK, CountersOK, FrameOK
  <1> QED
    BY <1>1, <1>2, <1>3, <1>4, <1>7, <1>8 DEF Shape, IsModel

LEMMA ConvertReferenceKeepsShape == Shape /\ ConvertReference => Shape'
  BY EnterKeepsShape, AtOnceKeepsShape DEF ConvertReference

LEMMA StoreParameterKeepsShape == Shape /\ StoreParameter => Shape'
  <1> SUFFICES ASSUME Shape, StoreParameter PROVE Shape'
    OBVIOUS
  <1>1. model # NoModel /\ IsModel(model) /\ StackOK /\ FrameOK /\ stack = <<>> /\ result # Nothing
    BY DEF Shape, StoreParameter, Returned
  <1>2. IsSequence(frame') /\ Len(frame') = Len(frame) + 1 /\ Len(frame) \in Nat
    BY <1>1, Appended, SequenceShape DEF StoreParameter, FrameOK
  <1>3. Len(model.params) \in Nat
    BY <1>1, SequenceShape DEF IsModel, AreValues
  <1>4. FrameOK' /\ StackOK' /\ ResultOK'
    BY <1>1, <1>2, <1>3, Tags DEF FrameOK, StoreParameter, StackOK, Activated, ResultOK
  <1> QED
    BY <1>1, <1>4 DEF Shape, StoreParameter, ObjectsOK, CacheOK, CountersOK, IsModel

WithField(c, slot, v) == [f \in DOMAIN c \cup {slot} |-> IF f = slot THEN v ELSE c[f]]

(* Filling a slot keeps the object's kind. *)
LEMMA FilledIsPython ==
  ASSUME NEW o, IsPython(o), NEW slot, NEW v
  PROVE  IsPython(Filled(o, slot, v)) /\ Filled(o, slot, v).kind = o.kind
         /\ Filled(o, slot, v).class = o.class
  <1>1. \A c : [o EXCEPT !.contents = c] = PyObject(o.kind, o.class, c)
    BY DEF IsPython, PyObject
  <1>2. \A c : PyObject(o.kind, o.class, c).kind = o.kind /\ PyObject(o.kind, o.class, c).class = o.class
               /\ PyObject(o.kind, o.class, c).contents = c
    BY DEF PyObject
  <1>3. PICK c : Filled(o, slot, v) = PyObject(o.kind, o.class, c)
                 /\ (o.kind = "list" => c = Append(o.contents, v))
                 /\ (o.kind \in {"tuple", "array"} => c = o.contents)
                 /\ (o.kind \in {"dict", "object"} => c = [k \in DOMAIN c |-> c[k]])
    <2>1. CASE o.kind = "list"
      BY <1>1, <2>1 DEF Filled
    <2>2. CASE o.kind = "object"
      <3>1. Filled(o, slot, v) = PyObject(o.kind, o.class, WithField(o.contents, slot, v))
        BY <1>1, <2>2 DEF Filled, WithField
      <3>2. \A c : WithField(c, slot, v) = [x \in DOMAIN WithField(c, slot, v) |-> WithField(c, slot, v)[x]]
        BY DEF WithField
      <3> QED
        BY <2>2, <3>1, <3>2
    <2>3. CASE o.kind = "dict" /\ slot # NoKey
      <3>1. Filled(o, slot, v) = PyObject(o.kind, o.class, PutKey(o.contents, Plain(slot), v))
        BY <1>1, <2>3 DEF Filled
      <3>2. \A c, k : PutKey(c, k, v) = [x \in DOMAIN PutKey(c, k, v) |-> PutKey(c, k, v)[x]]
        BY DEF PutKey
      <3> QED
        BY <2>3, <3>1, <3>2
    <2>4. CASE o.kind = "set"
      BY <1>1, <2>4 DEF Filled
    <2>5. CASE ~(o.kind = "list" \/ o.kind = "object" \/ (o.kind = "dict" /\ slot # NoKey) \/ o.kind = "set")
      <3>1. Filled(o, slot, v) = o
        BY <2>5 DEF Filled
      <3>2. o = PyObject(o.kind, o.class, o.contents)
        BY DEF IsPython
      <3>3. o.kind \in {"dict", "object"} => o.contents = [k \in DOMAIN o.contents |-> o.contents[k]]
        BY DEF IsPython
      <3> QED
        BY <2>5, <3>1, <3>2, <3>3
    <2> QED
      BY <2>1, <2>2, <2>3, <2>4, <2>5
  <1>4. o.kind = "list" => IsSequence(Append(o.contents, v))
    BY Appended DEF IsPython
  <1>5. o.kind \in {"list", "tuple", "array"} => IsSequence(c)
    BY <1>3, <1>4 DEF IsPython
  <1>6. PICK new : new = Filled(o, slot, v)
    OBVIOUS
  <1>7. new = PyObject(o.kind, o.class, c) /\ new.kind = o.kind /\ new.class = o.class /\ new.contents = c
    BY <1>2, <1>3, <1>6, Zenon
  <1>8. new = PyObject(new.kind, new.class, new.contents)
    BY <1>7, Zenon
  <1>9. new.kind \in {"dict", "object"} => new.contents = [k \in DOMAIN new.contents |-> new.contents[k]]
    BY <1>3, <1>7, Zenon
  <1>10. IsPython(new)
    BY <1>5, <1>7, <1>8, <1>9, Zenon DEF IsPython
  <1> QED
    BY <1>6, <1>7, <1>10

\* A step of the loop of the innermost activation.
Advanced == stack' = [stack EXCEPT ![1].todo = Tail(@)]

LEMMA AdvancedMeans ==
  ASSUME Advanced, NEW ref, NEW id, NEW todo
  PROVE  stack[1] = [ref |-> ref, id |-> id, todo |-> todo]
           => stack' = [stack EXCEPT ![1] = [ref |-> ref, id |-> id, todo |-> Tail(todo)]]
  <1> DEFINE s == [ref |-> ref, id |-> id, todo |-> todo]
  <1>a. \A t : [s EXCEPT !.todo = t] = [ref |-> ref, id |-> id, todo |-> t]
    OBVIOUS
  <1>b. s.todo = todo
    OBVIOUS
  <1>1. [s EXCEPT !.todo = Tail(s.todo)] = [ref |-> ref, id |-> id, todo |-> Tail(todo)]
    BY <1>a, <1>b, Zenon
  <1>2. stack' = [stack EXCEPT ![1] = [stack[1] EXCEPT !.todo = Tail(stack[1].todo)]]
    BY DEF Advanced
  <1> QED
    BY <1>1, <1>2, Zenon

(* The innermost activation has one part less to convert. *)
LEMMA PartDone ==
  ASSUME Shape, model # NoModel, stack # <<>>, Children # <<>>, Advanced
  PROVE  /\ IsSequence(stack') /\ Len(stack') = Len(stack) /\ Len(stack) \in Nat \ {0}
         /\ stack'[1] = [ref |-> stack[1].ref, id |-> stack[1].id, todo |-> Tail(stack[1].todo)]
         /\ Activated(stack[1]) /\ Activated(stack'[1])
         /\ \A k \in 1 .. Len(stack) : k # 1 => stack'[k] = stack[k]
         /\ \A k \in 1 .. Len(stack) : stack'[k].ref = stack[k].ref /\ stack'[k].id = stack[k].id
         /\ WellSorted(Contents(model)[stack[1].ref]) /\ stack[1].id \in 1 .. Len(objects)
  <1>1. StackOK /\ IsModel(model) /\ CacheOK
    BY DEF Shape
  <1>2. IsSequence(stack) /\ Len(stack) \in Nat \ {0} /\ DOMAIN stack = 1 .. Len(stack)
    BY <1>1, SequenceShape DEF StackOK
  <1>3. Activated(stack[1])
    BY <1>1, <1>2 DEF StackOK
  <1>4. stack[1] = [ref |-> stack[1].ref, id |-> stack[1].id, todo |-> stack[1].todo]
        /\ WellSorted(Contents(model)[stack[1].ref]) /\ stack[1].id \in 1 .. Len(objects)
        /\ IsRest(stack[1].todo, Contents(model)[stack[1].ref]) /\ Contents(model)[stack[1].ref].sort # "array"
    BY <1>1, <1>3 DEF Activated, IsActivation, CacheOK, IsModel
  <1>5. PICK new : new = [ref |-> stack[1].ref, id |-> stack[1].id, todo |-> Tail(stack[1].todo)]
    OBVIOUS
  <1>6. IsRest(Tail(stack[1].todo), Contents(model)[stack[1].ref])
    BY <1>4, RestOfCell DEF Children
  <1>7. Activated(new)
    BY <1>3, <1>5, <1>6 DEF Activated, IsActivation
  <1>8. /\ IsSequence(stack') /\ Len(stack') = Len(stack)
        /\ stack'[1] = new
        /\ \A k \in 1 .. Len(stack) : k # 1 => stack'[k] = stack[k]
    <2>1. stack' = [stack EXCEPT ![1] = new]
      <3>1. stack' = [stack EXCEPT ![1] = [ref |-> stack[1].ref, id |-> stack[1].id,
                                           todo |-> Tail(stack[1].todo)]]
        <4>1. PICK ref, id, todo : /\ stack[1] = [ref |-> ref, id |-> id, todo |-> todo]
                                   /\ ref = stack[1].ref /\ id = stack[1].id /\ todo = stack[1].todo
          BY <1>4, Zenon
        <4>2. stack' = [stack EXCEPT ![1] = [ref |-> ref, id |-> id, todo |-> Tail(todo)]]
          BY <4>1, AdvancedMeans
        <4> QED
          BY <4>1, <4>2, Zenon
      <3> QED
        BY <1>5, <3>1, Zenon
    <2>2. 1 \in DOMAIN stack
      BY <1>2
    <2> QED
      BY <1>2, <2>1, <2>2, Replaced
  <1>9. \A k \in 1 .. Len(stack) : stack'[k].ref = stack[k].ref /\ stack'[k].id = stack[k].id
    BY <1>5, <1>8
  <1>10. stack'[1] = [ref |-> stack[1].ref, id |-> stack[1].id, todo |-> Tail(stack[1].todo)]
    BY <1>5, <1>8
  <1>11. Activated(stack'[1])
    BY <1>7, <1>8
  <1> QED
    BY <1>2, <1>3, <1>4, <1>8, <1>9, <1>10, <1>11

LEMMA SkipFieldKeepsShape == Shape /\ SkipField => Shape'
  <1> SUFFICES ASSUME Shape, SkipField PROVE Shape'
    OBVIOUS
  <1>1. /\ model # NoModel /\ IsModel(model) /\ StackOK /\ FrameOK /\ stack # <<>> /\ Children # <<>>
        /\ result = Nothing
    BY DEF Shape, SkipField, Working
  <1>2. UNCHANGED <<model, frame, result, cache, objects, first, caught, escaped, answers>> /\ Advanced
    BY DEF SkipField, Advanced
  <1>3. /\ IsSequence(stack') /\ Len(stack') = Len(stack) /\ Len(stack) \in Nat \ {0}
        /\ Activated(stack'[1])
        /\ \A k \in 1 .. Len(stack) : k # 1 => stack'[k] = stack[k]
        /\ \A k \in 1 .. Len(stack) : stack'[k].ref = stack[k].ref
    BY <1>1, <1>2, PartDone
  <1>4. \A k \in 1 .. Len(stack') : Activated(stack'[k])
    BY <1>1, <1>3 DEF StackOK
  <1>5. StackOK'
    BY <1>1, <1>2, <1>3, <1>4 DEF StackOK, Activated
  <1>6. stack' # <<>>
    BY <1>3, SequenceShape
  <1> QED
    BY <1>1, <1>2, <1>5, <1>6 DEF Shape, ObjectsOK, CacheOK, ResultOK, FrameOK, CountersOK, IsModel

\* The object of the innermost activation, filled.
Stored == objects' = [objects EXCEPT ![stack[1].id] = Filled(@, Children[1].slot, result)]

(* Filling it changes no other object. *)
LEMMA ObjectFilled ==
  ASSUME ObjectsOK, stack[1].id \in 1 .. Len(objects), Stored
  PROVE  /\ ObjectsOK' /\ Len(objects') = Len(objects)
         /\ objects'[stack[1].id] = Filled(objects[stack[1].id], Children[1].slot, result)
         /\ \A id \in 1 .. Len(objects) : /\ id # stack[1].id => objects'[id] = objects[id]
                                          /\ objects'[id].kind = objects[id].kind
                                          /\ objects'[id].class = objects[id].class
  <1>1. PICK new : new = Filled(objects[stack[1].id], Children[1].slot, result)
    OBVIOUS
  <1>2. objects' = [objects EXCEPT ![stack[1].id] = new]
    BY <1>1 DEF Stored
  <1>3. IsPython(new) /\ new.kind = objects[stack[1].id].kind /\ new.class = objects[stack[1].id].class
    BY <1>1, FilledIsPython DEF ObjectsOK
  <1>4. DOMAIN objects = 1 .. Len(objects) /\ IsSequence(objects)
    BY SequenceShape DEF ObjectsOK
  <1>5. /\ IsSequence(objects') /\ Len(objects') = Len(objects)
        /\ \A j \in DOMAIN objects : objects'[j] = IF j = stack[1].id THEN new ELSE objects[j]
    <2>1. PICK id \in DOMAIN objects : id = stack[1].id
      BY <1>4
    <2>2. objects' = [objects EXCEPT ![id] = new]
      BY <1>2, <2>1
    <2>3. IsSequence([objects EXCEPT ![id] = new]) /\ Len([objects EXCEPT ![id] = new]) = Len(objects)
          /\ \A j \in DOMAIN objects : [objects EXCEPT ![id] = new][j] = IF j = id THEN new ELSE objects[j]
      BY <1>4, Replaced
    <2> QED
      BY <2>1, <2>2, <2>3
  <1>6. ObjectsOK'
    BY <1>3, <1>4, <1>5 DEF ObjectsOK
  <1> QED
    BY <1>1, <1>3, <1>4, <1>5, <1>6

LEMMA StoreKeepsShape == Shape /\ Store => Shape'
  <1> SUFFICES ASSUME Shape, Store PROVE Shape'
    OBVIOUS
  <1>1. /\ model # NoModel /\ IsModel(model) /\ StackOK /\ FrameOK /\ stack # <<>> /\ Children # <<>>
        /\ result # Nothing /\ ObjectsOK /\ CacheOK /\ CountersOK
        /\ UNCHANGED <<model, frame, cache, first, caught, escaped, answers>>
    BY DEF Shape, Store, Returned, StackOK, Children
  <1>2. CASE Refused(result)
    <2>1. result' = Raise /\ UNCHANGED <<objects, stack>>
      BY <1>2 DEF Store
    <2>2. StackOK' /\ FrameOK' /\ ResultOK'
      BY <1>1, <2>1, Tags DEF StackOK, FrameOK, ResultOK, Activated
    <2> QED
      BY <1>1, <2>1, <2>2 DEF Shape, ObjectsOK, CacheOK, CountersOK, IsModel
  <1>3. CASE ~Refused(result)
    <2>1. Stored /\ Advanced /\ result' = Nothing
      BY <1>3 DEF Store, Stored, Advanced
    <2>2. /\ IsSequence(stack') /\ Len(stack') = Len(stack) /\ Len(stack) \in Nat \ {0}
          /\ Activated(stack'[1])
          /\ \A k \in 1 .. Len(stack) : k # 1 => stack'[k] = stack[k]
          /\ \A k \in 1 .. Len(stack) : stack'[k].ref = stack[k].ref
          /\ stack[1].id \in 1 .. Len(objects)
      BY <1>1, <2>1, PartDone
    <2>3. ObjectsOK' /\ Len(objects') = Len(objects)
          /\ \A id \in 1 .. Len(objects) : objects'[id].kind = objects[id].kind
      BY <1>1, <2>1, <2>2, ObjectFilled
    <2>4. \A k \in 1 .. Len(stack') : Activated(stack'[k])
      BY <1>1, <2>2 DEF StackOK
    <2>5. ASSUME NEW k \in 1 .. Len(stack')
          PROVE  IsActivation(stack'[k], Contents(model), cache', objects')
      <3>1. stack'[k].id \in 1 .. Len(objects) /\ stack'[k].ref \in DOMAIN cache
        BY <1>1, <2>4 DEF Activated, IsActivation, CacheOK
      <3> QED
        BY <1>1, <2>3, <2>4, <3>1, ActivationKept
    <2>6. StackOK'
      BY <1>1, <2>1, <2>2, <2>5 DEF StackOK, Activated
    <2>7. FrameOK' /\ ResultOK' /\ CacheOK' /\ CountersOK'
      BY <1>1, <2>1, <2>3, Tags DEF FrameOK, ResultOK, CacheOK, CountersOK
    <2>8. stack' # <<>>
      BY <2>2, SequenceShape
    <2> QED
      BY <1>1, <2>1, <2>3, <2>6, <2>7, <2>8 DEF Shape, IsModel
  <1> QED
    BY <1>2, <1>3

\* The innermost activation ends.
Popped == stack' = Tail(stack)

LEMMA PoppedStack ==
  ASSUME StackOK, stack # <<>>, Popped
  PROVE  /\ IsSequence(stack') /\ Len(stack') = Len(stack) - 1 /\ Len(stack) \in Nat \ {0}
         /\ \A k \in 1 .. Len(stack') : /\ k + 1 \in 1 .. Len(stack) /\ stack'[k] = stack[k + 1]
                                        /\ stack[k + 1].todo # <<>>
                                        /\ stack[k + 1].ref # stack[1].ref
         /\ \A j, k \in 1 .. Len(stack') : j # k => stack'[j].ref # stack'[k].ref
  <1>1. /\ IsSequence(Tail(stack)) /\ Len(Tail(stack)) = Len(stack) - 1 /\ Len(stack) \in Nat \ {0}
        /\ \A k \in 1 .. Len(stack) - 1 : Tail(stack)[k] = stack[k + 1]
    BY Shortened DEF StackOK
  <1>2. /\ IsSequence(stack') /\ Len(stack') = Len(stack) - 1
        /\ \A k \in 1 .. Len(stack) - 1 : stack'[k] = stack[k + 1]
    BY <1>1 DEF Popped
  <1>3. \A k \in 1 .. Len(stack') : k + 1 \in 1 .. Len(stack) /\ k + 1 # 1
    BY <1>1, <1>2
  <1>4. \A k \in 1 .. Len(stack') : stack[k + 1].todo # <<>> /\ stack[k + 1].ref # stack[1].ref
    BY <1>1, <1>3 DEF StackOK
  <1>5. ASSUME NEW j \in 1 .. Len(stack'), NEW k \in 1 .. Len(stack'), j # k
        PROVE  stack'[j].ref # stack'[k].ref
    <2>1. j + 1 \in 1 .. Len(stack) /\ k + 1 \in 1 .. Len(stack) /\ j + 1 # k + 1
      BY <1>1, <1>2, <1>5
    <2>2. stack[j + 1].ref # stack[k + 1].ref
      BY <2>1 DEF StackOK
    <2> QED
      BY <1>2, <2>2
  <1> QED
    BY <1>1, <1>2, <1>3, <1>4, <1>5

(* What is popped leaves the other activations as they were. *)
LEMMA PoppedKeepsStack ==
  ASSUME Shape, stack # <<>>, model # NoModel, Popped, model' = model,
         \A id \in 1 .. Len(objects) : objects'[id].kind = objects[id].kind,
         DOMAIN cache \subseteq DOMAIN cache',
         \A q \in DOMAIN cache : q # stack[1].ref => cache'[q] = cache[q]
  PROVE  StackOK'
  <1>1. StackOK /\ CacheOK
    BY DEF Shape
  <1>2. /\ IsSequence(stack') /\ Len(stack') = Len(stack) - 1 /\ Len(stack) \in Nat \ {0}
        /\ \A k \in 1 .. Len(stack') : /\ k + 1 \in 1 .. Len(stack) /\ stack'[k] = stack[k + 1]
                                       /\ stack[k + 1].todo # <<>>
                                       /\ stack[k + 1].ref # stack[1].ref
        /\ \A j, k \in 1 .. Len(stack') : j # k => stack'[j].ref # stack'[k].ref
    BY <1>1, PoppedStack
  <1>3. ASSUME NEW k \in 1 .. Len(stack')
        PROVE  IsActivation(stack'[k], Contents(model), cache', objects') /\ stack'[k].todo # <<>>
    <2>1. k + 1 \in 1 .. Len(stack) /\ stack'[k] = stack[k + 1] /\ stack[k + 1].todo # <<>>
          /\ stack[k + 1].ref # stack[1].ref
      BY <1>2
    <2>2. stack[k + 1].ref \in DOMAIN cache
      BY <1>1, <2>1 DEF StackOK, Activated, IsActivation
    <2>3. IsActivation(stack[k + 1], Contents(model), cache', objects')
      BY <1>1, <2>1, <2>2, ActivationsKept
    <2> QED
      BY <2>1, <2>3
  <1>4. stack' # <<>> => stack'[1].todo # <<>>
    BY <1>2, <1>3, SequenceShape
  <1> QED
    BY <1>2, <1>3, <1>4 DEF StackOK, Activated

LEMMA LeaveKeepsShape == Shape /\ Leave => Shape'
  <1> SUFFICES ASSUME Shape, Leave PROVE Shape'
    OBVIOUS
  <1> DEFINE r == stack[1].ref
             id == Len(objects) + 1
             o == PyObject("tuple", "tuple", objects[stack[1].id].contents)
  <1>1. /\ model # NoModel /\ IsModel(model) /\ StackOK /\ FrameOK /\ stack # <<>>
        /\ ObjectsOK /\ CacheOK /\ CountersOK /\ result = Nothing
        /\ UNCHANGED <<model, frame, first, escaped, answers>> /\ Popped
    BY DEF Shape, Leave, Working, Popped
  <1>2. 1 \in 1 .. Len(stack) /\ Activated(stack[1])
    BY <1>1, SequenceShape DEF StackOK
  <1>3. /\ r \in DOMAIN cache /\ cache[r] = stack[1].id /\ cache[r] \in 1 .. Len(objects)
        /\ objects[stack[1].id].kind = Shell(Contents(model)[r]).kind
    BY <1>1, <1>2 DEF Activated, IsActivation, CacheOK
  <1>4. FrameOK'
    BY <1>1 DEF FrameOK
  <1>5. CASE Contents(model)[r].sort = "list" /\ ~Contents(model)[r].mutable
    <2>1. /\ objects' = Append(objects, o) /\ cache' = [cache EXCEPT ![r] = id] /\ result' = Object(id)
      BY <1>5 DEF Leave, Recached
    <2>2. IsPython(o)
      <3>1. objects[stack[1].id].kind = "list"
        BY <1>3, <1>5 DEF Shell, EmptyList, PyObject
      <3>2. IsSequence(objects[stack[1].id].contents)
        BY <1>1, <1>3, <3>1 DEF ObjectsOK, IsPython
      <3> QED
        BY <3>2 DEF IsPython, PyObject
    <2>3. /\ ObjectsOK' /\ Len(objects') = id /\ Len(objects) \in Nat
          /\ \A k \in 1 .. Len(objects) : objects'[k] = objects[k]
      BY <1>1, <2>1, <2>2, ObjectAdded
    <2> HIDE DEF r, o
    <2>4. CacheOK'
      <3>1. /\ DOMAIN cache \subseteq Ref /\ r \in DOMAIN cache
            /\ \A q \in DOMAIN cache : cache[q] \in 1 .. Len(objects)
            /\ \A p, q \in DOMAIN cache : p # q => cache[p] # cache[q]
        BY <1>1, <1>3 DEF CacheOK
      <3>2. DOMAIN cache' = DOMAIN cache /\ cache' = [q \in DOMAIN cache' |-> cache'[q]]
            /\ \A q \in DOMAIN cache : cache'[q] = IF q = r THEN id ELSE cache[q]
        BY <2>1
      <3>3. \A q \in DOMAIN cache : cache'[q] \in 1 .. id
        BY <2>3, <3>1, <3>2
      <3>4. \A p, q \in DOMAIN cache : p # q => cache'[p] # cache'[q]
        BY <2>3, <3>1, <3>2
      <3> QED
        BY <2>3, <3>1, <3>2, <3>3, <3>4 DEF CacheOK
    <2>5. DOMAIN cache \subseteq DOMAIN cache' /\ \A q \in DOMAIN cache : q # r => cache'[q] = cache[q]
      BY <1>1, <2>1
    <2>6. StackOK'
      BY <1>1, <2>3, <2>5, PoppedKeepsStack DEF r
    <2>7. ResultOK' /\ CountersOK'
      BY <1>1, <2>1, <2>3, Tags DEF ResultOK, CountersOK
    <2> QED
      BY <1>1, <1>4, <2>3, <2>4, <2>6, <2>7 DEF Shape, IsModel
  <1>6. CASE ~(Contents(model)[r].sort = "list" /\ ~Contents(model)[r].mutable)
    <2>1. result' = Object(cache[r]) /\ UNCHANGED <<objects, cache>>
      BY <1>6 DEF Leave
    <2>2. StackOK'
      BY <1>1, <2>1, PoppedKeepsStack
    <2>3. ResultOK'
      BY <1>3, <2>1, Tags DEF ResultOK
    <2> QED
      BY <1>1, <1>4, <2>1, <2>2, <2>3 DEF Shape, IsModel, ObjectsOK, CacheOK, CountersOK
  <1> QED
    BY <1>5, <1>6

LEMMA CaughtKeepsShape == Shape /\ Caught => Shape'
  <1> SUFFICES ASSUME Shape, Caught PROVE Shape'
    OBVIOUS
  <1>1. /\ model # NoModel /\ IsModel(model) /\ StackOK /\ FrameOK /\ stack # <<>>
        /\ ObjectsOK /\ CacheOK /\ CountersOK
        /\ UNCHANGED <<model, frame, cache, first, escaped, answers>> /\ Popped
        /\ objects' = Append(objects, EmptyList) /\ result' = Object(Len(objects) + 1)
    BY DEF Shape, Caught, Popped
  <1>2. /\ ObjectsOK' /\ Len(objects') = Len(objects) + 1 /\ Len(objects) \in Nat
        /\ \A k \in 1 .. Len(objects) : objects'[k] = objects[k]
    BY <1>1, EmptyListIsPython, ObjectAdded
  <1>3. StackOK'
    BY <1>1, <1>2, PoppedKeepsStack
  <1>4. CacheOK' /\ ResultOK' /\ CountersOK' /\ FrameOK'
    BY <1>1, <1>2, Tags DEF CacheOK, ResultOK, CountersOK, FrameOK
  <1> QED
    BY <1>1, <1>2, <1>3, <1>4 DEF Shape, IsModel

LEMMA EndKeepsShape == Shape /\ (Escape \/ Push) => Shape'
  <1> SUFFICES ASSUME Shape, Escape \/ Push PROVE Shape'
    OBVIOUS
  <1>1. model' = NoModel /\ stack' = <<>> /\ result' = Nothing
        /\ UNCHANGED <<objects, first, answers>>
    BY DEF Escape, Push, Complete
  <1>2. CacheOK'
    BY DEF Escape, Push, Shape, CacheOK, AfterReset, EmptyCache
  <1> QED
    BY <1>1, <1>2, Tags DEF Shape, ObjectsOK, ResultOK, CountersOK

LEMMA NextShape == Shape /\ [Next]_vars => Shape'
  <1> SUFFICES ASSUME Shape, [Next]_vars PROVE Shape'
    OBVIOUS
  <1>1. CASE UNCHANGED vars
    BY <1>1 DEF vars, Shape, ObjectsOK, CacheOK, ResultOK, CountersOK, StackOK, FrameOK, Activated, IsModel
  <1> QED
    BY <1>1, AnswerKeepsShape, ConvertValueKeepsShape, ConvertReferenceKeepsShape,
       StoreParameterKeepsShape, StoreKeepsShape, SkipFieldKeepsShape, LeaveKeepsShape,
       CaughtKeepsShape, EndKeepsShape
    DEF Next

----------------------------------------------------------------------------
(* No object of an earlier model in a frame.                               *)

\* Not an object of an earlier conversion.
New(v) == v.tag = "pointer" => v.of >= first

Fresh ==
  ~escaped =>
    IF model = NoModel THEN cache = EmptyCache
    ELSE /\ \A k \in 1 .. Len(frame) : New(frame[k])
         /\ New(result)
         /\ \A r \in DOMAIN cache : cache[r] >= first
         /\ \A id \in 1 .. Len(objects) : id >= first => \A v \in Held(objects[id]) : New(v)

(* Filling a slot adds the value and nothing else. *)
LEMMA HeldAfterFilling ==
  ASSUME NEW o, IsPython(o), NEW slot, NEW v
  PROVE  Held(Filled(o, slot, v)) \subseteq Held(o) \cup {v}
  <1> DEFINE p == Filled(o, slot, v)
  <1>1. \A c : [o EXCEPT !.contents = c].kind = o.kind /\ [o EXCEPT !.contents = c].contents = c
    <2>1. PICK kind, class, contents : o = [kind |-> kind, class |-> class, contents |-> contents]
      BY DEF IsPython, PyObject
    <2> QED
      BY <2>1
  <1>2. CASE o.kind = "list"
    <2>1. p.kind = "list" /\ p.contents = Append(o.contents, v)
      BY <1>1, <1>2 DEF Filled
    <2>2. Elements(Append(o.contents, v)) = Elements(o.contents) \cup {v}
      BY <1>2, AppendedElements DEF IsPython
    <2> HIDE DEF p
    <2>3. Held(p) = Elements(Append(o.contents, v)) /\ Held(o) = Elements(o.contents)
      BY <1>2, <2>1 DEF Held
    <2> QED
      BY <2>2, <2>3 DEF p
  <1>3. CASE o.kind = "object"
    <2> DEFINE c == [f \in DOMAIN o.contents \cup {slot} |-> IF f = slot THEN v ELSE o.contents[f]]
    <2>1. p.kind = "object" /\ p.contents = c
      BY <1>1, <1>3 DEF Filled
    <2>2. \A f \in DOMAIN c : c[f] = v \/ (f \in DOMAIN o.contents /\ c[f] = o.contents[f])
      OBVIOUS
    <2> HIDE DEF c, p
    <2>3. Held(p) = {c[f] : f \in DOMAIN c} /\ Held(o) = {o.contents[f] : f \in DOMAIN o.contents}
      BY <1>3, <2>1 DEF Held
    <2> QED
      BY <2>2, <2>3 DEF p
  <1>4. CASE o.kind = "dict" /\ slot # NoKey
    <2> DEFINE c == PutKey(o.contents, Plain(slot), v)
    <2>1. p.kind = "dict" /\ p.contents = c
      BY <1>1, <1>4 DEF Filled
    <2>2. \A f \in DOMAIN c : c[f] = v \/ (f \in DOMAIN o.contents /\ c[f] = o.contents[f])
      BY DEF PutKey
    <2> HIDE DEF c, p
    <2>3. Held(p) = {c[f] : f \in DOMAIN c} /\ Held(o) = {o.contents[f] : f \in DOMAIN o.contents}
      BY <1>4, <2>1 DEF Held
    <2> QED
      BY <2>2, <2>3 DEF p
  <1>5. CASE o.kind = "set"
    <2>1. p.kind = "set" /\ p.contents = PutMember(o.contents, v)
      BY <1>1, <1>5 DEF Filled
    <2> HIDE DEF p
    <2>2. Held(p) = PutMember(o.contents, v) /\ Held(o) = o.contents
      BY <1>5, <2>1 DEF Held
    <2> QED
      BY <2>2 DEF p, PutMember
  <1>6. CASE ~(o.kind = "list" \/ o.kind = "object" \/ (o.kind = "dict" /\ slot # NoKey) \/ o.kind = "set")
    BY <1>6 DEF Filled
  <1> QED
    BY <1>2, <1>3, <1>4, <1>5, <1>6

(* An object that is added reaches no earlier ones. *)
LEMMA AddedIsFresh ==
  ASSUME Shape, Fresh, ~escaped, model # NoModel, model' = model, UNCHANGED <<frame, first, escaped>>,
         NEW o, IsPython(o), objects' = Append(objects, o), \A v \in Held(o) : New(v),
         result' = result \/ result' = Object(Len(objects) + 1),
         \A q \in DOMAIN cache' : (q \in DOMAIN cache /\ cache'[q] = cache[q]) \/ cache'[q] = Len(objects) + 1
  PROVE  Fresh'
  <1>1. ObjectsOK /\ first \in 1 .. Len(objects) + 1
    BY DEF Shape, CountersOK
  <1>2. /\ ObjectsOK' /\ Len(objects') = Len(objects) + 1 /\ Len(objects) \in Nat
        /\ \A id \in 1 .. Len(objects) : objects'[id] = objects[id]
        /\ objects'[Len(objects) + 1] = o
    BY <1>1, ObjectAdded
  <1>3. ASSUME NEW id \in 1 .. Len(objects'), id >= first, NEW v \in Held(objects'[id])
        PROVE  New(v)
    <2>1. CASE id = Len(objects) + 1
      BY <1>2, <1>3, <2>1
    <2>2. CASE id # Len(objects) + 1
      <3>1. id \in 1 .. Len(objects) /\ objects'[id] = objects[id]
        BY <1>2, <2>2
      <3> QED
        BY <1>3, <3>1 DEF Fresh
    <2> QED
      BY <2>1, <2>2
  <1>4. \A q \in DOMAIN cache' : cache'[q] >= first
    BY <1>1, <1>2 DEF Fresh
  <1>5. result'.tag = "pointer" => result'.of >= first
    BY <1>1, <1>2, Tags DEF Fresh, New
  <1>6. \A k \in 1 .. Len(frame) : frame[k].tag = "pointer" => frame[k].of >= first
    BY DEF Fresh, New
  <1>7. \A id \in 1 .. Len(objects') : id >= first =>
          \A v \in Held(objects'[id]) : v.tag = "pointer" => v.of >= first
    BY <1>3 DEF New
  <1> QED
    BY <1>4, <1>5, <1>6, <1>7 DEF Fresh, New

LEMMA AnswerKeepsFresh == Shape /\ Fresh /\ Answer => Fresh'
  <1> SUFFICES ASSUME Shape, Fresh, Answer PROVE Fresh'
    OBVIOUS
  <1>0. escaped' = escaped
    BY DEF Answer
  <1> SUFFICES ASSUME ~escaped PROVE Fresh'
    BY <1>0 DEF Fresh
  <1>1. model = NoModel /\ cache = EmptyCache /\ frame' = <<>> /\ result = Nothing
        /\ first' = Len(objects) + 1 /\ UNCHANGED <<cache, objects, result, escaped>>
    BY DEF Answer, Fresh, Shape
  <1>2. Len(objects) \in Nat /\ Len(frame') = 0
    BY <1>1, SequenceShape DEF Shape, ObjectsOK
  <1>3. \A id \in 1 .. Len(objects') : ~(id >= first')
    BY <1>1, <1>2
  <1>4. DOMAIN cache' = {}
    BY <1>1 DEF EmptyCache
  <1>5. New(result)'
    BY <1>1, Tags DEF New
  <1> QED
    BY <1>1, <1>2, <1>3, <1>4, <1>5 DEF Fresh

LEMMA ConvertValueKeepsFresh == Shape /\ Fresh /\ ConvertValue => Fresh'
  <1> SUFFICES ASSUME Shape, Fresh, ConvertValue, ~escaped PROVE Fresh'
    BY DEF ConvertValue, Fresh
  <1>1. model # NoModel /\ IsValue(Pending) /\ UNCHANGED <<model, frame, cache, objects, first, escaped>>
    BY PendingIsValue DEF ConvertValue, HasPending, Working
  <1>2. result'.tag = "pointer" => result'.of >= first
    <2>1. CASE Pending.tag = "reference"
      BY <1>1, <2>1, Tags DEF ConvertValue, Fresh
    <2>2. CASE Pending.tag # "reference"
      <3>1. result' = Raise \/ result' = Pending \/ result' = AnyInt(0)
        BY <2>2 DEF ConvertValue, Plain
      <3> QED
        BY <1>1, <3>1, Tags DEF AnyInt
    <2> QED
      BY <2>1, <2>2
  <1> QED
    BY <1>1, <1>2 DEF Fresh, New

LEMMA ConvertReferenceKeepsFresh == Shape /\ Fresh /\ ConvertReference => Fresh'
  <1> SUFFICES ASSUME Shape, Fresh, ConvertReference, ~escaped PROVE Fresh'
    BY DEF ConvertReference, Fresh
  <1> DEFINE r == Pending.of
             cell == Contents(model)[r]
             id == Len(objects) + 1
  <1>1. model # NoModel /\ WellSorted(cell) /\ UNCHANGED <<model, frame, first, escaped>>
        /\ r \notin DOMAIN cache
    BY ReferenceState DEF ConvertReference
  <1>2. CASE EnterCell(r)
    <2>1. /\ cell.sort # "array" /\ objects' = Append(objects, Shell(cell)) /\ UNCHANGED result
          /\ cache' = [q \in DOMAIN cache \cup {r} |-> IF q = r THEN id ELSE cache[q]]
      BY <1>2 DEF EnterCell
    <2>2. Held(Shell(cell)) = {}
      <3>1. cell.sort \in {"list", "set", "dict", "object"}
        BY <1>1, <2>1 DEF WellSorted
      <3> QED
        BY <3>1 DEF Shell, Held, PyObject, EmptyList, Elements
    <2>3. IsPython(Shell(cell))
      BY <1>1, <2>1, ShellIsPython
    <2>4. \A q \in DOMAIN cache' : (q \in DOMAIN cache /\ cache'[q] = cache[q]) \/ cache'[q] = id
      BY <2>1
    <2> QED
      BY <1>1, <2>1, <2>2, <2>3, <2>4, AddedIsFresh
  <1>3. CASE ClassNotFound(r)
    <2>1. objects' = Append(objects, EmptyList) /\ result' = Object(id) /\ UNCHANGED cache
      BY <1>3 DEF ClassNotFound
    <2>2. Held(EmptyList) = {}
      BY DEF Held, PyObject, EmptyList, Elements
    <2> QED
      BY <1>1, <2>1, <2>2, EmptyListIsPython, AddedIsFresh
  <1>4. CASE ConvertArray(r)
    <2> DEFINE o == PyObject("array", "array", cell.items)
    <2>1. /\ cell.sort = "array" /\ objects' = Append(objects, o) /\ result' = Object(id)
          /\ cache' = [q \in DOMAIN cache \cup {r} |-> IF q = r THEN id ELSE cache[q]]
      BY <1>4 DEF ConvertArray
    <2>2. IsSequence(cell.items) /\ \A v \in Elements(cell.items) : IsValue(v)
      BY <1>1, <2>1 DEF WellSorted, AreValues
    <2>3. IsPython(o) /\ Held(o) = Elements(cell.items)
      BY <2>2 DEF IsPython, PyObject, Held
    <2>4. \A v \in Held(o) : New(v)
      BY <2>2, <2>3, Tags DEF New
    <2>5. \A q \in DOMAIN cache' : (q \in DOMAIN cache /\ cache'[q] = cache[q]) \/ cache'[q] = id
      BY <2>1
    <2> QED
      BY <1>1, <2>1, <2>3, <2>4, <2>5, AddedIsFresh
  <1> QED
    BY <1>2, <1>3, <1>4 DEF ConvertReference

LEMMA StoreKeepsFresh == Shape /\ Fresh /\ (StoreParameter \/ Store \/ SkipField) => Fresh'
  <1> SUFFICES ASSUME Shape, Fresh, StoreParameter \/ Store \/ SkipField, ~escaped PROVE Fresh'
    BY DEF StoreParameter, Store, SkipField, Fresh
  <1>1. model # NoModel /\ UNCHANGED <<model, cache, first, escaped>>
    BY DEF StoreParameter, Store, SkipField, Returned, Working
  <1>2. CASE StoreParameter
    <2>1. frame' = Append(frame, result) /\ result' = Nothing /\ UNCHANGED objects
      BY <1>2 DEF StoreParameter
    <2>2. Len(frame') = Len(frame) + 1 /\ Len(frame) \in Nat
          /\ \A k \in 1 .. Len(frame) : frame'[k] = frame[k] /\ frame'[Len(frame) + 1] = result
      BY <1>1, <2>1, Appended, SequenceShape DEF Shape, FrameOK
    <2>3. \A k \in 1 .. Len(frame') : frame'[k] = result \/ (k \in 1 .. Len(frame) /\ frame'[k] = frame[k])
      <3>1. frame'[Len(frame) + 1] = result
        BY <1>1, <2>1, Appended DEF Shape, FrameOK
      <3> QED
        BY <2>2, <3>1
    <2>4. \A k \in 1 .. Len(frame') : New(frame'[k])
      BY <1>1, <2>3 DEF Fresh
    <2> QED
      BY <1>1, <2>1, <2>4, Tags DEF Fresh, New
  <1>3. CASE SkipField
    BY <1>1, <1>3 DEF SkipField, Fresh, New
  <1>4. CASE Store /\ Refused(result)
    BY <1>1, <1>4, Tags DEF Store, Fresh, New
  <1>5. CASE Store /\ ~Refused(result)
    <2>1. Stored /\ result' = Nothing /\ UNCHANGED frame /\ stack # <<>>
      BY <1>5 DEF Store, Stored
    <2> DEFINE at == stack[1].id
    <2>2. at \in 1 .. Len(objects) /\ ObjectsOK /\ at >= first
      <3>1. StackOK /\ CacheOK /\ ObjectsOK
        BY <1>1 DEF Shape
      <3>2. Activated(stack[1])
        BY <2>1, <3>1, SequenceShape DEF StackOK
      <3>3. stack[1].ref \in DOMAIN cache /\ cache[stack[1].ref] = at
        BY <3>2 DEF Activated, IsActivation
      <3> QED
        BY <1>1, <3>1, <3>3 DEF CacheOK, Fresh
    <2>3. /\ Len(objects') = Len(objects)
          /\ objects'[at] = Filled(objects[at], Children[1].slot, result)
          /\ \A id \in 1 .. Len(objects) : id # at => objects'[id] = objects[id]
      BY <2>1, <2>2, ObjectFilled
    <2>4. Held(objects'[at]) \subseteq Held(objects[at]) \cup {result}
      BY <2>2, <2>3, HeldAfterFilling DEF ObjectsOK
    <2>5. ASSUME NEW id \in 1 .. Len(objects'), id >= first, NEW v \in Held(objects'[id])
          PROVE  New(v)
      BY <1>1, <2>2, <2>3, <2>4, <2>5 DEF Fresh
    <2>6. \A id \in 1 .. Len(objects') : id >= first =>
            \A v \in Held(objects'[id]) : v.tag = "pointer" => v.of >= first
      BY <2>5 DEF New
    <2>7. Nothing.tag # "pointer"
      BY Tags
    <2> QED
      BY <1>1, <2>1, <2>6, <2>7 DEF Fresh, New
  <1> QED
    BY <1>2, <1>3, <1>4, <1>5

LEMMA ReturnKeepsFresh == Shape /\ Fresh /\ (Leave \/ Caught) => Fresh'
  <1> SUFFICES ASSUME Shape, Fresh, Leave \/ Caught PROVE Fresh'
    OBVIOUS
  <1>0. escaped' = escaped
    BY DEF Leave, Caught
  <1> SUFFICES ASSUME ~escaped PROVE Fresh'
    BY <1>0 DEF Fresh
  <1>1. model # NoModel /\ UNCHANGED <<model, frame, first, escaped>> /\ stack # <<>>
    BY DEF Leave, Caught, Working
  <1>2. CASE Caught
    <2>1. objects' = Append(objects, EmptyList) /\ result' = Object(Len(objects) + 1) /\ UNCHANGED cache
      BY <1>2 DEF Caught
    <2>2. Held(EmptyList) = {}
      BY DEF Held, PyObject, EmptyList, Elements
    <2> QED
      BY <1>1, <2>1, <2>2, EmptyListIsPython, AddedIsFresh
  <1> DEFINE r == stack[1].ref
             cell == Contents(model)[r]
             at == stack[1].id
  <1>3. r \in DOMAIN cache /\ cache[r] = at /\ at \in 1 .. Len(objects) /\ at >= first
        /\ objects[at].kind = Shell(cell).kind /\ IsPython(objects[at])
    <2>1. StackOK /\ CacheOK /\ ObjectsOK
      BY <1>1 DEF Shape
    <2>2. Activated(stack[1])
      BY <1>1, <2>1, SequenceShape DEF StackOK
    <2> QED
      BY <1>1, <2>1, <2>2 DEF Activated, IsActivation, CacheOK, ObjectsOK, Fresh
  <1>4. CASE Leave /\ cell.sort = "list" /\ ~cell.mutable
    <2> DEFINE o == PyObject("tuple", "tuple", objects[at].contents)
    <2>1. /\ objects' = Append(objects, o) /\ cache' = [cache EXCEPT ![r] = Len(objects) + 1]
          /\ result' = Object(Len(objects) + 1)
      BY <1>4 DEF Leave, Recached
    <2>2. objects[at].kind = "list"
      BY <1>3, <1>4 DEF Shell, EmptyList, PyObject
    <2>3. IsPython(o) /\ Held(o) = Held(objects[at])
      BY <1>3, <2>2 DEF IsPython, PyObject, Held
    <2>4. \A v \in Held(o) : New(v)
      BY <1>1, <1>3, <2>3 DEF Fresh
    <2>5. \A q \in DOMAIN cache' : (q \in DOMAIN cache /\ cache'[q] = cache[q]) \/ cache'[q] = Len(objects) + 1
      BY <1>3, <2>1
    <2> QED
      BY <1>1, <2>1, <2>3, <2>4, <2>5, AddedIsFresh
  <1>5. CASE Leave /\ ~(cell.sort = "list" /\ ~cell.mutable)
    <2>1. result' = Object(cache[r]) /\ UNCHANGED <<objects, cache>>
      BY <1>5 DEF Leave
    <2> QED
      BY <1>1, <1>3, <2>1, Tags DEF Fresh, New
  <1> QED
    BY <1>2, <1>4, <1>5

LEMMA NextFresh == Shape /\ Fresh /\ [Next]_vars => Fresh'
  <1> SUFFICES ASSUME Shape, Fresh, [Next]_vars PROVE Fresh'
    OBVIOUS
  <1>1. CASE UNCHANGED vars
    BY <1>1 DEF vars, Fresh, New
  <1>2. CASE Escape
    BY <1>2 DEF Escape, Fresh
  <1>3. CASE Push
    BY <1>3 DEF Push, AfterReset, Fresh
  <1> QED
    BY <1>1, <1>2, <1>3, AnswerKeepsFresh, ConvertValueKeepsFresh, ConvertReferenceKeepsFresh,
       StoreKeepsFresh, ReturnKeepsFresh
    DEF Next

LEMMA FreshMeansObjects == Shape /\ Fresh => FreshObjects
  <1> SUFFICES ASSUME Shape, Fresh, Complete, ~escaped,
                      NEW v \in Elements(frame) \cup UNION {Held(objects[id]) : id \in first .. Len(objects)},
                      v.tag = "pointer"
               PROVE  v.of >= first
    BY DEF FreshObjects
  <1>1. model # NoModel /\ IsSequence(frame)
    BY DEF Complete, Shape, FrameOK
  <1>2. first \in Nat /\ first >= 1 /\ Len(objects) \in Nat
    BY SequenceShape DEF Shape, CountersOK, ObjectsOK
  <1>3. CASE v \in Elements(frame)
    <2>1. PICK k \in 1 .. Len(frame) : v = frame[k]
      BY <1>1, <1>3, SequenceShape DEF Elements
    <2> QED
      BY <1>1, <2>1 DEF Fresh, New
  <1>4. CASE \E id \in first .. Len(objects) : v \in Held(objects[id])
    <2>1. PICK id \in first .. Len(objects) : v \in Held(objects[id])
      BY <1>4
    <2>2. id \in 1 .. Len(objects) /\ id >= first
      BY <1>2
    <2> QED
      BY <1>1, <2>1, <2>2 DEF Fresh, New
  <1> QED
    BY <1>3, <1>4

LEMMA ShapeAlways == Spec => []Shape
  BY InitShape, NextShape, PTL DEF Spec

LEMMA InitFresh == Init => Fresh
  BY DEF Init, Fresh

(* The frame made of a model reaches only objects made for it, for any      *)
(* models in any number: convert_reference's global cache of objects never *)
(* carries one over to the next frame, as long as no conversion ended with *)
(* an exception.                                                           *)
THEOREM FramesShareNoObject == Spec => []FreshObjects
  BY ShapeAlways, InitFresh, NextFresh, FreshMeansObjects, PTL DEF Spec

----------------------------------------------------------------------------
(* Contents and sharing.                                                   *)

\* What stands for a value, given the cache, and whether it stays so: the object of
\* a tuple that is open, that is being converted, will be replaced.
Image(refs, v) == IF v.tag = "reference" THEN Object(refs[v.of]) ELSE Plain(v)
Placed(refs, open, v) == v.tag = "reference" => v.of \in DOMAIN refs \ open
Shown(refs, open, p, v) == Placed(refs, open, v) /\ p = Image(refs, v)

\* Contents c stand for the first d parts of a cell.
ListFilled(refs, open, c, cell, d) ==
  DOMAIN c = 1 .. d /\ \A k \in 1 .. d : Shown(refs, open, c[k], cell.items[k])
SetFilled(refs, open, c, cell, d) ==
  /\ c = {Image(refs, cell.members[k]) : k \in 1 .. d}
  /\ \A k \in 1 .. d : Placed(refs, open, cell.members[k])
DictFilled(refs, open, c, cell, d) ==
  /\ DOMAIN c = {Plain(cell.keys[k]) : k \in 1 .. d \div 2}
  /\ \A k \in 1 .. d \div 2 : Shown(refs, open, c[Plain(cell.keys[k])], cell.assoc[k])
ObjectFilledUpTo(refs, open, c, cell, d) ==
  /\ DOMAIN c = {FieldOrder[k] : k \in 1 .. d} \cap DOMAIN cell.fields
  /\ \A f \in DOMAIN c : Shown(refs, open, c[f], cell.fields[f])

Filling(refs, open, c, cell, d) ==
  /\ cell.sort = "list" => ListFilled(refs, open, c, cell, d)
  /\ cell.sort = "set" => SetFilled(refs, open, c, cell, d)
  /\ cell.sort = "dict" => DictFilled(refs, open, c, cell, d)
  /\ cell.sort = "object" => ObjectFilledUpTo(refs, open, c, cell, d)

\* An object under construction, and a finished one.
IsShell(refs, open, o, cell, d) ==
  /\ o.kind = Shell(cell).kind /\ o.class = Shell(cell).class
  /\ Filling(refs, open, o.contents, cell, d)

IsShown(refs, open, o, cell) ==
  /\ o.kind = IF IsTuple(cell) THEN "tuple" ELSE cell.sort
  /\ o.class = IF cell.sort = "object" THEN cell.class ELSE o.kind
  /\ IF cell.sort = "array" THEN o.contents = cell.items
     ELSE Filling(refs, open, o.contents, cell, Len(ToConvert(cell)))

\* Python's sets and dicts have the members and keys of the cell.
PythonCell(cell) ==
  /\ cell.sort = "dict" => PythonDistinct(cell.keys)
  /\ cell.sort = "set" => PythonDistinct(cell.members)

\* No settled reference changes its object.
Extends(refs, open, refs2, open2) ==
  \A r \in DOMAIN refs \ open : r \in DOMAIN refs2 \ open2 /\ refs2[r] = refs[r]

(* What stands for a value goes on standing for it. *)
LEMMA ShownKept ==
  ASSUME NEW refs, NEW open, NEW refs2, NEW open2, Extends(refs, open, refs2, open2),
         NEW v, Placed(refs, open, v)
  PROVE  Placed(refs2, open2, v) /\ Image(refs2, v) = Image(refs, v)
  BY DEF Extends, Placed, Image

LEMMA FillingKept ==
  ASSUME NEW refs, NEW open, NEW refs2, NEW open2, Extends(refs, open, refs2, open2),
         NEW c, NEW cell, NEW d, Filling(refs, open, c, cell, d)
  PROVE  Filling(refs2, open2, c, cell, d)
  <1>1. \A p, v : Shown(refs, open, p, v) => Shown(refs2, open2, p, v)
    BY ShownKept DEF Shown
  <1>2. cell.sort = "list" => ListFilled(refs2, open2, c, cell, d)
    BY <1>1 DEF Filling, ListFilled
  <1>3. ASSUME cell.sort = "set" PROVE SetFilled(refs2, open2, c, cell, d)
    <2>1. c = {Image(refs, cell.members[k]) : k \in 1 .. d}
          /\ \A k \in 1 .. d : Placed(refs, open, cell.members[k])
      BY <1>3 DEF Filling, SetFilled
    <2>2. \A k \in 1 .. d : Placed(refs2, open2, cell.members[k])
                            /\ Image(refs2, cell.members[k]) = Image(refs, cell.members[k])
      BY <2>1, ShownKept
    <2> QED
      BY <2>1, <2>2 DEF SetFilled
  <1>4. cell.sort = "dict" => DictFilled(refs2, open2, c, cell, d)
    BY <1>1 DEF Filling, DictFilled
  <1>5. cell.sort = "object" => ObjectFilledUpTo(refs2, open2, c, cell, d)
    BY <1>1 DEF Filling, ObjectFilledUpTo
  <1> QED
    BY <1>2, <1>3, <1>4, <1>5 DEF Filling

LEMMA ShellKept ==
  ASSUME NEW refs, NEW open, NEW refs2, NEW open2, Extends(refs, open, refs2, open2),
         NEW o, NEW cell, NEW d, IsShell(refs, open, o, cell, d)
  PROVE  IsShell(refs2, open2, o, cell, d)
  BY FillingKept DEF IsShell

LEMMA IsShownKept ==
  ASSUME NEW refs, NEW open, NEW refs2, NEW open2, Extends(refs, open, refs2, open2),
         NEW o, NEW cell, IsShown(refs, open, o, cell)
  PROVE  IsShown(refs2, open2, o, cell)
  BY FillingKept DEF IsShown

(* Values Python tells apart have images Python tells apart. *)
LEMMA ImagesDiffer ==
  ASSUME NEW refs, NEW open, NEW v, NEW w, IsValue(v), IsValue(w),
         Placed(refs, open, v), Placed(refs, open, w), ~PyEqual(Plain(v), Plain(w)),
         \A r, q \in DOMAIN refs : r # q => refs[r] # refs[q]
  PROVE  ~PyEqual(Image(refs, v), Image(refs, w))
  <1>1. v.tag = "reference" => v # Unassigned /\ Plain(v) = v
    BY DEF Unassigned, Plain
  <1>2. w.tag = "reference" => w # Unassigned /\ Plain(w) = w
    BY DEF Unassigned, Plain
  <1>3. v.tag # "reference" => Plain(v).tag # "pointer"
    BY Tags DEF Plain, AnyInt
  <1>4. w.tag # "reference" => Plain(w).tag # "pointer"
    BY Tags DEF Plain, AnyInt
  <1>5. CASE v.tag = "reference" /\ w.tag = "reference"
    <2>1. v.of # w.of
      <3>1. v = [tag |-> "reference", of |-> v.of] /\ w = [tag |-> "reference", of |-> w.of]
        BY <1>5 DEF IsValue
      <3>2. v # w
        BY <1>1, <1>2, <1>5 DEF PyEqual
      <3> QED
        BY <3>1, <3>2
    <2>2. refs[v.of] # refs[w.of]
      BY <1>5, <2>1 DEF Placed
    <2> QED
      BY <1>5, <2>2, Tags DEF Image, PyEqual, Numeric
  <1>6. CASE v.tag = "reference" /\ w.tag # "reference"
    BY <1>4, <1>6, Tags DEF Image, PyEqual, Numeric
  <1>7. CASE v.tag # "reference" /\ w.tag = "reference"
    BY <1>3, <1>7, Tags DEF Image, PyEqual, Numeric
  <1>8. CASE v.tag # "reference" /\ w.tag # "reference"
    BY <1>8 DEF Image
  <1> QED
    BY <1>5, <1>6, <1>7, <1>8

(* The parts of each sort of cell. *)
LEMMA PartsOfList ==
  ASSUME NEW cell, WellSorted(cell), cell.sort = "list"
  PROVE  /\ Len(ToConvert(cell)) = Len(cell.items) /\ Len(cell.items) \in Nat
         /\ DOMAIN cell.items = 1 .. Len(cell.items)
         /\ \A k \in 1 .. Len(cell.items) : ToConvert(cell)[k].value = cell.items[k]
                                            /\ IsValue(cell.items[k])
  <1>1. DOMAIN cell.items = 1 .. Len(cell.items) /\ Len(cell.items) \in Nat
    BY SequenceShape DEF WellSorted, AreValues
  <1>2. ToConvert(cell) = [k \in 1 .. Len(cell.items) |-> [slot |-> k, value |-> cell.items[k]]]
    BY <1>1 DEF ToConvert
  <1>3. Len(ToConvert(cell)) = Len(cell.items)
    BY <1>1, <1>2, FunctionIsSequence
  <1>4. \A k \in 1 .. Len(cell.items) : IsValue(cell.items[k])
    BY <1>1 DEF WellSorted, AreValues, Elements
  <1> QED
    BY <1>1, <1>2, <1>3, <1>4

LEMMA PartsOfSet ==
  ASSUME NEW cell, WellSorted(cell), cell.sort = "set"
  PROVE  /\ Len(ToConvert(cell)) = Len(cell.members) /\ Len(cell.members) \in Nat
         /\ DOMAIN cell.members = 1 .. Len(cell.members)
         /\ \A k \in 1 .. Len(cell.members) : ToConvert(cell)[k].value = cell.members[k]
                                              /\ IsValue(cell.members[k])
  <1>1. DOMAIN cell.members = 1 .. Len(cell.members) /\ Len(cell.members) \in Nat
    BY SequenceShape DEF WellSorted, AreValues
  <1>2. ToConvert(cell) = [k \in 1 .. Len(cell.members) |-> [slot |-> k, value |-> cell.members[k]]]
    BY <1>1 DEF ToConvert
  <1>3. Len(ToConvert(cell)) = Len(cell.members)
    BY <1>1, <1>2, FunctionIsSequence
  <1>4. \A k \in 1 .. Len(cell.members) : IsValue(cell.members[k])
    BY <1>1 DEF WellSorted, AreValues, Elements
  <1> QED
    BY <1>1, <1>2, <1>3, <1>4

LEMMA PartsOfDict ==
  ASSUME NEW cell, WellSorted(cell), cell.sort = "dict"
  PROVE  /\ Len(ToConvert(cell)) = 2 * Len(cell.keys) /\ Len(cell.keys) \in Nat
         /\ DOMAIN cell.keys = 1 .. Len(cell.keys) /\ DOMAIN cell.assoc = 1 .. Len(cell.keys)
         /\ \A x \in 1 .. Len(cell.keys) :
              /\ ToConvert(cell)[2 * x - 1].slot = NoKey
              /\ ToConvert(cell)[2 * x - 1].value = cell.keys[x]
              /\ ToConvert(cell)[2 * x].slot = cell.keys[x]
              /\ ToConvert(cell)[2 * x].value = cell.assoc[x]
              /\ IsValue(cell.keys[x]) /\ IsValue(cell.assoc[x])
  <1> DEFINE n == Len(cell.keys)
             part(k) == LET x == (k + 1) \div 2
                        IN  IF k % 2 = 1 THEN [slot |-> NoKey, value |-> cell.keys[x]]
                            ELSE [slot |-> cell.keys[x], value |-> cell.assoc[x]]
  <1>1. DOMAIN cell.keys = 1 .. n /\ DOMAIN cell.assoc = 1 .. n /\ n \in Nat
    BY SequenceShape DEF WellSorted, AreValues
  <1>2. ToConvert(cell) = [k \in 1 .. 2 * n |-> part(k)]
    BY DEF ToConvert
  <1>3. Len(ToConvert(cell)) = 2 * n
    BY <1>1, <1>2, FunctionIsSequence
  <1>4. \A x \in 1 .. n : IsValue(cell.keys[x]) /\ IsValue(cell.assoc[x])
    BY <1>1 DEF WellSorted, AreValues, Elements
  <1>5. ASSUME NEW x \in 1 .. n
        PROVE  /\ ToConvert(cell)[2 * x - 1].slot = NoKey
               /\ ToConvert(cell)[2 * x - 1].value = cell.keys[x]
               /\ ToConvert(cell)[2 * x].slot = cell.keys[x]
               /\ ToConvert(cell)[2 * x].value = cell.assoc[x]
    <2>1. 2 * x - 1 \in 1 .. 2 * n /\ 2 * x \in 1 .. 2 * n
      BY <1>1
    <2>2. (2 * x - 1) % 2 = 1 /\ (2 * x) % 2 # 1 /\ ((2 * x - 1) + 1) \div 2 = x /\ (2 * x + 1) \div 2 = x
      BY <1>1
    <2>3. /\ part(2 * x - 1).slot = NoKey /\ part(2 * x - 1).value = cell.keys[x]
          /\ part(2 * x).slot = cell.keys[x] /\ part(2 * x).value = cell.assoc[x]
      BY <2>2
    <2> QED
      BY <1>2, <2>1, <2>3
  <1> QED
    BY <1>1, <1>3, <1>4, <1>5

LEMMA PartsOfObject ==
  ASSUME NEW cell, WellSorted(cell), cell.sort = "object"
  PROVE  /\ Len(ToConvert(cell)) = Len(FieldOrder) /\ Len(FieldOrder) \in Nat
         /\ DOMAIN cell.fields \subseteq {FieldOrder[k] : k \in 1 .. Len(FieldOrder)}
         /\ \A k \in 1 .. Len(FieldOrder) :
              /\ ToConvert(cell)[k].slot = FieldOrder[k]
              /\ ToConvert(cell)[k].value = IF FieldOrder[k] \in DOMAIN cell.fields
                                            THEN cell.fields[FieldOrder[k]] ELSE Absent
         /\ \A f \in DOMAIN cell.fields : IsValue(cell.fields[f])
  <1> DEFINE part(k) == LET f == FieldOrder[k]
                        IN  [slot |-> f, value |-> IF f \in DOMAIN cell.fields THEN cell.fields[f] ELSE Absent]
  <1>1. Len(FieldOrder) \in Nat /\ DOMAIN FieldOrder = 1 .. Len(FieldOrder)
    BY FieldAssumption
  <1>2. ToConvert(cell) = [k \in 1 .. Len(FieldOrder) |-> part(k)]
    BY <1>1 DEF ToConvert
  <1>3. Len(ToConvert(cell)) = Len(FieldOrder)
    BY <1>1, <1>2, FunctionIsSequence
  <1>4. DOMAIN cell.fields \subseteq {FieldOrder[k] : k \in 1 .. Len(FieldOrder)}
    BY <1>1, FieldAssumption DEF WellSorted, Elements
  <1>5. \A f \in DOMAIN cell.fields : IsValue(cell.fields[f])
    BY DEF WellSorted
  <1> QED
    BY <1>1, <1>2, <1>3, <1>4, <1>5

(* Storing what stands for the next part fills one more. *)
LEMMA StoreFillsList ==
  ASSUME NEW refs, NEW open, NEW cell, WellSorted(cell), cell.sort = "list",
         NEW d \in Nat, d < Len(ToConvert(cell)), NEW v, Shown(refs, open, v, ToConvert(cell)[d + 1].value),
         NEW c, IsSequence(c), ListFilled(refs, open, c, cell, d)
  PROVE  ListFilled(refs, open, Append(c, v), cell, d + 1)
  <1>1. d + 1 \in 1 .. Len(cell.items) /\ ToConvert(cell)[d + 1].value = cell.items[d + 1]
    <2>1. \A k \in 1 .. Len(cell.items) : ToConvert(cell)[k].value = cell.items[k]
      BY PartsOfList
    <2>2. d + 1 \in 1 .. Len(cell.items)
      BY PartsOfList
    <2> QED
      BY <2>1, <2>2
  <1>2. DOMAIN c = 1 .. d /\ \A k \in 1 .. d : Shown(refs, open, c[k], cell.items[k])
    BY DEF ListFilled
  <1>3. Len(c) = d
    BY <1>2, SequenceShape
  <1>4. DOMAIN Append(c, v) = 1 .. d + 1 /\ Append(c, v)[d + 1] = v
        /\ \A k \in 1 .. d : Append(c, v)[k] = c[k]
    BY <1>3, Appended, SequenceShape
  <1>5. \A k \in 1 .. d + 1 : k = d + 1 \/ k \in 1 .. d
    OBVIOUS
  <1> QED
    BY <1>1, <1>2, <1>4, <1>5 DEF ListFilled

LEMMA StoreFillsSet ==
  ASSUME NEW refs, NEW open, NEW cell, WellSorted(cell), cell.sort = "set", PythonCell(cell),
         \A r, q \in DOMAIN refs : r # q => refs[r] # refs[q],
         NEW d \in Nat, d < Len(ToConvert(cell)), NEW v, Shown(refs, open, v, ToConvert(cell)[d + 1].value),
         NEW c, SetFilled(refs, open, c, cell, d)
  PROVE  SetFilled(refs, open, PutMember(c, v), cell, d + 1)
  <1>1. /\ Len(ToConvert(cell)) = Len(cell.members) /\ Len(cell.members) \in Nat
        /\ DOMAIN cell.members = 1 .. Len(cell.members)
        /\ \A k \in 1 .. Len(cell.members) : ToConvert(cell)[k].value = cell.members[k]
                                             /\ IsValue(cell.members[k])
    BY PartsOfSet
  <1>2. d + 1 \in 1 .. Len(cell.members) /\ ToConvert(cell)[d + 1].value = cell.members[d + 1]
    <2>1. \A k \in 1 .. Len(cell.members) : ToConvert(cell)[k].value = cell.members[k]
      BY <1>1
    <2>2. d + 1 \in 1 .. Len(cell.members)
      BY <1>1
    <2> QED
      BY <2>1, <2>2
  <1>3. /\ c = {Image(refs, cell.members[k]) : k \in 1 .. d}
        /\ \A k \in 1 .. d : Placed(refs, open, cell.members[k])
    BY DEF SetFilled
  <1>4. Placed(refs, open, cell.members[d + 1]) /\ v = Image(refs, cell.members[d + 1])
    BY <1>2 DEF Shown
  <1>5. ASSUME NEW w \in c PROVE ~PyEqual(w, v)
    <2>1. PICK k \in 1 .. d : w = Image(refs, cell.members[k])
      BY <1>3
    <2>2. k \in DOMAIN cell.members /\ d + 1 \in DOMAIN cell.members /\ k # d + 1
      BY <1>1, <1>2
    <2>3. ~PyEqual(Plain(cell.members[k]), Plain(cell.members[d + 1]))
      BY <2>2 DEF PythonCell, PythonDistinct
    <2> QED
      BY <1>1, <1>2, <1>3, <1>4, <2>1, <2>2, <2>3, ImagesDiffer
  <1>6. PutMember(c, v) = c \cup {v}
    BY <1>5 DEF PutMember, PyEqual
  <1>7. \A k \in 1 .. d + 1 : k = d + 1 \/ k \in 1 .. d
    OBVIOUS
  <1>8. 1 .. d \subseteq 1 .. d + 1 /\ d + 1 \in 1 .. d + 1
    OBVIOUS
  <1>9. c \cup {v} = {Image(refs, cell.members[k]) : k \in 1 .. d + 1}
    BY <1>3, <1>4, <1>7, <1>8
  <1> QED
    BY <1>3, <1>4, <1>6, <1>7, <1>9 DEF SetFilled

LEMMA StoreFillsObject ==
  ASSUME NEW refs, NEW open, NEW cell, WellSorted(cell), cell.sort = "object",
         NEW d \in Nat, d < Len(ToConvert(cell)), NEW v, Shown(refs, open, v, ToConvert(cell)[d + 1].value),
         ToConvert(cell)[d + 1].value # Absent,
         NEW c, ObjectFilledUpTo(refs, open, c, cell, d), NEW slot, slot = ToConvert(cell)[d + 1].slot
  PROVE  ObjectFilledUpTo(refs, open, WithField(c, slot, v), cell, d + 1)
  <1>1. d + 1 \in 1 .. Len(FieldOrder) /\ slot = FieldOrder[d + 1]
        /\ slot \in DOMAIN cell.fields /\ ToConvert(cell)[d + 1].value = cell.fields[slot]
    BY PartsOfObject
  <1>2. DOMAIN c = {FieldOrder[k] : k \in 1 .. d} \cap DOMAIN cell.fields
        /\ \A f \in DOMAIN c : Shown(refs, open, c[f], cell.fields[f])
    BY DEF ObjectFilledUpTo
  <1>3. {FieldOrder[k] : k \in 1 .. d + 1} = {FieldOrder[k] : k \in 1 .. d} \cup {slot}
    <2>1. \A k \in 1 .. d + 1 : k = d + 1 \/ k \in 1 .. d
      OBVIOUS
    <2>2. 1 .. d \subseteq 1 .. d + 1 /\ d + 1 \in 1 .. d + 1
      OBVIOUS
    <2> QED
      BY <1>1, <2>1, <2>2
  <1>4. DOMAIN c \cup {slot} = {FieldOrder[k] : k \in 1 .. d + 1} \cap DOMAIN cell.fields
    BY <1>1, <1>2, <1>3
  <1> QED
    BY <1>1, <1>2, <1>4 DEF ObjectFilledUpTo, WithField

(* A field that is not there needs no storing. *)
LEMMA SkipFillsObject ==
  ASSUME NEW refs, NEW open, NEW cell, WellSorted(cell), cell.sort = "object",
         NEW d \in Nat, d < Len(ToConvert(cell)), ToConvert(cell)[d + 1].value = Absent,
         NEW c, ObjectFilledUpTo(refs, open, c, cell, d)
  PROVE  ObjectFilledUpTo(refs, open, c, cell, d + 1)
  <1>1. d + 1 \in 1 .. Len(FieldOrder) /\ FieldOrder[d + 1] \notin DOMAIN cell.fields
    BY PartsOfObject, Tags
  <1>2. \A k \in 1 .. d + 1 : k = d + 1 \/ k \in 1 .. d
    OBVIOUS
  <1>3. 1 .. d \subseteq 1 .. d + 1
    OBVIOUS
  <1>4. {FieldOrder[k] : k \in 1 .. d + 1} \cap DOMAIN cell.fields
          = {FieldOrder[k] : k \in 1 .. d} \cap DOMAIN cell.fields
    BY <1>1, <1>2, <1>3
  <1> QED
    BY <1>4 DEF ObjectFilledUpTo

(* A key is only converted; its value is stored under it. *)
LEMMA StoreFillsDict ==
  ASSUME NEW refs, NEW open, NEW cell, WellSorted(cell), cell.sort = "dict", PythonCell(cell),
         NEW d \in Nat, d < Len(ToConvert(cell)), NEW v, Shown(refs, open, v, ToConvert(cell)[d + 1].value),
         NEW c, DictFilled(refs, open, c, cell, d), NEW slot, slot = ToConvert(cell)[d + 1].slot
  PROVE  DictFilled(refs, open, IF slot # NoKey THEN PutKey(c, Plain(slot), v) ELSE c, cell, d + 1)
  <1> DEFINE n == Len(cell.keys)
  <1>1. /\ Len(ToConvert(cell)) = 2 * n /\ n \in Nat /\ DOMAIN cell.keys = 1 .. n
        /\ \A x \in 1 .. n :
             /\ ToConvert(cell)[2 * x - 1].slot = NoKey
             /\ ToConvert(cell)[2 * x].slot = cell.keys[x]
             /\ ToConvert(cell)[2 * x].value = cell.assoc[x]
             /\ IsValue(cell.keys[x]) /\ IsValue(cell.assoc[x])
    BY PartsOfDict
  <1>2. /\ DOMAIN c = {Plain(cell.keys[k]) : k \in 1 .. d \div 2}
        /\ \A k \in 1 .. d \div 2 : Shown(refs, open, c[Plain(cell.keys[k])], cell.assoc[k])
    BY DEF DictFilled
  <1>3. CASE d % 2 = 0
    <2>1. PICK x \in Nat : d = 2 * x
      BY <1>3
    <2>2. x + 1 \in 1 .. n /\ d + 1 = 2 * (x + 1) - 1 /\ (d + 1) \div 2 = d \div 2
      BY <1>1, <2>1
    <2>3. slot = NoKey
      <3>1. PICK y \in 1 .. n : d + 1 = 2 * y - 1
        BY <2>2
      <3>2. ToConvert(cell)[2 * y - 1].slot = NoKey
        BY <1>1
      <3> QED
        BY <3>1, <3>2, Zenon
    <2> QED
      BY <1>2, <2>2, <2>3 DEF DictFilled
  <1>4. CASE d % 2 = 1
    <2>1. PICK x \in Nat : d + 1 = 2 * x
      <3>1. d + 1 = 2 * ((d + 1) \div 2) /\ (d + 1) \div 2 \in Nat
        BY <1>4
      <3> QED
        BY <3>1
    <2>2. x \in 1 .. n /\ (d + 1) \div 2 = x /\ d \div 2 = x - 1
      BY <1>1, <2>1
    <2>3. slot = cell.keys[x] /\ ToConvert(cell)[d + 1].value = cell.assoc[x] /\ IsValue(cell.keys[x])
      <3>1. ToConvert(cell)[2 * x].slot = cell.keys[x] /\ ToConvert(cell)[2 * x].value = cell.assoc[x]
            /\ IsValue(cell.keys[x])
        BY <1>1, <2>2
      <3> QED
        BY <2>1, <3>1, Zenon
    <2>4. slot # NoKey
      BY <2>3, Tags DEF NoKey
    <2> DEFINE key == Plain(cell.keys[x])
    <2>5. ASSUME NEW k \in DOMAIN c PROVE ~PyEqual(k, key)
      <3>1. PICK y \in 1 .. x - 1 : k = Plain(cell.keys[y])
        BY <1>2, <2>2
      <3>2. y \in DOMAIN cell.keys /\ x \in DOMAIN cell.keys /\ y # x
        BY <1>1, <2>2
      <3> QED
        BY <3>1, <3>2 DEF PythonCell, PythonDistinct
    <2>6. PutKey(c, key, v) = [k \in DOMAIN c \cup {key} |-> IF k = key THEN v ELSE c[k]]
      BY <2>5 DEF PutKey
    <2>7. \A y \in 1 .. x : y = x \/ y \in 1 .. x - 1
      OBVIOUS
    <2>8. 1 .. x - 1 \subseteq 1 .. x /\ x \in 1 .. x
      BY <2>2
    <2>9. DOMAIN c \cup {key} = {Plain(cell.keys[y]) : y \in 1 .. x}
      BY <1>2, <2>2, <2>7, <2>8
    <2>10. ASSUME NEW y \in 1 .. x
           PROVE  Shown(refs, open, PutKey(c, key, v)[Plain(cell.keys[y])], cell.assoc[y])
      <3>1. CASE y = x
        BY <2>3, <2>6, <3>1
      <3>2. CASE y # x
        <4>1. y \in 1 .. d \div 2
          BY <2>2, <2>7, <3>2
        <4>2. Plain(cell.keys[y]) \in DOMAIN c
          BY <1>2, <4>1
        <4>3. Plain(cell.keys[y]) # key
          BY <2>5, <4>2 DEF PyEqual
        <4> QED
          BY <1>2, <2>6, <4>1, <4>2, <4>3
      <3> QED
        BY <3>1, <3>2
    <2> QED
      BY <2>2, <2>3, <2>4, <2>6, <2>9, <2>10 DEF DictFilled
  <1> QED
    BY <1>3, <1>4

(* A reference that is to be converted for a cell is one of the cell's values. *)
LEMMA PartIsAValue ==
  ASSUME NEW cell, WellSorted(cell), cell.sort # "array",
         cell.sort = "dict" => KeysAreNotReferences(cell),
         NEW k \in 1 .. Len(ToConvert(cell)), NEW v, v = ToConvert(cell)[k].value, v.tag = "reference"
  PROVE  v \in Values(cell)
  <1>1. CASE cell.sort = "list"
    BY <1>1, PartsOfList DEF Values, Elements
  <1>2. CASE cell.sort = "set"
    BY <1>2, PartsOfSet DEF Values, Elements
  <1>3. CASE cell.sort = "dict"
    <2> DEFINE n == Len(cell.keys)
    <2>1. /\ Len(ToConvert(cell)) = 2 * n /\ n \in Nat
          /\ DOMAIN cell.keys = 1 .. n /\ DOMAIN cell.assoc = 1 .. n
          /\ \A x \in 1 .. n : /\ ToConvert(cell)[2 * x - 1].value = cell.keys[x]
                               /\ ToConvert(cell)[2 * x].value = cell.assoc[x]
      BY <1>3, PartsOfDict
    <2>2. PICK x \in 1 .. n : k = 2 * x - 1 \/ k = 2 * x
      <3>1. (k + 1) \div 2 \in 1 .. n /\ (k = 2 * ((k + 1) \div 2) - 1 \/ k = 2 * ((k + 1) \div 2))
        BY <2>1
      <3> QED
        BY <3>1
    <2>3. v = cell.keys[x] \/ v = cell.assoc[x]
      BY <2>1, <2>2
    <2>4. cell.keys[x].tag # "reference"
      BY <1>3, <2>1 DEF KeysAreNotReferences
    <2>5. v \in Elements(cell.assoc)
      BY <2>1, <2>3, <2>4 DEF Elements
    <2> QED
      BY <1>3, <2>5 DEF Values
  <1>4. CASE cell.sort = "object"
    <2>1. /\ Len(ToConvert(cell)) = Len(FieldOrder)
          /\ ToConvert(cell)[k].value = IF FieldOrder[k] \in DOMAIN cell.fields
                                        THEN cell.fields[FieldOrder[k]] ELSE Absent
      BY <1>4, PartsOfObject
    <2>2. FieldOrder[k] \in DOMAIN cell.fields /\ v = cell.fields[FieldOrder[k]]
      BY <2>1, Tags
    <2> QED
      BY <1>4, <2>2 DEF Values
  <1> QED
    BY <1>1, <1>2, <1>3, <1>4 DEF WellSorted

(* An empty shell. *)
LEMMA ShellIsEmpty ==
  ASSUME NEW refs, NEW open, NEW cell, WellSorted(cell), cell.sort # "array"
  PROVE  IsShell(refs, open, Shell(cell), cell, 0)
  <1>1. CASE cell.sort = "list"
    <2>1. Shell(cell).contents = <<>> /\ DOMAIN <<>> = 1 .. 0
      BY <1>1 DEF Shell, EmptyList, PyObject
    <2> QED
      BY <1>1, <2>1 DEF IsShell, Filling, ListFilled
  <1>2. CASE cell.sort = "set"
    BY <1>2 DEF Shell, PyObject, IsShell, Filling, SetFilled
  <1>3. CASE cell.sort = "dict"
    <2>1. Shell(cell).contents = [k \in {} |-> 0]
      BY <1>3 DEF Shell, PyObject
    <2>2. DOMAIN [k \in {} |-> 0] = {} /\ 1 .. 0 \div 2 = {}
      OBVIOUS
    <2>3. DictFilled(refs, open, Shell(cell).contents, cell, 0)
      BY <2>1, <2>2 DEF DictFilled
    <2> QED
      BY <1>3, <2>3 DEF IsShell, Filling
  <1>4. CASE cell.sort = "object"
    <2>1. Shell(cell).contents = [f \in {} |-> 0]
      BY <1>4 DEF Shell, PyObject
    <2>2. DOMAIN [f \in {} |-> 0] = {} /\ 1 .. 0 = {}
      OBVIOUS
    <2>3. ObjectFilledUpTo(refs, open, Shell(cell).contents, cell, 0)
      BY <2>1, <2>2 DEF ObjectFilledUpTo
    <2> QED
      BY <1>4, <2>3 DEF IsShell, Filling
  <1> QED
    BY <1>1, <1>2, <1>3, <1>4 DEF WellSorted

LEMMA StoreFills ==
  ASSUME NEW refs, NEW open, NEW cell, WellSorted(cell), cell.sort # "array", PythonCell(cell),
         \A r, q \in DOMAIN refs : r # q => refs[r] # refs[q],
         NEW d \in Nat, d < Len(ToConvert(cell)), NEW v, Shown(refs, open, v, ToConvert(cell)[d + 1].value),
         ToConvert(cell)[d + 1].value # Absent,
         NEW o, IsPython(o), IsShell(refs, open, o, cell, d), NEW slot, slot = ToConvert(cell)[d + 1].slot
  PROVE  IsShell(refs, open, Filled(o, slot, v), cell, d + 1)
  <1> DEFINE p == Filled(o, slot, v)
  <1>1. p.kind = Shell(cell).kind /\ p.class = Shell(cell).class /\ o.kind = cell.sort
    BY FilledIsPython, ShellIsPython DEF IsShell
  <1>2. \A c : [o EXCEPT !.contents = c].contents = c
    <2>1. PICK kind, class, contents : o = [kind |-> kind, class |-> class, contents |-> contents]
      BY DEF IsPython, PyObject
    <2> QED
      BY <2>1
  <1>3. CASE cell.sort = "list"
    <2>1. p.contents = Append(o.contents, v) /\ IsSequence(o.contents)
      BY <1>1, <1>2, <1>3 DEF Filled, IsPython
    <2>2. ListFilled(refs, open, Append(o.contents, v), cell, d + 1)
      BY <1>3, <2>1, StoreFillsList DEF IsShell, Filling
    <2> QED
      BY <1>1, <1>3, <2>1, <2>2 DEF IsShell, Filling
  <1>4. CASE cell.sort = "set"
    <2>1. p.contents = PutMember(o.contents, v)
      BY <1>1, <1>2, <1>4 DEF Filled
    <2>2. SetFilled(refs, open, PutMember(o.contents, v), cell, d + 1)
      BY <1>4, StoreFillsSet DEF IsShell, Filling
    <2> QED
      BY <1>1, <1>4, <2>1, <2>2 DEF IsShell, Filling
  <1>5. CASE cell.sort = "dict"
    <2>1. p.contents = IF slot # NoKey THEN PutKey(o.contents, Plain(slot), v) ELSE o.contents
      BY <1>1, <1>2, <1>5 DEF Filled
    <2>2. DictFilled(refs, open, IF slot # NoKey THEN PutKey(o.contents, Plain(slot), v) ELSE o.contents, cell, d + 1)
      BY <1>5, StoreFillsDict DEF IsShell, Filling
    <2> QED
      BY <1>1, <1>5, <2>1, <2>2 DEF IsShell, Filling
  <1>6. CASE cell.sort = "object"
    <2>1. p.contents = WithField(o.contents, slot, v)
      BY <1>1, <1>2, <1>6 DEF Filled, WithField
    <2>2. ObjectFilledUpTo(refs, open, WithField(o.contents, slot, v), cell, d + 1)
      BY <1>6, StoreFillsObject DEF IsShell, Filling
    <2> QED
      BY <1>1, <1>6, <2>1, <2>2 DEF IsShell, Filling
  <1> QED
    BY <1>3, <1>4, <1>5, <1>6 DEF WellSorted

LEMMA SkipFills ==
  ASSUME NEW refs, NEW open, NEW cell, WellSorted(cell), cell.sort # "array",
         NEW d \in Nat, d < Len(ToConvert(cell)), ToConvert(cell)[d + 1].value = Absent,
         NEW o, IsShell(refs, open, o, cell, d)
  PROVE  IsShell(refs, open, o, cell, d + 1)
  <1>1. CASE cell.sort = "object"
    BY <1>1, SkipFillsObject DEF IsShell, Filling
  <1>2. CASE cell.sort # "object"
    <2>1. d + 1 \in 1 .. Len(ToConvert(cell)) /\ ~IsValue(ToConvert(cell)[d + 1].value)
      BY PartsOfCell, SequenceShape, Tags
    <2>2. \A k \in 1 .. Len(ToConvert(cell)) : IsValue(ToConvert(cell)[k].value)
      <3>1. CASE cell.sort = "list"
        BY <3>1, PartsOfList
      <3>2. CASE cell.sort = "set"
        BY <3>2, PartsOfSet
      <3>3. CASE cell.sort = "dict"
        <4>1. /\ Len(ToConvert(cell)) = 2 * Len(cell.keys) /\ Len(cell.keys) \in Nat
              /\ \A x \in 1 .. Len(cell.keys) : IsValue(ToConvert(cell)[2 * x - 1].value)
                                                /\ IsValue(ToConvert(cell)[2 * x].value)
          BY <3>3, PartsOfDict
        <4>2. ASSUME NEW k \in 1 .. Len(ToConvert(cell))
              PROVE  \E x \in 1 .. Len(cell.keys) : k = 2 * x - 1 \/ k = 2 * x
          <5>1. /\ (k + 1) \div 2 \in 1 .. Len(cell.keys)
                /\ k = 2 * ((k + 1) \div 2) - 1 \/ k = 2 * ((k + 1) \div 2)
            BY <4>1
          <5> QED
            BY <5>1
        <4> QED
          BY <4>1, <4>2
      <3> QED
        BY <1>2, <3>1, <3>2, <3>3 DEF WellSorted
    <2> QED
      BY <2>1, <2>2
  <1> QED
    BY <1>1, <1>2

\* The references being converted, and the tuples among them.
StackRefs == {stack[k].ref : k \in 1 .. Len(stack)}
Open == {r \in StackRefs : IsTuple(Contents(model)[r])}

\* How many parts of its cell an activation has converted.
Converted(s, heap) == Len(ToConvert(heap[s.ref])) - Len(s.todo)

Pythonic == ~TupleOnCycle /\ \A r \in Ref : PythonCell(Contents(model)[r])

FrameShown == \A k \in 1 .. Len(frame) : Shown(cache, Open, frame[k], model.params[k])
ResultShown == result \notin {Nothing, Raise} => IsValue(Pending) /\ Shown(cache, Open, result, Pending)
StackShown ==
  \A k \in 1 .. Len(stack) :
    IsShell(cache, Open, objects[stack[k].id], Contents(model)[stack[k].ref], Converted(stack[k], Contents(model)))
CacheShown ==
  \A r \in DOMAIN cache \ StackRefs : IsShown(cache, Open, objects[cache[r]], Contents(model)[r])

\* Every activation converts the value its caller is at.
Caller(k) == IF k = Len(stack) THEN model.params[Len(frame) + 1] ELSE stack[k + 1].todo[1].value
Chain == \A k \in 1 .. Len(stack) : Caller(k) = AnyRef(stack[k].ref)

\* What is reached from a cell has the cells converted for it.
Below ==
  \A k \in 1 .. Len(stack), S \in SUBSET Ref :
    ClosedUnder(S) /\ Direct(stack[k].ref) \subseteq S => \A j \in 1 .. k - 1 : stack[j].ref \in S

ContentsOK == FrameShown /\ ResultShown /\ StackShown /\ CacheShown /\ Chain /\ Below

Sharing == model # NoModel /\ ~caught /\ ~escaped /\ Pythonic => ContentsOK

(* The part of its cell the innermost activation is at. *)
LEMMA TopPart ==
  ASSUME Shape, model # NoModel, stack # <<>>, Children # <<>>,
         NEW cell, cell = Contents(model)[stack[1].ref], NEW d, d = Converted(stack[1], Contents(model))
  PROVE  /\ d \in Nat /\ d < Len(ToConvert(cell)) /\ Children[1] = ToConvert(cell)[d + 1]
         /\ d + 1 \in 1 .. Len(ToConvert(cell))
         /\ WellSorted(cell) /\ cell.sort # "array" /\ stack[1].ref \in Ref
         /\ cell.sort = "dict" => KeysAreNotReferences(cell)
  <1>1. StackOK /\ CacheOK /\ IsModel(model)
    BY DEF Shape
  <1>2. Activated(stack[1])
    BY <1>1, SequenceShape DEF StackOK
  <1>3. stack[1].ref \in Ref /\ cell.sort # "array" /\ IsRest(stack[1].todo, cell)
    BY <1>1, <1>2 DEF Activated, IsActivation, CacheOK
  <1>4. WellSorted(cell) /\ (cell.sort = "dict" => KeysAreNotReferences(cell))
    <2>1. DOMAIN Contents(model) = Ref /\ WellSorted(cell) /\ Axioms(Contents(model))
      BY <1>1, <1>3, ContentsOfModel DEF IsModel
    <2> QED
      BY <1>3, <2>1 DEF Axioms
  <1>5. Len(ToConvert(cell)) \in Nat
    BY <1>3, <1>4, PartsOfCell, SequenceShape
  <1>6. PICK todo : todo = stack[1].todo
    OBVIOUS
  <1>7. Len(todo) \in Nat \ {0} /\ 1 \in 1 .. Len(todo)
    BY <1>3, <1>6, SequenceShape DEF IsRest, Children
  <1>8. d = Len(ToConvert(cell)) - Len(todo)
    BY <1>6 DEF Converted
  <1>9. Len(todo) <= Len(ToConvert(cell)) /\ todo[1] = ToConvert(cell)[Len(ToConvert(cell)) - Len(todo) + 1]
    BY <1>3, <1>6, <1>7 DEF IsRest
  <1>10. Children[1] = ToConvert(cell)[d + 1]
    BY <1>6, <1>8, <1>9, Zenon DEF Children
  <1>11. d \in Nat /\ d < Len(ToConvert(cell)) /\ d + 1 \in 1 .. Len(ToConvert(cell))
    BY <1>5, <1>7, <1>8, <1>9
  <1> QED
    BY <1>3, <1>4, <1>10, <1>11

(* What an activation is about to convert is right below its cell. *)
LEMMA PendingIsBelow ==
  ASSUME Shape, HasPending, Pending.tag = "reference", stack # <<>>
  PROVE  Pending.of \in Direct(stack[1].ref) /\ Pending = AnyRef(Pending.of)
  <1>1. IsValue(Pending) /\ Pending.of \in Ref /\ model # NoModel
    BY PendingIsValue DEF HasPending, Working
  <1>2. Children # <<>> /\ Pending = Children[1].value
    BY DEF HasPending, Pending
  <1>3. PICK cell, d : cell = Contents(model)[stack[1].ref] /\ d = Converted(stack[1], Contents(model))
    OBVIOUS
  <1>4. /\ Children[1] = ToConvert(cell)[d + 1] /\ d + 1 \in 1 .. Len(ToConvert(cell))
        /\ WellSorted(cell) /\ cell.sort # "array" /\ (cell.sort = "dict" => KeysAreNotReferences(cell))
    BY <1>1, <1>2, <1>3, TopPart
  <1>5. Pending \in Values(cell)
    BY <1>2, <1>4, PartIsAValue
  <1>6. Pending = AnyRef(Pending.of)
    BY <1>1 DEF IsValue, AnyRef
  <1>7. AnyRef(Pending.of) \in Values(cell)
    BY <1>5, <1>6
  <1> QED
    BY <1>1, <1>3, <1>6, <1>7 DEF Direct

(* A tuple that is open is not met again: it would be on a cycle. *)
LEMMA PendingIsNotOpen ==
  ASSUME Shape, Pythonic, Below, HasPending, Pending.tag = "reference"
  PROVE  Pending.of \notin Open
  <1> DEFINE q == Pending.of
  <1>1. IsValue(Pending) /\ q \in Ref /\ model # NoModel
    BY PendingIsValue DEF HasPending, Working
  <1> SUFFICES ASSUME q \in Open PROVE FALSE
    OBVIOUS
  <1>2. PICK k \in 1 .. Len(stack) : stack[k].ref = q
    BY DEF Open, StackRefs
  <1>3. IsTuple(Contents(model)[q])
    BY DEF Open
  <1>4. stack # <<>> /\ Len(stack) \in Nat
    BY <1>1, <1>2, SequenceShape DEF Shape, StackOK
  <1>6. q \in Direct(stack[1].ref)
    BY <1>4, PendingIsBelow
  <1>7. ASSUME NEW S \in SUBSET Ref, Direct(q) \subseteq S, ClosedUnder(S)
        PROVE  q \in S
    <2>1. CASE k = 1
      BY <1>2, <1>6, <1>7, <2>1
    <2>2. CASE k # 1
      <3>1. 1 \in 1 .. k - 1
        BY <1>2, <1>4, <2>2
      <3>2. stack[1].ref \in S
        BY <1>2, <1>7, <3>1 DEF Below
      <3> QED
        BY <1>6, <1>7, <3>2 DEF ClosedUnder
    <2> QED
      BY <2>1, <2>2
  <1>8. OnCycle(q)
    BY <1>7 DEF OnCycle
  <1> QED
    BY <1>1, <1>3, <1>8 DEF Pythonic, TupleOnCycle

LEMMA InitSharing == Init => Sharing
  BY DEF Init, Sharing

LEMMA AnswerKeepsSharing == Shape /\ Fresh /\ Answer => Sharing'
  <1> SUFFICES ASSUME Shape, Fresh, Answer, ~escaped' PROVE ContentsOK'
    BY DEF Sharing
  <1>1. /\ model = NoModel /\ frame' = <<>> /\ stack' = <<>> /\ result' = Nothing
        /\ UNCHANGED <<cache, objects, escaped>>
    BY DEF Answer, Shape
  <1>2. cache' = EmptyCache
    BY <1>1 DEF Fresh
  <1>3. Len(stack') = 0 /\ Len(frame') = 0 /\ DOMAIN cache' = {}
    BY <1>1, <1>2 DEF EmptyCache
  <1> QED
    BY <1>1, <1>3 DEF ContentsOK, FrameShown, ResultShown, StackShown, CacheShown, Chain, Below

LEMMA ConvertValueKeepsSharing == Shape /\ Sharing /\ ConvertValue => Sharing'
  <1> SUFFICES ASSUME Shape, Sharing, ConvertValue, ~caught', ~escaped', Pythonic' PROVE ContentsOK'
    BY DEF Sharing
  <1>1. /\ model # NoModel /\ HasPending
        /\ UNCHANGED <<model, frame, stack, cache, objects, caught, escaped>>
    BY DEF ConvertValue, HasPending, Working
  <1>2. Pythonic
    BY <1>1 DEF Pythonic, TupleOnCycle, OnCycle, Direct, ClosedUnder
  <1>3. ContentsOK
    BY <1>1, <1>2 DEF Sharing
  <1>4. IsValue(Pending)
    BY <1>1, PendingIsValue
  <1>5. result' \notin {Nothing, Raise} => Shown(cache, Open, result', Pending)
    <2>1. CASE Pending.tag = "reference"
      <3>1. Pending.of \in DOMAIN cache \ Open
        BY <1>1, <1>2, <1>3, <2>1, PendingIsNotOpen DEF ConvertValue, ContentsOK
      <3>2. result' = Object(cache[Pending.of])
        BY <2>1 DEF ConvertValue, Opaque
      <3> QED
        BY <2>1, <3>1, <3>2 DEF Shown, Placed, Image
    <2>2. CASE Pending.tag # "reference"
      <3>1. result' = Raise \/ result' = Plain(Pending)
        BY <2>2 DEF ConvertValue
      <3> QED
        BY <2>2, <3>1 DEF Shown, Placed, Image
    <2> QED
      BY <2>1, <2>2
  <1>6. ResultShown'
    <2>1. Pending' = Pending /\ Open' = Open /\ cache' = cache
      BY <1>1 DEF Pending, Children, Open, StackRefs
    <2> QED
      BY <1>4, <1>5, <2>1 DEF ResultShown
  <1>7. FrameShown' /\ StackShown' /\ CacheShown' /\ Chain' /\ Below'
    BY <1>1, <1>3 DEF ContentsOK, FrameShown, StackShown, CacheShown, Chain, Caller, Below, Open, StackRefs,
                      ClosedUnder, Direct
  <1> QED
    BY <1>6, <1>7 DEF ContentsOK

LEMMA PythonicKept ==
  ASSUME model' = model, Pythonic'
  PROVE  Pythonic
  BY DEF Pythonic, TupleOnCycle, OnCycle, Direct, ClosedUnder

(* What is shown stays shown when no settled reference changes its object. *)
LEMMA ShownStays ==
  ASSUME ContentsOK, Extends(cache, Open, cache', Open')
  PROVE  /\ \A k \in 1 .. Len(frame) : Shown(cache', Open', frame[k], model.params[k])
         /\ \A k \in 1 .. Len(stack) :
              IsShell(cache', Open', objects[stack[k].id], Contents(model)[stack[k].ref], Converted(stack[k], Contents(model)))
         /\ \A r \in DOMAIN cache \ StackRefs : IsShown(cache', Open', objects[cache[r]], Contents(model)[r])
  <1>1. \A k \in 1 .. Len(frame) : Shown(cache', Open', frame[k], model.params[k])
    BY ShownKept DEF ContentsOK, FrameShown, Shown
  <1>2. \A k \in 1 .. Len(stack) :
          IsShell(cache', Open', objects[stack[k].id], Contents(model)[stack[k].ref], Converted(stack[k], Contents(model)))
    BY ShellKept DEF ContentsOK, StackShown
  <1>3. \A r \in DOMAIN cache \ StackRefs : IsShown(cache', Open', objects[cache[r]], Contents(model)[r])
    BY IsShownKept DEF ContentsOK, CacheShown
  <1> QED
    BY <1>1, <1>2, <1>3

(* Where the objects of activations are. *)
LEMMA StackIds ==
  ASSUME Shape, model # NoModel, NEW k \in 1 .. Len(stack)
  PROVE  /\ stack[k].id \in 1 .. Len(objects) /\ stack[k].ref \in DOMAIN cache
         /\ cache[stack[k].ref] = stack[k].id /\ stack[k].ref \in Ref
         /\ Len(stack) \in Nat /\ stack # <<>>
         /\ \A j \in 1 .. Len(stack) : j # k => stack[j].id # stack[k].id
  <1>1. StackOK /\ CacheOK
    BY DEF Shape
  <1>2. \A j \in 1 .. Len(stack) : stack[j].ref \in DOMAIN cache /\ cache[stack[j].ref] = stack[j].id
    BY <1>1 DEF StackOK, Activated, IsActivation
  <1>3. \A j \in 1 .. Len(stack) : j # k => stack[j].id # stack[k].id
    BY <1>1, <1>2 DEF StackOK, CacheOK
  <1>4. Len(stack) \in Nat /\ stack # <<>>
    BY <1>1, SequenceShape DEF StackOK
  <1> QED
    BY <1>1, <1>2, <1>3, <1>4 DEF CacheOK

LEMMA EnterKeepsSharing ==
  ASSUME Shape, Sharing, ConvertReference, EnterCell(Pending.of), ~caught', ~escaped', Pythonic'
  PROVE  ContentsOK'
  <1> DEFINE r == Pending.of
             cell == Contents(model)[r]
             id == Len(objects) + 1
             new == [ref |-> r, id |-> id, todo |-> ToConvert(cell)]
  <1>1. /\ model # NoModel /\ HasPending /\ IsModel(model) /\ StackOK /\ FrameOK /\ ObjectsOK /\ CacheOK
        /\ Pending.tag = "reference" /\ r \in Ref /\ r \notin DOMAIN cache /\ WellSorted(cell)
        /\ result = Nothing
    BY ReferenceState DEF ConvertReference
  <1>2. /\ cell.sort # "array" /\ objects' = Append(objects, Shell(cell))
        /\ cache' = [q \in DOMAIN cache \cup {r} |-> IF q = r THEN id ELSE cache[q]]
        /\ stack' = <<new>> \o stack
        /\ UNCHANGED <<result, caught, model, frame, escaped>>
    BY DEF EnterCell, ConvertReference
  <1>3. Pythonic /\ ContentsOK
    BY <1>1, <1>2, PythonicKept DEF Sharing
  <1> HIDE DEF r
  <1>4. /\ Len(objects) \in Nat /\ Len(objects') = id
        /\ \A k \in 1 .. Len(objects) : objects'[k] = objects[k]
        /\ objects'[id] = Shell(cell)
    BY <1>1, <1>2, ShellIsPython, ObjectAdded
  <1>5. /\ Len(stack') = Len(stack) + 1 /\ Len(stack) \in Nat
        /\ stack'[1] = new /\ \A k \in 1 .. Len(stack) : stack'[k + 1] = stack[k]
    <2>1. IsSequence(stack) /\ Len(stack) \in Nat
      BY <1>1, SequenceShape DEF StackOK
    <2>2. stack' = <<new>> \o stack
      BY <1>2
    <2> HIDE DEF new
    <2> QED
      BY <2>1, <2>2, Prefixed
  <1>6. /\ \A k \in 1 .. Len(stack') : k = 1 \/ k - 1 \in 1 .. Len(stack)
        /\ \A k \in 1 .. Len(stack') : stack'[k] = IF k = 1 THEN new ELSE stack[k - 1]
    BY <1>5
  <1>7. r \notin StackRefs
    BY <1>1, StackIds DEF StackRefs
  <1>8. StackRefs' = StackRefs \cup {r}
    <2>1. new.ref = r
      OBVIOUS
    <2>2. ASSUME NEW q, q \in StackRefs' PROVE q \in StackRefs \cup {r}
      <3>1. PICK k \in 1 .. Len(stack') : q = stack'[k].ref
        BY <2>2 DEF StackRefs
      <3> QED
        BY <1>6, <2>1, <3>1 DEF StackRefs
    <2>3. ASSUME NEW q, q \in StackRefs \cup {r} PROVE q \in StackRefs'
      <3>1. CASE q = r
        <4>1. 1 \in 1 .. Len(stack')
          BY <1>5
        <4> QED
          BY <1>5, <2>1, <3>1, <4>1 DEF StackRefs
      <3>2. CASE q \in StackRefs
        <4>1. PICK k \in 1 .. Len(stack) : q = stack[k].ref
          BY <3>2 DEF StackRefs
        <4>2. k + 1 \in 1 .. Len(stack') /\ q = stack'[k + 1].ref
          BY <1>5, <4>1
        <4> QED
          BY <4>2 DEF StackRefs
      <3> QED
        BY <2>3, <3>1, <3>2
    <2> QED
      BY <2>2, <2>3
  <1>9. Open' = IF IsTuple(cell) THEN Open \cup {r} ELSE Open
    BY <1>2, <1>8 DEF Open
  <1>10. Extends(cache, Open, cache', Open')
    BY <1>1, <1>2, <1>9 DEF Extends
  <1>11. /\ \A k \in 1 .. Len(frame) : Shown(cache', Open', frame[k], model.params[k])
         /\ \A k \in 1 .. Len(stack) :
              IsShell(cache', Open', objects[stack[k].id], Contents(model)[stack[k].ref], Converted(stack[k], Contents(model)))
         /\ \A q \in DOMAIN cache \ StackRefs : IsShown(cache', Open', objects[cache[q]], Contents(model)[q])
    BY <1>3, <1>10, ShownStays
  <1>12. FrameShown' /\ ResultShown'
    BY <1>1, <1>2, <1>11 DEF FrameShown, ResultShown
  <1>13. StackShown'
    <2>1. IsShell(cache', Open', objects'[new.id], Contents(model)[new.ref], Converted(new, Contents(model)))
      <3>1. Len(ToConvert(cell)) - Len(ToConvert(cell)) = 0
        BY <1>1, <1>2, PartsOfCell, SequenceShape
      <3>2. new.id = id /\ new.ref = r /\ Converted(new, Contents(model)) = 0
        BY <3>1 DEF Converted
      <3>3. IsShell(cache', Open', Shell(cell), cell, 0)
        BY <1>1, <1>2, ShellIsEmpty
      <3> QED
        BY <1>4, <3>2, <3>3
    <2>2. ASSUME NEW k \in 1 .. Len(stack')
          PROVE  IsShell(cache', Open', objects'[stack'[k].id], Contents(model)[stack'[k].ref], Converted(stack'[k], Contents(model)))
      <3>1. CASE k = 1
        BY <1>5, <2>1, <3>1
      <3>2. CASE k # 1
        <4>1. k - 1 \in 1 .. Len(stack) /\ stack'[k] = stack[k - 1]
          BY <1>6, <3>2
        <4>2. objects'[stack[k - 1].id] = objects[stack[k - 1].id]
          BY <1>1, <1>4, <4>1, StackIds
        <4> QED
          BY <1>11, <4>1, <4>2
      <3> QED
        BY <3>1, <3>2
    <2> QED
      BY <1>2, <2>2 DEF StackShown
  <1>14. CacheShown'
    <2>1. ASSUME NEW q \in DOMAIN cache' \ StackRefs'
          PROVE  IsShown(cache', Open', objects'[cache'[q]], Contents(model)[q])
      <3>1. q \in DOMAIN cache \ StackRefs /\ cache'[q] = cache[q]
        BY <1>2, <1>8
      <3>2. objects'[cache[q]] = objects[cache[q]]
        BY <1>1, <1>4, <3>1 DEF CacheOK
      <3> QED
        BY <1>11, <3>1, <3>2
    <2> QED
      BY <1>2, <2>1 DEF CacheShown
  <1>15. Pending = AnyRef(r)
    BY <1>1, PendingIsValue DEF IsValue, AnyRef, r
  <1>16. Chain'
    <2>1. ASSUME NEW k \in 1 .. Len(stack')
          PROVE  (IF k = Len(stack') THEN model.params[Len(frame) + 1] ELSE stack'[k + 1].todo[1].value)
                   = AnyRef(stack'[k].ref)
      <3>1. CASE k = 1
        <4>1. stack'[1].ref = r
          BY <1>5
        <4>2. CASE stack = <<>>
          <5>1. Len(stack') = 1 /\ Pending = model.params[Len(frame) + 1]
            BY <1>1, <1>5, <4>2, SequenceShape DEF Pending, StackOK
          <5> QED
            BY <1>15, <3>1, <4>1, <5>1
        <4>3. CASE stack # <<>>
          <5>1. Len(stack) # 0 /\ Pending = stack[1].todo[1].value
            BY <1>1, <4>3, SequenceShape DEF Pending, Children, StackOK
          <5>2. 1 # Len(stack') /\ stack'[1 + 1] = stack[1]
            BY <1>5, <5>1
          <5> QED
            BY <1>15, <3>1, <4>1, <5>1, <5>2
        <4> QED
          BY <4>2, <4>3
      <3>2. CASE k # 1
        <4>1. PICK j \in 1 .. Len(stack) : k = j + 1
          BY <1>6, <3>2
        <4>2. stack'[k] = stack[j] /\ (k = Len(stack') <=> j = Len(stack))
          BY <1>5, <4>1
        <4>3. k # Len(stack') => stack'[k + 1] = stack[j + 1]
          <5>1. SUFFICES ASSUME k # Len(stack') PROVE stack'[k + 1] = stack[j + 1]
            OBVIOUS
          <5>2. j + 1 \in 1 .. Len(stack)
            BY <1>5, <4>1, <5>1
          <5>3. stack'[(j + 1) + 1] = stack[j + 1]
            BY <1>5, <5>2
          <5> QED
            BY <4>1, <5>3
        <4>4. (IF j = Len(stack) THEN model.params[Len(frame) + 1] ELSE stack[j + 1].todo[1].value)
                = AnyRef(stack[j].ref)
          BY <1>3 DEF ContentsOK, Chain, Caller
        <4> QED
          BY <4>2, <4>3, <4>4
      <3> QED
        BY <3>1, <3>2
    <2> QED
      BY <1>2, <2>1 DEF Chain, Caller
  <1>17. Below'
    <2>1. ASSUME NEW k \in 1 .. Len(stack'), NEW S \in SUBSET Ref, ClosedUnder(S),
                 Direct(stack'[k].ref) \subseteq S, NEW j \in 1 .. k - 1
          PROVE  stack'[j].ref \in S
      <3>1. PICK m \in 1 .. Len(stack) : k = m + 1
        BY <1>5, <1>6
      <3>2. Direct(stack[m].ref) \subseteq S
        <4>1. stack'[k] = stack[m]
          BY <1>5, <3>1
        <4> QED
          BY <2>1, <4>1
      <3>3. \A i \in 1 .. m - 1 : stack[i].ref \in S
        BY <1>3, <2>1, <3>2 DEF ContentsOK, Below
      <3>4. CASE j = 1
        <4>1. stack'[j].ref = r
          BY <1>5, <3>4
        <4>2. Direct(stack[1].ref) \subseteq S
          <5>1. CASE m = 1
            BY <3>2, <5>1
          <5>2. CASE m # 1
            <6>1. 1 \in 1 .. m - 1
              BY <1>5, <5>2
            <6> QED
              BY <2>1, <3>3, <6>1 DEF ClosedUnder
          <5> QED
            BY <5>1, <5>2
        <4>3. stack # <<>>
          BY <1>1, <3>1, StackIds
        <4>4. r \in Direct(stack[1].ref)
          BY <1>1, <4>3, PendingIsBelow DEF r
        <4> QED
          BY <4>1, <4>2, <4>4
      <3>5. CASE j # 1
        <4>1. PICK i \in 1 .. m - 1 : j = i + 1
          <5>1. j - 1 \in 1 .. m - 1 /\ j = (j - 1) + 1
            BY <1>5, <3>1, <3>5
          <5> QED
            BY <5>1
        <4>2. i \in 1 .. Len(stack)
          BY <1>5
        <4>3. stack'[j] = stack[i]
          BY <1>5, <4>1, <4>2
        <4> QED
          BY <3>3, <4>1, <4>3
      <3> QED
        BY <3>4, <3>5
    <2> QED
      BY <1>2, <2>1 DEF Below, ClosedUnder, Direct
  <1> QED
    BY <1>12, <1>13, <1>14, <1>16, <1>17 DEF ContentsOK

LEMMA ArrayKeepsSharing ==
  ASSUME Shape, Sharing, ConvertReference, ConvertArray(Pending.of), ~caught', ~escaped', Pythonic'
  PROVE  ContentsOK'
  <1> DEFINE r == Pending.of
             cell == Contents(model)[r]
             id == Len(objects) + 1
             o == PyObject("array", "array", cell.items)
  <1>1. /\ model # NoModel /\ HasPending /\ IsModel(model) /\ ObjectsOK /\ CacheOK
        /\ Pending.tag = "reference" /\ r \in Ref /\ r \notin DOMAIN cache /\ WellSorted(cell)
    BY ReferenceState DEF ConvertReference
  <1>2. /\ cell.sort = "array" /\ objects' = Append(objects, o) /\ result' = Object(id)
        /\ cache' = [q \in DOMAIN cache \cup {r} |-> IF q = r THEN id ELSE cache[q]]
        /\ UNCHANGED <<stack, caught, model, frame, escaped>>
    BY DEF ConvertArray, ConvertReference
  <1>3. Pythonic /\ ContentsOK /\ IsValue(Pending)
    BY <1>1, <1>2, PythonicKept, PendingIsValue DEF Sharing
  <1>4. IsPython(o) /\ o.kind = "array" /\ o.class = "array" /\ o.contents = cell.items
    BY <1>1, <1>2 DEF IsPython, PyObject, WellSorted, AreValues
  <1> HIDE DEF r
  <1>5. /\ Len(objects) \in Nat /\ \A k \in 1 .. Len(objects) : objects'[k] = objects[k]
        /\ objects'[id] = o
    <2> HIDE DEF o
    <2> QED
      BY <1>1, <1>2, <1>4, ObjectAdded
  <1>6. r \notin StackRefs
    BY <1>1, StackIds DEF StackRefs
  <1>7. StackRefs' = StackRefs /\ Open' = Open /\ r \notin Open
    BY <1>2, <1>6 DEF StackRefs, Open
  <1>8. Extends(cache, Open, cache', Open')
    BY <1>1, <1>2, <1>7 DEF Extends
  <1>9. /\ \A k \in 1 .. Len(frame) : Shown(cache', Open', frame[k], model.params[k])
        /\ \A k \in 1 .. Len(stack) :
             IsShell(cache', Open', objects[stack[k].id], Contents(model)[stack[k].ref], Converted(stack[k], Contents(model)))
        /\ \A q \in DOMAIN cache \ StackRefs : IsShown(cache', Open', objects[cache[q]], Contents(model)[q])
    BY <1>3, <1>8, ShownStays
  <1>10. FrameShown'
    BY <1>2, <1>9 DEF FrameShown
  <1>11. ResultShown'
    <2>1. Pending' = Pending
      BY <1>2 DEF Pending, Children
    <2>2. Shown(cache', Open', result', Pending)
      BY <1>1, <1>2, <1>7 DEF Shown, Placed, Image, r
    <2> QED
      BY <1>3, <2>1, <2>2 DEF ResultShown
  <1>12. StackShown'
    <2>1. \A k \in 1 .. Len(stack) : objects'[stack[k].id] = objects[stack[k].id]
      BY <1>1, <1>5, StackIds
    <2> QED
      BY <1>2, <1>9, <2>1 DEF StackShown
  <1>13. CacheShown'
    <2>1. ASSUME NEW q \in DOMAIN cache' \ StackRefs
          PROVE  IsShown(cache', Open', objects'[cache'[q]], Contents(model)[q])
      <3>1. CASE q = r
        BY <1>2, <1>4, <1>5, <3>1 DEF IsShown, IsTuple
      <3>2. CASE q # r
        <4>1. q \in DOMAIN cache \ StackRefs /\ cache'[q] = cache[q]
          BY <1>2, <2>1, <3>2
        <4>2. objects'[cache[q]] = objects[cache[q]]
          BY <1>1, <1>5, <4>1 DEF CacheOK
        <4> QED
          BY <1>9, <4>1, <4>2
      <3> QED
        BY <3>1, <3>2
    <2> QED
      BY <1>2, <1>7, <2>1 DEF CacheShown
  <1>14. Chain' /\ Below'
    BY <1>2, <1>3 DEF ContentsOK, Chain, Caller, Below, ClosedUnder, Direct
  <1> QED
    BY <1>10, <1>11, <1>12, <1>13, <1>14 DEF ContentsOK

LEMMA StoreParameterKeepsSharing ==
  ASSUME Shape, Sharing, StoreParameter, ~caught', ~escaped', Pythonic'
  PROVE  ContentsOK'
  <1>1. /\ model # NoModel /\ stack = <<>> /\ result \notin {Nothing, Raise}
        /\ frame' = Append(frame, result) /\ result' = Nothing
        /\ UNCHANGED <<model, stack, cache, objects, caught, escaped>>
    BY DEF StoreParameter, Returned
  <1>2. ContentsOK /\ Len(stack) = 0
    BY <1>1, PythonicKept DEF Sharing
  <1>3. Open' = Open /\ StackRefs' = StackRefs
    BY <1>1 DEF Open, StackRefs
  <1>4. Shown(cache, Open, result, model.params[Len(frame) + 1])
    BY <1>1, <1>2 DEF ContentsOK, ResultShown, Pending
  <1>5. /\ Len(frame') = Len(frame) + 1 /\ frame'[Len(frame) + 1] = result /\ Len(frame) \in Nat
        /\ \A k \in 1 .. Len(frame) : frame'[k] = frame[k]
    BY <1>1, Appended, SequenceShape DEF Shape, FrameOK
  <1>6. ASSUME NEW k \in 1 .. Len(frame')
        PROVE  Shown(cache, Open, frame'[k], model.params[k])
    <2>1. CASE k = Len(frame) + 1
      BY <1>4, <1>5, <2>1
    <2>2. CASE k # Len(frame) + 1
      <3>1. k \in 1 .. Len(frame)
        BY <1>5, <2>2
      <3> QED
        BY <1>2, <1>5, <3>1 DEF ContentsOK, FrameShown
    <2> QED
      BY <2>1, <2>2
  <1>7. FrameShown'
    BY <1>1, <1>3, <1>6 DEF FrameShown
  <1> QED
    BY <1>1, <1>2, <1>3, <1>7
    DEF ContentsOK, ResultShown, StackShown, CacheShown, Chain, Below

(* One more part of the innermost cell is done. *)
LEMMA AdvancedKeepsSharing ==
  ASSUME Shape, model # NoModel, stack # <<>>, Children # <<>>, Advanced, ContentsOK, result' = Nothing,
         UNCHANGED <<model, frame, cache>>,
         \A id \in 1 .. Len(objects) : id # stack[1].id => objects'[id] = objects[id],
         IsShell(cache, Open, objects'[stack[1].id], Contents(model)[stack[1].ref], Converted(stack[1], Contents(model)) + 1)
  PROVE  ContentsOK'
  <1>1. /\ Len(stack') = Len(stack) /\ Len(stack) \in Nat \ {0}
        /\ stack'[1] = [ref |-> stack[1].ref, id |-> stack[1].id, todo |-> Tail(stack[1].todo)]
        /\ \A k \in 1 .. Len(stack) : k # 1 => stack'[k] = stack[k]
        /\ \A k \in 1 .. Len(stack) : stack'[k].ref = stack[k].ref /\ stack'[k].id = stack[k].id
    BY PartDone
  <1>2. StackRefs' = StackRefs
    BY <1>1 DEF StackRefs
  <1>3. Open' = Open
    BY <1>2 DEF Open
  <1>4. Converted(stack'[1], Contents(model)) = Converted(stack[1], Contents(model)) + 1
    <2>1. Activated(stack[1])
      BY PartDone
    <2>2. Len(Tail(stack[1].todo)) = Len(stack[1].todo) - 1 /\ Len(stack[1].todo) \in Nat
      BY <2>1, Shortened, SequenceShape DEF Activated, IsActivation, IsRest, Children
    <2>3. Len(ToConvert(Contents(model)[stack[1].ref])) \in Nat
      BY PartDone, PartsOfCell, SequenceShape DEF Activated, IsActivation
    <2>4. stack'[1].todo = Tail(stack[1].todo) /\ stack'[1].ref = stack[1].ref
      BY <1>1
    <2>5. Converted(stack'[1], Contents(model))
            = Len(ToConvert(Contents(model)[stack[1].ref])) - Len(Tail(stack[1].todo))
      BY <2>4, Zenon DEF Converted
    <2>6. Converted(stack[1], Contents(model)) = Len(ToConvert(Contents(model)[stack[1].ref])) - Len(stack[1].todo)
      BY DEF Converted
    <2>7. PICK all, todo, rest : /\ all = Len(ToConvert(Contents(model)[stack[1].ref]))
                                 /\ todo = Len(stack[1].todo) /\ rest = Len(Tail(stack[1].todo))
      OBVIOUS
    <2>8. all \in Nat /\ todo \in Nat /\ rest = todo - 1
      BY <2>2, <2>3, <2>7
    <2>9. all - rest = (all - todo) + 1
      BY <2>8
    <2> QED
      BY <2>5, <2>6, <2>7, <2>9, Zenon
  <1>5. ASSUME NEW k \in 1 .. Len(stack')
        PROVE  IsShell(cache, Open, objects'[stack'[k].id], Contents(model)[stack'[k].ref], Converted(stack'[k], Contents(model)))
    <2>1. CASE k = 1
      BY <1>1, <1>4, <2>1
    <2>2. CASE k # 1
      <3>1. stack'[k] = stack[k] /\ k \in 1 .. Len(stack) /\ 1 \in 1 .. Len(stack)
        BY <1>1, <2>2
      <3>2. objects'[stack[k].id] = objects[stack[k].id]
        BY <2>2, <3>1, StackIds
      <3> QED
        BY <3>1, <3>2 DEF ContentsOK, StackShown
    <2> QED
      BY <2>1, <2>2
  <1>6. ASSUME NEW q \in DOMAIN cache \ StackRefs
        PROVE  IsShown(cache, Open, objects'[cache[q]], Contents(model)[q])
    <2>1. 1 \in 1 .. Len(stack)
      BY <1>1
    <2>2. stack[1].ref \in StackRefs /\ stack[1].ref \in DOMAIN cache /\ cache[stack[1].ref] = stack[1].id
      BY <2>1, StackIds DEF StackRefs
    <2>3. cache[q] \in 1 .. Len(objects) /\ cache[q] # stack[1].id
      BY <1>6, <2>2 DEF Shape, CacheOK
    <2> QED
      BY <2>3 DEF ContentsOK, CacheShown
  <1>7. FrameShown' /\ ResultShown'
    BY <1>3 DEF ContentsOK, FrameShown, ResultShown
  <1>8. StackShown' /\ CacheShown'
    BY <1>2, <1>3, <1>5, <1>6 DEF StackShown, CacheShown
  <1>9. Chain'
    <2>1. ASSUME NEW k \in 1 .. Len(stack)
          PROVE  (IF k = Len(stack) THEN model.params[Len(frame) + 1] ELSE stack'[k + 1].todo[1].value)
                   = AnyRef(stack'[k].ref)
      <3>1. (IF k = Len(stack) THEN model.params[Len(frame) + 1] ELSE stack[k + 1].todo[1].value)
              = AnyRef(stack[k].ref)
        BY DEF ContentsOK, Chain, Caller
      <3>2. k # Len(stack) => k + 1 \in 1 .. Len(stack) /\ k + 1 # 1
        BY <1>1
      <3>3. k # Len(stack) => stack'[k + 1] = stack[k + 1]
        BY <1>1, <3>2
      <3>4. stack'[k].ref = stack[k].ref
        BY <1>1
      <3> QED
        BY <3>1, <3>3, <3>4
    <2> QED
      BY <1>1, <2>1 DEF Chain, Caller
  <1>10. Below'
    <2>1. \A k \in 1 .. Len(stack'), S \in SUBSET Ref :
            ClosedUnder(S) /\ Direct(stack'[k].ref) \subseteq S => \A j \in 1 .. k - 1 : stack'[j].ref \in S
      <3>1. ASSUME NEW k \in 1 .. Len(stack), NEW S \in SUBSET Ref, ClosedUnder(S), Direct(stack[k].ref) \subseteq S,
                   NEW j \in 1 .. k - 1
            PROVE  stack'[j].ref \in S
        <4>1. stack[j].ref \in S /\ j \in 1 .. Len(stack)
          BY <1>1, <3>1 DEF ContentsOK, Below
        <4> QED
          BY <1>1, <4>1
      <3> QED
        BY <1>1, <3>1
    <2> QED
      BY <2>1 DEF Below, ClosedUnder, Direct
  <1> QED
    BY <1>7, <1>8, <1>9, <1>10 DEF ContentsOK

LEMMA StoreKeepsSharing ==
  ASSUME Shape, Sharing, Store, ~caught', ~escaped', Pythonic'
  PROVE  ContentsOK'
  <1>1. /\ model # NoModel /\ stack # <<>> /\ result \notin {Nothing, Raise} /\ Children # <<>>
        /\ UNCHANGED <<model, frame, cache, caught, escaped>>
    BY DEF Store, Returned, Shape, StackOK, Children
  <1>2. Pythonic /\ ContentsOK
    BY <1>1, PythonicKept DEF Sharing
  <1>3. CASE Refused(result)
    <2>1. result' = Raise /\ UNCHANGED <<objects, stack>>
      BY <1>3 DEF Store
    <2> QED
      BY <1>1, <1>2, <2>1
      DEF ContentsOK, FrameShown, ResultShown, StackShown, CacheShown, Chain, Caller, Below, Open, StackRefs,
          ClosedUnder, Direct
  <1>4. CASE ~Refused(result)
    <2>1. Stored /\ Advanced /\ result' = Nothing
      BY <1>4 DEF Store, Stored, Advanced
    <2>2. PICK cell, d, o, slot :
            /\ cell = Contents(model)[stack[1].ref] /\ d = Converted(stack[1], Contents(model))
            /\ o = objects[stack[1].id] /\ slot = Children[1].slot
      OBVIOUS
    <2>3. /\ d \in Nat /\ d < Len(ToConvert(cell)) /\ Children[1] = ToConvert(cell)[d + 1]
          /\ WellSorted(cell) /\ cell.sort # "array" /\ stack[1].ref \in Ref
      BY <1>1, <2>2, TopPart
    <2>4. stack[1].id \in 1 .. Len(objects) /\ 1 \in 1 .. Len(stack)
      BY <1>1, <2>1, PartDone
    <2>5. IsPython(o) /\ ObjectsOK
      BY <2>2, <2>4 DEF Shape, ObjectsOK
    <2>6. IsShell(cache, Open, o, cell, d)
      BY <1>2, <2>2, <2>4 DEF ContentsOK, StackShown
    <2>7. Shown(cache, Open, result, ToConvert(cell)[d + 1].value) /\ ToConvert(cell)[d + 1].value # Absent
      <3>1. IsValue(Pending) /\ Shown(cache, Open, result, Pending) /\ Pending = Children[1].value
        BY <1>1, <1>2 DEF ContentsOK, ResultShown, Pending
      <3> QED
        BY <2>3, <3>1, Tags
    <2>8. PythonCell(cell) /\ \A r, q \in DOMAIN cache : r # q => cache[r] # cache[q]
      BY <1>2, <2>2, <2>3 DEF Pythonic, Shape, CacheOK
    <2>9. slot = ToConvert(cell)[d + 1].slot
      BY <2>2, <2>3
    <2>10. IsShell(cache, Open, Filled(o, slot, result), cell, d + 1)
      BY <2>3, <2>5, <2>6, <2>7, <2>8, <2>9, StoreFills
    <2>11. objects'[stack[1].id] = Filled(o, slot, result)
           /\ \A id \in 1 .. Len(objects) : id # stack[1].id => objects'[id] = objects[id]
      BY <2>1, <2>2, <2>4, <2>5, ObjectFilled
    <2>12. IsShell(cache, Open, objects'[stack[1].id], Contents(model)[stack[1].ref], Converted(stack[1], Contents(model)) + 1)
      BY <2>2, <2>10, <2>11
    <2> QED
      BY <1>1, <1>2, <2>1, <2>11, <2>12, AdvancedKeepsSharing
  <1> QED
    BY <1>3, <1>4

LEMMA SkipFieldKeepsSharing ==
  ASSUME Shape, Sharing, SkipField, ~caught', ~escaped', Pythonic'
  PROVE  ContentsOK'
  <1>1. /\ model # NoModel /\ stack # <<>> /\ Children # <<>> /\ Children[1].value = Absent
        /\ UNCHANGED <<model, frame, cache, objects, caught, escaped>> /\ Advanced /\ result' = Nothing
    BY DEF SkipField, Working, Advanced
  <1>2. ContentsOK
    BY <1>1, PythonicKept DEF Sharing
  <1>3. PICK cell, d, o : /\ cell = Contents(model)[stack[1].ref] /\ d = Converted(stack[1], Contents(model))
                          /\ o = objects[stack[1].id]
    OBVIOUS
  <1>4. /\ d \in Nat /\ d < Len(ToConvert(cell)) /\ Children[1] = ToConvert(cell)[d + 1]
        /\ WellSorted(cell) /\ cell.sort # "array"
    BY <1>1, <1>3, TopPart
  <1>5. 1 \in 1 .. Len(stack)
    BY <1>1, PartDone
  <1>6. IsShell(cache, Open, o, cell, d)
    BY <1>2, <1>3, <1>5 DEF ContentsOK, StackShown
  <1>7. IsShell(cache, Open, o, cell, d + 1)
    BY <1>1, <1>4, <1>6, SkipFills
  <1>8. IsShell(cache, Open, objects'[stack[1].id], Contents(model)[stack[1].ref], Converted(stack[1], Contents(model)) + 1)
    BY <1>1, <1>3, <1>7
  <1> QED
    BY <1>1, <1>2, <1>8, AdvancedKeepsSharing

LEMMA LeaveKeepsSharing ==
  ASSUME Shape, Sharing, Leave, ~caught', ~escaped', Pythonic'
  PROVE  ContentsOK'
  <1> DEFINE r == stack[1].ref
             cell == Contents(model)[r]
             at == stack[1].id
             id == Len(objects) + 1
             o == PyObject("tuple", "tuple", objects[at].contents)
  <1>1. /\ model # NoModel /\ stack # <<>> /\ stack[1].todo = <<>> /\ Popped
        /\ UNCHANGED <<model, frame, caught, escaped>>
    BY DEF Leave, Working, Children, Popped
  <1>2. Pythonic /\ ContentsOK /\ StackOK /\ CacheOK /\ ObjectsOK /\ IsModel(model)
    BY <1>1, PythonicKept DEF Sharing, Shape
  <1>3. /\ Len(stack') = Len(stack) - 1 /\ Len(stack) \in Nat \ {0}
        /\ \A k \in 1 .. Len(stack') : k + 1 \in 1 .. Len(stack) /\ stack'[k] = stack[k + 1]
                                       /\ stack[k + 1].ref # r
    BY <1>1, <1>2, PoppedStack
  <1>4. /\ 1 \in 1 .. Len(stack) /\ Activated(stack[1])
        /\ r \in DOMAIN cache /\ r \in Ref /\ cache[r] = at /\ at \in 1 .. Len(objects)
    BY <1>1, <1>2, <1>3, StackIds DEF StackOK
  <1>5. WellSorted(cell) /\ cell.sort # "array"
    BY <1>2, <1>4 DEF IsModel, Activated, IsActivation
  <1>6. StackRefs' = StackRefs \ {r}
    <2>1. ASSUME NEW q, q \in StackRefs' PROVE q \in StackRefs \ {r}
      <3>1. PICK k \in 1 .. Len(stack') : q = stack'[k].ref
        BY <2>1 DEF StackRefs
      <3> QED
        BY <1>3, <3>1 DEF StackRefs
    <2>2. ASSUME NEW q, q \in StackRefs \ {r} PROVE q \in StackRefs'
      <3>1. PICK k \in 1 .. Len(stack) : q = stack[k].ref
        BY <2>2 DEF StackRefs
      <3>2. k # 1
        BY <2>2, <3>1
      <3>3. PICK j \in 1 .. Len(stack') : k = j + 1
        <4>1. k - 1 \in 1 .. Len(stack') /\ k = (k - 1) + 1
          BY <1>3, <3>2
        <4> QED
          BY <4>1
      <3>4. q = stack'[j].ref
        BY <1>3, <3>1, <3>3
      <3> QED
        BY <3>4 DEF StackRefs
    <2> QED
      BY <2>1, <2>2
  <1>7. Open' = Open \ {r} /\ (r \in Open <=> IsTuple(cell))
    <2>1. r \in StackRefs
      BY <1>4 DEF StackRefs
    <2> QED
      BY <1>1, <1>6, <2>1 DEF Open
  <1>8. IsShell(cache, Open, objects[at], cell, Len(ToConvert(cell)))
    <2>1. Converted(stack[1], Contents(model)) = Len(ToConvert(cell))
      <3>1. Len(ToConvert(cell)) \in Nat
        BY <1>5, PartsOfCell, SequenceShape
      <3> QED
        BY <1>1, <3>1 DEF Converted
    <2> QED
      BY <1>2, <1>4, <2>1 DEF ContentsOK, StackShown
  <1> DEFINE now == cache'[r]
  <1>9. /\ Extends(cache, Open, cache', Open') /\ DOMAIN cache' = DOMAIN cache
        /\ \A q \in DOMAIN cache : q # r => cache'[q] = cache[q]
        /\ \A k \in 1 .. Len(objects) : objects'[k] = objects[k]
        /\ result' = Object(now)
        /\ objects'[now].kind = IF IsTuple(cell) THEN "tuple" ELSE cell.sort
        /\ objects'[now].class = IF IsTuple(cell) THEN "tuple" ELSE objects[at].class
        /\ objects'[now].contents = objects[at].contents
    <2>1. CASE IsTuple(cell)
      <3>1. /\ objects' = Append(objects, o) /\ cache' = [cache EXCEPT ![r] = id] /\ result' = Object(id)
        BY <2>1 DEF Leave, Recached, IsTuple
      <3>2. IsPython(o) /\ o.kind = "tuple" /\ o.class = "tuple" /\ o.contents = objects[at].contents
        <4>1. objects[at].kind = "list"
          BY <1>8, <2>1 DEF IsShell, Shell, EmptyList, PyObject, IsTuple
        <4>2. IsSequence(objects[at].contents)
          BY <1>2, <1>4, <4>1 DEF ObjectsOK, IsPython
        <4> QED
          BY <4>2 DEF IsPython, PyObject
      <3> HIDE DEF o, r, at, cell
      <3>3. /\ Len(objects) \in Nat /\ \A k \in 1 .. Len(objects) : objects'[k] = objects[k]
            /\ objects'[id] = o
        BY <1>2, <3>1, <3>2, ObjectAdded
      <3>4. DOMAIN cache' = DOMAIN cache /\ now = id /\ \A q \in DOMAIN cache : q # r => cache'[q] = cache[q]
        BY <1>4, <3>1
      <3>5. Extends(cache, Open, cache', Open')
        BY <1>7, <2>1, <3>4 DEF Extends
      <3> QED
        BY <2>1, <3>1, <3>2, <3>3, <3>4, <3>5
    <2>2. CASE ~IsTuple(cell)
      <3>1. result' = Object(cache[r]) /\ UNCHANGED <<objects, cache>>
        BY <2>2 DEF Leave, IsTuple
      <3>2. Extends(cache, Open, cache', Open')
        BY <1>7, <3>1 DEF Extends
      <3>3. objects[at].kind = cell.sort
        BY <1>5, <1>8, ShellIsPython DEF IsShell
      <3> QED
        BY <1>4, <2>2, <3>1, <3>2, <3>3
    <2> QED
      BY <2>1, <2>2
  <1>10. IsShown(cache', Open', objects'[now], cell)
    <2>1. Filling(cache', Open', objects[at].contents, cell, Len(ToConvert(cell)))
      BY <1>8, <1>9, FillingKept DEF IsShell
    <2>2. cell.sort \in {"list", "set", "dict", "object"}
      BY <1>5 DEF WellSorted
    <2>3. objects'[now].class = IF cell.sort = "object" THEN cell.class ELSE objects'[now].kind
      BY <1>8, <1>9, <2>2 DEF IsShell, Shell, PyObject, EmptyList, IsTuple
    <2> QED
      BY <1>5, <1>9, <2>1, <2>3 DEF IsShown
  <1> HIDE DEF r, cell, at, id, o, now
  <1>11. /\ \A k \in 1 .. Len(frame) : Shown(cache', Open', frame[k], model.params[k])
         /\ \A k \in 1 .. Len(stack) :
              IsShell(cache', Open', objects[stack[k].id], Contents(model)[stack[k].ref], Converted(stack[k], Contents(model)))
         /\ \A q \in DOMAIN cache \ StackRefs : IsShown(cache', Open', objects[cache[q]], Contents(model)[q])
    BY <1>2, <1>9, ShownStays
  <1>12. FrameShown'
    BY <1>1, <1>11 DEF FrameShown
  <1>13. StackShown'
    <2>1. ASSUME NEW k \in 1 .. Len(stack')
          PROVE  IsShell(cache', Open', objects'[stack'[k].id], Contents(model)[stack'[k].ref], Converted(stack'[k], Contents(model)))
      <3>1. k + 1 \in 1 .. Len(stack) /\ stack'[k] = stack[k + 1]
        BY <1>3
      <3>2. objects'[stack[k + 1].id] = objects[stack[k + 1].id]
        BY <1>1, <1>9, <3>1, StackIds
      <3> QED
        BY <1>11, <3>1, <3>2
    <2> QED
      BY <1>1, <2>1 DEF StackShown
  <1>14. CacheShown'
    <2>1. ASSUME NEW q \in DOMAIN cache' \ StackRefs'
          PROVE  IsShown(cache', Open', objects'[cache'[q]], Contents(model)[q])
      <3>1. CASE q = r
        BY <1>10, <3>1 DEF now, cell
      <3>2. CASE q # r
        <4>1. q \in DOMAIN cache \ StackRefs /\ cache'[q] = cache[q]
          BY <1>6, <1>9, <2>1, <3>2
        <4>2. objects'[cache[q]] = objects[cache[q]]
          BY <1>2, <1>9, <4>1 DEF CacheOK
        <4> QED
          BY <1>11, <4>1, <4>2
      <3> QED
        BY <3>1, <3>2
    <2> QED
      BY <1>1, <2>1 DEF CacheShown
  <1>15. Pending' = AnyRef(r)
    <2>1. (IF 1 = Len(stack) THEN model.params[Len(frame) + 1] ELSE stack[1 + 1].todo[1].value) = AnyRef(r)
      BY <1>2, <1>4 DEF ContentsOK, Chain, Caller, r
    <2>2. IsSequence(stack')
      BY <1>1, <1>2, PoppedStack
    <2>3. CASE stack' = <<>>
      <3>1. Len(stack) = 1
        BY <1>3, <2>2, <2>3, SequenceShape
      <3> QED
        BY <1>1, <2>1, <2>3, <3>1 DEF Pending
    <2>4. CASE stack' # <<>>
      <3>1. Len(stack) # 1 /\ 1 \in 1 .. Len(stack')
        BY <1>3, <2>2, <2>4, SequenceShape
      <3>2. stack'[1] = stack[1 + 1]
        BY <1>3, <3>1
      <3> QED
        BY <1>1, <2>1, <2>4, <3>1, <3>2 DEF Pending, Children
    <2> QED
      BY <2>3, <2>4
  <1>16. ResultShown'
    <2>1. IsValue(AnyRef(r))
      BY <1>4 DEF IsValue, AnyRef
    <2>2. Shown(cache', Open', result', AnyRef(r))
      BY <1>4, <1>7, <1>9 DEF Shown, Placed, Image, AnyRef, now
    <2> QED
      BY <1>15, <2>1, <2>2 DEF ResultShown, IsValue
  <1>17. Chain'
    <2>1. ASSUME NEW k \in 1 .. Len(stack')
          PROVE  (IF k = Len(stack') THEN model.params[Len(frame) + 1] ELSE stack'[k + 1].todo[1].value)
                   = AnyRef(stack'[k].ref)
      <3>1. PICK j \in 1 .. Len(stack) : j = k + 1 /\ stack'[k] = stack[j]
        BY <1>3
      <3>2. (IF j = Len(stack) THEN model.params[Len(frame) + 1] ELSE stack[j + 1].todo[1].value)
              = AnyRef(stack[j].ref)
        BY <1>2 DEF ContentsOK, Chain, Caller
      <3>3. k = Len(stack') <=> j = Len(stack)
        BY <1>3, <3>1
      <3>4. k # Len(stack') => stack'[k + 1] = stack[j + 1]
        <4>1. SUFFICES ASSUME k # Len(stack') PROVE stack'[k + 1] = stack[j + 1]
          OBVIOUS
        <4>2. k + 1 \in 1 .. Len(stack')
          BY <1>3, <4>1
        <4>3. stack'[k + 1] = stack[(k + 1) + 1]
          BY <1>3, <4>2
        <4> QED
          BY <3>1, <4>3
      <3> QED
        BY <3>1, <3>2, <3>3, <3>4
    <2> QED
      BY <1>1, <2>1 DEF Chain, Caller
  <1>18. Below'
    <2>1. ASSUME NEW k \in 1 .. Len(stack'), NEW S \in SUBSET Ref, ClosedUnder(S),
                 Direct(stack'[k].ref) \subseteq S, NEW j \in 1 .. k - 1
          PROVE  stack'[j].ref \in S
      <3>1. k + 1 \in 1 .. Len(stack) /\ stack'[k] = stack[k + 1]
        BY <1>3
      <3>2. j \in 1 .. Len(stack') /\ stack'[j] = stack[j + 1] /\ j + 1 \in 1 .. (k + 1) - 1
        BY <1>3
      <3>3. Direct(stack[k + 1].ref) \subseteq S
        BY <2>1, <3>1
      <3>4. stack[j + 1].ref \in S
        BY <1>2, <2>1, <3>1, <3>2, <3>3 DEF ContentsOK, Below
      <3> QED
        BY <3>2, <3>4
    <2> QED
      BY <1>1, <2>1 DEF Below, ClosedUnder, Direct
  <1> QED
    BY <1>12, <1>13, <1>14, <1>16, <1>17, <1>18 DEF ContentsOK

LEMMA NextSharing == Shape /\ Fresh /\ Sharing /\ [Next]_vars => Sharing'
  <1> SUFFICES ASSUME Shape, Fresh, Sharing, [Next]_vars PROVE Sharing'
    OBVIOUS
  <1>1. CASE UNCHANGED vars
    <2>1. SUFFICES ASSUME model # NoModel, ~caught, ~escaped, Pythonic' PROVE ContentsOK'
      BY <1>1 DEF vars, Sharing
    <2>2. ContentsOK
      BY <1>1, <2>1, PythonicKept DEF vars, Sharing
    <2>3. FrameShown' /\ ResultShown' /\ StackShown' /\ CacheShown'
      BY <1>1, <2>2 DEF vars, ContentsOK, FrameShown, ResultShown, Pending, Children, StackShown, CacheShown,
                        Open, StackRefs
    <2>4. Chain' /\ Below'
      BY <1>1, <2>2 DEF vars, ContentsOK, Chain, Caller, Below, ClosedUnder, Direct
    <2> QED
      BY <2>3, <2>4 DEF ContentsOK
  <1>2. CASE ConvertReference
    <2>1. CASE ClassNotFound(Pending.of)
      BY <2>1 DEF ClassNotFound, Sharing
    <2> QED
      BY <1>2, <2>1, EnterKeepsSharing, ArrayKeepsSharing DEF ConvertReference, Sharing
  <1>3. CASE Caught
    BY <1>3 DEF Caught, Sharing
  <1>4. CASE Escape \/ Push
    BY <1>4 DEF Escape, Push, Sharing
  <1>5. CASE StoreParameter \/ Store \/ SkipField \/ Leave
    BY <1>5, StoreParameterKeepsSharing, StoreKeepsSharing, SkipFieldKeepsSharing, LeaveKeepsSharing DEF Sharing
  <1> QED
    BY <1>1, <1>2, <1>3, <1>4, <1>5, AnswerKeepsSharing, ConvertValueKeepsSharing DEF Next

(* As many images as places that have different ones. *)
LEMMA Counted ==
  ASSUME NEW n \in Nat, NEW f, f = [k \in 1 .. n |-> f[k]],
         \A j, k \in 1 .. n : j # k => f[j] # f[k]
  PROVE  Cardinality({f[k] : k \in 1 .. n}) = n
  <1> DEFINE S == {f[k] : k \in 1 .. n}
  <1>1. f \in [1 .. n -> S]
    OBVIOUS
  <1>2. \A j, k \in DOMAIN f : f[j] = f[k] => j = k
    BY <1>1
  <1>3. \A v \in S : \E k \in 1 .. n : f[k] = v
    OBVIOUS
  <1> HIDE DEF S
  <1>4. f \in Bijection(1 .. n, S)
    BY <1>1, <1>2, <1>3 DEF Bijection, Injection, IsInjective, Surjection
  <1>5. ExistsBijection(1 .. n, S)
    BY <1>4 DEF ExistsBijection
  <1>6. Cardinality(S) = n
    BY <1>5, FS_CountingElements
  <1> QED
    BY <1>6 DEF S

LEMMA ShownMeans ==
  ASSUME NEW open, NEW p, NEW v, Shown(cache, open, p, v)
  PROVE  Shows(p, v)
  BY DEF Shown, Placed, Image, Shows

(* A finished object shows its cell. *)
LEMMA IsShownMeans ==
  ASSUME Shape, model # NoModel, NEW open, NEW o, NEW cell, WellSorted(cell), PythonCell(cell),
         IsShown(cache, open, o, cell), IsPython(o)
  PROVE  ShowsCell(o, cell)
  <1>1. CASE cell.sort = "list"
    <2>1. o.kind = (IF cell.mutable THEN "list" ELSE "tuple")
      BY <1>1 DEF IsShown, IsTuple
    <2>2. ListFilled(cache, open, o.contents, cell, Len(cell.items)) /\ DOMAIN cell.items = 1 .. Len(cell.items)
      BY <1>1, PartsOfList DEF IsShown, Filling
    <2>3. AllShow(o.contents, cell.items)
      BY <2>2, ShownMeans DEF ListFilled, AllShow
    <2> QED
      BY <1>1, <2>1, <2>3 DEF ShowsCell
  <1>2. CASE cell.sort = "object"
    <2>1. o.kind = "object" /\ o.class = cell.class
      BY <1>2 DEF IsShown, IsTuple
    <2>2. ObjectFilledUpTo(cache, open, o.contents, cell, Len(FieldOrder))
      BY <1>2, PartsOfObject DEF IsShown, Filling
    <2>3. DOMAIN o.contents = DOMAIN cell.fields
      BY <1>2, <2>2, PartsOfObject DEF ObjectFilledUpTo
    <2>4. AllShow(o.contents, cell.fields)
      BY <2>2, <2>3, ShownMeans DEF ObjectFilledUpTo, AllShow
    <2> QED
      BY <1>2, <2>1, <2>4 DEF ShowsCell
  <1>3. CASE cell.sort = "dict"
    <2> DEFINE n == Len(cell.keys)
               all == [k \in 1 .. n |-> Plain(cell.keys[k])]
    <2>1. o.kind = "dict"
      BY <1>3 DEF IsShown, IsTuple
    <2>2. n \in Nat /\ DOMAIN cell.keys = 1 .. n
      BY <1>3, PartsOfDict
    <2> PICK key : key = all
      OBVIOUS
    <2>3. DictFilled(cache, open, o.contents, cell, 2 * n)
      BY <1>3, PartsOfDict DEF IsShown, Filling
    <2>4. DOMAIN o.contents = {key[k] : k \in 1 .. n}
          /\ \A k \in 1 .. n : Shown(cache, open, o.contents[Plain(cell.keys[k])], cell.assoc[k])
      <3>1. \A m \in Nat : (2 * m) \div 2 = m
        OBVIOUS
      <3> QED
        BY <2>2, <2>3, <3>1 DEF DictFilled
    <2>5. \A j, k \in 1 .. n : j # k => key[j] # key[k]
      BY <1>3, <2>2 DEF PythonCell, PythonDistinct, PyEqual
    <2>6. Cardinality(DOMAIN o.contents) = n
      <3>1. key = [k \in 1 .. n |-> key[k]]
        OBVIOUS
      <3> HIDE DEF n
      <3> QED
        BY <2>2, <2>4, <2>5, <3>1, Counted
    <2>7. ASSUME NEW k \in DOMAIN cell.keys
          PROVE  /\ Plain(cell.keys[k]) \in DOMAIN o.contents
                 /\ Shows(o.contents[Plain(cell.keys[k])], cell.assoc[k])
      BY <2>2, <2>4, ShownMeans
    <2> QED
      BY <1>3, <2>1, <2>6, <2>7 DEF ShowsCell
  <1>4. CASE cell.sort = "set"
    <2> DEFINE n == Len(cell.members)
               all == [k \in 1 .. n |-> Image(cache, cell.members[k])]
    <2>1. o.kind = "set"
      BY <1>4 DEF IsShown, IsTuple
    <2>2. n \in Nat /\ DOMAIN cell.members = 1 .. n /\ \A k \in 1 .. n : IsValue(cell.members[k])
      BY <1>4, PartsOfSet
    <2> PICK image : image = all
      OBVIOUS
    <2>3. SetFilled(cache, open, o.contents, cell, n)
      BY <1>4, PartsOfSet DEF IsShown, Filling
    <2>4. /\ o.contents = {image[k] : k \in 1 .. n}
          /\ \A k \in 1 .. n : Placed(cache, open, cell.members[k])
      BY <2>3 DEF SetFilled
    <2>5. \A r, q \in DOMAIN cache : r # q => cache[r] # cache[q]
      BY DEF Shape, CacheOK
    <2>6. ASSUME NEW j \in 1 .. n, NEW k \in 1 .. n, j # k PROVE image[j] # image[k]
      <3>1. ~PyEqual(Plain(cell.members[j]), Plain(cell.members[k]))
        BY <1>4, <2>2, <2>6 DEF PythonCell, PythonDistinct
      <3>2. ~PyEqual(Image(cache, cell.members[j]), Image(cache, cell.members[k]))
        BY <2>2, <2>4, <2>5, <3>1, ImagesDiffer
      <3> QED
        BY <3>2 DEF PyEqual
    <2>7. Cardinality(o.contents) = n
      <3>1. image = [k \in 1 .. n |-> image[k]]
        OBVIOUS
      <3> HIDE DEF n
      <3> QED
        BY <2>2, <2>4, <2>6, <3>1, Counted
    <2>8. ASSUME NEW v \in Elements(cell.members) PROVE \E p \in o.contents : Shows(p, v)
      <3>1. PICK k \in 1 .. n : v = cell.members[k]
        BY <2>2 DEF Elements
      <3>2. image[k] \in o.contents /\ Shown(cache, open, image[k], v)
        BY <2>4, <3>1 DEF Shown
      <3> QED
        BY <3>2, ShownMeans
    <2> QED
      BY <1>4, <2>1, <2>7, <2>8 DEF ShowsCell
  <1>5. CASE cell.sort = "array"
    BY <1>5 DEF IsShown, IsTuple, ShowsCell
  <1> QED
    BY <1>1, <1>2, <1>3, <1>4, <1>5 DEF WellSorted

LEMMA SharingMeans == Shape /\ Sharing => SharingIsTheModels
  <1> SUFFICES ASSUME Shape, Sharing, Faithful
               PROVE  /\ AllShow(frame, model.params)
                      /\ \A r \in DOMAIN cache : ShowsCell(objects[cache[r]], Contents(model)[r])
                      /\ \A r, q \in DOMAIN cache : r # q => cache[r] # cache[q]
    BY DEF SharingIsTheModels
  <1>1. /\ model # NoModel /\ stack = <<>> /\ Len(frame) = Len(model.params)
        /\ FrameOK /\ IsModel(model) /\ CacheOK /\ ObjectsOK
    BY DEF Faithful, Complete, Shape
  <1>2. Pythonic /\ ContentsOK
    BY <1>1 DEF Faithful, Pythonic, PythonCell, Sharing
  <1>3. StackRefs = {} 
    BY <1>1 DEF StackRefs
  <1>4. AllShow(frame, model.params)
    <2>1. DOMAIN frame = 1 .. Len(frame) /\ DOMAIN model.params = 1 .. Len(frame)
      BY <1>1, SequenceShape DEF FrameOK, IsModel, AreValues
    <2> QED
      BY <1>2, <2>1, ShownMeans DEF ContentsOK, FrameShown, AllShow
  <1>5. ASSUME NEW r \in DOMAIN cache PROVE ShowsCell(objects[cache[r]], Contents(model)[r])
    <2>1. IsShown(cache, Open, objects[cache[r]], Contents(model)[r])
      BY <1>2, <1>3 DEF ContentsOK, CacheShown
    <2>2. r \in Ref /\ WellSorted(Contents(model)[r]) /\ IsPython(objects[cache[r]])
      BY <1>1 DEF CacheOK, IsModel, ObjectsOK
    <2> QED
      BY <1>1, <1>2, <2>1, <2>2, IsShownMeans DEF Pythonic
  <1> QED
    BY <1>1, <1>4, <1>5 DEF CacheOK

(* The frame made of a model is the model's heap again, for any classes,     *)
(* fields and models, with any sharing and any cycles but those through a  *)
(* tuple: convert_reference caches an object before it converts its         *)
(* children, and puts the tuple made of it into the cache afterwards, and  *)
(* still every place that refers to a cell gets one and the same object,    *)
(* with all its members.                                                   *)
THEOREM FramesAreTheModels == Spec => []SharingIsTheModels
  BY ShapeAlways, InitFresh, NextFresh, InitSharing, NextSharing, SharingMeans, PTL DEF Spec

----------------------------------------------------------------------------
(* Formulas and the values they are about.                                 *)

(* The walk down the subclasses and the one up the base classes agree. *)
LEMMA SubclassesAreRecognized ==
  ASSUME NEW c \in Class, NEW d \in Class
  PROVE  c \in Recognized(d) <=> SubclassOf(c, d)
  <1>1. ASSUME c \in Recognized(d), NEW S \in SUBSET Class, c \in S, \A e \in S : Bases[e] \subseteq S
        PROVE  d \in S
    <2> DEFINE T == Class \ S
    <2>1. \A e \in T : Subclasses(e) \subseteq T
      BY <1>1 DEF Subclasses
    <2>2. T \in SUBSET Class /\ c \notin T
      BY <1>1
    <2>3. d \notin T
      BY <1>1, <2>1, <2>2 DEF Recognized
    <2> QED
      BY <2>3
  <1>2. ASSUME SubclassOf(c, d), NEW S \in SUBSET Class, d \in S, \A e \in S : Subclasses(e) \subseteq S
        PROVE  c \in S
    <2> DEFINE T == Class \ S
    <2>1. \A e \in T : Bases[e] \subseteq T
      <3>1. ASSUME NEW e \in T, NEW b \in Bases[e] PROVE b \in T
        <4>1. b \in Class
          BY ClassAssumption
        <4>2. e \in Subclasses(b)
          BY DEF Subclasses
        <4> QED
          BY <1>2, <4>1, <4>2
      <3> QED
        BY <3>1
    <2>2. T \in SUBSET Class /\ d \notin T
      BY <1>2
    <2>3. c \notin T
      BY <1>2, <2>1, <2>2 DEF SubclassOf
    <2> QED
      BY <2>3
  <1>3. c \in Recognized(d) => SubclassOf(c, d)
    BY <1>1 DEF SubclassOf
  <1>4. SubclassOf(c, d) => c \in Recognized(d)
    BY <1>2 DEF Recognized
  <1> QED
    BY <1>3, <1>4

Builtin == {"int", "bool", "float", "none", "opaque", "list", "tuple", "dict", "set", "array"}

(* A finished object has the sort, the class and the fields of its cell. *)
LEMMA ShownObject ==
  ASSUME Shape, model # NoModel, NEW open, NEW r \in DOMAIN cache,
         IsShown(cache, open, objects[cache[r]], Contents(model)[r])
  PROVE  LET o == objects[cache[r]]
             cell == Contents(model)[r]
         IN  /\ IsPython(o) /\ r \in Ref /\ WellSorted(cell)
             /\ o.kind = IF IsTuple(cell) THEN "tuple" ELSE cell.sort
             /\ cell.sort \in {"list", "object", "dict", "set", "array"}
             /\ cell.sort = "object" => cell.class \in Class /\ o.class = cell.class
                                        /\ DOMAIN o.contents = DOMAIN cell.fields
                                        /\ DOMAIN cell.fields \subseteq Field
             /\ cell.sort # "object" => o.class = o.kind
  <1> DEFINE o == objects[cache[r]]
             cell == Contents(model)[r]
  <1>1. IsPython(o) /\ r \in Ref /\ WellSorted(cell)
    BY DEF Shape, ObjectsOK, CacheOK, IsModel
  <1>2. cell.sort \in {"list", "object", "dict", "set", "array"}
    BY <1>1 DEF WellSorted
  <1>3. ASSUME cell.sort = "object"
        PROVE  cell.class \in Class /\ DOMAIN o.contents = DOMAIN cell.fields /\ DOMAIN cell.fields \subseteq Field
    <2>1. ObjectFilledUpTo(cache, open, o.contents, cell, Len(FieldOrder))
      BY <1>1, <1>3, PartsOfObject DEF IsShown, Filling
    <2>2. DOMAIN o.contents = DOMAIN cell.fields
      BY <1>1, <1>3, <2>1, PartsOfObject DEF ObjectFilledUpTo
    <2> QED
      BY <1>1, <1>3, <2>2 DEF WellSorted
  <1> QED
    BY <1>1, <1>2, <1>3 DEF IsShown

(* A complete frame, one parameter at a time. *)
LEMMA ShownParameter ==
  ASSUME Shape, Sharing, Faithful, NEW k \in DOMAIN frame, NEW v, v = model.params[k], v # Unassigned,
         NEW p, p = frame[k]
  PROVE  /\ IsValue(v) /\ p = Image(cache, v) /\ model # NoModel
         /\ v.tag = "reference" => /\ v.of \in DOMAIN cache /\ p = Object(cache[v.of])
                                   /\ IsShown(cache, Open, objects[cache[v.of]], Contents(model)[v.of])
         /\ v.tag # "reference" => p = v /\ v.tag \in Builtin
  <1>1. /\ model # NoModel /\ stack = <<>> /\ Len(frame) = Len(model.params) /\ FrameOK /\ IsModel(model)
    BY DEF Faithful, Complete, Shape
  <1>2. Pythonic /\ ContentsOK
    BY <1>1 DEF Faithful, Pythonic, PythonCell, Sharing
  <1>3. StackRefs = {} /\ Open = {}
    BY <1>1 DEF StackRefs, Open
  <1>4. k \in 1 .. Len(frame) /\ k \in DOMAIN model.params
    BY <1>1, SequenceShape DEF FrameOK, IsModel, AreValues
  <1>5. IsValue(v)
    BY <1>1, <1>4 DEF IsModel, AreValues, Elements
  <1>6. Shown(cache, Open, p, v)
    BY <1>2, <1>4 DEF ContentsOK, FrameShown
  <1>7. ASSUME v.tag = "reference"
        PROVE  /\ v.of \in DOMAIN cache /\ p = Object(cache[v.of])
               /\ IsShown(cache, Open, objects[cache[v.of]], Contents(model)[v.of])
    BY <1>2, <1>3, <1>6, <1>7 DEF Shown, Placed, Image, ContentsOK, CacheShown
  <1>8. ASSUME v.tag # "reference" PROVE p = v /\ v.tag \in Builtin
    <2>1. p = v
      BY <1>6, <1>8 DEF Shown, Image, Plain
    <2>2. v.tag # "unassigned"
      <3>1. SUFFICES ASSUME v.tag = "unassigned" PROVE FALSE
        OBVIOUS
      <3> QED
        BY <1>5, <3>1 DEF IsValue, Unassigned
    <2> QED
      BY <1>5, <1>8, <2>1, <2>2 DEF IsValue, Builtin
  <1> QED
    BY <1>1, <1>5, <1>6, <1>7, <1>8 DEF Shown

(* The type of a parameter is what the recognizers say of its value. *)
LEMMA TypesAreSeen ==
  ASSUME Shape, Sharing, Faithful, NEW k \in DOMAIN frame, NEW v, v = model.params[k], v # Unassigned,
         NEW p, p = frame[k]
  PROVE  /\ TypeOf(p) = IF v.tag # "reference" THEN v.tag
                        ELSE IF IsCell(Contents(model), v, "object") THEN Contents(model)[v.of].class
                        ELSE IF IsTuple(Contents(model)[v.of]) THEN "tuple" ELSE Contents(model)[v.of].sort
         /\ IsCell(Contents(model), v, "object") <=> TypeOf(p) \in Class
         /\ \A type \in Types : IsInstance(Contents(model), v, type) <=> PyIsInstance(p, type)
  <1>1. /\ IsValue(v) /\ p = Image(cache, v) /\ model # NoModel
        /\ v.tag = "reference" => /\ v.of \in DOMAIN cache /\ p = Object(cache[v.of])
                                  /\ IsShown(cache, Open, objects[cache[v.of]], Contents(model)[v.of])
        /\ v.tag # "reference" => p = v /\ v.tag \in Builtin
    BY ShownParameter
  <1>2. Class \cap Builtin = {}
    BY NamesAssumption DEF Builtin
  <1> DEFINE ClassTest(type) == IsCell(Contents(model), v, "object") /\ Contents(model)[v.of].class \in Recognized(type)
  <1>5. ASSUME NEW type \in Class PROVE IsInstance(Contents(model), v, type) <=> ClassTest(type)
    <2>1. type \notin {"list", "tuple", "dict", "set"}
      BY <1>2 DEF Builtin
    <2> QED
      BY <2>1 DEF IsInstance
  <1>3. CASE v.tag # "reference"
    <2>1. TypeOf(p) = v.tag /\ ~IsCell(Contents(model), v, "object")
      <3>1. v.tag # "pointer" /\ p = v
        BY <1>1, <1>3, Tags
      <3>2. TypeOf(p) = v.tag
        BY <3>1 DEF TypeOf
      <3> QED
        BY <1>3, <3>2 DEF IsCell
    <2>2. TypeOf(p) \notin Class /\ v.tag \in Builtin
      BY <1>1, <1>2, <1>3, <2>1
    <2>3. ASSUME NEW type \in Types PROVE IsInstance(Contents(model), v, type) <=> PyIsInstance(p, type)
      <3>1. CASE type \in Class
        BY <1>5, <2>1, <2>2, <3>1 DEF PyIsInstance
      <3>2. CASE type \notin Class
        <4>1. PyIsInstance(p, type) <=> v.tag = type
          BY <2>1, <3>2 DEF PyIsInstance
        <4>2. v.tag \notin {"list", "tuple", "dict", "set"}
          BY <1>1, <1>3 DEF IsValue
        <4> QED
          BY <1>3, <3>2, <4>1, <4>2 DEF IsInstance, ListTest, IsCell
      <3> QED
        BY <3>1, <3>2
    <2> QED
      BY <1>3, <2>1, <2>2, <2>3
  <1>4. CASE v.tag = "reference"
    <2> DEFINE o == objects[cache[v.of]]
               cell == Contents(model)[v.of]
    <2>1. /\ o.kind = IF IsTuple(cell) THEN "tuple" ELSE cell.sort
          /\ cell.sort \in {"list", "object", "dict", "set", "array"} /\ WellSorted(cell)
          /\ cell.sort = "object" => cell.class \in Class /\ o.class = cell.class
      BY <1>1, <1>4, ShownObject
    <2>2. TypeOf(p) = IF o.kind = "object" THEN o.class ELSE o.kind
      BY <1>1, <1>4, Tags DEF TypeOf
    <2> HIDE DEF o
    <2>3. IsTuple(cell) => cell.sort = "list"
      BY DEF IsTuple
    <2>4. TypeOf(p) = IF cell.sort = "object" THEN cell.class ELSE IF IsTuple(cell) THEN "tuple" ELSE cell.sort
      BY <2>1, <2>2, <2>3
    <2>5. IsCell(Contents(model), v, "object") <=> cell.sort = "object"
      BY <1>4 DEF IsCell
    <2>6. cell.sort = "object" <=> TypeOf(p) \in Class
      BY <1>2, <2>1, <2>3, <2>4 DEF Builtin
    <2>7. ASSUME NEW type \in Types PROVE IsInstance(Contents(model), v, type) <=> PyIsInstance(p, type)
      <3>1. CASE type \in Class
        <4>1. CASE cell.sort = "object"
          <5>1. cell.class \in Class /\ TypeOf(p) = cell.class
            BY <2>1, <2>4, <4>1
          <5>2. IsInstance(Contents(model), v, type) <=> cell.class \in Recognized(type)
            BY <1>5, <2>5, <3>1, <4>1
          <5>3. SubclassOf(type, type)
            BY DEF SubclassOf
          <5>4. PyIsInstance(p, type) <=> SubclassOf(cell.class, type)
            BY <3>1, <5>1, <5>3 DEF PyIsInstance
          <5> QED
            BY <3>1, <5>1, <5>2, <5>4, SubclassesAreRecognized
        <4>2. CASE cell.sort # "object"
          BY <1>5, <2>5, <2>6, <3>1, <4>2 DEF PyIsInstance
        <4> QED
          BY <4>1, <4>2
      <3>2. CASE type \notin Class
        <4>1. PyIsInstance(p, type) <=> TypeOf(p) = type
          BY <3>2 DEF PyIsInstance
        <4>2. type \in {"int", "bool", "float", "none", "list", "tuple", "dict", "set"}
          BY <3>2 DEF Types
        <4>3. TypeOf(p) = type <=> (IF IsTuple(cell) THEN "tuple" ELSE cell.sort) = type
          <5>1. CASE cell.sort = "object"
            BY <2>3, <2>6, <3>2, <4>2, <5>1
          <5>2. CASE cell.sort # "object"
            BY <2>4, <5>2
          <5> QED
            BY <5>1, <5>2
        <4>4. cell.sort = "list" => cell.mutable \in BOOLEAN
          BY <2>1 DEF WellSorted
        <4>5. IsInstance(Contents(model), v, type) <=> (IF IsTuple(cell) THEN "tuple" ELSE cell.sort) = type
          <5>1. CASE type = "list"
            BY <1>4, <3>2, <4>4, <5>1 DEF IsInstance, ListTest, IsCell, IsTuple
          <5>2. CASE type = "tuple"
            BY <1>4, <2>1, <3>2, <4>4, <5>2 DEF IsInstance, ListTest, IsCell, IsTuple
          <5>3. CASE type \in {"dict", "set"}
            BY <1>4, <3>2, <5>3 DEF IsInstance, IsCell, IsTuple
          <5>4. CASE type \in {"int", "bool", "float", "none"}
            BY <1>4, <2>1, <3>2, <5>4 DEF IsInstance
          <5> QED
            BY <4>2, <5>1, <5>2, <5>3, <5>4
        <4> QED
          BY <4>1, <4>3, <4>5
      <3> QED
        BY <3>1, <3>2
    <2> QED
      BY <1>4, <2>4, <2>5, <2>6, <2>7
  <1> QED
    BY <1>3, <1>4

(* So are its attributes. *)
LEMMA AttributesAreSeen ==
  ASSUME Shape, Sharing, Faithful, NEW k \in DOMAIN frame, NEW v, v = model.params[k], v # Unassigned,
         NEW p, p = frame[k], NEW name
  PROVE  PyHasAttr(p, name) <=> HasField(Contents(model), v, name) \/ HasMethod(Contents(model), v, name)
  <1>1. /\ model # NoModel
        /\ v.tag = "reference" => /\ v.of \in DOMAIN cache /\ p = Object(cache[v.of])
                                  /\ IsShown(cache, Open, objects[cache[v.of]], Contents(model)[v.of])
    BY ShownParameter
  <1>2. IsCell(Contents(model), v, "object") <=> TypeOf(p) \in Class
    BY TypesAreSeen
  <1>3. CASE ~IsCell(Contents(model), v, "object")
    BY <1>2, <1>3 DEF HasField, HasMethod, PyHasAttr
  <1>4. CASE IsCell(Contents(model), v, "object")
    <2>1. v.tag = "reference" /\ Contents(model)[v.of].sort = "object"
      BY <1>4 DEF IsCell
    <2>2. /\ DOMAIN objects[cache[v.of]].contents = DOMAIN Contents(model)[v.of].fields
          /\ Contents(model)[v.of].class \in Class
      BY <1>1, <2>1, ShownObject
    <2>3. TypeOf(p) = Contents(model)[v.of].class
      BY <1>4, <2>1, TypesAreSeen
    <2>4. p.of = cache[v.of]
      BY <1>1, <2>1, Tags
    <2>5. \A c \in Class : Contents(model)[v.of].class \in Recognized(c) <=> SubclassOf(Contents(model)[v.of].class, c)
      BY <2>2, SubclassesAreRecognized
    <2> QED
      BY <1>4, <2>2, <2>3, <2>4, <2>5 DEF HasField, HasMethod, PyHasAttr
  <1> QED
    BY <1>3, <1>4

(* Equal cells make objects with equal contents. *)
LEMMA EqualCellsShowEqual ==
  ASSUME NEW refs, NEW open, NEW cell, WellSorted(cell), cell.sort \in {"list", "set", "dict"},
         NEW o, IsPython(o), IsShown(refs, open, o, cell),
         NEW q, IsPython(q), IsShown(refs, open, q, cell)
  PROVE  o = q
  <1>1. o.kind = q.kind /\ o.class = q.class
    BY DEF IsShown
  <1>2. CASE cell.sort = "list"
    <2>1. ListFilled(refs, open, o.contents, cell, Len(cell.items))
          /\ ListFilled(refs, open, q.contents, cell, Len(cell.items))
      BY <1>2, PartsOfList DEF IsShown, Filling
    <2>2. IsSequence(o.contents) /\ IsSequence(q.contents)
      BY <1>2 DEF IsPython, IsShown, IsTuple
    <2>3. PICK c, d : c = o.contents /\ d = q.contents
      OBVIOUS
    <2>4. /\ c = [k \in 1 .. Len(c) |-> c[k]] /\ d = [k \in 1 .. Len(d) |-> d[k]]
          /\ DOMAIN c = 1 .. Len(c) /\ DOMAIN d = 1 .. Len(d)
      BY <2>2, <2>3, SequenceShape
    <2>5. DOMAIN c = DOMAIN d /\ \A k \in DOMAIN c : c[k] = d[k]
      BY <2>1, <2>3 DEF ListFilled, Shown
    <2>6. c = d
      BY <2>4, <2>5
    <2> QED
      BY <1>1, <2>3, <2>6, Zenon DEF IsPython
  <1>3. CASE cell.sort = "set"
    <2>1. o.contents = q.contents
      BY <1>3, PartsOfSet DEF IsShown, Filling, SetFilled
    <2> QED
      BY <1>1, <2>1, Zenon DEF IsPython
  <1>4. CASE cell.sort = "dict"
    <2>1. DictFilled(refs, open, o.contents, cell, Len(ToConvert(cell)))
          /\ DictFilled(refs, open, q.contents, cell, Len(ToConvert(cell)))
      BY <1>4 DEF IsShown, Filling
    <2>2. PICK c, d : c = o.contents /\ d = q.contents
      OBVIOUS
    <2>3. c = [k \in DOMAIN c |-> c[k]] /\ d = [k \in DOMAIN d |-> d[k]]
      BY <1>4, <2>2 DEF IsPython, IsShown, IsTuple
    <2>4. DOMAIN c = DOMAIN d /\ \A k \in DOMAIN c : c[k] = d[k]
      BY <2>1, <2>2 DEF DictFilled, Shown
    <2>5. c = d
      BY <2>3, <2>4
    <2> QED
      BY <1>1, <2>2, <2>5, Zenon DEF IsPython
  <1> QED
    BY <1>2, <1>3, <1>4

\* The set of the first b entries of an array.
Start(s, b) == SetCell([x \in 1 .. b |-> s[x]])

(* Of two sets with one array, cut at two bounds, one shows a part of the other. *)
LEMMA SharedArrayShows ==
  ASSUME NEW refs, NEW open, NEW s, NEW b \in Int, NEW c \in Int, NEW o, NEW q,
         WellSorted(Start(s, b)), WellSorted(Start(s, c)),
         IsShown(refs, open, o, Start(s, b)), IsShown(refs, open, q, Start(s, c))
  PROVE  b <= c => o.contents \subseteq q.contents
  <1>1. PICK cell, other : cell = Start(s, b) /\ other = Start(s, c)
    OBVIOUS
  <1>2. /\ cell.sort = "set" /\ other.sort = "set" /\ WellSorted(cell) /\ WellSorted(other)
        /\ cell.members = [x \in 1 .. b |-> s[x]] /\ other.members = [x \in 1 .. c |-> s[x]]
    BY <1>1 DEF Start, SetCell
  <1>3. IsShown(refs, open, o, cell) /\ IsShown(refs, open, q, other)
    BY <1>1
  <1>4. SetFilled(refs, open, o.contents, cell, Len(ToConvert(cell)))
        /\ SetFilled(refs, open, q.contents, other, Len(ToConvert(other)))
    BY <1>2, <1>3 DEF IsShown, Filling
  <1>5. /\ Len(ToConvert(cell)) = Len(cell.members) /\ DOMAIN cell.members = 1 .. Len(cell.members)
        /\ Len(ToConvert(other)) = Len(other.members) /\ DOMAIN other.members = 1 .. Len(other.members)
    BY <1>2, PartsOfSet
  <1>6. DOMAIN cell.members = 1 .. b /\ DOMAIN other.members = 1 .. c
    BY <1>2
  <1>7. /\ o.contents = {Image(refs, cell.members[k]) : k \in 1 .. b}
        /\ q.contents = {Image(refs, other.members[k]) : k \in 1 .. c}
    BY <1>4, <1>5, <1>6 DEF SetFilled
  <1>8. b <= c => \A k \in 1 .. b : k \in 1 .. c /\ cell.members[k] = other.members[k]
    BY <1>2
  <1> QED
    BY <1>7, <1>8

(* What the equality formula of two references to equal cells shows. *)
LEMMA EqualCellsAreSeen ==
  ASSUME Shape, model # NoModel, NEW v, NEW w, v.of \in DOMAIN cache, w.of \in DOMAIN cache,
         model.heap[v.of] = model.heap[w.of],
         NEW open, NEW o, o = objects[cache[v.of]], IsShown(cache, open, o, Contents(model)[v.of]),
         NEW q, q = objects[cache[w.of]], IsShown(cache, open, q, Contents(model)[w.of]),
         model.heap[v.of].sort \in {"list", "set", "dict"}
  PROVE  \/ o = q
         \/ model.heap[v.of].sort = "set" /\ (o.contents \subseteq q.contents \/ q.contents \subseteq o.contents)
  <1>1. v.of \in Ref /\ w.of \in Ref /\ IsHeap(model) /\ IsPython(o) /\ IsPython(q)
    BY ShownObject DEF Shape, IsModel, CacheOK
  <1>2. PICK cell, other : cell = Contents(model)[v.of] /\ other = Contents(model)[w.of]
    OBVIOUS
  <1>3. /\ cell = Bounded(model.heap[v.of], model.bound[v.of]) /\ cell.sort = model.heap[v.of].sort
        /\ other = Bounded(model.heap[w.of], model.bound[w.of])
        /\ WellSorted(cell) /\ WellSorted(other)
    BY <1>1, <1>2, ContentsOfModel
  <1>4. IsShown(cache, open, o, cell) /\ IsShown(cache, open, q, other)
    BY <1>2
  <1>5. CASE model.heap[v.of].sort # "set"
    <2>1. other = cell
      BY <1>3, <1>5 DEF Bounded
    <2>2. cell.sort \in {"list", "set", "dict"}
      BY <1>3
    <2> QED
      BY <1>1, <1>3, <1>4, <2>1, <2>2, EqualCellsShowEqual
  <1>6. CASE model.heap[v.of].sort = "set"
    <2>1. PICK s, b, c : s = model.heap[v.of].members /\ b = model.bound[v.of] /\ c = model.bound[w.of]
      OBVIOUS
    <2>2. b \in Int /\ c \in Int
      BY <1>1, <1>6, <2>1 DEF IsHeap
    <2>3. cell = Start(s, b) /\ other = Start(s, c)
      BY <1>3, <1>6, <2>1 DEF Bounded, Start
    <2>4. /\ WellSorted(Start(s, b)) /\ IsShown(cache, open, o, Start(s, b))
          /\ WellSorted(Start(s, c)) /\ IsShown(cache, open, q, Start(s, c))
      BY <1>3, <1>4, <2>3
    <2>5. b <= c => o.contents \subseteq q.contents
      BY <2>2, <2>4, SharedArrayShows
    <2>6. c <= b => q.contents \subseteq o.contents
      BY <2>2, <2>4, SharedArrayShows
    <2> QED
      BY <1>6, <2>2, <2>5, <2>6
  <1> QED
    BY <1>5, <1>6

LEMMA EqualityIsSeen ==
  ASSUME Shape, Sharing, Faithful, NEW k \in DOMAIN frame, NEW v, v = model.params[k], v # Unassigned,
         NEW p, p = frame[k], NEW j \in DOMAIN frame, NEW w, w = model.params[j], w # Unassigned,
         NEW q, q = frame[j], EqFormula(model.heap, v, w, TypeOf(p), TypeOf(q))
  PROVE  PyEqual(p, q) \/ PyContents(p) = PyContents(q) \/ OneHasTheOther(p, q)
  <1>1. /\ IsValue(v) /\ p = Image(cache, v) /\ model # NoModel
        /\ v.tag = "reference" => /\ v.of \in DOMAIN cache /\ p = Object(cache[v.of])
                                  /\ IsShown(cache, Open, objects[cache[v.of]], Contents(model)[v.of])
        /\ v.tag # "reference" => p = v /\ v.tag \in Builtin
    BY ShownParameter
  <1>2. /\ IsValue(w) /\ q = Image(cache, w)
        /\ w.tag = "reference" => /\ w.of \in DOMAIN cache /\ q = Object(cache[w.of])
                                  /\ IsShown(cache, Open, objects[cache[w.of]], Contents(model)[w.of])
        /\ w.tag # "reference" => q = w /\ w.tag \in Builtin
    BY ShownParameter
  <1>3. /\ TypeOf(p) = IF v.tag # "reference" THEN v.tag
                       ELSE IF IsCell(Contents(model), v, "object") THEN Contents(model)[v.of].class
                       ELSE IF IsTuple(Contents(model)[v.of]) THEN "tuple" ELSE Contents(model)[v.of].sort
        /\ IsCell(Contents(model), v, "object") <=> TypeOf(p) \in Class
    BY TypesAreSeen
  <1>4. /\ TypeOf(q) = IF w.tag # "reference" THEN w.tag
                       ELSE IF IsCell(Contents(model), w, "object") THEN Contents(model)[w.of].class
                       ELSE IF IsTuple(Contents(model)[w.of]) THEN "tuple" ELSE Contents(model)[w.of].sort
        /\ IsCell(Contents(model), w, "object") <=> TypeOf(q) \in Class
    BY TypesAreSeen
  <1>5. Class \cap Builtin = {}
    BY NamesAssumption DEF Builtin
  <1>6. CASE TypeOf(p) = TypeOf(q) /\ TypeOf(p) \in {"list", "tuple", "set", "dict"}
    <2>1. ~IsCell(Contents(model), v, "object") /\ ~IsCell(Contents(model), w, "object")
      BY <1>3, <1>4, <1>5, <1>6 DEF Builtin
    <2>2. v.tag = "reference" /\ w.tag = "reference"
      BY <1>1, <1>2, <1>3, <1>4, <1>6 DEF IsValue
    <2>3. model.heap[v.of] = model.heap[w.of]
      BY <1>6 DEF EqFormula, EqualCells
    <2>4. Contents(model)[v.of].sort \in {"list", "set", "dict"}
      <3>1. Contents(model)[v.of].sort \in {"list", "object", "dict", "set", "array"}
        BY <1>1, <2>2, ShownObject
      <3> QED
        BY <1>3, <1>6, <2>1, <2>2, <3>1 DEF IsTuple
    <2>5. v.of \in Ref /\ IsHeap(model)
      BY <1>1, <2>2 DEF IsValue, Shape, IsModel
    <2>6. model.heap[v.of].sort = Contents(model)[v.of].sort
      BY <2>5, ContentsOfModel
    <2>7. PICK o, e : o = objects[cache[v.of]] /\ e = objects[cache[w.of]]
      OBVIOUS
    <2>8. /\ v.of \in DOMAIN cache /\ IsShown(cache, Open, o, Contents(model)[v.of])
          /\ w.of \in DOMAIN cache /\ IsShown(cache, Open, e, Contents(model)[w.of])
      BY <1>1, <1>2, <2>2, <2>7
    <2>9. \/ o = e
          \/ model.heap[v.of].sort = "set" /\ (o.contents \subseteq e.contents \/ e.contents \subseteq o.contents)
      BY <1>1, <2>3, <2>4, <2>6, <2>7, <2>8, EqualCellsAreSeen
    <2>10. PyContents(p) = o /\ PyContents(q) = e
      BY <1>1, <1>2, <2>2, <2>7, Tags DEF PyContents, Object
    <2>11. model.heap[v.of].sort = "set" => TypeOf(p) = "set" /\ TypeOf(q) = "set"
      BY <1>3, <1>6, <2>1, <2>2, <2>6 DEF IsTuple
    <2> QED
      BY <2>9, <2>10, <2>11 DEF OneHasTheOther
  <1>7. CASE {TypeOf(p), TypeOf(q)} \subseteq {"int", "bool", "float"}
    <2>1. v.of = w.of
      BY <1>7 DEF EqFormula
    <2>2. ~IsCell(Contents(model), v, "object") /\ ~IsCell(Contents(model), w, "object")
      BY <1>3, <1>4, <1>5, <1>7 DEF Builtin
    <2>3. ASSUME v.tag = "reference" PROVE FALSE
      <3>1. Contents(model)[v.of].sort \in {"list", "object", "dict", "set", "array"}
        BY <1>1, <2>3, ShownObject
      <3> QED
        BY <1>3, <1>7, <2>2, <2>3, <3>1
    <2>4. ASSUME w.tag = "reference" PROVE FALSE
      <3>1. Contents(model)[w.of].sort \in {"list", "object", "dict", "set", "array"}
        BY <1>1, <1>2, <2>4, ShownObject
      <3> QED
        BY <1>4, <1>7, <2>2, <2>4, <3>1
    <2>5. p = v /\ q = w /\ {p.tag, q.tag} \subseteq Numeric /\ p.of = q.of
      BY <1>1, <1>2, <1>3, <1>4, <1>7, <2>1, <2>3, <2>4 DEF Numeric
    <2> QED
      BY <2>5 DEF PyEqual
  <1>8. CASE /\ ~(TypeOf(p) = TypeOf(q) /\ TypeOf(p) \in {"list", "tuple", "set", "dict"})
             /\ ~({TypeOf(p), TypeOf(q)} \subseteq {"int", "bool", "float"})
    <2>1. v = w
      BY <1>8 DEF EqFormula
    <2> QED
      BY <1>1, <1>2, <2>1 DEF PyEqual
  <1> QED
    BY <1>6, <1>7, <1>8

(* The formulas that do not look into sets say the same of the heap and of its contents. *)
LEMMA SetsApart ==
  ASSUME NEW m, IsHeap(m), NEW v, IsValue(v)
  PROVE  /\ \A type \in Types : IsInstance(m.heap, v, type) <=> IsInstance(Contents(m), v, type)
         /\ \A f : HasField(m.heap, v, f) <=> HasField(Contents(m), v, f)
         /\ \A name : HasMethod(m.heap, v, name) <=> HasMethod(Contents(m), v, name)
  <1>1. v.tag = "reference" => v.of \in Ref
    BY DEF IsValue
  <1>2. ASSUME v.tag = "reference"
        PROVE  /\ m.heap[v.of].sort = Contents(m)[v.of].sort
               /\ m.heap[v.of].sort # "set" => m.heap[v.of] = Contents(m)[v.of]
    BY <1>1, <1>2, ContentsOfModel
  <1>3. \A sort : IsCell(m.heap, v, sort) <=> IsCell(Contents(m), v, sort)
    BY <1>2 DEF IsCell
  <1>4. \A mutable : ListTest(m.heap, v, mutable) <=> ListTest(Contents(m), v, mutable)
    BY <1>2 DEF ListTest, IsCell
  <1>5. IsCell(m.heap, v, "object") => m.heap[v.of] = Contents(m)[v.of]
    BY <1>2 DEF IsCell
  <1>6. \A type \in Types : IsInstance(m.heap, v, type) <=> IsInstance(Contents(m), v, type)
    <2> SUFFICES ASSUME NEW type \in Types
                 PROVE  IsInstance(m.heap, v, type) <=> IsInstance(Contents(m), v, type)
      OBVIOUS
    <2>1. CASE type \in Class
      BY <1>3, <1>5, <2>1, NamesAssumption DEF IsInstance
    <2>2. CASE type = "list"
      BY <1>4, <2>2, NamesAssumption DEF IsInstance
    <2>3. CASE type = "tuple"
      BY <1>4, <2>3, NamesAssumption DEF IsInstance
    <2>4. CASE type \in {"dict", "set"}
      BY <1>3, <2>4, NamesAssumption DEF IsInstance
    <2>5. CASE type \in {"int", "bool", "float", "none"}
      BY <2>5, NamesAssumption DEF IsInstance
    <2> QED
      BY <2>1, <2>2, <2>3, <2>4, <2>5 DEF Types
  <1>7. \A f : HasField(m.heap, v, f) <=> HasField(Contents(m), v, f)
    BY <1>3, <1>5, Zenon DEF HasField
  <1>8. \A name : HasMethod(m.heap, v, name) <=> HasMethod(Contents(m), v, name)
    BY <1>3, <1>5, Zenon DEF HasMethod
  <1> QED
    BY <1>6, <1>7, <1>8

LEMMA SharingShowsValues == Shape /\ Sharing => FormulasSeeTheValues
  <1> SUFFICES ASSUME Shape, Sharing, Faithful, NEW k \in DOMAIN frame, NEW v, v = model.params[k], v # Unassigned
               PROVE  /\ \A type \in Types : IsInstance(model.heap, v, type) <=> PyIsInstance(frame[k], type)
                      /\ \A f \in Field \ AllMethods : HasField(model.heap, v, f) <=> PyHasAttr(frame[k], f)
                      /\ \A m \in AllMethods \ Field : HasMethod(model.heap, v, m) <=> PyHasAttr(frame[k], m)
                      /\ \A j \in DOMAIN frame : LET w == model.params[j] IN
                           w # Unassigned /\ EqFormula(model.heap, v, w, TypeOf(frame[k]), TypeOf(frame[j])) =>
                             \/ PyEqual(frame[k], frame[j])
                             \/ PyContents(frame[k]) = PyContents(frame[j])
                             \/ OneHasTheOther(frame[k], frame[j])
    BY DEF FormulasSeeTheValues
  <1>1. \A type \in Types : IsInstance(Contents(model), v, type) <=> PyIsInstance(frame[k], type)
    BY TypesAreSeen
  <1>2. ASSUME NEW name PROVE PyHasAttr(frame[k], name) <=> HasField(Contents(model), v, name) \/ HasMethod(Contents(model), v, name)
    BY AttributesAreSeen
  <1>3. \A f \in Field \ AllMethods : ~HasMethod(Contents(model), v, f)
    BY DEF HasMethod, AllMethods
  <1>4. ASSUME NEW m \in AllMethods \ Field PROVE ~HasField(Contents(model), v, m)
    <2>1. SUFFICES ASSUME HasField(Contents(model), v, m) PROVE FALSE
      OBVIOUS
    <2>2. /\ v.tag = "reference" /\ Contents(model)[v.of].sort = "object" /\ m \in DOMAIN Contents(model)[v.of].fields
      BY <2>1 DEF HasField, IsCell
    <2>3. model # NoModel /\ v.of \in DOMAIN cache /\ IsShown(cache, Open, objects[cache[v.of]], Contents(model)[v.of])
      BY <2>2, ShownParameter
    <2>4. DOMAIN Contents(model)[v.of].fields \subseteq Field
      BY <2>2, <2>3, ShownObject
    <2> QED
      BY <1>4, <2>2, <2>4
  <1>5. ASSUME NEW j \in DOMAIN frame, NEW w, w = model.params[j],
               w # Unassigned /\ EqFormula(model.heap, v, w, TypeOf(frame[k]), TypeOf(frame[j]))
        PROVE  \/ PyEqual(frame[k], frame[j])
               \/ PyContents(frame[k]) = PyContents(frame[j])
               \/ OneHasTheOther(frame[k], frame[j])
    BY <1>5, EqualityIsSeen
  <1>6. IsValue(v) /\ IsHeap(model)
    BY ShownParameter DEF Shape, IsModel
  <1>7. /\ \A type \in Types : IsInstance(model.heap, v, type) <=> IsInstance(Contents(model), v, type)
        /\ \A f : HasField(model.heap, v, f) <=> HasField(Contents(model), v, f)
        /\ \A name : HasMethod(model.heap, v, name) <=> HasMethod(Contents(model), v, name)
    BY <1>6, SetsApart
  <1> QED
    BY <1>1, <1>2, <1>3, <1>4, <1>5, <1>7

(* On every converted frame, isinstance and hasattr of the parameters answer *)
(* what the formulas recorded for them say of the model, and parameters the  *)
(* formula of == claims to be equal are one object, equal numbers or have    *)
(* equal contents; of two sets, whose sizes the formula leaves out, one has  *)
(* all members of the other.  For any classes with any inheritance, fields,  *)
(* methods, models and bounds of sets.                                       *)
THEOREM FormulasDescribeTheFrame == Spec => []FormulasSeeTheValues
  BY ShapeAlways, InitFresh, NextFresh, InitSharing, NextSharing, SharingShowsValues, PTL DEF Spec

----------------------------------------------------------------------------
(* Symbolic objects.                                                       *)

\* SymbolicValues: their formulas have values, their mutations are SymbolicValues.
IsPool(pool, inputs) ==
  /\ IsSequence(pool)
  /\ \A s \in 1 .. Len(pool) :
       /\ pool[s] = [at |-> pool[s].at, mutations |-> pool[s].mutations]
       /\ \A f \in DOMAIN pool[s].mutations : pool[s].mutations[f] \in 1 .. Len(pool)
       /\ \A i \in inputs : IsValue(pool[s].at[i])

\* An attribute of a cell was assigned through a SymbolicValue.
Writes(pool, s, f, r, i) ==
  s \in 1 .. Len(pool) /\ f \in DOMAIN pool[s].mutations /\ pool[s].at[i] = AnyRef(r)
Unwritten(pool, f, r, i) == \A s : ~Writes(pool, s, f, r, i)
WrittenOnce(pool, s, f, r, i) == Writes(pool, s, f, r, i) /\ \A q : Writes(pool, q, f, r, i) => q = s

SameField(fields, others, f) ==
  /\ f \in DOMAIN fields <=> f \in DOMAIN others
  /\ f \in DOMAIN others => fields[f] = others[f]

\* Python's heap is the input's, but for the attributes that were assigned; one
\* assigned through one SymbolicValue is what its mutations say.
IsHeapOf(pool, i, heap) ==
  /\ DOMAIN heap = Ref
  /\ \A r \in Ref :
       /\ heap[r].sort = i.heap[r].sort
       /\ i.heap[r].sort = "object" =>
            /\ heap[r] = ObjectCell(i.heap[r].class, heap[r].fields)
            /\ \A f : Unwritten(pool, f, r, i) => SameField(heap[r].fields, i.heap[r].fields, f)
            /\ \A f, s : WrittenOnce(pool, s, f, r, i) =>
                 /\ f \in DOMAIN heap[r].fields
                 /\ heap[r].fields[f] = pool[pool[s].mutations[f]].at[i]

IsVariable(v, pool, inputs) ==
  v.sv \in 1 .. Len(pool) /\ \A i \in inputs : v.python[i] = pool[v.sv].at[i]

Agree(pool, variables, heaps, inputs) ==
  /\ IsPool(pool, inputs) /\ IsSequence(variables)
  /\ \A x \in 1 .. Len(variables) : IsVariable(variables[x], pool, inputs)
  /\ \A i \in inputs : IsHeapOf(pool, i, heaps[i])

AsInPython ==
  /\ raised \in BOOLEAN
  /\ ~aliased /\ ~dispatched =>
       /\ run \in taken /\ taken \subseteq ObjectInput
       /\ pyRaised = IF raised THEN taken ELSE {}
       /\ ~raised => Agree(symbolics, locals, plainHeap, taken)

LEMMA InitAsInPython == ObjectInit => AsInPython
  <1> SUFFICES ASSUME ObjectInit PROVE AsInPython
    OBVIOUS
  <1> DEFINE at(k) == [i \in ObjectInput |-> i.params[k]]
             n == Len(run.params)
  <1>1. n \in Nat /\ DOMAIN run.params = 1 .. n /\ run \in ObjectInput
    BY ObjectInputAssumption, SequenceShape DEF ObjectInit, AreValues
  <1>2. /\ symbolics = [k \in 1 .. n |-> [at |-> at(k), mutations |-> NoMutations]]
        /\ locals = [k \in 1 .. n |-> [sv |-> k, python |-> at(k)]]
        /\ plainHeap = [i \in ObjectInput |-> i.heap] /\ taken = ObjectInput
        /\ raised = FALSE /\ pyRaised = {}
    BY <1>1 DEF ObjectInit, Symbolic
  <1>3. \A i \in ObjectInput, k \in 1 .. n : IsValue(i.params[k])
    BY <1>1, ObjectInputAssumption DEF AreValues, Elements
  <1>4. IsSequence(symbolics) /\ Len(symbolics) = n /\ IsSequence(locals) /\ Len(locals) = n
    BY <1>1, <1>2, FunctionIsSequence
  <1>5. IsPool(symbolics, taken)
    BY <1>2, <1>3, <1>4 DEF IsPool, NoMutations
  <1>6. \A x \in 1 .. n : IsVariable(locals[x], symbolics, taken)
    BY <1>2, <1>4 DEF IsVariable
  <1>7. ASSUME NEW i \in ObjectInput PROVE IsHeapOf(symbolics, i, i.heap)
    <2>1. \A f, r, s : ~Writes(symbolics, s, f, r, i)
      BY <1>2, <1>4 DEF Writes, NoMutations
    <2>2. DOMAIN i.heap = Ref /\ \A r \in Ref : WellSorted(i.heap[r])
      BY ObjectInputAssumption
    <2>3. \A r \in Ref : i.heap[r].sort = "object" => i.heap[r] = ObjectCell(i.heap[r].class, i.heap[r].fields)
      BY <2>2 DEF WellSorted
    <2> QED
      BY <2>1, <2>2, <2>3 DEF IsHeapOf, SameField, WrittenOnce
  <1> QED
    BY <1>1, <1>2, <1>4, <1>5, <1>6, <1>7 DEF AsInPython, Agree

(* Fewer inputs. *)
LEMMA AgreeOnFewer ==
  ASSUME NEW pool, NEW variables, NEW heaps, NEW inputs, NEW fewer \in SUBSET inputs,
         Agree(pool, variables, heaps, inputs)
  PROVE  Agree(pool, variables, heaps, fewer)
  BY DEF Agree, IsPool, IsVariable

(* What a variable holds on an input of the path. *)
LEMMA VariableHolds ==
  ASSUME Agree(symbolics, locals, plainHeap, taken), taken \subseteq ObjectInput,
         NEW x \in DOMAIN locals, NEW i \in taken
  PROVE  /\ InPython(x, i) = Formula(x)[i] /\ IsValue(Formula(x)[i])
         /\ locals[x].sv \in 1 .. Len(symbolics)
         /\ IsHeapOf(symbolics, i, plainHeap[i])
         /\ IsObject(x, i) <=> PyIsObject(x, i)
         /\ IsObject(x, i) => /\ Formula(x)[i].of \in Ref /\ Formula(x)[i] = AnyRef(Formula(x)[i].of)
                              /\ i.heap[Formula(x)[i].of].sort = "object"
  <1>1. x \in 1 .. Len(locals)
    BY SequenceShape DEF Agree
  <1>2. locals[x].sv \in 1 .. Len(symbolics) /\ locals[x].python[i] = symbolics[locals[x].sv].at[i]
    BY <1>1 DEF Agree, IsVariable
  <1>3. InPython(x, i) = Formula(x)[i]
    BY <1>2 DEF InPython, Formula
  <1>4. IsValue(Formula(x)[i])
    BY <1>2 DEF Formula, Agree, IsPool
  <1>5. IsHeapOf(symbolics, i, plainHeap[i])
    BY DEF Agree
  <1>6. PICK v : v = Formula(x)[i]
    OBVIOUS
  <1>7. v.tag = "reference" => v.of \in Ref /\ v = AnyRef(v.of) /\ plainHeap[i][v.of].sort = i.heap[v.of].sort
    BY <1>4, <1>5, <1>6 DEF IsValue, AnyRef, IsHeapOf
  <1> QED
    BY <1>2, <1>3, <1>4, <1>5, <1>6, <1>7 DEF IsObject, PyIsObject, IsCell

(* What a read finds where no other SymbolicValue was assigned to. *)
LEMMA AttributeFound ==
  ASSUME Agree(symbolics, locals, plainHeap, taken), taken \subseteq ObjectInput,
         NEW x \in DOMAIN locals, NEW inputs \in SUBSET taken, NEW i \in inputs, IsObject(x, i),
         NEW f, ~WrittenElsewhere(x, f, inputs)
  PROVE  /\ Mutated(x, f) => /\ ~PyLacks(x, f, i) /\ Mutations(x)[f] \in 1 .. Len(symbolics)
                             /\ PyCell(x, i).fields[f] = symbolics[Mutations(x)[f]].at[i]
         /\ ~Mutated(x, f) =>
              /\ PyLacks(x, f, i) <=> ~HasField(i.heap, Formula(x)[i], f)
              /\ ~PyLacks(x, f, i) => PyCell(x, i).fields[f] = i.heap[Formula(x)[i].of].fields[f]
  <1> DEFINE s == locals[x].sv
             r == Formula(x)[i].of
  <1>1. /\ InPython(x, i) = Formula(x)[i] /\ s \in 1 .. Len(symbolics) /\ IsHeapOf(symbolics, i, plainHeap[i])
        /\ PyIsObject(x, i) /\ r \in Ref /\ Formula(x)[i] = AnyRef(r) /\ i.heap[r].sort = "object"
    BY VariableHolds
  <1>2. PyCell(x, i) = plainHeap[i][r] /\ symbolics[s].at[i] = AnyRef(r)
    BY <1>1 DEF PyCell, Formula
  <1>3. \A q : Writes(symbolics, q, f, r, i) => q = s
    <2>1. DOMAIN symbolics = 1 .. Len(symbolics)
      BY SequenceShape DEF Agree, IsPool
    <2> QED
      BY <1>1, <2>1 DEF WrittenElsewhere, Writes
  <1>4. Mutated(x, f) <=> f \in DOMAIN symbolics[s].mutations
    BY DEF Mutated, Mutations
  <1>5. PyLacks(x, f, i) <=> f \notin DOMAIN plainHeap[i][r].fields
    BY <1>1, <1>2 DEF PyLacks
  <1>6. ASSUME Mutated(x, f)
        PROVE  /\ ~PyLacks(x, f, i) /\ Mutations(x)[f] \in 1 .. Len(symbolics)
               /\ PyCell(x, i).fields[f] = symbolics[Mutations(x)[f]].at[i]
    <2>1. WrittenOnce(symbolics, s, f, r, i)
      BY <1>1, <1>2, <1>3, <1>4, <1>6 DEF WrittenOnce, Writes
    <2>2. /\ f \in DOMAIN plainHeap[i][r].fields
          /\ plainHeap[i][r].fields[f] = symbolics[symbolics[s].mutations[f]].at[i]
      BY <1>1, <2>1 DEF IsHeapOf
    <2>3. Mutations(x)[f] = symbolics[s].mutations[f] /\ Mutations(x)[f] \in 1 .. Len(symbolics)
      BY <1>1, <1>4, <1>6 DEF Mutations, Agree, IsPool
    <2> QED
      BY <1>2, <1>5, <2>2, <2>3
  <1>7. ASSUME ~Mutated(x, f)
        PROVE  /\ PyLacks(x, f, i) <=> ~HasField(i.heap, Formula(x)[i], f)
               /\ ~PyLacks(x, f, i) => PyCell(x, i).fields[f] = i.heap[Formula(x)[i].of].fields[f]
    <2>1. Unwritten(symbolics, f, r, i)
      BY <1>3, <1>4, <1>7 DEF Unwritten, Writes
    <2>2. SameField(plainHeap[i][r].fields, i.heap[r].fields, f)
      BY <1>1, <2>1 DEF IsHeapOf
    <2>3. HasField(i.heap, Formula(x)[i], f) <=> f \in DOMAIN i.heap[r].fields
      BY DEF HasField, IsObject
    <2> QED
      BY <1>2, <1>5, <2>2, <2>3 DEF SameField
  <1> QED
    BY <1>6, <1>7

(* Before an operation. *)
LEMMA Operating ==
  ASSUME AsInPython, NEW x, Operates(x)
  PROVE  /\ Agree(symbolics, locals, plainHeap, taken) /\ run \in taken /\ taken \subseteq ObjectInput
         /\ x \in DOMAIN locals /\ run' = run /\ raised = FALSE /\ pyRaised = {}
         /\ ~aliased /\ ~dispatched
  BY DEF Operates, AsInPython

\* The inputs of the path on which the variable holds an object.
Holding(x) == Sides(taken, LAMBDA i : IsObject(x, i))

LEMMA HoldingInputs ==
  ASSUME NEW x, run \in taken, IsObject(x, run)
  PROVE  run \in Holding(x) /\ Holding(x) \subseteq taken /\ \A i \in Holding(x) : IsObject(x, i)
  BY DEF Holding, Sides, IsObject, IsCell

LEMMA NotAnObjectIsPythons == AsInPython /\ (\E x : NotAnObject(x)) => AsInPython'
  <1> SUFFICES ASSUME AsInPython, NEW x, NotAnObject(x) PROVE AsInPython'
    OBVIOUS
  <1>1. /\ Agree(symbolics, locals, plainHeap, taken) /\ run \in taken /\ taken \subseteq ObjectInput
        /\ x \in DOMAIN locals /\ run' = run /\ ~IsObject(x, run)
    BY Operating DEF NotAnObject
  <1>2. run \in taken' /\ taken' \subseteq taken /\ \A i \in taken' : ~IsObject(x, i)
    BY <1>1 DEF NotAnObject, Sides, IsObject, IsCell
  <1>3. pyRaised' = taken' /\ raised' = TRUE
    BY <1>1, <1>2, VariableHolds DEF NotAnObject
  <1> QED
    BY <1>1, <1>2, <1>3 DEF AsInPython

LEMMA ReadMutationIsPythons == AsInPython /\ (\E x, f : ReadMutation(x, f)) => AsInPython'
  <1> SUFFICES ASSUME AsInPython, NEW x, NEW f, ReadMutation(x, f), ~aliased' PROVE AsInPython'
    BY DEF ReadMutation, AsInPython
  <1>1. /\ Agree(symbolics, locals, plainHeap, taken) /\ run \in taken /\ taken \subseteq ObjectInput
        /\ x \in DOMAIN locals /\ run' = run /\ IsObject(x, run) /\ Mutated(x, f)
        /\ taken' = Holding(x) /\ ~WrittenElsewhere(x, f, taken')
        /\ UNCHANGED <<symbolics, plainHeap, raised>> /\ raised = FALSE
    BY Operating DEF ReadMutation, Holding
  <1>2. run \in taken' /\ taken' \subseteq taken /\ \A i \in taken' : IsObject(x, i)
    BY <1>1, HoldingInputs
  <1>3. \A i \in taken' : /\ ~PyLacks(x, f, i) /\ Mutations(x)[f] \in 1 .. Len(symbolics)
                          /\ PyCell(x, i).fields[f] = symbolics[Mutations(x)[f]].at[i]
    BY <1>1, <1>2, AttributeFound
  <1>4. pyRaised' = {}
    BY <1>3 DEF ReadMutation
  <1> DEFINE new == [sv |-> Mutations(x)[f], python |-> [i \in taken' \ pyRaised' |-> PyCell(x, i).fields[f]]]
  <1>5. locals' = Append(locals, new)
    BY DEF ReadMutation, Hold
  <1>6. IsVariable(new, symbolics, taken')
    BY <1>2, <1>3, <1>4 DEF IsVariable
  <1>7. Agree(symbolics, locals, plainHeap, taken')
    BY <1>1, <1>2, AgreeOnFewer
  <1> HIDE DEF new
  <1>8. Agree(symbolics, locals', plainHeap, taken')
    BY <1>5, <1>6, <1>7, Appended DEF Agree
  <1> QED
    BY <1>1, <1>2, <1>4, <1>8 DEF AsInPython

(* A SymbolicValue without mutations changes nothing for the others. *)
LEMMA SymbolicAdded ==
  ASSUME NEW pool, NEW variables, NEW heaps, NEW inputs, Agree(pool, variables, heaps, inputs),
         NEW at, \A i \in inputs : IsValue(at[i]),
         NEW pool2, pool2 = Append(pool, Symbolic(at))
  PROVE  Agree(pool2, variables, heaps, inputs)
  <1>1. IsPool(pool, inputs) /\ IsSequence(pool) /\ Len(pool) \in Nat
    BY SequenceShape DEF Agree, IsPool
  <1>2. /\ IsSequence(pool2) /\ Len(pool2) = Len(pool) + 1
        /\ \A s \in 1 .. Len(pool) : pool2[s] = pool[s]
        /\ pool2[Len(pool) + 1] = Symbolic(at)
    BY <1>1, Appended
  <1>3. /\ pool2[Len(pool) + 1].at = at /\ DOMAIN pool2[Len(pool) + 1].mutations = {}
        /\ pool2[Len(pool) + 1] = [at |-> pool2[Len(pool) + 1].at, mutations |-> pool2[Len(pool) + 1].mutations]
    BY <1>2 DEF Symbolic, NoMutations
  <1>4. \A s \in 1 .. Len(pool2) : s \in 1 .. Len(pool) \/ s = Len(pool) + 1
    BY <1>1, <1>2
  <1>5. \A s \in 1 .. Len(pool) : s \in 1 .. Len(pool2)
    BY <1>1, <1>2
  <1>6. IsPool(pool2, inputs)
    BY <1>1, <1>2, <1>3, <1>4, <1>5 DEF IsPool
  <1>7. \A x \in 1 .. Len(variables) : IsVariable(variables[x], pool2, inputs)
    BY <1>2, <1>5 DEF Agree, IsVariable
  <1>8. \A s, f, r, i : Writes(pool2, s, f, r, i) <=> Writes(pool, s, f, r, i)
    BY <1>2, <1>3, <1>4, <1>5 DEF Writes
  <1>9. ASSUME NEW i \in inputs PROVE IsHeapOf(pool2, i, heaps[i])
    <2>1. IsHeapOf(pool, i, heaps[i])
      BY DEF Agree
    <2>2. \A f, r : Unwritten(pool2, f, r, i) <=> Unwritten(pool, f, r, i)
      BY <1>8 DEF Unwritten
    <2>3. \A s, f, r : WrittenOnce(pool2, s, f, r, i) <=> WrittenOnce(pool, s, f, r, i)
      BY <1>8 DEF WrittenOnce
    <2>4. \A s, f, r : WrittenOnce(pool, s, f, r, i) =>
            pool2[pool2[s].mutations[f]].at[i] = pool[pool[s].mutations[f]].at[i]
      BY <1>1, <1>2 DEF WrittenOnce, Writes, IsPool
    <2>5. ASSUME NEW r \in Ref, i.heap[r].sort = "object"
          PROVE  /\ \A f : Unwritten(pool2, f, r, i) => SameField(heaps[i][r].fields, i.heap[r].fields, f)
                 /\ \A f, s : WrittenOnce(pool2, s, f, r, i) =>
                      /\ f \in DOMAIN heaps[i][r].fields
                      /\ heaps[i][r].fields[f] = pool2[pool2[s].mutations[f]].at[i]
      <3>1. \A f : Unwritten(pool2, f, r, i) => SameField(heaps[i][r].fields, i.heap[r].fields, f)
        BY <2>1, <2>2, <2>5 DEF IsHeapOf
      <3>2. \A f, s : WrittenOnce(pool, s, f, r, i) =>
              f \in DOMAIN heaps[i][r].fields /\ heaps[i][r].fields[f] = pool[pool[s].mutations[f]].at[i]
        BY <2>1, <2>5 DEF IsHeapOf
      <3> QED
        BY <2>3, <2>4, <3>1, <3>2
    <2> QED
      BY <2>1, <2>5 DEF IsHeapOf
  <1> QED
    BY <1>1, <1>2, <1>3, <1>6, <1>7, <1>9 DEF Agree

LEMMA ReadFieldIsPythons == AsInPython /\ (\E x, f : ReadField(x, f)) => AsInPython'
  <1> SUFFICES ASSUME AsInPython, NEW x, NEW f, ReadField(x, f), ~aliased' PROVE AsInPython'
    BY Operating DEF ReadField, AsInPython
  <1> DEFINE has(i) == HasField(i.heap, Formula(x)[i], f)
             value == [i \in taken' |-> i.heap[Formula(x)[i].of].fields[f]]
  <1>1. /\ Agree(symbolics, locals, plainHeap, taken) /\ run \in taken /\ taken \subseteq ObjectInput
        /\ x \in DOMAIN locals /\ run' = run /\ IsObject(x, run) /\ ~Mutated(x, f)
        /\ ~WrittenElsewhere(x, f, taken') /\ UNCHANGED <<plainHeap, dispatched>>
        /\ raised = FALSE /\ ~dispatched
        /\ pyRaised' = {i \in taken' : PyLacks(x, f, i)}
    BY Operating DEF ReadField
  <1>2. run \in Holding(x) /\ Holding(x) \subseteq taken /\ \A i \in Holding(x) : IsObject(x, i)
    BY <1>1, HoldingInputs
  <1>3. taken' = {i \in Holding(x) : has(i) = has(run)}
    BY DEF ReadField, Holding, Sides
  <1>4. run \in taken' /\ taken' \subseteq taken /\ \A i \in taken' : IsObject(x, i) /\ (has(i) <=> has(run))
    BY <1>2, <1>3
  <1>5. \A i \in taken' : /\ PyLacks(x, f, i) <=> ~has(i)
                          /\ ~PyLacks(x, f, i) => PyCell(x, i).fields[f] = i.heap[Formula(x)[i].of].fields[f]
    BY <1>1, <1>4, AttributeFound
  <1>6. CASE has(run)
    <2>1. /\ symbolics' = Append(symbolics, Symbolic(value)) /\ Hold(Len(symbolics) + 1, x, f)
          /\ raised' = raised
      BY <1>6 DEF ReadField
    <2>2. pyRaised' = {} /\ \A i \in taken' : PyCell(x, i).fields[f] = value[i]
      BY <1>1, <1>4, <1>5, <1>6
    <2>3. \A i \in taken' : IsValue(value[i])
      <3>1. SUFFICES ASSUME NEW i \in taken' PROVE IsValue(i.heap[Formula(x)[i].of].fields[f])
        OBVIOUS
      <3>2. Formula(x)[i].of \in Ref /\ i.heap[Formula(x)[i].of].sort = "object"
        BY <1>1, <1>4, VariableHolds
      <3>3. f \in DOMAIN i.heap[Formula(x)[i].of].fields
        BY <1>4, <1>6 DEF HasField
      <3>4. WellSorted(i.heap[Formula(x)[i].of])
        BY <1>1, <1>4, <3>2, ObjectInputAssumption
      <3> QED
        BY <3>2, <3>3, <3>4 DEF WellSorted
    <2> DEFINE new == [sv |-> Len(symbolics) + 1,
                       python |-> [i \in taken' \ pyRaised' |-> PyCell(x, i).fields[f]]]
    <2>4. locals' = Append(locals, new)
      BY <2>1 DEF Hold
    <2>5. Agree(symbolics, locals, plainHeap, taken')
      BY <1>1, <1>4, AgreeOnFewer
    <2> HIDE DEF value
    <2>6. /\ Agree(symbolics', locals, plainHeap, taken') /\ Len(symbolics') = Len(symbolics) + 1
          /\ Len(symbolics) \in Nat /\ symbolics'[Len(symbolics) + 1].at = value
      <3>1. PICK pool : pool = symbolics'
        OBVIOUS
      <3>2. PICK at : at = value
        OBVIOUS
      <3>3. pool = Append(symbolics, Symbolic(at)) /\ \A i \in taken' : IsValue(at[i])
        BY <2>1, <2>3, <3>1, <3>2
      <3>4. Agree(pool, locals, plainHeap, taken')
        BY <2>5, <3>3, SymbolicAdded
      <3>5. IsSequence(symbolics)
        BY <2>5 DEF Agree, IsPool
      <3>6. Len(pool) = Len(symbolics) + 1 /\ Len(symbolics) \in Nat /\ pool[Len(symbolics) + 1] = Symbolic(at)
        BY <3>3, <3>5, Appended, SequenceShape
      <3> QED
        BY <3>1, <3>2, <3>4, <3>6 DEF Symbolic
    <2>7. IsVariable(new, symbolics', taken')
      BY <2>2, <2>6 DEF IsVariable
    <2> HIDE DEF new
    <2>8. Agree(symbolics', locals', plainHeap, taken')
      BY <2>4, <2>6, <2>7, Appended DEF Agree
    <2> QED
      BY <1>1, <1>4, <2>1, <2>2, <2>8 DEF AsInPython
  <1>7. CASE ~has(run)
    <2>1. raised' = TRUE
      BY <1>7 DEF ReadField
    <2>2. pyRaised' = taken'
      BY <1>1, <1>4, <1>5, <1>7
    <2> QED
      BY <1>1, <1>4, <2>1, <2>2 DEF AsInPython
  <1> QED
    BY <1>6, <1>7

LEMMA LookUpMethodIsPythons == AsInPython /\ (\E x, m : LookUpMethod(x, m)) => AsInPython'
  <1> SUFFICES ASSUME AsInPython, NEW x, NEW m, LookUpMethod(x, m), ~dispatched' PROVE AsInPython'
    BY DEF LookUpMethod, AsInPython, HasMethod, IsCell
  <1> DEFINE has(i) == HasMethod(i.heap, Formula(x)[i], m)
  <1>1. /\ Agree(symbolics, locals, plainHeap, taken) /\ run \in taken /\ taken \subseteq ObjectInput
        /\ x \in DOMAIN locals /\ run' = run /\ IsObject(x, run)
        /\ UNCHANGED <<symbolics, locals, plainHeap, aliased>> /\ raised = FALSE /\ ~aliased
    BY Operating DEF LookUpMethod
  <1>2. run \in Holding(x) /\ Holding(x) \subseteq taken /\ \A i \in Holding(x) : IsObject(x, i)
    BY <1>1, HoldingInputs
  <1>3. /\ taken' = IF has(run) THEN Holding(x) ELSE {i \in Holding(x) : has(i) = has(run)}
        /\ raised' = ~has(run)
        /\ pyRaised' = {i \in taken' : ~HasMethod(plainHeap[i], InPython(x, i), m)}
        /\ dispatched' = \E i \in taken' : has(i) # has(run)
    BY DEF LookUpMethod, Holding, Sides
  <1>4. \A i \in taken' : has(i) <=> has(run)
    BY <1>3 DEF HasMethod
  <1>5. run \in taken' /\ taken' \subseteq taken /\ \A i \in taken' : IsObject(x, i)
    BY <1>2, <1>3
  <1>6. ASSUME NEW i \in taken' PROVE HasMethod(plainHeap[i], InPython(x, i), m) <=> has(i)
    <2>1. PICK v : v = Formula(x)[i]
      OBVIOUS
    <2>2. /\ InPython(x, i) = v /\ IsHeapOf(symbolics, i, plainHeap[i]) /\ PyIsObject(x, i)
          /\ v.of \in Ref /\ i.heap[v.of].sort = "object"
      BY <1>1, <1>5, <2>1, VariableHolds
    <2>3. plainHeap[i][v.of].class = i.heap[v.of].class
      <3>1. plainHeap[i][v.of] = ObjectCell(i.heap[v.of].class, plainHeap[i][v.of].fields)
        BY <2>2 DEF IsHeapOf
      <3>2. \A class, fields : ObjectCell(class, fields).class = class
        BY DEF ObjectCell
      <3> QED
        BY <3>1, <3>2, Zenon
    <2> QED
      BY <1>5, <2>1, <2>2, <2>3 DEF HasMethod, PyIsObject, IsObject
  <1>7. pyRaised' = IF raised' THEN taken' ELSE {}
    BY <1>3, <1>4, <1>6
  <1>8. Agree(symbolics, locals, plainHeap, taken')
    BY <1>1, <1>5, AgreeOnFewer
  <1>9. raised' \in BOOLEAN
    BY <1>3 DEF HasMethod
  <1> QED
    BY <1>1, <1>5, <1>7, <1>8, <1>9 DEF AsInPython

\* One assignment, recorded in a SymbolicValue and made in Python's heap.
Recorded(pool, s, f, y) ==
  [pool EXCEPT ![s].mutations = [g \in DOMAIN @ \cup {f} |-> IF g = f THEN y ELSE @[g]]]
Made(heap, r, f, value) ==
  [heap EXCEPT ![r].fields = [g \in DOMAIN @ \cup {f} |-> IF g = f THEN value ELSE @[g]]]

LEMMA RecordedPool ==
  ASSUME NEW pool, NEW inputs, IsPool(pool, inputs), NEW s \in 1 .. Len(pool), NEW f,
         NEW y \in 1 .. Len(pool), NEW pool2, pool2 = Recorded(pool, s, f, y)
  PROVE  /\ IsPool(pool2, inputs) /\ Len(pool2) = Len(pool)
         /\ \A q \in 1 .. Len(pool) : pool2[q].at = pool[q].at
         /\ \A q \in 1 .. Len(pool) : q # s => pool2[q].mutations = pool[q].mutations
         /\ DOMAIN pool2[s].mutations = DOMAIN pool[s].mutations \cup {f}
         /\ pool2[s].mutations[f] = y
         /\ \A g \in DOMAIN pool[s].mutations : g # f => pool2[s].mutations[g] = pool[s].mutations[g]
  <1> DEFINE old == pool[s].mutations
             mutations == WithField(old, f, y)
             new == [at |-> pool[s].at, mutations |-> mutations]
  <1>1. IsSequence(pool) /\ DOMAIN pool = 1 .. Len(pool)
    BY SequenceShape DEF IsPool
  <1>2. \A q \in 1 .. Len(pool) : /\ pool[q] = [at |-> pool[q].at, mutations |-> pool[q].mutations]
                                  /\ \A i \in inputs : IsValue(pool[q].at[i])
                                  /\ \A g \in DOMAIN pool[q].mutations : pool[q].mutations[g] \in 1 .. Len(pool)
    BY DEF IsPool
  <1>3. pool2 = [pool EXCEPT ![s] = new]
    <2>1. PICK cell : cell = pool[s]
      OBVIOUS
    <2>2. cell = [at |-> cell.at, mutations |-> cell.mutations]
      BY <1>2, <2>1, Zenon
    <2>3. \A m : [cell EXCEPT !.mutations = m] = [at |-> cell.at, mutations |-> m]
      BY <2>2
    <2>4. pool2 = [pool EXCEPT ![s] = [cell EXCEPT !.mutations = WithField(cell.mutations, f, y)]]
      BY <2>1 DEF Recorded, WithField
    <2> QED
      BY <2>1, <2>3, <2>4
  <1>4. DOMAIN mutations = DOMAIN old \cup {f} /\ mutations[f] = y
        /\ \A g \in DOMAIN old : g # f => mutations[g] = old[g]
    BY DEF WithField
  <1>5. new.at = pool[s].at /\ new.mutations = mutations
        /\ new = [at |-> new.at, mutations |-> new.mutations]
    OBVIOUS
  <1> HIDE DEF new, mutations, old
  <1>6. /\ IsSequence(pool2) /\ Len(pool2) = Len(pool)
        /\ \A q \in 1 .. Len(pool) : pool2[q] = IF q = s THEN new ELSE pool[q]
    <2>1. s \in DOMAIN pool
      BY <1>1
    <2>2. /\ IsSequence([pool EXCEPT ![s] = new]) /\ Len([pool EXCEPT ![s] = new]) = Len(pool)
          /\ \A q \in DOMAIN pool : [pool EXCEPT ![s] = new][q] = IF q = s THEN new ELSE pool[q]
      BY <1>1, <2>1, Replaced, Zenon
    <2> QED
      BY <1>1, <1>3, <2>2, Zenon
  <1>7. ASSUME NEW g \in DOMAIN mutations PROVE mutations[g] \in 1 .. Len(pool)
    <2>1. \A h \in DOMAIN old : old[h] \in 1 .. Len(pool)
      BY <1>2 DEF old
    <2> QED
      BY <1>4, <1>7, <2>1
  <1>8. IsPool(pool2, inputs)
    <2>1. ASSUME NEW q \in 1 .. Len(pool)
          PROVE  /\ pool2[q] = [at |-> pool2[q].at, mutations |-> pool2[q].mutations]
                 /\ \A g \in DOMAIN pool2[q].mutations : pool2[q].mutations[g] \in 1 .. Len(pool)
                 /\ \A i \in inputs : IsValue(pool2[q].at[i])
      <3>1. CASE q = s
        BY <1>2, <1>5, <1>6, <1>7, <3>1, Zenon
      <3>2. CASE q # s
        BY <1>2, <1>6, <3>2, Zenon
      <3> QED
        BY <3>1, <3>2
    <2> QED
      BY <1>6, <2>1 DEF IsPool
  <1> QED
    BY <1>4, <1>5, <1>6, <1>8 DEF old

(* The mutations and Python's heap go on together. *)
LEMMA AssignedHeap ==
  ASSUME NEW pool, NEW inputs, IsPool(pool, inputs), NEW i \in inputs,
         NEW heap, IsHeapOf(pool, i, heap), NEW s \in 1 .. Len(pool), NEW f, NEW y \in 1 .. Len(pool),
         NEW r \in Ref, pool[s].at[i] = AnyRef(r), i.heap[r].sort = "object",
         NEW pool2, pool2 = Recorded(pool, s, f, y),
         NEW heap2, heap2 = Made(heap, r, f, pool[y].at[i])
  PROVE  IsHeapOf(pool2, i, heap2)
  <1>1. /\ Len(pool2) = Len(pool) /\ \A q \in 1 .. Len(pool) : pool2[q].at = pool[q].at
        /\ \A q \in 1 .. Len(pool) : q # s => pool2[q].mutations = pool[q].mutations
        /\ DOMAIN pool2[s].mutations = DOMAIN pool[s].mutations \cup {f}
        /\ pool2[s].mutations[f] = y
        /\ \A g \in DOMAIN pool[s].mutations : g # f => pool2[s].mutations[g] = pool[s].mutations[g]
    BY RecordedPool
  <1>2. /\ DOMAIN heap = Ref /\ \A q \in Ref : heap[q].sort = i.heap[q].sort
        /\ heap[r] = ObjectCell(i.heap[r].class, heap[r].fields)
    BY DEF IsHeapOf
  <1>3. /\ DOMAIN heap2 = Ref /\ \A q \in Ref : q # r => heap2[q] = heap[q]
        /\ heap2[r] = ObjectCell(i.heap[r].class, heap2[r].fields)
        /\ DOMAIN heap2[r].fields = DOMAIN heap[r].fields \cup {f}
        /\ heap2[r].fields[f] = pool[y].at[i]
        /\ \A g \in DOMAIN heap[r].fields : g # f => heap2[r].fields[g] = heap[r].fields[g]
    <2> DEFINE fields == WithField(heap[r].fields, f, pool[y].at[i])
    <2>1. heap2[r] = ObjectCell(i.heap[r].class, fields)
      BY <1>2 DEF Made, WithField, ObjectCell
    <2>2. DOMAIN heap2 = Ref /\ \A q \in Ref : q # r => heap2[q] = heap[q]
      BY <1>2 DEF Made
    <2>3. heap2[r].fields = fields
      BY <2>1 DEF ObjectCell
    <2> QED
      BY <2>1, <2>2, <2>3 DEF WithField
  <1>4. heap2[r].sort = "object"
    <2>1. \A class, fields : ObjectCell(class, fields).sort = "object"
      BY DEF ObjectCell
    <2>2. heap2[r] = ObjectCell(i.heap[r].class, heap2[r].fields)
      BY <1>3
    <2>3. PICK cell, fields : cell = heap2[r] /\ fields = heap2[r].fields
      OBVIOUS
    <2>4. cell = ObjectCell(i.heap[r].class, fields)
      BY <2>2, <2>3, Zenon
    <2>5. cell.sort = "object"
      BY <2>1, <2>4, Zenon
    <2> QED
      BY <2>3, <2>5
  <1>5. \A p : AnyRef(p) = AnyRef(r) => p = r
    BY DEF AnyRef
  <1>6. ASSUME NEW q, NEW g, NEW p
        PROVE  Writes(pool2, q, g, p, i) <=> Writes(pool, q, g, p, i) \/ (q = s /\ g = f /\ p = r)
    <2>1. CASE q = s
      BY <1>1, <1>5, <2>1 DEF Writes
    <2>2. CASE q # s
      BY <1>1, <2>2 DEF Writes
    <2> QED
      BY <2>1, <2>2
  <1>7. ASSUME NEW q, NEW g, NEW p, WrittenOnce(pool2, q, g, p, i), g # f \/ p # r
        PROVE  WrittenOnce(pool, q, g, p, i)
               /\ pool2[pool2[q].mutations[g]].at[i] = pool[pool[q].mutations[g]].at[i]
    <2>1. WrittenOnce(pool, q, g, p, i)
      BY <1>6, <1>7 DEF WrittenOnce
    <2>2. q \in 1 .. Len(pool) /\ g \in DOMAIN pool[q].mutations /\ pool[q].mutations[g] \in 1 .. Len(pool)
      BY <2>1 DEF WrittenOnce, Writes, IsPool
    <2>3. pool2[q].mutations[g] = pool[q].mutations[g]
      <3>1. CASE q = s /\ g = f
        BY <1>5, <1>7, <2>1, <3>1 DEF WrittenOnce, Writes
      <3>2. CASE q = s /\ g # f
        BY <1>1, <2>2, <3>2
      <3>3. CASE q # s
        BY <1>1, <2>2, <3>3
      <3> QED
        BY <3>1, <3>2, <3>3
    <2> QED
      BY <1>1, <2>1, <2>2, <2>3
  <1>8. ASSUME NEW g, NEW p, Unwritten(pool2, g, p, i)
        PROVE  Unwritten(pool, g, p, i) /\ (g # f \/ p # r)
    BY <1>6, <1>8 DEF Unwritten
  <1>9. ASSUME NEW p \in Ref, i.heap[p].sort = "object"
        PROVE  /\ heap2[p] = ObjectCell(i.heap[p].class, heap2[p].fields)
               /\ \A g : Unwritten(pool2, g, p, i) => SameField(heap2[p].fields, i.heap[p].fields, g)
               /\ \A g, q : WrittenOnce(pool2, q, g, p, i) =>
                    /\ g \in DOMAIN heap2[p].fields
                    /\ heap2[p].fields[g] = pool2[pool2[q].mutations[g]].at[i]
    <2>1. /\ heap[p] = ObjectCell(i.heap[p].class, heap[p].fields)
          /\ \A g : Unwritten(pool, g, p, i) => SameField(heap[p].fields, i.heap[p].fields, g)
          /\ \A g, q : WrittenOnce(pool, q, g, p, i) =>
               /\ g \in DOMAIN heap[p].fields
               /\ heap[p].fields[g] = pool[pool[q].mutations[g]].at[i]
      BY <1>9 DEF IsHeapOf
    <2>2. heap2[p] = ObjectCell(i.heap[p].class, heap2[p].fields)
      <3>1. CASE p = r
        BY <1>3, <3>1, Zenon
      <3>2. CASE p # r
        BY <1>3, <2>1, <3>2, Zenon
      <3> QED
        BY <3>1, <3>2
    <2>3. \A g : g # f \/ p # r => SameField(heap2[p].fields, heap[p].fields, g)
      <3>1. CASE p = r
        BY <1>3, <3>1 DEF SameField
      <3>2. CASE p # r
        BY <1>3, <3>2 DEF SameField
      <3> QED
        BY <3>1, <3>2
    <2>4. ASSUME NEW g, Unwritten(pool2, g, p, i)
          PROVE  SameField(heap2[p].fields, i.heap[p].fields, g)
      <3>1. SameField(heap[p].fields, i.heap[p].fields, g) /\ SameField(heap2[p].fields, heap[p].fields, g)
        BY <1>8, <2>1, <2>3, <2>4
      <3> QED
        BY <3>1 DEF SameField
    <2>5. ASSUME NEW g, NEW q, WrittenOnce(pool2, q, g, p, i)
          PROVE  /\ g \in DOMAIN heap2[p].fields
                 /\ heap2[p].fields[g] = pool2[pool2[q].mutations[g]].at[i]
      <3>1. CASE g = f /\ p = r
        <4>1. q = s
          BY <1>6, <2>5, <3>1 DEF WrittenOnce
        <4> QED
          BY <1>1, <1>3, <3>1, <4>1
      <3>2. CASE g # f \/ p # r
        <4>1. /\ WrittenOnce(pool, q, g, p, i)
              /\ pool2[pool2[q].mutations[g]].at[i] = pool[pool[q].mutations[g]].at[i]
          BY <1>7, <2>5, <3>2
        <4>2. g \in DOMAIN heap[p].fields /\ heap[p].fields[g] = pool[pool[q].mutations[g]].at[i]
          BY <2>1, <4>1
        <4> QED
          BY <2>3, <3>2, <4>1, <4>2 DEF SameField
      <3> QED
        BY <3>1, <3>2
    <2> QED
      BY <2>2, <2>4, <2>5
  <1>10. \A q \in Ref : heap2[q].sort = i.heap[q].sort
    BY <1>2, <1>3, <1>4
  <1> QED
    BY <1>3, <1>9, <1>10 DEF IsHeapOf

LEMMA AssignIsPythons == AsInPython /\ (\E x, f, y : Assign(x, f, y)) => AsInPython'
  <1> SUFFICES ASSUME AsInPython, NEW x, NEW f, NEW y, Assign(x, f, y) PROVE AsInPython'
    OBVIOUS
  <1> DEFINE s == locals[x].sv
             w == locals[y].sv
  <1>1. /\ Agree(symbolics, locals, plainHeap, taken) /\ run \in taken /\ taken \subseteq ObjectInput
        /\ x \in DOMAIN locals /\ y \in DOMAIN locals /\ run' = run /\ IsObject(x, run)
        /\ UNCHANGED <<locals, raised, aliased, dispatched>> /\ raised = FALSE
        /\ taken' = Holding(x)
        /\ pyRaised' = {i \in taken' : ~PyIsObject(x, i)}
    BY Operating DEF Assign, Holding
  <1>2. run \in taken' /\ taken' \subseteq taken /\ \A i \in taken' : IsObject(x, i)
    BY <1>1, HoldingInputs
  <1>3. pyRaised' = {}
    BY <1>1, <1>2, VariableHolds
  <1>4. symbolics' = Recorded(symbolics, s, f, w)
    BY DEF Assign, Recorded
  <1>5. \A i \in taken' : plainHeap'[i] = Made(plainHeap[i], InPython(x, i).of, f, InPython(y, i))
    BY <1>3 DEF Assign, Made
  <1>6. s \in 1 .. Len(symbolics) /\ w \in 1 .. Len(symbolics)
    BY <1>1, VariableHolds
  <1>7. PICK pool2 : pool2 = symbolics'
    OBVIOUS
  <1>8. IsPool(symbolics, taken')
    BY <1>1, <1>2, AgreeOnFewer DEF Agree
  <1>9. /\ IsPool(pool2, taken') /\ Len(pool2) = Len(symbolics)
        /\ \A q \in 1 .. Len(symbolics) : pool2[q].at = symbolics[q].at
    BY <1>4, <1>6, <1>7, <1>8, RecordedPool
  <1>10. \A v \in 1 .. Len(locals) : IsVariable(locals[v], pool2, taken')
    BY <1>1, <1>2, <1>9 DEF Agree, IsVariable
  <1>11. ASSUME NEW i \in taken' PROVE IsHeapOf(pool2, i, plainHeap'[i])
    <2>1. PICK r : r = Formula(x)[i].of
      OBVIOUS
    <2>2. /\ InPython(x, i).of = r /\ InPython(y, i) = symbolics[w].at[i] /\ IsHeapOf(symbolics, i, plainHeap[i])
          /\ r \in Ref /\ symbolics[s].at[i] = AnyRef(r) /\ i.heap[r].sort = "object"
      BY <1>1, <1>2, <2>1, VariableHolds DEF Formula
    <2>3. PICK heap2 : heap2 = plainHeap'[i]
      OBVIOUS
    <2>4. heap2 = Made(plainHeap[i], r, f, symbolics[w].at[i])
      BY <1>5, <2>2, <2>3
    <2>5. pool2 = Recorded(symbolics, s, f, w)
      BY <1>4, <1>7
    <2> HIDE DEF s, w
    <2>6. IsHeapOf(pool2, i, heap2)
      BY <1>6, <1>8, <2>2, <2>4, <2>5, AssignedHeap
    <2> QED
      BY <2>3, <2>6
  <1>12. Agree(symbolics', locals, plainHeap', taken')
    BY <1>1, <1>7, <1>9, <1>10, <1>11 DEF Agree
  <1> QED
    BY <1>1, <1>2, <1>3, <1>12 DEF AsInPython

LEMMA NextAsInPython == AsInPython /\ [ObjectNext]_objectVars => AsInPython'
  <1>1. AsInPython /\ UNCHANGED objectVars => AsInPython'
    BY DEF objectVars, AsInPython
  <1> QED
    BY <1>1, NotAnObjectIsPythons, ReadMutationIsPythons, ReadFieldIsPythons, AssignIsPythons,
       LookUpMethodIsPythons
    DEF ObjectNext

LEMMA AsInPythonMeans == AsInPython => ObjectsArePythons
  <1> SUFFICES ASSUME AsInPython, ~aliased, ~dispatched,
                      NEW x \in DOMAIN locals, NEW i \in taken \ pyRaised
               PROVE  Formula(x)[i] = InPython(x, i)
    BY DEF AsInPython, ObjectsArePythons
  <1>1. ~raised
    BY DEF AsInPython
  <1> QED
    BY <1>1, VariableHolds DEF AsInPython

(* A function that reads and assigns attributes of its parameters and looks  *)
(* up their methods, for any classes, inputs and operations: although an    *)
(* assignment is only written down in the SymbolicValue it is made through  *)
(* and changes no symbolic heap, on every input of the recorded path each    *)
(* variable has Python's value and Python raises exactly if the run did.    *)
THEOREM AssignmentsAreSeen == ObjectSpec => []ObjectsArePythons
  BY InitAsInPython, NextAsInPython, AsInPythonMeans, PTL DEF ObjectSpec
==================================================================================
