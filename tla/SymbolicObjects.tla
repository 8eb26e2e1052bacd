----------------------------- MODULE SymbolicObjects -----------------------------
(***************************************************************************)
(* Symbolic objects (symbolic/handleops/object.py): a function reads and   *)
(* assigns attributes of its parameters and of what it read, and looks up  *)
(* methods.  An assignment changes no object: it goes into the mutations   *)
(* of the SymbolicValue it is made through.                                *)
(*                                                                         *)
(* An input is a model of the heap.  A formula stands for its value on     *)
(* every input, a path for the inputs that take it.  Attributes are of     *)
(* all_fields, or methods some class defines; the code of properties is    *)
(* part of the function.                                                   *)
(***************************************************************************)
EXTENDS HeapModel

CONSTANTS
  ObjectInput,   \* inputs: the heap and the parameters
  MaxObjectOps   \* bound on reads and assignments

ASSUME ObjectOpsAssumption == MaxObjectOps \in Nat
ASSUME ObjectInputAssumption ==
  \A i \in ObjectInput :
    /\ DOMAIN i.heap = Ref /\ \A r \in Ref : WellSorted(i.heap[r])
    /\ AreValues(i.params) /\ \A j \in ObjectInput : DOMAIN i.params = DOMAIN j.params

VARIABLES
  run,        \* the input of the run, fixed
  symbolics,  \* SymbolicValues, by identity: formula and object_mutations
  locals,     \* variables of the function: a SymbolicValue, and (history) Python's
              \* value of the variable on every input
  plainHeap,  \* history: Python's heap, on every input
  taken,      \* inputs on the recorded path
  raised,     \* the run has ended with an exception
  pyRaised,   \* history: inputs on which Python's has
  aliased,    \* history: a read found that another SymbolicValue was assigned to
  dispatched, \* history: a method was looked up that the classes of the path do not share
  objectOps   \* operations, for the bound

objectVars == <<run, symbolics, locals, plainHeap, taken, raised, pyRaised, aliased, dispatched, objectOps>>

NoMutations == [f \in {} |-> 0]
Symbolic(at) == [at |-> at, mutations |-> NoMutations]

\* Every parameter gets a SymbolicValue, also those that refer to one object.
ObjectInit ==
  /\ run \in ObjectInput
  /\ symbolics = [k \in DOMAIN run.params |-> Symbolic([i \in ObjectInput |-> i.params[k]])]
  /\ locals = [k \in DOMAIN run.params |-> [sv |-> k, python |-> [i \in ObjectInput |-> i.params[k]]]]
  /\ plainHeap = [i \in ObjectInput |-> i.heap]
  /\ taken = ObjectInput
  /\ raised = FALSE /\ pyRaised = {} /\ aliased = FALSE /\ dispatched = FALSE
  /\ objectOps = 0

ObjectsIdle ==
  /\ run \in ObjectInput /\ run = CHOOSE i \in ObjectInput : TRUE
  /\ symbolics = <<>> /\ locals = <<>> /\ plainHeap = <<>> /\ taken = {}
  /\ raised = TRUE /\ pyRaised = {} /\ aliased = FALSE /\ dispatched = FALSE
  /\ objectOps = 0

\* The next operation is on the value of variable x.  What happens after one of the
\* two kinds of reads the property excepts is not followed.
Operates(x) ==
  /\ ~raised /\ ~aliased /\ ~dispatched /\ objectOps < MaxObjectOps
  /\ x \in DOMAIN locals
  /\ objectOps' = objectOps + 1
  /\ UNCHANGED run

Formula(x) == symbolics[locals[x].sv].at
Mutations(x) == symbolics[locals[x].sv].mutations

IsObject(x, i) == IsCell(i.heap, Formula(x)[i], "object")
InPython(x, i) == locals[x].python[i]
PyCell(x, i) == plainHeap[i][InPython(x, i).of]
PyIsObject(x, i) == IsCell(plainHeap[i], InPython(x, i), "object")

\* record_path of a condition: the inputs on which it is what it is in the run
Sides(inputs, Condition(_)) == {i \in inputs : Condition(i) = Condition(run)}

\* handle_object_op on a value that is no object: the builtin has no such attribute.
NotAnObject(x) ==
  /\ Operates(x) /\ ~IsObject(x, run)
  /\ taken' = Sides(taken, LAMBDA i : IsObject(x, i))
  /\ raised' = TRUE
  /\ pyRaised' = {i \in taken' : ~PyIsObject(x, i)}
  /\ UNCHANGED <<symbolics, locals, plainHeap, aliased, dispatched>>

\* Python's attribute may have been assigned through another SymbolicValue.
WrittenElsewhere(x, f, inputs) ==
  \E s \in DOMAIN symbolics : s # locals[x].sv /\ f \in DOMAIN symbolics[s].mutations
    /\ \E i \in inputs : symbolics[s].at[i] = Formula(x)[i]

PyLacks(x, f, i) == ~PyIsObject(x, i) \/ f \notin DOMAIN PyCell(x, i).fields

\* The new variable holds the SymbolicValue sv and Python's attribute.
Hold(sv, x, f) ==
  locals' = Append(locals, [sv |-> sv, python |->
              [i \in taken' \ pyRaised' |-> PyCell(x, i).fields[f]]])

\* Mutant: the mutations are not looked at.
Forgotten(x, f) == FALSE

Mutated(x, f) == f \in DOMAIN Mutations(x)

\* handle_member of an attribute that was assigned: its SymbolicValue itself.
ReadMutation(x, f) ==
  /\ Operates(x) /\ IsObject(x, run) /\ Mutated(x, f)
  /\ taken' = Sides(taken, LAMBDA i : IsObject(x, i))
  /\ pyRaised' = {i \in taken' : PyLacks(x, f, i)}
  /\ aliased' = WrittenElsewhere(x, f, taken')
  /\ Hold(Mutations(x)[f], x, f)
  /\ UNCHANGED <<symbolics, plainHeap, raised, dispatched>>

\* handle_member of a field: a branch on its presence, then the read.
ReadField(x, f) ==
  /\ Operates(x) /\ IsObject(x, run) /\ ~Mutated(x, f)
  /\ LET has(i) == HasField(i.heap, Formula(x)[i], f)
         value == [i \in taken' |-> i.heap[Formula(x)[i].of].fields[f]]
     IN  /\ taken' = Sides(Sides(taken, LAMBDA i : IsObject(x, i)), has)
         /\ pyRaised' = {i \in taken' : PyLacks(x, f, i)}
         /\ aliased' = WrittenElsewhere(x, f, taken')
         /\ IF has(run)
            THEN /\ symbolics' = Append(symbolics, Symbolic(value))
                 /\ Hold(Len(symbolics) + 1, x, f)
                 /\ UNCHANGED raised
            ELSE raised' = TRUE /\ UNCHANGED <<symbolics, locals>>
  /\ UNCHANGED <<plainHeap, dispatched>>

\* handle_member of a method: the bound method if there is one, without a branch;
\* otherwise a branch on the classes that define it.
LookUpMethod(x, m) ==
  /\ Operates(x) /\ IsObject(x, run)
  /\ LET has(i) == HasMethod(i.heap, Formula(x)[i], m)
         objects == Sides(taken, LAMBDA i : IsObject(x, i))
     IN  /\ taken' = IF has(run) THEN objects ELSE Sides(objects, has)
         /\ raised' = ~has(run)
         /\ pyRaised' = {i \in taken' : ~HasMethod(plainHeap[i], InPython(x, i), m)}
         /\ dispatched' = \E i \in taken' : has(i) # has(run)
  /\ UNCHANGED <<symbolics, locals, plainHeap, aliased>>

\* handle_setmember, x.f = the value of y
Assign(x, f, y) ==
  /\ Operates(x) /\ IsObject(x, run) /\ y \in DOMAIN locals
  /\ taken' = Sides(taken, LAMBDA i : IsObject(x, i))
  /\ pyRaised' = {i \in taken' : ~PyIsObject(x, i)}
  /\ symbolics' = [symbolics EXCEPT ![locals[x].sv].mutations =
                     [g \in DOMAIN @ \cup {f} |-> IF g = f THEN locals[y].sv ELSE @[g]]]
  /\ plainHeap' = [i \in taken' \ pyRaised' |->
                     [plainHeap[i] EXCEPT ![InPython(x, i).of].fields =
                        [g \in DOMAIN @ \cup {f} |-> IF g = f THEN InPython(y, i) ELSE @[g]]]]
  /\ UNCHANGED <<locals, raised, aliased, dispatched>>

ObjectNext ==
  \/ \E x \in DOMAIN locals :
       \/ NotAnObject(x)
       \/ \E f \in Field : ReadMutation(x, f) \/ ReadField(x, f) \/ \E y \in DOMAIN locals : Assign(x, f, y)
       \/ \E m \in UNION {Methods[c] : c \in Class} : LookUpMethod(x, m)
  \/ (raised \/ aliased \/ dispatched \/ objectOps = MaxObjectOps) /\ UNCHANGED objectVars

ObjectSpec == ObjectInit /\ [][ObjectNext]_objectVars

----------------------------------------------------------------------------------
(* Properties.                                                             *)

\* Assignments that never reach an object do as Python's: on every input of the path
\* each variable has Python's value, attributes of attributes and assigned attributes
\* included, and Python raises where the run does.  Excepted are an attribute that
\* was assigned through another SymbolicValue of the same object (a parameter given
\* twice, an attribute read twice), and a method that only some classes of the path have.
ObjectsArePythons ==
  ~aliased /\ ~dispatched =>
    /\ symbolics # <<>> => run \in taken
    /\ \A x \in DOMAIN locals, i \in taken \ pyRaised : Formula(x)[i] = InPython(x, i)
    /\ pyRaised = IF raised THEN taken ELSE {}
==================================================================================
