---------------------------- MODULE MCModelConversion ----------------------------
(***************************************************************************)
(* Two references.  The first is any small cell of the lists below, the    *)
(* second one of a few; C inherits B and B inherits A, and Lost is a class *)
(* the module has no more.  The second query has few answers: they only    *)
(* have to meet what the first left behind.                                *)
(***************************************************************************)
EXTENDS ModelConversion, SymbolicObjects

CONSTANTS r1, r2

MCClass == {"A", "B", "C", "Lost"}
MCImportable == MCClass \ {"Lost"}
MCBases == [c \in MCClass |-> CASE c = "B" -> {"A"} [] c = "C" -> {"B"} [] OTHER -> {}]
MCMethods == [c \in MCClass |-> CASE c = "A" -> {"close"} [] c = "C" -> {"open"} [] OTHER -> {}]
MCFieldOrder == <<"f", "g">>

Zero == AnyInt(0)
Items == {Zero, AnyRef(r1), AnyRef(r2)}
OneOrTwo(S) == {<<x>> : x \in S} \cup {<<x, y>> : x, y \in S}

Lists == {ListCell(items, mutable) : items \in OneOrTwo(Items), mutable \in BOOLEAN}
Tuples == {c \in Lists : ~c.mutable}
Objects == {ObjectCell(c, [f \in fs |-> v]) : c \in MCClass, fs \in {{}, {"f"}, {"f", "g"}}, v \in Items}
Keys == {<<AnyBool(TRUE)>>, <<Zero, AnyInt(1)>>, <<Unassigned, AnyInt(1)>>, <<Zero, AnyBool(FALSE)>>}
Dicts == UNION {{DictCell(keys, [k \in DOMAIN keys |-> IF k = 1 THEN v ELSE Zero]) : v \in Items}
                : keys \in Keys}
Pair == SetCell(<<Zero, AnyInt(1)>>)
Sets == {SetCell(s) : s \in OneOrTwo(Items)} \cup {Pair}
Odd == {ListCell(<<Opaque>>, TRUE), ListCell(<<Zero, Opaque>>, FALSE),
        DictCell(<<Opaque>>, <<AnyRef(r2)>>), ListCell(<<Unassigned>>, TRUE), ArrayCell(<<AnyInt(1), AnyInt(2)>>)}

First == Lists \cup Objects \cup Dicts \cup Sets \cup Odd
Second == {ListCell(<<>>, TRUE), ListCell(<<>>, FALSE), ListCell(<<AnyRef(r1), AnyRef(r1)>>, FALSE),
           ListCell(<<Zero>>, TRUE), ListCell(<<Opaque>>, TRUE), ArrayCell(<<AnyInt(1), AnyInt(2)>>), SetCell(<<Zero>>), Pair,
           ObjectCell("A", [f \in {} |-> 0]), ObjectCell("C", [f \in {"f"} |-> AnyRef(r1)]),
           ObjectCell("Lost", [f \in {} |-> 0]), DictCell(<<>>, <<>>),
           DictCell(<<AnyBool(TRUE)>>, <<AnyRef(r1)>>)}

Heap(c1, c2) == [r \in {r1, r2} |-> IF r = r1 THEN c1 ELSE c2]
Params == {<<AnyRef(r1), AnyRef(r1)>>, <<AnyRef(r1), AnyRef(r2)>>, <<AnyRef(r1), Zero>>,
           <<AnyBool(TRUE), AnyInt(1)>>, <<AnyRef(r2), Opaque>>, <<Unassigned, AnyRef(r1)>>}

\* All bounds of the sets, below zero as well; of other references it is not read.
Bounds(cell) == IF cell.sort = "set" THEN -1 .. Len(cell.members) ELSE {0}
ModelsOf(c1, c2, params) ==
  {[heap |-> Heap(c1, c2), bound |-> Heap(b1, b2), params |-> p] :
     b1 \in Bounds(c1), b2 \in Bounds(c2), p \in params}

Models(first1, first2, params) ==
  {m \in UNION {ModelsOf(c1, c2, params) : c1 \in first1, c2 \in first2} : Axioms(Contents(m))}

MCAnswers(k) ==
  IF k = 1 THEN Models(First, Second, Params)
  ELSE Models({ListCell(<<Zero>>, TRUE), ListCell(<<AnyRef(r2)>>, TRUE)}, {ListCell(<<>>, TRUE)},
              {<<AnyRef(r1), AnyRef(r2)>>})

\* Inputs of a function of two parameters: chains, cycles, shared objects and numbers.
Node(c, fs, v) == ObjectCell(c, [f \in fs |-> v])
Empty(c) == Node(c, {}, Zero)
MCObjectInput ==
  {[heap |-> Heap(p[1], p[2]), params |-> <<AnyRef(r1), AnyRef(r2)>>] :
     p \in {<<Empty("A"), Empty("B")>>, <<Node("A", {"f"}, AnyRef(r2)), Empty("A")>>,
            <<Node("C", {"f"}, AnyRef(r2)), Node("C", {"f"}, AnyRef(r1))>>,
            <<Node("Lost", {"f"}, Zero), Node("B", {"f", "g"}, AnyRef(r2))>>}}
  \cup {[heap |-> Heap(Node("A", {"f"}, AnyRef(r1)), Empty("C")), params |-> <<AnyRef(r1), v>>] :
        v \in {AnyRef(r1), AnyInt(1)}}

MCInit == (Init /\ ObjectsIdle) \/ (Idle /\ ObjectInit)
MCNext == (Next /\ UNCHANGED objectVars) \/ (ObjectNext /\ UNCHANGED vars)
MCSpec == MCInit /\ [][MCNext]_<<vars, objectVars>>
==================================================================================
