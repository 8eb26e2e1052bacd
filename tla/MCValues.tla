-------------------------------- MODULE MCValues --------------------------------
(***************************************************************************)
(* The operations on symbolic values and the interceptors, one component   *)
(* at a time: does each give, on every input of the path, what Python      *)
(* gives?  The components share no state, so the others are idle.          *)
(***************************************************************************)
EXTENDS SymbolicNumbers, SymbolicArray, SymbolicList, SymbolicDict, RangeLoops, SymbolicFiles,
        Instrumentation

CONSTANTS ch, nl  \* a character, and the newline

\* Booleans, integers, and floats between and at the integers, with a NaN and
\* infinities.
Float(n, d) == Finite("float", Fraction(n, d))
SmallNumbers ==
  {Truth(FALSE), Truth(TRUE), Whole("int", -2), Whole("int", 0), Whole("int", 3),
   Float(-3, 2), Float(0, 1), Float(1, 2), Float(2, 1)}
MCInputs == SmallNumbers \cup {Special("inf"), Special("nan")}
MCLiterals == {Truth(TRUE), Whole("int", -2), Whole("int", 0), Float(1, 2), Special("inf")}

\* The configured log of an array, which has no bound, and one of at most two writes.
MCLimits == {-1, 2}

\* Elements of lists: 0 is also an index, 7 is none.
MCVal == {0, 7}

\* Dicts of up to three keys in several orders; 0 is also a position, 7 also a value.
MCKey == {0, 7, 8}
MCContent == {7, 9}
Orders == {<<>>, <<0>>, <<7>>, <<7, 0>>, <<8, 7>>, <<0, 7, 8>>, <<8, 7, 0>>}
MCDictInput == {[keys |-> ks, assoc |-> [k \in {ks[x] : x \in DOMAIN ks} |-> IF k = f THEN 9 ELSE 7]]
                : ks \in Orders, f \in {0, 7}}

\* Ranges: two parameters; 13 is past the limit on iterations.
MCRangeInput == [{"m", "n"} -> {-2, 0, 1, 2, 13}]
RangeArgument == {Parameter("m"), Parameter("n"), Literal(-1), Literal(0), Literal(3)}
MCRangeCall ==
  {args \in UNION {[1 .. k -> RangeArgument] : k \in 1 .. 3} : Len(args) = 3 => args[3] # Literal(0)}

\* Slices and files: sequences of up to three characters, one of them a newline.
MCChar == {ch, nl}
MCContents == UNION {[1 .. k -> MCChar] : k \in 0 .. 3}
MCSliceInput ==
  [seq : {s \in MCContents : s # <<>> => s[1] # nl}, start : -1 .. 3, stop : -2 .. 4]
MCBound == {Absent, BoundParameter, LiteralBound(1), LiteralBound(-1), LiteralBound(2)}

\* Tests of two variables, up to three levels deep.
MCHeld == {-1, 0, 2}
Names == {Name("x"), Name("y")}
Pairs(S, T) == {<<s, t>> : s \in S, t \in T}
Comparisons(lefts, operators) ==
  {Compare(l, <<op>>, <<r>>) : l \in lefts, op \in operators, r \in Names}
Chains == {Compare(Name("x"), <<op1, op2>>, <<r, Name("y")>>) :
             op1 \in {"<", "in", "not in", "is", "is not"}, op2 \in {"<", "in"},
             r \in {Name("x"), NoneConstant}}
Atoms1 == Comparisons(Names, {"<", "==", "in", "not in"})
          \cup {Compare(l, <<op>>, <<NoneConstant>>) : l \in Names, op \in {"is", "is not"}}
          \cup {Call("f", <<l>>) : l \in Names}
Bool(S, T) == {BoolOp(op, p) : op \in {"and", "or"}, p \in Pairs(S, T)}
Tests1 == Names \cup Atoms1 \cup Chains \cup {Not(l) : l \in Names} \cup Bool(Names, Names)
Tests2 == {Not(e) : e \in Tests1} \cup {Call("f", <<e>>) : e \in Tests1}
          \cup Comparisons(Tests1, {"<", "in"})
MCTests == Tests1 \cup Tests2 \cup Bool(Tests1, Tests1) \cup Bool(Names, Tests2) \cup Bool(Tests2, Names)

valueVars == <<numberVars, arrayVars, listVars, dictVars, loopVars, sliceVars, fileVars, testVars>>

MCInit ==
  \/ NumberInit /\ ArrayIdle /\ ListIdle /\ DictIdle /\ LoopIdle /\ SliceIdle /\ FileIdle /\ TestIdle
  \/ NumberIdle /\ ArrayInit /\ ListIdle /\ DictIdle /\ LoopIdle /\ SliceIdle /\ FileIdle /\ TestIdle
  \/ NumberIdle /\ ArrayIdle /\ ListInit /\ DictIdle /\ LoopIdle /\ SliceIdle /\ FileIdle /\ TestIdle
  \/ NumberIdle /\ ArrayIdle /\ ListIdle /\ DictInit /\ LoopIdle /\ SliceIdle /\ FileIdle /\ TestIdle
  \/ NumberIdle /\ ArrayIdle /\ ListIdle /\ DictIdle /\ LoopInit /\ SliceIdle /\ FileIdle /\ TestIdle
  \/ NumberIdle /\ ArrayIdle /\ ListIdle /\ DictIdle /\ LoopIdle /\ SliceInit /\ FileIdle /\ TestIdle
  \/ NumberIdle /\ ArrayIdle /\ ListIdle /\ DictIdle /\ LoopIdle /\ SliceIdle /\ FileInit /\ TestIdle
  \/ NumberIdle /\ ArrayIdle /\ ListIdle /\ DictIdle /\ LoopIdle /\ SliceIdle /\ FileIdle /\ TestInit

MCNext ==
  \/ NumberNext /\ UNCHANGED <<arrayVars, listVars, dictVars, loopVars, sliceVars, fileVars, testVars>>
  \/ ArrayNext /\ UNCHANGED <<numberVars, listVars, dictVars, loopVars, sliceVars, fileVars, testVars>>
  \/ ListNext /\ UNCHANGED <<numberVars, arrayVars, dictVars, loopVars, sliceVars, fileVars, testVars>>
  \/ DictNext /\ UNCHANGED <<numberVars, arrayVars, listVars, loopVars, sliceVars, fileVars, testVars>>
  \/ LoopNext /\ UNCHANGED <<numberVars, arrayVars, listVars, dictVars, sliceVars, fileVars, testVars>>
  \/ SliceNext /\ UNCHANGED <<numberVars, arrayVars, listVars, dictVars, loopVars, fileVars, testVars>>
  \/ FileNext /\ UNCHANGED <<numberVars, arrayVars, listVars, dictVars, loopVars, sliceVars, testVars>>
  \/ TestNext /\ UNCHANGED <<numberVars, arrayVars, listVars, dictVars, loopVars, sliceVars, fileVars>>

MCSpec == MCInit /\ [][MCNext]_valueVars
==================================================================================
