------------------------------ MODULE Replay_proof ------------------------------
(***************************************************************************)
(* Theorems about Replay, for every function under test and any number of  *)
(* inputs explored and fuzzed.                                             *)
(***************************************************************************)
EXTENDS Replay, Integers, FiniteSetTheorems, SequenceTheorems, TLAPS

Recorded == [arg : Val, glob : Val \cup {NoGlob}, ranArg : Val, ranGlob : Val]

TypeOK ==
  /\ fut \in Function
  /\ phase \in {"explore", "dump", "replay"} \cup Ended
  /\ glob \in Val /\ arg \in Val
  /\ results \in Seq(Recorded)
  /\ nextDump \in 1 .. Len(results) + 1
  /\ dumpId \in Nat
  /\ todo \subseteq DOMAIN disk
  /\ calling \in BOOLEAN /\ patched \in BOOLEAN

\* What an input was recorded with is what it ran with, unless its global was changed in place.
RecordedIsRun ==
  \A k \in Explored :
    /\ results[k].arg = results[k].ranArg
    /\ ~fut.inPlace => results[k].glob = results[k].ranGlob

\* The inputs DumpInput has passed and could pickle.
ValidSoFar == {k \in 1 .. nextDump - 1 : results[k].arg \in fut.valid}
Folder(r) == [arg |-> r.arg, glob |-> r.glob]

\* The folders written so far.
FoldersOK ==
  /\ dumpId = Cardinality(ValidSoFar)
  /\ DOMAIN disk = {id \in 0 .. Len(results) : id < dumpId}
  /\ \A k \in ValidSoFar : \E id \in DOMAIN disk : disk[id] = Folder(results[k])
  /\ \A id \in DOMAIN disk : \E k \in DOMAIN results : disk[id] = Folder(results[k])

\* The stages follow one another.
StagesOK ==
  /\ phase = "explore" => nextDump = 1
  /\ phase \in {"explore", "dump"} => seen = {}
  /\ phase \notin {"explore", "dump"} => nextDump = Len(results) + 1
  /\ calling => phase = "replay"

\* pyctat calls the function with what is in the folder.
SeenIsFolder ==
  \A s \in seen :
    /\ s.id \in DOMAIN disk
    /\ s.arg = disk[s.id].arg
    /\ disk[s.id].glob # NoGlob => s.glob = disk[s.id].glob

ReplayInv == TypeOK /\ RecordedIsRun /\ FoldersOK /\ StagesOK /\ SeenIsFolder

-----------------------------------------------------------------------------------
(* The parts of a step. *)

\* What recording an input does to the inputs recorded before.
LEMMA RecordInput ==
  ASSUME TypeOK, NEW r \in Recorded
  PROVE  /\ Append(results, r) \in Seq(Recorded)
         /\ DOMAIN results = 1 .. Len(results) /\ Len(results) \in Nat
         /\ DOMAIN Append(results, r) = 1 .. Len(results) + 1
         /\ Len(Append(results, r)) = Len(results) + 1
         /\ \A k \in 1 .. Len(results) : Append(results, r)[k] = results[k]
         /\ Append(results, r)[Len(results) + 1] = r
  BY AppendProperties, LenProperties DEF TypeOK

\* Inputs passed by DumpInput are among those recorded.
LEMMA ValidSoFarFinite ==
  ASSUME TypeOK
  PROVE  /\ IsFiniteSet(ValidSoFar) /\ Cardinality(ValidSoFar) \in Nat
         /\ Cardinality(ValidSoFar) <= nextDump - 1
         /\ DOMAIN results = 1 .. Len(results) /\ Len(results) \in Nat
         /\ nextDump \in Nat \ {0} /\ nextDump <= Len(results) + 1
  <1>1. /\ DOMAIN results = 1 .. Len(results) /\ Len(results) \in Nat
        /\ nextDump \in Nat \ {0} /\ nextDump <= Len(results) + 1
    BY LenProperties DEF TypeOK
  <1>2. /\ IsFiniteSet(1 .. (nextDump - 1))
        /\ Cardinality(1 .. (nextDump - 1)) = nextDump - 1
    <2>1. 1 \in Int /\ nextDump - 1 \in Int
      BY <1>1
    <2>2. /\ IsFiniteSet(1 .. (nextDump - 1))
          /\ Cardinality(1 .. (nextDump - 1)) =
               IF 1 > nextDump - 1 THEN 0 ELSE (nextDump - 1) - 1 + 1
      BY <2>1, FS_Interval, Zenon
    <2> QED
      BY <1>1, <2>2
  <1>3. ValidSoFar \in SUBSET (1 .. (nextDump - 1))
    BY DEF ValidSoFar
  <1>4. /\ IsFiniteSet(ValidSoFar)
        /\ Cardinality(ValidSoFar) <= Cardinality(1 .. (nextDump - 1))
    BY <1>2, <1>3, FS_Subset
  <1>5. Cardinality(ValidSoFar) \in Nat
    BY <1>4, FS_CardinalityType
  <1> QED
    BY <1>1, <1>2, <1>4, <1>5

\* One more input is explored or fuzzed: nothing has been dumped yet.
LEMMA RecordKeeps ==
  ASSUME ReplayInv, phase = "explore", NEW r \in Recorded, results' = Append(results, r),
         r.glob # NoGlob => r.arg = r.ranArg /\ (~fut.inPlace => r.glob = r.ranGlob),
         glob' \in Val,
         UNCHANGED <<fut, phase, nextDump, dumpId, disk, todo, calling, arg, patched, excepted, seen>>
  PROVE  ReplayInv'
  <1>1. /\ results' \in Seq(Recorded)
        /\ DOMAIN results = 1 .. Len(results) /\ Len(results) \in Nat
        /\ DOMAIN results' = 1 .. Len(results) + 1
        /\ Len(results') = Len(results) + 1
        /\ \A k \in 1 .. Len(results) : results'[k] = results[k]
        /\ results'[Len(results) + 1] = r
    BY RecordInput DEF ReplayInv
  <1>2. nextDump = 1 /\ nextDump' = 1 /\ ValidSoFar = {} /\ ValidSoFar' = {}
    BY DEF ReplayInv, StagesOK, ValidSoFar
  <1>3. TypeOK'
    BY <1>1, <1>2 DEF ReplayInv, TypeOK
  <1>4. RecordedIsRun'
    BY <1>1 DEF ReplayInv, RecordedIsRun, Explored
  <1>5. dumpId = 0
    BY <1>2, FS_EmptySet DEF ReplayInv, FoldersOK
  <1>6. DOMAIN disk = {}
    BY <1>1, <1>5 DEF ReplayInv, FoldersOK
  <1>7. FoldersOK'
    BY <1>1, <1>2, <1>5, <1>6, FS_EmptySet DEF FoldersOK
  <1>8. StagesOK' /\ SeenIsFolder'
    BY <1>2 DEF ReplayInv, StagesOK, SeenIsFolder
  <1> QED
    BY <1>3, <1>4, <1>7, <1>8 DEF ReplayInv

LEMMA ExploreKeeps ==
  ASSUME ReplayInv, NEW a \in Val, NEW g \in Val, ExploreInput(a, g)
  PROVE  ReplayInv'
  <1> DEFINE r == Result(CopiedArgument(a), StoredGlobal(g), a, g)
  <1>1. fut \in Function /\ fut.newGlob \in [Val -> Val]
    BY DEF ReplayInv, TypeOK, Function
  <1>2. StoredGlobal(g) \in Val /\ (~fut.inPlace => StoredGlobal(g) = g)
    BY <1>1 DEF StoredGlobal
  <1>3. r \in Recorded /\ r.arg = r.ranArg /\ (~fut.inPlace => r.glob = r.ranGlob)
    BY <1>2 DEF Result, Recorded, CopiedArgument
  <1>4. glob' \in Val
    BY <1>1 DEF ExploreInput
  <1> HIDE DEF r
  <1> QED
    BY <1>3, <1>4, RecordKeeps DEF ExploreInput, r

LEMMA FuzzKeeps ==
  ASSUME ReplayInv, NEW a \in Val, FuzzInput(a)
  PROVE  ReplayInv'
  <1> DEFINE r == Result(fut.newArg[a], NoGlob, a, glob)
  <1>1. /\ fut \in Function /\ glob \in Val
        /\ fut.newGlob \in [Val -> Val] /\ fut.newArg \in [Val -> Val]
    BY DEF ReplayInv, TypeOK, Function
  <1>2. r \in Recorded /\ r.glob = NoGlob
    BY <1>1 DEF Result, Recorded
  <1>3. glob' \in Val
    BY <1>1 DEF FuzzInput
  <1> HIDE DEF r
  <1> QED
    BY <1>2, <1>3, RecordKeeps DEF FuzzInput, r

\* An input is refused, or gets the next folder.
LEMMA DumpKeeps ==
  ASSUME ReplayInv, DumpInput
  PROVE  ReplayInv'
  <1> DEFINE r == results[nextDump]
  <1>1. /\ IsFiniteSet(ValidSoFar) /\ Cardinality(ValidSoFar) \in Nat
        /\ Cardinality(ValidSoFar) <= nextDump - 1
        /\ DOMAIN results = 1 .. Len(results) /\ Len(results) \in Nat
        /\ nextDump \in 1 .. Len(results)
    BY ValidSoFarFinite DEF ReplayInv, DumpInput
  <1>2. UNCHANGED <<fut, phase, glob, results, todo, calling, arg, patched, excepted, seen>>
        /\ nextDump' = nextDump + 1 /\ phase = "dump"
    BY DEF DumpInput
  <1>3. RecordedIsRun' /\ StagesOK'
    BY <1>2 DEF ReplayInv, RecordedIsRun, Explored, StagesOK
  <1>4. SeenIsFolder'
    BY <1>2 DEF ReplayInv, StagesOK, SeenIsFolder
  <1>5. dumpId = Cardinality(ValidSoFar) /\ dumpId \in Nat /\ dumpId <= Len(results)
    BY <1>1 DEF ReplayInv, FoldersOK
  <1>6. CASE r.arg \notin fut.valid
    <2>1. disk' = disk /\ dumpId' = dumpId
      BY <1>6 DEF DumpInput
    <2>2. ValidSoFar' = ValidSoFar
      BY <1>1, <1>2, <1>6 DEF ValidSoFar
    <2>3. TypeOK'
      BY <1>1, <1>2, <2>1 DEF ReplayInv, TypeOK
    <2>4. FoldersOK'
      BY <1>2, <2>1, <2>2 DEF ReplayInv, FoldersOK
    <2> QED
      BY <1>3, <1>4, <2>3, <2>4 DEF ReplayInv
  <1>7. CASE r.arg \in fut.valid
    <2>1. /\ disk' = [id \in DOMAIN disk \cup {dumpId} |-> IF id = dumpId THEN Folder(r) ELSE disk[id]]
          /\ dumpId' = dumpId + 1
      BY <1>7 DEF DumpInput, DumpId, Folder
    <2>2. ValidSoFar' = ValidSoFar \cup {nextDump} /\ nextDump \notin ValidSoFar
      BY <1>1, <1>2, <1>7 DEF ValidSoFar
    <2>3. Cardinality(ValidSoFar') = dumpId'
      BY <1>1, <1>5, <2>1, <2>2, FS_AddElement
    <2>4. DOMAIN disk' = {id \in 0 .. Len(results) : id < dumpId + 1}
      BY <1>1, <1>5, <2>1 DEF ReplayInv, FoldersOK
    <2>5. dumpId \notin DOMAIN disk
      BY <1>5 DEF ReplayInv, FoldersOK
    <2>6. /\ \A id \in DOMAIN disk : id \in DOMAIN disk' /\ disk'[id] = disk[id]
          /\ dumpId \in DOMAIN disk' /\ disk'[dumpId] = Folder(r)
      BY <2>1, <2>5
    <2>7. \A k \in ValidSoFar' : \E id \in DOMAIN disk' : disk'[id] = Folder(results[k])
      BY <2>2, <2>6 DEF ReplayInv, FoldersOK
    <2>8. \A id \in DOMAIN disk' : \E k \in DOMAIN results : disk'[id] = Folder(results[k])
      BY <1>1, <2>1, <2>6 DEF ReplayInv, FoldersOK
    <2>9. FoldersOK'
      <3>1. dumpId' = Cardinality(ValidSoFar)' /\ DOMAIN disk' = {id \in 0 .. Len(results') : id < dumpId'}
        BY <1>2, <2>1, <2>3, <2>4
      <3>2. \A k \in ValidSoFar' : \E id \in DOMAIN disk' : disk'[id] = Folder(results'[k])
        BY <1>2, <2>7
      <3>3. \A id \in DOMAIN disk' : \E k \in DOMAIN results' : disk'[id] = Folder(results'[k])
        BY <1>2, <2>8
      <3> QED
        BY <3>1, <3>2, <3>3 DEF FoldersOK, Folder
    <2>10. TypeOK'
      BY <1>1, <1>2, <1>5, <2>1, <2>6 DEF ReplayInv, TypeOK
    <2> QED
      BY <1>3, <1>4, <2>9, <2>10 DEF ReplayInv
  <1> QED
    BY <1>6, <1>7

\* pyctat calls the function with what is in a folder.
LEMMA ReplayFolderKeeps ==
  ASSUME ReplayInv, NEW id \in todo, ReplayFolder(id)
  PROVE  ReplayInv'
  <1>1. /\ UNCHANGED <<fut, phase, results, nextDump, dumpId, disk, excepted>>
        /\ phase = "replay" /\ id \in DOMAIN disk
        /\ glob' = GlobalFor(disk[id]) /\ arg' = disk[id].arg
        /\ seen' = seen \cup {[id |-> id, arg |-> arg', glob |-> glob']}
        /\ todo' \subseteq DOMAIN disk /\ calling' \in BOOLEAN /\ patched' \in BOOLEAN
    BY DEF ReplayFolder, ReplayInv, TypeOK
  <1>2. PICK k \in DOMAIN results : disk[id] = Folder(results[k])
    BY <1>1 DEF ReplayInv, FoldersOK
  <1>3. results[k] \in Recorded
    BY <1>2 DEF ReplayInv, TypeOK
  <1>4. arg' \in Val /\ glob' \in Val
    BY <1>1, <1>2, <1>3 DEF GlobalFor, Folder, Recorded, ReplayInv, TypeOK
  <1>5. TypeOK'
    BY <1>1, <1>4 DEF ReplayInv, TypeOK
  <1>6. RecordedIsRun' /\ FoldersOK' /\ StagesOK'
    BY <1>1 DEF ReplayInv, RecordedIsRun, Explored, FoldersOK, ValidSoFar, Folder, StagesOK
  <1>7. SeenIsFolder'
    <2>1. disk[id].glob # NoGlob => glob' = disk[id].glob
      BY <1>1 DEF GlobalFor
    <2> QED
      BY <1>1, <2>1 DEF ReplayInv, SeenIsFolder
  <1> QED
    BY <1>5, <1>6, <1>7 DEF ReplayInv

\* The steps that leave what was recorded, written and called alone.
LEMMA OtherKeeps ==
  ASSUME ReplayInv, StartDump \/ StartReplay \/ CallEnds \/ AssertionFails \/ Report \/ UNCHANGED vars
  PROVE  ReplayInv'
  <1>1. /\ UNCHANGED <<fut, results, nextDump, dumpId, disk, seen, arg>>
        /\ todo' \subseteq DOMAIN disk
    BY DEF StartDump, StartReplay, CallEnds, AssertionFails, Report, vars, ReplayInv, TypeOK
  <1>2. RecordedIsRun' /\ FoldersOK' /\ SeenIsFolder'
    BY <1>1 DEF ReplayInv, RecordedIsRun, Explored, FoldersOK, ValidSoFar, Folder, SeenIsFolder
  <1>3. glob' \in Val
    <2>1. fut.newGlob \in [Val -> Val] /\ glob \in Val
      BY DEF ReplayInv, TypeOK, Function
    <2> QED
      BY <2>1, GlobAssumption
         DEF StartDump, StartReplay, CallEnds, AssertionFails, Report, vars
  <1>4. /\ phase' \in {"dump", "replay", "crashed", "failed", "reported", phase}
        /\ calling' \in BOOLEAN /\ patched' \in BOOLEAN
    BY DEF StartDump, StartReplay, CallEnds, AssertionFails, Report, vars, ReplayInv, TypeOK, Unpatched
  <1>5. TypeOK'
    BY <1>1, <1>3, <1>4 DEF ReplayInv, TypeOK, Ended
  <1>6. StagesOK'
    <2>1. CASE StartDump
      BY <1>1, <2>1 DEF StartDump, ReplayInv, StagesOK
    <2>2. CASE StartReplay
      <3>1. nextDump = Len(results) + 1 /\ phase' \notin {"explore", "dump"} /\ ~calling'
        BY <2>2, ValidSoFarFinite DEF StartReplay, ReplayInv, StagesOK, TypeOK
      <3> QED
        BY <1>1, <3>1 DEF StagesOK
    <2>3. CASE CallEnds \/ AssertionFails
      <3>1. phase' \in {phase, "failed"} /\ phase = "replay" /\ ~calling'
        BY <2>3 DEF CallEnds, AssertionFails, ReplayInv, StagesOK
      <3> QED
        BY <1>1, <3>1 DEF StagesOK, ReplayInv
    <2>4. CASE Report \/ UNCHANGED vars
      BY <1>1, <2>4 DEF Report, vars, ReplayInv, StagesOK
    <2> QED
      BY <2>1, <2>2, <2>3, <2>4
  <1> QED
    BY <1>2, <1>5, <1>6 DEF ReplayInv

\* Every step of pyctos and of pyctat keeps the invariant.
LEMMA ReplayInvKept == ReplayInv /\ [Next]_vars => ReplayInv'
  <1> SUFFICES ASSUME ReplayInv, [Next]_vars PROVE ReplayInv'
    OBVIOUS
  <1>1. CASE Running \/ Terminated \/ UNCHANGED vars
    BY <1>1, OtherKeeps DEF Running, Terminated
  <1>2. CASE PipelineStep
    BY <1>2, FuzzKeeps, ExploreKeeps, DumpKeeps, ReplayFolderKeeps, OtherKeeps DEF PipelineStep
  <1> QED
    BY <1>1, <1>2 DEF Next

LEMMA InitReplayInv == Init => ReplayInv
  <1> SUFFICES ASSUME Init PROVE ReplayInv
    OBVIOUS
  <1>1. results \in Seq(Recorded) /\ Len(results) = 0 /\ DOMAIN results = {}
    BY EmptySeq DEF Init
  <1>2. DOMAIN disk = {}
    BY DEF Init
  <1>3. ValidSoFar = {} /\ Cardinality(ValidSoFar) = 0
    BY FS_EmptySet DEF Init, ValidSoFar
  <1>4. TypeOK
    <2>1. fut \in Function /\ glob \in Val /\ arg \in Val
      BY GlobAssumption, FunctionsAssumption DEF Init
    <2>2. nextDump \in 1 .. Len(results) + 1 /\ dumpId \in Nat
      BY <1>1 DEF Init
    <2> QED
      BY <1>1, <2>1, <2>2 DEF Init, TypeOK
  <1>5. FoldersOK
    BY <1>1, <1>2, <1>3 DEF Init, FoldersOK
  <1> QED
    BY <1>1, <1>4, <1>5 DEF Init, ReplayInv, RecordedIsRun, Explored, StagesOK, SeenIsFolder

LEMMA ReplayInvAlways == Spec => []ReplayInv
  BY InitReplayInv, ReplayInvKept, PTL DEF Spec

-----------------------------------------------------------------------------------
(* The theorems. *)

\* The folders pyctat finds are numbered without a gap and hold every recorded input that
\* could be pickled, whichever inputs __prepare_replay_arg__ refused in between.
THEOREM ValidInputsAreDumped == Spec => []EveryValidInputDumped
  <1>1. ReplayInv => EveryValidInputDumped
    <2> SUFFICES ASSUME ReplayInv, phase \notin {"explore", "dump"} PROVE EveryValidInputDumped
      BY DEF EveryValidInputDumped
    <2>1. nextDump = Len(results) + 1 /\ Len(results) \in Nat /\ DOMAIN results = 1 .. Len(results)
      BY ValidSoFarFinite DEF ReplayInv, StagesOK
    <2>2. Valid = ValidSoFar
      BY <2>1 DEF Valid, ValidSoFar
    <2> QED
      BY <2>2 DEF ReplayInv, FoldersOK, Folder, EveryValidInputDumped
  <1> QED
    BY <1>1, ReplayInvAlways, PTL

\* A folder with a global holds an explored input, so pyctat calls the function with an
\* argument and a global that one run of the exploration had.
THEOREM ReplayedInputsWereExplored == Spec => []ExploredInputsReplayed
  <1>1. ReplayInv => ExploredInputsReplayed
    <2> SUFFICES ASSUME ReplayInv, ~fut.inPlace, NEW s \in seen, disk[s.id].glob # NoGlob
                 PROVE  \E k \in Explored : s.arg = results[k].ranArg /\ s.glob = results[k].ranGlob
      BY DEF ExploredInputsReplayed
    <2>1. s.id \in DOMAIN disk /\ s.arg = disk[s.id].arg /\ s.glob = disk[s.id].glob
      BY DEF ReplayInv, SeenIsFolder
    <2>2. PICK k \in DOMAIN results : disk[s.id] = Folder(results[k])
      BY <2>1 DEF ReplayInv, FoldersOK
    <2>3. k \in Explored /\ s.arg = results[k].arg /\ s.glob = results[k].glob
      BY <2>1, <2>2 DEF Folder, Explored
    <2> QED
      BY <2>3 DEF ReplayInv, RecordedIsRun
  <1> QED
    BY <1>1, ReplayInvAlways, PTL

\* open and the working directory are replaced only inside a call, however calls end.
THEOREM EnvironmentIsRestored == Spec => []EnvironmentRestored
  <1>1. Init => EnvironmentRestored
    BY DEF Init, EnvironmentRestored
  <1>2. EnvironmentRestored /\ [Next]_vars => EnvironmentRestored'
    BY DEF EnvironmentRestored, Next, PipelineStep, Running, Terminated, FuzzInput, ExploreInput,
       StartDump, DumpInput, StartReplay, ReplayFolder, CallEnds, AssertionFails, Report, Unpatched, vars
  <1> QED
    BY <1>1, <1>2, PTL DEF Spec

==================================================================================
