------------------------------ MODULE Fuzzer_proof ------------------------------
(* What fuzz returns, proved for every function under test.                *)
EXTENDS Fuzzer, FiniteSetTheorems, SequenceTheorems, TLAPS

\* Types hold when fuzz is called.
LEMMA InitTypeOK == Init => TypeOK
  <1> SUFFICES ASSUME Init PROVE TypeOK
    OBVIOUS
  <1>1. PICK tried \in SUBSET Arg : before = UNION {does[a].marks : a \in tried}
    BY DEF Init
  <1>2. does \in Behaviour
    BY BehavioursAssumption DEF Init
  <1>3. before \subseteq Mark
    BY <1>1, <1>2 DEF Behaviour
  <1>4. Untaken(taken) \subseteq Site /\ 0 \in 0 .. MaxAttempts
    BY AttemptsAssumption DEF Untaken
  <1>5. recorded \in Seq(Arg)
    BY EmptySeq DEF Init
  <1> QED
    BY <1>2, <1>3, <1>4, <1>5 DEF Init, TypeOK

\* The number of copies recorded is a natural number, positive if any branch was covered.
LEMMA CoveredCount ==
  ASSUME TypeOK, NEW a \in Arg
  PROVE  /\ Cardinality(Covered(a)) \in Nat
         /\ Covered(a) # {} => Cardinality(Covered(a)) > 0
  <1>1. IsFiniteSet(Covered(a))
    BY SiteAssumption, FS_Subset DEF Covered, TypeOK
  <1> QED
    BY <1>1, FS_CardinalityType, FS_EmptySet

\* The recorded inputs grow by copies of the argument, at least one if it covered a branch.
LEMMA FuzzAppends ==
  ASSUME TypeOK, NEW a \in Arg, FuzzReturns(a)
  PROVE  /\ recorded' \in Seq(Arg)
         /\ \A k \in DOMAIN recorded : k \in DOMAIN recorded' /\ recorded'[k] = recorded[k]
         /\ Covered(a) # {} => \E k \in DOMAIN recorded' : recorded'[k] = a
  <1> DEFINE n == Cardinality(Covered(a))
             copies == [k \in 1 .. n |-> a]
  <1>1. recorded \in Seq(Arg) /\ recorded' = recorded \o copies
    BY DEF TypeOK, FuzzReturns
  <1>2. n \in Nat /\ (Covered(a) # {} => n > 0)
    BY CoveredCount
  <1> HIDE DEF n
  <1>3. copies \in Seq(Arg) /\ Len(copies) = n
    <2>1. copies \in [1 .. n -> Arg]
      OBVIOUS
    <2> QED
      BY <1>2, <2>1
  <1>4. /\ \A k \in 1 .. n : copies[k] = a
        /\ Len(recorded) \in Nat /\ DOMAIN recorded = 1 .. Len(recorded)
    BY <1>1, LenProperties
  <1> HIDE DEF copies
  <1>5. /\ recorded' \in Seq(Arg)
        /\ Len(recorded') = Len(recorded) + n
        /\ \A k \in 1 .. Len(recorded') :
             recorded'[k] = IF k <= Len(recorded) THEN recorded[k] ELSE copies[k - Len(recorded)]
    BY <1>1, <1>3, ConcatProperties
  <1>6. DOMAIN recorded' = 1 .. Len(recorded')
    BY <1>5, LenProperties
  <1>7. ASSUME n > 0 PROVE Len(recorded) + 1 \in DOMAIN recorded' /\ recorded'[Len(recorded) + 1] = a
    <2>1. /\ Len(recorded) + 1 \in 1 .. Len(recorded')
          /\ Len(recorded) + 1 - Len(recorded) = 1 /\ 1 \in 1 .. n
      BY <1>2, <1>4, <1>5, <1>7
    <2> QED
      BY <1>4, <1>5, <1>6, <2>1
  <1> QED
    BY <1>2, <1>4, <1>5, <1>6, <1>7

\* Every fuzzed call keeps the types.
LEMMA NextTypeOK == TypeOK /\ [Next]_vars => TypeOK'
  <1> SUFFICES ASSUME TypeOK, [Next]_vars PROVE TypeOK'
    OBVIOUS
  <1>1. ASSUME NEW a \in Arg, FuzzRaises(a) PROVE TypeOK'
    <2>1. does[a].marks \subseteq Mark /\ counter + 1 \in 0 .. MaxAttempts
      BY <1>1, AttemptsAssumption DEF FuzzRaises, Fuzzing, TypeOK, Behaviour
    <2> QED
      BY <1>1, <2>1 DEF FuzzRaises, CountFailure, TypeOK
  <1>2. ASSUME NEW a \in Arg, FuzzReturns(a) PROVE TypeOK'
    <2>1. does[a].marks \subseteq Mark /\ counter + 1 \in 0 .. MaxAttempts
      BY <1>2, AttemptsAssumption DEF FuzzReturns, Fuzzing, TypeOK, Behaviour
    <2>2. recorded' \in Seq(Arg)
      BY <1>2, FuzzAppends
    <2>3. missing' \subseteq Site
      BY <1>2 DEF FuzzReturns, StillMissing, Untaken, TypeOK
    <2> QED
      BY <1>2, <2>1, <2>2, <2>3 DEF FuzzReturns, TypeOK
  <1>3. CASE Finish \/ UNCHANGED vars
    BY <1>3 DEF Finish, vars, TypeOK
  <1> QED
    BY <1>1, <1>2, <1>3 DEF Next, FuzzStep, Terminated

\* The type invariant of the fuzzer.
THEOREM TypeCorrect == Spec => []TypeOK
  <1> QED
    BY InitTypeOK, NextTypeOK, PTL DEF Spec

\* Why CoveredIsRecorded is inductive: until a call raises, nothing leaves
\* missing_branches unless an input is recorded for it.
MissingComplete ==
  /\ before \subseteq taken
  /\ ~raised => Untaken(before) \cap Untaken(taken) \subseteq missing

\* What a fuzzed call covers is recorded with its input.
LEMMA NextCovered ==
  TypeOK /\ MissingComplete /\ CoveredIsRecorded /\ [Next]_vars
    => MissingComplete' /\ CoveredIsRecorded'
  <1> SUFFICES ASSUME TypeOK, MissingComplete, CoveredIsRecorded, [Next]_vars
               PROVE  MissingComplete' /\ CoveredIsRecorded'
    OBVIOUS
  <1>1. ASSUME NEW a \in Arg, FuzzRaises(a) PROVE MissingComplete' /\ CoveredIsRecorded'
    BY <1>1 DEF FuzzRaises, MissingComplete, CoveredIsRecorded
  <1>2. ASSUME NEW a \in Arg, FuzzReturns(a) PROVE MissingComplete' /\ CoveredIsRecorded'
    <2> DEFINE Seen == taken \cup does[a].marks
    <2>1. /\ taken' = Seen /\ before' = before /\ does' = does /\ raised' = raised
          /\ missing' = StillMissing(a)
      BY <1>2 DEF FuzzReturns
    <2>2. MissingComplete'
      <3>1. Untaken(before) \cap Untaken(Seen) \subseteq Untaken(taken)
        BY DEF Untaken, MissingComplete
      <3>2. ~raised => Untaken(before) \cap Untaken(Seen) \subseteq missing \cap Untaken(Seen)
        BY <3>1 DEF MissingComplete
      <3>3. missing \cap Untaken(Seen) \subseteq StillMissing(a)
        BY DEF StillMissing
      <3>4. Untaken(before') = Untaken(before) /\ Untaken(taken') = Untaken(Seen)
        BY <2>1
      <3> QED
        BY <2>1, <3>2, <3>3, <3>4 DEF MissingComplete
    <2>3. ASSUME ~raised, NEW s \in Untaken(before) \ Untaken(Seen)
          PROVE  \E b \in BOOLEAN : <<s, b>> \in RecordedMarks' \ before
      <3>1. \A k \in DOMAIN recorded : k \in DOMAIN recorded' /\ recorded'[k] = recorded[k]
        BY <1>2, FuzzAppends
      <3>2. Covered(a) # {} => a \in Recorded'
        BY <1>2, FuzzAppends DEF Recorded
      <3>3. RecordedMarks \subseteq RecordedMarks'
        BY <2>1, <3>1 DEF RecordedMarks, Recorded
      <3>4. CASE s \notin Untaken(taken)
        BY <2>3, <3>3, <3>4 DEF CoveredIsRecorded
      <3>5. CASE s \in Untaken(taken)
        <4>1. s \in Covered(a)
          BY <2>3, <3>5 DEF Covered, MissingComplete
        <4>2. does[a].marks \subseteq RecordedMarks'
          BY <2>1, <3>2, <4>1 DEF RecordedMarks
        <4>3. PICK b \in BOOLEAN : <<s, b>> \in before /\ <<s, ~b>> \notin before
          BY <2>3 DEF Untaken
        <4>4. <<s, ~b>> \in Seen /\ <<s, ~b>> \notin taken
          BY <2>3, <3>5, <4>3 DEF Untaken, MissingComplete
        <4> QED
          BY <4>2, <4>3, <4>4
      <3> QED
        BY <3>4, <3>5
    <2> QED
      BY <2>1, <2>2, <2>3 DEF CoveredIsRecorded
  <1>3. CASE Finish \/ UNCHANGED vars
    BY <1>3 DEF Finish, vars, MissingComplete, CoveredIsRecorded, RecordedMarks, Recorded, Untaken
  <1> QED
    BY <1>1, <1>2, <1>3 DEF Next, FuzzStep, Terminated

\* What was untaken before fuzzing and is taken after it was taken by an input
\* fuzz returns, unless a fuzzed call raised.
THEOREM CoverageComesWithAnInput == Spec => []CoveredIsRecorded
  <1>1. Init => MissingComplete /\ CoveredIsRecorded
    BY DEF Init, MissingComplete, CoveredIsRecorded
  <1> QED
    BY <1>1, NextCovered, TypeCorrect, PTL DEF Spec

\* Why RecordedIsUseful is inductive: until a call raises, every missing branch is still
\* untaken, and what the returned inputs take counts as taken.
MissingIsUntaken ==
  /\ before \cup RecordedMarks \subseteq taken
  /\ ~raised => missing \subseteq Untaken(taken)

\* An input that covers a missing branch takes an outcome nothing took before.
LEMMA CoveringTakesANewMark ==
  ASSUME MissingIsUntaken, ~raised, NEW a \in Arg, Covered(a) # {}
  PROVE  does[a].marks \ taken # {}
  <1>1. PICK s \in missing : s \notin Untaken(taken \cup does[a].marks)
    BY DEF Covered
  <1>2. s \in Site
    BY <1>1 DEF MissingIsUntaken, Untaken
  <1>3. PICK b \in BOOLEAN : <<s, b>> \in taken /\ <<s, ~b>> \notin taken
    BY <1>1 DEF MissingIsUntaken, Untaken
  <1>4. <<s, b>> \in taken \cup does[a].marks
    BY <1>3
  <1>5. <<s, ~b>> \in taken \cup does[a].marks
    BY <1>1, <1>2, <1>4 DEF Untaken
  <1> QED
    BY <1>3, <1>5

\* The marks of the inputs recorded before the k-th that are not its copies.
Earlier(k) == UNION {does[recorded[j]].marks : j \in {j \in 1 .. k - 1 : recorded[j] # recorded[k]}}

\* A recorded sequence that keeps its entries keeps what is earlier than each of them;
\* what is earlier than a new entry are old entries only.
LEMMA EarlierIsOld ==
  ASSUME TypeOK, NEW a \in Arg, FuzzReturns(a), NEW k \in DOMAIN recorded'
  PROVE  /\ k \in DOMAIN recorded => Earlier(k)' = Earlier(k) /\ recorded'[k] = recorded[k]
         /\ k \notin DOMAIN recorded =>
              recorded'[k] = a /\ Covered(a) # {} /\ Earlier(k)' \subseteq RecordedMarks
  <1> DEFINE n == Cardinality(Covered(a))
             copies == [m \in 1 .. n |-> a]
  <1>1. recorded \in Seq(Arg) /\ recorded' = recorded \o copies /\ does' = does
    BY DEF TypeOK, FuzzReturns
  <1>2. n \in Nat /\ (Covered(a) = {} => n = 0)
    BY CoveredCount, FS_EmptySet
  <1> HIDE DEF n
  <1>3. copies \in Seq(Arg) /\ Len(copies) = n
    <2>1. copies \in [1 .. n -> Arg]
      OBVIOUS
    <2> QED
      BY <1>2, <2>1
  <1>4. /\ \A m \in 1 .. n : copies[m] = a
        /\ Len(recorded) \in Nat /\ DOMAIN recorded = 1 .. Len(recorded)
    BY <1>1, LenProperties
  <1> HIDE DEF copies
  <1>5. /\ recorded' \in Seq(Arg)
        /\ Len(recorded') = Len(recorded) + n
        /\ \A m \in 1 .. Len(recorded') :
             recorded'[m] = IF m <= Len(recorded) THEN recorded[m] ELSE copies[m - Len(recorded)]
    BY <1>1, <1>3, ConcatProperties
  <1>6. DOMAIN recorded' = 1 .. Len(recorded) + n
    BY <1>5, LenProperties
  <1>7. \A m \in DOMAIN recorded : recorded'[m] = recorded[m]
    BY <1>2, <1>4, <1>5
  <1>8. \A m \in DOMAIN recorded' \ DOMAIN recorded : recorded'[m] = a /\ n # 0
    <2> SUFFICES ASSUME NEW m \in DOMAIN recorded', m \notin DOMAIN recorded
                 PROVE  recorded'[m] = a /\ n # 0
      OBVIOUS
    <2>1. m \in Int /\ m > Len(recorded) /\ m - Len(recorded) \in 1 .. n
      BY <1>2, <1>4, <1>6
    <2>2. recorded'[m] = copies[m - Len(recorded)]
      BY <1>2, <1>4, <1>5, <1>6, <2>1
    <2> QED
      BY <1>2, <1>4, <2>1, <2>2
  <1>9. k \in Int /\ k \in 1 .. Len(recorded) + n
    BY <1>2, <1>4, <1>6
  <1>10. ASSUME k \in DOMAIN recorded
         PROVE  Earlier(k)' = Earlier(k) /\ recorded'[k] = recorded[k]
    <2>1. \A j \in 1 .. k - 1 : recorded'[j] = recorded[j]
      BY <1>4, <1>7, <1>9, <1>10
    <2>2. recorded'[k] = recorded[k]
      BY <1>7, <1>10
    <2>3. {j \in 1 .. k - 1 : recorded'[j] # recorded'[k]} = {j \in 1 .. k - 1 : recorded[j] # recorded[k]}
      BY <2>1, <2>2
    <2> QED
      BY <1>1, <2>1, <2>2, <2>3 DEF Earlier
  <1>11. ASSUME k \notin DOMAIN recorded
         PROVE  recorded'[k] = a /\ Covered(a) # {} /\ Earlier(k)' \subseteq RecordedMarks
    <2>1. recorded'[k] = a /\ n # 0
      BY <1>8, <1>11
    <2>2. ASSUME NEW j \in 1 .. k - 1, recorded'[j] # recorded'[k]
          PROVE  j \in DOMAIN recorded /\ recorded'[j] = recorded[j]
      <3>1. j \in DOMAIN recorded'
        BY <1>2, <1>4, <1>6, <1>9
      <3> QED
        BY <1>7, <1>8, <2>1, <2>2, <3>1
    <2>3. Earlier(k)' = UNION {does[recorded'[j]].marks : j \in {j \in 1 .. k - 1 : recorded'[j] # recorded'[k]}}
      BY <1>1 DEF Earlier
    <2>4. ASSUME NEW j \in 1 .. k - 1, recorded'[j] # recorded'[k]
          PROVE  does[recorded'[j]].marks \subseteq RecordedMarks
      BY <2>2, <2>4 DEF RecordedMarks, Recorded
    <2> QED
      BY <1>2, <2>1, <2>3, <2>4
  <1> QED
    BY <1>10, <1>11

\* What a fuzzed call records is of use.
LEMMA NextUseful ==
  TypeOK /\ MissingIsUntaken /\ RecordedIsUseful /\ [Next]_vars
    => MissingIsUntaken' /\ RecordedIsUseful'
  <1> SUFFICES ASSUME TypeOK, MissingIsUntaken, RecordedIsUseful, [Next]_vars
               PROVE  MissingIsUntaken' /\ RecordedIsUseful'
    OBVIOUS
  <1>0. ~raised => \A k \in DOMAIN recorded : does[recorded[k]].marks \ (before \cup Earlier(k)) # {}
    BY DEF RecordedIsUseful, Earlier
  <1>1. ASSUME NEW a \in Arg, FuzzRaises(a) PROVE MissingIsUntaken' /\ RecordedIsUseful'
    BY <1>1 DEF FuzzRaises, MissingIsUntaken, RecordedIsUseful, RecordedMarks, Recorded
  <1>2. ASSUME NEW a \in Arg, FuzzReturns(a) PROVE MissingIsUntaken' /\ RecordedIsUseful'
    <2> DEFINE Seen == taken \cup does[a].marks
    <2>1. /\ taken' = Seen /\ before' = before /\ does' = does /\ raised' = raised
          /\ missing' = StillMissing(a)
      BY <1>2 DEF FuzzReturns
    <2>2. RecordedMarks' \subseteq RecordedMarks \cup does[a].marks
      <3>1. \A k \in DOMAIN recorded' :
              recorded'[k] = a \/ (k \in DOMAIN recorded /\ recorded'[k] = recorded[k])
        BY <1>2, EarlierIsOld
      <3> QED
        BY <2>1, <3>1 DEF RecordedMarks, Recorded
    <2>3. ~raised => StillMissing(a) \subseteq Untaken(Seen)
      BY DEF StillMissing, Covered
    <2>4. Untaken(taken') = Untaken(Seen)
      BY <2>1
    <2>5. MissingIsUntaken'
      BY <2>1, <2>2, <2>3, <2>4 DEF MissingIsUntaken
    <2>6. ASSUME ~raised, NEW k \in DOMAIN recorded'
          PROVE  does[recorded'[k]].marks \ (before \cup Earlier(k)') # {}
      <3>1. CASE k \in DOMAIN recorded
        BY <1>0, <1>2, <2>6, <3>1, EarlierIsOld
      <3>2. CASE k \notin DOMAIN recorded
        <4>1. recorded'[k] = a /\ Covered(a) # {} /\ Earlier(k)' \subseteq RecordedMarks
          BY <1>2, <3>2, EarlierIsOld
        <4>2. does[a].marks \ taken # {}
          BY <2>6, <4>1, CoveringTakesANewMark
        <4> QED
          BY <4>1, <4>2 DEF MissingIsUntaken
      <3> QED
        BY <3>1, <3>2
    <2>7. RecordedIsUseful'
      BY <2>1, <2>6 DEF RecordedIsUseful, Earlier
    <2> QED
      BY <2>5, <2>7
  <1>3. CASE Finish \/ UNCHANGED vars
    BY <1>3 DEF Finish, vars, MissingIsUntaken, RecordedIsUseful, RecordedMarks, Recorded, Untaken
  <1> QED
    BY <1>1, <1>2, <1>3 DEF Next, FuzzStep, Terminated

\* Every input fuzz returns takes a branch outcome that neither the exploration nor a
\* different input returned before it took, unless a fuzzed call raised.
THEOREM ReturnedInputsAreUseful == Spec => []RecordedIsUseful
  <1>1. Init => MissingIsUntaken /\ RecordedIsUseful
    BY DEF Init, MissingIsUntaken, RecordedIsUseful, RecordedMarks, Recorded
  <1> QED
    BY <1>1, NextUseful, TypeCorrect, PTL DEF Spec
=================================================================================
