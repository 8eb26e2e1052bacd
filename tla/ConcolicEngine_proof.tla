-------------------------- MODULE ConcolicEngine_proof --------------------------
(***************************************************************************)
(* Theorems about ConcolicEngine, for every set of inputs, every function  *)
(* under test, every depth limit and every conversion of models.           *)
(***************************************************************************)
EXTENDS ConcolicEngine, SequenceTheorems, TLAPS

\* The last frame and the frames below it.
LEMMA PopFrame ==
  ASSUME NEW S, NEW s \in Seq(S), s # <<>>
  PROVE  /\ Len(s) \in DOMAIN s
         /\ s[Len(s)] \in S
         /\ SubSeq(s, 1, Len(s) - 1) \in Seq(S)
         /\ DOMAIN SubSeq(s, 1, Len(s) - 1) = 1 .. (Len(s) - 1)
         /\ \A k \in 1 .. (Len(s) - 1) : SubSeq(s, 1, Len(s) - 1)[k] = s[k]
         /\ DOMAIN s = (1 .. (Len(s) - 1)) \cup {Len(s)}
  <1>1. Len(s) \in Nat /\ Len(s) # 0 /\ DOMAIN s = 1 .. Len(s)
    BY EmptySeq, LenProperties
  <1>2. s[Len(s)] \in S
    BY <1>1, ElementOfSeq
  <1>3. \A k \in 1 .. (Len(s) - 1) : s[k] \in S
    BY <1>1, ElementOfSeq
  <1>4. /\ SubSeq(s, 1, Len(s) - 1) \in Seq(S)
        /\ Len(SubSeq(s, 1, Len(s) - 1)) = Len(s) - 1
        /\ \A k \in 1 .. (Len(s) - 1) : SubSeq(s, 1, Len(s) - 1)[k] = s[k]
    BY <1>1, <1>3, SubSeqProperties
  <1>5. DOMAIN SubSeq(s, 1, Len(s) - 1) = 1 .. (Len(s) - 1)
    BY <1>4, LenProperties
  <1> QED
    BY <1>1, <1>2, <1>4, <1>5

\* A pushed frame and the frames it is pushed on.
LEMMA PushFrame ==
  ASSUME NEW S, NEW s \in Seq(S), NEW e \in S
  PROVE  /\ Append(s, e) \in Seq(S)
         /\ Len(s) \in Nat
         /\ DOMAIN s = 1 .. Len(s)
         /\ DOMAIN Append(s, e) = 1 .. (Len(s) + 1)
         /\ \A k \in 1 .. Len(s) : Append(s, e)[k] = s[k]
         /\ Append(s, e)[Len(s) + 1] = e
  <1>1. Len(s) \in Nat /\ DOMAIN s = 1 .. Len(s)
    BY LenProperties
  <1>2. /\ Append(s, e) \in Seq(S)
        /\ Len(Append(s, e)) = Len(s) + 1
        /\ \A k \in 1 .. Len(s) : Append(s, e)[k] = s[k]
        /\ Append(s, e)[Len(s) + 1] = e
    BY AppendProperties
  <1>3. DOMAIN Append(s, e) = 1 .. (Len(s) + 1)
    BY <1>2, LenProperties
  <1> QED
    BY <1>1, <1>2, <1>3

----------------------------------------------------------------------------------
(* Type correctness.                                                       *)

\* The fields of the function under test, whichever it is.
LEMMA ProgramFields ==
  ASSUME NEW p \in Program, NEW n \in Node
  PROVE  /\ p.entry \in Node
         /\ p.kind[n] \in Kinds
         /\ p.site[n] \in Site
         /\ p.holds[n] \subseteq Input
         /\ p.then[n] \in Node
         /\ p.else[n] \in Node
         /\ p.handler[n] \in Node \cup {None}
  BY DEF Program

\* Types hold when the engine is created.
LEMMA InitTypeOK == Init => TypeOK
  <1> SUFFICES ASSUME Init PROVE TypeOK
    OBVIOUS
  <1>1. prog \in Program
    BY ProgramsAssumption DEF Init
  <1>2. prog.entry \in Node
    BY <1>1 DEF Program
  <1>3. unexplored \in Seq(Frame) /\ explored \in Seq(Input) /\ path \in Seq(Step)
    BY EmptySeq DEF Init
  <1> QED
    BY <1>1, <1>2, <1>3, InputAssumption DEF Init, TypeOK

\* What the ways of leaving a node do to the types.
LEMMA LeavingTypes ==
  ASSUME TypeOK
  PROVE  /\ Kind \in Kinds
         /\ Outcome \in BOOLEAN
         /\ Proceed(Outcome) \/ Proceed(TRUE) \/ Proceed(FALSE)
              => node' \in Node /\ path' \in Seq(Step) /\ runs' = runs /\ phase' = phase
         /\ Caught /\ GoToHandler => node' \in Node /\ runs' = runs /\ phase' = phase
         /\ \A end \in {"return", "raise", "depth"} :
              EndRun(end) => node' = node /\ runs' \subseteq Run /\ phase' = "loop"
  <1> USE DEF TypeOK
  <1>1. Kind \in Kinds
    BY ProgramFields DEF Kind
  <1>2. Outcome \in BOOLEAN
    BY DEF Outcome
  <1>3. ASSUME NEW b \in BOOLEAN, Proceed(b)
        PROVE  node' \in Node /\ path' \in Seq(Step) /\ runs' = runs /\ phase' = phase
    <2>1. [at |-> node, outcome |-> b] \in Step
      BY DEF Step
    <2>2. path' \in Seq(Step)
      BY <1>3, <2>1, AppendProperties DEF Proceed
    <2> QED
      BY <1>3, <2>2, ProgramFields DEF Proceed
  <1>4. Caught /\ GoToHandler => node' \in Node /\ runs' = runs /\ phase' = phase
    BY ProgramFields DEF Caught, GoToHandler
  <1>5. ASSUME NEW end \in {"return", "raise", "depth"}, EndRun(end)
        PROVE  node' = node /\ runs' \subseteq Run /\ phase' = "loop"
    <2>1. [input |-> cur, class |-> pathCond, path |-> path, end |-> end] \in Run
      BY DEF Run
    <2> QED
      BY <1>5, <2>1 DEF EndRun
  <1> QED
    BY <1>1, <1>2, <1>3, <1>4, <1>5

\* Every step of explore and of the function under test keeps the types.
LEMMA NextTypeOK == TypeOK /\ LatestIsCurrent /\ [Next]_vars => TypeOK'
  <1> SUFFICES ASSUME TypeOK, LatestIsCurrent, [Next]_vars PROVE TypeOK'
    OBVIOUS
  <1> USE DEF TypeOK
  <1>1. CASE Setup
    <2>1. [pc |-> pathCond, input |-> DefaultInput] \in Frame
      BY InputAssumption DEF Frame
    <2>2. <<[pc |-> pathCond, input |-> DefaultInput]>> \in Seq(Frame)
      BY <2>1
    <2>3. unexplored' \in Seq(Frame) /\ dropped' \subseteq Input
      BY <1>1, <2>2 DEF Setup
    <2> QED
      BY <1>1, <2>3 DEF Setup
  <1>2. CASE NextInput
    <2> DEFINE frame == unexplored[Len(unexplored)]
    <2>1. frame \in Frame /\ unexplored' \in Seq(Frame)
      BY <1>2, PopFrame DEF NextInput, Popped
    <2>2. frame.pc \subseteq Input /\ frame.input \in Input
      BY <2>1 DEF Frame
    <2>3. /\ Append(explored, frame.input) \in Seq(Input)
          /\ prog.entry \in Node
          /\ <<>> \in Seq(Step)
      BY <2>2, ProgramFields, AppendProperties, EmptySeq
    <2>4. /\ explored' \in Seq(Input) /\ cur' \in Input /\ phase' \in {"loop", "run"}
          /\ dropped' \subseteq Input /\ node' \in Node /\ path' \in Seq(Step)
      BY <1>2, <2>2, <2>3 DEF NextInput, Popped
    <2> QED
      BY <1>2, <2>1, <2>2, <2>4 DEF NextInput, Popped
  <1>3. CASE Exhausted
    BY <1>3 DEF Exhausted, engineVars, history, Ended
  <1>4. CASE DepthExceeded
    <2>1. node' \in Node /\ runs' \subseteq Run /\ phase' \in {"loop", phase}
      BY <1>4, LeavingTypes DEF DepthExceeded
    <2>2. depth' \in Nat
      BY <1>4 DEF DepthExceeded
    <2> QED
      BY <1>4, <2>1, <2>2 DEF DepthExceeded, NoteMaxDepth
  <1>5. CASE RecordPath
    <2>1. OtherPath \subseteq Input /\ SamePath \subseteq Input
      BY DEF OtherPath, SamePath
    <2>2. unexplored' \in Seq(Frame) /\ dropped' \subseteq Input
      <3>1. ASSUME NEW model \in OtherPath
            PROVE  Append(unexplored, [pc |-> OtherPath, input |-> Convert[model]]) \in Seq(Frame)
        <4>1. [pc |-> OtherPath, input |-> Convert[model]] \in Frame
          BY <2>1, ConvertAssumption DEF Frame
        <4> QED
          BY <4>1, AppendProperties
      <3> QED
        BY <1>5, <2>1, <3>1 DEF RecordPath
    <2>3. taken' \subseteq Site \X BOOLEAN
      BY <1>5, ProgramFields, LeavingTypes DEF RecordPath, Mark
    <2>4. depth' \in Nat
      BY <1>5 DEF RecordPath
    <2>5. node' \in Node /\ path' \in Seq(Step) /\ runs' = runs /\ phase' = phase
      BY <1>5, LeavingTypes DEF RecordPath
    <2> QED
      BY <1>5, <2>1, <2>2, <2>3, <2>4, <2>5 DEF RecordPath
  <1>6. CASE PlainBranch
    <2>1. node' \in Node /\ path' \in Seq(Step) /\ runs' = runs /\ phase' = phase
      BY <1>6, LeavingTypes DEF PlainBranch
    <2>2. taken' \subseteq Site \X BOOLEAN
      BY <1>6, ProgramFields, LeavingTypes DEF PlainBranch, Mark
    <2> QED
      BY <1>6, <2>1, <2>2 DEF PlainBranch, engineVars
  <1>7. CASE MakeAssertion
    <2>1. node' \in Node /\ path' \in Seq(Step) /\ runs' = runs /\ phase' = phase
      BY <1>7, LeavingTypes DEF MakeAssertion
    <2> QED
      BY <1>7, <2>1 DEF MakeAssertion
  <1>8. CASE AssertionHolds
    <2>1. node' \in Node /\ path' \in Seq(Step) /\ runs' = runs /\ phase' = phase
      BY <1>8, LeavingTypes DEF AssertionHolds
    <2> QED
      BY <1>8, <2>1 DEF AssertionHolds, engineVars
  <1>9. CASE AssertionFails
    <2>1. node' \in Node /\ runs' = runs /\ phase' \in {phase, "failed"}
      BY <1>9, LeavingTypes DEF AssertionFails
    <2> QED
      BY <1>9, <2>1 DEF AssertionFails, engineVars, Ended
  <1>10. CASE Call
    <2>1. node' \in Node /\ path' \in Seq(Step) /\ runs' = runs /\ phase' = phase
      BY <1>10, LeavingTypes DEF Call
    <2> QED
      BY <1>10, <2>1 DEF Call, engineVars
  <1>11. CASE FeatureFound
    <2>1. node' \in Node /\ runs' = runs /\ phase' \in {phase, "stopped"}
      BY <1>11, LeavingTypes DEF FeatureFound
    <2>2. explored \in Seq(Input) /\ explored # <<>>
      BY <1>11 DEF FeatureFound, Running, LatestIsCurrent, InRun
    <2>3. LatestInput \in Input
      BY <2>2, PopFrame DEF LatestInput
    <2>4. yamlInput' \subseteq Input
      BY <1>11, <2>3 DEF FeatureFound
    <2> QED
      BY <1>11, <2>1, <2>4 DEF FeatureFound, Ended
  <1>12. CASE OrdinaryException
    <2>1. node' \in Node /\ runs' \subseteq Run /\ phase' \in {"loop", phase}
      BY <1>12, LeavingTypes DEF OrdinaryException
    <2> QED
      BY <1>12, <2>1 DEF OrdinaryException, engineVars
  <1>13. CASE Return
    <2>1. node' \in Node /\ runs' \subseteq Run /\ phase' = "loop"
      BY <1>13, LeavingTypes DEF Return
    <2> QED
      BY <1>13, <2>1 DEF Return, engineVars
  <1>14. CASE ConversionFails
    <2>1. node' \in Node /\ runs' \subseteq Run /\ phase' \in {"loop", phase}
      BY <1>14, LeavingTypes DEF ConversionFails
    <2>2. pathCond' \subseteq Input /\ dropped' \subseteq Input
      BY <1>14 DEF ConversionFails, SamePath, OtherPath
    <2>3. depth' \in Nat
      BY <1>14 DEF ConversionFails
    <2> QED
      BY <1>14, <2>1, <2>2, <2>3 DEF ConversionFails
  <1>15. CASE UNCHANGED vars
    BY <1>15 DEF vars, engineVars, history
  <1> QED
    BY <1>1, <1>2, <1>3, <1>4, <1>5, <1>6, <1>7, <1>8, <1>9, <1>10, <1>11, <1>12, <1>13, <1>14,
       <1>15
    DEF Next, FunctionStep, Terminated

\* The input being run stays explored_inputs[-1].
LEMMA NextLatest == TypeOK /\ LatestIsCurrent /\ [Next]_vars => LatestIsCurrent'
  <1> SUFFICES ASSUME TypeOK, LatestIsCurrent, [Next]_vars PROVE LatestIsCurrent'
    OBVIOUS
  <1> USE DEF LatestIsCurrent, InRun, LatestInput
  <1>1. CASE NextInput
    <2> DEFINE frame == unexplored[Len(unexplored)]
    <2>1. frame.input \in Input
      <3>1. frame \in Frame
        BY <1>1, PopFrame DEF NextInput, Popped, TypeOK
      <3> QED
        BY <3>1 DEF Frame
    <2>2. Append(explored, frame.input)[Len(explored) + 1] = frame.input
      BY <2>1, AppendProperties DEF TypeOK
    <2>3. /\ Append(explored, frame.input) # <<>>
          /\ Len(Append(explored, frame.input)) = Len(explored) + 1
      BY <2>1, AppendProperties DEF TypeOK
    <2> QED
      BY <1>1, <2>2, <2>3 DEF NextInput, Popped
  <1>2. CASE ~NextInput
    <2>1. explored' = explored /\ cur' = cur
      BY <1>2 DEF Next, Setup, Exhausted, FunctionStep, DepthExceeded, RecordPath, ConversionFails,
        PlainBranch, MakeAssertion, AssertionHolds, AssertionFails, Call, FeatureFound, OrdinaryException,
        Return, Terminated, engineVars, history, vars
    <2>2. InRun' => InRun
      BY <1>2 DEF Next, Setup, Exhausted, FunctionStep, DepthExceeded, RecordPath, ConversionFails,
        PlainBranch, MakeAssertion, AssertionHolds, AssertionFails, Call, FeatureFound, OrdinaryException,
        Return, Terminated, engineVars, history, vars, Running, EndRun, GoToHandler, Proceed
    <2> QED
      BY <2>1, <2>2
  <1> QED
    BY <1>1, <1>2

\* The variables of the engine have their types in every reachable state, and
\* explored_inputs[-1] is the input being run.
THEOREM TypeCorrect == Spec => [](TypeOK /\ LatestIsCurrent)
  <1>1. Init => TypeOK /\ LatestIsCurrent
    BY InitTypeOK DEF Init, LatestIsCurrent, InRun
  <1>2. TypeOK /\ LatestIsCurrent /\ [Next]_vars => (TypeOK /\ LatestIsCurrent)'
    BY NextTypeOK, NextLatest
  <1> QED
    BY <1>1, <1>2, PTL DEF Spec

----------------------------------------------------------------------------------
(* Every step, as the abstract search sees it.                             *)

\* A step of the function under test either changes none of the classes, or
\* takes inputs out of the current one, or ends the run.
LEMMA FunctionSteps ==
  ASSUME TypeOK, FunctionStep
  PROVE  /\ phase = "run"
         /\ \/ /\ phase' \in {"run", "stopped", "failed"}
               /\ UNCHANGED <<unexplored, pathCond, runs, dropped>>
            \/ /\ phase' = "run"
               /\ UNCHANGED runs
               /\ pathCond' = SamePath
               /\ OtherPath = {}
               /\ UNCHANGED <<unexplored, dropped>>
            \/ /\ phase' = "run"
               /\ UNCHANGED runs
               /\ pathCond' = SamePath
               /\ OtherPath # {}
               /\ \E i \in Input :
                    unexplored' = Append(unexplored, [pc |-> OtherPath, input |-> i])
               /\ UNCHANGED dropped
            \/ /\ phase' = "run"
               /\ UNCHANGED <<runs, unexplored>>
               /\ pathCond' \subseteq pathCond
               /\ dropped' = dropped \cup (pathCond \ pathCond')
            \/ /\ phase' = "loop"
               /\ UNCHANGED unexplored
               /\ dropped \subseteq dropped'
               /\ \E end \in {"return", "raise", "depth"} :
                    runs' = runs \cup {[input |-> cur, class |-> pathCond, path |-> path,
                                        end |-> end]}
  <1> USE DEF Running
  <1>1. CASE DepthExceeded
    BY <1>1 DEF DepthExceeded, GoToHandler, EndRun
  <1>2. CASE RecordPath
    <2>1. \A model \in OtherPath : Convert[model] \in Input
      BY ConvertAssumption DEF OtherPath, TypeOK
    <2>2. pathCond \ SamePath = OtherPath /\ SamePath \subseteq pathCond
      BY DEF OtherPath, SamePath
    <2>3. phase = "run" /\ phase' = "run" /\ UNCHANGED runs /\ pathCond' = SamePath
      BY <1>2 DEF RecordPath, Proceed
    <2> QED
      BY <1>2, <2>1, <2>2, <2>3 DEF RecordPath
  <1>3. CASE PlainBranch
    BY <1>3 DEF PlainBranch, Proceed, engineVars
  <1>4. CASE MakeAssertion
    <2>1. /\ phase = "run" /\ phase' = "run" /\ UNCHANGED <<runs, unexplored>>
          /\ pathCond' = pathCond \cap prog.holds[node]
          /\ dropped' = dropped \cup (pathCond \ prog.holds[node])
      BY <1>4 DEF MakeAssertion, Proceed
    <2>2. pathCond \ (pathCond \cap prog.holds[node]) = pathCond \ prog.holds[node]
      OBVIOUS
    <2> QED
      BY <2>1, <2>2
  <1>5. CASE AssertionHolds
    BY <1>5 DEF AssertionHolds, Proceed, engineVars
  <1>6. CASE AssertionFails
    BY <1>6 DEF AssertionFails, GoToHandler, engineVars
  <1>7. CASE Call
    BY <1>7 DEF Call, Proceed, engineVars
  <1>8. CASE FeatureFound
    BY <1>8 DEF FeatureFound, GoToHandler
  <1>9. CASE OrdinaryException
    BY <1>9 DEF OrdinaryException, GoToHandler, EndRun, engineVars
  <1>10. CASE Return
    BY <1>10 DEF Return, EndRun, engineVars
  <1>11. CASE ConversionFails
    <2>1. pathCond \ SamePath = OtherPath /\ SamePath \subseteq pathCond
      BY DEF OtherPath, SamePath
    <2>2. /\ phase = "run" /\ UNCHANGED unexplored
          /\ pathCond' = SamePath /\ dropped' = dropped \cup OtherPath
      BY <1>11 DEF ConversionFails
    <2>3. \/ phase' = "run" /\ UNCHANGED runs
          \/ /\ phase' = "loop"
             /\ runs' = runs \cup {[input |-> cur, class |-> pathCond, path |-> path,
                                     end |-> "raise"]}
      BY <1>11 DEF ConversionFails, GoToHandler, EndRun
    <2> QED
      BY <2>1, <2>2, <2>3
  <1> QED
    BY <1>1, <1>2, <1>3, <1>4, <1>5, <1>6, <1>7, <1>8, <1>9, <1>10, <1>11 DEF FunctionStep

\* The steps of the loop itself.
LEMMA LoopSteps ==
  ASSUME TypeOK, Fresh, [Next]_vars, ~FunctionStep
  PROVE  \/ /\ phase = "setup" /\ phase' = "loop"
            /\ \/ unexplored' = <<[pc |-> Input, input |-> DefaultInput]>> /\ UNCHANGED dropped
               \/ unexplored' = <<>> /\ dropped' = dropped \cup Input
            /\ runs = {} /\ runs' = {}
         \/ /\ phase = "loop" /\ unexplored # <<>>
            /\ unexplored' = SubSeq(unexplored, 1, Len(unexplored) - 1)
            /\ pathCond' = unexplored[Len(unexplored)].pc
            /\ UNCHANGED runs
            /\ \/ phase' = "loop" /\ dropped' = dropped \cup pathCond' /\ UNCHANGED path
               \/ phase' = "run" /\ UNCHANGED dropped /\ path' = <<>>
         \/ /\ phase = "loop" /\ phase' = "done" /\ unexplored = <<>>
            /\ UNCHANGED <<unexplored, pathCond, runs, dropped, path>>
         \/ /\ phase' = phase
            /\ UNCHANGED <<unexplored, pathCond, runs, dropped, path>>
  <1>1. CASE Setup
    BY <1>1 DEF Setup, Fresh
  <1>2. CASE NextInput
    BY <1>2 DEF NextInput, Popped
  <1>3. CASE Exhausted
    BY <1>3 DEF Exhausted, engineVars, history
  <1>4. CASE UNCHANGED vars
    BY <1>4 DEF vars, engineVars, history
  <1> QED
    BY <1>1, <1>2, <1>3, <1>4 DEF Next, Terminated

\* The invariant of the partition: it cannot be proved part by part, because a
\* popped frame is disjoint from the finished runs only if it was while it waited.
Partition == TypeOK /\ LatestIsCurrent /\ Fresh /\ NoPathTwice /\ EveryInputAccounted

\* The engine starts with nothing explored and an empty path condition, and only then is in setup.
LEMMA NextFresh == TypeOK /\ Fresh /\ [Next]_vars => Fresh'
  <1> SUFFICES ASSUME TypeOK, Fresh, [Next]_vars PROVE Fresh'
    OBVIOUS
  <1>1. CASE FunctionStep
    BY <1>1, FunctionSteps DEF Fresh
  <1>2. CASE ~FunctionStep
    BY <1>2, LoopSteps DEF Fresh
  <1> QED
    BY <1>1, <1>2

\* record_path splits one class in two; no step makes two classes overlap.
LEMMA NextNoPathTwice == Partition /\ [Next]_vars => NoPathTwice'
  <1> SUFFICES ASSUME Partition, [Next]_vars PROVE NoPathTwice'
    OBVIOUS
  <1> USE DEF Partition
  <1>0. unexplored \in Seq(Frame) /\ DOMAIN unexplored = 1 .. Len(unexplored) /\ Len(unexplored) \in Nat
    BY LenProperties DEF TypeOK
  <1>1. CASE FunctionStep
    <2>1. phase = "run" /\ ActiveClass = pathCond
      BY <1>1, FunctionSteps DEF ActiveClass, InRun
    <2>2. /\ \A k \in Stack : unexplored[k].pc \cap pathCond = {}
          /\ \A r \in runs : r.class \cap pathCond = {}
          /\ \A j, k \in Stack : j # k => unexplored[j].pc \cap unexplored[k].pc = {}
          /\ \A r \in runs, k \in Stack : r.class \cap unexplored[k].pc = {}
      BY <2>1 DEF NoPathTwice
    <2>3. CASE UNCHANGED <<unexplored, runs>> /\ pathCond' \subseteq pathCond
      <3>1. ActiveClass' \subseteq pathCond /\ Stack' = Stack
        BY <2>3 DEF ActiveClass, Stack
      <3> QED
        BY <2>2, <2>3, <3>1 DEF NoPathTwice
    <2>4. CASE /\ phase' = "run" /\ UNCHANGED runs /\ pathCond' = SamePath
               /\ \E i \in Input : unexplored' = Append(unexplored, [pc |-> OtherPath, input |-> i])
      <3>1. PICK i \in Input : unexplored' = Append(unexplored, [pc |-> OtherPath, input |-> i])
        BY <2>4
      <3> DEFINE n == Len(unexplored)
                 f == [pc |-> OtherPath, input |-> i]
      <3>2. /\ OtherPath \subseteq pathCond /\ SamePath \subseteq pathCond
            /\ OtherPath \cap SamePath = {}
        BY DEF OtherPath, SamePath
      <3>3. f \in Frame
        BY <3>2 DEF Frame, TypeOK
      <3>4. /\ Stack' = 1 .. (n + 1)
            /\ \A k \in 1 .. n : unexplored'[k] = unexplored[k]
            /\ unexplored'[n + 1] = f
        BY <1>0, <3>1, <3>3, PushFrame DEF Stack
      <3>5. ActiveClass' = SamePath
        BY <2>4 DEF ActiveClass, InRun
      <3>6. \A k \in Stack' : k \in Stack \/ k = n + 1
        BY <1>0, <3>4 DEF Stack
      <3>7. \A k \in Stack : unexplored'[k].pc = unexplored[k].pc
        BY <1>0, <3>4 DEF Stack
      <3>8. unexplored'[n + 1].pc = OtherPath
        BY <3>4
      <3>9. \A j, k \in Stack' : j # k => unexplored'[j].pc \cap unexplored'[k].pc = {}
        BY <2>2, <3>2, <3>6, <3>7, <3>8
      <3>10. \A k \in Stack' : unexplored'[k].pc \cap ActiveClass' = {}
        BY <2>2, <3>2, <3>5, <3>6, <3>7, <3>8
      <3>11. \A r \in runs' : r.class \cap ActiveClass' = {}
        BY <2>2, <2>4, <3>2, <3>5
      <3>12. \A r \in runs', k \in Stack' : r.class \cap unexplored'[k].pc = {}
        BY <2>2, <2>4, <3>2, <3>6, <3>7, <3>8
      <3> QED
        BY <3>9, <3>10, <3>11, <3>12 DEF NoPathTwice
    <2>5. CASE /\ phase' = "loop" /\ UNCHANGED unexplored
               /\ \E end \in {"return", "raise", "depth"} :
                    runs' = runs \cup {[input |-> cur, class |-> pathCond, path |-> path,
                                        end |-> end]}
      <3>1. ActiveClass' = {} /\ Stack' = Stack
        BY <2>5 DEF ActiveClass, InRun, Stack
      <3>2. \A r \in runs' : r \in runs \/ r.class = pathCond
        BY <2>5
      <3> QED
        BY <2>2, <2>5, <3>1, <3>2 DEF NoPathTwice
    <2>6. SamePath \subseteq pathCond
      BY DEF SamePath
    <2> QED
      BY <1>1, <2>3, <2>4, <2>5, <2>6, FunctionSteps
  <1>2. CASE ~FunctionStep
    <2>1. CASE /\ phase = "setup" /\ phase' = "loop" /\ runs' = {}
               /\ \/ unexplored' = <<[pc |-> Input, input |-> DefaultInput]>>
                  \/ unexplored' = <<>>
      <3>1. Stack' \subseteq {1}
        BY <2>1 DEF Stack
      <3>2. ActiveClass' = {}
        BY <2>1 DEF ActiveClass, InRun
      <3> QED
        BY <2>1, <3>1, <3>2 DEF NoPathTwice
    <2>2. CASE /\ phase = "loop" /\ unexplored # <<>>
               /\ unexplored' = SubSeq(unexplored, 1, Len(unexplored) - 1)
               /\ pathCond' = unexplored[Len(unexplored)].pc
               /\ UNCHANGED runs
      <3> DEFINE n == Len(unexplored)
      <3>1. /\ Stack' = 1 .. (n - 1)
            /\ \A k \in Stack' : unexplored'[k] = unexplored[k]
            /\ n \in Stack
            /\ Stack' \subseteq Stack
            /\ n \notin Stack'
        BY <1>0, <2>2, PopFrame DEF Stack
      <3>2. ActiveClass' \subseteq unexplored[n].pc
        BY <2>2 DEF ActiveClass
      <3>3. \A j, k \in Stack : j # k => unexplored[j].pc \cap unexplored[k].pc = {}
        BY DEF NoPathTwice
      <3>4. \A r \in runs, k \in Stack : r.class \cap unexplored[k].pc = {}
        BY DEF NoPathTwice
      <3>5. \A j, k \in Stack' : j # k => unexplored'[j].pc \cap unexplored'[k].pc = {}
        BY <3>1, <3>3
      <3>6. \A k \in Stack' : unexplored'[k].pc \cap ActiveClass' = {}
        BY <3>1, <3>2, <3>3
      <3>7. \A r \in runs' : r.class \cap ActiveClass' = {}
        BY <2>2, <3>1, <3>2, <3>4
      <3>8. \A r \in runs', k \in Stack' : r.class \cap unexplored'[k].pc = {}
        BY <2>2, <3>1, <3>4
      <3> QED
        BY <3>5, <3>6, <3>7, <3>8 DEF NoPathTwice
    <2>3. CASE /\ UNCHANGED <<unexplored, pathCond, runs>>
               /\ phase' = phase \/ phase' = "done"
      <3>1. ActiveClass' \subseteq ActiveClass /\ Stack' = Stack
        BY <2>3 DEF ActiveClass, InRun, Stack
      <3> QED
        BY <2>3, <3>1 DEF NoPathTwice
    <2> QED
      BY <1>2, <2>1, <2>2, <2>3, LoopSteps
  <1> QED
    BY <1>1, <1>2

\* No step loses an input: what leaves a class enters another, or dropped.
LEMMA NextEveryInputAccounted == Partition /\ [Next]_vars => EveryInputAccounted'
  <1> SUFFICES ASSUME Partition, [Next]_vars, phase' # "setup", NEW i \in Input
               PROVE  \/ \E r \in runs' : i \in r.class
                      \/ \E k \in Stack' : i \in unexplored'[k].pc
                      \/ i \in ActiveClass'
                      \/ i \in dropped'
    BY DEF EveryInputAccounted
  <1> USE DEF Partition
  <1>0. unexplored \in Seq(Frame) /\ DOMAIN unexplored = 1 .. Len(unexplored) /\ Len(unexplored) \in Nat
    BY LenProperties DEF TypeOK
  <1>1. CASE FunctionStep
    <2>1. phase = "run" /\ ActiveClass = pathCond
      BY <1>1, FunctionSteps DEF ActiveClass, InRun
    <2>2. \/ \E r \in runs : i \in r.class
          \/ \E k \in Stack : i \in unexplored[k].pc
          \/ i \in pathCond
          \/ i \in dropped
      BY <2>1 DEF EveryInputAccounted
    <2>3. CASE /\ phase' \in {"run", "stopped", "failed"} /\ UNCHANGED <<unexplored, runs>>
               /\ dropped \subseteq dropped'
               /\ i \in pathCond => i \in pathCond' \/ i \in dropped'
      BY <2>2, <2>3 DEF ActiveClass, InRun, Stack
    <2>4. CASE /\ phase' = "run" /\ UNCHANGED <<runs, dropped>> /\ pathCond' = SamePath
               /\ \E m \in Input : unexplored' = Append(unexplored, [pc |-> OtherPath, input |-> m])
      <3>1. PICK m \in Input : unexplored' = Append(unexplored, [pc |-> OtherPath, input |-> m])
        BY <2>4
      <3> DEFINE n == Len(unexplored)
                 f == [pc |-> OtherPath, input |-> m]
      <3>2. i \in pathCond => i \in SamePath \/ i \in OtherPath
        BY DEF OtherPath, SamePath
      <3>3. f \in Frame
        BY DEF Frame, TypeOK, OtherPath
      <3>4. /\ Stack' = 1 .. (n + 1)
            /\ \A k \in 1 .. n : unexplored'[k] = unexplored[k]
            /\ unexplored'[n + 1] = f
        BY <1>0, <3>1, <3>3, PushFrame DEF Stack
      <3>5. /\ n + 1 \in Stack' /\ unexplored'[n + 1].pc = OtherPath
            /\ \A k \in Stack : k \in Stack' /\ unexplored'[k].pc = unexplored[k].pc
        BY <1>0, <3>4 DEF Stack
      <3>6. ActiveClass' = SamePath
        BY <2>4 DEF ActiveClass, InRun
      <3> QED
        BY <2>2, <2>4, <3>2, <3>5, <3>6
    <2>5. CASE /\ UNCHANGED unexplored
               /\ dropped \subseteq dropped'
               /\ \E end \in {"return", "raise", "depth"} :
                    runs' = runs \cup {[input |-> cur, class |-> pathCond, path |-> path,
                                        end |-> end]}
      <3>1. runs \subseteq runs' /\ \E r \in runs' : r.class = pathCond
        <4>1. PICK end \in {"return", "raise", "depth"} :
                runs' = runs \cup {[input |-> cur, class |-> pathCond, path |-> path,
                                    end |-> end]}
          BY <2>5
        <4> DEFINE new == [input |-> cur, class |-> pathCond, path |-> path, end |-> end]
        <4>2. new \in runs' /\ new.class = pathCond
          BY <4>1
        <4> QED
          BY <4>1, <4>2
      <3>2. Stack' = Stack
        BY <2>5 DEF Stack
      <3> QED
        BY <2>2, <2>5, <3>1, <3>2
    <2>6. OtherPath = {} => SamePath = pathCond
      BY DEF OtherPath, SamePath
    <2> QED
      BY <1>1, <2>3, <2>4, <2>5, <2>6, FunctionSteps
  <1>2. CASE ~FunctionStep
    <2>1. CASE /\ phase = "setup"
               /\ \/ unexplored' = <<[pc |-> Input, input |-> DefaultInput]>>
                  \/ unexplored' = <<>> /\ dropped' = dropped \cup Input
      <3>1. CASE unexplored' = <<[pc |-> Input, input |-> DefaultInput]>>
        <4>1. 1 \in Stack' /\ unexplored'[1].pc = Input
          BY <3>1 DEF Stack
        <4> QED
          BY <4>1
      <3> QED
        BY <2>1, <3>1
    <2>2. CASE /\ phase = "loop" /\ unexplored # <<>>
               /\ unexplored' = SubSeq(unexplored, 1, Len(unexplored) - 1)
               /\ pathCond' = unexplored[Len(unexplored)].pc
               /\ UNCHANGED runs
               /\ \/ phase' = "loop" /\ dropped' = dropped \cup pathCond'
                  \/ phase' = "run" /\ UNCHANGED dropped
      <3> DEFINE n == Len(unexplored)
      <3>1. \A k \in Stack : k = n \/ (k \in Stack' /\ unexplored'[k] = unexplored[k])
        BY <1>0, <2>2, PopFrame DEF Stack
      <3>2. i \in unexplored[n].pc => i \in ActiveClass' \/ i \in dropped'
        BY <2>2 DEF ActiveClass, InRun
      <3>3. ActiveClass = {}
        BY <2>2 DEF ActiveClass, InRun
      <3> QED
        BY <2>2, <3>1, <3>2, <3>3 DEF EveryInputAccounted
    <2>3. CASE /\ UNCHANGED <<unexplored, pathCond, runs, dropped>>
               /\ phase' = phase \/ (phase = "loop" /\ phase' = "done")
      <3>1. ActiveClass' = ActiveClass /\ Stack' = Stack /\ phase # "setup"
        BY <2>3 DEF ActiveClass, InRun, Stack
      <3> QED
        BY <2>3, <3>1 DEF EveryInputAccounted
    <2> QED
      BY <1>2, <2>1, <2>2, <2>3, LoopSteps
  <1> QED
    BY <1>1, <1>2

\* Classes are disjoint and cover all inputs, in every reachable state.
LEMMA PartitionInvariant == Spec => []Partition
  <1>1. Init => Partition
    BY InitTypeOK DEF Init, Partition, LatestIsCurrent, InRun, Fresh, NoPathTwice, Stack,
      EveryInputAccounted
  <1>2. Partition /\ [Next]_vars => Partition'
    BY NextTypeOK, NextLatest, NextFresh, NextNoPathTwice, NextEveryInputAccounted DEF Partition
  <1> QED
    BY <1>1, <1>2, PTL DEF Spec

\* record_path never queues inputs that are queued, being run or explored
\* already: no path is executed for two frames.
THEOREM NoPathIsRunTwice == Spec => []NoPathTwice
  <1>1. Partition => NoPathTwice
    BY DEF Partition
  <1> QED
    BY <1>1, PartitionInvariant, PTL

\* No input is forgotten by the stack discipline.
THEOREM NoInputIsForgotten == Spec => []EveryInputAccounted
  <1>1. Partition => EveryInputAccounted
    BY DEF Partition
  <1> QED
    BY <1>1, PartitionInvariant, PTL
----------------------------------------------------------------------------------
(* A class is a path.                                                      *)

\* Inputs of one class agree on one more step once the condition is joined.
LEMMA AgreesOneMore ==
  ASSUME TypeOK, NEW i \in Input, Agrees(i, path), NEW b \in BOOLEAN, Proceed(b), prog' = prog,
         Kind \in Recorded => (i \in prog.holds[node]) = b
  PROVE  Agrees(i, path)'
  <1> DEFINE step == [at |-> node, outcome |-> b]
             n == Len(path)
  <1>1. step \in Step
    BY DEF Step, TypeOK
  <1>2. /\ path' = Append(path, step)
        /\ n \in Nat /\ DOMAIN path = 1 .. n /\ DOMAIN path' = 1 .. (n + 1)
        /\ \A k \in 1 .. n : path'[k] = path[k]
        /\ path'[n + 1] = step
    BY <1>1, PushFrame DEF Proceed, TypeOK
  <1>3. \A k \in DOMAIN path' : k \in DOMAIN path \/ k = n + 1
    BY <1>2
  <1>4. ASSUME NEW k \in DOMAIN path', prog.kind[path'[k].at] \in Recorded
        PROVE  (i \in prog.holds[path'[k].at]) = path'[k].outcome
    <2>1. CASE k \in DOMAIN path
      BY <1>2, <1>4, <2>1 DEF Agrees
    <2>2. CASE k = n + 1
      BY <1>2, <1>4, <2>2 DEF Kind
    <2> QED
      BY <1>3, <1>4, <2>1, <2>2
  <1> QED
    BY <1>4 DEF Agrees

\* Inputs that decide a condition otherwise leave the class with the frame pushed for them.
LEMMA NextClassFollowsPath == Partition /\ ClassFollowsPath /\ [Next]_vars => ClassFollowsPath'
  <1> SUFFICES ASSUME Partition, ClassFollowsPath, [Next]_vars PROVE ClassFollowsPath'
    OBVIOUS
  <1> USE DEF Partition
  <1>1. prog' = prog
    BY DEF Next, Setup, NextInput, Popped, Exhausted, FunctionStep, DepthExceeded, RecordPath, ConversionFails,
      PlainBranch, MakeAssertion, AssertionHolds, AssertionFails, Call, FeatureFound,
      OrdinaryException, Return, Terminated, vars
  <1>3. CASE FunctionStep
    <2>1. phase = "run" /\ \A i \in pathCond : Agrees(i, path)
      BY <1>3, FunctionSteps DEF ClassFollowsPath, InRun
    <2>2. CASE UNCHANGED <<path, runs>> /\ pathCond' \subseteq pathCond
      BY <1>1, <2>1, <2>2 DEF ClassFollowsPath, Agrees
    <2>3. CASE RecordPath \/ MakeAssertion \/ PlainBranch \/ AssertionHolds \/ Call
      <3>1. UNCHANGED runs /\ pathCond' \subseteq pathCond
        BY <2>3 DEF RecordPath, PlainBranch, MakeAssertion, AssertionHolds, Call, Proceed,
          engineVars, SamePath
      <3>2. ASSUME NEW i \in pathCond'
            PROVE  Agrees(i, path)'
        <4>1. i \in Input /\ Agrees(i, path)
          BY <2>1, <3>1 DEF TypeOK
        <4>2. PICK b \in BOOLEAN :
                Proceed(b) /\ (Kind \in Recorded => RecordPath /\ b = Outcome)
          BY <2>3, LeavingTypes DEF RecordPath, PlainBranch, MakeAssertion, AssertionHolds, Call,
            Running, Recorded
        <4>3. Kind \in Recorded => (i \in prog.holds[node]) = b
          BY <4>2 DEF RecordPath, SamePath
        <4> QED
          BY <1>1, <4>1, <4>2, <4>3, AgreesOneMore
      <3> QED
        BY <1>1, <3>1, <3>2 DEF ClassFollowsPath, Agrees
    <2>4. CASE /\ phase' = "loop" /\ UNCHANGED path
               /\ \E end \in {"return", "raise", "depth"} :
                    runs' = runs \cup {[input |-> cur, class |-> pathCond, path |-> path,
                                        end |-> end]}
      <3>1. \A r \in runs' : r \in runs \/ (r.class = pathCond /\ r.path = path)
        BY <2>4
      <3> QED
        BY <1>1, <2>1, <2>4, <3>1 DEF ClassFollowsPath, Agrees, InRun
    <2> QED
      BY <1>3, <2>2, <2>3, <2>4 DEF FunctionStep, DepthExceeded, ConversionFails, AssertionFails,
        FeatureFound, OrdinaryException, Return, GoToHandler, EndRun, engineVars, SamePath
  <1>4. CASE ~FunctionStep
    <2>1. UNCHANGED runs \/ runs' = {}
      BY <1>4, LoopSteps
    <2>2. CASE InRun' /\ path' = <<>>
      BY <1>1, <2>1, <2>2 DEF ClassFollowsPath, Agrees
    <2>3. CASE InRun' => InRun /\ UNCHANGED <<path, pathCond>>
      BY <1>1, <2>1, <2>3 DEF ClassFollowsPath, Agrees
    <2> QED
      BY <1>4, <2>2, <2>3, LoopSteps DEF InRun
  <1> QED
    BY <1>3, <1>4

\* The class of a run is a path of the function under test: all its inputs take
\* every recorded branch of the run alike.
THEOREM ClassIsAPath == Spec => []ClassFollowsPath
  <1>1. Init => ClassFollowsPath
    BY DEF Init, ClassFollowsPath, InRun
  <1> QED
    BY <1>1, NextClassFollowsPath, PartitionInvariant, PTL DEF Spec
----------------------------------------------------------------------------------
(* Exhaustiveness.                                                         *)

\* A run that max-depth cut short leaves hit_max_depth set.
LEMMA NextCutsReported == Partition /\ CutsReported /\ [Next]_vars => CutsReported'
  <1> SUFFICES ASSUME Partition, CutsReported, [Next]_vars PROVE CutsReported'
    OBVIOUS
  <1> USE DEF Partition
  <1>1. CASE FunctionStep
    <2>1. phase = "run" /\ phase' # "done"
      BY <1>1, FunctionSteps
    <2>2. hitMaxDepth => hitMaxDepth'
      BY <1>1 DEF FunctionStep, DepthExceeded, RecordPath, ConversionFails, PlainBranch, MakeAssertion,
        AssertionHolds, AssertionFails, Call, FeatureFound, OrdinaryException, Return,
        NoteMaxDepth, engineVars
    <2>3. \A r \in runs' : r \in runs \/ r.end # "depth" \/ hitMaxDepth'
      BY <1>1 DEF FunctionStep, DepthExceeded, RecordPath, ConversionFails, PlainBranch, MakeAssertion,
        AssertionHolds, AssertionFails, Call, FeatureFound, OrdinaryException, Return,
        NoteMaxDepth, EndRun, GoToHandler, Proceed
    <2> QED
      BY <2>1, <2>2, <2>3 DEF CutsReported
  <1>2. CASE ~FunctionStep
    <2>1. UNCHANGED hitMaxDepth
      BY <1>2 DEF Next, Setup, NextInput, Popped, Exhausted, Terminated, vars, engineVars
    <2> QED
      BY <1>2, <2>1, LoopSteps DEF CutsReported
  <1> QED
    BY <1>1, <1>2

\* If explore returns with nothing given up and hit_max_depth unset, every input
\* follows the complete path of an input that was run.
THEOREM ExplorationIsExhaustive == Spec => []EveryPathExplored
  <1>1. Init => CutsReported
    BY DEF Init, CutsReported
  <1>2. Spec => []CutsReported
    BY <1>1, NextCutsReported, PartitionInvariant, PTL DEF Spec
  <1>3. Partition /\ ClassFollowsPath /\ CutsReported => EveryPathExplored
    <2> SUFFICES ASSUME Partition, ClassFollowsPath, CutsReported, phase = "done",
                        dropped = {}, ~hitMaxDepth, NEW i \in Input
                 PROVE  \E r \in runs : Agrees(i, r.path) /\ r.end \in {"return", "raise"}
      BY DEF EveryPathExplored
    <2>1. ActiveClass = {} /\ Stack = {}
      <3>1. unexplored = <<>> /\ ~InRun
        BY DEF CutsReported, InRun
      <3> QED
        BY <3>1 DEF ActiveClass, Stack
    <2>2. PICK r \in runs : i \in r.class
      BY <2>1 DEF Partition, EveryInputAccounted
    <2>3. Agrees(i, r.path)
      BY <2>2 DEF ClassFollowsPath
    <2>4. r.end \in {"return", "raise"}
      BY DEF CutsReported, Partition, TypeOK, Run
    <2> QED
      BY <2>3, <2>4
  <1> QED
    BY <1>2, <1>3, PartitionInvariant, ClassIsAPath, PTL

\* A step added to a path keeps what was proved on it.
LEMMA ProvedOneMore ==
  ASSUME TypeOK, NEW class \in SUBSET Input, ProvedBy(path, class), NEW b \in BOOLEAN, Proceed(b),
         prog' = prog, Kind = "prove" => class \subseteq prog.holds[node]
  PROVE  ProvedBy(path', class)
  <1> DEFINE step == [at |-> node, outcome |-> b]
             n == Len(path)
  <1>1. step \in Step
    BY DEF Step, TypeOK
  <1>2. /\ path' = Append(path, step)
        /\ n \in Nat /\ DOMAIN path = 1 .. n /\ DOMAIN path' = 1 .. (n + 1)
        /\ \A k \in 1 .. n : path'[k] = path[k]
        /\ path'[n + 1] = step
    BY <1>1, PushFrame DEF Proceed, TypeOK
  <1>3. ASSUME NEW k \in DOMAIN path', prog.kind[path'[k].at] = "prove"
        PROVE  class \subseteq prog.holds[path'[k].at]
    <2>1. CASE k \in DOMAIN path
      BY <1>2, <1>3, <2>1 DEF ProvedBy
    <2>2. CASE k = n + 1
      BY <1>2, <1>3, <2>2 DEF Kind
    <2> QED
      BY <1>2, <1>3, <2>1, <2>2
  <1> QED
    BY <1>3 DEF ProvedBy

\* Narrowing the class of a run keeps what pyctos_prove showed of it.
LEMMA NextProvedForClass == Partition /\ ProvedForClass /\ [Next]_vars => ProvedForClass'
  <1> SUFFICES ASSUME Partition, ProvedForClass, [Next]_vars PROVE ProvedForClass'
    OBVIOUS
  <1> USE DEF Partition
  <1>1. prog' = prog
    BY DEF Next, Setup, NextInput, Popped, Exhausted, FunctionStep, DepthExceeded, RecordPath, ConversionFails,
      PlainBranch, MakeAssertion, AssertionHolds, AssertionFails, Call, FeatureFound,
      OrdinaryException, Return, Terminated, vars
  <1>2. CASE FunctionStep
    <2>1. phase = "run" /\ ProvedBy(path, pathCond)
      BY <1>2, FunctionSteps DEF ProvedForClass, InRun
    <2>2. CASE UNCHANGED <<path, runs>> /\ pathCond' \subseteq pathCond
      BY <1>1, <2>1, <2>2 DEF ProvedForClass, ProvedBy
    <2>3. CASE RecordPath \/ MakeAssertion \/ PlainBranch \/ AssertionHolds \/ Call
      <3>1. UNCHANGED runs /\ pathCond' \subseteq pathCond
        BY <2>3 DEF RecordPath, PlainBranch, MakeAssertion, AssertionHolds, Call, Proceed,
          engineVars, SamePath
      <3>2. \E b \in BOOLEAN : Proceed(b)
        BY <2>3, LeavingTypes DEF RecordPath, PlainBranch, MakeAssertion, AssertionHolds, Call
      <3>3. Kind = "prove" => pathCond \subseteq prog.holds[node]
        BY <2>3 DEF RecordPath, PlainBranch, MakeAssertion, AssertionHolds, Call, Running,
          Recorded, Valid
      <3>4. ProvedBy(path', pathCond)
        BY <1>1, <2>1, <3>2, <3>3, ProvedOneMore DEF TypeOK
      <3> QED
        BY <1>1, <3>1, <3>4 DEF ProvedForClass, ProvedBy
    <2>4. CASE /\ phase' = "loop" /\ UNCHANGED path
               /\ \E end \in {"return", "raise", "depth"} :
                    runs' = runs \cup {[input |-> cur, class |-> pathCond, path |-> path,
                                        end |-> end]}
      <3>1. \A r \in runs' : r \in runs \/ (r.class = pathCond /\ r.path = path)
        BY <2>4
      <3> QED
        BY <1>1, <2>1, <2>4, <3>1 DEF ProvedForClass, ProvedBy, InRun
    <2> QED
      BY <1>2, <2>2, <2>3, <2>4 DEF FunctionStep, DepthExceeded, ConversionFails, AssertionFails,
        FeatureFound, OrdinaryException, Return, GoToHandler, EndRun, engineVars, SamePath
  <1>3. CASE ~FunctionStep
    <2>1. UNCHANGED runs \/ runs' = {}
      BY <1>3, LoopSteps
    <2>2. CASE InRun' /\ path' = <<>>
      BY <1>1, <2>1, <2>2 DEF ProvedForClass, ProvedBy
    <2>3. CASE InRun' => InRun /\ UNCHANGED <<path, pathCond>>
      BY <1>1, <2>1, <2>3 DEF ProvedForClass, ProvedBy
    <2> QED
      BY <1>3, <2>2, <2>3, LoopSteps DEF InRun
  <1> QED
    BY <1>2, <1>3

\* A pyctos_prove passed in an exploration that ends normally holds for every
\* input of the path it was passed on, whether or not the input was run.
THEOREM ProofsAreUniversal == Spec => []ProofsHoldForEveryInput
  <1>1. Init => ProvedForClass /\ CutsReported
    BY DEF Init, ProvedForClass, InRun, CutsReported
  <1>2. Spec => []ProvedForClass
    BY <1>1, NextProvedForClass, PartitionInvariant, PTL DEF Spec
  <1>3. Spec => []CutsReported
    BY <1>1, NextCutsReported, PartitionInvariant, PTL DEF Spec
  <1>4. Partition /\ ClassFollowsPath /\ CutsReported /\ ProvedForClass
          => ProofsHoldForEveryInput
    <2> SUFFICES ASSUME Partition, ClassFollowsPath, CutsReported, ProvedForClass,
                        phase = "done", NEW i \in Input \ dropped
                 PROVE  \E r \in runs :
                          /\ Agrees(i, r.path)
                          /\ \A k \in DOMAIN r.path :
                               prog.kind[r.path[k].at] = "prove" => i \in prog.holds[r.path[k].at]
      BY DEF ProofsHoldForEveryInput
    <2>1. ActiveClass = {} /\ Stack = {}
      <3>1. unexplored = <<>> /\ ~InRun
        BY DEF CutsReported, InRun
      <3> QED
        BY <3>1 DEF ActiveClass, Stack
    <2>2. PICK r \in runs : i \in r.class
      BY <2>1 DEF Partition, EveryInputAccounted
    <2>3. Agrees(i, r.path)
      BY <2>2 DEF ClassFollowsPath
    <2>4. ProvedBy(r.path, r.class)
      BY DEF ProvedForClass
    <2> QED
      BY <2>2, <2>3, <2>4 DEF ProvedBy
  <1> QED
    BY <1>2, <1>3, <1>4, PartitionInvariant, ClassIsAPath, PTL
----------------------------------------------------------------------------------
(* The input of a run.                                                     *)

\* The input a YAML search reports is the input whose run triggered the feature.
THEOREM ReportedInputTriggers == Spec => []YamlInputTriggers
  <1>1. Init => YamlInputTriggers
    BY DEF Init, YamlInputTriggers
  <1>2. TypeOK /\ LatestIsCurrent /\ YamlInputTriggers /\ [Next]_vars => YamlInputTriggers'
    <2> SUFFICES ASSUME TypeOK, LatestIsCurrent, YamlInputTriggers, [Next]_vars
                 PROVE  YamlInputTriggers'
      OBVIOUS
    <2>1. CASE FeatureFound
      BY <2>1 DEF FeatureFound, Running, Outcome, GoToHandler, LatestIsCurrent, InRun,
        YamlInputTriggers
    <2>2. CASE phase' # "stopped"
      BY <2>2 DEF YamlInputTriggers
    <2>3. CASE phase = "stopped" /\ UNCHANGED vars
      BY <2>3 DEF vars, engineVars, YamlInputTriggers
    <2> QED
      BY <2>1, <2>2, <2>3 DEF Next, Setup, NextInput, Popped, Exhausted, FunctionStep, DepthExceeded,
        RecordPath, ConversionFails, PlainBranch, MakeAssertion, AssertionHolds, AssertionFails,
        Call, OrdinaryException, Return, Terminated, Running, Proceed, GoToHandler, EndRun, vars
  <1> QED
    BY <1>1, <1>2, TypeCorrect, PTL DEF Spec

\* A waiting input that no other model is converted to is a member of its own class.
FramesOnTheirPath ==
  \A k \in Stack : ~Misread(unexplored[k].input) => unexplored[k].input \in unexplored[k].pc

\* A frame is pushed with a model of its own condition.
LEMMA NextFramesOnTheirPath ==
  Partition /\ FramesOnTheirPath /\ [Next]_vars => FramesOnTheirPath'
  <1> SUFFICES ASSUME Partition, FramesOnTheirPath, [Next]_vars
               PROVE  FramesOnTheirPath'
    OBVIOUS
  <1> USE DEF Partition
  <1>0. unexplored \in Seq(Frame) /\ DOMAIN unexplored = 1 .. Len(unexplored) /\ Len(unexplored) \in Nat
    BY LenProperties DEF TypeOK
  <1>1. CASE UNCHANGED unexplored
    BY <1>1 DEF FramesOnTheirPath, Stack
  <1>2. CASE RecordPath /\ unexplored' # unexplored
    <2>1. PICK model \in OtherPath \ Unconvertible :
            unexplored' = Append(unexplored, [pc |-> OtherPath, input |-> Convert[model]])
      BY <1>2 DEF RecordPath
    <2> DEFINE n == Len(unexplored)
               f == [pc |-> OtherPath, input |-> Convert[model]]
    <2>2. model \in Input \ Unconvertible /\ Convert[model] \in Input /\ OtherPath \subseteq Input
      BY ConvertAssumption DEF OtherPath, TypeOK
    <2>3. f \in Frame /\ (~Misread(f.input) => f.input \in f.pc)
      BY <2>1, <2>2 DEF Frame, Misread
    <2>4. /\ Stack' = 1 .. (n + 1)
          /\ \A k \in 1 .. n : unexplored'[k] = unexplored[k]
          /\ unexplored'[n + 1] = f
      BY <1>0, <2>1, <2>3, PushFrame DEF Stack
    <2>5. \A k \in Stack' : k \in Stack \/ k = n + 1
      BY <1>0, <2>4 DEF Stack
    <2> QED
      BY <1>0, <2>3, <2>4, <2>5 DEF FramesOnTheirPath, Stack
  <1>3. CASE unexplored # <<>> /\ unexplored' = SubSeq(unexplored, 1, Len(unexplored) - 1)
    <2>1. /\ \A k \in Stack' : unexplored'[k] = unexplored[k]
          /\ Stack' \subseteq Stack
      BY <1>0, <1>3, PopFrame DEF Stack
    <2> QED
      BY <2>1 DEF FramesOnTheirPath
  <1>4. CASE unexplored' = <<[pc |-> Input, input |-> DefaultInput]>> \/ unexplored' = <<>>
    <2>1. \A k \in Stack' : unexplored'[k].pc = Input /\ unexplored'[k].input = DefaultInput
      BY <1>4 DEF Stack
    <2> QED
      BY <2>1, InputAssumption DEF FramesOnTheirPath
  <1>5. CASE FunctionStep
    BY <1>1, <1>2, <1>5 DEF FunctionStep, DepthExceeded, ConversionFails, PlainBranch,
      MakeAssertion, AssertionHolds, AssertionFails, Call, FeatureFound, OrdinaryException,
      Return, engineVars
  <1> QED
    BY <1>1, <1>3, <1>4, <1>5, LoopSteps

\* Concolic execution does not diverge: the input of a run satisfies the path
\* condition its run accumulates, unless an assertion the run made excludes it.
THEOREM RunsDoNotDiverge == Spec => []InputOnItsPath
  <1>1. Init => FramesOnTheirPath /\ InputOnItsPath
    BY DEF Init, FramesOnTheirPath, InputOnItsPath, Stack
  <1>2. Partition /\ FramesOnTheirPath /\ InputOnItsPath /\ [Next]_vars => InputOnItsPath'
    <2> SUFFICES ASSUME Partition, FramesOnTheirPath, InputOnItsPath, [Next]_vars,
                        ~Misread(cur'), phase' = "run"
                 PROVE  cur' \in pathCond' \cup dropped'
      BY DEF InputOnItsPath, Misread
    <2> USE DEF Partition
    <2>0. unexplored \in Seq(Frame) /\ DOMAIN unexplored = 1 .. Len(unexplored) /\ Len(unexplored) \in Nat
      BY LenProperties DEF TypeOK
    <2>1. CASE NextInput
      <3>1. Len(unexplored) \in Stack
        BY <2>0, <2>1, PopFrame DEF NextInput, Popped, Stack
      <3>2. /\ pathCond' = unexplored[Len(unexplored)].pc
            /\ cur' = unexplored[Len(unexplored)].input
        BY <2>1 DEF NextInput, Popped
      <3>3. unexplored[Len(unexplored)].input \in unexplored[Len(unexplored)].pc
        BY <3>1, <3>2 DEF FramesOnTheirPath
      <3> QED
        BY <3>2, <3>3
    <2>2. cur \in pathCond => cur \in SamePath
      BY DEF SamePath, Outcome
    <2>3. CASE ~NextInput
      <3>1. phase = "run" /\ cur' = cur
        BY <2>3 DEF Next, Setup, Exhausted, FunctionStep, DepthExceeded, RecordPath,
          ConversionFails, PlainBranch, MakeAssertion, AssertionHolds, AssertionFails, Call,
          FeatureFound, OrdinaryException, Return, Terminated, Running, vars
      <3>2. dropped \subseteq dropped' /\ (cur \in pathCond => cur \in pathCond' \cup dropped')
        BY <2>2, <2>3 DEF Next, Setup, Exhausted, FunctionStep, DepthExceeded, RecordPath,
          ConversionFails, PlainBranch, MakeAssertion, AssertionHolds, AssertionFails, Call,
          FeatureFound, OrdinaryException, Return, Terminated, vars, engineVars, history
      <3> QED
        BY <3>1, <3>2 DEF InputOnItsPath
    <2> QED
      BY <2>1, <2>3
  <1> QED
    BY <1>1, <1>2, NextFramesOnTheirPath, PartitionInvariant, PTL DEF Spec

----------------------------------------------------------------------------------
(* No input is run twice.                                                  *)

\* An input that can be compared is refused when it comes back.
ComparableOnce ==
  \A j, k \in DOMAIN explored : j # k /\ explored[j] = explored[k] => explored[j] \notin Comparable

\* An explored input that only its own model is converted to is in no waiting class, and
\* in the class of the run in progress only if it is the input of that run.
ExploredIsSpent ==
  /\ phase = "setup" => explored = <<>>
  /\ \A j \in DOMAIN explored : ~Misread(explored[j]) =>
       /\ \A k \in Stack : explored[j] \notin unexplored[k].pc
       /\ InRun => j = Len(explored) \/ explored[j] \notin pathCond

DistinctInputs ==
  \A j, k \in DOMAIN explored : j # k /\ explored[j] = explored[k] => Misread(explored[j])

Once == ComparableOnce /\ ExploredIsSpent /\ DistinctInputs

\* The frame is popped and its input is run.
LEMMA NextInputOnce ==
  ASSUME Partition, FramesOnTheirPath, Once, NextInput
  PROVE  Once'
  <1> DEFINE n == Len(unexplored)
             m == Len(explored)
             frame == unexplored[n]
  <1> USE DEF Partition
  <1>1. /\ n \in Stack /\ frame \in Frame
        /\ Stack' \subseteq Stack /\ n \notin Stack'
        /\ \A k \in Stack' : unexplored'[k] = unexplored[k]
    <2>1. unexplored \in Seq(Frame) /\ unexplored # <<>> /\ unexplored' = SubSeq(unexplored, 1, n - 1)
      BY DEF NextInput, Popped, TypeOK
    <2>2. n \in Nat
      BY <2>1, LenProperties
    <2> QED
      BY <2>1, <2>2, PopFrame DEF Stack
  <1>2. phase = "loop" /\ phase' \in {"loop", "run"} /\ ~InRun
    BY DEF NextInput, InRun
  <1>3. CASE explored' = explored /\ phase' = "loop"
    BY <1>1, <1>2, <1>3 DEF Once, ComparableOnce, ExploredIsSpent, DistinctInputs, InRun
  <1>4. CASE explored' # explored \/ phase' # "loop"
    <2>1. /\ explored' = Append(explored, frame.input) /\ pathCond' = frame.pc
          /\ \A k \in DOMAIN explored : ~SameInput(explored[k], frame.input)
          /\ phase' = "run"
      BY <1>4 DEF NextInput
    <2>2. frame.input \in Input
      BY <1>1 DEF Frame
    <2>3. /\ DOMAIN explored = 1 .. m /\ m \in Nat
          /\ DOMAIN explored' = 1 .. (m + 1) /\ Len(explored') = m + 1
          /\ \A k \in 1 .. m : explored'[k] = explored[k]
          /\ explored'[m + 1] = frame.input
      <3>1. explored \in Seq(Input)
        BY DEF TypeOK
      <3> QED
        BY <2>1, <2>2, <3>1, PushFrame, AppendProperties
    <2>4. ComparableOnce'
      BY <2>1, <2>3 DEF Once, ComparableOnce, SameInput
    <2>5. /\ ~Misread(frame.input) => frame.input \in frame.pc
          /\ \A j \in DOMAIN explored, k \in Stack :
               ~Misread(explored[j]) => explored[j] \notin unexplored[k].pc
      BY <1>1 DEF FramesOnTheirPath, Once, ExploredIsSpent
    <2>6. DistinctInputs'
      BY <1>1, <2>3, <2>5 DEF Once, DistinctInputs
    <2>7. ASSUME NEW k \in Stack' PROVE unexplored'[k].pc \cap frame.pc = {}
      BY <1>1, <2>7 DEF NoPathTwice
    <2>8. ExploredIsSpent'
      <3> SUFFICES ASSUME NEW j \in DOMAIN explored', ~Misread(explored'[j])
                   PROVE  /\ \A k \in Stack' : explored'[j] \notin unexplored'[k].pc
                          /\ j = Len(explored') \/ explored'[j] \notin pathCond'
        BY <2>1 DEF ExploredIsSpent
      <3>1. CASE j = m + 1
        BY <2>3, <2>5, <2>7, <3>1
      <3>2. CASE j \in DOMAIN explored
        BY <1>1, <2>1, <2>3, <2>5, <3>2
      <3> QED
        BY <2>3, <3>1, <3>2
    <2> QED
      BY <2>4, <2>6, <2>8 DEF Once
  <1> QED
    BY <1>3, <1>4 DEF NextInput

\* No other step changes explored_inputs, and what record_path queues it takes from the
\* class of the run, without the input of the run.
LEMMA OtherStepsOnce ==
  ASSUME Partition, Once, [Next]_vars, ~NextInput
  PROVE  Once'
  <1> USE DEF Partition
  <1>0. unexplored \in Seq(Frame) /\ DOMAIN unexplored = 1 .. Len(unexplored) /\ Len(unexplored) \in Nat
    BY LenProperties DEF TypeOK
  <1>1. explored' = explored /\ (phase' = "setup" => phase = "setup") /\ (InRun' => InRun)
    BY DEF Next, Setup, Exhausted, FunctionStep, DepthExceeded, RecordPath, ConversionFails,
      PlainBranch, MakeAssertion, AssertionHolds, AssertionFails, Call, FeatureFound,
      OrdinaryException, Return, Terminated, engineVars, history, vars, Running, EndRun,
      GoToHandler, Proceed, InRun
  <1>2. ComparableOnce' /\ DistinctInputs'
    BY <1>1 DEF Once, ComparableOnce, DistinctInputs
  <1> SUFFICES ASSUME NEW j \in DOMAIN explored, ~Misread(explored[j])
               PROVE  /\ \A k \in Stack' : explored[j] \notin unexplored'[k].pc
                      /\ InRun' => j = Len(explored) \/ explored[j] \notin pathCond'
    BY <1>1, <1>2 DEF Once, ExploredIsSpent
  <1>3. /\ \A k \in Stack : explored[j] \notin unexplored[k].pc
        /\ InRun => j = Len(explored) \/ explored[j] \notin pathCond
    BY DEF Once, ExploredIsSpent
  <1>4. CASE UNCHANGED unexplored /\ pathCond' \subseteq pathCond
    BY <1>1, <1>3, <1>4 DEF Stack
  <1>5. CASE RecordPath /\ \E i \in Input :
               unexplored' = Append(unexplored, [pc |-> OtherPath, input |-> i])
    <2>1. PICK i \in Input : unexplored' = Append(unexplored, [pc |-> OtherPath, input |-> i])
      BY <1>5
    <2> DEFINE n == Len(unexplored)
               f == [pc |-> OtherPath, input |-> i]
    <2>2. /\ OtherPath \subseteq pathCond /\ SamePath \subseteq pathCond
          /\ cur \notin OtherPath
      BY DEF OtherPath, SamePath, Outcome
    <2>3. f \in Frame
      BY <2>2 DEF Frame, TypeOK
    <2>4. /\ Stack' = 1 .. (n + 1)
          /\ \A k \in 1 .. n : unexplored'[k] = unexplored[k]
          /\ unexplored'[n + 1] = f
      BY <1>0, <2>1, <2>3, PushFrame DEF Stack
    <2>5. InRun /\ pathCond' = SamePath
      BY <1>5 DEF RecordPath, Running, InRun
    <2>6. explored[j] \notin OtherPath
      BY <1>3, <2>2, <2>5 DEF LatestIsCurrent, LatestInput
    <2>7. \A k \in Stack' : k \in Stack \/ k = n + 1
      BY <1>0, <2>4 DEF Stack
    <2> QED
      BY <1>0, <1>3, <2>2, <2>4, <2>5, <2>6, <2>7 DEF Stack
  <1>6. CASE Setup
    <2>1. explored = <<>>
      BY <1>6 DEF Setup, Once, ExploredIsSpent
    <2> QED
      BY <2>1
  <1>7. CASE FunctionStep
    <2>1. SamePath \subseteq pathCond
      BY DEF SamePath
    <2>2. CASE RecordPath
      BY <1>4, <1>5, <2>1, <2>2, ConvertAssumption DEF RecordPath, OtherPath, TypeOK
    <2>3. CASE ~RecordPath
      <3>1. UNCHANGED unexplored /\ pathCond' \subseteq pathCond
        BY <1>7, <2>1, <2>3 DEF FunctionStep, DepthExceeded, ConversionFails, PlainBranch,
          MakeAssertion, AssertionHolds, AssertionFails, Call, FeatureFound, OrdinaryException,
          Return, engineVars
      <3> QED
        BY <1>4, <3>1
    <2> QED
      BY <2>2, <2>3
  <1>8. CASE Exhausted \/ Terminated \/ UNCHANGED vars
    BY <1>4, <1>8 DEF Exhausted, Terminated, vars, engineVars
  <1> QED
    BY <1>6, <1>7, <1>8 DEF Next

\* explore runs no input twice that only its own model is converted to, also one that
\* are_same_concrete_object never recognises: for those the duplicate check of explore is
\* not needed.
THEOREM NoInputIsRunTwice == Spec => []NoInputTwice
  <1>1. Init => FramesOnTheirPath /\ Once
    BY DEF Init, FramesOnTheirPath, Stack, Once, ComparableOnce, ExploredIsSpent, DistinctInputs
  <1>2. Partition /\ FramesOnTheirPath /\ Once /\ [Next]_vars => Once'
    BY NextInputOnce, OtherStepsOnce
  <1>3. Once => NoInputTwice
    BY DEF Once, ComparableOnce, DistinctInputs, NoInputTwice
  <1> QED
    BY <1>1, <1>2, <1>3, NextFramesOnTheirPath, PartitionInvariant, PTL DEF Spec

----------------------------------------------------------------------------------
(* Refinement of the abstract search.                                      *)

\* The input of a frame satisfies the condition of the frame.
LEMMA NextFramesSatisfiable ==
  Partition /\ FramesSatisfiable /\ [Next]_vars => FramesSatisfiable'
  <1> SUFFICES ASSUME Partition, FramesSatisfiable, [Next]_vars PROVE FramesSatisfiable'
    OBVIOUS
  <1> USE DEF Partition
  <1>0. unexplored \in Seq(Frame) /\ DOMAIN unexplored = 1 .. Len(unexplored) /\ Len(unexplored) \in Nat
    BY LenProperties DEF TypeOK
  <1>1. CASE UNCHANGED unexplored
    BY <1>1 DEF FramesSatisfiable, Stack
  <1>2. CASE OtherPath # {} /\ \E i \in Input :
               unexplored' = Append(unexplored, [pc |-> OtherPath, input |-> i])
    <2>1. PICK i \in Input : unexplored' = Append(unexplored, [pc |-> OtherPath, input |-> i])
      BY <1>2
    <2> DEFINE n == Len(unexplored)
               f == [pc |-> OtherPath, input |-> i]
    <2>2. f \in Frame
      BY DEF Frame, TypeOK, OtherPath
    <2>3. /\ Stack' = 1 .. (n + 1)
          /\ \A k \in 1 .. n : unexplored'[k] = unexplored[k]
          /\ unexplored'[n + 1] = f
      BY <1>0, <2>1, <2>2, PushFrame DEF Stack
    <2>4. \A k \in Stack' : k \in Stack \/ k = n + 1
      BY <1>0, <2>3 DEF Stack
    <2> QED
      BY <1>0, <1>2, <2>3, <2>4 DEF FramesSatisfiable, Stack
  <1>3. CASE unexplored # <<>> /\ unexplored' = SubSeq(unexplored, 1, Len(unexplored) - 1)
    <2> DEFINE n == Len(unexplored)
    <2>1. /\ Stack' = 1 .. (n - 1)
          /\ \A k \in Stack' : unexplored'[k] = unexplored[k]
          /\ Stack' \subseteq Stack
      BY <1>0, <1>3, PopFrame DEF Stack
    <2> QED
      BY <2>1 DEF FramesSatisfiable
  <1>4. CASE unexplored' = <<[pc |-> Input, input |-> DefaultInput]>> \/ unexplored' = <<>>
    <2>1. \A k \in Stack' : unexplored'[k].pc = Input
      BY <1>4 DEF Stack
    <2> QED
      BY <2>1, InputAssumption DEF FramesSatisfiable
  <1> QED
    BY <1>1, <1>2, <1>3, <1>4, FunctionSteps, LoopSteps

\* One step of the engine is a step of the search or is invisible to it.
LEMMA StepRefines ==
  Partition /\ FramesSatisfiable /\ [Next]_vars => [Search!Next]_(Search!searchVars)
  <1> SUFFICES ASSUME Partition, FramesSatisfiable, [Next]_vars
               PROVE  [Search!Next]_(Search!searchVars)
    OBVIOUS
  <1> USE DEF Partition
  <1> DEFINE Waiting == {unexplored[k].pc : k \in Stack}
             Open == IF phase = "setup" THEN {Input} ELSE Waiting
             Closed == {r.class : r \in runs}
  <1>0. unexplored \in Seq(Frame) /\ DOMAIN unexplored = 1 .. Len(unexplored) /\ Len(unexplored) \in Nat
    BY LenProperties DEF TypeOK
  <1>1. CASE FunctionStep
    <2>1. phase = "run" /\ InRun /\ ActiveClass = pathCond /\ Open = Waiting /\ phase' # "setup"
      BY <1>1, FunctionSteps DEF ActiveClass, InRun
    <2>2. CASE phase' \in {"run", "stopped", "failed"} /\ UNCHANGED <<unexplored, pathCond, runs>>
      <3>1. InRun' /\ ActiveClass' = pathCond /\ Open' = Open /\ Closed' = Closed
        BY <2>1, <2>2 DEF InRun, ActiveClass, Stack
      <3> QED
        BY <2>1, <3>1 DEF Search!searchVars
    <2>3. CASE /\ phase' = "run" /\ UNCHANGED runs /\ pathCond' = SamePath /\ OtherPath # {}
               /\ \E i \in Input : unexplored' = Append(unexplored, [pc |-> OtherPath, input |-> i])
      <3>1. PICK i \in Input : unexplored' = Append(unexplored, [pc |-> OtherPath, input |-> i])
        BY <2>3
      <3> DEFINE n == Len(unexplored)
                 f == [pc |-> OtherPath, input |-> i]
      <3>2. f \in Frame
        BY DEF Frame, TypeOK, OtherPath
      <3>3. /\ Stack' = 1 .. (n + 1)
            /\ \A k \in 1 .. n : unexplored'[k] = unexplored[k]
            /\ unexplored'[n + 1] = f
        BY <1>0, <3>1, <3>2, PushFrame DEF Stack
      <3>4. Open' = Open \cup {OtherPath}
        <4>1. Waiting' = {unexplored'[k].pc : k \in Stack} \cup {unexplored'[n + 1].pc}
          BY <1>0, <3>3 DEF Stack
        <4>2. \A k \in Stack : unexplored'[k].pc = unexplored[k].pc
          BY <1>0, <3>3 DEF Stack
        <4>3. {unexplored'[k].pc : k \in Stack} = Waiting
          BY <4>2
        <4>4. unexplored'[n + 1].pc = OtherPath
          BY <3>3
        <4>5. Waiting' = Waiting \cup {OtherPath}
          BY <4>1, <4>3, <4>4, Zenon
        <4> QED
          BY <2>1, <4>5
      <3>5. InRun' /\ ActiveClass' = ActiveClass \ OtherPath /\ Closed' = Closed
        BY <2>1, <2>3 DEF InRun, ActiveClass, OtherPath, SamePath
      <3>6. OtherPath \in SUBSET Input /\ OtherPath \subseteq ActiveClass
        BY <2>1 DEF OtherPath, TypeOK
      <3>7. PICK away \in SUBSET Input : away = OtherPath
        BY <3>6
      <3>8. Search!Split(away)
        BY <2>1, <2>3, <3>4, <3>5, <3>6, <3>7 DEF Search!Split
      <3> QED
        BY <3>8 DEF Search!Next
    <2>4. CASE phase' = "run" /\ UNCHANGED <<runs, unexplored>> /\ pathCond' \subseteq pathCond
      <3> DEFINE away == pathCond \ pathCond'
      <3>1. /\ InRun' /\ ActiveClass' = ActiveClass \ away /\ Open' = Open /\ Closed' = Closed
            /\ away \subseteq ActiveClass /\ away \in SUBSET Input
        BY <2>1, <2>4 DEF InRun, ActiveClass, Stack, TypeOK
      <3>2. Search!Narrow(away)
        BY <2>1, <3>1 DEF Search!Narrow
      <3> QED
        BY <3>1, <3>2 DEF Search!Next
    <2>5. CASE /\ phase' = "loop" /\ UNCHANGED unexplored
               /\ \E end \in {"return", "raise", "depth"} :
                    runs' = runs \cup {[input |-> cur, class |-> pathCond, path |-> path,
                                        end |-> end]}
      <3>1. PICK end \in {"return", "raise", "depth"} :
              runs' = runs \cup {[input |-> cur, class |-> pathCond, path |-> path, end |-> end]}
        BY <2>5
      <3>2. Closed' = Closed \cup {pathCond}
        <4> DEFINE new == [input |-> cur, class |-> pathCond, path |-> path, end |-> end]
        <4>1. runs' = runs \cup {new} /\ new.class = pathCond
          BY <3>1
        <4>2. Closed' = Closed \cup {new.class}
          BY <4>1
        <4> QED
          BY <4>1, <4>2
      <3>3. InRun' = FALSE /\ ActiveClass' = {} /\ Open' = Open
        BY <2>1, <2>5 DEF InRun, ActiveClass, Stack
      <3>4. Search!Close
        BY <2>1, <3>2, <3>3 DEF Search!Close
      <3> QED
        BY <3>4 DEF Search!Next
    <2>6. OtherPath = {} => SamePath = pathCond
      BY DEF OtherPath, SamePath
    <2> QED
      BY <1>1, <2>2, <2>3, <2>4, <2>5, <2>6, FunctionSteps
  <1>2. CASE ~FunctionStep
    <2>1. CASE /\ phase = "setup" /\ phase' = "loop"
               /\ \/ unexplored' = <<[pc |-> Input, input |-> DefaultInput]>>
                  \/ unexplored' = <<>>
               /\ runs = {} /\ runs' = {}
      <3>1. /\ InRun = FALSE /\ InRun' = FALSE /\ ActiveClass = {} /\ ActiveClass' = {}
            /\ Open = {Input} /\ Closed' = Closed
        BY <2>1 DEF InRun, ActiveClass
      <3>2. CASE unexplored' = <<[pc |-> Input, input |-> DefaultInput]>>
        <4>1. Stack' = {1} /\ unexplored'[1].pc = Input
          BY <3>2 DEF Stack
        <4>2. Open' = {Input}
          BY <2>1, <4>1
        <4> QED
          BY <3>1, <4>2 DEF Search!searchVars
      <3>3. CASE unexplored' = <<>>
        <4>1. Open' = {}
          BY <2>1, <3>3 DEF Stack
        <4>2. Search!Drop(Input)
          BY <3>1, <4>1 DEF Search!Drop
        <4> QED
          <5>1. \E class \in Open : Search!Begin(class) \/ Search!Drop(class)
            BY <3>1, <4>2
          <5> QED
            BY <5>1 DEF Search!Next
      <3> QED
        BY <2>1, <3>2, <3>3
    <2>2. CASE /\ phase = "loop" /\ unexplored # <<>>
               /\ unexplored' = SubSeq(unexplored, 1, Len(unexplored) - 1)
               /\ pathCond' = unexplored[Len(unexplored)].pc
               /\ UNCHANGED runs
               /\ phase' \in {"loop", "run"}
      <3> DEFINE n == Len(unexplored)
                 class == unexplored[n].pc
      <3>1. /\ Stack' = 1 .. (n - 1)
            /\ \A k \in Stack' : unexplored'[k] = unexplored[k]
            /\ Stack = Stack' \cup {n}
            /\ n \notin Stack'
        BY <1>0, <2>2, PopFrame DEF Stack
      <3>2. Open = Waiting /\ Open' = Waiting' /\ Closed' = Closed
        BY <2>2
      <3>3. class \in Open
        BY <3>1, <3>2
      <3>4. \A k \in Stack' : unexplored[k].pc # class
        BY <3>1 DEF NoPathTwice, FramesSatisfiable
      <3>5. Waiting' = {unexplored[k].pc : k \in Stack'}
        BY <3>1
      <3>6. Open' = Open \ {class}
        BY <3>1, <3>2, <3>4, <3>5
      <3>7. InRun = FALSE /\ ActiveClass = {}
        BY <2>2 DEF InRun, ActiveClass
      <3>8. CASE phase' = "run"
        <4>1. InRun' = TRUE /\ ActiveClass' = class
          BY <2>2, <3>8 DEF InRun, ActiveClass
        <4>2. PICK c \in Open : c = class
          BY <3>3
        <4>3. Search!Begin(c)
          BY <3>2, <3>6, <3>7, <4>1, <4>2 DEF Search!Begin
        <4> QED
          BY <4>3 DEF Search!Next
      <3>9. CASE phase' = "loop"
        <4>1. InRun' = FALSE /\ ActiveClass' = {}
          BY <3>9 DEF InRun, ActiveClass
        <4>2. PICK c \in Open : c = class
          BY <3>3
        <4>3. Search!Drop(c)
          BY <3>2, <3>6, <3>7, <4>1, <4>2 DEF Search!Drop
        <4> QED
          BY <4>3 DEF Search!Next
      <3> QED
        BY <2>2, <3>8, <3>9
    <2>3. CASE /\ UNCHANGED <<unexplored, pathCond, runs>>
               /\ phase' = phase \/ (phase = "loop" /\ phase' = "done")
      <3>1. InRun' = InRun /\ ActiveClass' = ActiveClass /\ Open' = Open /\ Closed' = Closed
        BY <2>3 DEF InRun, ActiveClass, Stack
      <3> QED
        BY <3>1 DEF Search!searchVars
    <2> QED
      BY <1>2, <2>1, <2>2, <2>3, LoopSteps
  <1> QED
    BY <1>1, <1>2

\* The engine implements the abstract search: a stack of frames, a solver and a
\* program that calls back do nothing but split, close and give up classes.
THEOREM EngineImplementsSearch == Spec => ImplementsPathSearch
  <1>1. Init => Search!Init
    BY DEF Init, Search!Init, InRun, ActiveClass
  <1>2. Init => FramesSatisfiable
    BY DEF Init, FramesSatisfiable, Stack
  <1>3. Spec => []FramesSatisfiable
    BY <1>2, NextFramesSatisfiable, PartitionInvariant, PTL DEF Spec
  <1> QED
    BY <1>1, <1>3, StepRefines, PartitionInvariant, PTL DEF Spec, Search!Spec, ImplementsPathSearch
=================================================================================
