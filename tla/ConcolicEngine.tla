----------------------------- MODULE ConcolicEngine -----------------------------
(***************************************************************************)
(* The exploration loop of pyctos: ConcolicEngine.explore, the calls an    *)
(* instrumented function makes back into the engine (record_path,          *)
(* make_assertion, prove), and the exceptions that end a run.              *)
(*                                                                         *)
(* An input is one assignment to everything the function under test reads  *)
(* (arguments, globals, files).  A path condition is the set of inputs     *)
(* that satisfy it, so conjunction is intersection, `unsat' is the empty   *)
(* set and a model is a member.  The function under test is a control      *)
(* graph: a node is a place where instrumented code reaches the engine,    *)
(* together with whatever program state tells two visits apart.            *)
(***************************************************************************)
EXTENDS Naturals, Sequences, FiniteSets

CONSTANTS
  Input,            \* the inputs of the function under test
  DefaultInput,     \* 0 for every parameter, the globals as they are
  Node,             \* control points of the function under test
  Site,             \* (line, column) keys of taken_history
  None,             \* no handler
  Programs,         \* the functions under test considered
  MaxDepth,         \* --max-depth: recorded conditions allowed in one run
  Convert,          \* Convert[m]: the Python input convert_model makes of m
  Unconvertible,    \* models convert_model raises NotImplementedError for
  Comparable,       \* inputs are_same_concrete_object finds equal to themselves
  Unprepared,       \* inputs that raise before the call: put as globals, copied or compared
  SolverGivesUp     \* may the solver answer `unknown'?

\* What a node does when control reaches it.
Kinds == {"if",      \* if/while on a SymbolicValue
          "plain",   \* if/while on a plain Python value
          "check",   \* an overloaded operation records a condition, unmarked
          "assume",  \* make_assertion
          "assert",  \* pyctos_assert
          "prove",   \* pyctos_prove
          "call",    \* a call that completes a YAML feature on the inputs it holds for
          "raise",   \* an ordinary exception
          "return"}

\* Conditions that enter the path condition as a branch.
Recorded == {"if", "check"}

Program == [entry : Node,
            kind : [Node -> Kinds],
            site : [Node -> Site],
            holds : [Node -> SUBSET Input],          \* where the condition is true
            then : [Node -> Node],                   \* where control goes when it is true
            else : [Node -> Node],                   \* and when it is false
            handler : [Node -> Node \cup {None}],    \* innermost try ... except Exception
            positional : BOOLEAN]                    \* can every parameter be bound by position?

ASSUME InputAssumption == DefaultInput \in Input
ASSUME NoneAssumption == None \notin Node
ASSUME ProgramsAssumption == Programs \subseteq Program
ASSUME DepthAssumption == MaxDepth \in Nat
ASSUME ConvertAssumption == Convert \in [Input -> Input]
ASSUME UnconvertibleAssumption == Unconvertible \subseteq Input
ASSUME ComparableAssumption == Comparable \subseteq Input
ASSUME UnpreparedAssumption == Unprepared \subseteq Input
ASSUME SolverAssumption == SolverGivesUp \in BOOLEAN

VARIABLES
  prog,         \* the function under test, fixed
  phase,        \* "setup", "loop", "run", or how explore ended
  unexplored,   \* unexplored_inputs, a stack
  explored,     \* explored_inputs
  pathCond,     \* path_condition
  depth,        \* execution_depth
  hitMaxDepth,  \* hit_max_depth
  cur,          \* the input of the current run
  node,         \* where the current run is
  taken,        \* taken_history: the <<site, outcome>> pairs seen
  yamlInput,    \* yaml_input: the match, as a set of at most one input
  path,         \* history: the conditions decided by the current run
  runs,         \* history: the runs that have ended
  dropped       \* history: inputs whose class was given up

engineVars == <<unexplored, explored, pathCond, depth, hitMaxDepth, yamlInput>>
history == <<path, runs, dropped>>
vars == <<prog, phase, engineVars, cur, node, taken, history>>

Frame == [pc : SUBSET Input, input : Input]
Step == [at : Node, outcome : BOOLEAN]
Run == [input : Input, class : SUBSET Input, path : Seq(Step), end : {"return", "raise", "depth"}]

Ended == {"done", "stopped", "failed"}
Kind == prog.kind[node]
Outcome == cur \in prog.holds[node]

\* Mutant: inputs are never recognised.
NeverSame(i, j) == FALSE

\* are_same_concrete_object on whole inputs: sets, NaN and values of foreign types never
\* compare equal, not even to themselves.
SameInput(i, j) == i = j /\ i \in Comparable

----------------------------------------------------------------------------------
Init ==
  /\ prog \in Programs
  /\ phase = "setup"
  /\ unexplored = <<>>
  /\ explored = <<>>
  /\ pathCond = Input
  /\ depth = 0
  /\ hitMaxDepth = FALSE
  /\ cur = DefaultInput
  /\ node = prog.entry
  /\ taken = {}
  /\ yamlInput = {}
  /\ path = <<>>
  /\ runs = {}
  /\ dropped = {}

\* setup_unexplored_inputs: one frame with the defaults.  Binding a keyword-only
\* parameter by position raises TypeError, which explore logs and ignores.
Setup ==
  /\ phase = "setup"
  /\ phase' = "loop"
  /\ IF prog.positional
     THEN /\ unexplored' = <<[pc |-> pathCond, input |-> DefaultInput]>>
          /\ UNCHANGED dropped
     ELSE /\ dropped' = dropped \cup pathCond
          /\ UNCHANGED unexplored
  /\ UNCHANGED <<prog, explored, pathCond, depth, hitMaxDepth, yamlInput, cur, node,
                 taken, path, runs>>

\* Mutant: the frame is looked at and left on the stack.
NotPopped == unexplored

\* unexplored_inputs.pop()
Popped == SubSeq(unexplored, 1, Len(unexplored) - 1)

\* One iteration of the loop up to the call of the function: pop the newest
\* frame, restore its state, refuse an input that was explored before.  What raises
\* on the way to the call ends the iteration like any exception of the function.
NextInput ==
  /\ phase = "loop"
  /\ unexplored # <<>>
  /\ LET frame == unexplored[Len(unexplored)]
         again == \E k \in DOMAIN explored : SameInput(explored[k], frame.input)
     IN  /\ unexplored' = Popped
         /\ pathCond' = frame.pc
         /\ depth' = 0
         /\ IF again \/ frame.input \in Unprepared
            THEN /\ dropped' = dropped \cup frame.pc
                 /\ UNCHANGED <<phase, explored, cur, node, path>>
            ELSE /\ explored' = Append(explored, frame.input)
                 /\ cur' = frame.input
                 /\ node' = prog.entry
                 /\ path' = <<>>
                 /\ phase' = "run"
                 /\ UNCHANGED dropped
  /\ UNCHANGED <<prog, hitMaxDepth, yamlInput, taken, runs>>

Exhausted ==
  /\ phase = "loop"
  /\ unexplored = <<>>
  /\ phase' = "done"
  /\ UNCHANGED <<prog, engineVars, cur, node, taken, history>>

----------------------------------------------------------------------------------
(* How a step of the function under test leaves the node.                  *)

\* The run is over: explore goes back to its loop.
EndRun(end) ==
  /\ phase' = "loop"
  /\ runs' = runs \cup {[input |-> cur, class |-> pathCond, path |-> path, end |-> end]}
  /\ UNCHANGED node

\* An exception of any kind: a handler in the function under test sees it first.
Caught == prog.handler[node] # None

GoToHandler ==
  /\ node' = prog.handler[node]
  /\ UNCHANGED <<phase, runs>>

Proceed(outcome) ==
  /\ node' = IF outcome THEN prog.then[node] ELSE prog.else[node]
  /\ path' = Append(path, [at |-> node, outcome |-> outcome])
  /\ UNCHANGED <<phase, runs>>

Running(kinds) == phase = "run" /\ Kind \in kinds

\* Mutant: the limit is enforced but not reported.
NoteNothing == UNCHANGED hitMaxDepth

\* hit_max_depth = True
NoteMaxDepth == hitMaxDepth' = TRUE

\* record_path past the limit: flag it and raise before anything is recorded or marked.
DepthExceeded ==
  /\ Running(Recorded)
  /\ depth >= MaxDepth
  /\ NoteMaxDepth
  /\ IF Caught
     THEN GoToHandler /\ depth' = depth + 1
     ELSE EndRun("depth") /\ depth' = 0
  /\ UNCHANGED <<prog, unexplored, explored, pathCond, yamlInput, cur, taken, path, dropped>>

\* Mutant: the condition joins as it is, also when it is concretely false.
NeverNegated == {i \in pathCond : i \in prog.holds[node]}

\* Mutant: the condition is not joined to the path condition.
NotJoined == pathCond

\* path_condition /\ get_path_condition_append(v): the inputs of the class that
\* decide this condition as the current input does.
SamePath == {i \in pathCond : (i \in prog.holds[node]) = Outcome}

\* Mutant: the path condition is left out of the negated query.
OtherPathAnywhere == {i \in Input : (i \in prog.holds[node]) # Outcome}

\* Mutant: the path condition is updated before the other path is built from it.
OtherPathTooLate == {i \in SamePath : (i \in prog.holds[node]) # Outcome}

\* path_condition /\ ~valu: the inputs of the class that decide it the other way.
OtherPath == {i \in pathCond : (i \in prog.holds[node]) # Outcome}

\* mark_taken
Mark == {<<prog.site[node], Outcome>>}

\* record_path, then mark_taken for an if or while: follow the concrete outcome
\* and queue a model of the other side.
RecordPath ==
  /\ Running(Recorded)
  /\ depth < MaxDepth
  /\ depth' = depth + 1
  /\ pathCond' = SamePath
  /\ \/ /\ OtherPath = {}
        /\ UNCHANGED <<unexplored, dropped>>
     \/ \E model \in OtherPath \ Unconvertible :
          /\ unexplored' = Append(unexplored, [pc |-> OtherPath, input |-> Convert[model]])
          /\ UNCHANGED dropped
     \/ /\ SolverGivesUp
        /\ OtherPath # {}
        /\ dropped' = dropped \cup OtherPath
        /\ UNCHANGED unexplored
  /\ taken' = IF Kind = "if" THEN taken \cup Mark ELSE taken
  /\ Proceed(Outcome)
  /\ UNCHANGED <<prog, explored, hitMaxDepth, yamlInput, cur>>

\* record_path finds a model and cannot convert it: the other path is lost, and the
\* error unwinds the run before the branch is marked.
ConversionFails ==
  /\ Running(Recorded)
  /\ depth < MaxDepth
  /\ OtherPath \cap Unconvertible # {}
  /\ depth' = depth + 1
  /\ pathCond' = SamePath
  /\ dropped' = dropped \cup OtherPath
  /\ IF Caught THEN GoToHandler ELSE EndRun("raise")
  /\ UNCHANGED <<prog, unexplored, explored, hitMaxDepth, yamlInput, cur, taken, path>>

\* A condition that is a plain Python value is only marked.
PlainBranch ==
  /\ Running({"plain"})
  /\ taken' = taken \cup Mark
  /\ Proceed(Outcome)
  /\ UNCHANGED <<prog, engineVars, cur, dropped>>

\* make_assertion: the formula joins the path condition, its negation is never tried.
MakeAssertion ==
  /\ Running({"assume"})
  /\ pathCond' = pathCond \cap prog.holds[node]
  /\ dropped' = dropped \cup (pathCond \ prog.holds[node])
  /\ Proceed(TRUE)
  /\ UNCHANGED <<prog, unexplored, explored, depth, hitMaxDepth, yamlInput, cur, taken>>

\* Mutant: only the current input is looked at.
ValidHere == Outcome

\* prove: concretely true, and the negation unsatisfiable with the path condition.
Valid == Outcome /\ pathCond \subseteq prog.holds[node]

\* pyctos_assert and pyctos_prove that succeed.
AssertionHolds ==
  /\ \/ Running({"assert"}) /\ Outcome
     \/ Running({"prove"}) /\ Valid
  /\ Proceed(TRUE)
  /\ UNCHANGED <<prog, engineVars, cur, taken, dropped>>

\* pyctos_assert and pyctos_prove that fail: PyctosAssertionError, which explore raises again.
AssertionFails ==
  /\ \/ Running({"assert"}) /\ ~Outcome
     \/ Running({"prove"}) /\ (~Valid \/ SolverGivesUp)
  /\ IF Caught
     THEN GoToHandler
     ELSE phase' = "failed" /\ UNCHANGED <<node, runs>>
  /\ UNCHANGED <<prog, engineVars, cur, taken, path, dropped>>

\* intercept_function_call, when the call does not complete a feature.
Call ==
  /\ Running({"call"})
  /\ ~Outcome
  /\ Proceed(FALSE)
  /\ UNCHANGED <<prog, engineVars, cur, taken, dropped>>

\* Mutant: the oldest input is reported.
FirstInput == explored[1]

\* explored_inputs[-1]
LatestInput == explored[Len(explored)]

\* The feature is triggered: StopSearching, caught by explore unless the function
\* under test catches it first.
FeatureFound ==
  /\ Running({"call"})
  /\ Outcome
  /\ IF Caught
     THEN GoToHandler /\ UNCHANGED yamlInput
     ELSE /\ phase' = "stopped"
          /\ yamlInput' = {LatestInput}
          /\ UNCHANGED <<node, runs>>
  /\ UNCHANGED <<prog, unexplored, explored, pathCond, depth, hitMaxDepth, cur, taken,
                 path, dropped>>

\* Any other exception ends the run and is ignored by explore.
OrdinaryException ==
  /\ Running({"raise"})
  /\ IF Caught THEN GoToHandler ELSE EndRun("raise")
  /\ UNCHANGED <<prog, engineVars, cur, taken, path, dropped>>

Return ==
  /\ Running({"return"})
  /\ EndRun("return")
  /\ UNCHANGED <<prog, engineVars, cur, taken, path, dropped>>

\* explore has returned or raised.
Terminated == phase \in Ended /\ UNCHANGED vars

FunctionStep ==
  \/ DepthExceeded \/ RecordPath \/ ConversionFails \/ PlainBranch \/ MakeAssertion
  \/ AssertionHolds \/ AssertionFails \/ Call \/ FeatureFound
  \/ OrdinaryException \/ Return

Next == Setup \/ NextInput \/ Exhausted \/ FunctionStep \/ Terminated

Spec == Init /\ [][Next]_vars

\* One thread; every engine step returns (the solver has a timeout).
FairSpec == Spec /\ WF_vars(Setup \/ NextInput \/ Exhausted \/ FunctionStep)

----------------------------------------------------------------------------------
(* Properties.                                                             *)

TypeOK ==
  /\ prog \in Program
  /\ phase \in {"setup", "loop", "run"} \cup Ended
  /\ unexplored \in Seq(Frame)
  /\ explored \in Seq(Input)
  /\ pathCond \subseteq Input
  /\ depth \in Nat
  /\ hitMaxDepth \in BOOLEAN
  /\ cur \in Input
  /\ node \in Node
  /\ taken \subseteq Site \X BOOLEAN
  /\ yamlInput \subseteq Input
  /\ path \in Seq(Step)
  /\ runs \subseteq Run
  /\ dropped \subseteq Input

Stack == DOMAIN unexplored
\* The class of the run in progress, also when the run ended the exploration.
InRun == phase \in {"run", "stopped", "failed"}
ActiveClass == IF InRun THEN pathCond ELSE {}

\* explored_inputs[-1] is the input of the run in progress.
LatestIsCurrent == InRun => explored # <<>> /\ LatestInput = cur

\* No input is ever looked at twice: the frames on the stack, the run in
\* progress and the finished runs own disjoint sets of inputs, so record_path
\* never queues a path that is queued, running or explored already.
NoPathTwice ==
  /\ \A j, k \in Stack : j # k => unexplored[j].pc \cap unexplored[k].pc = {}
  /\ \A k \in Stack : unexplored[k].pc \cap ActiveClass = {}
  /\ \A r \in runs : r.class \cap ActiveClass = {}
  /\ \A r \in runs, k \in Stack : r.class \cap unexplored[k].pc = {}

\* Before setup the whole input space is one class and nothing waits or has run.
Fresh == phase = "setup" => unexplored = <<>> /\ runs = {} /\ pathCond = Input

\* A frame is queued only for a satisfiable path.
FramesSatisfiable == \A k \in Stack : unexplored[k].pc # {}

\* Nothing falls off the stack: every input is in the class of a finished run,
\* of the current run or of a waiting frame, or was given up at a named place
\* (undecided query, unconvertible model, assertion, duplicate input, exception before
\* the call, unbindable signature).
EveryInputAccounted ==
  phase # "setup" =>
    \A i \in Input :
      \/ \E r \in runs : i \in r.class
      \/ \E k \in Stack : i \in unexplored[k].pc
      \/ i \in ActiveClass
      \/ i \in dropped

\* Some other model is converted to this input.
Misread(i) == \E model \in Input \ Unconvertible : model # i /\ Convert[model] = i

\* While a run is in progress its own input satisfies the path condition it
\* accumulates, when no other model is converted to it: concolic execution does not
\* diverge from the branch it was started for.
InputOnItsPath ==
  ~Misread(cur) /\ phase = "run" => cur \in pathCond \cup dropped

\* are_same_concrete_object cannot recognise every input, and yet explore runs no
\* input twice that only its own model is converted to: the classes on the stack keep
\* it from coming back, while other inputs come back as often as they are misread.
NoInputTwice ==
  \A j, k \in DOMAIN explored :
    j # k /\ explored[j] = explored[k] => Misread(explored[j]) /\ explored[j] \notin Comparable

\* The inputs of a class decided every recorded condition of its run alike.
Agrees(i, steps) ==
  \A k \in DOMAIN steps :
    prog.kind[steps[k].at] \in Recorded =>
      (i \in prog.holds[steps[k].at]) = steps[k].outcome

\* A class is a path: each input of the class of a run takes every recorded
\* branch of that run the same way.
ClassFollowsPath ==
  /\ \A r \in runs : \A i \in r.class : Agrees(i, r.path)
  /\ InRun => \A i \in pathCond : Agrees(i, path)

\* A run that was cut short is reported, and explore stops only on an empty stack.
CutsReported ==
  /\ \A r \in runs : r.end = "depth" => hitMaxDepth
  /\ phase = "done" => unexplored = <<>>

\* When explore returns with nothing given up and hit_max_depth unset, every
\* input follows the path of some explored input to that path's own end: the
\* exploration was exhaustive, which is what the absence of the
\* "maximum exploration depth" warning tells the user.
EveryPathExplored ==
  phase = "done" /\ dropped = {} /\ ~hitMaxDepth =>
    \A i \in Input : \E r \in runs :
      /\ Agrees(i, r.path)
      /\ r.end \in {"return", "raise"}

\* Every pyctos_prove passed by a run holds for the whole class of the run.
ProvedBy(steps, class) ==
  \A k \in DOMAIN steps :
    prog.kind[steps[k].at] = "prove" => class \subseteq prog.holds[steps[k].at]

ProvedForClass ==
  /\ \A r \in runs : ProvedBy(r.path, r.class)
  /\ InRun => ProvedBy(path, pathCond)

\* An exhaustive exploration that did not fail is a proof: a pyctos_prove that
\* was passed on a path holds for every input that follows the path, explored
\* or not.
ProofsHoldForEveryInput ==
  phase = "done" =>
    \A i \in Input \ dropped : \E r \in runs :
      /\ Agrees(i, r.path)
      /\ \A k \in DOMAIN r.path :
           prog.kind[r.path[k].at] = "prove" => i \in prog.holds[r.path[k].at]

\* The input reported for a YAML feature is the one whose run triggered it.
YamlInputTriggers ==
  phase = "stopped" => yamlInput = {cur} /\ cur \in prog.holds[node]

\* explore returns, although models are converted to other inputs and some inputs are
\* never recognised, as long as no input is both.
Termination == (\A i \in Input : Misread(i) => i \in Comparable) => <>(phase \in Ended)

----------------------------------------------------------------------------------
(* The exploration implements the abstract search.                         *)

Search == INSTANCE PathSearch WITH
  open <- IF phase = "setup" THEN {Input} ELSE {unexplored[k].pc : k \in Stack},
  running <- InRun,
  active <- ActiveClass,
  closed <- {r.class : r \in runs}

\* Each step of the engine carves up, closes or gives up one class, or changes
\* nothing a search can see.
ImplementsPathSearch == Search!Spec
=================================================================================
