------------------------------- MODULE YamlSearch -------------------------------
(***************************************************************************)
(* A search directed by YAML features: intercept_function_call and         *)
(* check_function_yaml, which compare each call of the function under test *)
(* with the API nodes of the features, and the feature trees themselves    *)
(* (reset, set, propagate).  The exploration underneath is the abstract    *)
(* PathSearch that ConcolicEngine implements.                              *)
(***************************************************************************)
EXTENDS Naturals, Sequences, FiniteSets

CONSTANTS
  Input,        \* inputs of the function under test
  Node,         \* nodes of the feature trees: numbers, a parent after its children
  Specs,        \* YAML files considered
  Programs,     \* the functions under test considered with each file: the calls they make
  MaxDepth,     \* --max-depth
  SolverGivesUp \* may the solver answer `unknown'?

\* roots are the features in the order they are checked.
YamlSpec == [kind : [Node -> {"api", "and", "or"}], children : [Node -> SUBSET Node],
             roots : Seq(Node)]

\* The nodes of the tree under n.
BelowIn(spec) ==
  LET below[n \in Node] == {n} \cup UNION {below[m] : m \in spec.children[n]}
  IN  below

\* What one call does to one feature: the API nodes with the name of the called
\* function, and the conditions on its return value and arguments, in order.
\* A call stands under an `if' that is true of the inputs `when'.
Check == [api : Node, holds : SUBSET Input]
Comparison == [named : SUBSET Node, checks : Seq(Check)]
Call == [when : SUBSET Input, compare : Seq(Comparison)]

\* get_rule makes the parts of a feature before the feature, and every feature of
\* parts of its own.
ASSUME NodeAssumption == Node \subseteq Nat
ASSUME SpecsAssumption ==
  \A spec \in Specs :
    /\ spec \in YamlSpec
    /\ \A n \in Node : \A m \in spec.children[n] : m < n
    /\ spec.roots # <<>>
    /\ \A f, g \in DOMAIN spec.roots :
         f # g => BelowIn(spec)[spec.roots[f]] \cap BelowIn(spec)[spec.roots[g]] = {}

\* A call is compared with each feature's own API nodes.
ASSUME ProgramsAssumption ==
  \A spec \in Specs : \A p \in Programs[spec] :
    /\ p \in Seq(Call)
    /\ \A k \in DOMAIN p :
         /\ DOMAIN p[k].compare = DOMAIN spec.roots
         /\ \A f \in DOMAIN spec.roots : \A a \in p[k].compare[f].named :
              a \in BelowIn(spec)[spec.roots[f]] /\ spec.kind[a] = "api"
ASSUME DepthAssumption == MaxDepth \in Nat
ASSUME SolverAssumption == SolverGivesUp \in BOOLEAN

VARIABLES
  yaml, prog,            \* the features and the function under test, fixed
  open, running, active, closed,   \* the search: see PathSearch
  cur,                   \* the input of the run
  call, feature, check,  \* which call, feature and condition is being compared
  missed,                \* API nodes the call does not match
  triggered,             \* YamlFeature.triggered
  depth, cut,            \* execution_depth, hit_max_depth
  found,                 \* yaml_input, as a set of at most one input
  lost                   \* history: inputs given up by an undecided query

searchVars == <<open, running, active, closed>>
place == <<call, feature, check, missed>>
vars == <<yaml, prog, searchVars, cur, place, triggered, depth, cut, found, lost>>

Search == INSTANCE PathSearch

Features == DOMAIN yaml.roots
Comparing == prog[call].compare[feature]

Init ==
  /\ yaml \in Specs
  /\ prog \in Programs[yaml]
  /\ Search!Init
  /\ cur \in Input
  /\ call = 1 /\ feature = 1 /\ check = 0
  /\ missed = {}
  /\ triggered = [n \in Node |-> FALSE]
  /\ depth = 0
  /\ cut = FALSE
  /\ found = {}
  /\ lost = {}

Below == BelowIn(yaml)

\* Mutant: reset is not passed on to the conjuncts and disjuncts.
ResetRootsOnly == {yaml.roots[f] : f \in Features}

\* YamlFeature.reset on every feature, through the trees.
ResetNodes == UNION {Below[yaml.roots[f]] : f \in Features}

\* The next run: some input of a waiting class, with the features reset.
BeginRun(class) ==
  /\ found = {}
  /\ Search!Begin(class)
  /\ cur' \in class
  /\ triggered' = [n \in Node |-> triggered[n] /\ n \notin ResetNodes]
  /\ call' = 1 /\ feature' = 1 /\ check' = 0
  /\ missed' = {}
  /\ depth' = 0
  /\ UNCHANGED <<yaml, prog, cut, found, lost>>

AtCall == running /\ found = {} /\ call <= Len(prog)
AtCheck == AtCall /\ check \in DOMAIN Comparing.checks
Condition == Comparing.checks[check].holds

\* record_path: the inputs of the class in `away' get a run of their own, if
\* there are any and the solver can tell.
Record(away) ==
  /\ depth < MaxDepth
  /\ depth' = depth + 1
  /\ \/ away = {} /\ UNCHANGED <<searchVars, lost>>
     \/ Search!Split(away) /\ UNCHANGED lost
     \/ SolverGivesUp /\ Search!Narrow(away) /\ lost' = lost \cup away

\* The branch before a call.
Guarded == prog[call].when # Input
Arrives == cur \in prog[call].when

Branch ==
  /\ AtCall /\ check = 0
  /\ IF Guarded
     THEN Record({i \in active : (i \in prog[call].when) # Arrives})
     ELSE UNCHANGED <<searchVars, depth, lost>>
  /\ IF Arrives THEN check' = 1 /\ UNCHANGED call ELSE call' = call + 1 /\ UNCHANGED check
  /\ UNCHANGED <<yaml, prog, cur, feature, missed, triggered, cut, found>>

\* Mutant: the loop over the conditions does not advance.
SameCheck == check

NextCheck == check + 1

\* The condition holds of this call: nothing is recorded.
CheckHolds ==
  /\ AtCheck
  /\ cur \in Condition
  /\ check' = NextCheck
  /\ UNCHANGED <<yaml, prog, searchVars, cur, call, feature, missed, triggered, depth, cut,
                 found, lost>>

\* Mutant: a near miss is not handed to the solver.
NearMissIgnored == {}

\* The inputs of the class that would satisfy a condition this run does not.
NearMiss == active \cap Condition

\* A condition fails: the node is not matched, and record_path asks for an input
\* that satisfies it.
CheckFails ==
  /\ AtCheck
  /\ cur \notin Condition
  /\ Record(NearMiss)
  /\ missed' = missed \cup {Comparing.checks[check].api}
  /\ check' = NextCheck
  /\ UNCHANGED <<yaml, prog, cur, call, feature, triggered, cut, found>>

\* record_path past the limit ends the run, also in the middle of a comparison.
DepthExceeded ==
  /\ \/ AtCheck /\ cur \notin Condition
     \/ AtCall /\ check = 0 /\ Guarded
  /\ depth >= MaxDepth
  /\ cut' = TRUE
  /\ Search!Close
  /\ UNCHANGED <<yaml, prog, cur, place, triggered, depth, found, lost>>

\* Mutant: only the node itself looks at its children's flags.
PropagateShallow(set) ==
  [n \in Node |->
     CASE yaml.kind[n] = "api" -> set[n]
       [] yaml.kind[n] = "and" -> set[n] \/ \A m \in yaml.children[n] : set[m]
       [] OTHER -> set[n] \/ \E m \in yaml.children[n] : set[m]]

\* YamlFeature.propagate from the root: children first, flags are only ever set.
Propagate(set) ==
  LET flag[n \in Node] ==
        CASE yaml.kind[n] = "api" -> set[n]
          [] yaml.kind[n] = "and" -> set[n] \/ \A m \in yaml.children[n] : flag[m]
          [] OTHER -> set[n] \/ \E m \in yaml.children[n] : flag[m]
      reached == Below[yaml.roots[feature]]
  IN  [n \in Node |-> IF n \in reached THEN flag[n] ELSE set[n]]

LastFeature == feature = Len(yaml.roots)

\* The call has been compared with every API node of the feature: set the nodes
\* it matches, propagate, and stop the search if the feature is triggered.
FinishFeature ==
  /\ AtCall /\ check > Len(Comparing.checks)
  /\ triggered' = Propagate([n \in Node |-> triggered[n] \/ n \in Comparing.named \ missed])
  /\ IF triggered'[yaml.roots[feature]]
     THEN found' = {cur} /\ UNCHANGED place
     ELSE /\ IF LastFeature
             THEN feature' = 1 /\ call' = call + 1
             ELSE feature' = feature + 1 /\ UNCHANGED call
          /\ check' = IF LastFeature THEN 0 ELSE 1
          /\ missed' = {}
          /\ UNCHANGED found
  /\ UNCHANGED <<yaml, prog, searchVars, cur, depth, cut, lost>>

\* The function under test returns.
EndRun ==
  /\ running /\ found = {} /\ call > Len(prog)
  /\ Search!Close
  /\ UNCHANGED <<yaml, prog, cur, place, triggered, depth, cut, found, lost>>

Done == found # {} \/ (~running /\ open = {})
Terminated == Done /\ UNCHANGED vars

SearchStep ==
  \/ \E class \in open : BeginRun(class)
  \/ Branch \/ CheckHolds \/ CheckFails \/ DepthExceeded \/ FinishFeature \/ EndRun

Next == SearchStep \/ Terminated

Spec == Init /\ [][Next]_vars
FairSpec == Spec /\ WF_vars(SearchStep)

----------------------------------------------------------------------------------
(* Properties.                                                             *)

\* What a feature means: the API nodes one input's run matches in its first n
\* calls, and the truth of a tree over a set of API nodes.
MatchedBy(i, n) ==
  UNION {{a \in prog[k].compare[f].named :
            \A c \in DOMAIN prog[k].compare[f].checks :
              LET condition == prog[k].compare[f].checks[c]
              IN  condition.api = a => i \in condition.holds} :
         k \in {k \in 1 .. n : i \in prog[k].when}, f \in Features}

True(apis) ==
  LET true[n \in Node] ==
        CASE yaml.kind[n] = "api" -> n \in apis
          [] yaml.kind[n] = "and" -> \A m \in yaml.children[n] : true[m]
          [] OTHER -> \E m \in yaml.children[n] : true[m]
  IN  true

Triggers(i, n) == \E f \in Features : True(MatchedBy(i, n))[yaml.roots[f]]

\* The reported input triggers a feature by the calls of its own run: nothing
\* an earlier run matched counts.
MatchIsReal == \A i \in found : i = cur /\ Triggers(i, call)

\* A run never goes past the call that completes a feature.
ReportedPromptly == running /\ found = {} => ~Triggers(cur, call - 1)

\* When the search ends without a match, no input triggers a feature: conditions
\* that hold are not recorded, yet no class hides an input that would have matched.
NothingMissed ==
  Done /\ found = {} /\ lost = {} /\ ~cut => \A i \in Input : ~Triggers(i, Len(prog))

\* The search ends.
Termination == <>Done
=================================================================================
