--------------------------------- MODULE Fuzzer ---------------------------------
(***************************************************************************)
(* The fallback after exploration: ConcolicEngine.fuzz, with the branch    *)
(* history it shares with the exploration (mark_taken, untaken_branches)   *)
(* and the verdict on_exit prints.  What a random argument tuple does to   *)
(* the history is a constant: the outcomes of the branches it meets, and   *)
(* whether its call raises.                                                *)
(***************************************************************************)
EXTENDS Naturals, Sequences, FiniteSets

CONSTANTS
  Site,          \* (line, column) keys of taken_history
  Arg,           \* argument tuples generate_arbitrary can produce
  Behaviours,    \* functions under test considered: what each argument tuple does
  MaxAttempts    \* max_fuzzing_attempts

Mark == Site \X BOOLEAN
Behaviour == [Arg -> [marks : SUBSET Mark, raises : BOOLEAN]]

ASSUME SiteAssumption == IsFiniteSet(Site)
ASSUME BehavioursAssumption == Behaviours \subseteq Behaviour
ASSUME AttemptsAssumption == MaxAttempts \in Nat

VARIABLES
  does,        \* the function under test, fixed
  before,      \* history: the marks the exploration left
  taken,       \* taken_history, as the set of outcomes seen
  missing,     \* missing_branches
  counter,     \* attempts made
  recorded,    \* explored_inputs, what fuzz returns
  raised,      \* history: has a fuzzed call raised?
  phase        \* "fuzz" or "done"

vars == <<does, before, taken, missing, counter, recorded, raised, phase>>

\* untaken_branches: sites that were reached and have not gone both ways.
Untaken(marks) == {s \in Site : \E b \in BOOLEAN : <<s, b>> \in marks /\ <<s, ~b>> \notin marks}

\* The exploration ran some inputs of its own; fuzz starts from what they left.
Init ==
  /\ does \in Behaviours
  /\ \E tried \in SUBSET Arg : before = UNION {does[a].marks : a \in tried}
  /\ taken = before
  /\ missing = Untaken(taken)
  /\ counter = 0
  /\ recorded = <<>>
  /\ raised = FALSE
  /\ phase = "fuzz"

Fuzzing == phase = "fuzz" /\ missing # {} /\ counter < MaxAttempts

\* Mutant: an attempt that raises is not counted.
Uncounted == counter

\* counter += 1 in the exception handler
CountFailure == counter + 1

\* The call raises: the branches it met stay marked, nothing is recorded.
FuzzRaises(a) ==
  /\ Fuzzing
  /\ does[a].raises
  /\ taken' = taken \cup does[a].marks
  /\ counter' = CountFailure
  /\ raised' = TRUE
  /\ UNCHANGED <<does, before, missing, recorded, phase>>

\* Mutant: the history is read before the call instead of after it.
CoveredTooEarly(a) == missing \ Untaken(taken)

\* The missing branches that are no longer untaken after the call.
Covered(a) == missing \ Untaken(taken \cup does[a].marks)

\* Mutant: missing_branches keeps what was covered.
Stale(a) == missing

\* missing_branches after the loop over its old value: replaced as soon as one
\* of them was covered, else left alone.
StillMissing(a) == IF Covered(a) = {} THEN missing ELSE Untaken(taken \cup does[a].marks)

\* The call returns: it is appended once for every missing branch it covered.
FuzzReturns(a) ==
  /\ Fuzzing
  /\ ~does[a].raises
  /\ taken' = taken \cup does[a].marks
  /\ recorded' = recorded \o [k \in 1 .. Cardinality(Covered(a)) |-> a]
  /\ missing' = StillMissing(a)
  /\ counter' = counter + 1
  /\ UNCHANGED <<does, before, raised, phase>>

Finish ==
  /\ phase = "fuzz"
  /\ ~Fuzzing
  /\ phase' = "done"
  /\ UNCHANGED <<does, before, taken, missing, counter, recorded, raised>>

Terminated == phase = "done" /\ UNCHANGED vars

FuzzStep == Finish \/ \E a \in Arg : FuzzRaises(a) \/ FuzzReturns(a)

Next == FuzzStep \/ Terminated

Spec == Init /\ [][Next]_vars

\* One thread, and every fuzzed call is assumed to return or raise.
FairSpec == Spec /\ WF_vars(FuzzStep)

----------------------------------------------------------------------------------
(* Properties.                                                             *)

TypeOK ==
  /\ does \in Behaviour
  /\ before \subseteq Mark
  /\ taken \subseteq Mark
  /\ missing \subseteq Site
  /\ counter \in 0 .. MaxAttempts
  /\ recorded \in Seq(Arg)
  /\ raised \in BOOLEAN
  /\ phase \in {"fuzz", "done"}

Recorded == {recorded[k] : k \in DOMAIN recorded}
RecordedMarks == UNION {does[a].marks : a \in Recorded}

\* What was untaken before and is taken now was taken by an input that fuzz
\* returns, as long as no fuzzed call raised: the user is never told a branch
\* the exploration missed is covered without being given an input for it.
CoveredIsRecorded ==
  ~raised =>
    \A s \in Untaken(before) \ Untaken(taken) :
      \E b \in BOOLEAN : <<s, b>> \in RecordedMarks \ before

\* Every returned input earns its place, as long as no fuzzed call raised: it
\* takes a branch that neither the exploration nor an input returned earlier took.
RecordedIsUseful ==
  ~raised =>
    \A k \in DOMAIN recorded :
      LET earlier == UNION {does[recorded[j]].marks :
                              j \in {j \in 1 .. k - 1 : recorded[j] # recorded[k]}}
      IN  does[recorded[k]].marks \ (before \cup earlier) # {}

\* fuzz returns, whatever its calls do.
Termination == <>(phase = "done")
=================================================================================
