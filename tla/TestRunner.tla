------------------------------- MODULE TestRunner -------------------------------
(***************************************************************************)
(* pyctest (pyctest/runner.py): a pool of threads runs the tests, each of  *)
(* which tries its modes in order.  For each mode pyctos, in a process of  *)
(* its own, writes inputs to the folder of the test, and pyctat replays    *)
(* what it finds there.  Both may fail, crash or run out of time, at any   *)
(* point of what they do.                                                  *)
(***************************************************************************)
EXTENDS Naturals, Sequences, FiniteSets

CONSTANTS
  Test,     \* the selected tests
  Worker,   \* threads a pool may have
  Branch,   \* what there is to cover in a function under test
  Folder,   \* input folders
  Configs,  \* configurations considered
  NoTest

Order == {q \in [1 .. Cardinality(Test) -> Test] : \A i, j \in DOMAIN q : q[i] = q[j] => i = j}

Config == [workers : SUBSET Worker,    \* the threads; one alone is the serial loop
           folder : [Test -> Folder],  \* <path>_<name>_inputs
           modes : [Test -> Nat],      \* number of modes; mode k is the k-th of them
           xfail : SUBSET Test]        \* tests expected to fail

ASSUME ConfigsAssumption == Configs \subseteq Config
ASSUME TestAssumption == IsFiniteSet(Test) /\ NoTest \notin Test

VARIABLES
  config,   \* the tests' configuration, fixed
  queue,    \* tests no worker has started
  run,      \* what each worker does
  disk,     \* the inputs in each folder, with the run that wrote them
  wrote,    \* history: every input any run wrote
  finished, \* results not yet printed
  results,  \* results main has printed
  raised,   \* did run_test raise?
  exit      \* exit status of pyctest, or "none"

vars == <<config, queue, run, disk, wrote, finished, results, raised, exit>>

Input == [test : Test, mode : Nat, branch : Branch]
Status == {"passed", "failed", "xfailed", "xpassed"}
Result == [test : Test, status : Status, mode : Nat]

\* Exit codes of a subprocess: success, 1, another code, and 124 after its time ran out.
Code == {0, 1, 2, 124}

Idle == [test |-> NoTest, mode |-> 0, step |-> "idle", loaded |-> {}]
Serial == Cardinality(config.workers) = 1

Init ==
  /\ config \in Configs
  /\ queue \in Order
  /\ run = [w \in Worker |-> Idle]
  /\ disk = [f \in Folder |-> {}]
  /\ wrote = {}
  /\ finished = {}
  /\ results = {}
  /\ raised = FALSE
  /\ exit = "none"

At(w, step) == run[w].step = step
Go(w, step) == run' = [run EXCEPT ![w].step = step]
FolderOf(w) == config.folder[run[w].test]

\* A worker takes the next test.  The serial loop runs it once the result of the
\* one before is printed, and stops at the first exception.
Start(w) ==
  /\ w \in config.workers
  /\ At(w, "idle") /\ queue # <<>>
  /\ Serial => finished = {} /\ ~raised
  /\ queue' = Tail(queue)
  /\ run' = [run EXCEPT ![w] = [test |-> Head(queue), mode |-> 1, loaded |-> {},
               step |-> IF config.modes[Head(queue)] = 0 THEN "rejected" ELSE "clear"]]
  /\ UNCHANGED <<config, disk, wrote, finished, results, raised, exit>>

\* Mutant: the inputs of the mode before stay in the folder.
KeptInputs(w) == disk[FolderOf(w)]

\* shutil.rmtree on the test's folder.
ClearedInputs(w) == {}

Clear(w) ==
  /\ At(w, "clear")
  /\ disk' = [disk EXCEPT ![FolderOf(w)] = ClearedInputs(w)]
  /\ Go(w, "pyctos")
  /\ UNCHANGED <<config, queue, wrote, finished, results, raised, exit>>

\* pyctos dumps an input.
Generate(w, b) ==
  /\ At(w, "pyctos")
  /\ LET i == [test |-> run[w].test, mode |-> run[w].mode, branch |-> b]
     IN  /\ disk' = [disk EXCEPT ![FolderOf(w)] = @ \cup {i}]
         /\ wrote' = wrote \cup {i}
  /\ UNCHANGED <<config, queue, run, finished, results, raised, exit>>

\* Exit code 1 ends the test, any other failure only the mode.
AfterFailure(code) == IF code = 1 THEN "rejected" ELSE "next"

\* pyctos ends, is killed, or fails before it dumped all inputs.
PyctosExits(w, code) ==
  /\ At(w, "pyctos")
  /\ Go(w, IF code = 0 THEN "pyctat" ELSE AfterFailure(code))
  /\ UNCHANGED <<config, queue, disk, wrote, finished, results, raised, exit>>

\* pyctat reads the folder, and fails with code 1 when there is none.
PyctatLoads(w) ==
  /\ At(w, "pyctat")
  /\ run' = [run EXCEPT ![w].loaded = disk[FolderOf(w)],
                        ![w].step = IF disk[FolderOf(w)] = {} THEN "rejected" ELSE "replay"]
  /\ UNCHANGED <<config, queue, disk, wrote, finished, results, raised, exit>>

\* Does pyctat's output report full coverage?
Covered(w) == \A b \in Branch : \E i \in run[w].loaded : i.branch = b

\* pyctat ends, is killed, or fails.
PyctatExits(w, code) ==
  /\ At(w, "replay")
  /\ Go(w, IF code # 0 THEN AfterFailure(code) ELSE IF Covered(w) THEN "accepted" ELSE "next")
  /\ UNCHANGED <<config, queue, disk, wrote, finished, results, raised, exit>>

\* Mutant: the mode is tried again.
SameMode(w) == run[w].mode

ModeAfter(w) == run[w].mode + 1

HasNext(w) == run[w].mode < config.modes[run[w].test]

\* The mode did not cover the function: try the next one, if there is one.
NextMode(w) ==
  /\ At(w, "next")
  /\ run' = IF HasNext(w)
            THEN [run EXCEPT ![w].mode = ModeAfter(w), ![w].step = "clear"]
            ELSE [run EXCEPT ![w].step = "rejected"]
  /\ UNCHANGED <<config, queue, disk, wrote, finished, results, raised, exit>>

\* The test's result, turned round by xfail.
Verdict(w) == IF At(w, "accepted")
              THEN IF run[w].test \in config.xfail THEN "xpassed" ELSE "passed"
              ELSE IF run[w].test \in config.xfail THEN "xfailed" ELSE "failed"

FinishTest(w) ==
  /\ At(w, "accepted") \/ At(w, "rejected")
  /\ finished' = finished \cup {[test |-> run[w].test, status |-> Verdict(w), mode |-> run[w].mode]}
  /\ run' = [run EXCEPT ![w] = Idle]
  /\ UNCHANGED <<config, queue, disk, wrote, results, raised, exit>>

\* run_command raises: no such program, or output that is not text.
Raise(w) ==
  /\ At(w, "pyctos") \/ At(w, "pyctat") \/ At(w, "replay")
  /\ raised' = TRUE
  /\ run' = [run EXCEPT ![w] = Idle]
  /\ UNCHANGED <<config, queue, disk, wrote, finished, results, exit>>

\* main collects a result; as_completed yields them as they come.
Collect(r) ==
  /\ exit = "none"
  /\ finished' = finished \ {r}
  /\ results' = results \cup {r}
  /\ UNCHANGED <<config, queue, run, disk, wrote, raised, exit>>

\* Mutant: TestResult.passed forgets that an expected failure did not happen.
NotFailed(r) == r.status # "failed"

Passed(r) == r.status \in {"passed", "xfailed"}

\* main has printed every result, or an exception reaches it; the pool finishes
\* the tests it was given either way.
Exit ==
  /\ exit = "none"
  /\ \A w \in Worker : At(w, "idle")
  /\ queue = <<>> \/ (Serial /\ raised)
  /\ finished = {} \/ raised
  /\ exit' = IF ~raised /\ \A r \in results : Passed(r) THEN "0" ELSE "1"
  /\ UNCHANGED <<config, queue, run, disk, wrote, finished, results, raised>>

WorkerStep(w) ==
  \/ Start(w) \/ Clear(w) \/ \E b \in Branch : Generate(w, b)
  \/ \E code \in Code : PyctosExits(w, code) \/ PyctatExits(w, code)
  \/ PyctatLoads(w) \/ NextMode(w) \/ FinishTest(w) \/ Raise(w)

\* What a worker does next ends within the time limit of run_command.
WorkerEnds(w) == WorkerStep(w) /\ run'[w] # run[w]

MainStep == (\E r \in finished : Collect(r)) \/ Exit
Terminated == exit # "none" /\ UNCHANGED vars

Next == (\E w \in Worker : WorkerStep(w)) \/ MainStep \/ Terminated

Spec == Init /\ [][Next]_vars
FairSpec == Spec /\ WF_vars(MainStep) /\ \A w \in Worker : WF_vars(WorkerEnds(w))

----------------------------------------------------------------------------------
(* Properties.                                                             *)

TypeOK ==
  /\ config \in Configs
  /\ queue \in Seq(Test)
  /\ run \in [Worker -> [test : Test \cup {NoTest}, mode : Nat, loaded : SUBSET Input,
                step : {"idle", "clear", "pyctos", "pyctat", "replay", "next", "accepted", "rejected"}]]
  /\ \A w \in Worker : run[w].test # NoTest => run[w].mode \in (1 .. config.modes[run[w].test]) \cup {1}
  /\ disk \in [Folder -> SUBSET wrote]
  /\ wrote \subseteq Input
  /\ finished \cup results \subseteq Result
  /\ raised \in BOOLEAN
  /\ exit \in {"none", "0", "1"}

\* The branches that one run of pyctos, for this test in this mode, wrote inputs for.
OwnBranches(t, k) == {b \in Branch : [test |-> t, mode |-> k, branch |-> b] \in wrote}

\* A test is accepted in a mode only if that mode's own inputs cover it: never on
\* the strength of what another mode, a run that was killed, or another test left.
AcceptedOnOwnInputs ==
  \A r \in finished \cup results :
    r.status \in {"passed", "xpassed"} => OwnBranches(r.test, r.mode) = Branch

\* pyctest exits with 0 only when every test that is to pass was covered in one
\* of its modes, no expected failure was accepted, and each test has one result.
ExitZeroIsEarned ==
  exit = "0" =>
    \A t \in Test :
      /\ Cardinality({r \in results : r.test = t}) = 1
      /\ t \notin config.xfail => \E k \in 1 .. config.modes[t] : OwnBranches(t, k) = Branch
      /\ t \in config.xfail => ~\E r \in results : r.test = t /\ r.status = "xpassed"

\* pyctest ends, whichever of its subprocesses hang, fail or cannot be started.
Termination == <>(exit # "none")
=================================================================================
