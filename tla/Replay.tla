--------------------------------- MODULE Replay ---------------------------------
(***************************************************************************)
(* What happens to an input after it was explored: run_concolic_execution  *)
(* writes it to <file>_<function>_inputs/<id>, and pyctat (checker/lib.py) *)
(* loads the folders in another process and calls the plain function with  *)
(* them, to measure coverage.  The function under test may mutate its      *)
(* argument and its global, raise, fail an assertion or never return.      *)
(***************************************************************************)
EXTENDS Naturals, Sequences, FiniteSets

CONSTANTS
  Val,          \* values of the argument and of the global
  StartGlob,    \* the global of the freshly imported module
  NoGlob,       \* an input recorded without globals
  Functions,    \* functions under test considered
  MaxExplored,  \* bound: inputs the exploration finds
  MaxFuzzed     \* bound: inputs the fuzzer returns

Function == [newArg : [Val -> Val],        \* what a call does to its argument, in place
             newGlob : [Val -> Val],       \* what a call leaves in the global
             inPlace : BOOLEAN,            \* by mutating the object, or by assigning a new one
             outcome : [Val -> {"return", "raise", "assert", "hang"}],
             valid : SUBSET Val]           \* arguments __prepare_replay_arg__ accepts

ASSUME GlobAssumption == StartGlob \in Val /\ NoGlob \notin Val
ASSUME FunctionsAssumption == Functions \subseteq Function
ASSUME BoundAssumption == MaxExplored \in Nat /\ MaxFuzzed \in Nat

VARIABLES
  fut,        \* the function under test, fixed
  phase,      \* "explore", "dump", "replay", or how pyctat ended
  glob,       \* the module's global, in the process that runs now
  results,    \* explored_inputs: what is known of each input, and what it ran with
  nextDump,   \* index into results of the next input to dump
  dumpId,     \* dump_id
  disk,       \* the input folders: id -> the values in it
  todo,       \* folders pyctat has not run yet
  calling,    \* is pyctat inside the function under test?
  arg,        \* the argument of the call in progress
  patched,    \* builtins.open and the working directory are replaced
  excepted,   \* excepted_inputs
  seen        \* history: the inputs pyctat called the function with

vars == <<fut, phase, glob, results, nextDump, dumpId, disk, todo, calling, arg, patched,
          excepted, seen>>

Init ==
  /\ fut \in Functions
  /\ phase = "explore"
  /\ glob = StartGlob
  /\ results = <<>>
  /\ nextDump = 1
  /\ dumpId = 0
  /\ disk = <<>>
  /\ todo = {}
  /\ calling = FALSE
  /\ arg = StartGlob
  /\ patched = FALSE
  /\ excepted = {}
  /\ seen = {}

\* Mutant: the argument itself is stored, and the call mutates it.
ShownArgument(a) == fut.newArg[a]

\* deepcopy(next_input), taken before the call.
CopiedArgument(a) == a

\* global_vars holds the very objects that were put in the module; an
\* assignment to an item (handle_setitem) changes them.
StoredGlobal(g) == IF fut.inPlace THEN fut.newGlob[g] ELSE g

Result(a, g, ranArg, ranGlob) == [arg |-> a, glob |-> g, ranArg |-> ranArg, ranGlob |-> ranGlob]
Explored == {k \in DOMAIN results : results[k].glob # NoGlob}
Fuzzed == DOMAIN results \ Explored

\* explore runs an input: the globals are put in place, the argument is copied.
\* A failed assertion would end pyctos, so such inputs are never recorded; a
\* call that never ends in plain Python may end here, where intercepted ranges
\* are cut off.
ExploreInput(a, g) ==
  /\ phase = "explore"
  /\ Fuzzed = {} /\ Cardinality(Explored) < MaxExplored
  /\ fut.outcome[a] # "assert"
  /\ results' = Append(results, Result(CopiedArgument(a), StoredGlobal(g), a, g))
  /\ glob' = fut.newGlob[g]
  /\ UNCHANGED <<fut, phase, nextDump, dumpId, disk, todo, calling, arg, patched, excepted, seen>>

\* fuzz runs an input: no globals, no copy.
FuzzInput(a) ==
  /\ phase = "explore"
  /\ Cardinality(Fuzzed) < MaxFuzzed
  /\ fut.outcome[a] = "return"
  /\ results' = Append(results, Result(fut.newArg[a], NoGlob, a, glob))
  /\ glob' = fut.newGlob[glob]
  /\ UNCHANGED <<fut, phase, nextDump, dumpId, disk, todo, calling, arg, patched, excepted, seen>>

StartDump ==
  /\ phase = "explore"
  /\ phase' = "dump"
  /\ UNCHANGED <<fut, glob, results, nextDump, dumpId, disk, todo, calling, arg, patched,
                 excepted, seen>>

\* Mutant: the folder is named after the input's own index.
InputId == nextDump - 1

\* dump_id counts the inputs that were dumped.
DumpId == dumpId

\* One input: refused by __prepare_replay_arg__, or pickled into a folder of its own.
DumpInput ==
  /\ phase = "dump" /\ nextDump \in DOMAIN results
  /\ LET r == results[nextDump]
     IN  IF r.arg \in fut.valid
         THEN /\ disk' = [id \in DOMAIN disk \cup {DumpId} |->
                            IF id = DumpId THEN [arg |-> r.arg, glob |-> r.glob] ELSE disk[id]]
              /\ dumpId' = dumpId + 1
         ELSE UNCHANGED <<disk, dumpId>>
  /\ nextDump' = nextDump + 1
  /\ UNCHANGED <<fut, phase, glob, results, todo, calling, arg, patched, excepted, seen>>

\* pyctat starts: a new process, the module imported anew, os.listdir on the folder.
StartReplay ==
  /\ phase = "dump" /\ nextDump \notin DOMAIN results
  /\ phase' = IF disk = <<>> THEN "crashed" ELSE "replay"
  /\ glob' = StartGlob
  /\ todo' = DOMAIN disk
  /\ UNCHANGED <<fut, results, nextDump, dumpId, disk, calling, arg, patched, excepted, seen>>

\* The global as the call will see it.
GlobalFor(folder) == IF folder.glob = NoGlob THEN glob ELSE folder.glob

\* Folders come in any order.  Globals are set, open and the directory are
\* replaced, and the function is called under a time limit.
ReplayFolder(id) ==
  /\ phase = "replay" /\ ~calling
  /\ todo' = todo \ {id}
  /\ glob' = GlobalFor(disk[id])
  /\ arg' = disk[id].arg
  /\ calling' = TRUE
  /\ patched' = TRUE
  /\ seen' = seen \cup {[id |-> id, arg |-> arg', glob |-> glob']}
  /\ UNCHANGED <<fut, phase, results, nextDump, dumpId, disk, excepted>>

\* Mutant: only a call that returns restores open and the directory.
LeftPatched == calling /\ fut.outcome[arg] # "return"

\* The finally clause restores open and the directory, however the call ended.
Unpatched == FALSE

\* Mutant: no alarm is set for the call.
EndsByItself == fut.outcome[arg] # "hang"

\* A call returns or raises, or the alarm of time_limit raises TimeoutException in it.
EndsInTime == TRUE

\* enumerate's index of the folder that runs.
InputIdx == Cardinality(seen) - 1

\* The function under test takes its time.
Running == calling /\ UNCHANGED vars

\* The call is over, and anything but a failed assertion is counted as an exception.
CallEnds ==
  /\ calling /\ EndsInTime
  /\ fut.outcome[arg] # "assert"
  /\ glob' = fut.newGlob[glob]
  /\ calling' = FALSE
  /\ patched' = Unpatched
  /\ excepted' = IF fut.outcome[arg] = "return" THEN excepted
                 ELSE excepted \cup {InputIdx}
  /\ UNCHANGED <<fut, phase, results, nextDump, dumpId, disk, todo, arg, seen>>

\* PyctosAssertionError ends pyctat.
AssertionFails ==
  /\ calling
  /\ fut.outcome[arg] = "assert"
  /\ phase' = "failed"
  /\ calling' = FALSE
  /\ patched' = Unpatched
  /\ UNCHANGED <<fut, glob, results, nextDump, dumpId, disk, todo, arg, excepted, seen>>

Report ==
  /\ phase = "replay" /\ ~calling /\ todo = {}
  /\ phase' = "reported"
  /\ UNCHANGED <<fut, glob, results, nextDump, dumpId, disk, todo, calling, arg, patched,
                 excepted, seen>>

Ended == {"reported", "failed", "crashed"}
Terminated == phase \in Ended /\ UNCHANGED vars

PipelineStep ==
  \/ \E a \in Val : FuzzInput(a) \/ \E g \in Val : ExploreInput(a, g)
  \/ StartDump \/ DumpInput \/ StartReplay
  \/ \E id \in todo : ReplayFolder(id)
  \/ CallEnds \/ AssertionFails \/ Report

Next == PipelineStep \/ Running \/ Terminated

Spec == Init /\ [][Next]_vars

\* Both tools are sequential programs, and the alarm ends a call that hangs.
FairSpec == Spec /\ WF_vars(PipelineStep)

----------------------------------------------------------------------------------
(* Properties.                                                             *)

\* The inputs pyctos recorded and could dump.
Valid == {k \in DOMAIN results : results[k].arg \in fut.valid}

\* Each recorded input that can be dumped has a folder of its own, and the ids
\* have no gap, whichever inputs were refused.
EveryValidInputDumped ==
  phase \notin {"explore", "dump"} =>
    /\ DOMAIN disk = {id \in 0 .. Len(results) : id < Cardinality(Valid)}
    /\ \A k \in Valid : \E id \in DOMAIN disk :
         disk[id] = [arg |-> results[k].arg, glob |-> results[k].glob]

\* A function that only assigns its global is replayed on the very inputs it was
\* explored with: whatever it does to its arguments, in whatever order the folders
\* come, and whatever the calls before left in the module.
ExploredInputsReplayed ==
  ~fut.inPlace =>
    \A s \in seen : disk[s.id].glob # NoGlob =>
      \E k \in Explored : s.arg = results[k].ranArg /\ s.glob = results[k].ranGlob

\* open and the working directory are the caller's own between two calls, and
\* after a failed assertion.
EnvironmentRestored == patched => calling

\* pyctat gives a verdict, also when the function under test does not return.
ReplayEnds == <>(phase \in Ended)

\* engine.explore: "A deep copy of the input is made, because the program might
\* mutate the input before we can show it to the user".
ShownInputWasRun ==
  \A k \in Explored : results[k].arg = results[k].ranArg /\ results[k].glob = results[k].ranGlob
=================================================================================
