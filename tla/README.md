# Verification of pyctos

pyctos is a concolic test generator for Python.  It rewrites the module under
test so that conditions, calls and builtins go through interceptors, runs a
function on concrete inputs that carry symbolic formulas, collects the path
condition of each run, and asks an SMT solver for an input that takes each
branch the other way.  The inputs it finds are written to disk; pyctat replays
them against the plain function to measure coverage, and pyctest runs both over
a tree of annotated tests.

This directory holds TLA+ models of its parts, the TLC runs that check them on
small instances, and proofs, checked by TLAPS, of their most important
properties for all values of the constants.  `PROJECT.json` relates every
definition to the lines of source it models.  Source paths below are relative
to `src/symbex/` unless they start with `checker/` or `pyctest/`.

    tlc -config MCEngineExhaustive.cfg MCConcolicEngine.tla   # one run
    tlapm ConcolicEngine_proof.tla                            # one proof module

## 1. The system

| part | state it keeps | operations | makes it correct |
|---|---|---|---|
| exploration (`engine/engine.py`, `engine/util.py`, `runtime.py`) | stack of frames, explored inputs, path condition, depth, `taken_history` | `explore`, `record_path`, `add_axiom`, `prove`, `pyctos_assert` | no path is run twice or forgotten; a run takes the path it was made for; `pyctos_prove` proves |
| model conversion (`engine/util.py:128-328`) | process-wide cache of references, objects under construction | `convert_model`, `convert_reference`, `reset_references` | a frame has the contents and the sharing of its model, and shares nothing with an earlier frame |
| the solver's heap (`symbolic/util.py`) | the sorts `any` and `heap`, their axioms | type, member and equality formulas | what a formula says of a model is what Python says of the converted value |
| fuzzer (`engine/engine.py:407-442`) | missing branches, attempts, the shared branch history | `fuzz` | a branch fuzzing covered comes with an input; it ends |
| YAML features (`yaml.py`, `overrides/util.py:53-90`) | trees of `triggered` flags | `reset`, `set`, `propagate`, `check_function_yaml` | a match is one run's own; none is missed or reported late |
| dump and replay (`__init__.py`, `checker/lib.py`) | input folders; module globals, cwd and `builtins.open` during a replay | numbering and pickling, `test_path_function` | inputs are replayed as explored; the environment is restored; replay ends |
| test runner (`pyctest/runner.py`) | test queue, worker threads, input folders, results | `run_tests`, `run_test`, `run_with_mode`, `run_command` | a test is accepted on its own inputs; status 0 is earned; it ends |
| instrumentation (`astmanip.py`, `overrides/overrides.py`) | none | two rewritings of every test; interceptors of `in`, `if`, `while`, calls | a rewritten test goes Python's way, and each atom evaluated is marked once with its truth |
| iterators and files (`overrides/util.py`) | next value of a range; contents left in a file | `range`, `__next__`, `open`, `read`, `readline` | what a loop or a read yields is Python's on every input |
| symbolic arrays (`types/array.py`) | concrete list, log of symbolic writes | `get`, `set` | the formula of a read is right for every input of the path |
| containers (`symbolic/handleops/method.py`) | concrete value, mutations, additions | `len`, item access, slices, `append`, `pop`, `in`, `get`, `keys`, `items` | the pair behaves like Python's list, dict or string |
| objects (`symbolic/handleops/object.py`) | concrete object, attribute mutations of each symbolic value | attribute reads and assignments, method lookup | attributes are Python's on every input of the path |
| arithmetic (`symbolic/handleops/arithmetic.py`) | value and formula of a number | operators, `int`, `float`, comparisons | the formula is Python's number |
| NumPy model (`libraries/impls/numpy/`) | storage; shape, offset, strides and flag of each view | indexing, views, assignment, ufuncs, layout validity | both halves of a layout agree; views show NumPy's cells; a valid layout stays in its storage |

How they interact.  Instrumented code calls the interceptors
(`overrides/overrides.py`), which find the engine in a process-wide singleton
(`globals/globals.py`) and call it back; an exception of the engine unwinds
through the function under test, whose own handlers see it first.  Every
overloaded operation on a symbolic value may call `record_path`, so a branch
can be recorded inside arithmetic, indexing or a numpy call; `record_path`
queries the solver and converts its model on the spot, in the middle of the
run.  The engine and the fuzzer share the branch history.  pyctos and pyctat
are separate processes that meet only in the folder
`<file>_<function>_inputs`; pyctest runs them from several threads and meets
them only in that folder, their exit codes and their output.

What is hard here.  The exploration is single-threaded, but its bookkeeping
spans runs: a frame pushed in one run is used many runs later, in between the
path condition, the depth and the features are reset, and a run can end at
any call of the engine in six different ways.  Every symbolic operation is
written twice, once concretely and once as a formula, and the solver uses the
formula for *other* inputs than the one that ran: an error shows only in a
later run, on another path.  Mutable Python values are kept as an original and
a record of what was done to it, by several handlers with different rules.  The
runner has real concurrency, time limits and killed processes.  The hazards are
listed line by line in `PROJECT.json`.

Parts that are not modelled are in section 6.

## 2. The modules

### Exploration: `PathSearch`, `ConcolicEngine`

An *input* is an assignment to all the function reads (arguments, globals,
files).  A path condition is the set of inputs that satisfy it, so conjunction
is intersection, `unsat` is the empty set and a model is any member.  The
function under test is a control graph, one of a set `Programs` that TLC chooses
at the start; a node is a place where the code reaches the engine: a symbolic
condition (`if`, `check`), a plain one, `make_assertion`, `pyctos_assert`,
`pyctos_prove`, a call that completes a feature, an exception, a return.  Each
node may have a handler (`try ... except Exception` around it).

| code | model |
|---|---|
| `setup_unexplored_inputs`, the `TypeError` ignored at `engine/engine.py:319-322` | `Setup` |
| top of the loop, reset, `add_to_explored_inputs` | `NextInput`, `Exhausted` |
| `record_path` | `RecordPath`, `ConversionFails`, `DepthExceeded` |
| `add_axiom` from the program | `MakeAssertion` |
| `prove`, `pyctos_prove`, `pyctos_assert` | `AssertionHolds`, `AssertionFails` |
| `except` clauses of `explore` | `EndRun`, `FeatureFound`, `AssertionFails`, `OrdinaryException` |

`Convert` is what `convert_model` makes of a model (not always the input it
describes), `Unconvertible` are the models it raises for, `Comparable` the
inputs that `are_same_concrete_object` finds equal to themselves (it knows no
sets and no foreign types), `Unprepared` the inputs that raise before the call
(`engine/engine.py:361-376`: put as a global, copied or compared), and
`SolverGivesUp` allows `unknown`.  `Misread` inputs are those that another model
converts to.  The variables `path`, `runs` and `dropped`
are history: what the finished runs decided and what was given up, and where.

`PathSearch` is the abstract promise: the inputs are split into classes that
wait, run or are closed, and a run only carves pieces out of its own class.
`ImplementsPathSearch` says that the engine, with its stack of frames, its
solver queries and all ways to end a run, does exactly that.

### The heap: `HeapModel`, `ModelConversion`, `SymbolicObjects`

`HeapModel` has no state.  It is the solver's view of Python values: the `any`
sort (numbers, `None`, references), the `heap` sort (lists and tuples, objects,
dicts, sets, arrays), the axioms every model satisfies, and the formulas the
handlers build: `IsInstance` over the inverted graph of base classes,
`HasField` and `HasMethod`, `EqFormula`.  `WellSorted` says which cells a model can
have.  As in the Z3 build, the cell of a set is an array and says nothing of the
size, which is a function of the reference (`__bound`, `symbolic/util.py:719`): a
model has a `heap` and a `bound`, formulas look at the heap, and what is converted
is `Contents`, the heap with each set cut at its bound.  The walk over subclasses, whose end the code leaves to recursion, is stated
by closed sets: a class is recognized if every set that has the given class and
the subclasses of its members has it.

`ModelConversion` is what the engine does with a model: parameter by
parameter, `convert_model` reads scalars and follows references;
`convert_reference` puts an object into the cache, converts its members and
completes it.  Each activation is a record on `stack`, since cells may share and
may have cycles and since every activation catches the exceptions of its members
and then returns `[]`.  The cache survives from one model to the next unless
`reset_references` is reached.  `Answers` are the models the solver may return
to each query.  The loop over `all_fields` has a step for the fields an object
has not (`SkipField`).  `OnCycle` says by closed sets that a cell reaches itself.

`SymbolicObjects` runs a function that reads and assigns attributes, and looks
up methods, on the parameters of such a model, beside Python on every input.
An assignment is kept with the one `SymbolicValue` it was made through.

### Fuzzing: `Fuzzer`

`fuzz` after an exploration that left any history.  What a tuple of arguments
does is a constant: the branch outcomes it meets and whether it raises.
`FuzzReturns` keeps the code's own shape: the call is appended once per
branch it covered, and the missing branches are replaced.

### YAML search: `YamlSearch`

Uses `PathSearch` for the exploration underneath (as an instance over its
variables) and models the features on top: `BeginRun` resets them,
`CheckHolds` and `CheckFails` walk the conditions of one call in the order of
the code, `FinishFeature` sets the matched nodes, propagates and stops the
search.  Only conditions that *fail* are recorded as branches
(`overrides/util.py:65-78`), so the classes of this search are coarser than
paths of the function; that nothing is missed all the same is a property.
Nodes are numbers in the order `get_rule` makes them, the parts of a feature
before the feature; no two features share a node, and a call is compared with
the API nodes of the feature at hand only.

### Dump and replay: `Replay`

From the explored inputs to pyctat's verdict: copying of arguments (and not of
globals), fuzzed inputs without globals, `dump_id` and the validity filter, the
restart in a new process, globals set in the module and never put back, folders
in any order, the alarm, and the `finally` clause.

### Test runner: `TestRunner`

Threads with one step per thing they do (`Clear`, `Generate`, `PyctosExits`,
`PyctatLoads`, `PyctatExits`, `NextMode`, `FinishTest`), interleaved freely;
subprocesses may fail with any code, be killed at their limit with part of
the inputs written, or not start at all.  `Collect` and `Exit` are the main
thread.

### Instrumentation: `Instrumentation`

A test of the source is a tree; `astmanip.py`'s two transformers are operators
on trees, and `Eval` evaluates a tree, before or after rewriting, recording the
variables it reads and the atoms it marks in `taken_history`.  Chains of
comparisons that the rewriting refuses (`NotImplementedError`, or a tree that
does not compile) are modelled as a run that stops.

### Loops and files: `RangeLoops`, `SymbolicFiles`

`RangeLoops` is a `for` loop over `range` with symbolic arguments: one branch is
recorded when the iterator is made and none per iteration, yet every yielded
formula is used on all inputs of the path.  `SymbolicFiles` is `open`, `read` and
`readline` on contents that are one more input.

### Concolic data: `SymbolicArray`, `SymbolicList`, `SymbolicDict`, `SymbolicSlices`, `Numbers`, `SymbolicNumbers`

These run the same program beside Python.  A value is a function of the input, so
a formula can be compared with Python's result on *every* input of the path: the
reason for the formula to exist.  `SymbolicList` compares the concrete half, and
its formula for the input that runs, with a plain list.  `SymbolicDict` has one
action per handler, with the mutations and additions each of them consults;
`clear` records that the program has not met one of the confusions of section 5.
`SymbolicSlices` has the two assertions that tie a slice's variable to the
sequence, for strings and for lists.  `Numbers` has Python's arithmetic (with
IEEE infinities and NaN) and the formulas of the extended-real theory, its tables
of infinities included.

### NumPy: `NumpySlices`, `NumpyViews`, `NumpyArrays`, `ArrayLayouts`

`NumpySlices` resolves a slice twice, as `slice.indices` does and as the formula
does.  `NumpyViews` has the layout (shape, offset, strides) of every kind of
view, written once with the half as a parameter where the code writes it once.
`NumpyArrays` is a state machine over one storage: views of views, scalar and
array assignment, `copyto`, a ufunc and a reduction with `out`.  Each view
carries, as history, the cell of NumPy's own array behind every coordinate.
`ArrayLayouts` is the validity check made before an array is used: its loops
over the axes, the early returns, the default strides, and the condition that
results, once as a Boolean for the run and once as the set of inputs that
satisfy it; the history variable `reach` has the addresses of all coordinates.

### Compositions

`YamlSearch` runs on `PathSearch`.  `MCValues`, `MCModelConversion` and
`MCNumpyArrays` put components side by side that share no variable: one of them
starts and the others are idle, so the states are the sum of theirs and the
question asked of each is the same one.  They talk to the engine only through
`record_path`, which appears in them as the set of inputs left on the path.

## 3. The runs

| run | instance | states | question |
|---|---|---|---|
| `exhaustive` | 3 inputs, 5 nodes, 2 shapes (straight, loop), 5 kinds of third node, 3 handler layouts; exact solver and conversion; depth 3 | 121,987 | is the exploration complete, on its path, and a refinement of the search? |
| `lossy` | the same programs; 5 inputs; conversion maps 2 to 0, fails for 1; 3 never compares equal, 4 cannot be prepared; solver may give up | 746,531 | is every input still accounted for, is none run twice, and does it end? |
| `conversion` | heaps of 2 references, all bounds of their sets, 6 pairs of parameters, 2 models in a row; objects: 6 inputs, 4 operations | 182,837 | are frames their models, apart from each other, and do formulas and attributes say what Python says? |
| `stale_references` | as above | stops | shows the divergence of section 5 |
| `fuzz` | 2 branches, 3 argument tuples, all behaviours; 4 attempts | 617,966 | does returned input match claimed coverage? |
| `yaml_search` | 3 trees over 3 API nodes, 2 calls, 3 inputs, depth 3 | 99,618 | are matches real, prompt and complete? |
| `replay` | 3 values, 96 functions, 2 explored and 1 fuzzed input | 473,560 | are inputs replayed as explored? |
| `replay_shown` | as above | stops at 490 | shows the divergence of section 5 |
| `test_runner` | 2 tests, up to 2 modes, 2 workers or serial, 2 branches | 377,670 | is acceptance earned? |
| `values` | numbers, arrays, lists, dicts, ranges, slices, files and tests, below | 375,999 | is every formula, on every input of the path, Python's value? |
| `list_additions` | lists up to 2 elements, 4 operations | stops at 23 | shows the divergence of section 5 |
| `numpy` | arrays of 3 or 4 elements, 13 index arguments, 3 operations, rank up to 3; layouts of rank 1 and 2 | 30,965 | do both halves and NumPy agree, and is the validity condition exact? |

Why the bounds are enough.

- *Engine.*  Three inputs give classes of three sizes, so a class can be split
  twice and two frames wait at once; two conditions in sequence stay below the
  depth limit of three and in a loop reach it; the third node tries every kind
  of engine call after a split.  The second condition may hold for any set of
  inputs; the first for one of each pair of sets that differ by swapping inputs
  1 and 2, and is never constant.  `lossy` adds an input that never compares
  equal to itself: it is pushed for one branch and could be found again behind
  another, and only the classes on the stack keep it from that, since the test
  for duplicates does not know it.
- *Conversion.*  Two references make sharing, self-cycles and cycles through
  lists, tuples, objects, dicts and sets; the first is any small cell, the
  second one of eleven or so, opaque and unassigned values and a class the
  module has lost among them.  The bound of a set is anything from -1 to the
  length of its array, so that two sets have one array and different sizes.  Two
  models are what a stale cache needs.
- *Objects.*  Four operations read an attribute of an attribute, assign, and
  read again, through two parameters that may be one object.  Five operations
  were tried once and hold as well.
- *Fuzzer.*  Two branches are needed for one call to cover more than one, three
  tuples for a repeat and a second useful one; four attempts let a failure
  stand between them.
- *YAML.*  Two levels of tree in both nestings, and a second feature; two calls
  let two runs each match one half of an `and`.
- *Replay.*  Two explored inputs make the order of folders matter and let one
  leave its global to the next, a fuzzed one adds a folder without globals.
- *Runner.*  Two modes are needed for stale inputs, two workers for a race on
  a folder, two branches for partial inputs.
- *Arrays, lists, dicts.*  Two writes that coincide for one input only, and one
  more on top, with a log of two or without bound; five operations on a list
  reach every combination of overwrite, append and pop that the code
  distinguishes; dicts of up to three keys in several orders, some of them also
  positions or values, and three steps.
- *Ranges.*  Two parameters and literals in every argument position, on both
  sides of zero; 13 is past the limit on iterations.
- *Slices, files.*  Sequences of up to three characters, one a newline, with
  bounds inside, at and beyond both ends; four calls open a file, read it to
  the end and once more, and open it again.
- *Tests.*  Every pair of the small tests joined by `and` and `or`, tests under
  `not`, in calls and in comparisons: three levels, which is where the two
  rewritings meet.
- *Numbers.*  Eleven values have both signs, zero of three kinds, a fraction
  between integers on either side, NaN and an infinity; three operations give a
  conversion, an operation on its result, and a branch on that.
- *NumPy.*  Three operations allow a view of a view and an assignment through
  both; a rank above three adds no new case to any of the layouts.  The index
  arguments cover both directions, steps of two, bounds inside, at and beyond
  the ends, empty slices, `...` and new axes.  Layouts have every sign and order
  of two strides, empty dimensions, offsets that are safe for one stride
  direction only, and fields of the wrong type or length.

Bounds that exist only for TLC: `MaxSets`, `MaxOps`, `MaxListOps`, `MaxLen`,
`MaxSteps`, `MaxReads`, `MaxObjectOps`, `Queries` and `Answers`, `MaxViews`,
`MaxRank`, `MaxExplored`, `MaxFuzzed`.  `MaxDepth` and `MaxAttempts` are
parameters of pyctos itself, and so is the limit on the iterations of a range.

`SharedOnlySerially` in `MCTestRunner` excludes two tests with one folder and
two workers: they do interfere (section 4).

### Fairness

- `ConcolicEngine`, `Fuzzer`, `YamlSearch`, `Replay`: weak fairness of the one
  thread's next step.  It is a sequential program whose external calls return:
  the solver has a timeout, and the function under test is a finite graph
  whose loops record a condition and so meet the depth limit.  For the fuzzer
  this assumes that each random call returns or raises, which the code does not
  enforce.
- `Replay`: a call that hangs ends because of the alarm of `time_limit`.  A
  function that catches `TimeoutError` itself is not stopped by it and is
  outside the model.
- `TestRunner`: weak fairness of the main thread and, for each worker, of a step
  that changes what the worker does; `run_command` ends each subprocess
  at its limit.  Writing an input is not required to happen.

The other components have safety properties only: their operations are calls
that return.  `Termination` of the engine excepts an input that is incomparable
and misread at once: each model that converts to it runs it again, and nothing
notices.

## 4. The proofs

Every theorem is for all values of the constants, under the named assumptions of
its module.

**Engine** (`ConcolicEngine_proof`).  The main invariant is `Partition`: types,
`explored_inputs[-1]` is the running input, `NoPathTwice` (waiting, running and
finished classes are disjoint) and `EveryInputAccounted` (together with what
was given up they are everything).  Neither of the last two is inductive without
the types, the first not without knowing that before setup nothing waits
(`Fresh`).  On top of it: `ClassFollowsPath` (each input of a class decides
every condition of the run alike), which with `CutsReported` gives
`ExplorationIsExhaustive`, and with `ProvedForClass` gives `ProofsAreUniversal`:
in an exploration that returned, a `pyctos_prove` passed on a path holds for
every input that follows it.  `RunsDoNotDiverge` adds that waiting frames carry
an input of their own class when models convert faithfully; `NoInputIsRunTwice` is
about each input by itself: one that can be compared is refused at its second
frame, and one that no other model converts to has no second frame, because an
explored input lies in no waiting class, and in the running one only if it is the
input of that run (`ExploredIsSpent`).  The second half needs no comparison, and is
the one that matters for sets and foreign types.
`EngineImplementsSearch` maps each step to a step of `PathSearch` or to a
stutter; the case of a split needs that frames are satisfiable and that classes
are distinct as sets.

**Fuzzer** (`Fuzzer_proof`).  `CoverageComesWithAnInput`, from `MissingComplete`:
until a call raises, no branch that was and is untaken has left
`missing_branches`, so that the next call to complete it is recorded.
`ReturnedInputsAreUseful` needs the converse, `MissingIsUntaken`: while no call
has raised, a missing branch is one that nothing took, so that what is
recorded took something new.

**Runner** (`TestRunner_proof`).  `AcceptanceIsEarned`, from `Exclusive` (a test
is in the queue, with one worker or done) and `OwnInputs` (from the clearing of
the folder until pyctat has read it, it holds only what this test's mode
wrote).  `ExitStatusIsEarned`, from `Accounted` (every test is waiting, at a
worker, in the results or collected), `Judged` (a result says what the test's
mode and `xfail` make of it) and `Ended` (status 0 is reported after all of them).  Both assume
`UniqueFolders`, no two tests share a folder: a file that defines two marked
functions of one name breaks it, and two workers can then accept one test on the
other's inputs.

**YAML search** (`YamlSearch_proof`).  The flags of a feature tree are set node by
node, and `propagate` walks the tree; the proofs compare them with `Truth`, what
the calls of this run so far make true of a node (`True`, by recursion over the
tree).  `Sound` has: a set flag is true (`FlagsAreTrue`), no root is flagged while
the search goes on, and `missed` is what the checks so far refuse
(`MissedIsRefused`); it gives `ReportedInputTriggers`.  `Prompt` adds the converse,
what is true is flagged (`TrueIsFlagged`), by induction over the numbers of the
nodes: `propagate` has set every level when a call ends.  It gives
`MatchesAreReportedPromptly`.  `NoMatchIsMissed` is about the *other* inputs: each
input of the running class matches no more of the calls so far than the input
that runs (`ClassMatchesNoMore`: a condition that failed was recorded, so it fails
for the class; one that held is not, so others of the class may fail it), hence a
closed class has no input that triggers (`ClosedIsClean`).  The last two assume
`ConjunctionsHaveParts`: an `and` without parts is true before the first call.

**Replay** (`Replay_proof`).  One invariant, `ReplayInv`, carries the data from the
exploration to the replay: what a result holds is what was run with, but for a
global mutated in place (`RecordedIsRun`); the folders are the valid results so far,
numbered by their count (`FoldersOK`); what pyctat called with is the folder's
(`SeenIsFolder`).  `ValidInputsAreDumped`, `ReplayedInputsWereExplored` and
`EnvironmentIsRestored` follow.

**Conversion of models** (`Heap_proof`).  `Shape`: the cache and the objects fit,
each activation on the stack has an object of its own and still has to convert a
last part of its cell.  `Fresh`: below `first` lie the objects of earlier models,
and nothing above reaches them, unless a conversion was left by an exception; it
gives `FramesShareNoObject`.  `Sharing` is the invariant of the depth-first walk (while no exception occurred):
each object under construction shows the part of its cell converted so far, each
finished one all of it; only a tuple on the stack will still change its identity,
and since no tuple is on a cycle nothing stored mentions it; and the activations
form a path through the heap.  It gives `FramesAreTheModels`, for heaps of any
size with any sharing and any cycles but those through tuples.
`FormulasDescribeTheFrame` reads it the other way: a finished object has the class,
sort and fields the recognizers test, the walk down the subclasses and Python's
walk up the base classes meet (`SubclassesAreRecognized`), and cells of lists and
dicts that are equal make objects with equal contents (`EqualCellsShowEqual`).
Equal cells of sets make sets of which one is a part of the other
(`SharedArrayShows`): the theorem claims no more of sets, and no more holds.  It assumes that no class has the name of
a builtin type (`NamesAssumption`), and excepts names that are a field and a
method, which the code treats as fields (`object.py:43`).

**Objects** (`Heap_proof`).  `AssignmentsAreSeen`, from `AsInPython`: on each input of
the path Python's heap is the input's own, except for the attributes that were
assigned, and one assigned through a single `SymbolicValue` is what the mutations
of that one say.

**Ranges** (`SymbolicValues_proof`).  `YieldsAreRight`.  The invariant `LoopInv` says
that while the loop runs `starting_value` is Python's next value on *every*
input, which is what makes the yields right without a branch per iteration; on
the input that runs, the comparison with the end gives the rest.

**Arrays** (`SymbolicValues_proof`).  The log is sound (the last entry that
mentions a position has its element) and, while nothing was dropped, complete.
`ReadsAreRight` follows: with an unbounded log for every read, with a bounded one
for the positions the log mentions.

**Slices, files, lists, dicts** (`SymbolicValues_proof`).  `SlicesAreRight`: the
recorded comparison of the stop with the length says for each input which of the
two the formula should use.  `ReadsCoverTheFile`: the first newline, which `find`
and `IndexOf` look for, exists in a line that is not the last (the least position
of a nonempty set of positions, by well-foundedness), so what is read and what is
left is the file on every contents.  `ListsAreRight` follows the record of
mutations through two disjoint kinds of programs: while only assignments and one
append were made, each position is the last mutation there or the original;
while only single appends and pops were made, the correction of the length is the
difference.  `DictsAreRight`: on each input Python's dict is the input's with the writes over it
(`WrittenOver`); while `clear` holds, that is also what the handlers answer from.

**Numpy** (`Numpy_proof`).  `SlicesAgree`: for every dimension, stride and slice the
three components of the formula are those of `slice.indices`;
`SlicesStayOnTheirAxis`: a selected position is on the axis, which is what lets
views be built without validation.  `LayoutsAreSafe`: the validity condition holds
of a layout just when every coordinate lies in the storage.  Its invariant,
`Covers`, is that after each axis of the loop the two extents are the ends of the
set of addresses of the axes so far (an axis adds its last index times its stride
to one of them, by the sign of the stride); default strides telescope, so that
the greatest address is one below the product of the dimensions.
`ViewsAreDescribed` (`HalvesAgree`): the two halves of every view, of an array of
any shape, are one layout.  The invariant, `ViewInv`, adds that a layout has as many
strides as dimensions, that these are natural numbers and the rest integers.  Indexing
needs most of the work: the arguments that follow an ellipsis find their axes only
because the normalized arguments consume as many axes as there are
(`NormalizedArguments`, by counting along the flattened sequence), and an integer is
normalized alike by `%` and by a comparison only because it was validated against
the dimension of that same axis (`ExpansionIsNormal`).
`ViewsAreRight` (`ViewsShowTheirCells`): every coordinate of every view has the
address of the cell that NumPy shows there, and no cell of a writeable view two
coordinates.  The invariant, `CellsInv`, says so for the coordinates of the shape
(`Box`) and adds that every cell lies in the storage.  Coordinates first: their list
is the numerals of a number system with a radix for each axis, so each occurs once
(`CoordinatesInOrder`).  Then addresses: an address is a sum over axes, and a view's
is the same sum regrouped, because its axes are axes of the array, in another order
(`TransposeShows`), with axes of stride 0 put in (`ExpandShows`, `BroadcastShows`),
or those that the arguments of an index keep, the rest being in the offset
(`IndexShows`); `Regrouped` is the step that all of them share.  Integers from
either end are such an index that keeps no axis (`IntegersRead`).
`StorageIsRight` (`StorageIsNumpys`): after any assignment the storage is NumPy's
array.  By `CellsInv` the addresses written are the cells of the destination, each
of its own because the view is writeable, so values written one after another are
the values assigned at once (`WrittenIsAssigned`); and the values are the same,
since all reads come before the writes and read the cells NumPy reads: for `copyto`
and ufuncs those that the operand shows where it is stretched to (`OperandIsRead`),
for a reduction those with the coordinate of the result, in the order of the axis
(`ReducedOnce`, `AlongAxis`).  Rank and dimensions are any natural numbers, and
nothing is assumed of how the two sides of an assignment overlap.

**Numbers** (`SymbolicValues_proof`).  `FormulasAreRight`: `NumbersArePythons`
for any numbers and any number of operations, if there is no negative infinity
among inputs and literals and no integer is divided by an integer with `/`.
The invariant says that on every input of the path on which `int()` did not
raise, formula and value are one number, of the kind it has in the run; without
the kinds, the conversions chosen for the run would say nothing of the other
inputs.  A lemma for each operation shows that the formula on two equal
operands is Python's result.  Negative infinities that arithmetic itself
produces are within the theorem.

*Induction.*  The library's induction theorems take an operator as a parameter,
which none of the installed provers can instantiate.  Where a proof needs
induction it uses a *set* of counterexamples instead: the order on the numbers is
well-founded, so a nonempty set of bad positions or nodes has a least member
(`LeastNat`, `LowestNode`), and a closed set contains all that is reached.

*Model-checked only.*  Termination of every part, `ReplayEnds` included (liveness
under fairness and `ENABLED` are out of the prover's reach).  `TestsKeepTheirTruth`:
it is about recursive operators on trees, with which the provers cannot be used.
The type invariants of the components are theorems only, or parts of the invariants named here.

## 5. What the work found

Three places where the program does not do what its own text says, each shown by
a run:

- `stale_references`.  `engine/util.py:263` says that `reset_references` "Should
  be called before converting a new SMT model".  `record_path` calls it after a
  conversion (`engine.py:263`), and not when `convert_model` raises: the next
  model is converted with objects of the failed one.
- `list_additions`.  `handle_setitem` (`method.py:294`) tests whether the *index*
  is among the *values* of a list, so assigning `l[0]` of `[7]` counts as an
  addition and `len(l)` becomes 2; `get_additions` is documented as the
  deviation from the starting length (`types/symbolicvalue.py:53`).
- `replay_shown`.  Arguments are copied before a run "because the program might
  mutate the input before we can show it to the user" (`engine.py:367-368`);
  globals are not, so an input whose global the function mutates in place is
  shown, dumped and replayed with the mutated global.

Read while modelling, with no run of their own.  Where a property would run into
one of these it excepts the case explicitly, and holds around it.

- *Engine.*  Branches first taken by a fuzzed call that *raised* count as covered
  after the next call that returns, though no returned input takes them; `fuzz`
  promises assignments to maximally cover the branches (`engine/engine.py:408-411`).
  It may also return one assignment more than once.  A `try/except` of the
  function under test swallows `PyctosAssertionError`, which `runtime.py:17` says
  counts as a failure.  `taken_history` is keyed by line and column without the
  module.
- *Conversion.*  An exception inside `convert_reference` leaves a half-built object
  in the cache; a tuple on a cycle is seen as a list inside itself.  The axioms on
  the keys of dicts (`symbolic/util.py:783-825`) exclude nothing: keys 0 and
  `False` collapse into one.  Two parameters that are one object get two
  `SymbolicValue`s, which share the concrete value and not the mutations.
- *Equality of sets.*  `generate_set_eq`, "an equality check between two sets"
  (`handleops/generic.py:18`), compares only the arrays of two symbolic sets (`35`),
  not their bounds, as it does with a concrete one (`46`): it is true of `set()` and
  `{0}` if the model gives both one array, with bounds 0 and 1.
- *Instrumentation.*  `and` and `or` inside an atom of a compound test become a
  `bool`: `x and (y or z) == 2` (`astmanip.py:95`, `106`).  Chains that begin with
  `in` raise `NotImplementedError`, chains with `is None` do not compile
  (`astmanip.py:151-164`).  `all_fields` misses attributes used only inside calls
  (`166-191`), and a read of one raises `TypeError` (`object.py:53-55`);
  `class_name` is `None` after a nested class (`172-180`).
- *Range and files.*  A range yields up to 11 values where its comment says 10
  (`overrides/util.py:214`, `177-178`) and records nothing when it stops there; a
  negative stride yields nothing.  Contents are recorded as not empty even when
  those of the run are (`258`).
- *Slices.*  The variable of a slice is named by the sliced formula only
  (`method.py:179-180`), so two slices of one value share it; the sign of a
  symbolic stop is not recorded; an empty list slice leaves its length open; a
  slice past the end of a list has the wrong length.
- *Lists and dicts.*  A second `append` writes at the key of the first, whose
  element is lost, while the length counts both (`method.py:390-393`).  `in` on a
  dict looks among the written *values* (`314-320`); the formula for "exists" skips
  position *i* when *i* is a written *key* (`symbolic/util.py:730`); `len` counts a
  new key twice; `items` asserts that the input has as many entries as the run.
- *Objects.*  `x.g.f = v` is recorded on a temporary and lost at the next `x.g.f`
  (`object.py:79-84`); looking up a method records no branch on the class
  (`44-52`); property setters are bypassed; attributes named `v`, `formula`,
  `mutations`, `object_mutations` or `additions` meet `SymbolicValueImpl`'s own
  (`symbolic.py:98-111`).
- *Numbers.*  `exreal_prop_op` has no row for two negative infinities under `+` or
  `*`: the formula is NaN where Python has an infinity.  `int / int` uses the
  solver's integer division.
- *NumPy.*  For a synthesised array no formula fixes the rank: only as many
  dimensions as the run has are looked at, and the element type asserted is the
  run's.
- *Tools.*  `pyctest` stops trying modes at status 1, which is also pyctat's status
  when a mode produced no input at all.  The demo rule
  `examples/yaml_demos/function_argument.yml` uses `value:` where `yaml.py` reads
  `arg["expression"]`.

## 6. Abstractions, and what is not modelled

Restrictions inside the modelled parts:

- *Engine*: which model the solver returns is free.  Branches are taken to be
  truthful: the formula of a condition holds for exactly the inputs the
  condition is true of.  The data modules are about that assumption.
- *Conversion*: contents of strings; CVC5's sets; sets that hold two tuples, which
  Python compares by their contents and the model by identity; which models Z3 makes of the
  axioms is left to `Answers`.
- *YAML search*: every condition of a rule is taken to be symbolic.  One that is
  not, or an argument that is out of range, records nothing when it fails
  (`overrides/util.py:79-84`); `CheckFails` records it as well, which splits no
  class but counts for the depth limit.
- *Replay*: contents of files, pickling and coverage arithmetic, and the
  preparation of arrays before a replay.  The validity filter looks at arguments;
  that of globals (`__init__.py:78-90`) is the same test once more and is left out.
- *Runner*: `shutil.rmtree` succeeds.  It is called with `ignore_errors`
  (`runner.py:244`), so files it could not remove would stay for the next mode.
- *Containers*: iteration, `split`, `in` on lists, strings and sets, symbolic keys
  and nested values.
- *Objects*: properties and names with two underscores; the dispatch of Python's
  operators to the handlers.
- *Instrumentation*: everything but tests; `eval`; the collection of fields and
  classes is a constant of `HeapModel`.
- *Numbers*: arguments with annotations; no strings; rounding and
  overflow of floats; a denominator that is a float; the theories `fp64` and
  `real`.
- *NumPy*: one dtype, no casts or `setflags`, no advanced indexing, no
  `out=None`; in the state machine shapes are known and layouts are those that
  passed `ArrayLayouts`.

Not modelled: the tables of ufuncs by dtype, imports and the module tables, the
library shims (stateless replacements), command lines, logging and examples; and
nested exploration (`libraries/mqtt.py:70-74`, which only one example uses), with
the engine singleton that it replaces.

## 7. Plan

Order of the work, most important first: (1) exploration and its refinement,
(2) fuzzing, (3) YAML search on the abstract search, (4) dump and replay,
(5) the runner, (6) concolic arrays, lists, numbers, dicts, slices, ranges, files
and objects, (7) NumPy, (8) conversion of models, (9) instrumentation.  These
are done, with proofs for all but (9).

Next:

1. `NestedExploration`: `Client.loop_forever` explores a callback inside a run;
   `set_engine` (`lib.py:117-120`) is never undone, and features and branch history
   are shared.
2. Containers: iteration and `in`; values of parameters without annotations, whose
   kinds are narrowed to those of the run (`symbolic/util.py:992`).
