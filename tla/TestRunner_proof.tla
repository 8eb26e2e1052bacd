---------------------------- MODULE TestRunner_proof ----------------------------
(* A test is accepted on its own inputs, for any number of tests, modes and *)
(* workers, when no two tests share an input folder.                        *)
EXTENDS TestRunner, FiniteSetTheorems, SequenceTheorems, TLAPS

\* Tests have different ids: <path>_<name> names one test.
UniqueFolders == \A c \in Configs : \A t, u \in Test : c.folder[t] = c.folder[u] => t = u

\* A test is in the queue, or with one worker, or done.
Exclusive ==
  /\ \A i, j \in DOMAIN queue : queue[i] = queue[j] => i = j
  /\ \A w \in Worker : At(w, "idle") <=> run[w].test = NoTest
  /\ \A w \in Worker : \A i \in DOMAIN queue : queue[i] # run[w].test
  /\ \A v, w \in Worker : run[v].test = run[w].test /\ run[v].test # NoTest => v = w

\* The inputs of a set all come from what worker w is running.
Own(w, inputs) == \A i \in inputs : i.test = run[w].test /\ i.mode = run[w].mode

\* From rmtree until pyctat has read it, the folder holds the mode's own inputs,
\* and what pyctat replays stays so.
OwnInputs ==
  \A w \in Worker :
    /\ At(w, "pyctos") \/ At(w, "pyctat") => Own(w, disk[FolderOf(w)])
    /\ At(w, "replay") => Own(w, run[w].loaded) /\ run[w].loaded \subseteq wrote
    /\ At(w, "accepted") => OwnBranches(run[w].test, run[w].mode) = Branch

Inv == TypeOK /\ Exclusive /\ OwnInputs /\ AcceptedOnOwnInputs

\* Nothing runs and nothing is accepted at the start.
LEMMA InitInv == Init => Inv
  <1> SUFFICES ASSUME Init PROVE Inv
    OBVIOUS
  <1> USE DEF Init
  <1>1. Cardinality(Test) \in Nat
    BY TestAssumption, FS_CardinalityType
  <1>2. queue \in [1 .. Cardinality(Test) -> Test] /\ \A i, j \in DOMAIN queue : queue[i] = queue[j] => i = j
    BY DEF Order
  <1>3. queue \in Seq(Test)
    BY <1>1, <1>2
  <1>4. TypeOK
    BY <1>3 DEF TypeOK, Idle
  <1>5. Exclusive
    BY <1>2, TestAssumption DEF Exclusive, At, Idle
  <1> QED
    BY <1>4, <1>5 DEF Inv, OwnInputs, AcceptedOnOwnInputs, At, Idle

Steps == {"idle", "clear", "pyctos", "pyctat", "replay", "next", "accepted", "rejected"}
Doing == [test : Test \cup {NoTest}, mode : Nat, loaded : SUBSET Input, step : Steps]

\* A worker that only goes to another step.
LEMMA GoKeeps ==
  ASSUME Inv, NEW w \in Worker, NEW s \in Steps \ {"idle"}, Go(w, s), ~At(w, "idle"),
         UNCHANGED <<config, queue, disk, wrote, finished, results, raised, exit>>,
         s \in {"pyctos", "pyctat"} => Own(w, disk[FolderOf(w)]),
         s = "replay" => Own(w, run[w].loaded) /\ run[w].loaded \subseteq wrote,
         s = "accepted" => OwnBranches(run[w].test, run[w].mode) = Branch
  PROVE Inv'
  <1> USE DEF Inv
  <1>1. run \in [Worker -> Doing]
    BY DEF TypeOK, Doing, Steps
  <1>2. /\ run' = [run EXCEPT ![w].step = s] /\ run' \in [Worker -> Doing]
        /\ \A v \in Worker : /\ run'[v].test = run[v].test /\ run'[v].mode = run[v].mode
                             /\ run'[v].loaded = run[v].loaded
                             /\ v # w => run'[v].step = run[v].step
        /\ run'[w].step = s
    BY <1>1 DEF Go, Doing
  <1>3. TypeOK'
    BY <1>2 DEF TypeOK, Doing, Steps
  <1>4. Exclusive'
    BY <1>2 DEF Exclusive, At
  <1>5. OwnInputs'
    BY <1>2 DEF OwnInputs, At, Own, FolderOf, OwnBranches
  <1>6. AcceptedOnOwnInputs'
    BY DEF AcceptedOnOwnInputs, OwnBranches
  <1> QED
    BY <1>3, <1>4, <1>5, <1>6

\* No worker touches the inputs of a test that another one runs.
LEMMA NextInv ==
  ASSUME UniqueFolders, Inv, [Next]_vars
  PROVE  Inv'
  <1> USE DEF Inv
  <1>1. run \in [Worker -> Doing] /\ config \in Config /\ config \in Configs
    BY ConfigsAssumption DEF TypeOK, Doing, Steps
  <1>2. ASSUME NEW w \in Worker, Start(w) PROVE Inv'
    <2>1. /\ queue \in Seq(Test) /\ queue # <<>> /\ run[w].test = NoTest
          /\ Head(queue) \in Test /\ queue' = Tail(queue) /\ queue' \in Seq(Test)
      BY <1>2, HeadTailProperties DEF Start, TypeOK, Exclusive
    <2>2. \A i \in DOMAIN queue' : /\ i + 1 \in DOMAIN queue /\ queue'[i] = queue[i + 1]
                                   /\ queue'[i] # Head(queue)
      <3>1. /\ Len(queue) \in Nat /\ DOMAIN queue = 1 .. Len(queue) /\ Len(queue) >= 1
            /\ Len(queue') = Len(queue) - 1 /\ DOMAIN queue' = 1 .. Len(queue')
        BY <2>1, LenProperties, HeadTailProperties, EmptySeq
      <3>2. \A i \in DOMAIN queue' : i + 1 \in DOMAIN queue /\ i + 1 # 1 /\ queue'[i] = queue[i + 1]
        BY <2>1, <3>1, HeadTailProperties
      <3>3. Head(queue) = queue[1] /\ 1 \in DOMAIN queue
        BY <2>1, <3>1
      <3> QED
        BY <3>2, <3>3 DEF Exclusive
    <2>3. \A v \in Worker : run[v].test # Head(queue)
      BY <2>1 DEF Exclusive
    <2>4. PICK s \in {"clear", "rejected"} :
            run' = [run EXCEPT ![w] = [test |-> Head(queue), mode |-> 1, loaded |-> {}, step |-> s]]
      BY <1>2 DEF Start
    <2>5. /\ run' \in [Worker -> Doing]
          /\ run'[w].test = Head(queue) /\ run'[w].step = s /\ run'[w].mode = 1
          /\ \A v \in Worker \ {w} : run'[v] = run[v]
      BY <1>1, <2>1, <2>4 DEF Doing, Steps
    <2>6. UNCHANGED <<config, disk, wrote, finished, results, raised, exit>>
      BY <1>2 DEF Start
    <2>7. TypeOK'
      BY <2>1, <2>5, <2>6 DEF TypeOK, Doing, Steps
    <2>8. Exclusive'
      <3>1. \A i, j \in DOMAIN queue' : queue'[i] = queue'[j] => i = j
        <4> TAKE i, j \in DOMAIN queue'
        <4>1. i \in Nat /\ j \in Nat
          BY <2>1, LenProperties
        <4>2. queue'[i] = queue'[j] => i + 1 = j + 1
          BY <2>2 DEF Exclusive
        <4> QED
          BY <4>1, <4>2
      <3>2. \A v \in Worker : run'[v].step = "idle" <=> run'[v].test = NoTest
        BY <2>1, <2>5, TestAssumption DEF Exclusive, At
      <3>3. \A v \in Worker : \A i \in DOMAIN queue' : queue'[i] # run'[v].test
        BY <2>2, <2>5 DEF Exclusive
      <3>4. \A v, u \in Worker : run'[v].test = run'[u].test /\ run'[v].test # NoTest => v = u
        BY <2>3, <2>5 DEF Exclusive
      <3> QED
        BY <3>1, <3>2, <3>3, <3>4 DEF Exclusive, At
    <2>9. OwnInputs'
      BY <2>5, <2>6 DEF OwnInputs, At, Own, FolderOf, OwnBranches
    <2> QED
      BY <2>6, <2>7, <2>8, <2>9 DEF AcceptedOnOwnInputs, OwnBranches
  <1>3. ASSUME NEW w \in Worker, Clear(w) PROVE Inv'
    <2>1. /\ run' = [run EXCEPT ![w].step = "pyctos"] /\ run' \in [Worker -> Doing]
          /\ \A v \in Worker : /\ run'[v].test = run[v].test /\ run'[v].mode = run[v].mode
                               /\ run'[v].loaded = run[v].loaded
                               /\ v # w => run'[v].step = run[v].step
          /\ run'[w].step = "pyctos"
      BY <1>1, <1>3 DEF Clear, Go, Doing, Steps
    <2>2. /\ disk' = [disk EXCEPT ![FolderOf(w)] = {}]
          /\ UNCHANGED <<config, queue, wrote, finished, results, raised, exit>>
      BY <1>3 DEF Clear, ClearedInputs
    <2>3. run[w].test \in Test /\ config.folder[run[w].test] \in Folder
      BY <1>1, <1>3 DEF Clear, At, Exclusive, Doing, Config
    <2>4. \A f \in Folder : disk'[f] \subseteq disk[f]
      BY <2>2 DEF TypeOK
    <2>5. disk'[FolderOf(w)] = {}
      BY <2>2, <2>3 DEF TypeOK, FolderOf
    <2>6. \A v \in Worker : run[v].test # NoTest => config.folder[run[v].test] \in Folder
      BY <1>1 DEF Doing, Config
    <2>7. TypeOK'
      BY <2>1, <2>2 DEF TypeOK, Doing, Steps
    <2>8. Exclusive'
      BY <1>3, <2>1, <2>2 DEF Exclusive, At, Clear
    <2>9. OwnInputs'
      <3> SUFFICES ASSUME NEW v \in Worker
                   PROVE  /\ run'[v].step \in {"pyctos", "pyctat"} =>
                               \A i \in disk'[FolderOf(v)] : i.test = run[v].test /\ i.mode = run[v].mode
                          /\ run'[v].step = "replay" => Own(v, run[v].loaded) /\ run[v].loaded \subseteq wrote
                          /\ run'[v].step = "accepted" => OwnBranches(run[v].test, run[v].mode) = Branch
        BY <2>1, <2>2 DEF OwnInputs, At, Own, FolderOf, OwnBranches
      <3>1. CASE v = w
        BY <2>1, <2>5, <3>1
      <3>2. CASE v # w
        <4>1. run[v].step = run'[v].step
          BY <2>1, <3>2
        <4>2. run[v].step \in {"pyctos", "pyctat"} => disk'[FolderOf(v)] \subseteq disk[FolderOf(v)]
          BY <2>4, <2>6 DEF FolderOf, Exclusive, At
        <4> QED
          BY <4>1, <4>2 DEF OwnInputs, At, Own
      <3> QED
        BY <3>1, <3>2
    <2> QED
      BY <2>2, <2>7, <2>8, <2>9 DEF AcceptedOnOwnInputs, OwnBranches
  <1>4. ASSUME NEW w \in Worker, NEW b \in Branch, Generate(w, b) PROVE Inv'
    <2>1. PICK i \in Input : i = [test |-> run[w].test, mode |-> run[w].mode, branch |-> b]
      BY <1>1, <1>4 DEF Generate, At, Exclusive, Doing, Input
    <2>2. /\ disk' = [disk EXCEPT ![FolderOf(w)] = disk[FolderOf(w)] \cup {i}]
          /\ wrote' = wrote \cup {i}
          /\ UNCHANGED <<config, queue, run, finished, results, raised, exit>>
      BY <1>4, <2>1 DEF Generate
    <2>3. TypeOK'
      BY <2>1, <2>2 DEF TypeOK
    <2>4. Exclusive'
      BY <2>2 DEF Exclusive, At
    <2>5. \A t \in Test, k \in Nat : OwnBranches(t, k) \subseteq OwnBranches(t, k)'
      BY <2>2 DEF OwnBranches
    <2>6. \A v \in Worker : run[v].test # NoTest =>
            config.folder[run[v].test] \in Folder /\ run[v].test \in Test /\ run[v].mode \in Nat
      BY <1>1 DEF Doing, Config
    <2>7. OwnInputs'
      <3> SUFFICES ASSUME NEW v \in Worker
                   PROVE  /\ run[v].step \in {"pyctos", "pyctat"} =>
                               \A j \in disk'[FolderOf(v)] : j.test = run[v].test /\ j.mode = run[v].mode
                          /\ run[v].step = "replay" => Own(v, run[v].loaded) /\ run[v].loaded \subseteq wrote'
                          /\ run[v].step = "accepted" => OwnBranches(run[v].test, run[v].mode)' = Branch
        BY <2>2 DEF OwnInputs, At, Own, FolderOf
      <3>1. run[v].step = "replay" => Own(v, run[v].loaded) /\ run[v].loaded \subseteq wrote'
        BY <2>2 DEF OwnInputs, At
      <3>2. run[v].step = "accepted" => OwnBranches(run[v].test, run[v].mode)' = Branch
        <4> HAVE run[v].step = "accepted"
        <4>1. OwnBranches(run[v].test, run[v].mode) = Branch
          BY DEF OwnInputs, At
        <4> QED
          BY <4>1, <2>2 DEF OwnBranches
      <3>3. ASSUME run[v].step \in {"pyctos", "pyctat"}
            PROVE  \A j \in disk'[FolderOf(v)] : j.test = run[v].test /\ j.mode = run[v].mode
        <4>1. /\ run[v].test # NoTest /\ run[w].test # NoTest
          BY <1>4, <3>3 DEF Exclusive, At, Generate
        <4>2. \A j \in disk[FolderOf(v)] : j.test = run[v].test /\ j.mode = run[v].mode
          BY <3>3 DEF OwnInputs, At, Own
        <4>3. CASE v = w
          BY <2>1, <2>2, <2>6, <4>1, <4>2, <4>3 DEF TypeOK, FolderOf
        <4>4. CASE v # w
          <5>1. config.folder[run[v].test] # config.folder[run[w].test]
            BY <1>1, <2>6, <4>1, <4>4 DEF Exclusive, UniqueFolders
          <5> QED
            BY <2>2, <2>6, <4>1, <4>2, <5>1 DEF TypeOK, FolderOf
        <4> QED
          BY <4>3, <4>4
      <3> QED
        BY <3>1, <3>2, <3>3
    <2>8. AcceptedOnOwnInputs'
      BY <2>2 DEF AcceptedOnOwnInputs, OwnBranches
    <2> QED
      BY <2>3, <2>4, <2>7, <2>8
  <1>5. ASSUME NEW w \in Worker, NEW code \in Code, PyctosExits(w, code) PROVE Inv'
    <2>1. PICK s \in {"pyctat", "rejected", "next"} : Go(w, s)
      BY <1>5 DEF PyctosExits, AfterFailure
    <2>2. /\ ~At(w, "idle")
          /\ UNCHANGED <<config, queue, disk, wrote, finished, results, raised, exit>>
          /\ Own(w, disk[FolderOf(w)])
      BY <1>5 DEF PyctosExits, At, OwnInputs
    <2> QED
      BY <2>1, <2>2, GoKeeps DEF Steps
  <1>6. ASSUME NEW w \in Worker, PyctatLoads(w) PROVE Inv'
    <2>1. PICK s \in {"rejected", "replay"} :
            run' = [run EXCEPT ![w].loaded = disk[FolderOf(w)], ![w].step = s]
      BY <1>6 DEF PyctatLoads
    <2>2. run[w].test \in Test /\ config.folder[run[w].test] \in Folder
      BY <1>1, <1>6 DEF PyctatLoads, At, Exclusive, Doing, Config
    <2>3. disk[FolderOf(w)] \subseteq wrote /\ wrote \subseteq Input
      BY <2>2 DEF TypeOK, FolderOf
    <2>4. /\ run' \in [Worker -> Doing]
          /\ \A v \in Worker : /\ run'[v].test = run[v].test /\ run'[v].mode = run[v].mode
                               /\ v # w => run'[v].step = run[v].step /\ run'[v].loaded = run[v].loaded
          /\ run'[w].step = s /\ run'[w].loaded = disk[FolderOf(w)]
      BY <1>1, <2>1, <2>3 DEF Doing, Steps
    <2>5. UNCHANGED <<config, queue, disk, wrote, finished, results, raised, exit>>
      BY <1>6 DEF PyctatLoads
    <2>6. Own(w, disk[FolderOf(w)])
      BY <1>6 DEF OwnInputs, PyctatLoads
    <2>7. TypeOK'
      BY <2>4, <2>5 DEF TypeOK, Doing, Steps
    <2>8. Exclusive'
      BY <1>6, <2>4, <2>5 DEF Exclusive, At, PyctatLoads
    <2>9. OwnInputs'
      BY <2>3, <2>4, <2>5, <2>6 DEF OwnInputs, At, Own, FolderOf, OwnBranches
    <2> QED
      BY <2>5, <2>7, <2>8, <2>9 DEF AcceptedOnOwnInputs, OwnBranches
  <1>7. ASSUME NEW w \in Worker, NEW code \in Code, PyctatExits(w, code) PROVE Inv'
    <2>1. PICK s \in {"accepted", "rejected", "next"} : Go(w, s) /\ (s = "accepted" => Covered(w))
      BY <1>7 DEF PyctatExits, AfterFailure
    <2>2. /\ ~At(w, "idle")
          /\ UNCHANGED <<config, queue, disk, wrote, finished, results, raised, exit>>
          /\ Own(w, run[w].loaded) /\ run[w].loaded \subseteq wrote
      BY <1>7 DEF PyctatExits, At, OwnInputs
    <2>3. Covered(w) => OwnBranches(run[w].test, run[w].mode) = Branch
      <3> SUFFICES ASSUME Covered(w), NEW b \in Branch
                   PROVE  [test |-> run[w].test, mode |-> run[w].mode, branch |-> b] \in wrote
        BY DEF OwnBranches
      <3>1. PICK i \in run[w].loaded : i.branch = b
        BY DEF Covered
      <3>2. i \in Input /\ i \in wrote /\ i.test = run[w].test /\ i.mode = run[w].mode
        BY <2>2, <3>1 DEF Own, TypeOK
      <3>3. i = [test |-> i.test, mode |-> i.mode, branch |-> i.branch]
        BY <3>2 DEF Input
      <3> QED
        BY <3>1, <3>2, <3>3
    <2> QED
      BY <2>1, <2>2, <2>3, GoKeeps DEF Steps
  <1>8. ASSUME NEW w \in Worker, NextMode(w) PROVE Inv'
    <2>1. run[w].test \in Test /\ run[w].mode \in Nat /\ config.modes[run[w].test] \in Nat
      BY <1>1, <1>8 DEF NextMode, At, Exclusive, Doing, Config
    <2>2. PICK k \in Nat, s \in {"clear", "rejected"} :
            /\ run' = [run EXCEPT ![w].mode = k, ![w].step = s]
            /\ k = run[w].mode \/ k \in 1 .. config.modes[run[w].test]
      <3>1. CASE HasNext(w)
        <4>1. ModeAfter(w) \in Nat /\ ModeAfter(w) \in 1 .. config.modes[run[w].test]
          BY <2>1, <3>1 DEF ModeAfter, HasNext
        <4> QED
          BY <1>8, <3>1, <4>1 DEF NextMode
      <3>2. CASE ~HasNext(w)
        <4>1. run' = [run EXCEPT ![w].step = "rejected"]
          BY <1>8, <3>2 DEF NextMode
        <4>2. run' = [run EXCEPT ![w].mode = run[w].mode, ![w].step = "rejected"]
          BY <1>1, <4>1 DEF Doing
        <4> QED
          BY <2>1, <4>2
      <3> QED
        BY <3>1, <3>2
    <2>3. /\ run' \in [Worker -> Doing]
          /\ \A v \in Worker : /\ run'[v].test = run[v].test
                               /\ v # w => run'[v] = run[v]
          /\ run'[w].step = s /\ run'[w].mode = k
      BY <1>1, <2>2 DEF Doing, Steps
    <2>4. UNCHANGED <<config, queue, disk, wrote, finished, results, raised, exit>>
      BY <1>8 DEF NextMode
    <2>5. TypeOK'
      <3>1. \A v \in Worker : run'[v].test # NoTest => run'[v].mode \in (1 .. config.modes[run'[v].test]) \cup {1}
        BY <2>2, <2>3 DEF TypeOK
      <3> QED
        BY <2>3, <2>4, <3>1 DEF TypeOK, Doing, Steps
    <2>6. Exclusive'
      BY <1>8, <2>3, <2>4 DEF Exclusive, At, NextMode
    <2>7. OwnInputs'
      BY <2>3, <2>4 DEF OwnInputs, At, Own, FolderOf, OwnBranches
    <2> QED
      BY <2>4, <2>5, <2>6, <2>7 DEF AcceptedOnOwnInputs, OwnBranches
  <1>9. ASSUME NEW w \in Worker, run' = [run EXCEPT ![w] = Idle],
               UNCHANGED <<config, queue, disk, wrote>>,
               (finished \cup results)' \subseteq Result,
               raised' \in BOOLEAN, exit' \in {"none", "0", "1"}
        PROVE  TypeOK' /\ Exclusive' /\ OwnInputs'
    <2>1. /\ run' \in [Worker -> Doing]
          /\ run'[w].test = NoTest /\ run'[w].step = "idle"
          /\ \A v \in Worker \ {w} : run'[v] = run[v]
      BY <1>1, <1>9 DEF Idle, Doing, Steps
    <2>2. TypeOK'
      BY <1>9, <2>1 DEF TypeOK, Doing, Steps
    <2>3. Exclusive'
      <3>1. \A i \in DOMAIN queue : queue[i] # NoTest
        BY TestAssumption, LenProperties DEF TypeOK
      <3> QED
        BY <1>9, <2>1, <3>1 DEF Exclusive, At
    <2>4. OwnInputs'
      BY <1>9, <2>1 DEF OwnInputs, At, Own, FolderOf, OwnBranches
    <2> QED
      BY <2>2, <2>3, <2>4
  <1>10. ASSUME NEW w \in Worker, FinishTest(w) PROVE Inv'
    <2>1. PICK r \in Result : /\ r.test = run[w].test /\ r.mode = run[w].mode /\ r.status = Verdict(w)
                              /\ finished' = finished \cup {r}
      <3>1. run[w].test \in Test /\ run[w].mode \in Nat
        BY <1>1, <1>10 DEF FinishTest, At, Exclusive, Doing
      <3>2. Verdict(w) \in Status
        BY DEF Verdict, Status
      <3> QED
        BY <1>10, <3>1, <3>2 DEF FinishTest, Result
    <2>2. TypeOK' /\ Exclusive' /\ OwnInputs'
      BY <1>9, <1>10, <2>1 DEF FinishTest, TypeOK
    <2>3. r.status \in {"passed", "xpassed"} => OwnBranches(r.test, r.mode) = Branch
      BY <2>1 DEF Verdict, OwnInputs
    <2>4. AcceptedOnOwnInputs'
      BY <1>10, <2>1, <2>3 DEF AcceptedOnOwnInputs, OwnBranches, FinishTest
    <2> QED
      BY <2>2, <2>4
  <1>11. ASSUME NEW w \in Worker, Raise(w) PROVE Inv'
    <2>1. TypeOK' /\ Exclusive' /\ OwnInputs'
      BY <1>9, <1>11 DEF Raise, TypeOK
    <2> QED
      BY <1>11, <2>1 DEF AcceptedOnOwnInputs, OwnBranches, Raise
  <1>12. ASSUME UNCHANGED <<config, queue, run, disk, wrote, raised>>,
                (finished \cup results)' \subseteq finished \cup results,
                exit' \in {"none", "0", "1"}
         PROVE  Inv'
    BY <1>12 DEF TypeOK, Exclusive, OwnInputs, AcceptedOnOwnInputs, At, Own, FolderOf, OwnBranches
  <1>13. ASSUME NEW r \in finished, Collect(r) PROVE Inv'
    BY <1>12, <1>13 DEF Collect, TypeOK
  <1>14. CASE Exit
    BY <1>12, <1>14 DEF Exit
  <1>15. CASE UNCHANGED vars
    BY <1>12, <1>15 DEF vars, TypeOK
  <1> QED
    BY <1>2, <1>3, <1>4, <1>5, <1>6, <1>7, <1>8, <1>10, <1>11, <1>13, <1>14, <1>15
       DEF Next, WorkerStep, MainStep, Terminated

\* A test is accepted in a mode only on the inputs that pyctos wrote for this
\* test in this mode (run_test clears the folder before each mode), for any tests
\* with different ids, any modes and any number of workers.
THEOREM AcceptanceIsEarned ==
  ASSUME UniqueFolders
  PROVE  Spec => [](TypeOK /\ AcceptedOnOwnInputs)
  <1>1. Inv => TypeOK /\ AcceptedOnOwnInputs
    BY DEF Inv
  <1>2. Inv /\ [Next]_vars => Inv'
    BY NextInv
  <1> QED
    BY <1>1, <1>2, InitInv, PTL DEF Spec

Reported == finished \cup results
Queued(t) == \E i \in DOMAIN queue : queue[i] = t
Running(t) == \E w \in Worker : run[w].test = t

\* A test has one result at most and none while it waits or runs; until run_test raises,
\* no test is lost.
Accounted ==
  /\ \A r, q \in Reported : r.test = q.test => r = q
  /\ \A r \in Reported : ~Queued(r.test) /\ ~Running(r.test)
  /\ ~raised => \A t \in Test : Queued(t) \/ Running(t) \/ \E r \in Reported : r.test = t

\* A test that was not rejected is in one of its modes, and a result says what xfail makes
\* of it.
Judged ==
  /\ \A w \in Worker :
       run[w].step \notin {"idle", "rejected"} => run[w].mode \in 1 .. config.modes[run[w].test]
  /\ \A r \in Reported :
       /\ r.status \in {"passed", "xpassed"} => r.mode \in 1 .. config.modes[r.test]
       /\ r.status \in {"xpassed", "xfailed"} <=> r.test \in config.xfail

\* What main looked at when it returned 0 stays so.
Ended ==
  exit = "0" =>
    /\ ~raised /\ queue = <<>> /\ finished = {}
    /\ \A w \in Worker : At(w, "idle")
    /\ \A r \in results : Passed(r)

ExitInv == Accounted /\ Judged /\ Ended

\* At the start every test is in the queue.
LEMMA InitExit == Init => ExitInv
  <1> SUFFICES ASSUME Init PROVE ExitInv
    OBVIOUS
  <1>1. Reported = {} /\ \A w \in Worker : run[w] = Idle
    BY DEF Init, Reported
  <1>2. ASSUME NEW t \in Test PROVE Queued(t)
    <2> DEFINE n == Cardinality(Test)
    <2>1. n \in Nat /\ IsFiniteSet(1 .. n) /\ Cardinality(1 .. n) = n
      BY TestAssumption, FS_CardinalityType, FS_Interval
    <2>2. queue \in [1 .. n -> Test] /\ \A i, j \in 1 .. n : queue[i] = queue[j] => i = j
      BY DEF Init, Order
    <2> HIDE DEF n
    <2>3. queue \in Injection(1 .. n, Test)
      BY <2>2 DEF Injection, IsInjective
    <2>4. queue \in Surjection(1 .. n, Test)
      BY <2>1, <2>3, TestAssumption, FS_Injection DEF n
    <2> QED
      BY <2>2, <2>4 DEF Surjection, Queued
  <1>3. exit = "none"
    BY DEF Init
  <1> QED
    BY <1>1, <1>2, <1>3 DEF ExitInv, Accounted, Judged, Ended, Idle

\* A worker that goes on with its test.
LEMMA TestGoesOn ==
  ASSUME ExitInv, NEW w \in Worker, ~At(w, "idle"),
         UNCHANGED <<config, queue, finished, results, raised, exit>>,
         \A v \in Worker : run'[v].test = run[v].test,
         \A v \in Worker : run'[v].step \notin {"idle", "rejected"} =>
           run'[v].mode \in 1 .. config.modes[run[v].test]
  PROVE  ExitInv'
  <1>1. Accounted'
    BY DEF ExitInv, Accounted, Reported, Queued, Running
  <1>2. Judged'
    BY DEF ExitInv, Judged, Reported
  <1>3. Ended'
    BY DEF ExitInv, Ended
  <1> QED
    BY <1>1, <1>2, <1>3 DEF ExitInv

\* Every step keeps the account of the tests.
LEMMA NextExit ==
  ASSUME Inv, ExitInv, [Next]_vars
  PROVE  ExitInv'
  <1>1. run \in [Worker -> Doing] /\ config \in Config
    BY ConfigsAssumption DEF Inv, TypeOK, Doing, Steps
  <1>2. \A v \in Worker : (run[v].step = "idle" <=> run[v].test = NoTest) /\ NoTest \notin Test
    BY TestAssumption DEF Inv, Exclusive, At
  <1>3. ASSUME NEW w \in Worker, Start(w) PROVE ExitInv'
    <2>1. /\ queue \in Seq(Test) /\ queue # <<>> /\ run[w].step = "idle" /\ run[w].test = NoTest
          /\ queue' = Tail(queue)
          /\ UNCHANGED <<config, disk, wrote, finished, results, raised, exit>>
      BY <1>2, <1>3 DEF Start, At, Inv, TypeOK
    <2>2. /\ Len(queue) \in Nat /\ DOMAIN queue = 1 .. Len(queue) /\ Len(queue) >= 1
          /\ DOMAIN queue' = 1 .. Len(queue) - 1
          /\ \A i \in 1 .. Len(queue) - 1 : queue'[i] = queue[i + 1]
          /\ Head(queue) = queue[1] /\ Head(queue) \in Test
      BY <2>1, LenProperties, HeadTailProperties, EmptySeq
    <2>3. \A t \in Test : Queued(t) <=> (Queued(t)' \/ t = Head(queue))
      <3> TAKE t \in Test
      <3>1. ASSUME NEW i \in DOMAIN queue', queue'[i] = t PROVE Queued(t)
        <4>1. i + 1 \in DOMAIN queue /\ queue[i + 1] = t
          BY <2>2, <3>1
        <4> QED
          BY <4>1 DEF Queued
      <3>2. ASSUME NEW i \in DOMAIN queue, queue[i] = t, t # Head(queue) PROVE Queued(t)'
        <4>1. i \in 1 .. Len(queue) /\ i # 1
          BY <2>2, <3>2
        <4>2. i - 1 \in 1 .. Len(queue) - 1 /\ queue'[i - 1] = queue[i - 1 + 1] /\ i - 1 + 1 = i
          BY <2>2, <4>1
        <4> QED
          BY <2>2, <3>2, <4>2 DEF Queued
      <3>3. 1 \in DOMAIN queue
        BY <2>2
      <3> QED
        BY <2>2, <3>1, <3>2, <3>3 DEF Queued
    <2>4. PICK s \in {"clear", "rejected"} :
            /\ run' = [run EXCEPT ![w] = [test |-> Head(queue), mode |-> 1, loaded |-> {}, step |-> s]]
            /\ s = "clear" => config.modes[Head(queue)] # 0
      BY <1>3 DEF Start
    <2>5. /\ run'[w].test = Head(queue) /\ run'[w].step = s /\ run'[w].mode = 1
          /\ \A v \in Worker \ {w} : run'[v] = run[v]
      BY <1>1, <2>4
    <2>6. \A t \in Test : Running(t)' <=> (Running(t) \/ t = Head(queue))
      BY <1>2, <2>1, <2>5 DEF Running
    <2>7. Reported' = Reported /\ \A r \in Reported : r.test \in Test
      BY <2>1 DEF Reported, Inv, TypeOK, Result
    <2>8. Accounted'
      BY <2>1, <2>2, <2>3, <2>6, <2>7 DEF ExitInv, Accounted
    <2>9. Judged'
      <3>1. s = "clear" => 1 \in 1 .. config.modes[Head(queue)]
        <4>1. config.modes[Head(queue)] \in Nat
          BY <1>1, <2>2 DEF Config
        <4> QED
          BY <2>4, <4>1
      <3> QED
        BY <2>1, <2>4, <2>5, <2>7, <3>1 DEF ExitInv, Judged
    <2>10. Ended'
      BY <2>1 DEF ExitInv, Ended
    <2> QED
      BY <2>8, <2>9, <2>10 DEF ExitInv
  <1>4. ASSUME NEW w \in Worker, NEW s \in Steps, Go(w, s), run[w].step \notin {"idle", "rejected"},
               UNCHANGED <<config, queue, finished, results, raised, exit>>
        PROVE  ExitInv'
    <2>1. \A v \in Worker : /\ run'[v].test = run[v].test /\ run'[v].mode = run[v].mode
                            /\ v # w => run'[v].step = run[v].step
      BY <1>1, <1>4 DEF Go, Doing
    <2>2. \A v \in Worker : run'[v].step \notin {"idle", "rejected"} =>
            run'[v].mode \in 1 .. config.modes[run[v].test]
      BY <1>4, <2>1 DEF ExitInv, Judged
    <2> QED
      BY <1>4, <2>1, <2>2, TestGoesOn DEF At
  <1>5. ASSUME NEW w \in Worker, Clear(w) PROVE ExitInv'
    BY <1>4, <1>5 DEF Clear, At, Steps
  <1>6. ASSUME NEW w \in Worker, NEW b \in Branch, Generate(w, b) PROVE ExitInv'
    <2>1. UNCHANGED <<config, queue, run, finished, results, raised, exit>> /\ ~At(w, "idle")
      BY <1>6 DEF Generate, At
    <2>2. \A v \in Worker : run'[v].step \notin {"idle", "rejected"} =>
            run'[v].mode \in 1 .. config.modes[run[v].test]
      BY <2>1 DEF ExitInv, Judged
    <2> QED
      BY <2>1, <2>2, TestGoesOn
  <1>7. ASSUME NEW w \in Worker, NEW code \in Code, PyctosExits(w, code) \/ PyctatExits(w, code)
        PROVE  ExitInv'
    <2>1. PICK s \in Steps : Go(w, s)
      BY <1>7 DEF PyctosExits, PyctatExits, AfterFailure, Steps
    <2> QED
      BY <1>4, <1>7, <2>1 DEF PyctosExits, PyctatExits, At
  <1>8. ASSUME NEW w \in Worker, PyctatLoads(w) PROVE ExitInv'
    <2>1. PICK s \in {"rejected", "replay"} :
            run' = [run EXCEPT ![w].loaded = disk[FolderOf(w)], ![w].step = s]
      BY <1>8 DEF PyctatLoads
    <2>2. \A v \in Worker : /\ run'[v].test = run[v].test /\ run'[v].mode = run[v].mode
                            /\ v # w => run'[v].step = run[v].step
      BY <1>1, <2>1 DEF Doing
    <2>3. \A v \in Worker : run'[v].step \notin {"idle", "rejected"} =>
            run'[v].mode \in 1 .. config.modes[run[v].test]
      BY <1>8, <2>2 DEF ExitInv, Judged, PyctatLoads, At
    <2> QED
      BY <1>8, <2>2, <2>3, TestGoesOn DEF PyctatLoads, At
  <1>9. ASSUME NEW w \in Worker, NextMode(w) PROVE ExitInv'
    <2>1. /\ run[w].step = "next" /\ run[w].test \in Test /\ run[w].mode \in Nat
          /\ config.modes[run[w].test] \in Nat
      BY <1>1, <1>2, <1>9 DEF NextMode, At, Doing, Config
    <2>2. CASE ~HasNext(w)
      <3>1. Go(w, "rejected")
        BY <1>9, <2>2 DEF NextMode, Go
      <3> QED
        BY <1>4, <1>9, <2>1, <3>1 DEF NextMode, Steps
    <2>3. CASE HasNext(w)
      <3>1. run' = [run EXCEPT ![w].mode = ModeAfter(w), ![w].step = "clear"]
        BY <1>9, <2>3 DEF NextMode
      <3>2. ModeAfter(w) \in 1 .. config.modes[run[w].test]
        BY <2>1, <2>3 DEF ModeAfter, HasNext
      <3>3. \A v \in Worker : /\ run'[v].test = run[v].test
                              /\ v # w => run'[v] = run[v]
                              /\ v = w => run'[v].mode = ModeAfter(w)
        BY <1>1, <3>1 DEF Doing
      <3>4. \A v \in Worker : run'[v].step \notin {"idle", "rejected"} =>
              run'[v].mode \in 1 .. config.modes[run[v].test]
        BY <3>2, <3>3 DEF ExitInv, Judged
      <3> QED
        BY <1>9, <3>3, <3>4, TestGoesOn DEF NextMode, At
    <2> QED
      BY <2>2, <2>3
  <1>10. ASSUME NEW w \in Worker, FinishTest(w) PROVE ExitInv'
    <2>1. /\ run[w].test \in Test /\ run[w].mode \in Nat /\ run[w].step \in {"accepted", "rejected"}
          /\ UNCHANGED <<config, queue, disk, wrote, results, raised, exit>>
      BY <1>1, <1>2, <1>10 DEF FinishTest, At, Doing
    <2>2. PICK r \in Result : /\ r.test = run[w].test /\ r.mode = run[w].mode /\ r.status = Verdict(w)
                              /\ Reported' = Reported \cup {r}
      <3>1. Verdict(w) \in Status
        BY DEF Verdict, Status
      <3> QED
        BY <1>10, <2>1, <3>1 DEF FinishTest, Result, Reported
    <2>3. /\ run'[w].test = NoTest /\ run'[w].step = "idle"
          /\ \A v \in Worker \ {w} : run'[v] = run[v]
      BY <1>1, <1>10 DEF FinishTest, Idle
    <2>4. \A t \in Test : /\ Queued(t)' <=> Queued(t)
                          /\ Running(t) <=> (Running(t)' \/ t = run[w].test)
      BY <1>2, <2>1, <2>3 DEF Queued, Running
    <2>5. ~Queued(r.test) /\ ~Running(r.test)'
      BY <1>2, <2>1, <2>2, <2>3 DEF Inv, Exclusive, Queued, Running
    <2>6. Running(run[w].test) /\ \A q \in Reported : q.test \in Test
      BY DEF Running, Reported, Inv, TypeOK, Result
    <2>7. Accounted'
      BY <2>1, <2>2, <2>4, <2>5, <2>6 DEF ExitInv, Accounted
    <2>8. Judged'
      <3>1. r.status \in {"passed", "xpassed"} => r.mode \in 1 .. config.modes[r.test]
        BY <2>1, <2>2 DEF Verdict, At, ExitInv, Judged
      <3>2. r.status \in {"xpassed", "xfailed"} <=> r.test \in config.xfail
        BY <2>2 DEF Verdict
      <3> QED
        BY <2>1, <2>2, <2>3, <3>1, <3>2 DEF ExitInv, Judged
    <2>9. Ended'
      BY <1>10, <2>1 DEF ExitInv, Ended, FinishTest, At
    <2> QED
      BY <2>7, <2>8, <2>9 DEF ExitInv
  <1>11. ASSUME NEW w \in Worker, Raise(w) PROVE ExitInv'
    <2>1. /\ raised' /\ UNCHANGED <<config, queue, disk, wrote, finished, results, exit>>
          /\ run[w].step # "idle" /\ run' = [run EXCEPT ![w] = Idle]
      BY <1>11 DEF Raise, At
    <2>2. /\ run'[w].test = NoTest /\ run'[w].step = "idle"
          /\ \A v \in Worker \ {w} : run'[v] = run[v]
      BY <1>1, <2>1 DEF Idle
    <2>3. Reported' = Reported /\ \A q \in Reported : q.test \in Test
      BY <2>1 DEF Reported, Inv, TypeOK, Result
    <2>4. \A t \in Test : (Queued(t)' <=> Queued(t)) /\ (Running(t)' => Running(t))
      BY <1>2, <2>1, <2>2 DEF Queued, Running
    <2>5. Accounted'
      BY <2>1, <2>3, <2>4 DEF ExitInv, Accounted
    <2>6. Judged'
      BY <2>1, <2>2, <2>3 DEF ExitInv, Judged
    <2>7. Ended'
      BY <2>1 DEF ExitInv, Ended, At
    <2> QED
      BY <2>5, <2>6, <2>7 DEF ExitInv
  <1>12. ASSUME NEW r \in finished, Collect(r) PROVE ExitInv'
    <2>1. Reported' = Reported /\ exit = "none"
          /\ UNCHANGED <<config, queue, run, raised, exit>>
      BY <1>12 DEF Collect, Reported
    <2>2. Accounted' /\ Judged'
      BY <2>1 DEF ExitInv, Accounted, Judged, Queued, Running
    <2>3. Ended'
      BY <2>1 DEF Ended
    <2> QED
      BY <2>2, <2>3 DEF ExitInv
  <1>13. CASE Exit
    <2>1. UNCHANGED <<config, queue, run, finished, results, raised>>
      BY <1>13 DEF Exit
    <2>2. Accounted' /\ Judged'
      BY <2>1 DEF ExitInv, Accounted, Judged, Queued, Running, Reported
    <2>3. Ended'
      BY <1>13 DEF Ended, Exit, At, Passed
    <2> QED
      BY <2>2, <2>3 DEF ExitInv
  <1>14. CASE UNCHANGED vars
    BY <1>14 DEF vars, ExitInv, Accounted, Judged, Ended, Queued, Running, Reported, At
  <1> QED
    BY <1>3, <1>5, <1>6, <1>7, <1>8, <1>9, <1>10, <1>11, <1>12, <1>13, <1>14
       DEF Next, WorkerStep, MainStep, Terminated

\* When main has returned 0, the one result of each test is one that passes.
LEMMA ZeroIsEarned ==
  ASSUME Inv, ExitInv
  PROVE  ExitZeroIsEarned
  <1> SUFFICES ASSUME exit = "0", NEW t \in Test
               PROVE  /\ Cardinality({r \in results : r.test = t}) = 1
                      /\ t \notin config.xfail => \E k \in 1 .. config.modes[t] : OwnBranches(t, k) = Branch
                      /\ t \in config.xfail => ~\E r \in results : r.test = t /\ r.status = "xpassed"
    BY DEF ExitZeroIsEarned
  <1>1. /\ ~raised /\ queue = <<>> /\ Reported = results
        /\ \A w \in Worker : run[w].test = NoTest
        /\ \A r \in results : r.status \in {"passed", "xfailed"}
    BY DEF ExitInv, Ended, Reported, Inv, Exclusive, At, Passed
  <1>2. ~Queued(t) /\ ~Running(t)
    BY <1>1, TestAssumption DEF Queued, Running
  <1>3. PICK r \in results : r.test = t
    BY <1>1, <1>2 DEF ExitInv, Accounted
  <1>4. {q \in results : q.test = t} = {r}
    BY <1>1, <1>3 DEF ExitInv, Accounted
  <1>5. Cardinality({r}) = 1
    BY FS_Singleton
  <1>6. t \notin config.xfail => r.status = "passed"
    BY <1>1, <1>3 DEF ExitInv, Judged
  <1>7. r.status = "passed" => r.mode \in 1 .. config.modes[t] /\ OwnBranches(t, r.mode) = Branch
    BY <1>1, <1>3 DEF ExitInv, Judged, Inv, AcceptedOnOwnInputs
  <1>8. r.status # "xpassed"
    BY <1>1
  <1> QED
    BY <1>4, <1>5, <1>6, <1>7, <1>8

\* pyctest returns 0 only if every test has one result, was covered by the inputs of one of
\* its modes if it is to pass, and was not accepted if it is expected to fail, for any tests
\* with different ids.
THEOREM ExitStatusIsEarned ==
  ASSUME UniqueFolders
  PROVE  Spec => []ExitZeroIsEarned
  <1>1. Inv /\ [Next]_vars => Inv'
    BY NextInv
  <1>2. ExitInv /\ Inv /\ [Next]_vars => ExitInv'
    BY NextExit
  <1>3. Inv /\ ExitInv => ExitZeroIsEarned
    BY ZeroIsEarned
  <1> QED
    BY <1>1, <1>2, <1>3, InitInv, InitExit, PTL DEF Spec
=================================================================================
