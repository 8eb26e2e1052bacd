------------------------------- MODULE PathSearch -------------------------------
(***************************************************************************)
(* What an exploration promises, with the program, the solver and the      *)
(* stack taken away.  The inputs of the function under test are split into *)
(* classes: `open` holds the classes still to be run, `active` is the      *)
(* class of the run in progress and `closed` holds the classes that have   *)
(* been run.  A run may only carve pieces out of its own class.            *)
(* ConcolicEngine is shown to implement this module.                       *)
(***************************************************************************)

CONSTANT Input      \* every assignment to parameters, globals and files

VARIABLES
  open,             \* classes of inputs waiting for a run
  running,          \* is a run in progress?
  active,           \* the class of the run in progress
  closed            \* classes whose run has ended

searchVars == <<open, running, active, closed>>

Init ==
  /\ open = {Input}
  /\ running = FALSE
  /\ active = {}
  /\ closed = {}

\* Take a class and start running one of its inputs.
Begin(class) ==
  /\ ~running
  /\ class \in open
  /\ open' = open \ {class}
  /\ running' = TRUE
  /\ active' = class
  /\ UNCHANGED closed

\* A branch: the inputs that would go the other way wait for a run of their own.
Split(away) ==
  /\ running
  /\ away \subseteq active /\ away # {}
  /\ active' = active \ away
  /\ open' = open \cup {away}
  /\ UNCHANGED <<running, closed>>

\* Inputs of the class are given up (an undecided query, an assertion).
Narrow(away) ==
  /\ running
  /\ away \subseteq active
  /\ active' = active \ away
  /\ UNCHANGED <<open, running, closed>>

\* The run ends, whatever made it end.
Close ==
  /\ running
  /\ running' = FALSE
  /\ active' = {}
  /\ closed' = closed \cup {active}
  /\ UNCHANGED open

\* A class is given up without a run (its input was tried before).
Drop(class) ==
  /\ ~running
  /\ class \in open
  /\ open' = open \ {class}
  /\ UNCHANGED <<running, active, closed>>

Next ==
  \/ \E class \in open : Begin(class) \/ Drop(class)
  \/ \E away \in SUBSET Input : Split(away) \/ Narrow(away)
  \/ Close

Spec == Init /\ [][Next]_searchVars
=================================================================================
