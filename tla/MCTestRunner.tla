------------------------------ MODULE MCTestRunner ------------------------------
(***************************************************************************)
(* Two tests of one or two modes, one of them perhaps expected to fail or  *)
(* without a mode, run by two workers; or by the serial loop, then also    *)
(* with two tests of one name, which share their folder.                   *)
(***************************************************************************)
EXTENDS TestRunner

CONSTANTS w1, t1, t2, f1, f2

MCConfigs ==
  {[workers |-> ws,
    folder |-> [t \in Test |-> IF t = t1 THEN f1 ELSE f],
    modes |-> [t \in Test |-> IF t = t1 THEN 2 ELSE k],
    xfail |-> x] :
     ws \in {{w1}, Worker}, f \in {f1, f2}, k \in {0, 1, 2}, x \in {{}, {t2}}}

SharedOnlySerially == {c \in MCConfigs : c.folder[t2] = f2 \/ c.workers = {w1}}
=================================================================================
