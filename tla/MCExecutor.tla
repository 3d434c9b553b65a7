----------------------------- MODULE MCExecutor -----------------------------
(* The GUI thread, which posts every kind of event and may shut the executor *)
(* down, and the core thread.                                                *)
EXTENDS ExecutorRefinement

CONSTANTS gui, core

KindsOf == [p \in {gui, core} |->
              IF p = gui THEN AllKinds ELSE {"async", "rpc"}]
=============================================================================
