---------------------------- MODULE MCScheduler ----------------------------
(* Definitions for the TLC instances of BogScheduler.                      *)
EXTENDS BogScheduler

\* A program may exit with the very codes the kernel uses internally.
ExitValues == {1, YIELD_EXIT_CODE, PREEMPT_EXIT_CODE}

\* Two applications of the isolation proof, one for the dynamic loader, one
\* without code to map and the staged v39 application.
IsolationApps == {"bad_read", "bad_write", "dyn", "empty", "hello"}
============================================================================
