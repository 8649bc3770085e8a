------------------------------- MODULE MCProc -------------------------------
(* Model-checking instance of Proc: three slots (init, a child and a       *)
(* grandchild), two CPUs so that two processes run at once, and enough      *)
(* pids for init to fork, reap and fork again into a recycled slot.        *)
EXTENDS Proc

MCNPROC  == 3
MCNCPU   == 2
MCMaxPid == 5
=============================================================================
