----------------------------- MODULE MCProcLive -----------------------------
(* Instance of Proc for its liveness property: the slots and CPUs of       *)
(* MCProc, and pids for two forks (a child, then a grandchild or a second  *)
(* child in a reaped slot), which keeps the check of the fairness within   *)
(* reach.                                                                  *)
EXTENDS Proc

MCNPROC  == 3
MCNCPU   == 2
MCMaxPid == 3
=============================================================================
