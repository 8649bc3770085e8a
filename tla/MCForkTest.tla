----------------------------- MODULE MCForkTest -----------------------------
(* forktest on a table of four slots: init, the tester and room for two    *)
(* children, so the third fork finds the table full; two CPUs; pids for    *)
(* every allocproc the test can make (two children and one failed fork).   *)
(* N is larger than the table, as 1000 is larger than NPROC = 64.          *)
EXTENDS ForkTest

MCNPROC  == 4
MCNCPU   == 2
MCMaxPid == 5
MCN      == 5
=============================================================================
