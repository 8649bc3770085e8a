---------------------------- MODULE MCTickSleep -----------------------------
EXTENDS TickSleep, TLC

CONSTANTS p1, p2, p3

\* Three sleepers, so one wakeup has several processes to wake; sleeps of
\* up to 2 ticks, so a process is woken before its time and sleeps again;
\* 4 ticks, so a process calls sys_sleep again after returning.
MCProcs == {p1, p2, p3}
MCMaxN == 2
MCMaxTicks == 4

\* The processes are interchangeable.
Symmetry == Permutations(MCProcs)
=============================================================================
