----------------------------- MODULE TickSleep ------------------------------
(***************************************************************************)
(* sys_sleep(n) (sysproc.c) against the timer interrupt (trap.c): a        *)
(* process holding tickslock sleeps on &ticks until ticks has advanced by  *)
(* n since it started, rechecking after every wakeup, and returns -1 if it *)
(* is killed; on CPU 0 each timer interrupt takes tickslock, increments    *)
(* ticks and wakes every process sleeping on &ticks.  sleep() (proc.c)     *)
(* trades tickslock for ptable.lock before it blocks, and back after.      *)
(*                                                                         *)
(* ptable.lock is a variable: sleep() takes it while holding tickslock,   *)
(* releases tickslock, blocks, and the scheduler releases it after the     *)
(* switch; wakeup(), kill() and the scheduler's resume each hold it for    *)
(* one step.  The scheduler is abstracted to "a RUNNABLE process may be    *)
(* resumed"; its queues are modelled in Proc.                              *)
(***************************************************************************)
EXTENDS Integers, FiniteSets

CONSTANTS
  Procs,     \* the processes that call sys_sleep
  MaxN,      \* the largest argument n of sys_sleep explored
  MaxTicks,  \* the bound on ticks (a uint that never wraps in practice)
  TIMER,     \* the timer interrupt handler, as a holder of tickslock
  NONE       \* no holder

VARIABLES
  ticks,     \* ticks
  tickslock, \* the holder of tickslock: a process, TIMER or NONE
  ptlock,    \* the holder of ptable.lock: a process or NONE
  tpc,       \* the timer handler: "idle" or "wake" (tickslock held)
  pc,        \* per process: "user", "acquire", "loop", "sleep", "release",
             \* "block", "asleep", "reacquire" or "done"
  n,         \* the argument of the current sys_sleep
  ticks0,    \* its ticks0
  state,     \* "RUNNING", "SLEEPING" or "RUNNABLE"
  killed,    \* p->killed
  ret,       \* the value sys_sleep returned, once pc is "done"
  seen       \* history: the value of ticks the loop's last test read

vars == <<ticks, tickslock, ptlock, tpc, pc, n, ticks0, state, killed, ret,
          seen>>

Init ==
  /\ ticks = 0
  /\ tickslock = NONE
  /\ ptlock = NONE
  /\ tpc = "idle"
  /\ pc = [p \in Procs |-> "user"]
  /\ n = [p \in Procs |-> 0]
  /\ ticks0 = [p \in Procs |-> 0]
  /\ state = [p \in Procs |-> "RUNNING"]
  /\ killed = [p \in Procs |-> FALSE]
  /\ ret = [p \in Procs |-> 0]
  /\ seen = [p \in Procs |-> 0]

\* The process makes the system call sleep(k) (argint succeeded).
Call(p, k) ==
  /\ pc[p] \in {"user", "done"}
  /\ pc' = [pc EXCEPT ![p] = "acquire"]
  /\ n' = [n EXCEPT ![p] = k]
  /\ UNCHANGED <<ticks, tickslock, ptlock, tpc, ticks0, state, killed, ret,
                 seen>>

\* acquire(&tickslock); ticks0 = ticks;
AcquireTicks(p) ==
  /\ pc[p] = "acquire"
  /\ tickslock = NONE
  /\ tickslock' = p
  /\ ticks0' = [ticks0 EXCEPT ![p] = ticks]
  /\ pc' = [pc EXCEPT ![p] = "loop"]
  /\ UNCHANGED <<ticks, ptlock, tpc, n, state, killed, ret, seen>>

\* Mutant: the killed path returns -1 without releasing tickslock.
LoopKilledKeepsLock(p) ==
  /\ pc[p] = "loop"
  /\ seen' = [seen EXCEPT ![p] = ticks]
  /\ \/ /\ ticks - ticks0[p] >= n[p]
        /\ tickslock' = NONE
        /\ ret' = [ret EXCEPT ![p] = 0]
        /\ pc' = [pc EXCEPT ![p] = "done"]
     \/ /\ ticks - ticks0[p] < n[p] /\ killed[p]
        /\ ret' = [ret EXCEPT ![p] = -1]
        /\ pc' = [pc EXCEPT ![p] = "done"]
        /\ UNCHANGED tickslock
     \/ /\ ticks - ticks0[p] < n[p] /\ ~killed[p]
        /\ pc' = [pc EXCEPT ![p] = "sleep"]
        /\ UNCHANGED <<tickslock, ret>>
  /\ UNCHANGED <<ticks, ptlock, tpc, n, ticks0, state, killed>>

\* One test of the loop, with tickslock held: enough ticks, return 0;
\* killed, release and return -1; otherwise call sleep(&ticks, &tickslock).
Loop(p) ==
  /\ pc[p] = "loop"
  /\ seen' = [seen EXCEPT ![p] = ticks]
  /\ \/ /\ ticks - ticks0[p] >= n[p]
        /\ tickslock' = NONE
        /\ ret' = [ret EXCEPT ![p] = 0]
        /\ pc' = [pc EXCEPT ![p] = "done"]
     \/ /\ ticks - ticks0[p] < n[p] /\ killed[p]
        /\ tickslock' = NONE
        /\ ret' = [ret EXCEPT ![p] = -1]
        /\ pc' = [pc EXCEPT ![p] = "done"]
     \/ /\ ticks - ticks0[p] < n[p] /\ ~killed[p]
        /\ pc' = [pc EXCEPT ![p] = "sleep"]
        /\ UNCHANGED <<tickslock, ret>>
  /\ UNCHANGED <<ticks, ptlock, tpc, n, ticks0, state, killed>>

\* Mutant: sleep() lets go of lk without taking ptable.lock first, leaving
\* a window before the process is SLEEPING in which it holds neither.
SleepLockLate(p) ==
  /\ pc[p] = "sleep"
  /\ tickslock' = NONE
  /\ pc' = [pc EXCEPT ![p] = "block"]
  /\ UNCHANGED <<ticks, ptlock, tpc, n, ticks0, state, killed, ret, seen>>

\* sleep(), lk != &ptable.lock: acquire(&ptable.lock), still holding lk.
SleepLock(p) ==
  /\ pc[p] = "sleep"
  /\ ptlock = NONE
  /\ ptlock' = p
  /\ pc' = [pc EXCEPT ![p] = "release"]
  /\ UNCHANGED <<ticks, tickslock, tpc, n, ticks0, state, killed, ret, seen>>

\* release(lk).
SleepRelease(p) ==
  /\ pc[p] = "release"
  /\ tickslock' = NONE
  /\ pc' = [pc EXCEPT ![p] = "block"]
  /\ UNCHANGED <<ticks, ptlock, tpc, n, ticks0, state, killed, ret, seen>>

\* chan = &ticks; SLEEPING; sched(): the switch to the scheduler, which
\* releases ptable.lock.
SleepBlock(p) ==
  /\ pc[p] = "block"
  /\ state' = [state EXCEPT ![p] = "SLEEPING"]
  /\ ptlock' = NONE
  /\ pc' = [pc EXCEPT ![p] = "asleep"]
  /\ UNCHANGED <<ticks, tickslock, tpc, n, ticks0, killed, ret, seen>>

\* The scheduler, with ptable.lock, runs the woken process, which returns
\* from sched(), clears chan and releases ptable.lock.
Resume(p) ==
  /\ pc[p] = "asleep"
  /\ state[p] = "RUNNABLE"
  /\ ptlock = NONE
  /\ state' = [state EXCEPT ![p] = "RUNNING"]
  /\ pc' = [pc EXCEPT ![p] = "reacquire"]
  /\ UNCHANGED <<ticks, tickslock, ptlock, tpc, n, ticks0, killed, ret,
                 seen>>

\* Mutant: "if" in place of "while": after sleep() returns, sys_sleep
\* releases tickslock and returns 0 without testing ticks again.
ReacquireNoRecheck(p) ==
  /\ pc[p] = "reacquire"
  /\ tickslock = NONE
  /\ ret' = [ret EXCEPT ![p] = 0]
  /\ pc' = [pc EXCEPT ![p] = "done"]
  /\ UNCHANGED <<ticks, tickslock, ptlock, tpc, n, ticks0, state, killed,
                 seen>>

\* The end of sleep(): acquire(lk), back in the loop.
Reacquire(p) ==
  /\ pc[p] = "reacquire"
  /\ tickslock = NONE
  /\ tickslock' = p
  /\ pc' = [pc EXCEPT ![p] = "loop"]
  /\ UNCHANGED <<ticks, ptlock, tpc, n, ticks0, state, killed, ret, seen>>

\* Timer interrupt on CPU 0: acquire(&tickslock); ticks++.
TickStart ==
  /\ tpc = "idle"
  /\ tickslock = NONE
  /\ ticks < MaxTicks
  /\ tickslock' = TIMER
  /\ ticks' = ticks + 1
  /\ tpc' = "wake"
  /\ UNCHANGED <<ptlock, pc, n, ticks0, state, killed, ret, seen>>

Sleepers == {p \in Procs : state[p] = "SLEEPING"}

\* wakeup(&ticks): acquire(&ptable.lock), every process sleeping on
\* &ticks becomes RUNNABLE, release; then release(&tickslock).
TickWake ==
  /\ tpc = "wake"
  /\ ptlock = NONE
  /\ state' = [p \in Procs |-> IF state[p] = "SLEEPING" THEN "RUNNABLE"
                                ELSE state[p]]
  /\ tickslock' = NONE
  /\ tpc' = "idle"
  /\ UNCHANGED <<ticks, ptlock, pc, n, ticks0, killed, ret, seen>>

\* kill(pid) under ptable.lock: mark the process; wake it if it sleeps.
Kill(p) ==
  /\ ~killed[p]
  /\ ptlock = NONE
  /\ killed' = [killed EXCEPT ![p] = TRUE]
  /\ state' = IF state[p] = "SLEEPING" THEN [state EXCEPT ![p] = "RUNNABLE"]
              ELSE state
  /\ UNCHANGED <<ticks, tickslock, ptlock, tpc, pc, n, ticks0, ret, seen>>

Next ==
  \/ \E p \in Procs, k \in 1..MaxN : Call(p, k)
  \/ \E p \in Procs : \/ AcquireTicks(p) \/ Loop(p)
                      \/ SleepLock(p) \/ SleepRelease(p) \/ SleepBlock(p)
                      \/ Resume(p) \/ Reacquire(p) \/ Kill(p)
  \/ TickStart
  \/ TickWake

Spec == Init /\ [][Next]_vars

-----------------------------------------------------------------------------
(***************************************************************************)
(* No tick is slept through: a process asleep on &ticks last tested the    *)
(* loop condition at the current value of ticks, or just before the tick   *)
(* whose wakeup the timer is about to do.  The loop tests with tickslock   *)
(* held, and sleep() takes ptable.lock before it lets go of tickslock, so  *)
(* a tick in between cannot run its wakeup until the process is SLEEPING.  *)
(***************************************************************************)
NoLostTick ==
  \A p \in Sleepers : seen[p] = ticks - (IF tpc = "wake" THEN 1 ELSE 0)

\* sys_sleep(n) returns 0 only once ticks has advanced by n since it read
\* ticks0 (the while loop rechecks after every wakeup).
SleepLongEnough ==
  \A p \in Procs : pc[p] = "done" /\ ret[p] = 0 => ticks - ticks0[p] >= n[p]

\* The locks change hands as sleep() and the timer intend: tickslock is
\* held by a process from its acquire through the loop's test up to
\* sleep()'s release(lk) (or its return), and by the timer only around its
\* wakeup; ptable.lock is held by a sleeping process from sleep()'s acquire
\* until the switch to the scheduler, across the release of tickslock.
TicksLockDiscipline ==
  /\ \A p \in Procs : tickslock = p <=> pc[p] \in {"loop", "sleep", "release"}
  /\ tickslock = TIMER <=> tpc = "wake"
  /\ \A p \in Procs : ptlock = p <=> pc[p] \in {"release", "block"}
=============================================================================
