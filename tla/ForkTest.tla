------------------------------ MODULE ForkTest ------------------------------
(***************************************************************************)
(* The user program forktest (src/xv6/user/forktest.c) run on the kernel  *)
(* of Proc.  init has forked the tester into slot Tester and sleeps in     *)
(* wait(); the tester forks until fork() returns -1 (a full table, or a    *)
(* failed kalloc or copyuvm), each child exiting at once with              *)
(* EXIT_SUCCESS, then waits once per child and once more, expecting -1.    *)
(*                                                                         *)
(* The kernel steps are Proc's actions, taken whole; the programs only     *)
(* choose which system call a process in user mode makes, and read its     *)
(* result from the step.  upc[p] is the place in its program of the       *)
(* process in slot p, n the tester's local n.  No process calls kill or    *)
(* setprio, so Proc's Kill, SetPrio and KilledExit never apply.            *)
(***************************************************************************)
EXTENDS Naturals, FiniteSets

CONSTANTS
  NPROC, NCPU, MaxPid,   \* as in Proc
  N                      \* forktest's N: forks it tries before giving up

VARIABLES
  state, pid, parent, priority, killed, chan, next, previous, queue,
  nextpid, cpuproc, lock, pc, np, panicked,   \* Proc
  upc,    \* upc[p]: where the user program of slot p is
  n       \* forktest's n

P == INSTANCE Proc

procvars == <<state, pid, parent, priority, killed, chan, next, previous,
              queue, nextpid, cpuproc, lock, pc, np, panicked>>
progvars == <<upc, n>>
vars == <<procvars, progvars>>

Tester == 2

\* Places of the programs (upc): init's wait loop "init"; forktest's fork
\* loop, its wait loop, the last wait, "fork test OK" and the three failure
\* messages below; "child", a child of the tester, which exits at once;
\* "none", a free slot.
Failures == {"claimed", "early", "toomany"}

(***************************************************************************)
(* init has forked the tester (pid 2, NORM_PRIO inherited, RUNNABLE with   *)
(* its context in forkret) and sleeps in wait() on its own slot.           *)
(***************************************************************************)
Init ==
  /\ state = [p \in P!Procs |-> CASE p = P!initproc -> "SLEEPING"
                                  [] p = Tester -> "RUNNABLE"
                                  [] OTHER -> "UNUSED"]
  /\ pid = [p \in P!Procs |-> IF p \in {P!initproc, Tester} THEN p ELSE 0]
  /\ parent = [p \in P!Procs |-> IF p = Tester THEN P!initproc ELSE P!NULL]
  /\ priority = [p \in P!Procs |->
                   IF p \in {P!initproc, Tester} THEN P!NORM_PRIO
                   ELSE P!HI_PRIO]
  /\ killed = [p \in P!Procs |-> FALSE]
  /\ chan = [p \in P!Procs |-> IF p = P!initproc THEN P!initproc ELSE P!NULL]
  /\ LET L == P!RQ!Enqueue(P!RQ!EmptyLists, Tester, P!NORM_PRIO)
     IN  /\ next = L.next /\ previous = L.previous /\ queue = L.head
  /\ nextpid = 3
  /\ cpuproc = [c \in P!CPUS |-> P!NULL]
  /\ lock = P!NOCPU
  /\ pc = [p \in P!Procs |-> CASE p = P!initproc -> "wait_sleep"
                               [] p = Tester -> "forkret"
                               [] OTHER -> "none"]
  /\ np = [p \in P!Procs |-> P!NULL]
  /\ panicked = "none"
  /\ upc = [p \in P!Procs |-> CASE p = P!initproc -> "init"
                                [] p = Tester -> "fork"
                                [] OTHER -> "none"]
  /\ n = 0

-----------------------------------------------------------------------------
\* Where forktest goes when fork() returns -1 with n forks done: the loop
\* breaks, n < N, and the wait loop runs n times before the last wait.
AfterForkFailed(k) == IF k > 0 THEN "wait" ELSE "last"

\* fork() in the loop: allocproc's critical section takes a slot.
TesterFork ==
  /\ upc[Tester] = "fork"
  /\ P!ForkAlloc(Tester)
  /\ UNCHANGED progvars

\* allocproc() finds no UNUSED slot: it releases the lock and fork returns
\* -1 with nothing changed, so the tester leaves the fork loop.
TesterForkNoSlot ==
  /\ upc[Tester] = "fork"
  /\ P!Acquire(Tester) /\ pc[Tester] = "user" /\ ~killed[Tester]
  /\ \A q \in P!Procs : state[q] # "UNUSED"
  /\ upc' = [upc EXCEPT ![Tester] = AfterForkFailed(n)]
  /\ UNCHANGED <<procvars, n>>

\* The lock-free part of fork: a failed kalloc or copyuvm returns -1.
TesterForkFails(A) ==
  /\ A
  /\ upc' = [upc EXCEPT ![Tester] = IF pc'[Tester] = "user"
                                    THEN AfterForkFailed(n) ELSE "fork"]
  /\ UNCHANGED n

\* fork() returns the child's pid: n++, and the loop goes on while n < N;
\* the child, in the same program, sees 0 and takes the exit branch.
TesterForkRun ==
  /\ P!ForkRun(Tester)
  /\ upc' = [upc EXCEPT ![np[Tester]] = "child",
                        ![Tester] = IF n + 1 = N THEN "claimed" ELSE "fork"]
  /\ n' = n + 1

\* What one pass of wait()'s scan returned to the tester: a pid when it
\* freed a ZOMBIE child, -1 when it returned without one; no return when
\* the tester went to sleep.
Reaped == \E q \in P!Procs : state[q] = "ZOMBIE" /\ state'[q] = "UNUSED"

\* Mutant: the wait loop runs while n >= 0, one wait too many.
TesterWaitResultOneMore ==
  IF pc'[Tester] # "user" THEN UNCHANGED progvars
  ELSE CASE upc[Tester] = "wait" /\ Reaped ->
              /\ n' = n - 1
              /\ upc' = [upc EXCEPT ![Tester] = IF n - 1 >= 0 THEN "wait"
                                                ELSE "last"]
         [] upc[Tester] = "wait" ->
              upc' = [upc EXCEPT ![Tester] = "early"] /\ UNCHANGED n
         [] Reaped ->
              upc' = [upc EXCEPT ![Tester] = "toomany"] /\ UNCHANGED n
         [] OTHER ->
              upc' = [upc EXCEPT ![Tester] = "ok"] /\ UNCHANGED n

TesterWaitResult ==
  IF pc'[Tester] # "user" THEN UNCHANGED progvars
  ELSE CASE upc[Tester] = "wait" /\ Reaped ->
              /\ n' = n - 1
              /\ upc' = [upc EXCEPT ![Tester] = IF n - 1 > 0 THEN "wait"
                                                ELSE "last"]
         [] upc[Tester] = "wait" ->
              upc' = [upc EXCEPT ![Tester] = "early"] /\ UNCHANGED n
         [] Reaped ->
              upc' = [upc EXCEPT ![Tester] = "toomany"] /\ UNCHANGED n
         [] OTHER ->
              upc' = [upc EXCEPT ![Tester] = "ok"] /\ UNCHANGED n

\* wait(NULL) from the tester's loops, or its scan resumed after a wakeup.
TesterWait ==
  /\ upc[Tester] \in {"wait", "last"}
  /\ \/ P!Wait(Tester)
     \/ pc[Tester] = "wait_sleep" /\ P!Resume(Tester)
  /\ TesterWaitResult

\* main() after forktest(), and every failure branch: exit.
TesterExit ==
  /\ upc[Tester] \in Failures \cup {"ok"}
  /\ P!SysExit(Tester)
  /\ UNCHANGED progvars

\* A child: fork returned 0, exit(EXIT_SUCCESS).
ChildExit(c) ==
  /\ upc[c] = "child"
  /\ P!SysExit(c)
  /\ UNCHANGED progvars

\* init's loop: wait(), or its scan resumed after a wakeup.
InitWait ==
  /\ \/ P!Wait(P!initproc)
     \/ pc[P!initproc] = "wait_sleep" /\ P!Resume(P!initproc)
  /\ UNCHANGED progvars

\* The kernel steps no program chooses: the schedulers, the timer's yield,
\* and a process resuming anywhere but in wait().
Kernel ==
  /\ \/ \E c \in P!CPUS : P!Schedule(c)
     \/ \E p \in P!Procs : P!Yield(p)
     \/ \E p \in P!Procs : pc[p] # "wait_sleep" /\ P!Resume(p)
  /\ UNCHANGED progvars

Next ==
  \/ TesterFork \/ TesterForkNoSlot
  \/ TesterForkFails(P!ForkKstack(Tester))
  \/ TesterForkFails(P!ForkCopy(Tester))
  \/ TesterForkRun \/ TesterWait \/ TesterExit
  \/ \E c \in P!Procs : ChildExit(c)
  \/ InitWait \/ Kernel

Spec == Init /\ [][Next]_vars

(***************************************************************************)
(* Proc's fairness, carried to the composed steps: each CPU's scheduler    *)
(* and the timer's yield are taken when the lock is free again and again,  *)
(* a hand-off completes, and a process in user mode goes on with its       *)
(* program (its next system call needs ptable.lock too, and the lock-free  *)
(* middle of fork needs its CPU back after every yield: strong fairness).  *)
(***************************************************************************)
FairSpec ==
  /\ Spec
  /\ \A c \in P!CPUS : SF_vars(P!Schedule(c) /\ UNCHANGED progvars)
  /\ \A p \in P!Procs :
       /\ SF_vars(P!Yield(p) /\ UNCHANGED progvars)
       /\ WF_vars(pc[p] # "wait_sleep" /\ P!Resume(p) /\ UNCHANGED progvars)
       /\ SF_vars(ChildExit(p))
  /\ SF_vars(TesterFork \/ TesterForkNoSlot \/ TesterForkRun)
  /\ SF_vars(TesterForkFails(P!ForkKstack(Tester)))
  /\ SF_vars(TesterForkFails(P!ForkCopy(Tester)))
  /\ SF_vars(TesterWait) /\ SF_vars(TesterExit) /\ SF_vars(InitWait)

-----------------------------------------------------------------------------
(***************************************************************************)
(* forktest never prints one of its failure messages: fork() stops        *)
(* succeeding before N forks, and wait() returns a pid exactly n times and *)
(* then -1.  It takes fork's slot accounting (a failed allocproc, kalloc   *)
(* or copyuvm leaves no child behind), exit()'s ZOMBIE and wakeup of the   *)
(* parent, and wait()'s havekids scan over every slot to agree with the   *)
(* program's count, through every interleaving with the scheduler on the  *)
(* other CPU and with init.                                                *)
(***************************************************************************)
ForkTestVerdict == upc[Tester] \notin Failures

(***************************************************************************)
(* forktest ends with "fork test OK" and the table is emptied again: every *)
(* child is reaped by the tester, the tester by init, and no slot is left  *)
(* EMBRYO, ZOMBIE or asleep ("fork fails gracefully").  A lost wakeup, a  *)
(* child the tester's wait() counts but can never reap, or a fork that     *)
(* never returns, each leaves the run short of this.                       *)
(***************************************************************************)
ForkTestCompletes ==
  <>(/\ upc[Tester] = "ok"
     /\ \A q \in P!Procs \ {P!initproc} : state[q] = "UNUSED")


=============================================================================
