-------------------------------- MODULE Proc --------------------------------
(***************************************************************************)
(* The process table, lifecycle, scheduler and synchronisation primitives  *)
(* of src/xv6/proc.c, with the trap paths of src/xv6/trap.c that enter     *)
(* them (timer yield, exit of a killed process).                           *)
(*                                                                         *)
(* Every critical section under ptable.lock that the code enters and       *)
(* leaves on the same CPU is one atomic action: the lock serialises them,  *)
(* so splitting them would only add interleavings equivalent to these.     *)
(* What is not atomic is kept apart: the lock-free middle of fork()        *)
(* (allocproc's kstack allocation, copyuvm), during which the EMBRYO slot  *)
(* is visible to kill() and setprio() on other CPUs, and the hand-off of   *)
(* ptable.lock across swtch(): scheduler() acquires it and the process it  *)
(* switches to releases it (variable lock), while a process that calls     *)
(* sched() leaves the release to scheduler().                              *)
(***************************************************************************)
EXTENDS Naturals, Sequences, FiniteSets

CONSTANTS
  NPROC,    \* number of slots of ptable.proc
  NCPU,     \* number of processors, each running scheduler()
  MaxPid    \* bound: allocproc is not taken once nextpid exceeds it

Procs == 1..NPROC
CPUS  == 1..NCPU
NULL  == 0            \* null struct proc *, also the empty channel
NOCPU == 0            \* ptable.lock not held across a context switch

HI_PRIO   == 0        \* enum proc_prio; a zeroed slot has HI_PRIO
NORM_PRIO == 1
Prios == {HI_PRIO, NORM_PRIO}

initproc == 1         \* userinit() takes the first slot of the empty table
Pids == 0..MaxPid     \* pid arguments a user process may pass

RQ == INSTANCE ReadyQueue

VARIABLES
  state, pid, parent, priority, killed, chan,  \* fields of struct proc
  next, previous,   \* queue linkage of each slot
  queue,            \* ptable.queue[prio], the head of each ready queue
  nextpid,
  cpuproc,          \* c->proc of each CPU, NULL while in scheduler()
  lock,             \* CPU whose scheduler() hand-off holds ptable.lock
  pc,               \* where the kernel thread of each slot resumes
  np,               \* fork()'s local np, for a process inside fork()
  panicked          \* "none", or the message of the panic that halted

vars == <<state, pid, parent, priority, killed, chan, next, previous, queue,
          nextpid, cpuproc, lock, pc, np, panicked>>

States == {"UNUSED", "EMBRYO", "SLEEPING", "RUNNABLE", "RUNNING", "ZOMBIE"}
PCs == {"none", "forkret", "user", "fork_kstack", "fork_copy", "fork_run",
        "wait_sleep"}

-----------------------------------------------------------------------------
\* The queue fields viewed as one ReadyQueue record, and written back.
Lists == [next |-> next, previous |-> previous, head |-> queue,
          err |-> RQ!NoError]

StoreLists(L) ==
  /\ next' = L.next
  /\ previous' = L.previous
  /\ queue' = L.head
  /\ panicked' = IF L.err = RQ!NoError THEN panicked ELSE L.err

OnCpu(p) == \E c \in CPUS : cpuproc[c] = p
CpuOf(p) == CHOOSE c \in CPUS : cpuproc[c] = p
MinOf(S) == CHOOSE x \in S : \A y \in S : x <= y

\* The slots in table order, as the for(p = ptable.proc; ...) loops visit them.
TableOrder == [i \in 1..NPROC |-> i]

\* p is executing kernel or user code on a CPU that does not hold the lock
\* across a switch (the hand-off case is Resume).
Exec(p) == /\ panicked = "none"
           /\ OnCpu(p)
           /\ lock # CpuOf(p)

\* ... and acquire(&ptable.lock) succeeds at once: the critical section runs.
Acquire(p) == Exec(p) /\ lock = NOCPU

\* Mutant: scheduler() does not release ptable.lock after a process returns.
LeaveCpuKeepsLock(p) == /\ cpuproc' = [cpuproc EXCEPT ![CpuOf(p)] = NULL]
                        /\ lock' = CpuOf(p)

\* sched() from p: swtch to scheduler(), which clears c->proc and releases.
LeaveCpu(p) == /\ cpuproc' = [cpuproc EXCEPT ![CpuOf(p)] = NULL]
               /\ lock' = NOCPU

(***************************************************************************)
(* wakeup1(chan) applied to a state function st and lists L: every slot    *)
(* SLEEPING on ch, in table order, becomes RUNNABLE and is enqueued.       *)
(***************************************************************************)
Woken(st, ch) == SelectSeq(TableOrder,
                           LAMBDA q : st[q] = "SLEEPING" /\ chan[q] = ch)

Wakeup1State(st, ch) ==
  LET w == Woken(st, ch)
  IN  [q \in Procs |-> IF \E i \in 1..Len(w) : w[i] = q THEN "RUNNABLE"
                       ELSE st[q]]

Wakeup1Lists(st, L, ch) == RQ!EnqueueAll(L, Woken(st, ch), priority)

-----------------------------------------------------------------------------
(***************************************************************************)
(* Initial state: ptable zeroed, then userinit(): allocproc gives slot 1   *)
(* pid 1 with its context set to return through forkret, and it is made    *)
(* RUNNABLE at NORM_PRIO and enqueued.  No CPU runs a process yet.         *)
(***************************************************************************)
InitLists == RQ!Enqueue(RQ!EmptyLists, initproc, NORM_PRIO)

Init ==
  /\ state = [p \in Procs |-> IF p = initproc THEN "RUNNABLE" ELSE "UNUSED"]
  /\ pid = [p \in Procs |-> IF p = initproc THEN 1 ELSE 0]
  /\ parent = [p \in Procs |-> NULL]
  /\ priority = [p \in Procs |-> IF p = initproc THEN NORM_PRIO ELSE HI_PRIO]
  /\ killed = [p \in Procs |-> FALSE]
  /\ chan = [p \in Procs |-> NULL]
  /\ next = InitLists.next
  /\ previous = InitLists.previous
  /\ queue = InitLists.head
  /\ nextpid = 2
  /\ cpuproc = [c \in CPUS |-> NULL]
  /\ lock = NOCPU
  /\ pc = [p \in Procs |-> IF p = initproc THEN "forkret" ELSE "none"]
  /\ np = [p \in Procs |-> NULL]
  /\ panicked = "none"

-----------------------------------------------------------------------------
(***************************************************************************)
(* fork(), first part: allocproc()'s critical section takes the first     *)
(* UNUSED slot, makes it EMBRYO with pid nextpid++ and a context that will *)
(* start in forkret.  A full table makes fork return -1 with nothing      *)
(* changed, which is not an action.                                        *)
(***************************************************************************)
ForkAlloc(p) ==
  /\ Acquire(p)
  /\ pc[p] = "user"
  /\ ~killed[p]
  /\ nextpid <= MaxPid
  /\ \E q \in Procs : state[q] = "UNUSED"
  /\ LET n == MinOf({q \in Procs : state[q] = "UNUSED"})
     IN  /\ state' = [state EXCEPT ![n] = "EMBRYO"]
         /\ pid' = [pid EXCEPT ![n] = nextpid]
         /\ pc' = [pc EXCEPT ![p] = "fork_kstack", ![n] = "forkret"]
         /\ np' = [np EXCEPT ![p] = n]
  /\ nextpid' = nextpid + 1
  /\ UNCHANGED <<parent, priority, killed, chan, next, previous, queue,
                 cpuproc, lock, panicked>>

\* Mutant: a failed kalloc() returns 0 without setting p->state = UNUSED.
ForkKstackNoFree(p) ==
  /\ Exec(p)
  /\ pc[p] = "fork_kstack"
  /\ \/ /\ pc' = [pc EXCEPT ![p] = "user", ![np[p]] = "none"]
        /\ np' = [np EXCEPT ![p] = NULL]
     \/ /\ pc' = [pc EXCEPT ![p] = "fork_copy"]
        /\ UNCHANGED np
  /\ UNCHANGED <<state, pid, parent, priority, killed, chan, next, previous,
                 queue, nextpid, cpuproc, lock, panicked>>

\* allocproc() after releasing the lock: kalloc() of the kernel stack may
\* fail, and then the slot goes back to UNUSED (without the lock, and with
\* its pid and killed flag left as they are) and fork returns -1.
ForkKstack(p) ==
  /\ Exec(p)
  /\ pc[p] = "fork_kstack"
  /\ \/ /\ state' = [state EXCEPT ![np[p]] = "UNUSED"]
        /\ pc' = [pc EXCEPT ![p] = "user", ![np[p]] = "none"]
        /\ np' = [np EXCEPT ![p] = NULL]
     \/ /\ pc' = [pc EXCEPT ![p] = "fork_copy"]
        /\ UNCHANGED <<state, np>>
  /\ UNCHANGED <<pid, parent, priority, killed, chan, next, previous, queue,
                 nextpid, cpuproc, lock, panicked>>

\* fork() without the lock: copyuvm() may fail, freeing the slot as above;
\* otherwise np->parent = curproc and the rest of the image is copied.
ForkCopy(p) ==
  /\ Exec(p)
  /\ pc[p] = "fork_copy"
  /\ \/ /\ state' = [state EXCEPT ![np[p]] = "UNUSED"]
        /\ pc' = [pc EXCEPT ![p] = "user", ![np[p]] = "none"]
        /\ np' = [np EXCEPT ![p] = NULL]
        /\ UNCHANGED parent
     \/ /\ parent' = [parent EXCEPT ![np[p]] = p]
        /\ pc' = [pc EXCEPT ![p] = "fork_run"]
        /\ UNCHANGED <<state, np>>
  /\ UNCHANGED <<pid, priority, killed, chan, next, previous, queue,
                 nextpid, cpuproc, lock, panicked>>

\* fork()'s last critical section: the child becomes RUNNABLE, inherits
\* np->parent->priority and is enqueued at it.
ForkRun(p) ==
  /\ Acquire(p)
  /\ pc[p] = "fork_run"
  /\ LET n    == np[p]
         prio == priority[parent[n]]
     IN  /\ state' = [state EXCEPT ![n] = "RUNNABLE"]
         /\ priority' = [priority EXCEPT ![n] = prio]
         /\ StoreLists(RQ!Enqueue(Lists, n, prio))
  /\ pc' = [pc EXCEPT ![p] = "user"]
  /\ np' = [np EXCEPT ![p] = NULL]
  /\ UNCHANGED <<pid, parent, killed, chan, nextpid, cpuproc, lock>>

-----------------------------------------------------------------------------
(***************************************************************************)
(* exit(): init exiting panics.  Otherwise, under the lock: wake the      *)
(* parent, hand every child to init (waking init if one of them is a      *)
(* ZOMBIE), become ZOMBIE and sched() away for good.                      *)
(***************************************************************************)
\* Mutant: exit() forgets wakeup1(curproc->parent).
ExitBodyNoParentWakeup(p) ==
  IF p = initproc
  THEN /\ panicked' = "init exiting"
       /\ UNCHANGED <<state, pid, parent, priority, killed, chan, next,
                      previous, queue, nextpid, cpuproc, lock, pc, np>>
  ELSE LET orphanZombie == \E q \in Procs : parent[q] = p /\ state[q] = "ZOMBIE"
           st2 == IF orphanZombie THEN Wakeup1State(state, initproc) ELSE state
           L2  == IF orphanZombie THEN Wakeup1Lists(state, Lists, initproc)
                  ELSE Lists
       IN  /\ parent' = [q \in Procs |-> IF parent[q] = p THEN initproc
                                         ELSE parent[q]]
           /\ state' = [st2 EXCEPT ![p] = "ZOMBIE"]
           /\ StoreLists(L2)
           /\ pc' = [pc EXCEPT ![p] = "none"]
           /\ LeaveCpu(p)
           /\ UNCHANGED <<pid, priority, killed, chan, nextpid, np>>

\* Mutant: exit() does not pass its children to init.
ExitBodyNoReparent(p) ==
  IF p = initproc
  THEN /\ panicked' = "init exiting"
       /\ UNCHANGED <<state, pid, parent, priority, killed, chan, next,
                      previous, queue, nextpid, cpuproc, lock, pc, np>>
  ELSE /\ state' = [Wakeup1State(state, parent[p]) EXCEPT ![p] = "ZOMBIE"]
       /\ StoreLists(Wakeup1Lists(state, Lists, parent[p]))
       /\ pc' = [pc EXCEPT ![p] = "none"]
       /\ LeaveCpu(p)
       /\ UNCHANGED <<parent, pid, priority, killed, chan, nextpid, np>>

ExitBody(p) ==
  IF p = initproc
  THEN /\ panicked' = "init exiting"
       /\ UNCHANGED <<state, pid, parent, priority, killed, chan, next,
                      previous, queue, nextpid, cpuproc, lock, pc, np>>
  ELSE LET st1 == Wakeup1State(state, parent[p])
           L1  == Wakeup1Lists(state, Lists, parent[p])
           orphanZombie == \E q \in Procs : parent[q] = p /\ st1[q] = "ZOMBIE"
           st2 == IF orphanZombie THEN Wakeup1State(st1, initproc) ELSE st1
           L2  == IF orphanZombie THEN Wakeup1Lists(st1, L1, initproc) ELSE L1
       IN  /\ parent' = [q \in Procs |-> IF parent[q] = p THEN initproc
                                         ELSE parent[q]]
           /\ state' = [st2 EXCEPT ![p] = "ZOMBIE"]
           /\ StoreLists(L2)
           /\ pc' = [pc EXCEPT ![p] = "none"]
           /\ LeaveCpu(p)
           /\ UNCHANGED <<pid, priority, killed, chan, nextpid, np>>

\* sys_exit(): a user process other than init (whose program never exits).
SysExit(p) ==
  /\ Acquire(p)
  /\ pc[p] = "user"
  /\ ~killed[p]
  /\ p # initproc
  /\ ExitBody(p)

\* trap(): a killed process returning to, or trapping from, user mode
\* is made to exit(tf->trapno + 1).
KilledExit(p) ==
  /\ Acquire(p)
  /\ pc[p] = "user"
  /\ killed[p]
  /\ ExitBody(p)

-----------------------------------------------------------------------------
(***************************************************************************)
(* wait(): scan the table for children of p.  Reap the first ZOMBIE one   *)
(* (clearing pid, parent, killed, priority and links, state UNUSED);      *)
(* with no children, or when killed, return -1; otherwise                 *)
(* sleep(curproc, &ptable.lock) and scan again when woken.  WaitScan is   *)
(* one pass with ptable.lock held; every outcome ends the hold.           *)
(***************************************************************************)
\* Mutant: the reaped slot's priority is reset to NUM_PRIO, one past the
\* last level.
ReapPastLastPrio(z) ==
  /\ state' = [state EXCEPT ![z] = "UNUSED"]
  /\ pid' = [pid EXCEPT ![z] = 0]
  /\ parent' = [parent EXCEPT ![z] = NULL]
  /\ killed' = [killed EXCEPT ![z] = FALSE]
  /\ priority' = [priority EXCEPT ![z] = NORM_PRIO + 1]
  /\ next' = [next EXCEPT ![z] = NULL]
  /\ previous' = [previous EXCEPT ![z] = NULL]

\* Freeing the zombie child z: the slot becomes UNUSED with pid 0, no
\* parent, not killed, priority HI_PRIO and no links.
Reap(z) ==
  /\ state' = [state EXCEPT ![z] = "UNUSED"]
  /\ pid' = [pid EXCEPT ![z] = 0]
  /\ parent' = [parent EXCEPT ![z] = NULL]
  /\ killed' = [killed EXCEPT ![z] = FALSE]
  /\ priority' = [priority EXCEPT ![z] = HI_PRIO]
  /\ next' = [next EXCEPT ![z] = NULL]
  /\ previous' = [previous EXCEPT ![z] = NULL]

WaitScan(p) ==
  LET kids    == {q \in Procs : parent[q] = p}
      zombies == {q \in kids : state[q] = "ZOMBIE"}
      z       == MinOf(zombies)
  IN  \/ /\ zombies # {}
         /\ Reap(z)
         /\ chan' = [chan EXCEPT ![p] = NULL]
         /\ pc' = [pc EXCEPT ![p] = "user"]
         /\ lock' = NOCPU
         /\ UNCHANGED <<queue, cpuproc>>
      \/ /\ zombies = {}
         /\ kids = {} \/ killed[p]
         /\ chan' = [chan EXCEPT ![p] = NULL]
         /\ pc' = [pc EXCEPT ![p] = "user"]
         /\ lock' = NOCPU
         /\ UNCHANGED <<state, pid, parent, killed, priority, next, previous,
                        queue, cpuproc>>
      \/ /\ zombies = {}
         /\ kids # {} /\ ~killed[p]
         /\ chan' = [chan EXCEPT ![p] = p]
         /\ state' = [state EXCEPT ![p] = "SLEEPING"]
         /\ pc' = [pc EXCEPT ![p] = "wait_sleep"]
         /\ LeaveCpu(p)
         /\ UNCHANGED <<pid, parent, killed, priority, next, previous, queue>>

\* sys_wait() from user mode.  A kill may land between the trap's check of
\* killed and the acquire, so the scan may already see killed set.
Wait(p) ==
  /\ Acquire(p)
  /\ pc[p] = "user"
  /\ WaitScan(p)
  /\ UNCHANGED <<nextpid, np, panicked>>

-----------------------------------------------------------------------------
(***************************************************************************)
(* scheduler() on CPU c: with ptable.lock acquired, pick the head of the  *)
(* HI_PRIO queue, else of the NORM_PRIO queue; mark it RUNNING, dequeue   *)
(* it and swtch to it, still holding the lock.  With both queues empty    *)
(* the loop releases the lock and spins, which changes nothing.           *)
(***************************************************************************)
\* Mutant: the scheduler looks at the NORM_PRIO queue first.
ScheduleNormFirst(c) ==
  /\ panicked = "none"
  /\ lock = NOCPU
  /\ cpuproc[c] = NULL
  /\ queue[HI_PRIO] # NULL \/ queue[NORM_PRIO] # NULL
  /\ LET p == IF queue[NORM_PRIO] # NULL THEN queue[NORM_PRIO]
              ELSE queue[HI_PRIO]
     IN  /\ cpuproc' = [cpuproc EXCEPT ![c] = p]
         /\ state' = [state EXCEPT ![p] = "RUNNING"]
         /\ StoreLists(RQ!Dequeue(Lists, p, priority[p]))
  /\ lock' = c
  /\ UNCHANGED <<pid, parent, priority, killed, chan, nextpid, pc, np>>

Schedule(c) ==
  /\ panicked = "none"
  /\ lock = NOCPU
  /\ cpuproc[c] = NULL
  /\ queue[HI_PRIO] # NULL \/ queue[NORM_PRIO] # NULL
  /\ LET p == IF queue[HI_PRIO] # NULL THEN queue[HI_PRIO]
              ELSE queue[NORM_PRIO]
     IN  /\ cpuproc' = [cpuproc EXCEPT ![c] = p]
         /\ state' = [state EXCEPT ![p] = "RUNNING"]
         /\ StoreLists(RQ!Dequeue(Lists, p, priority[p]))
  /\ lock' = c
  /\ UNCHANGED <<pid, parent, priority, killed, chan, nextpid, pc, np>>

(***************************************************************************)
(* The process switched to runs on with the lock scheduler() took: after  *)
(* sched() in yield() or at forkret() it releases it; after sched() in    *)
(* sleep() called from wait() it clears chan and scans again.             *)
(***************************************************************************)
Resume(p) ==
  /\ panicked = "none"
  /\ OnCpu(p)
  /\ lock = CpuOf(p)
  /\ \/ /\ pc[p] \in {"user", "forkret", "fork_kstack", "fork_copy",
                      "fork_run"}
        /\ pc' = [pc EXCEPT ![p] = IF pc[p] = "forkret" THEN "user"
                                   ELSE pc[p]]
        /\ lock' = NOCPU
        /\ UNCHANGED <<state, pid, parent, killed, priority, chan, next,
                       previous, queue, cpuproc>>
     \/ /\ pc[p] = "wait_sleep"
        /\ WaitScan(p)
  /\ UNCHANGED <<nextpid, np, panicked>>

\* trap() on a timer tick while p is RUNNING with interrupts enabled (in
\* user mode, or in the lock-free part of fork): yield() makes p RUNNABLE,
\* enqueues it and calls sched().  A killed process in user mode exits
\* first instead (KilledExit).
Yield(p) ==
  /\ Acquire(p)
  /\ pc[p] \in {"user", "fork_kstack", "fork_copy", "fork_run"}
  /\ pc[p] = "user" => ~killed[p]
  /\ state' = [state EXCEPT ![p] = "RUNNABLE"]
  /\ StoreLists(RQ!Enqueue(Lists, p, priority[p]))
  /\ LeaveCpu(p)
  /\ UNCHANGED <<pid, parent, priority, killed, chan, nextpid, pc, np>>

-----------------------------------------------------------------------------
(***************************************************************************)
(* kill(k): the first slot whose pid is k, whatever its state, gets       *)
(* killed = 1 and, if SLEEPING, is made RUNNABLE and enqueued.  No match  *)
(* returns -1 and changes nothing.                                        *)
(***************************************************************************)
Kill(p, k) ==
  /\ Acquire(p)
  /\ pc[p] = "user"
  /\ ~killed[p]
  /\ \E q \in Procs : pid[q] = k
  /\ LET q == MinOf({s \in Procs : pid[s] = k})
     IN  /\ killed' = [killed EXCEPT ![q] = TRUE]
         /\ IF state[q] = "SLEEPING"
            THEN /\ state' = [state EXCEPT ![q] = "RUNNABLE"]
                 /\ StoreLists(RQ!Enqueue(Lists, q, priority[q]))
            ELSE UNCHANGED <<state, next, previous, queue, panicked>>
  /\ UNCHANGED <<pid, parent, priority, chan, nextpid, cpuproc, lock, pc, np>>

(***************************************************************************)
(* setprio(k, pr): the first slot with pid k that is not UNUSED gets      *)
(* priority pr; if it is RUNNABLE it is dequeued at the old priority and  *)
(* enqueued at the new one within the same critical section.  An invalid *)
(* pr, an unknown pid or an unchanged priority change nothing.            *)
(***************************************************************************)
\* Mutant: setprio() updates the field without moving a RUNNABLE slot.
SetPrioNoRequeue(p, k, pr) ==
  /\ Acquire(p)
  /\ pc[p] = "user"
  /\ ~killed[p]
  /\ \E q \in Procs : pid[q] = k /\ state[q] # "UNUSED"
  /\ LET q == MinOf({s \in Procs : pid[s] = k /\ state[s] # "UNUSED"})
     IN  /\ priority[q] # pr
         /\ priority' = [priority EXCEPT ![q] = pr]
  /\ UNCHANGED <<state, pid, parent, killed, chan, next, previous, queue,
                 nextpid, cpuproc, lock, pc, np, panicked>>

SetPrio(p, k, pr) ==
  /\ Acquire(p)
  /\ pc[p] = "user"
  /\ ~killed[p]
  /\ \E q \in Procs : pid[q] = k /\ state[q] # "UNUSED"
  /\ LET q == MinOf({s \in Procs : pid[s] = k /\ state[s] # "UNUSED"})
     IN  /\ priority[q] # pr
         /\ priority' = [priority EXCEPT ![q] = pr]
         /\ IF state[q] = "RUNNABLE"
            THEN StoreLists(RQ!Enqueue(RQ!Dequeue(Lists, q, priority[q]),
                                       q, pr))
            ELSE UNCHANGED <<next, previous, queue, panicked>>
  /\ UNCHANGED <<state, pid, parent, killed, chan, nextpid, cpuproc, lock,
                 pc, np>>

-----------------------------------------------------------------------------
Next ==
  \/ \E c \in CPUS : Schedule(c)
  \/ \E p \in Procs :
       \/ ForkAlloc(p) \/ ForkKstack(p) \/ ForkCopy(p) \/ ForkRun(p)
       \/ SysExit(p) \/ KilledExit(p) \/ Wait(p)
       \/ Resume(p) \/ Yield(p)
       \/ \E k \in Pids : Kill(p, k)
       \/ \E k \in Pids, pr \in Prios : SetPrio(p, k, pr)

Spec == Init /\ [][Next]_vars

(***************************************************************************)
(* The timer interrupt makes every process on a CPU yield (or exit, if it  *)
(* was killed) and each CPU runs scheduler()'s loop forever.  Both need    *)
(* ptable.lock, which other CPUs take and release again and again: the     *)
(* fairness is strong, as acquire() on a lock that is free again and again *)
(* eventually succeeds.  A hand-off from scheduler() always completes.     *)
(***************************************************************************)
FairSpec ==
  /\ Spec
  /\ \A c \in CPUS : SF_vars(Schedule(c))
  /\ \A p \in Procs : SF_vars(Yield(p)) /\ SF_vars(KilledExit(p))
                     /\ WF_vars(Resume(p))

-----------------------------------------------------------------------------
TypeOK ==
  /\ state \in [Procs -> States]
  /\ pid \in [Procs -> 0..MaxPid]
  /\ parent \in [Procs -> Procs \cup {NULL}]
  /\ priority \in [Procs -> Prios]
  /\ killed \in [Procs -> BOOLEAN]
  /\ chan \in [Procs -> Procs \cup {NULL}]
  /\ next \in [Procs -> Procs \cup {NULL}]
  /\ previous \in [Procs -> Procs \cup {NULL}]
  /\ queue \in [Prios -> Procs \cup {NULL}]
  /\ nextpid \in 2..MaxPid + 1
  /\ cpuproc \in [CPUS -> Procs \cup {NULL}]
  /\ lock \in CPUS \cup {NOCPU}
  /\ pc \in [Procs -> PCs]
  /\ np \in [Procs -> Procs \cup {NULL}]

Queued == RQ!Members(Lists, HI_PRIO) \cup RQ!Members(Lists, NORM_PRIO)

(***************************************************************************)
(* The ready queues stay consistent through every interleaving of fork,   *)
(* exit, wait, kill, setprio, yield and the schedulers: no enqueue or      *)
(* dequeue check ever panics, both lists are closed circles whose previous *)
(* links mirror next, a slot is on a list iff it is RUNNABLE (spec.md §3   *)
(* invariants 1-2), it is on the list of its own priority (setprio must    *)
(* move it), and a slot on no list has both links NULL.                    *)
(***************************************************************************)
ReadyQueuesConsistent ==
  /\ panicked \in {"none", "init exiting"}
  /\ \A q \in Prios : RQ!WellFormed(Lists, q)
  /\ \A p \in Procs : p \in Queued <=> state[p] = "RUNNABLE"
  /\ \A p \in Queued : p \in RQ!Members(Lists, priority[p])
  /\ \A p \in Procs \ Queued : next[p] = NULL /\ previous[p] = NULL

(***************************************************************************)
(* No process is left asleep when it has a reason to run: a SLEEPING slot  *)
(* is never killed (kill() wakes it, and wait() checks killed before it    *)
(* sleeps), and a parent sleeping in wait() on its own slot never has a    *)
(* ZOMBIE child: exit() wakes the parent in the same critical section that *)
(* makes the child a ZOMBIE, and wakes init for orphans that are already   *)
(* ZOMBIEs.  A lost wakeup here would leave the parent asleep for good.    *)
(***************************************************************************)
SleepersHaveCause ==
  \A p \in Procs :
    state[p] = "SLEEPING" =>
      /\ ~killed[p]
      /\ chan[p] = p => ~\E q \in Procs : parent[q] = p /\ state[q] = "ZOMBIE"

(***************************************************************************)
(* Every process other than init that has left EMBRYO has a parent that is *)
(* alive (not UNUSED, EMBRYO or ZOMBIE): exit() hands the children of the  *)
(* exiting process to init before it becomes a ZOMBIE, and wait() frees a *)
(* slot only once it is a ZOMBIE, so the weak parent pointer never points  *)
(* at a dead or recycled slot.                                             *)
(***************************************************************************)
ParentsAlive ==
  \A q \in Procs \ {initproc} :
    state[q] \in {"SLEEPING", "RUNNABLE", "RUNNING", "ZOMBIE"} =>
      /\ parent[q] \in Procs \ {q}
      /\ state[parent[q]] \in {"SLEEPING", "RUNNABLE", "RUNNING"}

(***************************************************************************)
(* The kernel only stops on a panic: in every other state some CPU can    *)
(* make progress.  The scheduler loops hand ptable.lock to the process    *)
(* they switch to and get it back through sched(), and a process asleep   *)
(* in wait() always has a live child that can still exit, so no state of  *)
(* the table leaves every CPU spinning with nothing to run while the lock *)
(* or a hand-off is stuck.  (Deadlock checking is off only because a      *)
(* panicked kernel does stop.)                                            *)
(***************************************************************************)
StopsOnlyOnPanic == panicked = "none" => ENABLED Next

(***************************************************************************)
(* Refinement: the intrusive lists, read by walking next from each head,   *)
(* behave as the FIFO queues of PrioQueues, with the RUNNING slots as its  *)
(* running set.  This says that enqueue only appends at the tail, dequeue  *)
(* removes exactly the slot asked for, scheduler() dispatches the head of  *)
(* HI_PRIO before any NORM_PRIO slot, and setprio() moves a RUNNABLE slot  *)
(* to the tail of its new queue.                                           *)
(***************************************************************************)
Abs == INSTANCE PrioQueues
         WITH rq      <- [q \in Prios |-> RQ!Walk(Lists, q)],
              running <- {p \in Procs : state[p] = "RUNNING"},
              prio    <- priority,
              HI      <- HI_PRIO,
              NORM    <- NORM_PRIO

ImplementsPrioQueues == Abs!Spec

(***************************************************************************)
(* A RUNNABLE HI_PRIO process is eventually dispatched (unless its         *)
(* priority is changed first or the kernel panics): scheduler() takes the  *)
(* head of HI_PRIO first, enqueue appends at the tail, and the processes   *)
(* ahead of it leave the CPUs at the next tick.                            *)
(***************************************************************************)
HiPrioDispatched ==
  \A p \in Procs :
     (state[p] = "RUNNABLE" /\ priority[p] = HI_PRIO)
       ~> (state[p] # "RUNNABLE" \/ priority[p] # HI_PRIO \/ panicked # "none")

-----------------------------------------------------------------------------
(* Statements of spec.md that the code does not keep (violation runs).     *)

(***************************************************************************)
(* A process is born unkilled: when allocproc() turns an UNUSED slot into  *)
(* an EMBRYO, its killed flag is clear.  kill() matches pid against every *)
(* slot, UNUSED ones included, and only wait() clears killed, so kill(0)  *)
(* (or kill of a pid whose fork failed) marks a free slot and the next     *)
(* fork() that takes it creates a child that dies at its first trap.       *)
(***************************************************************************)
FreshProcNotKilled ==
  [][\A p \in Procs :
       state[p] = "UNUSED" /\ state'[p] = "EMBRYO" => ~killed'[p]]_vars

(***************************************************************************)
(* spec.md §3, invariant 3: a free slot has no pid, no parent, the default *)
(* priority and no queue links.  allocproc() and fork() free a slot on a  *)
(* kalloc() or copyuvm() failure by setting state = UNUSED only, keeping  *)
(* the pid nextpid++ gave it.                                              *)
(***************************************************************************)
FreeSlotsClean ==
  \A p \in Procs :
    state[p] = "UNUSED" =>
      /\ pid[p] = 0
      /\ parent[p] = NULL
      /\ priority[p] = HI_PRIO
      /\ next[p] = NULL /\ previous[p] = NULL

(***************************************************************************)
(* The kernel never panics with "init exiting" (spec.md §7 lists it as a   *)
(* fatal condition, §4.4 lets kill() target any live pid).  kill(1) from  *)
(* any process sets init's killed flag, and trap() then makes init exit.  *)
(***************************************************************************)
InitNeverExits == panicked # "init exiting"

=============================================================================
