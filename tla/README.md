# TLA+ models of syson

This directory holds TLA+ models of the xv6 kernel extensions in `src/xv6`
(priority scheduling, exit status, lazy allocation) and of the system-call
exercises in `src/syscalls`, the TLC configurations that check them, and
`PROJECT.json`, which names for each definition the source lines it models.

## 1. The system

### Components and their state

| Component | Source | State it keeps | Operations that change it |
|---|---|---|---|
| Process table | `proc.c` (`ptable`, `allocproc`, `userinit`) | per slot: `state`, `pid`, `parent`, `priority`, `killed`, `chan`, `next`, `previous`; `nextpid` | allocproc, userinit, fork failure paths, wait's reap |
| Priority ready queues | `proc.c` `enqueue`, `dequeue` | `ptable.queue[HI_PRIO]`, `ptable.queue[NORM_PRIO]`: heads of circular doubly-linked lists threaded through `next`/`previous` | enqueue, dequeue (each with panic paths) |
| Lifecycle | `proc.c` `fork`, `exit`, `wait`; `sysproc.c` `sys_exit`, `sys_wait` | the table above | fork (allocproc, kstack, copyuvm, RUNNABLE), exit (reparent, wake parent, ZOMBIE, sched), wait (reap, return -1, sleep) |
| Scheduler | `proc.c` `scheduler`, `sched`, `yield`, `forkret` | `cpu->proc`, ptable.lock holder | scheduler dispatch, sched, yield, forkret |
| Sleep/wakeup, kill, priorities | `proc.c` `sleep`, `wakeup1`, `kill`, `setprio`, `getprio` | `chan`, `killed`, `priority`, queues | wakeup1 (enqueue every sleeper on chan), kill (mark, wake), setprio (requeue) |
| Trap dispatch | `trap.c` `trap` | `ticks`, page tables, `killed` | timer tick and yield, exit of killed processes with status `trapno+1`, the page-fault handler, the default case that kills |
| User memory | `sysproc.c` `sys_sbrk`, `proc.c` `growproc`, `trap.c` `T_PGFLT` | `p->sz`, the page table | sbrk raises `sz` without allocating or shrinks through growproc/deallocuvm; a fault below `sz` maps a zeroed page |
| Exit status | `sysproc.c` `sys_exit`, `trap.c`, `user/user.h` macros | the int status | `status<<8`, `trapno+1`, WIFEXITED/WEXITSTATUS/WEXITTRAP |
| exec_lines | `src/syscalls/exec_lines.c` | read buffer, line buffer, `process_count` | read_line, build_argv, fork/exec throttled by `-p` |
| merge_files | `src/syscalls/merge_files.c` | the configuration, per-file buffers | validation of the command line, round-robin copy of one line from each file |
| merge_tee_exec | `src/syscalls/merge_tee_exec.c` | two pipes, three children | pipe/fork/dup2/close, wait for the children |
| forktest | `src/xv6/user/forktest.c` | the loop counter `n` | fork until it fails, wait `n` times, wait once more |

### How they interact

All of `proc.c` runs under the single spinlock `ptable.lock`.  The lock is
handed across `swtch`: `scheduler()` acquires it and switches to a process
still holding it, and the process releases it (in `forkret`, at the end of
`yield`, or when `sleep` returns); a process that calls `sched()` (from
`yield`, `sleep`, `exit`) holds it and leaves its release to the scheduler.
Every state change of a process is paired with a queue operation: RUNNABLE
processes, and only they, are on the list of their priority; the scheduler
dequeues the head of HI_PRIO, else of NORM_PRIO.  `trap()` calls `exit` for a
killed process returning to user mode and `yield` on a timer tick.  fork
releases the lock between `allocproc` and making the child RUNNABLE, so an
EMBRYO child is visible to `kill` and `setprio` on other CPUs.

### Hard behaviours

* interleavings of several CPUs with the lock hand-off across `swtch`;
* lost wakeups between `exit` and a parent in `wait`, and on reparenting;
* queue corruption when a process is enqueued twice (a panic);
* the fork window in which the child is EMBRYO, and its failure paths;
* `kill` of free slots, of init, and of EMBRYO processes;
* bit-level encoding of the exit status;
* lazy allocation: uint wrap-around in sbrk's shrink, the fault at `sz`
  itself, kernel-mode faults that retry, kalloc failures;
* forktest: fork failing midway (kalloc, copyuvm) rather than on a full
  table, and the count of waits that must match the forks that succeeded;
* for the user programs: line limits, token counting, the child throttle, and
  pipe ends that must be closed for readers to see EOF.

The full list, each at its line, is `hazards` in `PROJECT.json`.

## 2. Modules

| Module | Models | Kind |
|---|---|---|
| `ReadyQueue` | `enqueue`, `dequeue`, `wakeup1`'s loop of enqueues, as operators on a record of the list fields | operators, with a RECURSIVE walk from list to sequence |
| `PrioQueues` | what the two queues promise: FIFO per priority, dispatch from HI first, requeue on a priority change | abstract specification |
| `Proc` | the process table, fork/exit/wait/kill/setprio/yield, scheduler/sched/forkret, the trap's killed exit; uses `ReadyQueue` and refines `PrioQueues` | detailed specification |
| `MCProc` | constants for TLC | MC module |
| `ExecLines` | `exec_lines.c`: read_character, read_line, build_argv, the throttled fork loop and the final waits | state machine with RECURSIVE operators |
| `MCExecLines` | constants for TLC, for a signed-char build (and the unsigned-char constant) | MC module |
| `TickSleep` | `sys_sleep` against the timer interrupt: tickslock, `ticks`, sleep with a foreign lock, wakeup, kill | detailed specification |
| `MCTickSleep` | three processes as symmetric model values | MC module |
| `ExitStatus` | the status from `sys_exit`/`trap` through `exit` and `wait` to the `user.h` decoders | small state machine over bitwise operators |
| `LazyMem` | one process's memory: `sys_sbrk`, `growproc`'s shrink, the page-fault handler, kernel copies that fault, and every way the process ends (system call, trap, kill) into `ExitStatus`, which it instantiates | detailed specification composed with `ExitStatus` |
| `UserMem` | what the process is promised of its memory: pages below `sz` keep their content, pages given up or added read 0, a failed sbrk changes nothing | abstract specification |
| `MCLazyMem` | four pages of two bytes below KERNBASE 8, every sbrk argument, every exit code -2..257 and trap number 0..64 | MC module |
| `MergeFiles` | `merge_files.c`: the configuration and its validation, the opens, read_all, read_char, write_char, flush_file, copy_line, shuffle_lines, the closes, and a RECURSIVE reference interleaving | state machine, one step per byte |
| `MCMergeFiles` | up to three input names of up to three bytes or unreadable, -t 0..3, every kind of output | MC module |
| `Pipeline` | `merge_tee_exec.c`: init_configuration, pipes, forks, each child's closes before execvp, the parent's closes and waits; the three programs by their use of the pipes | state machine of four processes |
| `MCPipeline` | three items, pipes of capacity one, -t, -p and input counts at every limit | MC module |
| `ForkTest` | `forktest.c` run as a program on `Proc`'s kernel, with init waiting for it; it instantiates `Proc` and takes its actions whole | composition of a user program with `Proc` |
| `MCForkTest` | four slots, two CPUs, N = 5 | MC module |

### Correspondence in `Proc`

* Variables: one per `struct proc` field that a property tells apart (`state`,
  `pid`, `parent`, `priority`, `killed`, `chan`, `next`, `previous`), plus
  `queue` (ptable.queue), `nextpid`, `cpuproc` (each CPU's `proc`), `lock` (the
  CPU whose code holds ptable.lock, or `NOCPU`), `pc` (where each process is
  suspended: in user mode, in `forkret`, in fork's lock-free steps, in wait's
  sleep), `np` (fork's child slot between steps) and `panicked` (the message of
  a `panic()`; a panicked kernel takes no step).
* Each critical section under ptable.lock is one action, because no other CPU
  can observe its intermediate states.  fork is four actions (`ForkAlloc`:
  allocproc's locked scan; `ForkKstack`: kalloc, which may fail;
  `ForkCopy`: copyuvm, which may fail; `ForkRun`: the locked RUNNABLE).
* `Schedule(c)` is one iteration of the scheduler loop; `Resume(p)` is the
  process's side of the switch (forkret, or the return of sched inside yield
  or wait); `Yield` is the timer trap's yield; `SysExit`/`KilledExit` are the
  two callers of exit; `Wait` is sys_wait, whose scan is `WaitScan`.
* `Kill(p, k)` and `SetPrio(p, k, pr)` take their pid argument from `Pids`,
  including 0 and pids never handed out.

### Correspondence in `ExecLines`

* The input is chosen in `Init` among all byte sequences up to `MaxInput`
  over an abstract alphabet: a graphic character, space, tab, newline and the
  byte 0xFF.  `read_all`/`read_character` are a cursor `pos` into it that
  yields (char)EOF, the byte 0xFF, once it is exhausted; their 16-byte
  blocks are not observable to read_line.
* `signed` is the signedness of `char`, fixed per build: `IsEOF` is true
  for the byte 0xFF only on a signed-char build.
* `ReadLineWithin` is read_line's loop, `BuildArgv`/`StringAt` build_argv's
  (an argument is the bytes up to the first space or newline, which the code
  overwrites with '\0').
* `ReadLine`, `Throttle`, `Fork`, `Drain` are the steps of execute_lines'
  loop; `ChildExit(i)` is child i running (or failing to exec) its command
  and exiting; `WaitNull` is wait(NULL), which returns -1 at once when no
  child is left.  `fork` may fail.
* `children` records each child's line and argv; `status` records why the
  program exited; `rejected` records the length of a rejected input line, for
  the properties.

### Correspondence in `TickSleep`

`Call(p, k)` is a process entering sys_sleep(k); `AcquireTicks` is
`acquire(&tickslock); ticks0 = ticks`; `Loop` is one test of the while loop
(return 0, return -1 when killed, or call sleep).  sleep()'s first half
is three steps: `SleepLock` (acquire(&ptable.lock), tickslock still
held), `SleepRelease` (release(lk)) and `SleepBlock` (chan, SLEEPING,
sched; the scheduler then releases ptable.lock).  `Resume` is the
scheduler running the woken process up to the release of ptable.lock, and
`Reacquire` its `acquire(lk)`.  The timer is `TickStart` (take tickslock,
`ticks++`) and `TickWake` (wakeup, which needs ptable.lock, then release
tickslock).  `Kill` is kill() waking a sleeper, under ptable.lock.
`ptlock` is the holder of ptable.lock; wakeup, kill and the resume hold it
for one step each.  `seen` records the value of ticks each process's
loop last tested, for `NoLostTick`.

### Correspondence in `ExitStatus`

`SysExit(c)` is sys_exit's `status << 8` and exit's store in `p->status`;
`TrapExit(t)` is trap's `exit(tf->trapno + 1)`; `WaitReap` is wait copying
`p->status` to `*status`.  The int is kept as its low 16 bits, since
WIFEXITED, WEXITSTATUS, WIFSIGNALED and WEXITTRAP mask it with 0x7f or
0xff00; the masks use the `Bitwise` module.  Trap numbers are 0..64: the
vectors that reach the exit in trap() from user mode are the CPU exceptions
(0-31), the device interrupts (32-63) and T_SYSCALL (64); every other gate
has DPL 0.

### Correspondence in `LazyMem`

The address space is scaled: KERNBASE 8 stands for 0x80000000, a page has
2 bytes, and a uint is a number modulo 16, so `sz + n` for a negative `n`
wraps as it does in `growproc`.  `pte[pg]` is `"none"`, `"user"` or
`"guard"` (present without PTE_U, the page exec leaves below the stack);
addresses from KERNBASE up are present without PTE_U (`PteAt`).  A page's
content is one value; bytes within a page are not told apart.
`Init` is exec's image (code page, guard page, stack page; `sz` at the top
of the stack), taken from xv6's exec.c, which is not in the repository;
`Dealloc` is xv6 vm.c's `deallocuvm`, likewise.

* `SysSbrk(n)`: `sys_sbrk`; for `n < 0` it calls `Shrink(n)`, which is
  `growproc`: deallocuvm, then `p->sz` set only if the result is not 0.
* `UserAccess`: a user instruction on a present user page (no trap).
* `UserFault(a, w, v)`: the T_PGFLT case with its three outcomes (outside
  `sz` or protected: killed; kalloc or mappages fails: killed; a zeroed
  page mapped) and trap()'s tail (`TrapTail`): a killed process exits with
  `T_PGFLT + 1`, a live one restarts the instruction.
* `KernelAccess(a, w, v)`: a system call copying to or from a user buffer
  below `sz` (sys_date's `argptr` buffer, a read into user memory); the
  kernel touches present pages directly, guard or not; a missing page
  faults in kernel mode and is mapped, or, with no frame, the process is
  killed and the kernel instruction faults again: `kpend` is that access,
  `KernelRetry` its retry, `SyscallReturn` the exit with `T_SYSCALL + 1`
  after the call.
* `SyscallKilled`: T_SYSCALL with `killed` set; `SysExitCall(c)`:
  sys_exit; `OtherTrap(t)`: any other trap from user mode, killing unless
  it is one of the interrupts the switch handles (`Handled`); `Kill`:
  kill() from another process; `Wait`: the parent's wait.
  `T_IRQ0_TIMER` (32) is the timer interrupt, the one trap `FairSpec`
  makes recur.

`ImplementsUserMem` maps the detailed state to `UserMem`: a page with no
frame reads 0, and the process is live while it has not exited.

### Correspondence in `MergeFiles`

`in[i]` is input file i's `file` struct: `pos` is its descriptor's offset,
`buffer`, `off` and `avail` are `buffer`, `buffer_offset` and
`available_bytes`, `status` is `OK`, `READ_ENDING` or `READ_ENDED`.
`outbuf` is the output buffer's `buffer[0 .. available_bytes)` (for the
output file, `buffer_offset` always equals `available_bytes`), and
`written` is what `write_all` has put to the output descriptor.  `ReadAll`
is `read_all` on a regular file, which returns min(nbytes, bytes left);
`ReadChar` and `WriteChar` are `read_char` and `write_char` as operators
returning the new struct.  `Shuffle` is one turn of `shuffle_lines`' loop,
`CopyStep` one iteration of `copy_line`'s do-while together with, when it
ends, the `remaining_files--` and `file_index` step that follow it, and
`Finish` the final `flush_file`.  Bytes are `"a"` and `"NL"`: EOF is found
from `status`, not from the byte, so 0xFF needs no byte of its own.

Before the merge, `args` is the command line: the number of input names,
each name's content or `Unreadable` (access(R_OK) fails), the `-t` value,
and the output (stdout, or an `-o` file that is absent, writable or
read-only).  `Configure` is `init_configuration` with
`_validate_configuration_files`: the range check of `-t`, the count of
names against 1..16, `OutputDenied` (the `access(F_OK) == OK &&
!access(W_OK) == OK` test, with C's `!` as `CNot`), the count of readable
names (`Readable`) and the compaction loop (`Compacted`), after which
`content[i]` is the i-th kept file and `count` is `config->file_count`.
`OpenOutput` is `init_output_file` (an `open` with O_TRUNC that may fail),
`OpenInputs` is `allocate_input_files` and `init_input_files` (any open
may fail, since the file may have changed since access()), and `Cleanup`
is the closing of every file in `free_file`, whose failure also exits with
EXIT_FAILURE.  `ValidationExact` compares what `Configure` does with
`BadCommandLine`, the rejections the usage text and the messages name.

### Correspondence in `Pipeline`

`fds[q]` is the set of pipe ends process q has a descriptor on (`mt_r`,
`mt_w` for `merge_tee_pipe`, `te_r`, `te_w` for `tee_exec_pipe`); a dup2
onto stdin or stdout followed by the close of the original leaves the end
held, so only the closes change it.  `ParentStep` is `merge_tee_exec` up to
its wait loop, one disjunct per call in the code's order (`MakePipe`,
`Fork`, `ClosePipe`); `ParentFails` is the exit on a failed pipe() or
fork(); `Wait` is one `wait(NULL)`.  `Setup(c)` is a child's branch of
`merge_files()`, `tee()` or `exec_lines()` up to execvp, with the ends it
closes in `Closes`; any of those calls may fail and the child exits.
`MergeRun`, `TeeRun` and `ExecRun` are the programs at the level of their
read() and write() calls: merge_files writes `Items` items, tee copies, and
exec_lines reads until read() returns 0 (its `read_all` loops until the
buffer is full or EOF).  A write to a pipe no one can read kills the writer
(SIGPIPE's default action).  `tee` is not code of this repository and is
modelled as the copy it is documented to make.

The command line `cmd` is abstracted to what the checks read: atoi's value
of -t and -p (1024 and 1, the defaults, also stand for an absent option),
whether -l is given, whether -h is given first, the number of input names,
and whether access() accepts one of them.  `Configure` is
`init_configuration`: -h exits with EXIT_SUCCESS, `MteRejects` is the
union of its range checks, and a calloc may fail.  A child that has
execed goes through `Start(c)`: the argv `merge_files_argv`, `tee_argv`
and `exec_lines_argv` built is parsed by the program, with its own limits
(`MergeFilesAccepts` from merge_files' `init_configuration`,
`ExecLinesAccepts` from exec_lines' `parse_args`); a rejection exits with
EXIT_FAILURE and is recorded in `usage`.  to_string prints the int in
decimal into 16 bytes, enough for any int, so atoi reads back the value.

### Correspondence in `ForkTest`

The kernel is `Proc`, instantiated with the same variables; two more
variables hold the programs: `upc[p]`, where the user program of slot `p`
is, and `n`, forktest's local.  The initial state is the table after init
has forked the tester (slot 2, pid 2, NORM_PRIO inherited, about to return
from fork through forkret) and is asleep in wait.  Each program step is a
`Proc` action taken whole, with the program's reading of its result:

| Action | Code | Proc action |
|---|---|---|
| `TesterFork` | `pid = fork()` in the loop (forktest.c:23-24) | `ForkAlloc` |
| `TesterForkNoSlot` | allocproc finds no UNUSED slot, fork returns -1 (proc.c:153-157, 269-271), the loop breaks | none: nothing but the program changes |
| `TesterForkFails` | kalloc of the kernel stack or copyuvm fails, fork returns -1, the loop breaks | `ForkKstack`, `ForkCopy` |
| `TesterForkRun` | fork returns the pid: `n++`, and `n == N` prints "fork claimed to work N times!" | `ForkRun` |
| `TesterWait` | `wait(NULL)` in the loop and the last wait; a pid decrements `n`, -1 in the loop is "wait stopped early", a pid at the end is "wait got too many", -1 at the end is "fork test OK" | `Wait`, or `Resume` of the scan after a wakeup |
| `TesterExit` | `exit(EXIT_FAILURE)` on a failure, `exit(EXIT_SUCCESS)` in main | `SysExit` |
| `ChildExit` | a child: `fork()` returned 0, `exit(EXIT_SUCCESS)` | `SysExit` |
| `InitWait` | init's wait loop | `Wait`, `Resume` |
| `Kernel` | the schedulers, the timer's yield, the end of a hand-off | `Schedule`, `Yield`, `Resume` |

No program calls kill or setprio, so `Kill`, `SetPrio` and `KilledExit`
never apply.  init's own program (init.c, which forks the shell and waits)
is not in the repository; only its wait loop is kept.

## 3. Runs

| Run | Checks | Result |
|---|---|---|
| `proc_core` (`MCProc.cfg`) | `TypeOK`; `ReadyQueuesConsistent` (the lists are well formed and hold exactly the RUNNABLE processes, each on the list of its priority, and no panic); `SleepersHaveCause` (every sleeper in wait has a live child that is not yet a zombie and is not killed); `ParentsAlive` (every used non-init slot has a used parent); `StopsOnlyOnPanic`; `ImplementsPrioQueues` (refinement of `PrioQueues` with the lists walked into sequences) | pass |
| `kill_free_slot` | `FreshProcNotKilled`: a slot allocproc claims is never already killed | violation |
| `failed_fork_keeps_pid` | `FreeSlotsClean`: an UNUSED slot has pid 0, no parent, not killed | violation |
| `proc_liveness` (`MCProcLive.cfg`) | `HiPrioDispatched`: a RUNNABLE HI_PRIO process is eventually dispatched, unless its priority changes or the kernel panics | pass |

| `exec_lines_core` (`MCExecLines.cfg`) | `TypeOK`; `AtMostNumprocUnreaped` (never more than -p children forked and not waited for); `LinesRunInOrder` (the children's lines are, in order, a prefix of the input's lines that contain a word, each ending in a newline); `SuccessMeansAllRun`; `FittingInputAccepted` (a text input whose lines fit the buffer is never rejected); `Terminates` | pass |
| `exec_lines_tab_argv` | `ArgvMatchesTokenCount`: each child's argv has one entry per token read_line counted | violation |

| `tick_sleep` (`MCTickSleep.cfg`) | `NoLostTick` (a process asleep on &ticks last tested the loop at the current tick, or just before the tick being woken: no tick falls between its test and its sleep); `SleepLongEnough` (sys_sleep returns 0 only after n ticks); `TicksLockDiscipline` (tickslock is held by a process from its acquire to sleep()'s release(lk), by the timer only around its wakeup, and ptable.lock by a sleeper from sleep()'s acquire until the switch) | pass |
| `lazy_memory` (`MCLazyMem.cfg`) | `TypeOK` (`sz` stays below KERNBASE); `MappedBelowSz` (every present page lies below `sz`, whatever sbrk, shrink and faults did); `StatusDecodesToCause` (an exit is decoded as an exit with the code's low byte, a death in a trap, page fault or system call as a trap with its number, never the one for the other); `KilledExits` (under `FairSpec`, a killed process that is not in the kernel's fault retry always exits, at its next trap from user mode or its system call's return) | pass |
| `sbrk_shrink_to_zero` | `ImplementsUserMem`: sbrk, growproc and the fault handler implement `UserMem` | violation |
|  |  |  |
| `forktest` (`MCForkTest.cfg`) | `ForkTestVerdict` (forktest never prints a failure message: fork stops succeeding before N, and wait returns a pid exactly n times, then -1); `ForkTestCompletes` (under `FairSpec` it always prints "fork test OK", and every slot but init's is free again) | pass |
| `pipeline` (`MCPipeline.cfg`) | `WriteEndsOwned` (once the parent waits and every child has execed, each pipe's write end is held by its writer alone); `AllDelivered` (without a failure, the parent returns only after exec_lines has read every item in order); `ChildArgsAccepted` (merge_files and exec_lines never reject the -t, -p and input names merge_tee_exec validated and passed on); `Terminates` (every process ends, whichever call fails) | pass |
| `merge_files` (`MCMergeFiles.cfg`) | `TypeOK` (the output buffer never holds more than BUFSIZE bytes); `ValidationExact` (the program goes past its configuration exactly when the command line is good); `OutputFollowsInterleaving` (what has been read and written so far is a prefix of the round-robin interleaving of the lines of the readable inputs, in command-line order); `MergedOutputComplete` (on return the output is the whole interleaving); `Terminates` | pass |

The findings the violation runs show are in `PROJECT.json` (`findings`):
`kill` does not check the state of the slot it matches; a failed fork frees
its slot with the pid still set; in exec_lines, a tab makes read_line and build_argv disagree on the
arguments;
`sbrk(-sz)` frees every page of the process but returns -1 and keeps
`p->sz`, because growproc takes deallocuvm's new size 0 for a failure (with
growproc accepting 0 the refinement holds over the whole state space).

The parent of a child that called exit(42) gets s == 42 << 8, not the 42 of
spec.md's scenario (`WaitReturnsExitCode` in `ExitStatus` fails); this is
kept as a hazard in `PROJECT.json`, not as a run.

A line of exactly LINE_SIZE characters is also rejected although the
message says the limit is a size greater than LINE_SIZE
(`LineLimitAsDocumented` in `ExecLines` fails on `aaaa` with LINE_SIZE 4);
this wording mismatch is kept as a hazard in `PROJECT.json`, not as a run.

On a build where `char` is unsigned, exec_lines never sees the end of its
input: `(char)EOF` is 255 and never equals `EOF`, so read_line stores 0xFF
until the buffer is full and the program exits with the line-size error.
Setting `CharSigned <- MCCharUnsigned` in `MCExecLines.cfg` makes
`FittingInputAccepted` fail; this is kept as the hazard at
exec_lines.c:179, not as a run.

Each property of `proc_core` is broken by a mutant of the code (`mutants` in
`PROJECT.json`): a setprio that does not requeue, an exit that does not wake
its parent or does not reparent, a sched that does not leave the lock to the
scheduler, a scheduler that tries NORM_PRIO first, a reap that resets the
priority one past the last level; in exec_lines, a throttle off by one, a
read_line that leaves EOF in the buffer or is given one byte less, a final
loop that is skipped or does not decrement; a trap tail that exits with the
bare trapno, an sbrk that lets `sz` reach KERNBASE, a fault handler that
maps the page of the address `sz` itself; a sleep() that releases tickslock
without taking ptable.lock first, a sys_sleep with `if` for `while`, a killed path that keeps
tickslock, a trap tail that tests only what this trap did instead of
`p->killed`; in merge_files, a write_char that flushes one byte late, a
read_char that takes a full refill for the last, a shuffle_lines without
its final flush or that does not count an ended file, a write check that
lost its `!`; in the pipeline, a
parent that forks exec_lines before closing the first pipe or keeps the
second pipe's write end, an exec_lines that takes an empty pipe for EOF, an init_configuration that lets a seventeenth input through;
in forktest, a wait loop that runs while `n >= 0`, and a kernel whose
failed kalloc in allocproc does not set the slot back to UNUSED.

The reference interleaving keeps a last line without a newline as a line,
so such a fragment is followed directly by the next file's line in the
output; the code does this and nothing says it should not, so it is listed
as a hazard, not a finding.

### Bounds

`NPROC = 3`, `NCPU = 2`, `MaxPid = 5`.  Three slots are the least with which
a process can have a child and a grandchild (init, a child, its child), so
reparenting to init, a wait with living and zombie children, and a wakeup of
several sleepers all happen; two CPUs give the lock contention and the
hand-off.  `MaxPid` bounds `nextpid`: fork is disabled once it would pass
`MaxPid`, which allows five forks, enough for slots to be freed and reused.  `proc_liveness` uses
`MaxPid = 3` (`MCProcLive`): two forks still give a child and a grandchild,
or a second child in a reaped slot, and the check of strong fairness over
the larger instance does not finish within minutes.

`ExecLines`: `NUMPROC = 2`, `LINE_SIZE = 4`, inputs of up to 5 bytes (1365
inputs).  Three command lines fit in 5 bytes (`a\na\na`), so the throttle
waits; a 4-byte buffer holds a line with two tokens and a tab (`a\ta\n`) and
is overflowed by `aaaa`.

`TickSleep`: three processes (a wakeup with several sleepers), sleeps of 1
or 2 ticks (a process is woken before its time and sleeps again), 4 ticks
(processes call sys_sleep again after returning).  Deadlock checking is off
because the bound on ticks stops the timer, after which sleepers may wait
forever; 3.2 million states.

`MergeFiles`: no input name, one to three of up to three bytes over {a,
NL} or unreadable, or seventeen; `-t` 0 (rejected, as atoi of a
non-number gives), 1, 2 or 3; each kind of output; 1.1 million states.
`-t`'s default of 1024 is not explored: with inputs this small it behaves
as a buffer that never fills.  With BUFSIZE 1, 2 or 3: a file of three bytes with BUFSIZE 3 fills a refill
exactly, then gets a refill of 0 bytes; BUFSIZE 2 gives a short refill; a
file ending in a newline ends on a later turn that copies nothing; BUFSIZE
1 makes the output flush on every byte; an unreadable name among readable
ones exercises the compaction.

`Pipeline`: three items and pipes of one item, so that merge_files and
tee both block on a full pipe and tee and exec_lines on an empty one; every
failure the code handles may happen at every step.  -t takes 0, 1,
1024, 134217728 and 134217729, -p 0, 1, 8 and 9, the number of inputs 0,
1, 16 and 17: each limit at and past both ends; 10124 states.  More items
repeat the same blocking patterns.

`ForkTest`: `NPROC = 4` (init, the tester and two children, so that the
third fork finds the table full), `NCPU = 2`, `MaxPid = 5` (two children
and one failed allocation after the tester's pid 2), `N = 5`, more than the
table holds, as 1000 is more than 64.  A kalloc or copyuvm failure may end
the fork loop at any fork, the first included; 595 states, whose liveness
check takes about 20 seconds.  Five slots give 3 thousand states but the
check of the fairness conditions takes over seven minutes.

`LazyMem`: four pages below KERNBASE, three of them exec's, so sbrk can
grow past the image, shrink into the middle of a page, past the guard page
or to 0, and wrap; every `n` from -8 to 7 (all sizes and the wrapping
ones), every address 0..8 (one above KERNBASE), kernel copies to the guard
page and to missing pages; with the exit codes and trap numbers of
`ExitStatus`, 150 thousand states.

### Fairness

`Proc`'s `FairSpec` (used by `proc_liveness` only) assumes strong fairness
of each CPU's `Schedule` and of each process's `Yield` and `KilledExit`:
the timer interrupt forces them, but each needs ptable.lock, which the
other CPU frees and takes again and again, so they are enabled infinitely
often rather than continuously.  `Resume` (the end of a hand-off, with the
lock already held) gets weak fairness.  A process that never yields or
sleeps is not assumed.  NORM_PRIO processes may starve while HI_PRIO ones
cycle, which spec.md accepts (fairness is a non-goal), so only HI_PRIO
dispatch is stated.
`ForkTest`'s `FairSpec` carries `Proc`'s fairness to the composed steps
and adds strong fairness of each program's next step: every system call
the programs make starts by acquiring ptable.lock, and the lock-free middle
of fork needs the process's CPU back after each yield, so these steps are
enabled infinitely often, not continuously.  kalloc and copyuvm are not
assumed to fail or to succeed.
`ExecLines` assumes weak fairness of the program's own steps (it is never
starved of the CPU) and of each child's exit (the commands it runs
terminate); `Terminates` depends on both and on nothing else.
`MergeFiles` assumes weak fairness of its single thread.  `Pipeline`
assumes weak fairness of each of its four processes (the kernel schedules
every runnable process); `Terminates` needs no more.  Its deadlock check is
off because the pipeline does end, with every process exited.  In `Proc`,
deadlock checking is off because a panicked kernel does stop;
instead `StopsOnlyOnPanic` states that some step is enabled in every state
without a panic.  `LazyMem`'s `FairSpec` assumes weak fairness of the
timer interrupt from user mode (`OtherTrap(32)`: the lapic timer is
periodic and interrupts are on in user mode) and of a system call's return
once it has its frames.  `KernelRetry` is not fair: the retried kernel
access completes only when kalloc finds a frame, which nothing in the code
ensures.  With weak fairness of `KernelRetry` added, `KilledExits` would
also hold for a kill during the retry; without it, TLC shows the killed
process left in the retry forever (the hazard at trap.c:150).

## 4. Not modelled

* In `Proc`, fork's `copyuvm` is a call that may fail; `LazyMem` models one
  process's memory.  vm.c (`copyuvm`, `allocuvm`, `mappages`) is not in
  the repository; growproc's `n > 0` branch is never called by sbrk.  The
  free frames are not counted, so the frame leaked when mappages fails is
  not seen.
* `procdump`, `sys_uptime`, `sys_getpid`, `getprio`: output or read-only.
* The user test programs `date.c` and `tprio2.c`.  date makes one
  `date()` call, which reads the real-time clock, and prints: it is I/O.
  tprio2 forks, the parent exits, the child sets its own priority to
  NORM_PRIO and runs a loop of arithmetic before it exits: `Proc` lets any
  process make each of these calls in any order, so `ForkTest`'s kind of
  composition would add no behaviour that `proc_core` does not explore.
* merge_files' `-h` (it prints the usage and exits) and getopt's parsing
  itself: the model starts from the options getopt returns.  `-o` naming
  one of the inputs is left out: `O_TRUNC` empties that input before it is
  opened, and the program then reads back its own flushed output and need
  not end (a hazard in `PROJECT.json`).
* Input names are abstracted to their count and their readability.
  merge_files_argv passes them after `-t N` with no `--`, so a name that
  merge_tee_exec took as a file after its own `--` and that begins with
  `-` is parsed again as an option by merge_files' getopt; modelling it
  needs the names' text, which the abstraction drops.  An unknown option makes
  init_configuration exit with EXIT_FAILURE, as a rejected one does.

## 5. Plan

1. Done: `ReadyQueue`, `PrioQueues`, `Proc`, with the refinement and the
   two findings (a third, kill of init, is kept as a hazard).
2. Done: `TickSleep`.
3. Done: `ExitStatus`.
4. Done: `ExecLines`.
5. Done: `MergeFiles`.
6. Done: `Pipeline`.
7. Done: `HiPrioDispatched` in `Proc`.
8. Done: `LazyMem` and `UserMem`, composed with `ExitStatus`.
9. Done: `ForkTest`, forktest on `Proc`'s kernel.
10. Open: `kill(1)` halting the kernel (`InitNeverExits`, a spec gap kept
   as a hazard).
11. Done: `KilledExits` in `LazyMem`, a kill's effect under the timer's
   fairness; the kernel fault retry under OOM stays a hazard, since no
   fairness of kalloc can be justified.
12. Open, each needing a violation run: nextpid's overflow (proc.c:162),
   `-o` naming an input of merge_files (merge_files.c:270), the frame
   leaked when mappages fails (trap.c:156).
