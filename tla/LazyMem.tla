------------------------------ MODULE LazyMem ------------------------------
(***************************************************************************)
(* The user memory of one process under lazy allocation, and how it ends: *)
(*   - sys_sbrk (sysproc.c) only raises p->sz when n >= 0 and shrinks with *)
(*     growproc(n), which frees pages through deallocuvm;                  *)
(*   - trap() (trap.c) allocates a zeroed page on the fault of an address  *)
(*     below sz, and kills the process on a fault above sz, on a present   *)
(*     page without PTE_U, or when kalloc or mappages fail;                *)
(*   - a killed process leaves at its next trap from user mode with        *)
(*     exit(trapno + 1), which ExitStatus carries to the parent's wait.    *)
(* The address space is scaled down: KERNBASE stands for 0x80000000, a     *)
(* uint is a number modulo Word = 2 * KERNBASE (32 bits), a page is PGSIZE *)
(* bytes.  A page's content is abstracted to a value of Vals; the bytes    *)
(* within a page are not told apart.  pte[pg] is "none" (not present),     *)
(* "user" (PTE_P|PTE_W|PTE_U) or "guard" (PTE_P without PTE_U, the page    *)
(* exec leaves below the stack).                                           *)
(***************************************************************************)
EXTENDS Integers

CONSTANTS
  PGSIZE,     \* bytes per page
  KERNBASE,   \* the first kernel address
  Ns,         \* the arguments of sbrk explored
  Addrs,      \* the addresses a user instruction may touch
  Vals,       \* page contents
  Codes,      \* exit codes (ExitStatus)
  Trapnos     \* trap numbers (ExitStatus)

ASSUME KERNBASE % PGSIZE = 0 /\ 0 \in Vals /\ Vals # {0}

Word == 2 * KERNBASE
Pages == 0 .. (KERNBASE \div PGSIZE) - 1
PageOf(a) == a \div PGSIZE
PGROUNDUP(a) == ((a + PGSIZE - 1) \div PGSIZE) * PGSIZE

\* traps.h: the trap numbers trap() names.
T_PGFLT == 14
T_SYSCALL == 64
T_IRQ0_TIMER == 32   \* T_IRQ0 + IRQ_TIMER
\* The interrupts trap()'s switch handles; any other trap from user mode
\* reaches the default case.
Handled == {32, 33, 36, 46, 47, 39, 63}

\* No kernel access is being retried.
NoAccess == [a |-> -1, w |-> FALSE, v |-> 0]
\* The retried access is done and the system call has still to return.
InCall == [a |-> -2, w |-> FALSE, v |-> 0]

VARIABLES
  sz,        \* p->sz
  pte,       \* pte[pg]: the page table entry of user page pg
  data,      \* data[pg]: the content of the frame mapped at pg
  killed,    \* p->killed
  kpend,     \* the kernel access that page-faulted and is retried, or InCall
  phase, cause, pstatus, s   \* ExitStatus

memvars == <<sz, pte, data, killed, kpend>>
esvars == <<phase, cause, pstatus, s>>
vars == <<sz, pte, data, killed, kpend, phase, cause, pstatus, s>>

ES == INSTANCE ExitStatus

Running == phase = "running"

\* The entry that maps address a: the kernel's mappings above KERNBASE are
\* present without PTE_U.
PteAt(a) == IF a < KERNBASE THEN pte[PageOf(a)] ELSE "kernel"

\* The data of the pages that are not present is of no frame; keep it 0.
Scrub(d, p) == [pg \in Pages |-> IF p[pg] = "none" THEN 0 ELSE d[pg]]

\* The access a (write of v when w) to a present page.
Store(d, a, w, v) == IF w THEN [d EXCEPT ![PageOf(a)] = v] ELSE d

\* The content exec copies in: the program and its arguments.
Loaded == CHOOSE v \in Vals : v # 0

(***************************************************************************)
(* exec's image: a code page, the guard page, the stack page; sz is the    *)
(* top of the stack.                                                       *)
(***************************************************************************)
Init ==
  /\ sz = 3 * PGSIZE
  /\ pte = [pg \in Pages |-> CASE pg = 1 -> "guard"
                               [] pg \in {0, 2} -> "user"
                               [] OTHER -> "none"]
  /\ data = [pg \in Pages |-> IF pte[pg] = "user" THEN Loaded ELSE 0]
  /\ killed = FALSE
  /\ kpend = NoAccess
  /\ ES!Init

\* Mutant: the exit status is the bare trapno.
TrapTailNoIncrement(t, k) == IF k THEN ES!TrapExitNoIncrement(t) ELSE UNCHANGED esvars

\* trap(), the end: a killed process returning to user mode calls
\* exit(trapno + 1).
TrapTail(t, k) == IF k THEN ES!TrapExit(t) ELSE UNCHANGED esvars

(***************************************************************************)
(* vm.c's deallocuvm(pgdir, oldsz, newsz), which this repository does not  *)
(* contain: free every present page from PGROUNDUP(newsz) up to oldsz and  *)
(* return newsz; return oldsz when newsz >= oldsz.                         *)
(***************************************************************************)
Dealloc(p, oldsz, newsz) ==
  IF newsz >= oldsz THEN [pte |-> p, sz |-> oldsz]
  ELSE [pte |-> [pg \in Pages |->
                   IF pg * PGSIZE >= PGROUNDUP(newsz) /\ pg * PGSIZE < oldsz
                     THEN "none" ELSE p[pg]],
        sz |-> newsz]

\* growproc(n) with n < 0: sz + n is uint arithmetic; a result of 0 is
\* taken for a failure and leaves p->sz as it was.
Shrink(n) ==
  LET d == Dealloc(pte, sz, (sz + n) % Word)
  IN  /\ pte' = d.pte
      /\ data' = Scrub(data, d.pte)
      /\ sz' = IF d.sz = 0 THEN sz ELSE d.sz

\* Mutant: sbrk lets p->sz reach KERNBASE.
SysSbrkToKernbase(n) ==
  /\ Running /\ ~killed /\ kpend = NoAccess
  /\ IF n >= 0
       THEN /\ sz' = IF sz + n > KERNBASE THEN sz ELSE sz + n
            /\ UNCHANGED <<pte, data>>
       ELSE Shrink(n)
  /\ UNCHANGED <<killed, kpend>>
  /\ UNCHANGED esvars

\* sys_sbrk(n): grow p->sz without allocating, below KERNBASE, or shrink.
SysSbrk(n) ==
  /\ Running /\ ~killed /\ kpend = NoAccess
  /\ IF n >= 0
       THEN /\ sz' = IF sz + n >= KERNBASE THEN sz ELSE sz + n
            /\ UNCHANGED <<pte, data>>
       ELSE Shrink(n)
  /\ UNCHANGED <<killed, kpend>>
  /\ UNCHANGED esvars

\* A user instruction touching a present user page: no trap.
UserAccess(a, w, v) ==
  /\ Running /\ kpend = NoAccess
  /\ PteAt(a) = "user"
  /\ data' = Store(data, a, w, v)
  /\ UNCHANGED <<sz, pte, killed, kpend>>
  /\ UNCHANGED esvars

\* Mutant: the handler maps the page of the address sz itself.
UserFaultAtSz(a, w, v) ==
  /\ Running /\ kpend = NoAccess
  /\ PteAt(a) # "user"
  /\ \/ /\ a > sz \/ PteAt(a) = "guard"
        /\ killed' = TRUE
        /\ ES!TrapExit(T_PGFLT)
        /\ UNCHANGED <<sz, pte, data, kpend>>
     \/ /\ a <= sz /\ PteAt(a) = "none"
        /\ killed' = TRUE
        /\ ES!TrapExit(T_PGFLT)
        /\ UNCHANGED <<sz, pte, data, kpend>>
     \/ /\ a <= sz /\ PteAt(a) = "none"
        /\ pte' = [pte EXCEPT ![PageOf(a)] = "user"]
        /\ data' = IF killed THEN [data EXCEPT ![PageOf(a)] = 0]
                   ELSE Store([data EXCEPT ![PageOf(a)] = 0], a, w, v)
        /\ TrapTail(T_PGFLT, killed)
        /\ UNCHANGED <<sz, killed, kpend>>

(***************************************************************************)
(* A user instruction faulting at a: the T_PGFLT case of trap(), then its  *)
(* tail; when the page was mapped and the process lives, the instruction   *)
(* is restarted and completes.                                             *)
(***************************************************************************)
UserFault(a, w, v) ==
  /\ Running /\ kpend = NoAccess
  /\ PteAt(a) # "user"
  /\ \/ /\ a >= sz \/ PteAt(a) = "guard"          \* outside sz, or protected
        /\ killed' = TRUE
        /\ ES!TrapExit(T_PGFLT)
        /\ UNCHANGED <<sz, pte, data, kpend>>
     \/ /\ a < sz /\ PteAt(a) = "none"        \* kalloc or mappages fails
        /\ killed' = TRUE
        /\ ES!TrapExit(T_PGFLT)
        /\ UNCHANGED <<sz, pte, data, kpend>>
     \/ /\ a < sz /\ PteAt(a) = "none"        \* a zeroed page is mapped
        /\ pte' = [pte EXCEPT ![PageOf(a)] = "user"]
        /\ data' = IF killed THEN [data EXCEPT ![PageOf(a)] = 0]
                   ELSE Store([data EXCEPT ![PageOf(a)] = 0], a, w, v)
        /\ TrapTail(T_PGFLT, killed)
        /\ UNCHANGED <<sz, killed, kpend>>

(***************************************************************************)
(* A system call that copies to or from the user buffer at a, which the    *)
(* argument checks keep below sz: T_SYSCALL with a live process.  The      *)
(* kernel touches a present page, guard or not, directly; a missing page   *)
(* faults in kernel mode, and when no frame is to be had the process is    *)
(* killed and the instruction faults again on return.                      *)
(***************************************************************************)
KernelAccess(a, w, v) ==
  /\ Running /\ ~killed /\ kpend = NoAccess
  /\ a < sz
  /\ \/ /\ pte[PageOf(a)] # "none"
        /\ data' = Store(data, a, w, v)
        /\ UNCHANGED <<pte, killed, kpend>>
     \/ /\ pte[PageOf(a)] = "none"
        /\ pte' = [pte EXCEPT ![PageOf(a)] = "user"]
        /\ data' = Store([data EXCEPT ![PageOf(a)] = 0], a, w, v)
        /\ UNCHANGED <<killed, kpend>>
     \/ /\ pte[PageOf(a)] = "none"
        /\ killed' = TRUE
        /\ kpend' = [a |-> a, w |-> w, v |-> v]
        /\ UNCHANGED <<pte, data>>
  /\ UNCHANGED sz
  /\ UNCHANGED esvars

\* The retried kernel access finds a frame and completes; the system call
\* goes on to its return.
KernelRetry ==
  /\ Running /\ kpend \notin {NoAccess, InCall}
  /\ pte' = [pte EXCEPT ![PageOf(kpend.a)] = "user"]
  /\ data' = Store([data EXCEPT ![PageOf(kpend.a)] = 0], kpend.a, kpend.w, kpend.v)
  /\ kpend' = InCall
  /\ UNCHANGED <<sz, killed>>
  /\ UNCHANGED esvars

\* The system call returns to a killed process, which exits with
\* T_SYSCALL + 1.
SyscallReturn ==
  /\ Running /\ kpend = InCall
  /\ kpend' = NoAccess
  /\ TrapTail(T_SYSCALL, killed)
  /\ UNCHANGED <<sz, pte, data, killed>>

\* T_SYSCALL with p->killed set: exit before the call.
SyscallKilled ==
  /\ Running /\ killed /\ kpend = NoAccess
  /\ ES!TrapExit(T_SYSCALL)
  /\ UNCHANGED memvars

\* sys_exit(c).
SysExitCall(c) ==
  /\ ~killed /\ kpend = NoAccess
  /\ ES!SysExit(c)
  /\ UNCHANGED memvars

\* Mutant: the tail tests whether this trap killed, not p->killed.
OtherTrapTailOnNewKill(t) ==
  /\ Running /\ kpend = NoAccess
  /\ killed' = (killed \/ t \notin Handled)
  /\ TrapTail(t, t \notin Handled)
  /\ UNCHANGED <<sz, pte, data, kpend>>

\* Any other trap from user mode: a handled interrupt, or the default case,
\* which kills; then trap()'s tail.
OtherTrap(t) ==
  /\ Running /\ kpend = NoAccess
  /\ killed' = (killed \/ t \notin Handled)
  /\ TrapTail(t, killed')
  /\ UNCHANGED <<sz, pte, data, kpend>>

\* kill(pid) from another process.
Kill ==
  /\ Running /\ ~killed
  /\ killed' = TRUE
  /\ UNCHANGED <<sz, pte, data, kpend>>
  /\ UNCHANGED esvars

\* The parent's wait(&s).
Wait ==
  /\ ES!WaitReap
  /\ UNCHANGED memvars

Next ==
  \/ \E n \in Ns : SysSbrk(n)
  \/ \E a \in Addrs, w \in BOOLEAN, v \in Vals :
       UserAccess(a, w, v) \/ UserFault(a, w, v) \/ KernelAccess(a, w, v)
  \/ KernelRetry
  \/ SyscallReturn
  \/ SyscallKilled
  \/ \E c \in Codes : SysExitCall(c)
  \/ \E t \in Trapnos \ {T_PGFLT, T_SYSCALL} : OtherTrap(t)
  \/ Kill
  \/ Wait

Spec == Init /\ [][Next]_vars

(***************************************************************************)
(* The timer interrupts a process in user mode again and again (lapic's   *)
(* periodic timer, interrupts on in user mode), and a system call that     *)
(* has its frames goes on to its return.  The retried kernel access        *)
(* completes only if kalloc at last finds a frame, which the code does not *)
(* ensure, so KernelRetry is not fair.  Nothing forces a user instruction, *)
(* a system call or a kill to happen.                                      *)
(***************************************************************************)
FairSpec ==
  /\ Spec
  /\ WF_vars(OtherTrap(T_IRQ0_TIMER))
  /\ WF_vars(SyscallReturn)

-----------------------------------------------------------------------------
TypeOK ==
  /\ sz \in 0 .. KERNBASE - 1
  /\ pte \in [Pages -> {"none", "user", "guard"}]
  /\ data \in [Pages -> Vals]
  /\ killed \in BOOLEAN
  /\ ES!TypeOK

\* Every page present in the page table lies below p->sz: a shrinking sbrk
\* frees the pages above the new size, and the fault handler maps a page
\* only for an address below sz.
MappedBelowSz == \A pg \in Pages : pte[pg] # "none" => pg * PGSIZE < sz

\* The parent tells an exit(N) from a death in a trap, whichever path the
\* process took: sys_exit, a page fault, a killing trap or a kill() seen at
\* a system call.
StatusDecodesToCause == ES!StatusDecodesToCause

\* The refinement mapping: a page with no frame reads 0, the zeroed page
\* the fault handler would give it.
UM == INSTANCE UserMem
        WITH mem <- [pg \in Pages |-> IF pte[pg] = "none" THEN 0 ELSE data[pg]],
             live <- Running

\* sys_sbrk, growproc and the page-fault handler keep the promise of
\* UserMem: lazy allocation is invisible, and a failed sbrk changes
\* nothing.
ImplementsUserMem == UM!Spec

(***************************************************************************)
(* A killed process ends: kill(), a killing trap or a page fault the       *)
(* handler cannot serve sets p->killed, and trap()'s tail exits the        *)
(* process at its next trap from user mode, or at the return of the system *)
(* call it is in.  Only a process still in the kernel's fault retry is     *)
(* left out: trap()'s tail does not exit on a kernel-mode trap, and the    *)
(* retry ends only when kalloc finds a frame.                              *)
(***************************************************************************)
KilledExits == killed /\ kpend \in {NoAccess, InCall} ~> ~Running
=============================================================================
