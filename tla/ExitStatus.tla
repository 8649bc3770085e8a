----------------------------- MODULE ExitStatus -----------------------------
(***************************************************************************)
(* The exit status of a process, from the call that ends it to the parent *)
(* that decodes it:                                                        *)
(*   - sys_exit (sysproc.c) stores status << 8, a user exit code in the    *)
(*     second byte;                                                        *)
(*   - trap (trap.c) exits a killed process with trapno + 1, the trap in   *)
(*     the low 7 bits, never 0 (trap 0 exists);                            *)
(*   - exit stores it in p->status, wait copies it to *status;             *)
(*   - user.h's WIFEXITED, WEXITSTATUS, WIFSIGNALED, WEXITTRAP decode it.  *)
(* An int is a 32-bit two's complement word; every decoder masks it with   *)
(* 0x7f or 0xff00, so only its low 16 bits are kept, as a number in        *)
(* 0..2^16-1.  Shifting a negative int left is undefined in C; gcc, which  *)
(* builds xv6, shifts the bit pattern, and the low 16 bits of c << 8 are   *)
(* then those of c * 256.                                                  *)
(***************************************************************************)
EXTENDS Integers, Bitwise

CONSTANTS
  Codes,     \* the user exit codes explored
  Trapnos    \* the trap numbers with which trap() can exit a process

Word == 2^16

\* The low 16 bits of the int i << 8.
Shl8(i) == ((i % 256) * 256) % Word

NoStatus == -1      \* the parent's int before wait writes it

VARIABLES
  phase,     \* the child: "running", "zombie" (exited) or "reaped"
  cause,     \* how the child ended: [kind |-> "exit" | "trap", n |-> ..]
  pstatus,   \* p->status
  s          \* the parent's int that wait(&s) writes

vars == <<phase, cause, pstatus, s>>

\* user.h: the decoding macros.
WIFEXITED(x)   == (x & 127) = 0
WEXITSTATUS(x) == shiftR(x & 65280, 8)
WIFSIGNALED(x) == (x & 127) # 0
WEXITTRAP(x)   == (x & 127) - 1

Init ==
  /\ phase = "running"
  /\ cause = [kind |-> "none", n |-> 0]
  /\ pstatus = 0
  /\ s = NoStatus

\* sys_exit(): status = status << 8; exit(status) stores it.
SysExit(c) ==
  /\ phase = "running"
  /\ pstatus' = Shl8(c)
  /\ cause' = [kind |-> "exit", n |-> c]
  /\ phase' = "zombie"
  /\ UNCHANGED s

\* Mutant: trap() exits with the bare trapno.
TrapExitNoIncrement(t) ==
  /\ phase = "running"
  /\ pstatus' = t
  /\ cause' = [kind |-> "trap", n |-> t]
  /\ phase' = "zombie"
  /\ UNCHANGED s

\* trap(): a killed process returning to user mode calls exit(trapno + 1).
TrapExit(t) ==
  /\ phase = "running"
  /\ pstatus' = t + 1
  /\ cause' = [kind |-> "trap", n |-> t]
  /\ phase' = "zombie"
  /\ UNCHANGED s

\* Mutant: wait reaps the zombie without writing *status.
WaitReapNoCopy ==
  /\ phase = "zombie"
  /\ phase' = "reaped"
  /\ UNCHANGED <<cause, pstatus, s>>

\* wait(&s): reaping the zombie child writes p->status through status.
WaitReap ==
  /\ phase = "zombie"
  /\ s' = pstatus
  /\ phase' = "reaped"
  /\ UNCHANGED <<cause, pstatus>>

Next ==
  \/ \E c \in Codes : SysExit(c)
  \/ \E t \in Trapnos : TrapExit(t)
  \/ WaitReap

Spec == Init /\ [][Next]_vars

-----------------------------------------------------------------------------
TypeOK ==
  /\ phase \in {"running", "zombie", "reaped"}
  /\ pstatus \in 0..Word - 1
  /\ phase = "reaped" => s \in 0..Word - 1

\* A reaping parent tells the two endings apart (spec.md §6): an exit code
\* N is seen as WIFEXITED with WEXITSTATUS the low byte of N, a trap T as
\* WIFSIGNALED with WEXITTRAP T; never the one for the other.
StatusDecodesToCause ==
  phase = "reaped" =>
    IF cause.kind = "exit"
      THEN WIFEXITED(s) /\ ~WIFSIGNALED(s) /\ WEXITSTATUS(s) = cause.n % 256
      ELSE WIFSIGNALED(s) /\ ~WIFEXITED(s) /\ WEXITTRAP(s) = cause.n

\* The scenario of spec.md §8: a child that exits with status 42 is reaped
\* by wait(&s) with s == 42.
WaitReturnsExitCode ==
  phase = "reaped" /\ cause.kind = "exit" => s = cause.n
=============================================================================
