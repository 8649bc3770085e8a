------------------------------ MODULE UserMem ------------------------------
(***************************************************************************)
(* What a process is promised of its memory, page by page: the pages      *)
(* below sz keep what was last written to them; sbrk(n) moves sz by n and  *)
(* the pages it gives up, or adds, read 0; a call that fails, or asks for  *)
(* a size below 0, changes nothing; the process may die at any step.  It   *)
(* says nothing of when pages get a frame: that is LazyMem's business.     *)
(***************************************************************************)
EXTENDS Integers

CONSTANTS PGSIZE, KERNBASE, Ns, Vals

VARIABLES
  sz,     \* the size of the memory
  mem,    \* mem[pg]: the content of page pg
  live    \* the process has not exited

Pages == 0 .. (KERNBASE \div PGSIZE) - 1

\* The pages the first n bytes touch keep their content; the others are 0.
Cut(m, n) == [pg \in Pages |-> IF pg * PGSIZE < n THEN m[pg] ELSE 0]

Init ==
  /\ sz \in 0 .. KERNBASE - 1
  /\ mem \in {m \in [Pages -> Vals] : Cut(m, sz) = m}
  /\ live = TRUE

Sbrk(n) ==
  /\ live
  /\ \/ /\ 0 <= sz + n /\ sz + n < KERNBASE
        /\ sz' = sz + n
        /\ mem' = Cut(mem, sz + n)
     \/ UNCHANGED <<sz, mem>>
  /\ UNCHANGED live

\* A write, by the process or by the kernel on its behalf.
Write(pg, v) ==
  /\ live /\ pg * PGSIZE < sz
  /\ mem' = [mem EXCEPT ![pg] = v]
  /\ UNCHANGED <<sz, live>>

Die ==
  /\ live
  /\ live' = FALSE
  /\ UNCHANGED <<sz, mem>>

Next ==
  \/ \E n \in Ns : Sbrk(n)
  \/ \E pg \in Pages, v \in Vals : Write(pg, v)
  \/ Die

Spec == Init /\ [][Next]_<<sz, mem, live>>
=============================================================================
