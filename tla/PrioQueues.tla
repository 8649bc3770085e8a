----------------------------- MODULE PrioQueues -----------------------------
(***************************************************************************)
(* What the two ready queues of the scheduler promise (spec.md §4.1, §4.2, *)
(* §5), with no linked lists: each priority level is a FIFO sequence of    *)
(* distinct processes.                                                     *)
(*   - a process joins a queue only at its tail, at the queue of its       *)
(*     priority, and only if it is on no queue;                            *)
(*   - a process leaves a queue only by being dispatched, which takes the  *)
(*     head of the HI queue, or the head of the NORM queue when HI is      *)
(*     empty; or by a priority change, which moves it to the tail of the   *)
(*     other queue;                                                        *)
(*   - the priority of a queued process changes only by such a move.       *)
(* Several processes may join in one step (a wakeup broadcast); their      *)
(* relative order is not constrained.  Processes stop running (yield,     *)
(* sleep, exit) without joining a queue, or by joining it.                *)
(***************************************************************************)
EXTENDS Naturals, SequencesExt

CONSTANTS Procs, HI, NORM

Prios == {HI, NORM}

VARIABLES
  rq,        \* rq[q]: the ready queue of priority q, head first
  running,   \* the processes dispatched and not yet stopped
  prio       \* the priority of every process

avars == <<rq, running, prio>>

Elems(s) == {s[i] : i \in DOMAIN s}
Queued == Elems(rq[HI]) \cup Elems(rq[NORM])

DistinctSeq(s) == \A i, j \in DOMAIN s : i # j => s[i] # s[j]

WellSorted ==
  /\ \A q \in Prios : DistinctSeq(rq[q]) /\ \A p \in Elems(rq[q]) : prio[p] = q
  /\ Elems(rq[HI]) \cap Elems(rq[NORM]) = {}
  /\ running \cap Queued = {}

Init ==
  /\ rq \in [Prios -> Seq(Procs)]
  /\ running = {}
  /\ prio \in [Procs -> Prios]
  /\ WellSorted

\* The scheduler takes the head of the highest non-empty queue.
Dispatch(p) ==
  /\ rq[HI] # <<>> \/ rq[NORM] # <<>>
  /\ p = IF rq[HI] # <<>> THEN Head(rq[HI]) ELSE Head(rq[NORM])
  /\ rq' = [rq EXCEPT ![prio[p]] = Tail(@)]
  /\ running' = running \cup {p}
  /\ UNCHANGED prio

\* Processes not on a queue join the tail of the queue of their (possibly
\* new) priority; running processes may stop.
Admit ==
  /\ \A q \in Prios : IsPrefix(rq[q], rq'[q])
  /\ LET joined == Queued' \ Queued
     IN  /\ joined \cap running' = {}
         /\ \A q \in Prios :
              LET tail == SubSeq(rq'[q], Len(rq[q]) + 1, Len(rq'[q]))
              IN  DistinctSeq(tail) /\ Elems(tail) \cap Queued = {}
  /\ \A p \in Queued : prio'[p] = prio[p]
  /\ \A q \in Prios : \A p \in Elems(rq'[q]) : prio'[p] = q
  /\ running' \subseteq running
  /\ rq' # rq \/ running' # running \/ prio' # prio

\* A queued process changes priority and moves to the other queue's tail.
Requeue(p, new) ==
  /\ p \in Queued
  /\ new # prio[p]
  /\ rq' = [rq EXCEPT ![prio[p]] = Remove(@, p), ![new] = Append(@, p)]
  /\ prio' = [prio EXCEPT ![p] = new]
  /\ UNCHANGED running

Next ==
  \/ \E p \in Procs : Dispatch(p)
  \/ Admit
  \/ \E p \in Procs, new \in Prios : Requeue(p, new)

Spec == Init /\ [][Next]_avars
=============================================================================
