----------------------------- MODULE ReadyQueue -----------------------------
(***************************************************************************)
(* The two per-priority ready queues of src/xv6/proc.c: intrusive circular *)
(* doubly-linked lists threaded through the process slots by the fields    *)
(* next and previous, with one head pointer per priority (ptable.queue).   *)
(*                                                                         *)
(* The lists are operated on as a record                                   *)
(*   L = [next |-> .., previous |-> .., head |-> .., err |-> ..]           *)
(* so that one kernel critical section can apply several enqueues and      *)
(* dequeues in the order the code does.  L.err records the first panic     *)
(* message met; once set, later operations leave L alone (the kernel has   *)
(* halted).                                                                *)
(***************************************************************************)
EXTENDS Naturals, Sequences, FiniteSets

CONSTANTS
  Procs,    \* the process slots ptable.proc[], numbered in table order
  Prios,    \* the priority levels, HI_PRIO and NORM_PRIO
  NULL      \* the null pointer; not a slot

NoError == "none"

\* ptable.queue[prio] == NULL and p->next == p->previous == NULL for all p.
EmptyLists ==
  [next |-> [p \in Procs |-> NULL], previous |-> [p \in Procs |-> NULL],
   head |-> [q \in Prios |-> NULL], err |-> NoError]

Fail(L, msg) == IF L.err = NoError THEN [L EXCEPT !.err = msg] ELSE L

(***************************************************************************)
(* enqueue(p): panics if p is already linked or half-linked; makes p the   *)
(* self-looped sole member of an empty queue, otherwise links it in just   *)
(* before the head (at the tail), in the order of the four assignments.    *)
(***************************************************************************)
Enqueue(L, p, prio) ==
  IF L.err # NoError THEN L
  ELSE IF L.previous[p] # NULL /\ L.next[p] # NULL
    THEN Fail(L, "enqueue: already in a queue")
  ELSE IF (L.previous[p] = NULL) # (L.next[p] = NULL)
    THEN Fail(L, "enqueue: corrupted queue data")
  ELSE IF L.head[prio] = NULL
    THEN [L EXCEPT !.head[prio] = p, !.previous[p] = p, !.next[p] = p]
  ELSE LET h  == L.head[prio]
           L1 == [L  EXCEPT !.next[L.previous[h]] = p]
           L2 == [L1 EXCEPT !.previous[p] = L1.previous[h]]
           L3 == [L2 EXCEPT !.previous[h] = p]
       IN  [L3 EXCEPT !.next[p] = h]

(***************************************************************************)
(* dequeue(p): panics on an empty queue, an unlinked p or inconsistent     *)
(* links; a self-looped p empties the queue; otherwise p is spliced out,   *)
(* the head advances past p, and p's links are cleared.                    *)
(***************************************************************************)
Dequeue(L, p, prio) ==
  IF L.err # NoError THEN L
  ELSE IF L.head[prio] = NULL
    THEN Fail(L, "dequeue: empty queue")
  ELSE IF L.previous[p] = NULL /\ L.next[p] = NULL
    THEN Fail(L, "dequeue: not in a queue")
  ELSE IF \/ (L.previous[p] = NULL) # (L.next[p] = NULL)
          \/ L.previous[p] = p /\ L.next[p] # p
          \/ L.previous[p] # p /\ L.next[p] = p
    THEN Fail(L, "dequeue: corrupted queue data")
  ELSE IF L.previous[p] = p /\ L.next[p] = p
    THEN [L EXCEPT !.previous[p] = NULL, !.next[p] = NULL, !.head[prio] = NULL]
  ELSE LET L1 == [L  EXCEPT !.previous[L.next[p]] = L.previous[p]]
           L2 == [L1 EXCEPT !.next[L1.previous[p]] = L1.next[p]]
           L3 == IF L2.head[prio] = p
                   THEN [L2 EXCEPT !.head[prio] = L2.next[p]] ELSE L2
       IN  [L3 EXCEPT !.previous[p] = NULL, !.next[p] = NULL]

\* Enqueue every process of the sequence ps, in order, each at its priority.
EnqueueAll(L, ps, prioOf) ==
  LET RECURSIVE Go(_, _)
      Go(M, i) == IF i > Len(ps) THEN M
                  ELSE Go(Enqueue(M, ps[i], prioOf[ps[i]]), i + 1)
  IN  Go(L, 1)

-----------------------------------------------------------------------------
(***************************************************************************)
(* The abstraction of a list: the sequence of slots met by following next *)
(* from the head, stopping on a return to the head, a NULL or after        *)
(* Cardinality(Procs) hops.  WellFormed says the walk closes the circle    *)
(* exactly and that previous mirrors next along it.                        *)
(***************************************************************************)
Walk(L, prio) ==
  LET RECURSIVE Go(_, _)
      Go(p, n) == IF p = NULL \/ n = 0 THEN <<>>
                  ELSE IF L.next[p] = L.head[prio] THEN <<p>>
                  ELSE <<p>> \o Go(L.next[p], n - 1)
  IN  Go(L.head[prio], Cardinality(Procs))

Members(L, prio) == {Walk(L, prio)[i] : i \in 1..Len(Walk(L, prio))}

WellFormed(L, prio) ==
  LET w == Walk(L, prio)
      n == Len(w)
  IN  /\ L.head[prio] # NULL => L.next[w[n]] = L.head[prio]
      /\ \A i \in 1..n : /\ L.previous[w[i]] = w[IF i = 1 THEN n ELSE i - 1]
                         /\ \A j \in 1..n : i # j => w[i] # w[j]
=============================================================================
