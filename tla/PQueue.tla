------------------------------- MODULE PQueue -------------------------------
(***************************************************************************)
(* The binary heap of 2-term/3.3/pqueue.c as operators on a sequence.      *)
(* Position x of the C array is element x + 1 of the sequence; prio gives  *)
(* the priority that the comparison function reads from an element.        *)
(***************************************************************************)
EXTENDS Naturals, Sequences

Left(x) == 2 * x + 1
Right(x) == 2 * x + 2
Parent(x) == x \div 2

At0(q, x) == q[x + 1]
Exchange(q, x, y) == [q EXCEPT ![x + 1] = At0(q, y), ![y + 1] = At0(q, x)]

(* A loop is a heap q and a position x.  The loop of pqueue_enqueue(): the *)
(* element at x changes places with its parent while it comes first.       *)
StepUp(prio, h) ==
    IF h.x > 0 /\ prio[At0(h.q, h.x)] > prio[At0(h.q, Parent(h.x))]
    THEN [q |-> Exchange(h.q, h.x, Parent(h.x)), x |-> Parent(h.x)]
    ELSE h

(* One call of pqueue_heapify(), which calls itself unless largest is x.   *)
StepDown(prio, h) ==
    LET Greater(y, z) == y < Len(h.q) /\ prio[At0(h.q, y)] > prio[At0(h.q, z)]
        l == IF Greater(Left(h.x), h.x) THEN Left(h.x) ELSE h.x
        largest == IF Greater(Right(h.x), l) THEN Right(h.x) ELSE l
    IN  IF largest = h.x THEN h ELSE [q |-> Exchange(h.q, h.x, largest), x |-> largest]

(* Each step that is not the last moves x up, or down, the array: Len(q)   *)
(* of them are enough, and the ones after the last change nothing.         *)
SiftUp(prio, q, x) ==
    LET loop[k \in 0 .. Len(q)] ==
          IF k = 0 THEN [q |-> q, x |-> x] ELSE StepUp(prio, loop[k - 1])
    IN  loop[Len(q)].q

Heapify(prio, q, x) ==
    LET loop[k \in 0 .. Len(q)] ==
          IF k = 0 THEN [q |-> q, x |-> x] ELSE StepDown(prio, loop[k - 1])
    IN  loop[Len(q)].q

(* pqueue_enqueue(): an element that does not fit is dropped.              *)
PqEnqueue(prio, q, capacity, e) ==
    IF Len(q) >= capacity THEN q ELSE SiftUp(prio, Append(q, e), Len(q))

(* pqueue_dequeue() of a queue that is not empty returns position 0, moves *)
(* the last element there and restores the heap.                           *)
PqFirst(q) == At0(q, 0)

PqDequeue_CountsFirst(prio, q) ==
    LET rest == SubSeq(q, 1, Len(q) - 1)
    IN  Heapify(prio, IF rest = <<>> THEN rest ELSE [rest EXCEPT ![1] = rest[Len(rest)]], 0)

PqDequeue(prio, q) ==
    LET rest == [SubSeq(q, 1, Len(q)) EXCEPT ![1] = q[Len(q)]]
    IN  Heapify(prio, SubSeq(rest, 1, Len(q) - 1), 0)
=============================================================================
