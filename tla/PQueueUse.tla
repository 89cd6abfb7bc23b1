----------------------------- MODULE PQueueUse -----------------------------
(***************************************************************************)
(* A client of pqueue.c that adds and removes elements of any priority in  *)
(* any order.  An element is its own priority.                             *)
(***************************************************************************)
EXTENDS PQueue, FiniteSets

CONSTANTS
    Priorities,     \* a finite set of numbers
    CAPACITY        \* of pqueue_new()

ASSUME PQueueAssumption == Priorities \subseteq Nat /\ CAPACITY \in Nat \ {0}

VARIABLE data   \* the array, up to size

Prio == [p \in Priorities |-> p]

UseInit == data = <<>>

UseEnqueue(p) == data' = PqEnqueue(Prio, data, CAPACITY, p)

(* An empty queue returns NULL and stays empty.                            *)
UseDequeue == data # <<>> /\ data' = PqDequeue(Prio, data)

UseNext == UseDequeue \/ \E p \in Priorities : UseEnqueue(p)

-----------------------------------------------------------------------------
(* pqueue_dequeue() returns an element with the biggest priority.          *)
ReturnsBiggest == \A k \in 1 .. Len(data) : Prio[PqFirst(data)] >= Prio[data[k]]

Copies(q, p) == Cardinality({k \in 1 .. Len(q) : q[k] = p})

(* The call adds one copy of p, unless the queue is full, and does not move*)
(* a biggest element out of the first place.                               *)
AddsOne(p) ==
    /\ Len(data) >= CAPACITY => UNCHANGED data
    /\ Len(data) < CAPACITY =>
          \A e \in Priorities :
              Copies(data', e) = Copies(data, e) + (IF e = p THEN 1 ELSE 0)
    /\ ReturnsBiggest => ReturnsBiggest'

(* The call takes away one copy of what it returns.                        *)
TakesFirst ==
    \A e \in Priorities :
        Copies(data', e) = Copies(data, e) - (IF e = PqFirst(data) THEN 1 ELSE 0)

(* What the queue still keeps with its wrong PARENT(), in any number of    *)
(* elements and after any calls: no call loses or doubles an element, and  *)
(* pqueue_enqueue() never spoils the order: if the biggest element was the *)
(* next to be returned it still is, so that only pqueue_dequeue() can bring*)
(* about what ReturnsBiggest excludes.                                     *)
CallsKeepElements ==
    [][(\A p \in Priorities : UseEnqueue(p) => AddsOne(p)) /\ (UseDequeue => TakesFirst)]_data
=============================================================================
