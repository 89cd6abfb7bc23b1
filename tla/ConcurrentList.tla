--------------------------- MODULE ConcurrentList ---------------------------
(***************************************************************************)
(* The linked list of 2-term/2.3 with a lock in each node.  The threads    *)
(* walk along it hand over hand: comparators (the looking_for_... threads, *)
(* which differ only in the statistics they keep) read two neighbours at a *)
(* time, swappers exchange the two nodes after one they hold.              *)
(*                                                                         *)
(* Each lock operation and each group of accesses to shared memory between *)
(* two of them is a step; the three stores of a swap are steps of their    *)
(* own.  A local variable is NULL where the code has none.  The statistics *)
(* are left out.                                                           *)
(***************************************************************************)
EXTENDS Naturals, FiniteSets, Sequences

CONSTANTS
    Comparators, Swappers,  \* the threads
    Nodes,                  \* the nodes main() adds, 10000 in the source
    Order,                  \* the list at the start, a sequence of nodes
    NULL                    \* the null pointer

Threads == Comparators \cup Swappers
Pointers == Nodes \cup {NULL}

ASSUME ListAssumption ==
    /\ Comparators \cap Swappers = {}
    /\ NULL \notin Nodes
    /\ Order \in Seq(Nodes) /\ Len(Order) > 1
    /\ \A n \in Nodes : \E k \in 1 .. Len(Order) : Order[k] = n
    /\ \A j, k \in 1 .. Len(Order) : Order[j] = Order[k] => j = k

VARIABLES
    kind,                   \* the lock list.h chooses (SPINLOCK is as MUTEX); never changes
    next,                   \* the next field of each node
    last,                   \* list->last
    holders,                \* the threads that hold the lock of each node
    pc,                     \* where each thread is
    want,                   \* the node each thread is about to lock
    prev, curr, nxt,        \* prev_node, curr_node, next_node of each thread
    a, b                    \* the locals of list_swap_elements()

window == <<prev, curr, nxt>>
vars == <<kind, next, last, holders, pc, want, window, a, b>>

first == Order[1]           \* list->first, which no thread changes
Place(n) == CHOOSE k \in 1 .. Len(Order) : Order[k] = n
Chain == [n \in Nodes |-> IF Place(n) = Len(Order) THEN NULL ELSE Order[Place(n) + 1]]

(* main() has added every node at position 0, which never sets last.       *)
Init ==
    /\ kind \in {"MUTEX", "RWLOCK"}
    /\ next = Chain
    /\ last = NULL
    /\ holders = [n \in Nodes |-> {}]
    /\ pc = [t \in Threads |-> "begin"]
    /\ want = [t \in Threads |-> NULL]
    /\ prev = [t \in Threads |-> NULL]
    /\ curr = [t \in Threads |-> NULL]
    /\ nxt = [t \in Threads |-> NULL]
    /\ a = [t \in Threads |-> NULL]
    /\ b = [t \in Threads |-> NULL]

Goto(t, from, to) == pc[t] = from /\ pc' = [pc EXCEPT ![t] = to]
Set(f, t, v) == [f EXCEPT ![t] = v]
Next2(n) == IF next[n] = NULL THEN NULL ELSE next[next[n]]

-----------------------------------------------------------------------------
(* lock() and unlock().  Only the read-write lock lets several comparators *)
(* in at once.                                                             *)
Free_ReadersIgnored(t, n) ==
    IF kind = "RWLOCK" /\ t \in Comparators THEN TRUE ELSE holders[n] = {}

Free(t, n) ==
    IF kind = "RWLOCK" /\ t \in Comparators THEN holders[n] \cap Swappers = {}
                                            ELSE holders[n] = {}
Acquire(t, n) == Free(t, n) /\ holders' = [holders EXCEPT ![n] = @ \cup {t}]
Release_Nothing(t, n) == UNCHANGED holders
Release(t, n) == holders' = [holders EXCEPT ![n] = @ \ {t}]

(* Both kinds of thread begin a pass by locking the first two nodes.       *)
LockFirst(t) ==
    /\ Goto(t, "begin", "load2")
    /\ Acquire(t, first)
    /\ UNCHANGED <<kind, next, last, want, window, a, b>>

LoadSecond(t) ==
    /\ Goto(t, "load2", "lock2")
    /\ want' = Set(want, t, next[first])
    /\ UNCHANGED <<kind, next, last, holders, window, a, b>>

LockSecond(t) ==
    /\ Goto(t, "lock2", IF t \in Comparators THEN "window" ELSE "pair")
    /\ Acquire(t, want[t])
    /\ want' = Set(want, t, NULL)
    /\ UNCHANGED <<kind, next, last, window, a, b>>

LockNext(t) ==
    /\ Goto(t, "lockC", "shift") \/ Goto(t, "lockS", "choose")
    /\ Acquire(t, want[t])
    /\ want' = Set(want, t, NULL)
    /\ UNCHANGED <<kind, next, last, window, a, b>>

(* The end of a pass: unlock(prev_node); unlock(curr_node).                *)
UnlockPrev(t) ==
    /\ Goto(t, "end", "end2")
    /\ Release(t, prev[t])
    /\ UNCHANGED <<kind, next, last, want, window, a, b>>

UnlockCurr(t) ==
    /\ Goto(t, "end2", "begin")
    /\ Release(t, curr[t])
    /\ prev' = Set(prev, t, NULL)
    /\ curr' = Set(curr, t, NULL)
    /\ nxt' = Set(nxt, t, NULL)
    /\ UNCHANGED <<kind, next, last, want, a, b>>

-----------------------------------------------------------------------------
(* A comparator.                                                           *)
ReadWindow(t) ==
    /\ Goto(t, "window", "compare")
    /\ curr' = Set(curr, t, first)
    /\ nxt' = Set(nxt, t, next[first])
    /\ UNCHANGED <<kind, next, last, holders, want, prev, a, b>>

(* list_compare_values() finds its two nodes again, from prev_node or from *)
(* list->first (ComparedNodes below), and reads their values.              *)
Compare(t) ==
    /\ nxt[t] # NULL
    /\ Goto(t, "compare", IF prev[t] = NULL THEN "load" ELSE "drop")
    /\ UNCHANGED <<kind, next, last, holders, want, window, a, b>>

CompareEnd(t) ==
    /\ nxt[t] = NULL
    /\ Goto(t, "compare", "end")
    /\ UNCHANGED <<kind, next, last, holders, want, window, a, b>>

DropPrev(t) ==
    /\ Goto(t, "drop", "load")
    /\ Release(t, prev[t])
    /\ UNCHANGED <<kind, next, last, want, window, a, b>>

LoadNext_NoTest(t) ==
    /\ Goto(t, "load", "lockC")
    /\ want' = Set(want, t, next[nxt[t]])
    /\ UNCHANGED <<kind, next, last, holders, window, a, b>>

LoadNext(t) ==
    /\ Goto(t, "load", IF next[nxt[t]] = NULL THEN "shift" ELSE "lockC")
    /\ want' = Set(want, t, next[nxt[t]])
    /\ UNCHANGED <<kind, next, last, holders, window, a, b>>

Shift(t) ==
    /\ Goto(t, "shift", "compare")
    /\ prev' = Set(prev, t, curr[t])
    /\ curr' = Set(curr, t, nxt[t])
    /\ nxt' = Set(nxt, t, next[nxt[t]])
    /\ UNCHANGED <<kind, next, last, holders, want, a, b>>

Comparator(t) == ReadWindow(t) \/ Compare(t) \/ CompareEnd(t) \/ DropPrev(t) \/ LoadNext(t)
                 \/ Shift(t)

-----------------------------------------------------------------------------
(* A swapper.                                                              *)
ReadPair(t) ==
    /\ Goto(t, "pair", "test")
    /\ prev' = Set(prev, t, first)
    /\ curr' = Set(curr, t, next[first])
    /\ UNCHANGED <<kind, next, last, holders, want, nxt, a, b>>

Test(t) ==
    /\ Goto(t, "test", IF next[curr[t]] = NULL THEN "end" ELSE "lockS")
    /\ want' = Set(want, t, next[curr[t]])
    /\ UNCHANGED <<kind, next, last, holders, window, a, b>>

(* rand() % 4 chooses.                                                     *)
Choose(t) ==
    /\ Goto(t, "choose", "keep") \/ Goto(t, "choose", "swap")
    /\ nxt' = Set(nxt, t, next[curr[t]])
    /\ UNCHANGED <<kind, next, last, holders, want, prev, curr, a, b>>

(* list_swap_elements().                                                   *)
SwapLoad(t) ==
    /\ Goto(t, "swap", "swap1")
    /\ a' = Set(a, t, next[prev[t]])
    /\ b' = Set(b, t, Next2(prev[t]))
    /\ last' = IF Next2(prev[t]) = last THEN next[prev[t]] ELSE last
    /\ UNCHANGED <<kind, next, holders, want, window>>

SwapA_Forgotten(t) ==
    /\ Goto(t, "swap1", "swap2")
    /\ UNCHANGED <<kind, next, last, holders, want, window, a, b>>

SwapA(t) ==
    /\ Goto(t, "swap1", "swap2")
    /\ next' = Set(next, a[t], next[b[t]])
    /\ UNCHANGED <<kind, last, holders, want, window, a, b>>

SwapB(t) ==
    /\ Goto(t, "swap2", "swap3")
    /\ next' = Set(next, b[t], a[t])
    /\ UNCHANGED <<kind, last, holders, want, window, a, b>>

SwapPrev(t) ==
    /\ Goto(t, "swap3", "swapped")
    /\ next' = Set(next, prev[t], b[t])
    /\ a' = Set(a, t, NULL)
    /\ b' = Set(b, t, NULL)
    /\ UNCHANGED <<kind, last, holders, want, window>>

Swapped_Repeats(t) ==
    /\ Goto(t, "swapped", "choose")
    /\ curr' = Set(curr, t, nxt[t])
    /\ UNCHANGED <<kind, next, last, holders, want, prev, nxt, a, b>>

(* After a swap the node that was next_node is in front of curr_node.      *)
Swapped(t) ==
    /\ Goto(t, "swapped", "test")
    /\ Release(t, prev[t])
    /\ prev' = Set(prev, t, nxt[t])
    /\ nxt' = Set(nxt, t, NULL)
    /\ UNCHANGED <<kind, next, last, want, curr, a, b>>

Keep(t) ==
    /\ Goto(t, "keep", "test")
    /\ Release(t, prev[t])
    /\ prev' = Set(prev, t, curr[t])
    /\ curr' = Set(curr, t, nxt[t])
    /\ nxt' = Set(nxt, t, NULL)
    /\ UNCHANGED <<kind, next, last, want, a, b>>

Swapper(t) == ReadPair(t) \/ Test(t) \/ Choose(t) \/ SwapLoad(t) \/ SwapA(t) \/ SwapB(t)
              \/ SwapPrev(t) \/ Swapped(t) \/ Keep(t)

-----------------------------------------------------------------------------
Step(t) == LockFirst(t) \/ LoadSecond(t) \/ LockSecond(t) \/ LockNext(t) \/ UnlockPrev(t)
           \/ UnlockCurr(t) \/ (t \in Comparators /\ Comparator(t))
           \/ (t \in Swappers /\ Swapper(t))

Next == \E t \in Threads : Step(t)

Spec == Init /\ [][Next]_vars

(* Every thread runs; a thread inside the list that is repeatedly able to  *)
(* take the next lock takes it.                                            *)
FairSpec ==
    /\ Spec
    /\ \A t \in Threads : WF_vars(Step(t)) /\ SF_vars(LockSecond(t)) /\ SF_vars(LockNext(t))

-----------------------------------------------------------------------------
Shared == {"begin", "load2", "lock2", "end", "end2"}
ComparatorPcs == Shared \cup {"window", "compare", "drop", "load", "lockC", "shift"}
SwapperPcs == Shared \cup {"pair", "test", "lockS", "choose", "keep", "swap", "swap1", "swap2",
                           "swap3", "swapped"}

(* Every variable stays within its type, and lock() is never given a null  *)
(* pointer.                                                                *)
TypeOK ==
    /\ kind \in {"MUTEX", "RWLOCK"}
    /\ next \in [Nodes -> Pointers]
    /\ last \in Pointers
    /\ holders \in [Nodes -> SUBSET Threads]
    /\ pc \in [Threads -> ComparatorPcs \cup SwapperPcs]
    /\ \A t \in Comparators : pc[t] \in ComparatorPcs
    /\ \A t \in Swappers : pc[t] \in SwapperPcs
    /\ want \in [Threads -> Pointers] /\ prev \in [Threads -> Pointers]
    /\ curr \in [Threads -> Pointers] /\ nxt \in [Threads -> Pointers]
    /\ a \in [Threads -> Pointers] /\ b \in [Threads -> Pointers]
    /\ \A t \in Threads : pc[t] \in {"lock2", "lockC", "lockS"} => want[t] # NULL

(* The swapper has its three nodes.                                        *)
Triple == {"keep", "swap", "swap1", "swap2", "swap3", "swapped"}

(* Thread t should hold the lock of node n.                                *)
Holds(t, n) ==
    \/ n = first /\ pc[t] \in {"load2", "lock2", "window", "pair"}
    \/ n = next[first] /\ pc[t] \in {"window", "pair"}
    \/ n = prev[t] /\ pc[t] \in Triple \cup {"compare", "drop", "test", "lockS", "choose", "end"}
    \/ n = curr[t] /\ pc[t] \in (ComparatorPcs \cup SwapperPcs)
                               \ {"begin", "load2", "lock2", "window", "pair"}
    \/ n = nxt[t] /\ pc[t] \in Triple \cup {"compare", "drop", "load", "lockC", "shift"}
    \/ pc[t] = "shift" /\ n = next[nxt[t]]
    \/ pc[t] = "choose" /\ n = next[curr[t]]

(* Two threads share a node only if both are comparators of the RWLOCK     *)
(* build.                                                                  *)
Exclusive ==
    \A n \in Nodes : \A s, t \in holders[n] :
        s # t => kind = "RWLOCK" /\ s \in Comparators /\ t \in Comparators

(* Hand over hand: each thread holds exactly the locks of the two or three *)
(* nodes around it and leaves none behind, and shares them with nobody but *)
(* other readers.                                                          *)
LocksHeld == Exclusive /\ \A t \in Threads, n \in Nodes : t \in holders[n] <=> Holds(t, n)

ComparedNodes(t) == IF prev[t] = NULL THEN <<first, next[first]>>
                                      ELSE <<next[prev[t]], Next2(prev[t])>>

(* No stale pointer: what a thread has read from the list is still so when *)
(* it uses it.  The node it waits to lock is still the next one, its nodes *)
(* are neighbours, and list_compare_values() and list_swap_elements(),     *)
(* which find their nodes again, find the locked ones and no null pointer. *)
WindowCurrent ==
    \A t \in Threads :
        /\ pc[t] = "lock2" => want[t] = next[first]
        /\ pc[t] = "compare" /\ nxt[t] # NULL => ComparedNodes(t) = <<curr[t], nxt[t]>>
        /\ pc[t] \in {"compare", "drop", "load", "lockC", "shift"} => next[curr[t]] = nxt[t]
        /\ pc[t] = "lockC" => want[t] = next[nxt[t]]
        /\ pc[t] \in {"test", "lockS", "choose", "keep", "swap", "swap1"} =>
              next[prev[t]] = curr[t]
        /\ pc[t] = "lockS" => want[t] = next[curr[t]]
        /\ pc[t] \in {"keep", "swap", "swap1"} => next[curr[t]] = nxt[t] /\ nxt[t] # NULL
        /\ pc[t] \in {"swap1", "swap2", "swap3"} => a[t] = curr[t] /\ b[t] = nxt[t]

(* The list as it will be when the swaps that have made their first store  *)
(* are finished.                                                           *)
Swapping == {t \in Swappers : pc[t] \in {"swap2", "swap3"}}
succBar == [n \in Nodes |->
    IF \E t \in Swapping : prev[t] = n THEN b[CHOOSE t \in Swapping : prev[t] = n]
    ELSE IF \E t \in Swapping : b[t] = n THEN a[CHOOSE t \in Swapping : b[t] = n]
    ELSE next[n]]

Atomic == INSTANCE AdjacentSwaps WITH succ <- succBar, succ0 <- Chain

(* Concurrent swaps are atomic exchanges of neighbours: whatever the       *)
(* interleaving of their stores, none is lost or half done.                *)
ImplementsSwaps == Atomic!Spec

(* The node k steps from first.                                            *)
Along[k \in 0 .. Cardinality(Nodes)] ==
    IF k = 0 THEN first ELSE IF Along[k - 1] = NULL THEN NULL ELSE succBar[Along[k - 1]]

(* The list still holds every node once, from first to NULL.               *)
ListIntact ==
    LET size == Cardinality(Nodes)
    IN  {Along[k] : k \in 0 .. size - 1} = Nodes /\ Along[size] = NULL

(* A thread that has entered the list comes out at its end: no two threads *)
(* wait for each other, and a swapper's window moves on with every swap.   *)
PassCompletes == \A t \in Threads : pc[t] = "load2" ~> pc[t] = "begin"
=============================================================================
