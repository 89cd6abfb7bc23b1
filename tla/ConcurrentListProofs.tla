------------------------ MODULE ConcurrentListProofs ------------------------
(***************************************************************************)
(* Proofs about the hand-over-hand list of 2-term/2.3, for any number of   *)
(* threads and nodes and both kinds of lock.                               *)
(***************************************************************************)
EXTENDS ConcurrentList, LeastNumber, FiniteSetTheorems, TLAPS

Inside == (ComparatorPcs \cup SwapperPcs) \ {"begin", "load2", "lock2", "window", "pair"}

(* What a thread knows of its surroundings: its pointers are distinct      *)
(* nodes where the code follows them, they are neighbours in the list, and *)
(* the stores of a swap have been made in order.                           *)
Good(t) ==
    /\ pc[t] = "lock2" => want[t] = next[first]
    /\ pc[t] \in {"window", "pair"} => next[first] # NULL /\ next[first] # first
    /\ pc[t] \in {"begin", "load2", "lock2", "window", "pair"} => prev[t] = NULL
    /\ pc[t] \in Inside => curr[t] # NULL
    /\ pc[t] \in {"compare", "drop"} =>
          IF prev[t] = NULL THEN curr[t] = first
                            ELSE next[prev[t]] = curr[t] /\ prev[t] # curr[t] /\ nxt[t] # prev[t]
    /\ pc[t] \in {"compare", "drop", "load", "lockC", "shift"} =>
          next[curr[t]] = nxt[t] /\ nxt[t] # curr[t]
    /\ pc[t] \in {"drop", "load", "lockC", "shift"} => nxt[t] # NULL
    /\ pc[t] = "lockC" => want[t] = next[nxt[t]]
    /\ pc[t] \in Triple \cup {"drop", "test", "lockS", "choose", "end"} => prev[t] # NULL
    /\ pc[t] = "compare" /\ nxt[t] = NULL => prev[t] # NULL
    /\ pc[t] \in Triple => nxt[t] # NULL /\ nxt[t] # prev[t] /\ nxt[t] # curr[t]
    /\ pc[t] \in Triple \cup {"test", "lockS", "choose", "end"} => prev[t] # curr[t]
    /\ pc[t] \in {"test", "lockS", "choose", "keep", "swap", "swap1"} => next[prev[t]] = curr[t]
    /\ pc[t] = "lockS" => want[t] = next[curr[t]]
    /\ pc[t] = "choose" => next[curr[t]] \notin {NULL, prev[t], curr[t]}
    /\ pc[t] \in {"keep", "swap", "swap1"} => next[curr[t]] = nxt[t]
    /\ pc[t] \in {"swap1", "swap2", "swap3"} => a[t] = curr[t] /\ b[t] = nxt[t]
    /\ pc[t] = "swap3" => next[nxt[t]] = curr[t]
    /\ pc[t] = "swapped" => next[prev[t]] = nxt[t] /\ next[nxt[t]] = curr[t]

Own(t) == Good(t) /\ \A n \in Nodes : t \in holders[n] <=> Holds(t, n)

(* The nodes have places: each place is taken once, first is at place 1,   *)
(* and every node's successor has the next place.                          *)
IsPlacing(r) ==
    /\ r[first] = 1
    /\ \A m, n \in Nodes : r[m] = r[n] => m = n
    /\ \A n \in Nodes : IF r[n] = Len(Order) THEN succBar[n] = NULL
                        ELSE succBar[n] # NULL /\ r[succBar[n]] = r[n] + 1

Placed == \E r \in [Nodes -> 1 .. Len(Order)] : IsPlacing(r)

ThreadInv == TypeOK /\ Exclusive /\ \A t \in Threads : Own(t)

IInv == ThreadInv /\ Placed

-----------------------------------------------------------------------------
(* What the mapping makes of the list, without its CHOOSE.                 *)
SuccFacts ==
    /\ succBar = [n \in Nodes |-> succBar[n]]
    /\ \A s \in Swapping : succBar[prev[s]] = b[s] /\ succBar[b[s]] = a[s]
    /\ \A n \in Nodes : (\A s \in Swapping : n # prev[s] /\ n # b[s]) => succBar[n] = next[n]

LEMMA FirstNode == first \in Nodes /\ Len(Order) \in Nat /\ Len(Order) > 1
BY ListAssumption DEF first

(* The nodes of a swap belong to one swapper.                              *)
LEMMA SwapperAlone ==
    ASSUME ThreadInv, NEW s \in Swapping, NEW t \in Threads, NEW n \in Nodes,
           n = prev[s] \/ n = curr[s] \/ n = nxt[s], t \in holders[n]
    PROVE  t = s
<1>1. pc[s] \in Triple /\ s \in Threads /\ s \notin Comparators
  BY ListAssumption DEF Swapping, Triple, Threads
<1>2. Holds(s, n)
  BY <1>1 DEF Holds, Triple, SwapperPcs, ComparatorPcs, Swapping
<1>3. s \in holders[n]
  BY <1>1, <1>2 DEF ThreadInv, Own
<1> QED BY <1>1, <1>3 DEF ThreadInv, Exclusive

LEMMA SuccLemma == ThreadInv => SuccFacts
<1> SUFFICES ASSUME ThreadInv PROVE SuccFacts
  OBVIOUS
<1>1. succBar = [n \in Nodes |-> succBar[n]]
  BY DEF succBar
<1>2. ASSUME NEW s \in Swapping
      PROVE  /\ s \in Threads /\ prev[s] \in Nodes /\ b[s] \in Nodes /\ b[s] = nxt[s]
             /\ prev[s] # b[s] /\ s \in holders[prev[s]] /\ s \in holders[b[s]]
  BY <1>2 DEF ThreadInv, TypeOK, Own, Holds, Good, Swapping, Triple, Threads, Pointers
<1>3. ASSUME NEW s \in Swapping, NEW t \in Swapping, prev[t] = prev[s] \/ b[t] = b[s]
      PROVE  t = s
  BY <1>2, <1>3, SwapperAlone
<1>4. ASSUME NEW s \in Swapping, NEW t \in Swapping PROVE prev[t] # b[s]
  BY <1>2, <1>4, SwapperAlone
<1>5. ASSUME NEW s \in Swapping PROVE succBar[prev[s]] = b[s] /\ succBar[b[s]] = a[s]
  <2>1. (CHOOSE t \in Swapping : prev[t] = prev[s]) = s
    BY <1>3, <1>5
  <2>2. (CHOOSE t \in Swapping : b[t] = b[s]) = s
    BY <1>3, <1>5
  <2>3. prev[s] \in Nodes /\ b[s] \in Nodes
    BY <1>2, <1>5
  <2>4. succBar[prev[s]] = b[s]
    BY <2>1, <2>3, <1>5 DEF succBar
  <2>5. succBar[b[s]] = a[s]
    BY <2>2, <2>3, <1>4, <1>5 DEF succBar
  <2> QED BY <2>4, <2>5
<1>6. ASSUME NEW n \in Nodes, \A s \in Swapping : n # prev[s] /\ n # b[s]
      PROVE  succBar[n] = next[n]
  BY <1>6 DEF succBar
<1> QED BY <1>1, <1>5, <1>6 DEF SuccFacts

(* A node a thread holds outside a swap has the successor its field says.  *)
LEMMA HeldSucc ==
    ASSUME ThreadInv, NEW t \in Threads, t \notin Swapping, NEW n \in Nodes, t \in holders[n]
    PROVE  succBar[n] = next[n]
<1>1. ASSUME NEW s \in Swapping PROVE n # prev[s] /\ n # b[s]
  BY <1>1, SwapperAlone DEF ThreadInv, Own, Good, Swapping, Threads
<1> QED BY <1>1, SuccLemma DEF SuccFacts

-----------------------------------------------------------------------------
Locals(s) == <<pc[s], want[s], prev[s], curr[s], nxt[s], a[s], b[s]>>

(* A thread that does not move and whose nodes keep their next fields      *)
(* keeps what it knows.                                                    *)
LEMMA Frame ==
    ASSUME TypeOK, NEW s \in Threads, Own(s), UNCHANGED Locals(s),
           \A n \in Nodes : s \in holders[n] => next'[n] = next[n],
           \A n \in Nodes : s \in holders'[n] <=> s \in holders[n]
    PROVE  Own(s)'
<1> USE FirstNode DEF TypeOK, Locals, Threads, Pointers, Triple, Inside, Shared, ComparatorPcs,
                      SwapperPcs
<1>1. pc[s] \in ComparatorPcs \cup SwapperPcs
  OBVIOUS
<1>2. \A n \in Nodes : Holds(s, n) => next'[n] = next[n]
  BY DEF Own
<1>3. Good(s)'
  BY <1>1, <1>2 DEF Own, Good, Holds
<1>4. \A n \in Nodes : Holds(s, n)' <=> Holds(s, n)
  BY <1>1, <1>2 DEF Own, Good, Holds
<1> QED BY <1>3, <1>4 DEF Own

-----------------------------------------------------------------------------
(* Thread t moves and nobody else; what it writes has its type.            *)
Moves(t) ==
    /\ pc' = [pc EXCEPT ![t] = pc'[t]] /\ want' = [want EXCEPT ![t] = want'[t]]
    /\ prev' = [prev EXCEPT ![t] = prev'[t]] /\ curr' = [curr EXCEPT ![t] = curr'[t]]
    /\ nxt' = [nxt EXCEPT ![t] = nxt'[t]]
    /\ a' = [a EXCEPT ![t] = a'[t]] /\ b' = [b EXCEPT ![t] = b'[t]]

Typed(t) ==
    /\ t \in Comparators => pc'[t] \in ComparatorPcs
    /\ t \in Swappers => pc'[t] \in SwapperPcs
    /\ want'[t] \in Pointers /\ prev'[t] \in Pointers /\ curr'[t] \in Pointers
    /\ nxt'[t] \in Pointers /\ a'[t] \in Pointers /\ b'[t] \in Pointers
    /\ pc'[t] \in {"lock2", "lockC", "lockS"} => want'[t] # NULL
    /\ last' \in Pointers

LEMMA TypeStep ==
    ASSUME TypeOK, NEW t \in Threads, Moves(t), Typed(t), kind' = kind,
           next' \in [Nodes -> Pointers], holders' \in [Nodes -> SUBSET Threads]
    PROVE  TypeOK' /\ \A s \in Threads \ {t} : UNCHANGED Locals(s)
<1>1. ASSUME NEW s \in Threads \ {t} PROVE UNCHANGED Locals(s)
  BY <1>1 DEF TypeOK, Moves, Locals
<1>2. pc' \in [Threads -> ComparatorPcs \cup SwapperPcs]
  BY DEF TypeOK, Moves, Typed, Threads
<1>3. /\ \A s \in Comparators : pc'[s] \in ComparatorPcs
      /\ \A s \in Swappers : pc'[s] \in SwapperPcs
  BY DEF TypeOK, Moves, Typed, Threads
<1>4. /\ want' \in [Threads -> Pointers] /\ prev' \in [Threads -> Pointers]
      /\ curr' \in [Threads -> Pointers] /\ nxt' \in [Threads -> Pointers]
      /\ a' \in [Threads -> Pointers] /\ b' \in [Threads -> Pointers]
  BY DEF TypeOK, Moves, Typed
<1>5. \A s \in Threads : pc'[s] \in {"lock2", "lockC", "lockS"} => want'[s] # NULL
  BY DEF TypeOK, Moves, Typed
<1> QED BY <1>1, <1>2, <1>3, <1>4, <1>5 DEF TypeOK, Typed

(* A step of thread t leaves the other threads and their locks alone, and  *)
(* changes the next field only of nodes that t alone holds.                *)
Only(t) ==
    \A s \in Threads \ {t} :
        /\ UNCHANGED Locals(s)
        /\ \A n \in Nodes : s \in holders'[n] <=> s \in holders[n]
        /\ \A n \in Nodes : s \in holders[n] => next'[n] = next[n]

LEMMA Assemble ==
    ASSUME ThreadInv, NEW t \in Threads, Only(t), TypeOK', Exclusive', Own(t)'
    PROVE  ThreadInv'
<1>1. ASSUME NEW s \in Threads PROVE Own(s)'
  BY <1>1, Frame DEF ThreadInv, Only
<1> QED BY <1>1 DEF ThreadInv

(* Steps that change neither a lock nor a next field.                      *)
LEMMA LocalStep ==
    ASSUME ThreadInv, NEW t \in Threads, UNCHANGED <<kind, next, holders>>,
           Moves(t), Typed(t), Own(t)'
    PROVE  ThreadInv'
<1>1. TypeOK' /\ \A s \in Threads \ {t} : UNCHANGED Locals(s)
  BY TypeStep DEF ThreadInv, TypeOK
<1>2. Only(t)
  BY <1>1 DEF Only
<1>3. Exclusive'
  BY DEF ThreadInv, Exclusive
<1> QED BY <1>1, <1>2, <1>3, Assemble

(* Steps that release a lock.                                              *)
LEMMA ReleaseStep ==
    ASSUME ThreadInv, NEW t \in Threads, NEW m \in Nodes, Release(t, m), UNCHANGED <<kind, next>>,
           Moves(t), Typed(t), Own(t)'
    PROVE  ThreadInv'
<1>1. holders \in [Nodes -> SUBSET Threads] /\ holders' \in [Nodes -> SUBSET Threads]
  BY DEF ThreadInv, TypeOK, Release
<1>2. TypeOK' /\ \A s \in Threads \ {t} : UNCHANGED Locals(s)
  BY <1>1, TypeStep DEF ThreadInv, TypeOK
<1>3. Only(t)
  BY <1>1, <1>2 DEF Only, Release
<1>4. Exclusive'
  BY <1>1 DEF ThreadInv, Exclusive, Release
<1> QED BY <1>2, <1>3, <1>4, Assemble

(* Steps that take a lock.                                                 *)
LEMMA AcquireStep ==
    ASSUME ThreadInv, NEW t \in Threads, NEW m \in Nodes, Acquire(t, m), UNCHANGED <<kind, next>>,
           Moves(t), Typed(t), Own(t)'
    PROVE  ThreadInv'
<1>1. holders \in [Nodes -> SUBSET Threads] /\ holders' \in [Nodes -> SUBSET Threads]
  BY DEF ThreadInv, TypeOK, Acquire
<1>2. TypeOK' /\ \A s \in Threads \ {t} : UNCHANGED Locals(s)
  BY <1>1, TypeStep DEF ThreadInv, TypeOK
<1>3. Only(t)
  BY <1>1, <1>2 DEF Only, Acquire
<1>4. Exclusive'
  BY <1>1 DEF ThreadInv, Exclusive, Acquire, Free, Threads
<1> QED BY <1>2, <1>3, <1>4, Assemble

(* Steps of a swap that store into one of the swapper's nodes.             *)
LEMMA StoreStep ==
    ASSUME ThreadInv, NEW t \in Swappers, NEW m \in Nodes, t \in holders[m],
           \A n \in Nodes : n # m => next'[n] = next[n], next' \in [Nodes -> Pointers],
           UNCHANGED <<kind, holders>>, Moves(t), Typed(t), Own(t)'
    PROVE  ThreadInv'
<1>1. t \in Threads /\ t \notin Comparators
  BY ListAssumption DEF Threads
<1>2. TypeOK' /\ \A s \in Threads \ {t} : UNCHANGED Locals(s)
  BY <1>1, TypeStep DEF ThreadInv, TypeOK
<1>3. Only(t)
  BY <1>1, <1>2 DEF Only, ThreadInv, Exclusive
<1>4. Exclusive'
  BY DEF ThreadInv, Exclusive
<1> QED BY <1>1, <1>2, <1>3, <1>4, Assemble

(* A list with places has no cycle.                                        *)
LEMMA NoCycle ==
    ASSUME IInv
    PROVE  /\ succBar[first] # NULL
           /\ \A n \in Nodes : succBar[n] \in Pointers /\ succBar[n] # n /\ succBar[n] # first
           /\ \A n \in Nodes : succBar[n] # NULL => succBar[succBar[n]] # n
<1>1. \A n \in Nodes : succBar[n] \in Pointers
  <2>1. \A s \in Swapping : a[s] \in Pointers /\ b[s] \in Pointers
    BY DEF IInv, ThreadInv, TypeOK, Swapping, Threads
  <2>2. \A n \in Nodes : next[n] \in Pointers
    BY DEF IInv, ThreadInv, TypeOK
  <2> QED BY <2>1, <2>2 DEF succBar
<1>2. PICK r \in [Nodes -> 1 .. Len(Order)] : IsPlacing(r)
  BY DEF IInv, Placed
<1>3. /\ r[first] = 1 /\ \A n \in Nodes : r[n] \in Nat
      /\ \A n \in Nodes : succBar[n] # NULL => r[succBar[n]] = r[n] + 1
      /\ succBar[first] # NULL
  BY <1>2, FirstNode DEF IsPlacing
<1>4. \A n \in Nodes : succBar[n] # NULL => succBar[n] \in Nodes
  BY <1>1 DEF Pointers
<1>5. ASSUME NEW n \in Nodes, succBar[n] # NULL
      PROVE  succBar[n] # n /\ succBar[n] # first /\ succBar[succBar[n]] # n
  <2>1. r[succBar[n]] = r[n] + 1 /\ r[n] \in Nat /\ r[n] > 0
    BY <1>2, <1>3, <1>5
  <2>2. succBar[succBar[n]] # NULL => r[succBar[succBar[n]]] = r[n] + 2
    BY <2>1, <1>3, <1>4, <1>5
  <2>3. r[succBar[n]] # r[n] /\ r[succBar[n]] # 1
    BY <2>1
  <2>4. ASSUME succBar[succBar[n]] = n PROVE FALSE
    <3>1. r[n] = r[n] + 2
      BY <2>2, <2>4, ListAssumption
    <3> QED BY <3>1, <2>1
  <2> QED BY <2>3, <2>4, <1>3
<1>6. \A n \in Nodes : n # NULL
  BY ListAssumption
<1> QED BY <1>1, <1>3, <1>5, <1>6, FirstNode

-----------------------------------------------------------------------------
(* Every action keeps what the thread that takes it knows.                 *)
LEMMA ThreadStep == ASSUME IInv, NEW t \in Threads, Step(t) PROVE ThreadInv'
<1> USE FirstNode, ListAssumption DEF Shared, ComparatorPcs, SwapperPcs, Inside, Triple,
                                      Pointers
<1>a. TypeOK /\ Own(t)
  BY DEF IInv, ThreadInv
<1>b. /\ last \in Pointers /\ want[t] \in Pointers /\ prev[t] \in Pointers
      /\ curr[t] \in Pointers /\ nxt[t] \in Pointers /\ a[t] \in Pointers /\ b[t] \in Pointers
      /\ \A n \in Nodes : next[n] \in Pointers
  BY <1>a DEF TypeOK
<1>1. CASE LockFirst(t)
  <2>1. /\ Moves(t)
        /\ pc[t] = "begin" /\ pc'[t] = "load2"
        /\ want'[t] = want[t] /\ prev'[t] = prev[t] /\ curr'[t] = curr[t]
           /\ nxt'[t] = nxt[t] /\ a'[t] = a[t] /\ b'[t] = b[t]
    BY <1>1, <1>a DEF TypeOK, Moves, LockFirst, Goto, Set, window
  <2>2. first \in Nodes
    BY <1>a, <2>1 DEF TypeOK, Own, Good, Holds
  <2>3. /\ UNCHANGED <<kind, next, last>> /\ Acquire(t, first)
        /\ \A n \in Nodes : t \in holders'[n] <=> t \in holders[n] \/ n = first
    BY <1>1, <1>a, <2>2 DEF TypeOK, LockFirst, Acquire
  <2>4. Good(t)'
    BY <1>a, <2>1, <2>2, <2>3 DEF TypeOK, Own, Good
  <2>5. \A n \in Nodes : (t \in holders[n] <=> Holds(t, n))'
    BY <1>a, <2>1, <2>2, <2>3 DEF TypeOK, Own, Good, Holds
  <2>6. Typed(t)
    BY <1>1, <1>b, <2>1, <2>2, <2>3 DEF Typed
  <2> QED BY <1>1, <1>a, <2>1, <2>2, <2>3, <2>4, <2>5, <2>6, AcquireStep DEF IInv, Own
<1>2. CASE LoadSecond(t)
  <2>1. /\ Moves(t)
        /\ pc[t] = "load2" /\ pc'[t] = "lock2"
        /\ want'[t] = next[first]
        /\ prev'[t] = prev[t] /\ curr'[t] = curr[t] /\ nxt'[t] = nxt[t] /\ a'[t] = a[t]
           /\ b'[t] = b[t]
    BY <1>2, <1>a DEF TypeOK, Moves, LoadSecond, Goto, Set, window
  <2>2. next[first] # NULL /\ next[first] # first
    <3>1. t \in holders[first]
      BY <1>a, <2>1 DEF TypeOK, Own, Good, Holds
    <3>2. t \notin Swapping
      BY <2>1 DEF Swapping
    <3> QED BY <1>a, <3>1, <3>2, HeldSucc, NoCycle DEF IInv
  <2>3. UNCHANGED <<kind, next, last, holders>>
    BY <1>2 DEF LoadSecond
  <2>4. Good(t)'
    BY <1>a, <2>1, <2>2, <2>3 DEF TypeOK, Own, Good
  <2>5. \A n \in Nodes : (t \in holders[n] <=> Holds(t, n))'
    BY <1>a, <2>1, <2>2, <2>3 DEF TypeOK, Own, Good, Holds
  <2>6. Typed(t)
    BY <1>2, <1>b, <2>1, <2>2, <2>3 DEF Typed
  <2> QED BY <1>2, <1>a, <2>1, <2>3, <2>4, <2>5, <2>6, LocalStep DEF IInv, Own
<1>3. CASE LockSecond(t)
  <2>1. /\ Moves(t)
        /\ pc[t] = "lock2" /\ pc'[t] = IF t \in Comparators THEN "window" ELSE "pair"
        /\ want'[t] = NULL
        /\ prev'[t] = prev[t] /\ curr'[t] = curr[t] /\ nxt'[t] = nxt[t] /\ a'[t] = a[t]
           /\ b'[t] = b[t]
    BY <1>3, <1>a DEF TypeOK, Moves, LockSecond, Goto, Set, window
  <2>2. next[first] # NULL /\ next[first] # first
    <3>1. t \in holders[first]
      BY <1>a, <2>1 DEF TypeOK, Own, Good, Holds
    <3>2. t \notin Swapping
      BY <2>1 DEF Swapping
    <3> QED BY <1>a, <3>1, <3>2, HeldSucc, NoCycle DEF IInv
  <2>3. want[t] \in Nodes
    BY <1>a, <2>1 DEF TypeOK, Own, Good, Holds
  <2>4. /\ UNCHANGED <<kind, next, last>> /\ Acquire(t, want[t])
        /\ \A n \in Nodes : t \in holders'[n] <=> t \in holders[n] \/ n = want[t]
    BY <1>3, <1>a, <2>3 DEF TypeOK, LockSecond, Acquire
  <2>5. Good(t)'
    BY <1>a, <2>1, <2>2, <2>3, <2>4 DEF TypeOK, Own, Good
  <2>6. \A n \in Nodes : (t \in holders[n] <=> Holds(t, n))'
    <3>1. \A n \in Nodes : t \in holders[n] <=> n \in {first}
      BY <1>a, <2>1 DEF Own, Holds
    <3>2. \A n \in Nodes : Holds(t, n)' <=> n \in {first, next[first]}
      BY <2>1, <2>4 DEF Holds
    <3> QED BY <1>a, <2>1, <2>4, <3>1, <3>2 DEF Own, Good
  <2>7. Typed(t)
    BY <1>3, <1>b, <2>1, <2>2, <2>3, <2>4 DEF Typed
  <2> QED BY <1>3, <1>a, <2>1, <2>3, <2>4, <2>5, <2>6, <2>7, AcquireStep DEF IInv, Own
<1>4. CASE LockNext(t)
  <2>1. /\ Moves(t)
        /\ \/ pc[t] = "lockC" /\ pc'[t] = "shift"
           \/ pc[t] = "lockS" /\ pc'[t] = "choose"
        /\ want'[t] = NULL
        /\ prev'[t] = prev[t] /\ curr'[t] = curr[t] /\ nxt'[t] = nxt[t] /\ a'[t] = a[t]
           /\ b'[t] = b[t]
    BY <1>4, <1>a DEF TypeOK, Moves, LockNext, Goto, Set, window
  <2>2. pc[t] = "lockS" => next[curr[t]] \notin {NULL, prev[t], curr[t]}
    <3> SUFFICES ASSUME pc[t] = "lockS"
                 PROVE  next[curr[t]] \notin {NULL, prev[t], curr[t]}
      OBVIOUS
    <3>1. /\ prev[t] \in Nodes /\ curr[t] \in Nodes
          /\ t \in holders[prev[t]] /\ t \in holders[curr[t]]
      BY <1>a, <2>1 DEF TypeOK, Own, Good, Holds
    <3>2. t \notin Swapping
      BY <2>1 DEF Swapping
    <3>3. succBar[prev[t]] = curr[t] /\ succBar[curr[t]] = next[curr[t]]
      BY <1>a, <2>1, <3>1, <3>2, HeldSucc DEF IInv, Own, Good
    <3>4. next[curr[t]] # NULL
      BY <1>a, <2>1 DEF TypeOK, Own, Good
    <3> QED BY <3>1, <3>3, <3>4, NoCycle
  <2>3. want[t] \in Nodes
    BY <1>a, <2>1 DEF TypeOK, Own, Good, Holds
  <2>4. /\ UNCHANGED <<kind, next, last>> /\ Acquire(t, want[t])
        /\ \A n \in Nodes : t \in holders'[n] <=> t \in holders[n] \/ n = want[t]
    BY <1>4, <1>a, <2>3 DEF TypeOK, LockNext, Acquire
  <2>5. Good(t)'
    BY <1>a, <2>1, <2>2, <2>3, <2>4 DEF TypeOK, Own, Good
  <2>6. \A n \in Nodes : (t \in holders[n] <=> Holds(t, n))'
    <3>1. CASE pc[t] = "lockC"
      <4>1. \A n \in Nodes : t \in holders[n] <=> n \in {curr[t], nxt[t]}
        BY <1>a, <3>1 DEF Own, Holds
      <4>2. want[t] = next[nxt[t]] /\ pc'[t] = "shift"
        BY <1>a, <2>1, <3>1 DEF Own, Good
      <4>3. \A n \in Nodes : Holds(t, n)' <=> n \in {curr[t], nxt[t], next[nxt[t]]}
        BY <2>1, <2>4, <4>2 DEF Holds
      <4> QED BY <2>4, <4>1, <4>2, <4>3
    <3>2. CASE pc[t] = "lockS"
      <4>1. \A n \in Nodes : t \in holders[n] <=> n \in {prev[t], curr[t]}
        BY <1>a, <3>2 DEF Own, Holds
      <4>2. want[t] = next[curr[t]] /\ pc'[t] = "choose"
        BY <1>a, <2>1, <3>2 DEF Own, Good
      <4>3. \A n \in Nodes : Holds(t, n)' <=> n \in {prev[t], curr[t], next[curr[t]]}
        BY <2>1, <2>4, <4>2 DEF Holds
      <4> QED BY <2>4, <4>1, <4>2, <4>3
    <3> QED BY <2>1, <3>1, <3>2
  <2>7. Typed(t)
    BY <1>4, <1>a, <2>1, <2>2, <2>3, <2>4 DEF Typed, TypeOK, Own, Good, Threads
  <2> QED BY <1>4, <1>a, <2>1, <2>3, <2>4, <2>5, <2>6, <2>7, AcquireStep DEF IInv, Own
<1>5. CASE UnlockPrev(t)
  <2>1. /\ Moves(t)
        /\ pc[t] = "end" /\ pc'[t] = "end2"
        /\ want'[t] = want[t] /\ prev'[t] = prev[t] /\ curr'[t] = curr[t]
           /\ nxt'[t] = nxt[t] /\ a'[t] = a[t] /\ b'[t] = b[t]
    BY <1>5, <1>a DEF TypeOK, Moves, UnlockPrev, Goto, Set, window
  <2>2. prev[t] \in Nodes
    BY <1>a, <2>1 DEF TypeOK, Own, Good, Holds
  <2>3. /\ UNCHANGED <<kind, next, last>> /\ Release(t, prev[t])
        /\ \A n \in Nodes : t \in holders'[n] <=> t \in holders[n] /\ n # prev[t]
    BY <1>5, <1>a, <2>2 DEF TypeOK, UnlockPrev, Release
  <2>4. Good(t)'
    BY <1>a, <2>1, <2>2, <2>3 DEF TypeOK, Own, Good
  <2>5. \A n \in Nodes : (t \in holders[n] <=> Holds(t, n))'
    <3>1. \A n \in Nodes : t \in holders[n] <=> n \in {prev[t], curr[t]}
      BY <1>a, <2>1 DEF Own, Holds
    <3>2. \A n \in Nodes : Holds(t, n)' <=> n \in {curr[t]}
      BY <2>1, <2>3 DEF Holds
    <3> QED BY <1>a, <2>1, <2>3, <3>1, <3>2 DEF Own, Good
  <2>6. Typed(t)
    BY <1>5, <1>b, <2>1, <2>2, <2>3 DEF Typed
  <2> QED BY <1>5, <1>a, <2>1, <2>2, <2>3, <2>4, <2>5, <2>6, ReleaseStep DEF IInv, Own
<1>6. CASE UnlockCurr(t)
  <2>1. /\ Moves(t)
        /\ pc[t] = "end2" /\ pc'[t] = "begin"
        /\ prev'[t] = NULL /\ curr'[t] = NULL /\ nxt'[t] = NULL
        /\ want'[t] = want[t] /\ a'[t] = a[t] /\ b'[t] = b[t]
    BY <1>6, <1>a DEF TypeOK, Moves, UnlockCurr, Goto, Set, window
  <2>2. curr[t] \in Nodes
    BY <1>a, <2>1 DEF TypeOK, Own, Good, Holds
  <2>3. /\ UNCHANGED <<kind, next, last>> /\ Release(t, curr[t])
        /\ \A n \in Nodes : t \in holders'[n] <=> t \in holders[n] /\ n # curr[t]
    BY <1>6, <1>a, <2>2 DEF TypeOK, UnlockCurr, Release
  <2>4. Good(t)'
    BY <1>a, <2>1, <2>2, <2>3 DEF TypeOK, Own, Good
  <2>5. \A n \in Nodes : (t \in holders[n] <=> Holds(t, n))'
    <3>1. \A n \in Nodes : t \in holders[n] <=> n \in {curr[t]}
      BY <1>a, <2>1 DEF Own, Holds
    <3>2. \A n \in Nodes : Holds(t, n)' <=> n \in {}
      BY <2>1, <2>3 DEF Holds
    <3> QED BY <1>a, <2>1, <2>3, <3>1, <3>2 DEF Own, Good
  <2>6. Typed(t)
    BY <1>6, <1>b, <2>1, <2>2, <2>3 DEF Typed
  <2> QED BY <1>6, <1>a, <2>1, <2>2, <2>3, <2>4, <2>5, <2>6, ReleaseStep DEF IInv, Own
<1>7. CASE t \in Comparators /\ ReadWindow(t)
  <2>1. /\ Moves(t)
        /\ pc[t] = "window" /\ pc'[t] = "compare"
        /\ curr'[t] = first /\ nxt'[t] = next[first]
        /\ want'[t] = want[t] /\ prev'[t] = prev[t] /\ a'[t] = a[t] /\ b'[t] = b[t]
    BY <1>7, <1>a DEF TypeOK, Moves, ReadWindow, Goto, Set, window
  <2>2. UNCHANGED <<kind, next, last, holders>>
    BY <1>7 DEF ReadWindow
  <2>3. Good(t)'
    BY <1>a, <2>1, <2>2 DEF TypeOK, Own, Good
  <2>4. \A n \in Nodes : (t \in holders[n] <=> Holds(t, n))'
    <3>1. \A n \in Nodes : t \in holders[n] <=> n \in {first, next[first]}
      BY <1>a, <2>1 DEF Own, Holds
    <3>2. prev[t] = NULL
      BY <1>a, <2>1 DEF Own, Good
    <3>3. \A n \in Nodes : Holds(t, n)' <=> n \in {first, next[first]}
      BY <2>1, <2>2, <3>2 DEF Holds
    <3> QED BY <2>2, <3>1, <3>3
  <2>5. Typed(t)
    BY <1>7, <1>b, <2>1, <2>2 DEF Typed
  <2> QED BY <1>7, <1>a, <2>1, <2>2, <2>3, <2>4, <2>5, LocalStep DEF IInv, Own
<1>8. CASE t \in Comparators /\ Compare(t)
  <2>1. /\ Moves(t)
        /\ pc[t] = "compare" /\ nxt[t] # NULL
        /\ pc'[t] = IF prev[t] = NULL THEN "load" ELSE "drop"
        /\ want'[t] = want[t] /\ prev'[t] = prev[t] /\ curr'[t] = curr[t]
           /\ nxt'[t] = nxt[t] /\ a'[t] = a[t] /\ b'[t] = b[t]
    BY <1>8, <1>a DEF TypeOK, Moves, Compare, Goto, Set, window
  <2>2. UNCHANGED <<kind, next, last, holders>>
    BY <1>8 DEF Compare
  <2>3. Good(t)'
    BY <1>a, <2>1, <2>2 DEF TypeOK, Own, Good
  <2>4. \A n \in Nodes : (t \in holders[n] <=> Holds(t, n))'
    <3>1. \A n \in Nodes : t \in holders[n] <=> n \in {prev[t], curr[t], nxt[t]}
      BY <1>a, <2>1 DEF Own, Holds
    <3>2. CASE prev[t] = NULL
      <4>1. \A n \in Nodes : Holds(t, n)' <=> n \in {curr[t], nxt[t]}
        BY <2>1, <2>2, <3>2 DEF Holds
      <4> QED BY <2>2, <3>1, <3>2, <4>1
    <3>3. CASE prev[t] # NULL
      <4>1. \A n \in Nodes : Holds(t, n)' <=> n \in {prev[t], curr[t], nxt[t]}
        BY <2>1, <2>2, <3>3 DEF Holds
      <4> QED BY <2>2, <3>1, <4>1
    <3> QED BY <3>2, <3>3
  <2>5. Typed(t)
    BY <1>8, <1>b, <2>1, <2>2 DEF Typed
  <2> QED BY <1>8, <1>a, <2>1, <2>2, <2>3, <2>4, <2>5, LocalStep DEF IInv, Own
<1>9. CASE t \in Comparators /\ CompareEnd(t)
  <2>1. /\ Moves(t)
        /\ pc[t] = "compare" /\ nxt[t] = NULL /\ pc'[t] = "end"
        /\ want'[t] = want[t] /\ prev'[t] = prev[t] /\ curr'[t] = curr[t]
           /\ nxt'[t] = nxt[t] /\ a'[t] = a[t] /\ b'[t] = b[t]
    BY <1>9, <1>a DEF TypeOK, Moves, CompareEnd, Goto, Set, window
  <2>2. UNCHANGED <<kind, next, last, holders>>
    BY <1>9 DEF CompareEnd
  <2>3. Good(t)'
    BY <1>a, <2>1, <2>2 DEF TypeOK, Own, Good
  <2>4. \A n \in Nodes : (t \in holders[n] <=> Holds(t, n))'
    <3>1. \A n \in Nodes : t \in holders[n] <=> n \in {prev[t], curr[t]}
      BY <1>a, <2>1 DEF Own, Holds
    <3>2. \A n \in Nodes : Holds(t, n)' <=> n \in {prev[t], curr[t]}
      BY <2>1, <2>2 DEF Holds
    <3> QED BY <1>a, <2>1, <2>2, <3>1, <3>2 DEF Own, Good
  <2>5. Typed(t)
    BY <1>9, <1>b, <2>1, <2>2 DEF Typed
  <2> QED BY <1>9, <1>a, <2>1, <2>2, <2>3, <2>4, <2>5, LocalStep DEF IInv, Own
<1>10. CASE t \in Comparators /\ DropPrev(t)
  <2>1. /\ Moves(t)
        /\ pc[t] = "drop" /\ pc'[t] = "load"
        /\ want'[t] = want[t] /\ prev'[t] = prev[t] /\ curr'[t] = curr[t]
           /\ nxt'[t] = nxt[t] /\ a'[t] = a[t] /\ b'[t] = b[t]
    BY <1>10, <1>a DEF TypeOK, Moves, DropPrev, Goto, Set, window
  <2>2. prev[t] \in Nodes
    BY <1>a, <2>1 DEF TypeOK, Own, Good, Holds
  <2>3. /\ UNCHANGED <<kind, next, last>> /\ Release(t, prev[t])
        /\ \A n \in Nodes : t \in holders'[n] <=> t \in holders[n] /\ n # prev[t]
    BY <1>10, <1>a, <2>2 DEF TypeOK, DropPrev, Release
  <2>4. Good(t)'
    BY <1>a, <2>1, <2>2, <2>3 DEF TypeOK, Own, Good
  <2>5. \A n \in Nodes : (t \in holders[n] <=> Holds(t, n))'
    <3>1. \A n \in Nodes : t \in holders[n] <=> n \in {prev[t], curr[t], nxt[t]}
      BY <1>a, <2>1 DEF Own, Holds
    <3>2. \A n \in Nodes : Holds(t, n)' <=> n \in {curr[t], nxt[t]}
      BY <2>1, <2>3 DEF Holds
    <3> QED BY <1>a, <2>1, <2>3, <3>1, <3>2 DEF Own, Good
  <2>6. Typed(t)
    BY <1>10, <1>b, <2>1, <2>2, <2>3 DEF Typed
  <2> QED BY <1>10, <1>a, <2>1, <2>2, <2>3, <2>4, <2>5, <2>6, ReleaseStep DEF IInv, Own
<1>11. CASE t \in Comparators /\ LoadNext(t)
  <2>1. /\ Moves(t)
        /\ pc[t] = "load" /\ pc'[t] = IF next[nxt[t]] = NULL THEN "shift" ELSE "lockC"
        /\ want'[t] = next[nxt[t]]
        /\ prev'[t] = prev[t] /\ curr'[t] = curr[t] /\ nxt'[t] = nxt[t] /\ a'[t] = a[t]
           /\ b'[t] = b[t]
    BY <1>11, <1>a DEF TypeOK, Moves, LoadNext, Goto, Set, window
  <2>2. UNCHANGED <<kind, next, last, holders>>
    BY <1>11 DEF LoadNext
  <2>3. Good(t)'
    BY <1>a, <2>1, <2>2 DEF TypeOK, Own, Good
  <2>4. \A n \in Nodes : (t \in holders[n] <=> Holds(t, n))'
    <3>1. \A n \in Nodes : t \in holders[n] <=> n \in {curr[t], nxt[t]}
      BY <1>a, <2>1 DEF Own, Holds
    <3>2. CASE next[nxt[t]] = NULL
      <4>1. \A n \in Nodes : Holds(t, n)' <=> n \in {curr[t], nxt[t]}
        BY <2>1, <2>2, <3>2 DEF Holds
      <4> QED BY <2>2, <3>1, <4>1
    <3>3. CASE next[nxt[t]] # NULL
      <4>1. \A n \in Nodes : Holds(t, n)' <=> n \in {curr[t], nxt[t]}
        BY <2>1, <2>2, <3>3 DEF Holds
      <4> QED BY <2>2, <3>1, <4>1
    <3> QED BY <3>2, <3>3
  <2>5. Typed(t)
    <3>1. nxt[t] \in Nodes /\ next[nxt[t]] \in Pointers
      BY <1>a, <2>1 DEF TypeOK, Own, Good
    <3> QED BY <1>11, <1>b, <2>1, <2>2, <3>1 DEF Typed
  <2> QED BY <1>11, <1>a, <2>1, <2>2, <2>3, <2>4, <2>5, LocalStep DEF IInv, Own
<1>12. CASE t \in Comparators /\ Shift(t)
  <2>1. /\ Moves(t)
        /\ pc[t] = "shift" /\ pc'[t] = "compare"
        /\ prev'[t] = curr[t] /\ curr'[t] = nxt[t] /\ nxt'[t] = next[nxt[t]]
        /\ want'[t] = want[t] /\ a'[t] = a[t] /\ b'[t] = b[t]
    BY <1>12, <1>a DEF TypeOK, Moves, Shift, Goto, Set, window
  <2>2. next[nxt[t]] # curr[t] /\ next[nxt[t]] # nxt[t]
    <3>1. /\ curr[t] \in Nodes /\ nxt[t] \in Nodes
          /\ t \in holders[curr[t]] /\ t \in holders[nxt[t]]
      BY <1>a, <2>1 DEF TypeOK, Own, Good, Holds
    <3>2. t \notin Swapping
      BY <2>1 DEF Swapping
    <3>3. succBar[curr[t]] = nxt[t] /\ succBar[nxt[t]] = next[nxt[t]]
      BY <1>a, <2>1, <3>1, <3>2, HeldSucc DEF IInv, Own, Good
    <3> QED BY <3>1, <3>3, NoCycle
  <2>3. UNCHANGED <<kind, next, last, holders>>
    BY <1>12 DEF Shift
  <2>4. Good(t)'
    BY <1>a, <2>1, <2>2, <2>3 DEF TypeOK, Own, Good
  <2>5. \A n \in Nodes : (t \in holders[n] <=> Holds(t, n))'
    BY <1>a, <2>1, <2>2, <2>3 DEF TypeOK, Own, Good, Holds
  <2>6. Typed(t)
    <3>1. nxt[t] \in Nodes /\ next[nxt[t]] \in Pointers
      BY <1>a, <2>1 DEF TypeOK, Own, Good
    <3> QED BY <1>12, <1>b, <2>1, <2>3, <3>1 DEF Typed
  <2> QED BY <1>12, <1>a, <2>1, <2>3, <2>4, <2>5, <2>6, LocalStep DEF IInv, Own
<1>13. CASE t \in Swappers /\ ReadPair(t)
  <2>1. /\ Moves(t)
        /\ pc[t] = "pair" /\ pc'[t] = "test"
        /\ prev'[t] = first /\ curr'[t] = next[first]
        /\ want'[t] = want[t] /\ nxt'[t] = nxt[t] /\ a'[t] = a[t] /\ b'[t] = b[t]
    BY <1>13, <1>a DEF TypeOK, Moves, ReadPair, Goto, Set, window
  <2>2. UNCHANGED <<kind, next, last, holders>>
    BY <1>13 DEF ReadPair
  <2>3. Good(t)'
    BY <1>a, <2>1, <2>2 DEF TypeOK, Own, Good
  <2>4. \A n \in Nodes : (t \in holders[n] <=> Holds(t, n))'
    BY <1>a, <2>1, <2>2 DEF TypeOK, Own, Good, Holds
  <2>5. Typed(t)
    <3>1. first \in Nodes /\ next[first] \in Pointers
      BY <1>a, <2>1 DEF TypeOK, Own, Good
    <3> QED BY <1>13, <1>b, <2>1, <2>2, <3>1 DEF Typed
  <2> QED BY <1>13, <1>a, <2>1, <2>2, <2>3, <2>4, <2>5, LocalStep DEF IInv, Own
<1>14. CASE t \in Swappers /\ Test(t)
  <2>1. /\ Moves(t)
        /\ pc[t] = "test" /\ pc'[t] = IF next[curr[t]] = NULL THEN "end" ELSE "lockS"
        /\ want'[t] = next[curr[t]]
        /\ prev'[t] = prev[t] /\ curr'[t] = curr[t] /\ nxt'[t] = nxt[t] /\ a'[t] = a[t]
           /\ b'[t] = b[t]
    BY <1>14, <1>a DEF TypeOK, Moves, Test, Goto, Set, window
  <2>2. UNCHANGED <<kind, next, last, holders>>
    BY <1>14 DEF Test
  <2>3. Good(t)'
    BY <1>a, <2>1, <2>2 DEF TypeOK, Own, Good
  <2>4. \A n \in Nodes : (t \in holders[n] <=> Holds(t, n))'
    BY <1>a, <2>1, <2>2 DEF TypeOK, Own, Good, Holds
  <2>5. Typed(t)
    <3>1. curr[t] \in Nodes /\ next[curr[t]] \in Pointers
      BY <1>a, <2>1 DEF TypeOK, Own, Good
    <3> QED BY <1>14, <1>b, <2>1, <2>2, <3>1 DEF Typed
  <2> QED BY <1>14, <1>a, <2>1, <2>2, <2>3, <2>4, <2>5, LocalStep DEF IInv, Own
<1>15. CASE t \in Swappers /\ Choose(t)
  <2>1. /\ Moves(t)
        /\ pc[t] = "choose" /\ pc'[t] \in {"keep", "swap"}
        /\ nxt'[t] = next[curr[t]]
        /\ want'[t] = want[t] /\ prev'[t] = prev[t] /\ curr'[t] = curr[t] /\ a'[t] = a[t]
           /\ b'[t] = b[t]
    BY <1>15, <1>a DEF TypeOK, Moves, Choose, Goto, Set, window
  <2>2. UNCHANGED <<kind, next, last, holders>>
    BY <1>15 DEF Choose
  <2>3. Good(t)'
    BY <1>a, <2>1, <2>2 DEF TypeOK, Own, Good
  <2>4. \A n \in Nodes : (t \in holders[n] <=> Holds(t, n))'
    <3>1. \A n \in Nodes : t \in holders[n] <=> n \in {prev[t], curr[t], next[curr[t]]}
      BY <1>a, <2>1 DEF Own, Holds
    <3>2. \A n \in Nodes : Holds(t, n)' <=> n \in {prev[t], curr[t], next[curr[t]]}
      BY <2>1, <2>2 DEF Holds
    <3> QED BY <1>a, <2>1, <2>2, <3>1, <3>2 DEF Own, Good
  <2>5. Typed(t)
    <3>1. curr[t] \in Nodes /\ next[curr[t]] \in Pointers
      BY <1>a, <2>1 DEF TypeOK, Own, Good
    <3> QED BY <1>15, <1>b, <2>1, <2>2, <3>1 DEF Typed
  <2> QED BY <1>15, <1>a, <2>1, <2>2, <2>3, <2>4, <2>5, LocalStep DEF IInv, Own
<1>16. CASE t \in Swappers /\ SwapLoad(t)
  <2>1. /\ Moves(t)
        /\ pc[t] = "swap" /\ pc'[t] = "swap1"
        /\ a'[t] = next[prev[t]] /\ b'[t] = Next2(prev[t])
        /\ want'[t] = want[t] /\ prev'[t] = prev[t] /\ curr'[t] = curr[t]
           /\ nxt'[t] = nxt[t]
    BY <1>16, <1>a DEF TypeOK, Moves, SwapLoad, Goto, Set, window
  <2>2. UNCHANGED <<kind, next, holders>> /\ last' \in Pointers
    BY <1>16, <1>a, <2>1 DEF TypeOK, Own, Good, SwapLoad, Next2
  <2>3. Good(t)'
    BY <1>a, <2>1, <2>2 DEF TypeOK, Own, Good, Next2
  <2>4. \A n \in Nodes : (t \in holders[n] <=> Holds(t, n))'
    BY <1>a, <2>1, <2>2 DEF TypeOK, Own, Good, Holds
  <2>5. Typed(t)
    BY <1>16, <1>a, <2>1, <2>2 DEF Typed, TypeOK, Own, Good, Threads, Next2
  <2> QED BY <1>16, <1>a, <2>1, <2>2, <2>3, <2>4, <2>5, LocalStep DEF IInv, Own
<1>17. CASE t \in Swappers /\ SwapA(t)
  <2>1. /\ Moves(t)
        /\ pc[t] = "swap1" /\ pc'[t] = "swap2"
        /\ want'[t] = want[t] /\ prev'[t] = prev[t] /\ curr'[t] = curr[t]
           /\ nxt'[t] = nxt[t] /\ a'[t] = a[t] /\ b'[t] = b[t]
    BY <1>17, <1>a DEF TypeOK, Moves, SwapA, Goto, Set, window
  <2>2. curr[t] \in Nodes /\ t \in holders[curr[t]]
    BY <1>a, <2>1 DEF TypeOK, Own, Good, Holds
  <2>3. /\ UNCHANGED <<kind, last, holders>> /\ next' \in [Nodes -> Pointers]
        /\ next'[curr[t]] = next[b[t]] /\ \A n \in Nodes : n # curr[t] => next'[n] = next[n]
    <3>1. a[t] = curr[t] /\ b[t] \in Nodes /\ next \in [Nodes -> Pointers]
      BY <1>a, <2>1 DEF TypeOK, Own, Good
    <3>2. UNCHANGED <<kind, last, holders>> /\ next' = Set(next, a[t], next[b[t]])
      BY <1>17 DEF SwapA
    <3> QED BY <2>2, <3>1, <3>2 DEF Set
  <2>4. Good(t)'
    BY <1>a, <2>1, <2>2, <2>3 DEF TypeOK, Own, Good
  <2>5. \A n \in Nodes : (t \in holders[n] <=> Holds(t, n))'
    BY <1>a, <2>1, <2>2, <2>3 DEF TypeOK, Own, Good, Holds
  <2>6. Typed(t)
    BY <1>17, <1>b, <2>1, <2>2, <2>3 DEF Typed
  <2> QED BY <1>17, <1>a, <2>1, <2>2, <2>3, <2>4, <2>5, <2>6, StoreStep DEF IInv, Own
<1>18. CASE t \in Swappers /\ SwapB(t)
  <2>1. /\ Moves(t)
        /\ pc[t] = "swap2" /\ pc'[t] = "swap3"
        /\ want'[t] = want[t] /\ prev'[t] = prev[t] /\ curr'[t] = curr[t]
           /\ nxt'[t] = nxt[t] /\ a'[t] = a[t] /\ b'[t] = b[t]
    BY <1>18, <1>a DEF TypeOK, Moves, SwapB, Goto, Set, window
  <2>2. nxt[t] \in Nodes /\ t \in holders[nxt[t]]
    BY <1>a, <2>1 DEF TypeOK, Own, Good, Holds
  <2>3. /\ UNCHANGED <<kind, last, holders>> /\ next' \in [Nodes -> Pointers]
        /\ next'[nxt[t]] = a[t] /\ \A n \in Nodes : n # nxt[t] => next'[n] = next[n]
    BY <1>18, <1>a, <2>1, <2>2 DEF TypeOK, Own, Good, SwapB, Set, Threads
  <2>4. Good(t)'
    BY <1>a, <2>1, <2>2, <2>3 DEF TypeOK, Own, Good
  <2>5. \A n \in Nodes : (t \in holders[n] <=> Holds(t, n))'
    BY <1>a, <2>1, <2>2, <2>3 DEF TypeOK, Own, Good, Holds
  <2>6. Typed(t)
    BY <1>18, <1>b, <2>1, <2>2, <2>3 DEF Typed
  <2> QED BY <1>18, <1>a, <2>1, <2>2, <2>3, <2>4, <2>5, <2>6, StoreStep DEF IInv, Own
<1>19. CASE t \in Swappers /\ SwapPrev(t)
  <2>1. /\ Moves(t)
        /\ pc[t] = "swap3" /\ pc'[t] = "swapped"
        /\ a'[t] = NULL /\ b'[t] = NULL
        /\ want'[t] = want[t] /\ prev'[t] = prev[t] /\ curr'[t] = curr[t]
           /\ nxt'[t] = nxt[t]
    BY <1>19, <1>a DEF TypeOK, Moves, SwapPrev, Goto, Set, window
  <2>2. prev[t] \in Nodes /\ t \in holders[prev[t]]
    BY <1>a, <2>1 DEF TypeOK, Own, Good, Holds
  <2>3. /\ UNCHANGED <<kind, last, holders>> /\ next' \in [Nodes -> Pointers]
        /\ next'[prev[t]] = b[t] /\ \A n \in Nodes : n # prev[t] => next'[n] = next[n]
    BY <1>19, <1>a, <2>1, <2>2 DEF TypeOK, Own, Good, SwapPrev, Set, Threads
  <2>4. Good(t)'
    BY <1>a, <2>1, <2>2, <2>3 DEF TypeOK, Own, Good
  <2>5. \A n \in Nodes : (t \in holders[n] <=> Holds(t, n))'
    BY <1>a, <2>1, <2>2, <2>3 DEF TypeOK, Own, Good, Holds
  <2>6. Typed(t)
    BY <1>19, <1>b, <2>1, <2>2, <2>3 DEF Typed
  <2> QED BY <1>19, <1>a, <2>1, <2>2, <2>3, <2>4, <2>5, <2>6, StoreStep DEF IInv, Own
<1>20. CASE t \in Swappers /\ Swapped(t)
  <2>1. /\ Moves(t)
        /\ pc[t] = "swapped" /\ pc'[t] = "test"
        /\ prev'[t] = nxt[t] /\ nxt'[t] = NULL
        /\ want'[t] = want[t] /\ curr'[t] = curr[t] /\ a'[t] = a[t] /\ b'[t] = b[t]
    BY <1>20, <1>a DEF TypeOK, Moves, Swapped, Goto, Set, window
  <2>2. prev[t] \in Nodes
    BY <1>a, <2>1 DEF TypeOK, Own, Good, Holds
  <2>3. /\ UNCHANGED <<kind, next, last>> /\ Release(t, prev[t])
        /\ \A n \in Nodes : t \in holders'[n] <=> t \in holders[n] /\ n # prev[t]
    BY <1>20, <1>a, <2>2 DEF TypeOK, Swapped, Release
  <2>4. Good(t)'
    BY <1>a, <2>1, <2>2, <2>3 DEF TypeOK, Own, Good
  <2>5. \A n \in Nodes : (t \in holders[n] <=> Holds(t, n))'
    <3>1. \A n \in Nodes : t \in holders[n] <=> n \in {prev[t], curr[t], nxt[t]}
      BY <1>a, <2>1 DEF Own, Holds
    <3>2. \A n \in Nodes : Holds(t, n)' <=> n \in {nxt[t], curr[t]}
      BY <2>1, <2>3 DEF Holds
    <3> QED BY <1>a, <2>1, <2>3, <3>1, <3>2 DEF Own, Good
  <2>6. Typed(t)
    BY <1>20, <1>b, <2>1, <2>2, <2>3 DEF Typed
  <2> QED BY <1>20, <1>a, <2>1, <2>2, <2>3, <2>4, <2>5, <2>6, ReleaseStep DEF IInv, Own
<1>21. CASE t \in Swappers /\ Keep(t)
  <2>1. /\ Moves(t)
        /\ pc[t] = "keep" /\ pc'[t] = "test"
        /\ prev'[t] = curr[t] /\ curr'[t] = nxt[t] /\ nxt'[t] = NULL
        /\ want'[t] = want[t] /\ a'[t] = a[t] /\ b'[t] = b[t]
    BY <1>21, <1>a DEF TypeOK, Moves, Keep, Goto, Set, window
  <2>2. prev[t] \in Nodes
    BY <1>a, <2>1 DEF TypeOK, Own, Good, Holds
  <2>3. /\ UNCHANGED <<kind, next, last>> /\ Release(t, prev[t])
        /\ \A n \in Nodes : t \in holders'[n] <=> t \in holders[n] /\ n # prev[t]
    BY <1>21, <1>a, <2>2 DEF TypeOK, Keep, Release
  <2>4. Good(t)'
    BY <1>a, <2>1, <2>2, <2>3 DEF TypeOK, Own, Good
  <2>5. \A n \in Nodes : (t \in holders[n] <=> Holds(t, n))'
    <3>1. \A n \in Nodes : t \in holders[n] <=> n \in {prev[t], curr[t], nxt[t]}
      BY <1>a, <2>1 DEF Own, Holds
    <3>2. \A n \in Nodes : Holds(t, n)' <=> n \in {nxt[t], curr[t]}
      BY <2>1, <2>3 DEF Holds
    <3> QED BY <1>a, <2>1, <2>3, <3>1, <3>2 DEF Own, Good
  <2>6. Typed(t)
    BY <1>21, <1>b, <2>1, <2>2, <2>3 DEF Typed
  <2> QED BY <1>21, <1>a, <2>1, <2>2, <2>3, <2>4, <2>5, <2>6, ReleaseStep DEF IInv, Own
<1> QED BY <1>1, <1>2, <1>3, <1>4, <1>5, <1>6, <1>7, <1>8, <1>9, <1>10, <1>11, <1>12, <1>13,
        <1>14, <1>15, <1>16, <1>17, <1>18, <1>19, <1>20, <1>21 DEF Step, Comparator, Swapper

-----------------------------------------------------------------------------
(* The list changes with the first store of a swap and with no other step. *)
LEMMA SuccPrimed == ThreadInv' => SuccFacts'
BY SuccLemma, PTL

(* The successors are the same if the swaps under way agree with them.     *)
LEMMA SuccSame ==
    ASSUME SuccFacts, SuccFacts',
           \A s \in Swapping' : prev'[s] \in Nodes /\ b'[s] \in Nodes
                                /\ succBar[prev'[s]] = b'[s] /\ succBar[b'[s]] = a'[s],
           \A n \in Nodes : (\A s \in Swapping' : n # prev'[s] /\ n # b'[s])
                            => next'[n] = succBar[n]
    PROVE  succBar' = succBar
<1>1. \A n \in Nodes : succBar'[n] = succBar[n]
  BY DEF SuccFacts
<1> QED BY <1>1 DEF SuccFacts

(* A swapper in the middle of its stores.                                  *)
LEMMA SwapperFacts ==
    ASSUME ThreadInv, NEW s \in Swapping
    PROVE  /\ s \in Threads /\ prev[s] \in Nodes /\ curr[s] \in Nodes /\ nxt[s] \in Nodes
           /\ a[s] = curr[s] /\ b[s] = nxt[s]
           /\ prev[s] # nxt[s] /\ prev[s] # curr[s] /\ nxt[s] # curr[s]
           /\ s \in holders[prev[s]] /\ s \in holders[curr[s]] /\ s \in holders[nxt[s]]
BY DEF ThreadInv, TypeOK, Own, Good, Holds, Swapping, Triple, Threads, Pointers, Inside,
       ComparatorPcs, SwapperPcs

LEMMA SuccLocal ==
    ASSUME IInv, ThreadInv', NEW t \in Threads, Step(t), ~ SwapA(t), ~ SwapB(t), ~ SwapPrev(t)
    PROVE  succBar' = succBar
<1>1. SuccFacts /\ SuccFacts'
  BY SuccLemma, SuccPrimed DEF IInv
<1>2. next' = next
  BY DEF Step, Comparator, Swapper, LockFirst, LoadSecond, LockSecond, LockNext, UnlockPrev,
         UnlockCurr, ReadWindow, Compare, CompareEnd, DropPrev, LoadNext, Shift, ReadPair, Test,
         Choose, SwapLoad, Swapped, Keep
<1>3. pc[t] \notin {"swap2", "swap3"} /\ pc'[t] \notin {"swap2", "swap3"}
  BY DEF IInv, ThreadInv, TypeOK, Step, Comparator, Swapper, LockFirst, LoadSecond, LockSecond,
         LockNext, UnlockPrev, UnlockCurr, ReadWindow, Compare, CompareEnd, DropPrev, LoadNext,
         Shift, ReadPair, Test, Choose, SwapLoad, Swapped, Keep, Goto
<1>4. \A s \in Threads \ {t} : UNCHANGED Locals(s)
  BY DEF IInv, ThreadInv, TypeOK, Step, Comparator, Swapper, LockFirst, LoadSecond, LockSecond,
         LockNext, UnlockPrev, UnlockCurr, ReadWindow, Compare, CompareEnd, DropPrev, LoadNext,
         Shift, ReadPair, Test, Choose, SwapLoad, Swapped, Keep, Goto, Set, window, Locals
<1>5. Swapping' = Swapping /\ \A s \in Swapping : UNCHANGED Locals(s)
  BY <1>3, <1>4 DEF Swapping, Locals, Threads
<1> QED BY <1>1, <1>2, <1>5, SuccSame, SwapperFacts DEF SuccFacts, Locals, IInv

LEMMA SuccSwapB ==
    ASSUME IInv, ThreadInv', NEW t \in Swappers, SwapB(t)
    PROVE  succBar' = succBar
<1>1. SuccFacts /\ SuccFacts'
  BY SuccLemma, SuccPrimed DEF IInv
<1>2. /\ t \in Swapping /\ Swapping' = Swapping
      /\ UNCHANGED <<prev, a, b>> /\ \A n \in Nodes : n # b[t] => next'[n] = next[n]
  BY DEF IInv, ThreadInv, TypeOK, SwapB, Goto, Set, Swapping, window, Threads
<1> QED BY <1>1, <1>2, SuccSame, SwapperFacts DEF SuccFacts, IInv

LEMMA SuccSwapPrev ==
    ASSUME IInv, ThreadInv', NEW t \in Swappers, SwapPrev(t)
    PROVE  succBar' = succBar
<1>1. SuccFacts /\ SuccFacts'
  BY SuccLemma, SuccPrimed DEF IInv
<1>2. /\ t \in Swapping /\ Swapping' = Swapping \ {t} /\ prev' = prev /\ next[nxt[t]] = curr[t]
      /\ \A s \in Swapping' : a'[s] = a[s] /\ b'[s] = b[s]
  BY DEF IInv, ThreadInv, TypeOK, SwapPrev, Goto, Set, Swapping, window, Threads, Own, Good
<1>3. next'[prev[t]] = b[t] /\ \A n \in Nodes : n # prev[t] => next'[n] = next[n]
  BY <1>2, SwapperFacts DEF IInv, ThreadInv, TypeOK, SwapPrev, Set
<1>4. ASSUME NEW n \in Nodes, \A s \in Swapping' : n # prev'[s] /\ n # b'[s]
      PROVE  next'[n] = succBar[n]
  BY <1>1, <1>2, <1>3, <1>4, SwapperFacts DEF SuccFacts, IInv
<1> QED BY <1>1, <1>2, <1>4, SuccSame, SwapperFacts DEF SuccFacts, IInv

(* The first store of a swap exchanges the two nodes after prev_node.      *)
LEMMA SuccSwapA ==
    ASSUME IInv, ThreadInv', NEW t \in Swappers, SwapA(t)
    PROVE  /\ prev[t] \in Nodes /\ curr[t] \in Nodes /\ nxt[t] \in Nodes
           /\ succBar[prev[t]] = curr[t] /\ succBar[curr[t]] = nxt[t]
           /\ prev[t] # nxt[t] /\ prev[t] # curr[t] /\ nxt[t] # curr[t]
           /\ succBar' = [succBar EXCEPT ![prev[t]] = nxt[t], ![nxt[t]] = curr[t],
                                         ![curr[t]] = succBar[nxt[t]]]
<1>1. SuccFacts /\ SuccFacts' /\ t \in Threads /\ t \notin Swapping
  BY SuccLemma, SuccPrimed DEF IInv, Threads, SwapA, Goto, Swapping
<1>2. /\ prev[t] \in Nodes /\ curr[t] \in Nodes /\ nxt[t] \in Nodes
      /\ a[t] = curr[t] /\ b[t] = nxt[t] /\ next[prev[t]] = curr[t] /\ next[curr[t]] = nxt[t]
      /\ prev[t] # nxt[t] /\ prev[t] # curr[t] /\ nxt[t] # curr[t]
      /\ t \in holders[prev[t]] /\ t \in holders[curr[t]] /\ t \in holders[nxt[t]]
  BY <1>1 DEF IInv, ThreadInv, TypeOK, Own, Good, Holds, Triple, Pointers, Inside, ComparatorPcs,
              SwapperPcs, SwapA, Goto
<1>3. succBar[prev[t]] = curr[t] /\ succBar[curr[t]] = nxt[t] /\ succBar[nxt[t]] = next[nxt[t]]
  BY <1>1, <1>2, HeldSucc DEF IInv
<1>4. /\ Swapping' = Swapping \cup {t} /\ UNCHANGED <<prev, a, b>>
      /\ next' = [next EXCEPT ![curr[t]] = next[nxt[t]]]
  BY <1>1, <1>2 DEF IInv, ThreadInv, TypeOK, SwapA, Goto, Set, Swapping, window
<1>5. \A s \in Swapping : prev[s] \notin {prev[t], curr[t], nxt[t]}
                          /\ b[s] \notin {prev[t], curr[t], nxt[t]}
  BY <1>1, <1>2, SwapperFacts, SwapperAlone DEF IInv
<1>6. /\ succBar'[prev[t]] = nxt[t] /\ succBar'[nxt[t]] = curr[t]
      /\ succBar'[curr[t]] = succBar[nxt[t]]
  BY <1>1, <1>2, <1>3, <1>4, <1>5 DEF SuccFacts, IInv, ThreadInv, TypeOK
<1>7. ASSUME NEW n \in Nodes, n \notin {prev[t], curr[t], nxt[t]}
      PROVE  succBar'[n] = succBar[n]
  <2>1. CASE \E s \in Swapping : n = prev[s] \/ n = b[s]
    BY <1>1, <1>4, <2>1 DEF SuccFacts
  <2>2. CASE \A s \in Swapping : n # prev[s] /\ n # b[s]
    BY <1>1, <1>2, <1>4, <1>7, <2>2 DEF SuccFacts, IInv, ThreadInv, TypeOK
  <2> QED BY <2>1, <2>2
<1>8. \A n \in Nodes : succBar'[n] = [succBar EXCEPT ![prev[t]] = nxt[t], ![nxt[t]] = curr[t],
                                                     ![curr[t]] = succBar[nxt[t]]][n]
  BY <1>1, <1>2, <1>6, <1>7 DEF SuccFacts
<1> QED BY <1>1, <1>2, <1>3, <1>8 DEF SuccFacts

-----------------------------------------------------------------------------
(* Exchanging two neighbours exchanges their places.                       *)
LEMMA PlacedStep ==
    ASSUME IInv, ThreadInv', NEW t \in Threads, Step(t)
    PROVE  Placed'
<1>1. PICK r \in [Nodes -> 1 .. Len(Order)] : IsPlacing(r)
  BY DEF IInv, Placed
<1>2. CASE succBar' = succBar
  <2>1. IsPlacing(r)'
    BY <1>1, <1>2 DEF IsPlacing
  <2> QED BY <2>1 DEF Placed
<1>3. CASE t \in Swappers /\ SwapA(t)
  <2>1. PICK p \in Nodes, x \in Nodes, y \in Nodes :
          /\ succBar[p] = x /\ succBar[x] = y
          /\ p # y /\ p # x /\ y # x /\ x # NULL /\ y # NULL
          /\ succBar' = [succBar EXCEPT ![p] = y, ![y] = x, ![x] = succBar[y]]
    <3>1. prev[t] \in Nodes /\ curr[t] \in Nodes /\ nxt[t] \in Nodes
      BY <1>3, SuccSwapA
    <3>2. curr[t] # NULL /\ nxt[t] # NULL
      BY <3>1, ListAssumption
    <3> USE <3>1
    <3> WITNESS prev[t] \in Nodes, curr[t] \in Nodes, nxt[t] \in Nodes
    <3> QED BY <1>3, <3>2, SuccSwapA
  <2> DEFINE q == [r EXCEPT ![x] = r[y], ![y] = r[x]]
  <2>2. /\ r[first] = 1 /\ \A m, n \in Nodes : r[m] = r[n] => m = n
        /\ \A n \in Nodes : r[n] \in 1 .. Len(Order)
        /\ \A n \in Nodes : IF r[n] = Len(Order) THEN succBar[n] = NULL
                            ELSE succBar[n] # NULL /\ r[succBar[n]] = r[n] + 1
    BY <1>1 DEF IsPlacing
  <2>3. r[x] = r[p] + 1 /\ r[y] = r[p] + 2 /\ r[p] > 0 /\ r[p] \in Nat
    BY <2>1, <2>2, FirstNode
  <2>4. first # x /\ first # y
    BY <2>2, <2>3
  <2>5. q \in [Nodes -> 1 .. Len(Order)]
    BY <2>1
  <2>6. q[x] = r[y] /\ q[y] = r[x] /\ \A n \in Nodes \ {x, y} : q[n] = r[n]
    BY <2>1
  <2> HIDE DEF q
  <2>7. \A m, n \in Nodes : q[m] = q[n] => m = n
    BY <2>1, <2>2, <2>6
  <2>8. q[first] = 1
    BY <2>2, <2>4, <2>6, FirstNode
  <2>9. \A n \in Nodes : succBar[n] # NULL => succBar[n] \in Nodes
    BY NoCycle DEF Pointers
  <2>10. ASSUME NEW n \in Nodes
         PROVE  IF q[n] = Len(Order) THEN succBar'[n] = NULL
                ELSE succBar'[n] # NULL /\ q[succBar'[n]] = q[n] + 1
    <3>0. succBar = [m \in Nodes |-> succBar[m]]
      BY SuccLemma DEF SuccFacts, IInv
    <3>1. CASE n = p
      BY <2>1, <2>2, <2>3, <2>6, <3>0, <3>1
    <3>2. CASE n = y
      BY <2>1, <2>2, <2>3, <2>6, <3>0, <3>2
    <3>3. CASE n = x
      <4>1. succBar'[n] = succBar[y] /\ q[n] = r[y]
        BY <2>1, <2>6, <3>0, <3>3
      <4>2. succBar[y] # NULL => succBar[y] \in Nodes \ {x, y}
        BY <2>1, <2>2, <2>3, <2>9
      <4> QED BY <2>1, <2>2, <2>6, <4>1, <4>2
    <3>4. CASE n \notin {p, x, y}
      <4>1. succBar'[n] = succBar[n] /\ q[n] = r[n]
        BY <2>1, <2>6, <3>0, <3>4
      <4>2. succBar[n] # NULL => succBar[n] \in Nodes \ {x, y}
        BY <2>1, <2>2, <2>3, <2>9, <3>4
      <4> QED BY <2>2, <2>6, <4>1, <4>2
    <3> QED BY <3>1, <3>2, <3>3, <3>4
  <2> QED BY <2>5, <2>7, <2>8, <2>10 DEF Placed, IsPlacing
<1>4. SwapA(t) \/ SwapB(t) \/ SwapPrev(t) => t \in Swappers
  BY DEF IInv, ThreadInv, TypeOK, Threads, SwapA, SwapB, SwapPrev, Goto, ComparatorPcs, Shared
<1> QED BY <1>2, <1>3, <1>4, SuccLocal, SuccSwapB, SuccSwapPrev

-----------------------------------------------------------------------------
LEMMA PlaceFact ==
    /\ \A n \in Nodes : Place(n) \in 1 .. Len(Order) /\ Order[Place(n)] = n
    /\ \A k \in 1 .. Len(Order) : Place(Order[k]) = k
BY ListAssumption DEF Place

LEMMA InitSucc == ASSUME Init PROVE succBar = Chain
<1>1. Swapping = {}
  BY DEF Init, Swapping, Threads
<1> QED BY <1>1 DEF Init, succBar, Chain

LEMMA InitInv == Init => IInv
<1> SUFFICES ASSUME Init PROVE IInv
  OBVIOUS
<1>1. Chain \in [Nodes -> Pointers]
  <2>1. ASSUME NEW n \in Nodes, Place(n) # Len(Order) PROVE Order[Place(n) + 1] \in Nodes
    <3>1. Place(n) + 1 \in 1 .. Len(Order)
      BY <2>1, PlaceFact, FirstNode
    <3>2. Order \in Seq(Nodes)
      BY ListAssumption
    <3> QED BY <3>1, <3>2
  <2> QED BY <2>1 DEF Chain, Pointers
<1>2. TypeOK
  BY <1>1 DEF Init, TypeOK, Pointers, Threads, ComparatorPcs, SwapperPcs, Shared
<1>3. Exclusive
  BY DEF Init, Exclusive
<1>4. \A t \in Threads : Own(t)
  BY DEF Init, Own, Good, Holds, Inside, Triple, Shared, ComparatorPcs, SwapperPcs
<1>5. Placed
  <2> DEFINE r == [n \in Nodes |-> Place(n)]
  <2>1. r \in [Nodes -> 1 .. Len(Order)]
    BY PlaceFact
  <2>2. r[first] = 1
    BY PlaceFact, FirstNode DEF first
  <2>3. \A m, n \in Nodes : r[m] = r[n] => m = n
    BY PlaceFact
  <2>4. ASSUME NEW n \in Nodes, r[n] # Len(Order)
        PROVE  succBar[n] # NULL /\ r[succBar[n]] = r[n] + 1
    <3>1. r[n] = Place(n) /\ Place(n) + 1 \in 1 .. Len(Order)
      BY <2>4, PlaceFact, FirstNode
    <3>2. succBar[n] = Order[Place(n) + 1]
      BY <2>4, <3>1, InitSucc DEF Chain
    <3>3. succBar[n] \in Nodes /\ Place(succBar[n]) = Place(n) + 1
      <4>1. Order \in Seq(Nodes)
        BY ListAssumption
      <4> QED BY <3>1, <3>2, <4>1, PlaceFact
    <3> QED BY <3>1, <3>3, ListAssumption
  <2>5. ASSUME NEW n \in Nodes, r[n] = Len(Order) PROVE succBar[n] = NULL
    BY <2>5, InitSucc DEF Chain
  <2> HIDE DEF r
  <2> QED BY <2>1, <2>2, <2>3, <2>4, <2>5 DEF Placed, IsPlacing
<1> QED BY <1>2, <1>3, <1>4, <1>5 DEF IInv, ThreadInv

LEMMA StepInv == IInv /\ [Next]_vars => IInv'
<1>1. ASSUME IInv, NEW t \in Threads, Step(t) PROVE IInv'
  BY <1>1, ThreadStep, PlacedStep DEF IInv
<1>2. ASSUME IInv, UNCHANGED vars PROVE IInv'
  <2> USE <1>2 DEF vars, window
  <2>1. succBar' = succBar
    BY DEF succBar, Swapping
  <2>2. Placed'
    BY <2>1 DEF IInv, Placed, IsPlacing
  <2>3. TypeOK' /\ Exclusive'
    BY DEF IInv, ThreadInv, TypeOK, Exclusive
  <2>4. ASSUME NEW t \in Threads PROVE Own(t)'
    BY <2>4 DEF IInv, ThreadInv, Own, Good, Holds
  <2> QED BY <2>2, <2>3, <2>4 DEF IInv, ThreadInv
<1> QED BY <1>1, <1>2 DEF Next

(* The inductive invariant holds in every reachable state.                 *)
THEOREM Invariance == Spec => []IInv
<1> QED BY InitInv, StepInv, PTL DEF Spec

(* Every variable keeps its type, and no thread locks a null pointer.      *)
THEOREM TypeCorrect == Spec => []TypeOK
<1>1. IInv => TypeOK
  BY DEF IInv, ThreadInv
<1> QED BY <1>1, Invariance, PTL

(* Each thread holds exactly the locks of the nodes around it, and shares  *)
(* them with nobody but other readers.                                     *)
THEOREM LocksAreHeld == Spec => []LocksHeld
<1>1. IInv => LocksHeld
  BY DEF IInv, ThreadInv, Own, LocksHeld
<1> QED BY <1>1, Invariance, PTL

(* What a thread has read from the list is still so when it uses it: the   *)
(* node it waits for is the next one, and list_compare_values() and        *)
(* list_swap_elements() find the nodes that are locked.                    *)
THEOREM WindowIsCurrent == Spec => []WindowCurrent
<1>1. IInv => WindowCurrent
  <2> SUFFICES ASSUME IInv, NEW t \in Threads
               PROVE  /\ pc[t] = "compare" /\ nxt[t] # NULL =>
                            ComparedNodes(t) = <<curr[t], nxt[t]>>
                      /\ pc[t] \in {"keep", "swap", "swap1"} => nxt[t] # NULL
    BY DEF IInv, ThreadInv, Own, Good, WindowCurrent
  <2>1. Good(t) /\ TypeOK
    BY DEF IInv, ThreadInv, Own
  <2> QED BY <2>1, ListAssumption DEF Good, TypeOK, ComparedNodes, Next2, Triple, Inside,
             ComparatorPcs, SwapperPcs, Pointers
<1> QED BY <1>1, Invariance, PTL

(* Concurrent swaps are atomic exchanges of neighbours, whatever the       *)
(* interleaving of their stores.                                           *)
THEOREM Implements == Spec => ImplementsSwaps
<1>1. Init => Atomic!Init
  BY InitSucc DEF Atomic!Init
<1>2. IInv /\ IInv' /\ [Next]_vars => [Atomic!Next]_succBar
  <2>1. ASSUME IInv, IInv', NEW t \in Threads, Step(t) PROVE [Atomic!Next]_succBar
    <3>1. SwapA(t) \/ SwapB(t) \/ SwapPrev(t) => t \in Swappers
      BY <2>1 DEF IInv, ThreadInv, TypeOK, Threads, SwapA, SwapB, SwapPrev, Goto, ComparatorPcs,
                  Shared
    <3>2. CASE ~ SwapA(t)
      BY <2>1, <3>1, <3>2, SuccLocal, SuccSwapB, SuccSwapPrev DEF IInv
    <3>3. CASE SwapA(t)
      <4>1. /\ prev[t] \in DOMAIN succBar /\ succBar[prev[t]] # NULL
            /\ Atomic!Swap(prev[t])
        <5>1. /\ prev[t] \in Nodes /\ curr[t] # NULL /\ nxt[t] # NULL
              /\ succBar[prev[t]] = curr[t] /\ succBar[curr[t]] = nxt[t]
              /\ succBar' = [succBar EXCEPT ![prev[t]] = nxt[t], ![nxt[t]] = curr[t],
                                            ![curr[t]] = succBar[nxt[t]]]
          BY <2>1, <3>1, <3>3, SuccSwapA, ListAssumption DEF IInv
        <5>2. prev[t] \in DOMAIN succBar
          BY <5>1 DEF succBar
        <5> QED BY <5>1, <5>2 DEF Atomic!Swap
      <4> QED BY <4>1 DEF Atomic!Next
    <3> QED BY <3>2, <3>3
  <2>2. ASSUME UNCHANGED vars PROVE succBar' = succBar
    BY <2>2 DEF vars, window, succBar, Swapping
  <2> QED BY <2>1, <2>2 DEF Next
<1> QED BY <1>1, <1>2, Invariance, PTL DEF Spec, ImplementsSwaps, Atomic!Spec

-----------------------------------------------------------------------------
(* Every place has its node: the first place without one would follow one  *)
(* whose node has a successor.                                             *)
LEMMA PlacesTaken ==
    ASSUME IInv, NEW r \in [Nodes -> 1 .. Len(Order)], IsPlacing(r)
    PROVE  /\ \A k \in 1 .. Len(Order) : \E n \in Nodes : r[n] = k
           /\ Cardinality(Nodes) = Len(Order)
<1> DEFINE Empty == {k \in 1 .. Len(Order) : ~ \E n \in Nodes : r[n] = k}
<1>1. ASSUME Empty # {} PROVE FALSE
  <2>1. Empty \in SUBSET Nat
    BY FirstNode
  <2> HIDE DEF Empty
  <2>2. PICK m \in Empty : \A k \in Empty : m <= k
    BY <1>1, <2>1, Least
  <2>3. m \in 1 .. Len(Order) /\ ~ \E n \in Nodes : r[n] = m
    BY DEF Empty
  <2>4. m # 1
    BY <2>3, FirstNode DEF IsPlacing
  <2>5. m - 1 \in 1 .. Len(Order) /\ m - 1 \notin Empty
    BY <2>2, <2>3, <2>4, FirstNode
  <2>6. PICK n \in Nodes : r[n] = m - 1
    BY <2>5 DEF Empty
  <2>7. succBar[n] \in Nodes /\ r[succBar[n]] = m
    BY <2>3, <2>6, NoCycle, FirstNode DEF IsPlacing, Pointers
  <2> QED BY <2>3, <2>7
<1>2. \A k \in 1 .. Len(Order) : \E n \in Nodes : r[n] = k
  BY <1>1
<1>3. r \in Injection(Nodes, 1 .. Len(Order)) /\ r \in Surjection(Nodes, 1 .. Len(Order))
  BY <1>2 DEF IsPlacing, Injection, Surjection, IsInjective
<1>4. IsFiniteSet(1 .. Len(Order)) /\ Cardinality(1 .. Len(Order)) = Len(Order)
  <2>1. \A k \in Nat \ {0} : IsFiniteSet(1 .. k) /\ Cardinality(1 .. k) = k
    BY FS_Interval
  <2> QED BY <2>1, FirstNode
<1> QED BY <1>2, <1>3, <1>4, FS_Injection

(* A walk of k steps from first ends at the node of place k + 1.           *)
LEMMA AlongIs ==
    ASSUME IInv, NEW r \in [Nodes -> 1 .. Len(Order)], IsPlacing(r)
    PROVE  /\ Cardinality(Nodes) = Len(Order) /\ Along[Len(Order)] = NULL
           /\ \A k \in 0 .. Len(Order) - 1 : Along[k] \in Nodes /\ r[Along[k]] = k + 1
<1> DEFINE size == Len(Order)
           w == [k \in 0 .. size |-> IF k = size THEN NULL ELSE CHOOSE n \in Nodes : r[n] = k + 1]
           Walk(f, k) == IF k = 0 THEN first ELSE IF f[k - 1] = NULL THEN NULL ELSE succBar[f[k - 1]]
           Wrong == {k \in 0 .. size : Along[k] # w[k]}
<1>1. Cardinality(Nodes) = size /\ size \in Nat /\ size > 1 /\ NULL \notin Nodes
  BY PlacesTaken, FirstNode, ListAssumption
<1>2. w[size] = NULL
  BY <1>1
<1>3. ASSUME NEW k \in 0 .. size - 1 PROVE w[k] \in Nodes /\ r[w[k]] = k + 1
  <2>1. k + 1 \in 1 .. Len(Order) /\ k # size /\ k \in 0 .. size
    BY <1>1
  <2>2. w[k] = CHOOSE n \in Nodes : r[n] = k + 1
    BY <2>1
  <2>3. \E n \in Nodes : r[n] = k + 1
    BY <2>1, PlacesTaken
  <2> QED BY <2>2, <2>3
<1>4. DOMAIN w = 0 .. size /\ w = [k \in 0 .. size |-> w[k]]
  OBVIOUS
<1> HIDE DEF w
<1>5. w = [k \in 0 .. size |-> Walk(w, k)]
  <2>1. ASSUME NEW k \in 0 .. size PROVE w[k] = Walk(w, k)
    <3>1. CASE k = 0
      BY <1>1, <1>3, <3>1, FirstNode DEF IsPlacing
    <3>2. CASE k # 0
      <4>1. k - 1 \in 0 .. size - 1 /\ (k # size => k \in 0 .. size - 1)
        BY <1>1, <3>2
      <4>2. w[k - 1] \in Nodes /\ r[w[k - 1]] = k
        BY <1>1, <1>3, <4>1
      <4>3. Walk(w, k) = succBar[w[k - 1]]
        BY <1>1, <3>2, <4>2
      <4>4. CASE k = size
        BY <1>2, <4>2, <4>3, <4>4 DEF IsPlacing
      <4>5. CASE k # size
        <5>1. succBar[w[k - 1]] \in Nodes /\ r[succBar[w[k - 1]]] = k + 1
          BY <4>2, <4>5, NoCycle DEF IsPlacing, Pointers
        <5>2. w[k] \in Nodes /\ r[w[k]] = k + 1
          BY <1>3, <4>1, <4>5
        <5> QED BY <4>3, <5>1, <5>2 DEF IsPlacing
      <4> QED BY <4>4, <4>5
    <3> QED BY <3>1, <3>2
  <2> QED BY <1>4, <2>1
<1>6. Along = [k \in 0 .. size |-> Walk(Along, k)]
  BY <1>1, <1>5 DEF Along
<1>7. ASSUME Wrong # {} PROVE FALSE
  <2>1. Wrong \in SUBSET Nat
    BY <1>1
  <2> HIDE DEF Wrong
  <2>2. PICK m \in Wrong : \A n \in Wrong : m <= n
    BY <1>7, <2>1, Least
  <2> USE DEF Wrong
  <2>3. Along[m] = Walk(Along, m) /\ w[m] = Walk(w, m)
    BY <1>5, <1>6
  <2>4. m # 0
    BY <2>3
  <2>5. m - 1 \in 0 .. size /\ Along[m - 1] = w[m - 1]
    BY <1>1, <2>2, <2>4
  <2> QED BY <2>2, <2>3, <2>5
<1>8. \A k \in 0 .. size : Along[k] = w[k]
  BY <1>7
<1> QED BY <1>1, <1>2, <1>3, <1>8

(* However the threads interleave, the list holds every node once, from    *)
(* first to NULL: no swap loses a node or closes a cycle.                  *)
THEOREM ListStaysIntact == Spec => []ListIntact
<1>1. IInv => ListIntact
  <2> SUFFICES ASSUME IInv PROVE ListIntact
    OBVIOUS
  <2>1. PICK r \in [Nodes -> 1 .. Len(Order)] : IsPlacing(r)
    BY DEF IInv, Placed
  <2>2. /\ Cardinality(Nodes) = Len(Order) /\ Along[Len(Order)] = NULL
        /\ \A k \in 0 .. Len(Order) - 1 : Along[k] \in Nodes /\ r[Along[k]] = k + 1
    BY <2>1, AlongIs
  <2>3. ASSUME NEW n \in Nodes PROVE \E k \in 0 .. Len(Order) - 1 : Along[k] = n
    <3>1. r[n] - 1 \in 0 .. Len(Order) - 1
      BY <2>1, FirstNode
    <3>2. Along[r[n] - 1] = n
      BY <2>1, <2>2, <3>1 DEF IsPlacing
    <3> QED BY <3>1, <3>2
  <2> QED BY <2>2, <2>3 DEF ListIntact
<1> QED BY <1>1, Invariance, PTL
=============================================================================
