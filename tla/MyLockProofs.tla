---------------------------- MODULE MyLockProofs ----------------------------
(***************************************************************************)
(* Proofs about both locks of 2-term/2.4, for any number of threads and    *)
(* iterations.                                                             *)
(***************************************************************************)
EXTENDS MyLock, FiniteSetTheorems, TLAPS

(* A thread that runs has an iteration left, and what it has loaded is     *)
(* still the counter when it stores.                                       *)
LoopState ==
    \A t \in Threads :
        /\ pc[t] # "done" => i[t] < N
        /\ pc[t] = "store" => tmp[t] = val
        /\ pc[t] \in {"wait", "sleep", "wake"} => kind = "MUTEX"

IInv == TypeOK /\ MutualExclusion /\ LoopState /\ NoLostWakeup

(* The invariant is inductive.                                             *)
THEOREM Invariance == Spec => []IInv
<1>1. Init => IInv
  BY LockAssumption DEF Init, IInv, TypeOK, Pc, MutualExclusion, LoopState, NoLostWakeup, Held,
         Sleepers
<1>2. IInv /\ [Next]_vars => IInv'
  <2> SUFFICES ASSUME IInv, [Next]_vars PROVE IInv'
    OBVIOUS
  <2> USE LockAssumption DEF IInv, TypeOK, Pc, MutualExclusion, LoopState, NoLostWakeup, Held,
             Contending, Sleepers, At, Goto
  <2>1. CASE Main
    BY <2>1 DEF Main, CreateFails, JoinAndPrint, Create
  <2>2. ASSUME NEW t \in Threads, Acquire(t) PROVE IInv'
    BY <2>2 DEF Acquire
  <2>3. ASSUME NEW t \in Threads, AcquireFails(t) PROVE IInv'
    BY <2>3 DEF AcquireFails
  <2>4. ASSUME NEW t \in Threads, FutexWait(t) \/ FutexReturns(t) PROVE IInv'
    BY <2>4 DEF FutexWait, FutexReturns
  <2>5. ASSUME NEW t \in Threads, Load(t) \/ Store(t) PROVE IInv'
    BY <2>5 DEF Load, Store
  <2>6. ASSUME NEW t \in Threads, Release(t) PROVE IInv'
    BY <2>6 DEF Release, NextIteration
  <2>7. ASSUME NEW t \in Threads, FutexWake(t) PROVE IInv'
    BY <2>7 DEF FutexWake, NextIteration
  <2>8. CASE UNCHANGED vars
    BY <2>8 DEF vars
  <2> QED BY <2>1, <2>2, <2>3, <2>4, <2>5, <2>6, <2>7, <2>8 DEF Next, Thread
<1> QED BY <1>1, <1>2, PTL DEF Spec

(* Types, in particular the bound on the loop counter.                     *)
THEOREM TypeCorrect == Spec => []TypeOK
BY Invariance, PTL DEF IInv

(* At most one thread holds the lock, and the lock word says so.           *)
THEOREM Exclusion == Spec => []MutualExclusion
BY Invariance, PTL DEF IInv

(* No thread sleeps on a free mutex without somebody about to help it.     *)
THEOREM WakeupsKept == Spec => []NoLostWakeup
BY Invariance, PTL DEF IInv

(* Only the store of a thread counts, and it counts one increment.         *)
LEMMA CounterStep == IInv /\ [Next]_vars => [Counter!Next]_(Counter!vars)
<1> SUFFICES ASSUME IInv, [Next]_vars PROVE [Counter!Next]_(Counter!vars)
  OBVIOUS
<1> USE LockAssumption DEF IInv, TypeOK, LoopState, At, Goto, incsBar, Stored, Counter!vars
<1>1. ASSUME NEW t \in Threads, Store(t) PROVE Counter!Inc(t)
  BY <1>1 DEF Store, Counter!Inc
<1>2. CASE Main \/ UNCHANGED vars
  BY <1>2 DEF Main, CreateFails, JoinAndPrint, Create, vars
<1>3. ASSUME NEW t \in Threads,
             Acquire(t) \/ AcquireFails(t) \/ FutexWait(t) \/ FutexReturns(t) \/ Load(t)
      PROVE  UNCHANGED <<val, incsBar>>
  BY <1>3 DEF Acquire, AcquireFails, FutexWait, FutexReturns, Load
<1>4. ASSUME NEW t \in Threads, Release(t) \/ FutexWake(t)
      PROVE  UNCHANGED <<val, incsBar>>
  BY <1>4 DEF Release, FutexWake, NextIteration, Sleepers
<1> QED BY <1>1, <1>2, <1>3, <1>4 DEF Next, Thread, Counter!Next

(* The locked increments implement atomic ones.                            *)
THEOREM Implements == Spec => ImplementsCounter
<1>1. Init => Counter!Init
  BY DEF Init, Counter!Init, incsBar, Stored
<1> QED BY <1>1, CounterStep, Invariance, PTL DEF Spec, ImplementsCounter, Counter!Spec

-----------------------------------------------------------------------------
(* The increments that have taken effect, one pair per thread and          *)
(* iteration, and the number of them that the counter shows.               *)
Effective == {p \in Threads \X (1 .. N) : p[2] <= incsBar[p[1]]}

CountInv ==
    /\ val = Cardinality(Effective)
    /\ \A t \in Threads : pc[t] = "done" => i[t] = N
    /\ main = "printed" => \A t \in Threads : pc[t] = "done"

LEMMA Finite ==
    /\ IsFiniteSet(Threads \X (1 .. N)) /\ IsFiniteSet(Effective)
    /\ Cardinality(Threads \X (1 .. N)) = Cardinality(Threads) * N
<1>1. IsFiniteSet(1 .. N) /\ Cardinality(1 .. N) = N
  BY FS_Interval, LockAssumption
<1>2. /\ IsFiniteSet(Threads \X (1 .. N))
      /\ Cardinality(Threads \X (1 .. N)) = Cardinality(Threads) * N
  BY <1>1, FS_Product, LockAssumption
<1>3. Effective \in SUBSET (Threads \X (1 .. N))
  BY DEF Effective
<1> QED BY <1>2, <1>3, FS_Subset

(* An increment of the abstract counter adds one pair, any other step none. *)
LEMMA CountStep ==
    ASSUME IInv, [Counter!Next]_(Counter!vars), val = Cardinality(Effective), IInv'
    PROVE  (val = Cardinality(Effective))'
<1>1. ASSUME NEW t \in Threads, Counter!Inc(t) PROVE val' = Cardinality(Effective')
  <2> DEFINE new == <<t, incsBar[t] + 1>>
  <2>1. incsBar \in [Threads -> Nat] /\ incsBar'[t] \in 1 .. N
    BY <1>1, LockAssumption
       DEF IInv, TypeOK, LoopState, incsBar, Stored, Counter!Inc
  <2>2. val' = val + 1 /\ incsBar' = [incsBar EXCEPT ![t] = @ + 1]
    BY <1>1 DEF Counter!Inc
  <2>3. new \in Threads \X (1 .. N)
    BY <2>1, <2>2
  <2>4. Effective' = Effective \cup {new}
    BY <2>1, <2>2, <2>3, LockAssumption DEF Effective
  <2>5. new \notin Effective
    BY <2>1 DEF Effective
  <2> QED BY <2>2, <2>4, <2>5, Finite, FS_AddElement
<1>2. CASE UNCHANGED Counter!vars
  BY <1>2 DEF Counter!vars, Effective
<1> QED BY <1>1, <1>2 DEF Counter!Next

(* A thread that is done has done its N iterations, and main() prints when *)
(* all are done.                                                           *)
LEMMA DoneStep ==
    ASSUME IInv, CountInv, [Next]_vars
    PROVE  /\ \A t \in Threads : pc'[t] = "done" => i'[t] = N
           /\ main' = "printed" => \A t \in Threads : pc'[t] = "done"
<1> USE LockAssumption DEF IInv, TypeOK, LoopState, CountInv, At, Goto
<1>1. CASE Main \/ UNCHANGED vars
  BY <1>1 DEF Main, CreateFails, JoinAndPrint, Create, vars
<1>2. ASSUME NEW t \in Threads, Thread(t) \/ FutexReturns(t)
      PROVE  /\ \A s \in Threads : pc'[s] = "done" => i'[s] = N
             /\ main' # "printed"
  <2>1. main' # "printed"
    BY <1>2 DEF Thread, Acquire, AcquireFails, FutexWait, FutexReturns, Load, Store, Release,
                FutexWake
  <2>2. CASE Release(t) \/ FutexWake(t)
    BY <2>1, <2>2 DEF Release, FutexWake, NextIteration, Sleepers
  <2> QED BY <1>2, <2>1, <2>2 DEF Thread, Acquire, AcquireFails, FutexWait, FutexReturns, Load,
                                  Store
<1> QED BY <1>1, <1>2 DEF Next

(* What main() prints is N increments for each thread it created.          *)
THEOREM TotalPrinted == Spec => []PrintsTotal
<1>1. Init => CountInv
  <2> SUFFICES ASSUME Init PROVE CountInv
    OBVIOUS
  <2>1. Effective = {}
    BY DEF Init, Effective, incsBar, Stored
  <2> QED BY <2>1, FS_EmptySet DEF Init, CountInv
<1>2. IInv /\ IInv' /\ CountInv /\ [Next]_vars => CountInv'
  <2> SUFFICES ASSUME IInv, IInv', CountInv, [Next]_vars PROVE CountInv'
    OBVIOUS
  <2>1. (val = Cardinality(Effective))'
    BY CounterStep, CountStep DEF CountInv
  <2> QED BY <2>1, DoneStep DEF CountInv
<1>3. IInv /\ CountInv => PrintsTotal
  <2> SUFFICES ASSUME IInv, CountInv, main = "printed" PROVE val = N * Cardinality(Threads)
    BY DEF PrintsTotal
  <2>1. \A t \in Threads : incsBar[t] = N
    BY DEF CountInv, incsBar, Stored
  <2>2. Effective = Threads \X (1 .. N)
    BY <2>1, LockAssumption DEF Effective
  <2>3. Cardinality(Threads) \in Nat
    BY FS_CardinalityType, LockAssumption
  <2> QED BY <2>2, <2>3, Finite, LockAssumption DEF CountInv
<1> QED BY <1>1, <1>2, <1>3, Invariance, PTL DEF Spec
=============================================================================
