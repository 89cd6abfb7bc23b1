------------------------------- MODULE MyLock -------------------------------
(***************************************************************************)
(* The two locks of 2-term/2.4 and the test that uses them: a spinlock     *)
(* (my_spinlock.h) and a futex mutex (my_mutex.h), each one int that is 1  *)
(* when free, and threads that increment a shared counter under the lock   *)
(* (test.c).                                                               *)
(***************************************************************************)
EXTENDS Naturals, FiniteSets

CONSTANTS
    Threads,    \* the threads main() creates
    N,          \* iterations of inc(), 10000 in the source
    Faults      \* "create": pthread_create() fails, "intr": FUTEX_WAIT is interrupted

ASSUME LockAssumption ==
    /\ IsFiniteSet(Threads)
    /\ N \in Nat \ {0}
    /\ Faults \subseteq {"create", "intr"}

VARIABLES
    kind,       \* which lock test.c is built with; never changes
    lock,       \* the lock word
    val,        \* the shared counter
    pc,         \* where each thread is
    i,          \* each thread's loop counter
    tmp,        \* the value each thread loaded for val++
    main        \* "run", "exited" (return from main), "aborted", or "printed"

vars == <<kind, lock, val, pc, i, tmp, main>>

(* The lock is held, the lock is being taken, the counter has been stored. *)
Held == {"load", "store", "unlock"}
Contending == {"lock", "wait"}
Stored == {"unlock", "wake"}
Pc == {"new", "lock", "wait", "sleep", "load", "store", "unlock", "wake", "done"}

(* my_spinlock_init() or my_mutex_init().                                  *)
Init ==
    /\ kind \in {"SPINLOCK", "MUTEX"}
    /\ lock = 1
    /\ val = 0
    /\ pc = [t \in Threads |-> "new"]
    /\ i = [t \in Threads |-> 0]
    /\ tmp = [t \in Threads |-> 0]
    /\ main = "run"

-----------------------------------------------------------------------------
Alive == main \in {"run", "printed"}
At(t, label) == Alive /\ pc[t] = label
Goto(t, label) == pc' = [pc EXCEPT ![t] = label]

(* main(): create the threads, join them, print the counter.               *)
Create(t) ==
    /\ main = "run"
    /\ pc[t] = "new"
    /\ Goto(t, "lock")
    /\ UNCHANGED <<kind, lock, val, i, tmp, main>>

CreateFails ==
    /\ "create" \in Faults
    /\ main = "run"
    /\ \E t \in Threads : pc[t] = "new"
    /\ main' = "exited"
    /\ UNCHANGED <<kind, lock, val, pc, i, tmp>>

JoinAndPrint ==
    /\ main = "run"
    /\ \A t \in Threads : pc[t] = "done"
    /\ main' = "printed"
    /\ UNCHANGED <<kind, lock, val, pc, i, tmp>>

-----------------------------------------------------------------------------
(* The compare-exchange of the lock operation: 1 becomes 0.  A spinning    *)
(* thread tries again, the mutex goes to sleep on the lock word.           *)
Acquire_Blind(t) ==
    /\ At(t, "lock")
    /\ lock' = 0
    /\ Goto(t, "load")
    /\ UNCHANGED <<kind, val, i, tmp, main>>

Acquire(t) ==
    /\ At(t, "lock")
    /\ lock = 1
    /\ lock' = 0
    /\ Goto(t, "load")
    /\ UNCHANGED <<kind, val, i, tmp, main>>

AcquireFails(t) ==
    /\ At(t, "lock")
    /\ lock # 1
    /\ Goto(t, IF kind = "MUTEX" THEN "wait" ELSE "lock")
    /\ UNCHANGED <<kind, lock, val, i, tmp, main>>

(* FUTEX_WAIT compares the word with 0 and sleeps in one step; otherwise   *)
(* it fails with EAGAIN and the loop tries again.                          *)
FutexWait_NoCompare(t) ==
    /\ At(t, "wait")
    /\ Goto(t, "sleep")
    /\ UNCHANGED <<kind, lock, val, i, tmp, main>>

FutexWait(t) ==
    /\ At(t, "wait")
    /\ Goto(t, IF lock = 0 THEN "sleep" ELSE "lock")
    /\ UNCHANGED <<kind, lock, val, i, tmp, main>>

(* FUTEX_WAIT may also return without a wake-up, or with EINTR, on which   *)
(* my_mutex_lock() aborts the process.                                     *)
FutexReturns(t) ==
    /\ At(t, "sleep")
    /\ Goto(t, "lock")
    /\ \/ UNCHANGED main
       \/ "intr" \in Faults /\ main' = "aborted"
    /\ UNCHANGED <<kind, lock, val, i, tmp>>

-----------------------------------------------------------------------------
(* val++ on a volatile int: a load, then a store.                          *)
Load(t) ==
    /\ At(t, "load")
    /\ tmp' = [tmp EXCEPT ![t] = val]
    /\ Goto(t, "store")
    /\ UNCHANGED <<kind, lock, val, i, main>>

Store(t) ==
    /\ At(t, "store")
    /\ val' = tmp[t] + 1
    /\ Goto(t, "unlock")
    /\ UNCHANGED <<kind, lock, i, tmp, main>>

-----------------------------------------------------------------------------
(* The end of an iteration of inc(), given the threads that are woken.     *)
NextIteration_Once(t, woken) ==
    /\ i' = [i EXCEPT ![t] = @ + 1]
    /\ pc' = [s \in Threads |->
                 IF s = t THEN (IF i[t] < N THEN "lock" ELSE "done")
                 ELSE IF s \in woken THEN "lock" ELSE pc[s]]

NextIteration(t, woken) ==
    /\ i' = [i EXCEPT ![t] = @ + 1]
    /\ pc' = [s \in Threads |->
                 IF s = t THEN (IF i[t] + 1 < N THEN "lock" ELSE "done")
                 ELSE IF s \in woken THEN "lock" ELSE pc[s]]

(* The compare-exchange of the unlock operation: 0 becomes 1.  Only the    *)
(* mutex, and only if the exchange succeeded, goes on to wake a sleeper.   *)
Release(t) ==
    /\ At(t, "unlock")
    /\ lock' = 1
    /\ IF kind = "MUTEX" /\ lock = 0 THEN Goto(t, "wake") /\ UNCHANGED i
                                     ELSE NextIteration(t, {})
    /\ UNCHANGED <<kind, val, tmp, main>>

Sleepers == {s \in Threads : pc[s] = "sleep"}

(* FUTEX_WAKE 1: one sleeper, if there is any.                             *)
FutexWake_None(t) ==
    /\ At(t, "wake")
    /\ NextIteration(t, {})
    /\ UNCHANGED <<kind, lock, val, tmp, main>>

FutexWake(t) ==
    /\ At(t, "wake")
    /\ \/ Sleepers = {} /\ NextIteration(t, {})
       \/ \E s \in Sleepers : NextIteration(t, {s})
    /\ UNCHANGED <<kind, lock, val, tmp, main>>

-----------------------------------------------------------------------------
Thread(t) == Acquire(t) \/ AcquireFails(t) \/ FutexWait(t) \/ Load(t) \/ Store(t)
             \/ Release(t) \/ FutexWake(t)

Main == CreateFails \/ JoinAndPrint \/ \E t \in Threads : Create(t)

Next == Main \/ \E t \in Threads : Thread(t) \/ FutexReturns(t)

(* Every thread that can run runs; a sleeper is woken only by a wake-up.   *)
Fairness == WF_vars(Main) /\ \A t \in Threads : WF_vars(Thread(t))

Spec == Init /\ [][Next]_vars
FairSpec == Spec /\ Fairness

-----------------------------------------------------------------------------
(* Every variable stays within its type; no thread does more than N        *)
(* iterations.                                                             *)
TypeOK ==
    /\ kind \in {"SPINLOCK", "MUTEX"}
    /\ lock \in {0, 1}
    /\ val \in Nat
    /\ pc \in [Threads -> Pc]
    /\ i \in [Threads -> 0..N]
    /\ tmp \in [Threads -> Nat]
    /\ main \in {"run", "exited", "aborted", "printed"}

(* The lock word is 0 exactly while one thread is between its successful   *)
(* lock and its unlock, and never two threads are; so the compare-exchange *)
(* of unlock, whose failure nobody looks at, always succeeds.              *)
MutualExclusion ==
    /\ \A s, t \in Threads : pc[s] \in Held /\ pc[t] \in Held => s = t
    /\ lock = 0 <=> \E t \in Threads : pc[t] \in Held

(* No lost wake-up: whenever a thread sleeps on the free mutex, another    *)
(* one is about to wake a sleeper or to take the lock (and to wake when it *)
(* gives the lock back).  A wake-up that comes between the failed          *)
(* compare-exchange and FUTEX_WAIT must not be missed.                     *)
NoLostWakeup ==
    Sleepers # {} /\ lock = 1 => \E t \in Threads : pc[t] \in Contending \cup {"wake"}

(* The count of increments that have taken effect, per thread.             *)
incsBar == [t \in Threads |-> IF pc[t] \in Stored THEN i[t] + 1 ELSE i[t]]

Counter == INSTANCE AtomicCounter WITH incs <- incsBar

(* val++ under either lock is an atomic increment: none is lost or undone. *)
ImplementsCounter == Counter!Spec

(* main() prints N increments for each thread.                             *)
PrintsTotal == main = "printed" => val = N * Cardinality(Threads)

(* Every thread gets through its loop and main() prints, unless the        *)
(* process ends early: nobody sleeps for ever.                             *)
Terminates == <>(main # "run")
=============================================================================
