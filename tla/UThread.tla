------------------------------ MODULE UThread ------------------------------
(***************************************************************************)
(* The user threads of 2-term/1.7: a round-robin scheduler on top of       *)
(* swapcontext().  Thread 0 is main().                                     *)
(*                                                                         *)
(* A saved context is who resumes and where; the loop counters live on the *)
(* stacks, which swapcontext() does not copy.  getcontext() and            *)
(* swapcontext() do not fail on Linux.                                     *)
(***************************************************************************)
EXTENDS Naturals, FiniteSets

CONSTANTS
    N,          \* the threads main() creates, 3 in the source (MAX_THREADS - 1)
    ROUNDS      \* the longest loop of a thread, 3 in the source

ASSUME UThreadAssumption == N \in Nat \ {0} /\ ROUNDS \in Nat

Tids == 1 .. N
Slots == 0 .. N
Contexts == [who : Slots, at : {"unset", "loop", "resumed"}]

VARIABLES
    rounds,     \* the loop bound of each thread's function; never changes
    ucntx,      \* the saved context of each uthreads[] entry
    uthread_count, uthread_curr, uthread_finished_count,
    running,    \* whose code is running
    pc,         \* where: "create", "loop", "resumed" or "exited"
    i           \* the loop counter of each thread

uthreadVars ==
    <<rounds, ucntx, uthread_count, uthread_curr, uthread_finished_count, running, pc, i>>

Context(who, at) == [who |-> who, at |-> at]

(* main() up to the first uthread_create(): no context has been saved, not *)
(* even its own.                                                           *)
UThreadInit ==
    /\ rounds \in [Tids -> 0 .. ROUNDS]
    /\ ucntx = [s \in Slots |-> Context(0, "unset")]
    /\ uthread_count = 1 /\ uthread_curr = 0 /\ uthread_finished_count = 0
    /\ running = 0 /\ pc = "create"
    /\ i = [t \in Tids |-> 0]

(* uthread_create(): the new context starts at the thread's function.      *)
Create ==
    /\ pc = "create"
    /\ ucntx' = [ucntx EXCEPT ![uthread_count] = Context(uthread_count, "loop")]
    /\ uthread_count' = uthread_count + 1
    /\ pc' = IF uthread_count = N THEN "loop" ELSE "create"
    /\ UNCHANGED <<rounds, uthread_curr, uthread_finished_count, running, i>>

Resume(context) == running' = context.who /\ pc' = context.at

Finished == running \in Tids /\ i[running] = rounds[running]

Following == (uthread_curr + 1) % uthread_count

Switch_KeepsCurr ==
    /\ ucntx' = [ucntx EXCEPT ![Following] = Context(running, "resumed")]
    /\ uthread_curr' = Following
    /\ Resume(ucntx[Following])

Switch_SkipsOne ==
    LET s == (uthread_curr + 2) % uthread_count
    IN  /\ ucntx' = [ucntx EXCEPT ![uthread_curr] = Context(running, "resumed")]
        /\ uthread_curr' = s
        /\ Resume(ucntx[s])

(* uthread_shedule() up to swapcontext().                                  *)
Switch ==
    /\ ucntx' = [ucntx EXCEPT ![uthread_curr] = Context(running, "resumed")]
    /\ uthread_curr' = Following
    /\ Resume(ucntx[Following])

Schedule ==
    /\ pc = "loop" /\ ~ Finished
    /\ running = 0 => uthread_finished_count # N
    /\ Switch
    /\ UNCHANGED <<rounds, uthread_count, uthread_finished_count, i>>

(* The rest of uthread_shedule() and the end of the loop's body.           *)
Resumed ==
    /\ pc = "resumed"
    /\ pc' = "loop"
    /\ i' = IF running = 0 THEN i ELSE [i EXCEPT ![running] = @ + 1]
    /\ UNCHANGED <<rounds, ucntx, uthread_count, uthread_curr, uthread_finished_count, running>>

Return_Uncounted ==
    /\ pc = "loop" /\ Finished
    /\ Resume(ucntx[0])
    /\ UNCHANGED <<rounds, ucntx, uthread_count, uthread_curr, uthread_finished_count, i>>

(* A thread's function counts itself finished and returns to uc_link, the  *)
(* context of main(); uthread_curr stays at the finished thread.           *)
Return ==
    /\ pc = "loop" /\ Finished
    /\ uthread_finished_count' = uthread_finished_count + 1
    /\ Resume(ucntx[0])
    /\ UNCHANGED <<rounds, ucntx, uthread_count, uthread_curr, i>>

(* main() leaves its loop.                                                 *)
Exit ==
    /\ pc = "loop" /\ running = 0
    /\ uthread_finished_count = N
    /\ pc' = "exited"
    /\ UNCHANGED <<rounds, ucntx, uthread_count, uthread_curr, uthread_finished_count, running, i>>

UThreadNext == Create \/ Schedule \/ Resumed \/ Return \/ Exit

UThreadSpec == UThreadInit /\ [][UThreadNext]_uthreadVars

-----------------------------------------------------------------------------
(* Thread t has not returned.  The slot of a thread that has still holds   *)
(* its last context until main(), in its place, saves over it.             *)
Live(t) == running = t \/ (ucntx[t].who = t /\ uthread_curr # t)
Created == {t \in Tids : t < uthread_count}

(* The scheduler mixes no contexts up.  What runs is the current slot's    *)
(* thread, or main() in the place of one that has returned; a slot holds   *)
(* its own thread's context or main()'s; and no thread's context is lost   *)
(* before it has returned, nor is one that has returned resumed, nor one   *)
(* that was never saved.                                                   *)
ContextsKept ==
    /\ pc # "unset"
    /\ running \in {0, uthread_curr}
    /\ \A s \in Slots : ucntx[s].who \in {0, s}
    /\ uthread_finished_count = Cardinality({t \in Created : ~ Live(t)})
    /\ \A t \in Created : ~ Live(t) => i[t] = rounds[t]

(* The calls of uthread_shedule() that thread t has made.                  *)
Turns(t) ==
    i[t] + (IF (IF running = t THEN pc ELSE ucntx[t].at) = "resumed" THEN 1 ELSE 0)

(* Turns go round: of two threads that have not returned, the one created  *)
(* first is level with the other or one turn ahead.                        *)
RoundRobin ==
    \A s, t \in Created :
        s < t /\ Live(s) /\ Live(t) => Turns(s) \in {Turns(t), Turns(t) + 1}

(* Once its threads are created the program ends, and only after every     *)
(* loop: main() waits for them all.                                        *)
Finishes == uthread_count = N + 1 ~> (pc = "exited" /\ i = rounds)
=============================================================================
