------------------------------ MODULE MyThread ------------------------------
(***************************************************************************)
(* The kernel thread of 2-term/1.6: main() starts it with clone() and      *)
(* joins it; the two meet on the futex words isFinished and isJoined of    *)
(* the structure at the bottom of the thread's stack.                      *)
(*                                                                         *)
(* Each futex call and each access to the structure is a step.  FUTEX_WAIT *)
(* compares and sleeps in one step; a sleep may also end by itself.        *)
(***************************************************************************)

CONSTANTS
    RESULT,     \* what mythread_func() returns
    NULL        \* the null pointer

VARIABLES
    isFinished, isJoined, retval,   \* the mythread_s
    mpc,        \* main() and mythread_join()
    tpc,        \* mythread_startup()
    got,        \* the retval of main()
    status      \* "running", "aborted" (exit(-1)) or "returned"

vars == <<isFinished, isJoined, retval, mpc, tpc, got, status>>

Init ==
    /\ isFinished = 0 /\ isJoined = 0 /\ retval = NULL
    /\ mpc = "create" /\ tpc = "none" /\ got = NULL
    /\ status = "running"

(* mythread_create(): the structure is ready before clone(), which may     *)
(* fail.                                                                   *)
Create ==
    /\ mpc = "create"
    /\ \/ mpc' = "wait" /\ tpc' = "routine" /\ UNCHANGED status
       \/ status' = "aborted" /\ UNCHANGED <<mpc, tpc>>
    /\ UNCHANGED <<isFinished, isJoined, retval, got>>

-----------------------------------------------------------------------------
(* mythread_startup(): the routine returns, then FUTEX_WAKE comes first    *)
(* and the store after it.                                                 *)
Routine ==
    /\ tpc = "routine"
    /\ tpc' = "wake"
    /\ UNCHANGED <<isFinished, isJoined, retval, mpc, got, status>>

WakeJoiner ==
    /\ tpc = "wake"
    /\ tpc' = "finished"
    /\ mpc' = IF mpc = "asleep" THEN "woken" ELSE mpc
    /\ UNCHANGED <<isFinished, isJoined, retval, got, status>>

StoreFinished ==
    /\ tpc = "finished"
    /\ isFinished' = 1 /\ tpc' = "retval"
    /\ UNCHANGED <<isJoined, retval, mpc, got, status>>

StoreRetval ==
    /\ tpc = "retval"
    /\ retval' = RESULT /\ tpc' = "wait"
    /\ UNCHANGED <<isFinished, isJoined, mpc, got, status>>

(* FUTEX_WAIT on a word that is already 1 fails with EAGAIN, which ends in *)
(* the last branch, exit(-1).                                              *)
WaitJoined ==
    /\ tpc = "wait"
    /\ IF isJoined = 0 THEN tpc' = "asleep" /\ UNCHANGED status
                       ELSE status' = "aborted" /\ UNCHANGED tpc
    /\ UNCHANGED <<isFinished, isJoined, retval, mpc, got>>

ThreadWoken ==
    /\ tpc = "woken"
    /\ tpc' = IF isJoined = 1 THEN "gone" ELSE "wait"
    /\ UNCHANGED <<isFinished, isJoined, retval, mpc, got, status>>

-----------------------------------------------------------------------------
(* mythread_join(), the same way round.                                    *)
WaitFinished ==
    /\ mpc = "wait"
    /\ IF isFinished = 0 THEN mpc' = "asleep" /\ UNCHANGED status
                         ELSE status' = "aborted" /\ UNCHANGED mpc
    /\ UNCHANGED <<isFinished, isJoined, retval, tpc, got>>

JoinWoken ==
    /\ mpc = "woken"
    /\ mpc' = IF isFinished = 1 THEN "wake" ELSE "wait"
    /\ UNCHANGED <<isFinished, isJoined, retval, tpc, got, status>>

WakeThread ==
    /\ mpc = "wake"
    /\ mpc' = "joined"
    /\ tpc' = IF tpc = "asleep" THEN "woken" ELSE tpc
    /\ UNCHANGED <<isFinished, isJoined, retval, got, status>>

StoreJoined ==
    /\ mpc = "joined"
    /\ isJoined' = 1 /\ mpc' = "read"
    /\ UNCHANGED <<isFinished, retval, tpc, got, status>>

ReadRetval ==
    /\ mpc = "read"
    /\ got' = retval /\ mpc' = "print"
    /\ UNCHANGED <<isFinished, isJoined, retval, tpc, status>>

(* main() prints and returns, which ends the process.                      *)
PrintAndReturn ==
    /\ mpc = "print"
    /\ status' = "returned"
    /\ UNCHANGED <<isFinished, isJoined, retval, mpc, tpc, got>>

SpuriousWakeup ==
    /\ \/ mpc = "asleep" /\ mpc' = "woken" /\ UNCHANGED tpc
       \/ tpc = "asleep" /\ tpc' = "woken" /\ UNCHANGED mpc
    /\ UNCHANGED <<isFinished, isJoined, retval, got, status>>

-----------------------------------------------------------------------------
Main == status = "running" /\ (Create \/ WaitFinished \/ JoinWoken \/ WakeThread \/ StoreJoined
                               \/ ReadRetval \/ PrintAndReturn)
Thread == status = "running" /\ (Routine \/ WakeJoiner \/ StoreFinished \/ StoreRetval
                                 \/ WaitJoined \/ ThreadWoken)

Next == Main \/ Thread \/ (status = "running" /\ SpuriousWakeup)

(* Both threads keep running while they can; nothing owes anyone a         *)
(* spurious wake-up.                                                       *)
Spec == Init /\ [][Next]_vars /\ WF_vars(Main) /\ WF_vars(Thread)

(* mythread_join() "waiting for thread to finish" gets what the thread's   *)
(* function returned, and main() prints it, once clone() has succeeded.    *)
JoinGetsResult == tpc = "routine" ~> (status = "returned" /\ got = RESULT)
=============================================================================
