--------------------------- MODULE AtomicCounter ---------------------------
(***************************************************************************)
(* What the test of 2-term/2.4 expects of a lock: the threads' increments  *)
(* of one counter take effect one at a time and none is lost.              *)
(***************************************************************************)
EXTENDS Naturals

CONSTANTS Threads, N

VARIABLES
    val,    \* the counter
    incs    \* how many increments of each thread have taken effect

vars == <<val, incs>>

Init == val = 0 /\ incs = [t \in Threads |-> 0]

Inc(t) ==
    /\ incs[t] < N
    /\ val' = val + 1
    /\ incs' = [incs EXCEPT ![t] = @ + 1]

Next == \E t \in Threads : Inc(t)

Spec == Init /\ [][Next]_vars
=============================================================================
