-------------------------- MODULE MCConcurrentList --------------------------
(* Instance of ConcurrentList for TLC: two comparators, two swappers and   *)
(* a list of four nodes.                                                   *)
EXTENDS ConcurrentList

CONSTANTS c1, c2, s1, s2, n1, n2, n3, n4

MCComparators == {c1, c2}
MCSwappers == {s1, s2}
MCNodes == {n1, n2, n3, n4}
MCOrder == <<n1, n2, n3, n4>>
=============================================================================
