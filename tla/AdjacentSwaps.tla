--------------------------- MODULE AdjacentSwaps ---------------------------
(***************************************************************************)
(* What the threads of 2-term/2.3 may do to their linked list: exchange    *)
(* two neighbours, in one step, and never the first node.                  *)
(***************************************************************************)
CONSTANTS
    NULL,
    succ0   \* the list at the start

VARIABLE succ   \* the successor of each node, NULL for the last one

Init == succ = succ0

(* The two nodes after p change places.                                    *)
Swap(p) ==
    LET a == succ[p]
        b == succ[a]
    IN  /\ a # NULL /\ b # NULL
        /\ succ' = [succ EXCEPT ![p] = b, ![b] = a, ![a] = succ[b]]

Next == \E p \in DOMAIN succ : succ[p] # NULL /\ Swap(p)

Spec == Init /\ [][Next]_succ
=============================================================================
