----------------------------- MODULE Dictionary -----------------------------
(***************************************************************************)
(* What a user of map.c in 2-term/3.3 relies on: a partial function from   *)
(* keys to values.  Each operation of it touches one key, or nothing; which*)
(* one a call has to be is said where the call is (HashMap).               *)
(***************************************************************************)
CONSTANTS Keys, Values, NULL

VARIABLE dict   \* the value of each key, or NULL

Init == dict = [k \in Keys |-> NULL]

(* A set, a removal, and a set that fails.                                 *)
Put(k, v) == dict' = [dict EXCEPT ![k] = v]
Delete(k) == dict' = [dict EXCEPT ![k] = NULL]
Fail == UNCHANGED dict

Next == Fail \/ \E k \in Keys : Delete(k) \/ \E v \in Values : Put(k, v)

Spec == Init /\ [][Next]_dict
=============================================================================
