---------------------------- MODULE MCHttpProxy ----------------------------
(* Instances of HttpProxy for TLC.                                         *)
EXTENDS HttpProxy, TLC

CONSTANTS c1, c2, c3

(* Two resources of one host and one of another: the cache is keyed by     *)
(* address, so the first two share an entry.                               *)
MCConns3 == {c1, c2, c3}
MCResources == {"a", "a2", "b"}
MCResources2 == {"a", "b"}
MCIps == {"A", "B"}
MCIpOf == [r \in MCResources |-> IF r = "b" THEN "B" ELSE "A"]
MCIpOf2 == [r \in MCResources2 |-> IF r = "b" THEN "B" ELSE "A"]

(* Handlers are interchangeable: req is chosen for each of them in Init.   *)
Symmetry3 == Permutations(MCConns3)
=============================================================================
