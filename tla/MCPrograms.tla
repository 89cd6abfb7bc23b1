----------------------------- MODULE MCPrograms -----------------------------
EXTENDS Programs

CONSTANTS k1, k2, k3, k4, k5, p1, p2, p3, p4, c1, c2, c3

MCKeys == {k1, k2, k3, k4, k5}
MCHosts == {k1, k2, k3}
MCValues == {p1, p2, p3, p4}
MCClientValues == {p1, p2}
MCClients == {c1, c2, c3}

(* Chains that the doublings to two, four and eight buckets split.         *)
MCHash == k1 :> 0 @@ k2 :> 2 @@ k3 :> 4 @@ k4 :> 3 @@ k5 :> 8

MCVersion == <<"/">>

(* A read from its first character on, with or without the empty line, in  *)
(* the path, after the request line and after the first header.            *)
RequestLine == <<"1", "SP", "/", "SP", "/", "1", "LF">>
MCBeginnings ==
    {<<>>, <<"1", "SP", "/">>, <<"CR", "LF", "1", "SP", "/">>,
     RequestLine, RequestLine \o <<"1", ":", "LF">>}
=============================================================================
