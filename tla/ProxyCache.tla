---------------------------- MODULE ProxyCache -----------------------------
(***************************************************************************)
(* What the proxy of 2-term/3.3 promises of its cache, without threads,    *)
(* locks, heap blocks or a queue: a bounded map from a host's address to a *)
(* response, from which a client may be answered, which is filled only     *)
(* with responses that some client was given, and which may forget.        *)
(* HttpProxy is shown to implement it.                                     *)
(***************************************************************************)
EXTENDS Naturals, FiniteSets

CONSTANTS Conns, Resources, Ips, IpOf, CACHE_SIZE, NULL

VARIABLES
    req,      \* the resource each connection asks for
    cache,    \* per address, the response stored, or NULL
    answer,   \* what each client was given, or NULL
    pending   \* the connections whose response may still be stored

vars == <<req, cache, answer, pending>>

Ip(c) == IpOf[req[c]]
Response(c) == [res : {req[c]}, end : {"eof", "error"}]

Init ==
    /\ req \in [Conns -> Resources]
    /\ cache = [ip \in Ips |-> NULL]
    /\ answer = [c \in Conns |-> NULL]
    /\ pending = {}

(* A hit: the client gets what the cache holds for its host.               *)
AnswerFromCache(c) ==
    /\ answer[c] = NULL
    /\ cache[Ip(c)] # NULL
    /\ answer' = [answer EXCEPT ![c] = cache[Ip(c)]]
    /\ UNCHANGED <<req, cache, pending>>

(* A miss: the client gets what the host sent.                             *)
AnswerFromHost(c) ==
    /\ answer[c] = NULL
    /\ \E r \in Response(c) : answer' = [answer EXCEPT ![c] = r]
    /\ pending' = pending \cup {c}
    /\ UNCHANGED <<req, cache>>

(* The response of a miss is stored for its host, while there is room.     *)
Store(c) ==
    /\ c \in pending
    /\ cache' = [cache EXCEPT ![Ip(c)] = answer[c]]
    /\ Cardinality({ip \in Ips : cache'[ip] # NULL}) <= CACHE_SIZE
    /\ pending' = pending \ {c}
    /\ UNCHANGED <<req, answer>>

Abandon(c) ==
    /\ c \in pending
    /\ pending' = pending \ {c}
    /\ UNCHANGED <<req, cache, answer>>

Forget(ip) ==
    /\ cache[ip] # NULL
    /\ cache' = [cache EXCEPT ![ip] = NULL]
    /\ UNCHANGED <<req, answer, pending>>

Next ==
    \/ \E c \in Conns : AnswerFromCache(c) \/ AnswerFromHost(c) \/ Store(c) \/ Abandon(c)
    \/ \E ip \in Ips : Forget(ip)

Spec == Init /\ [][Next]_vars
=============================================================================
