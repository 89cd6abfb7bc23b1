------------------------------ MODULE Programs ------------------------------
(***************************************************************************)
(* The parts and programs that run by themselves, side by side: the two    *)
(* containers of the proxy with a client that makes any calls in any       *)
(* order, the cache that is built from them, the request parser, the user  *)
(* threads and the echo servers.  A behaviour runs one of them, the others *)
(* stay where they begin.                                                  *)
(***************************************************************************)
EXTENDS PQueueUse, HashMap, CacheStore, RequestParser, UThread, EchoServer

CONSTANT Running    \* which of them are looked at

ASSUME ProgramsAssumption ==
    Running \subseteq {"pqueue", "map", "cache", "parser", "uthreads", "echo"}

VARIABLE program    \* the one that runs; never changes

vars == <<program, data, mapVars, storeVars, parserVars, uthreadVars, echoVars>>

Init ==
    /\ program \in Running
    /\ UseInit /\ MapInit /\ StoreInit /\ ParserInit /\ UThreadInit /\ EchoInit
    /\ program # "parser" => beginning = CHOOSE b \in Beginnings : TRUE
    /\ program # "uthreads" => \A t \in Tids : rounds[t] = 0
    /\ program # "echo" =>
          /\ family = "AF_UNIX"
          /\ \A c \in Clients : number[c] = CHOOSE n \in Numbers : TRUE

RunPQueue ==
    /\ program = "pqueue" /\ UseNext
    /\ UNCHANGED <<program, mapVars, storeVars, parserVars, uthreadVars, echoVars>>

RunMap ==
    /\ program = "map" /\ MapNext
    /\ UNCHANGED <<program, data, storeVars, parserVars, uthreadVars, echoVars>>

RunCache ==
    /\ program = "cache" /\ StoreNext
    /\ UNCHANGED <<program, data, parserVars, uthreadVars, echoVars>>

RunParser ==
    /\ program = "parser" /\ ParserNext
    /\ UNCHANGED <<program, data, mapVars, storeVars, uthreadVars, echoVars>>

RunUThreads ==
    /\ program = "uthreads" /\ UThreadNext
    /\ UNCHANGED <<program, data, mapVars, storeVars, parserVars, echoVars>>

Echo(A) ==
    /\ program = "echo" /\ A
    /\ UNCHANGED <<program, data, mapVars, storeVars, parserVars, uthreadVars>>

Next == RunPQueue \/ RunMap \/ RunCache \/ RunParser \/ RunUThreads \/ Echo(EchoNext)

Spec == Init /\ [][Next]_vars

(* The process of the user threads keeps running, and so do the server and *)
(* each of its clients while they can.                                     *)
Fairness ==
    /\ WF_vars(RunUThreads)
    /\ WF_vars(Echo(Server))
    /\ \A c \in Clients : WF_vars(Echo(Client(c)))

FairSpec == Spec /\ Fairness

(* While the cache runs, its map, heap, counter and blocks fit together    *)
(* (StoreSound): no host's entry leads to a freed page, no page is queued  *)
(* twice or lost, and a full cache always has a page to give up.           *)
CacheSound == program = "cache" => StoreSound
=============================================================================
