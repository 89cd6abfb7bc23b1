-------------------------- MODULE HttpProxyProofs --------------------------
(***************************************************************************)
(* Proofs about HttpProxy, for any set of connections, resources and       *)
(* addresses, any cache size and any choice of faults.                     *)
(***************************************************************************)
EXTENDS HttpProxy, FiniteSetTheorems, TLAPS

(* The part of the inductive invariant that the properties leave implicit: *)
(* what a handler owns at each of its steps, and what its buffer holds.    *)
HandlerState ==
    \A c \in Conns :
        /\ pc[c] \in {"read", "lookup", "hit", "connect", "reading", "reply"}
              => buffer[c] = "live" /\ answer[c] = NULL
        /\ pc[c] \in {"reply", "lock", "evict", "set", "enqueue"} => body[c] # NULL
        /\ pc[c] \in {"lock", "evict", "set", "enqueue"}
              => page[c] = "live" /\ buffer[c] = "live" /\ answer[c] = body[c]
        /\ pc[c] \in {"none", "orphan"} => answer[c] = NULL
        /\ body[c] # NULL => body[c].res = req[c]
        /\ pc[c] = "evict" => curr_cache_size = CACHE_SIZE

(* The parts about the handlers, their heap blocks and the map.            *)
Memory == MutexDiscipline /\ NoDanglingPage /\ QueuedPagesLive /\ HandlerState

(* The part about the size of the queue.                                   *)
Sizes == IsFiniteSet(pqueue) /\ CacheAccounting

IInv == TypeOK /\ Memory /\ Sizes /\ AnswerFromRequestedHost

-----------------------------------------------------------------------------
(* The initial states satisfy the invariant.                               *)
LEMMA InitIInv == Init => IInv
<1> SUFFICES ASSUME Init PROVE IInv
  OBVIOUS
<1> USE ProxyAssumption DEF Init
<1>1. TypeOK
  BY DEF TypeOK, HandlerPc
<1>2. Memory
  BY DEF Memory, MutexDiscipline, NoDanglingPage, QueuedPagesLive, HandlerState,
         Critical, Cached
<1>3. Sizes
  BY FS_EmptySet DEF Sizes, CacheAccounting
<1>4. AnswerFromRequestedHost
  BY DEF AnswerFromRequestedHost
<1> QED BY <1>1, <1>2, <1>3, <1>4 DEF IInv

(* Every step of the proxy stays within the types.                         *)
LEMMA TypeStep == ASSUME IInv, [Next]_vars PROVE TypeOK'
<1> USE ProxyAssumption DEF IInv, TypeOK, HandlerPc, mainVars, sockVars, heapVars, cacheVars,
           Goto, At
<1>1. CASE Main
  BY <1>1 DEF Main, Startup, LoopTest, Accept, AcceptNoThread, AcceptFails, Signal
<1>2. ASSUME NEW c \in Conns, ReadRequest(c) \/ Lookup(c) PROVE TypeOK'
  BY <1>2 DEF ReadRequest, Lookup, Lock
<1>3. ASSUME NEW c \in Conns, ServeHit(c) PROVE TypeOK'
  BY <1>3 DEF ServeHit, Unlock, CloseAndFree, Served, CountUse, Memory, NoDanglingPage, Cached, Ip
<1>4. ASSUME NEW c \in Conns, Fetch(c) PROVE TypeOK'
  <2>1. CASE ConnectHost(c)
    BY <2>1 DEF ConnectHost
  <2>2. CASE ReadHost(c)
    <3> PICK end \in {"eof", "error"} : body' = [body EXCEPT ![c] = [res |-> req[c], end |-> end]]
      BY <2>2 DEF ReadHost
    <3>1. [res |-> req[c], end |-> end] \in Body
      BY DEF Body
    <3> QED BY <2>2, <3>1 DEF ReadHost
  <2>3. CASE ReplyClient(c)
    BY <2>3 DEF ReplyClient, CloseBoth
  <2> QED BY <1>4, <2>1, <2>2, <2>3 DEF Fetch
<1>5. ASSUME NEW c \in Conns, LockInsert(c) \/ MapSet(c) \/ Enqueue(c) PROVE TypeOK'
  BY <1>5 DEF LockInsert, MapSet, Enqueue, MapPut, Lock, Unlock, Ip
<1>6. ASSUME NEW c \in Conns, Evict(c) PROVE TypeOK'
  <2>1. CASE DequeueFails(c)
    BY <2>1 DEF DequeueFails, Unlock
  <2>2. ASSUME NEW victim \in Conns, EvictPage(c, victim) PROVE TypeOK'
    <3>1. curr_cache_size - 1 \in Nat
      BY <2>2 DEF EvictPage, Memory, HandlerState
    <3>2. Ip(victim) \in Ips
      BY DEF Ip
    <3> QED BY <2>2, <3>1, <3>2 DEF EvictPage, MapRemove, EvictedKey, Uncount
  <2> QED BY <1>6, <2>1, <2>2 DEF Evict
<1>7. ASSUME NEW c \in Conns, HandlerFails(c) PROVE TypeOK'
  BY <1>7 DEF HandlerFails, RequestRejected, ServeHitFails, ConnectFails, ReallocFails,
              ReplyFails, MapSetFails, Killed, CloseAndFree, CloseBoth, Unlock
<1>8. CASE UNCHANGED vars
  BY <1>8 DEF vars
<1> QED BY <1>1, <1>2, <1>3, <1>4, <1>5, <1>6, <1>7, <1>8 DEF Next, Handler, Insert

(* Every step keeps the mutex, the map, the queue and the heap consistent. *)
LEMMA MemoryStep == ASSUME IInv, [Next]_vars, TypeOK' PROVE Memory'
<1> USE ProxyAssumption DEF IInv, TypeOK, Memory, MutexDiscipline, NoDanglingPage,
           QueuedPagesLive, HandlerState, Critical, Cached, Ip,
           mainVars, sockVars, heapVars, cacheVars, Goto, At
<1>1. CASE Main
  BY <1>1 DEF Main, Startup, LoopTest, Accept, AcceptNoThread, AcceptFails, Signal
<1>2. ASSUME NEW c \in Conns, ReadRequest(c) \/ Lookup(c) PROVE Memory'
  BY <1>2 DEF ReadRequest, Lookup, Lock
<1>3. ASSUME NEW c \in Conns, ServeHit(c) PROVE Memory'
  BY <1>3 DEF ServeHit, Unlock, CloseAndFree, Served, CountUse
<1>4. ASSUME NEW c \in Conns, ConnectHost(c) PROVE Memory'
  BY <1>4 DEF ConnectHost
<1>5. ASSUME NEW c \in Conns, ReadHost(c) PROVE Memory'
  BY <1>5 DEF ReadHost, Body
<1>6. ASSUME NEW c \in Conns, ReplyClient(c) PROVE Memory'
  BY <1>6 DEF ReplyClient, CloseBoth
<1>7. ASSUME NEW c \in Conns, LockInsert(c) PROVE Memory'
  BY <1>7 DEF LockInsert, Lock
<1>8. ASSUME NEW c \in Conns, MapSet(c) PROVE Memory'
  BY <1>8 DEF MapSet, MapPut
<1>9. ASSUME NEW c \in Conns, Enqueue(c) PROVE Memory'
  BY <1>9 DEF Enqueue, Unlock, Sizes, CacheAccounting
<1>10. ASSUME NEW c \in Conns, DequeueFails(c) PROVE Memory'
  BY <1>10 DEF DequeueFails, Unlock
<1>11. ASSUME NEW c \in Conns, NEW victim \in Conns, EvictPage(c, victim) PROVE Memory'
  BY <1>11 DEF EvictPage, MapRemove, EvictedKey, Uncount, Greatest
<1>12. ASSUME NEW c \in Conns, RequestRejected(c) \/ ConnectFails(c) \/ ReplyFails(c)
       PROVE  Memory'
  BY <1>12 DEF RequestRejected, ConnectFails, ReplyFails, CloseAndFree
<1>13. ASSUME NEW c \in Conns, ServeHitFails(c) \/ ReallocFails(c) \/ Killed(c)
       PROVE  Memory'
  BY <1>13 DEF ServeHitFails, ReallocFails, Killed, CloseBoth, Unlock
<1>14. ASSUME NEW c \in Conns, MapSetFails(c) PROVE Memory'
  BY <1>14 DEF MapSetFails
<1>15. CASE UNCHANGED vars
  BY <1>15 DEF vars
<1> QED BY <1>1, <1>2, <1>3, <1>4, <1>5, <1>6, <1>7, <1>8, <1>9, <1>10, <1>11, <1>12,
           <1>13, <1>14, <1>15
        DEF Next, Handler, Insert, Fetch, Evict, HandlerFails

(* Every step keeps curr_cache_size equal to the size of the queue: only   *)
(* Enqueue and EvictPage change either.                                    *)
LEMMA SizesStep == ASSUME IInv, [Next]_vars PROVE Sizes'
<1> USE ProxyAssumption DEF IInv, TypeOK, Sizes, CacheAccounting, Memory, MutexDiscipline,
           Critical, mainVars, sockVars, heapVars, cacheVars, Goto, At
<1>1. CASE Main
  BY <1>1 DEF Main, Startup, LoopTest, Accept, AcceptNoThread, AcceptFails, Signal
<1>2. ASSUME NEW c \in Conns,
             ReadRequest(c) \/ Lookup(c) \/ ServeHit(c) \/ Fetch(c) \/ HandlerFails(c)
      PROVE  Sizes'
  BY <1>2 DEF ReadRequest, Lookup, ServeHit, Fetch, ConnectHost, ReadHost, ReplyClient,
              HandlerFails, RequestRejected, ServeHitFails, ConnectFails, ReallocFails,
              ReplyFails, MapSetFails, Killed, CloseAndFree
<1>3. ASSUME NEW c \in Conns, LockInsert(c) \/ MapSet(c) PROVE Sizes'
  BY <1>3 DEF LockInsert, MapSet, Lock
<1>4. ASSUME NEW c \in Conns, Enqueue(c) PROVE Sizes'
  <2>1. c \notin pqueue
    BY <1>4 DEF Enqueue, QueuedPagesLive
  <2>2. pqueue' = pqueue \cup {c}
    BY <1>4 DEF Enqueue
  <2>3. IsFiniteSet(pqueue') /\ Cardinality(pqueue') = Cardinality(pqueue) + 1
    BY <2>1, <2>2, FS_AddElement
  <2> QED BY <1>4, <2>3 DEF Enqueue, Unlock
<1>5. ASSUME NEW c \in Conns, NEW victim \in Conns, EvictPage(c, victim) PROVE Sizes'
  <2>1. victim \in pqueue
    BY <1>5 DEF EvictPage, Greatest
  <2>2. IsFiniteSet(pqueue') /\ Cardinality(pqueue') = Cardinality(pqueue) - 1
    BY <1>5, <2>1, FS_RemoveElement DEF EvictPage
  <2> QED BY <1>5, <2>2 DEF EvictPage, Uncount
<1>6. ASSUME NEW c \in Conns, DequeueFails(c) PROVE Sizes'
  BY <1>6 DEF DequeueFails, Unlock
<1>7. CASE UNCHANGED vars
  BY <1>7 DEF vars
<1> QED BY <1>1, <1>2, <1>3, <1>4, <1>5, <1>6, <1>7 DEF Next, Handler, Insert, Evict

(* Every answer comes from the host that was asked.                        *)
LEMMA AnswerStep == ASSUME IInv, [Next]_vars PROVE AnswerFromRequestedHost'
<1> USE ProxyAssumption DEF IInv, TypeOK, AnswerFromRequestedHost, Ip, mainVars, sockVars,
           heapVars, cacheVars, At
<1>1. CASE Main
  BY <1>1 DEF Main, Startup, LoopTest, Accept, AcceptNoThread, AcceptFails, Signal
<1>2. ASSUME NEW c \in Conns,
             \/ ReadRequest(c) \/ Lookup(c) \/ ConnectHost(c) \/ ReadHost(c)
             \/ Insert(c) \/ HandlerFails(c)
      PROVE  AnswerFromRequestedHost'
  BY <1>2 DEF ReadRequest, Lookup, ConnectHost, ReadHost, Insert, LockInsert, Evict,
              EvictPage, DequeueFails, MapSet, Enqueue, HandlerFails, RequestRejected,
              ServeHitFails, ConnectFails, ReallocFails, ReplyFails, MapSetFails, Killed
<1>3. ASSUME NEW c \in Conns, ServeHit(c) PROVE AnswerFromRequestedHost'
  BY <1>3 DEF ServeHit, Served, CountUse, Memory, NoDanglingPage, HandlerState, Cached
<1>4. ASSUME NEW c \in Conns, ReplyClient(c) PROVE AnswerFromRequestedHost'
  BY <1>4 DEF ReplyClient, Memory, HandlerState
<1>5. CASE UNCHANGED vars
  BY <1>5 DEF vars
<1> QED BY <1>1, <1>2, <1>3, <1>4, <1>5 DEF Next, Handler, Fetch

(* The invariant holds in every state.                                     *)
THEOREM Invariance == Spec => []IInv
<1>1. IInv /\ [Next]_vars => IInv'
  BY TypeStep, MemoryStep, SizesStep, AnswerStep DEF IInv
<1> QED BY InitIInv, <1>1, PTL DEF Spec

(* No variable ever leaves its type; in particular curr_cache_size never   *)
(* wraps below zero.                                                       *)
THEOREM TypeCorrect == Spec => []TypeOK
BY Invariance, PTL DEF IInv

(* cache_mutex is held exactly between lock and unlock.                    *)
THEOREM MutualExclusion == Spec => []MutexDiscipline
BY Invariance, PTL DEF IInv, Memory

(* No handler ever reads a freed message through the map.                  *)
THEOREM NoUseAfterFree == Spec => []NoDanglingPage
BY Invariance, PTL DEF IInv, Memory

(* No page is ever freed twice: what the queue holds is allocated.         *)
THEOREM NoDoubleFree == Spec => []QueuedPagesLive
BY Invariance, PTL DEF IInv, Memory

(* curr_cache_size is the length of the queue and within CACHE_SIZE.       *)
THEOREM SizeExact == Spec => []CacheAccounting
BY Invariance, PTL DEF IInv, Sizes

(* No client is ever answered with the page of another host.               *)
THEOREM RightHost == Spec => []AnswerFromRequestedHost
BY Invariance, PTL DEF IInv

-----------------------------------------------------------------------------
(* The accept loop after the signal.                                       *)
StopInv ==
    /\ late # {} => stop_flag = 1 /\ mainpc \in {"test", "exited"}
    /\ late = {} \/ \E c \in Conns : late = {c}

(* A signal is followed by at most one more accepted connection.           *)
THEOREM StopPrompt == Spec => []StopAcceptsAtMostOne
<1>1. Init => StopInv
  BY DEF Init, StopInv
<1>2. StopInv /\ [Next]_vars => StopInv'
  <2> SUFFICES ASSUME StopInv, [Next]_vars PROVE StopInv'
    OBVIOUS
  <2> USE DEF StopInv
  <2>1. CASE Main
    BY <2>1 DEF Main, Startup, LoopTest, Accept, AcceptNoThread, AcceptFails, Signal
  <2>2. ASSUME NEW c \in Conns, Handler(c), ~Killed(c) PROVE StopInv'
    BY <2>2 DEF Handler, ReadRequest, Lookup, ServeHit, Fetch, ConnectHost, ReadHost,
         ReplyClient, Insert, LockInsert, Evict, EvictPage, DequeueFails, MapSet, Enqueue,
         HandlerFails, RequestRejected, ServeHitFails, ConnectFails, ReallocFails,
         ReplyFails, MapSetFails, mainVars
  <2>3. ASSUME NEW c \in Conns, Killed(c) PROVE StopInv'
    BY <2>3 DEF Killed
  <2>4. CASE UNCHANGED vars
    BY <2>4 DEF vars, mainVars
  <2> QED BY <2>1, <2>2, <2>3, <2>4 DEF Next
<1>3. StopInv => StopAcceptsAtMostOne
  <2> SUFFICES ASSUME StopInv PROVE StopAcceptsAtMostOne
    OBVIOUS
  <2>1. CASE late = {}
    BY <2>1, FS_EmptySet DEF StopAcceptsAtMostOne
  <2>2. CASE \E c \in Conns : late = {c}
    BY <2>2, FS_Singleton DEF StopAcceptsAtMostOne
  <2> QED BY <2>1, <2>2 DEF StopInv
<1> QED BY <1>1, <1>2, <1>3, PTL DEF Spec

-----------------------------------------------------------------------------
(* Which sockets and pages a handler has at each of its steps.             *)
OwnedInv ==
    /\ ResourcesReleased
    /\ \A c \in Conns :
        /\ pc[c] \in {"none", "orphan", "read", "lookup", "hit", "connect"}
              => host_fd[c] = "none"
        /\ pc[c] \in {"none", "orphan", "read", "lookup", "hit", "connect", "reading", "reply"}
              => page[c] = "none"
        /\ pc[c] \in {"lock", "evict", "set", "enqueue"}
              => client_fd[c] = "closed" /\ host_fd[c] = "closed"

(* A step of the proxy leaves no socket and no answered page behind.       *)
LEMMA OwnedStep == ASSUME IInv, OwnedInv, [Next]_vars, TypeOK' PROVE OwnedInv'
<1> USE ProxyAssumption DEF IInv, TypeOK, OwnedInv, ResourcesReleased, Memory, HandlerState,
           QueuedPagesLive, mainVars, sockVars, heapVars, cacheVars, Goto, At
<1>1. CASE Main
  BY <1>1 DEF Main, Startup, LoopTest, Accept, AcceptNoThread, AcceptFails, Signal
<1>2. ASSUME NEW c \in Conns, ReadRequest(c) \/ Lookup(c) \/ ServeHit(c) PROVE OwnedInv'
  BY <1>2 DEF ReadRequest, Lookup, ServeHit, CloseAndFree
<1>3. ASSUME NEW c \in Conns, Fetch(c) PROVE OwnedInv'
  BY <1>3 DEF Fetch, ConnectHost, ReadHost, ReplyClient, CloseBoth
<1>4. ASSUME NEW c \in Conns, LockInsert(c) \/ MapSet(c) \/ DequeueFails(c) PROVE OwnedInv'
  BY <1>4 DEF LockInsert, MapSet, MapPut, DequeueFails
<1>5. ASSUME NEW c \in Conns, Enqueue(c) PROVE OwnedInv'
  BY <1>5 DEF Enqueue, Sizes, CacheAccounting
<1>6. ASSUME NEW c \in Conns, NEW victim \in Conns, EvictPage(c, victim) PROVE OwnedInv'
  BY <1>6 DEF EvictPage, Greatest
<1>7. ASSUME NEW c \in Conns, HandlerFails(c) PROVE OwnedInv'
  BY <1>7 DEF HandlerFails, RequestRejected, ServeHitFails, ConnectFails, ReallocFails,
              ReplyFails, MapSetFails, Killed, CloseAndFree, CloseBoth
<1>8. CASE UNCHANGED vars
  BY <1>8 DEF vars
<1> QED BY <1>1, <1>2, <1>3, <1>4, <1>5, <1>6, <1>7, <1>8 DEF Next, Handler, Insert, Evict

(* A handler that is done has closed its sockets, and, if its client was   *)
(* answered, left no heap block but the ones the queue owns.               *)
THEOREM NothingLeft == Spec => []ResourcesReleased
<1>1. Init => OwnedInv
  BY DEF Init, OwnedInv, ResourcesReleased
<1>2. IInv /\ IInv' /\ OwnedInv /\ [Next]_vars => OwnedInv'
  BY OwnedStep DEF IInv
<1>3. OwnedInv => ResourcesReleased
  BY DEF OwnedInv
<1> QED BY <1>1, <1>2, <1>3, Invariance, PTL DEF Spec

-----------------------------------------------------------------------------
(* The cache is changed by the owner of the mutex only, and an entry is    *)
(* dropped only together with a queued page of the same address.           *)
THEOREM OwnerChanges == Spec => CacheChangedByOwner
<1> DEFINE Changed(ip) == map'[ip] # map[ip] =>
               /\ mutex # NULL
               /\ map'[ip] \in {NULL, mutex}
               /\ map'[ip] = NULL => \E p \in pqueue \ pqueue' : Ip(p) = ip
<1>1. IInv /\ [Next]_vars => [\A ip \in Ips : Changed(ip)]_vars
  <2> SUFFICES ASSUME IInv, Next PROVE \A ip \in Ips : Changed(ip)
    OBVIOUS
  <2> USE ProxyAssumption DEF IInv, TypeOK, Memory, MutexDiscipline, Critical, At, Ip
  <2>1. CASE Main
    BY <2>1 DEF Main, Startup, LoopTest, Accept, AcceptNoThread, AcceptFails, Signal, cacheVars
  <2>2. ASSUME NEW c \in Conns, MapSet(c) PROVE \A ip \in Ips : Changed(ip)
    BY <2>2 DEF MapSet, MapPut
  <2>3. ASSUME NEW c \in Conns, NEW victim \in Conns, EvictPage(c, victim)
        PROVE  \A ip \in Ips : Changed(ip)
    BY <2>3 DEF EvictPage, MapRemove, EvictedKey, Greatest
  <2>4. ASSUME NEW c \in Conns,
               \/ ReadRequest(c) \/ Lookup(c) \/ ServeHit(c) \/ Fetch(c) \/ HandlerFails(c)
               \/ LockInsert(c) \/ DequeueFails(c) \/ Enqueue(c)
        PROVE  \A ip \in Ips : Changed(ip)
    BY <2>4 DEF ReadRequest, Lookup, ServeHit, Fetch, ConnectHost, ReadHost, ReplyClient,
         LockInsert, DequeueFails, Enqueue, HandlerFails, RequestRejected, ServeHitFails,
         ConnectFails, ReallocFails, ReplyFails, MapSetFails, Killed, cacheVars
  <2> QED BY <2>1, <2>2, <2>3, <2>4 DEF Next, Handler, Insert, Evict
<1> QED BY <1>1, Invariance, PTL DEF Spec, CacheChangedByOwner

-----------------------------------------------------------------------------
(* The proxy implements ProxyCache.  Under the invariant the abstract      *)
(* cache never holds garbage.                                              *)

(* The map has an entry for at most as many addresses as the queue has     *)
(* pages, plus the page that is about to be queued.                        *)
LEMMA CachedBound ==
    ASSUME IInv, NEW c \in Conns, MapSet(c), TypeOK'
    PROVE  /\ IsFiniteSet({ip \in Ips : map'[ip] # NULL})
           /\ Cardinality({ip \in Ips : map'[ip] # NULL}) <= CACHE_SIZE
<1> DEFINE S == {ip \in Ips : map'[ip] # NULL}
           T == pqueue \cup {c}
           f == [ip \in S |-> map'[ip]]
<1> USE ProxyAssumption DEF IInv, TypeOK
<1>1. /\ \A ip \in S : map'[ip] \in T
      /\ \A ip \in S : Ip(map'[ip]) = ip
  <2> SUFFICES ASSUME NEW ip \in S PROVE map'[ip] \in T /\ Ip(map'[ip]) = ip
    OBVIOUS
  <2>1. CASE ip = Ip(c)
    BY <2>1 DEF MapSet, MapPut
  <2>2. CASE ip # Ip(c)
    BY <2>2 DEF MapSet, MapPut, Memory, NoDanglingPage, MutexDiscipline, Critical, Cached, At
  <2> QED BY <2>1, <2>2
<1>2. f \in Injection(S, T)
  BY <1>1 DEF Injection, IsInjective
<1>3. IsFiniteSet(T) /\ Cardinality(T) = Cardinality(pqueue) + 1
  <2>1. c \notin pqueue
    BY DEF MapSet, At, Memory, QueuedPagesLive
  <2> QED BY <2>1, FS_AddElement DEF Sizes
<1>4. Cardinality(pqueue) + 1 <= CACHE_SIZE
  BY DEF Sizes, CacheAccounting, MapSet, At
<1>5. IsFiniteSet(S) /\ Cardinality(S) <= Cardinality(T)
  BY <1>2, <1>3, FS_Injection
<1>6. Cardinality(S) \in Nat /\ Cardinality(pqueue) \in Nat
  BY <1>5, FS_CardinalityType DEF Sizes
<1> QED BY <1>3, <1>4, <1>5, <1>6

(* Every step of the proxy is a step of the abstract cache or none.        *)
LEMMA RefinementStep ==
    ASSUME IInv, IInv', [Next]_vars
    PROVE  [Abstract!Next]_(Abstract!vars)
<1> USE ProxyAssumption DEF IInv, TypeOK, Memory, mainVars, sockVars, heapVars, cacheVars, At, Goto
<1> DEFINE Holds(ip) == IF map[ip] = NULL THEN NULL ELSE body[map[ip]]
<1>1. cacheBar = [ip \in Ips |-> Holds(ip)]
  BY DEF NoDanglingPage, Cached, cacheBar
<1>2. cacheBar' = [ip \in Ips |-> Holds(ip)']
  BY DEF NoDanglingPage, Cached, cacheBar
<1>3. ASSUME UNCHANGED <<req, answer, map, pendingBar>>,
             \A ip \in Cached : body'[map[ip]] = body[map[ip]]
      PROVE  UNCHANGED Abstract!vars
  <2>1. \A ip \in Ips : Holds(ip)' = Holds(ip)
    BY <1>3 DEF Cached
  <2>2. cacheBar' = cacheBar
    BY <1>1, <1>2, <2>1
  <2> QED BY <1>3, <2>2 DEF Abstract!vars
<1>4. CASE Main \/ UNCHANGED vars
  BY <1>3, <1>4 DEF pendingBar, Main, Startup, LoopTest, Accept, AcceptNoThread, AcceptFails,
                    Signal, vars
<1>5. ASSUME NEW c \in Conns,
             \/ ReadRequest(c) \/ Lookup(c) \/ ConnectHost(c) \/ LockInsert(c) \/ Enqueue(c)
             \/ RequestRejected(c) \/ ServeHitFails(c) \/ ConnectFails(c) \/ ReallocFails(c)
             \/ ReplyFails(c) \/ Killed(c)
      PROVE  UNCHANGED Abstract!vars
  <2>1. UNCHANGED <<req, answer, map, body>>
    BY <1>5 DEF ReadRequest, Lookup, ConnectHost, LockInsert, Enqueue, RequestRejected,
           ServeHitFails, ConnectFails, ReallocFails, ReplyFails, Killed
  <2>2. UNCHANGED pendingBar
    BY <1>5 DEF pendingBar, ReadRequest, Lookup, ConnectHost, LockInsert, Enqueue,
           RequestRejected, ServeHitFails, ConnectFails, ReallocFails, ReplyFails, Killed,
           CloseAndFree
  <2> QED BY <1>3, <2>1, <2>2
<1>6. ASSUME NEW c \in Conns, ReadHost(c) PROVE UNCHANGED Abstract!vars
  <2>1. UNCHANGED <<req, answer, map, pendingBar>>
    BY <1>6 DEF ReadHost, pendingBar
  <2>2. \A ip \in Cached : body'[map[ip]] = body[map[ip]]
    BY <1>6 DEF ReadHost, NoDanglingPage, QueuedPagesLive, Cached
  <2> QED BY <1>3, <2>1, <2>2
<1>7. ASSUME NEW c \in Conns, ServeHit(c) PROVE Abstract!AnswerFromCache(c)
  <2>1. UNCHANGED <<req, map, body, pendingBar>>
    BY <1>7 DEF ServeHit, CloseAndFree, pendingBar
  <2>2. UNCHANGED cacheBar
    BY <1>1, <1>2, <2>1
  <2>3. /\ Ip(c) \in Ips /\ map[Ip(c)] # NULL
        /\ cacheBar[Ip(c)] = body[map[Ip(c)]] /\ cacheBar[Ip(c)] # NULL
    BY <1>1, <1>7 DEF ServeHit, NoDanglingPage, Cached, Ip
  <2> QED BY <1>7, <2>1, <2>2, <2>3
          DEF ServeHit, Served, HandlerState, Abstract!AnswerFromCache, Abstract!Ip, Ip
<1>8. ASSUME NEW c \in Conns, ReplyClient(c) PROVE Abstract!AnswerFromHost(c)
  <2>1. UNCHANGED <<req, map, body>>
    BY <1>8 DEF ReplyClient
  <2>2. UNCHANGED cacheBar
    BY <1>1, <1>2, <2>1
  <2>3. pendingBar' = pendingBar \cup {c}
    BY <1>8 DEF ReplyClient, pendingBar
  <2>4. body[c] \in Abstract!Response(c)
    BY <1>8 DEF ReplyClient, HandlerState, Abstract!Response, Body
  <2> QED BY <1>8, <2>1, <2>2, <2>3, <2>4 DEF ReplyClient, HandlerState, Abstract!AnswerFromHost
<1>9. ASSUME NEW c \in Conns, MapSet(c) PROVE Abstract!Store(c)
  <2>1. UNCHANGED <<req, answer, body>> /\ map' = [map EXCEPT ![Ip(c)] = c]
    BY <1>9 DEF MapSet, MapPut
  <2>2. c \in pendingBar /\ pendingBar' = pendingBar \ {c}
    BY <1>9 DEF MapSet, pendingBar
  <2>3. answer[c] = body[c]
    BY <1>9 DEF MapSet, HandlerState
  <2>4. cacheBar' = [cacheBar EXCEPT ![Ip(c)] = answer[c]]
    BY <1>1, <1>2, <2>1, <2>3
  <2>5. {ip \in Ips : cacheBar'[ip] # NULL} = {ip \in Ips : map'[ip] # NULL}
    BY <1>2 DEF NoDanglingPage, Cached
  <2>6. Cardinality({ip \in Ips : cacheBar'[ip] # NULL}) <= CACHE_SIZE
    BY <1>9, <2>5, CachedBound
  <2>7. ASSUME NEW S PROVE Abstract!Cardinality(S) = Cardinality(S)
    BY Zenon DEF Abstract!Cardinality, Cardinality
  <2> QED BY <2>1, <2>2, <2>4, <2>6, <2>7 DEF Abstract!Store, Abstract!Ip, Ip
<1>10. ASSUME NEW c \in Conns, DequeueFails(c) \/ MapSetFails(c) PROVE Abstract!Abandon(c)
  <2>1. UNCHANGED <<req, answer, body, map>>
    BY <1>10 DEF DequeueFails, MapSetFails
  <2>2. c \in pendingBar /\ pendingBar' = pendingBar \ {c}
    BY <1>10 DEF DequeueFails, MapSetFails, pendingBar
  <2>3. UNCHANGED cacheBar
    BY <1>1, <1>2, <2>1
  <2> QED BY <2>1, <2>2, <2>3 DEF Abstract!Abandon
<1>11. ASSUME NEW c \in Conns, NEW victim \in Conns, EvictPage(c, victim)
       PROVE  Abstract!Forget(Ip(victim)) \/ UNCHANGED Abstract!vars
  <2>1. UNCHANGED <<req, answer, body>> /\ map' = [map EXCEPT ![Ip(victim)] = NULL]
    BY <1>11 DEF EvictPage, MapRemove, EvictedKey
  <2>2. UNCHANGED pendingBar
    BY <1>11 DEF EvictPage, pendingBar
  <2>3. Ip(victim) \in Ips
    BY DEF Ip
  <2>4. CASE map[Ip(victim)] = NULL
    <3>1. map' = map
      BY <2>1, <2>3, <2>4
    <3> QED BY <1>3, <2>1, <2>2, <3>1
  <2>5. CASE map[Ip(victim)] # NULL
    <3>1. cacheBar' = [cacheBar EXCEPT ![Ip(victim)] = NULL]
      BY <1>1, <1>2, <2>1
    <3>2. cacheBar[Ip(victim)] # NULL
      BY <1>1, <2>3, <2>5 DEF NoDanglingPage, Cached
    <3> QED BY <2>1, <2>2, <3>1, <3>2 DEF Abstract!Forget
  <2> QED BY <2>4, <2>5
<1>12. \A c \in Conns : Ip(c) \in Ips
  BY DEF Ip
<1>13. ASSUME NEW c \in Conns, Evict(c) PROVE Abstract!Next \/ UNCHANGED Abstract!vars
  BY <1>10, <1>11, <1>12, <1>13 DEF Evict, Abstract!Next
<1>14. ASSUME NEW c \in Conns, Handler(c) PROVE Abstract!Next \/ UNCHANGED Abstract!vars
  BY <1>5, <1>6, <1>7, <1>8, <1>9, <1>10, <1>13, <1>14
     DEF Handler, Fetch, Insert, HandlerFails, Abstract!Next
<1> QED BY <1>3, <1>4, <1>14 DEF Next

(* The proxy implements its abstract cache.                                *)
THEOREM Implements == Spec => ImplementsProxyCache
<1>1. Init => Abstract!Init
  BY ProxyAssumption DEF Init, Abstract!Init, cacheBar, pendingBar
<1> QED BY <1>1, RefinementStep, Invariance, PTL DEF Spec, ImplementsProxyCache, Abstract!Spec
=============================================================================
