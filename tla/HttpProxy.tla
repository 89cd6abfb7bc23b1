----------------------------- MODULE HttpProxy -----------------------------
(***************************************************************************)
(* The caching HTTP proxy of 2-term/3.3 (http-proxy.c).                    *)
(*                                                                         *)
(* proxy_run() accepts connections and starts one detached thread per      *)
(* connection; handle_connect_request() is that thread.  The threads share *)
(* the page cache: a map from the host's IP to a COPY of a cache_page, a   *)
(* priority queue of pointers to the malloc'ed cache_pages, and a counter, *)
(* all under cache_mutex.                                                  *)
(*                                                                         *)
(* A connection c stands for its handler thread, for the response buffer   *)
(* that thread allocates and for the cache_page it may create, so "the     *)
(* page c" is the page that handler c created.  The map is a partial       *)
(* function; the queue removes a page of the biggest priority, as pqueue.c *)
(* promises (PQueue models the heap itself).                               *)
(***************************************************************************)
EXTENDS Naturals, FiniteSets

CONSTANTS
    Conns,      \* the connections clients may open
    Resources,  \* what a request names: Host header and path
    Ips,        \* the IPv4 addresses hosts resolve to
    IpOf,       \* getaddrinfo(): the address of a resource's host
    CACHE_SIZE, \* capacity of the cache, in pages
    Faults,     \* the failures of the environment that may happen
    NULL        \* the null pointer

FaultKinds == {"start", "accept", "signal", "thread", "client", "host",
               "cut", "realloc", "mapset", "kill"}

(* A response: the resource it answers, and how the loop that read it      *)
(* ended: at the end of the stream, or cut short by an error of read().    *)
Body == [res : Resources, end : {"eof", "error"}]

ASSUME ProxyAssumption ==
    /\ IpOf \in [Resources -> Ips]
    /\ CACHE_SIZE \in Nat \ {0}
    /\ Faults \subseteq FaultKinds
    /\ NULL \notin Conns \cup Body

VARIABLES
    mainpc,          \* where proxy_run() is; "exited" when the process is gone
    stop_flag,       \* set by signals_handler()
    late,            \* history: connections accepted with stop_flag already set
    pc,              \* where each handler thread is
    req,             \* the resource each handler was asked for
    client_fd,       \* the client socket of each connection
    host_fd,         \* the socket to the host
    buffer,          \* the heap block of each handler's buffer
    page,            \* the heap block of the cache_page each handler creates
    body,            \* what a handler's buffer holds
    answer,          \* history: what was written to each client
    mutex,           \* the owner of cache_mutex, or NULL
    map,             \* per IP, the page whose copy is stored, or NULL
    times_used,      \* per IP, times_used of the copy in the map
    prio,            \* times_used of the malloc'ed cache_page itself
    pqueue,          \* the pages in the priority queue
    curr_cache_size

mainVars  == <<mainpc, stop_flag, late>>
sockVars  == <<client_fd, host_fd>>
heapVars  == <<buffer, page>>
cacheVars == <<map, times_used, prio, pqueue, curr_cache_size>>
vars == <<mainVars, pc, req, sockVars, heapVars, body, answer, mutex, cacheVars>>

HandlerPc == {"none", "orphan", "read", "lookup", "hit", "connect", "reading",
              "reply", "lock", "evict", "set", "enqueue", "done"}

Running == mainpc # "exited"
At(c, label) == Running /\ pc[c] = label
Goto(c, label) == pc' = [pc EXCEPT ![c] = label]
Ip(c) == IpOf[req[c]]
Cached == {ip \in Ips : map[ip] # NULL}

Init ==
    /\ mainpc = "start" /\ stop_flag = 0 /\ late = {}
    /\ pc = [c \in Conns |-> "none"]
    /\ req \in [Conns -> Resources]
    /\ client_fd = [c \in Conns |-> "none"]
    /\ host_fd = [c \in Conns |-> "none"]
    /\ buffer = [c \in Conns |-> "none"]
    /\ page = [c \in Conns |-> "none"]
    /\ body = [c \in Conns |-> NULL]
    /\ answer = [c \in Conns |-> NULL]
    /\ mutex = NULL
    /\ map = [ip \in Ips |-> NULL]
    /\ times_used = [ip \in Ips |-> 0]
    /\ prio = [c \in Conns |-> 0]
    /\ pqueue = {}
    /\ curr_cache_size = 0

(* pthread_mutex_lock() and pthread_mutex_unlock() of cache_mutex.         *)
Lock_NoWait(c) == mutex' = c
Lock(c) == mutex = NULL /\ mutex' = c
Unlock_Forgotten(c) == UNCHANGED mutex
Unlock(c) == mutex' = NULL

(* map_remove() and map_set_() on the cache's map.                         *)
MapRemove_Noop(ip) == UNCHANGED <<map, times_used>>
MapRemove(ip) ==
    /\ map' = [map EXCEPT ![ip] = NULL]
    /\ times_used' = [times_used EXCEPT ![ip] = 0]
MapPut(ip, p) ==
    /\ map' = [map EXCEPT ![ip] = p]
    /\ times_used' = [times_used EXCEPT ![ip] = prio[p]]

-----------------------------------------------------------------------------
(* proxy_run(): start-up, the accept loop, the signal that stops it.       *)

Startup ==
    /\ mainpc = "start"
    /\ \/ mainpc' = "test"
       \/ "start" \in Faults /\ mainpc' = "exited"
    /\ UNCHANGED <<stop_flag, late, pc, req, sockVars, heapVars, body, answer,
                   mutex, cacheVars>>

LoopTest_IgnoresFlag ==
    /\ mainpc = "test"
    /\ mainpc' = "accept"
    /\ UNCHANGED <<stop_flag, late, pc, req, sockVars, heapVars, body, answer,
                   mutex, cacheVars>>

(* while (!stop_flag): leaving the loop closes the listening socket and    *)
(* returns from main(), which ends every handler with the process.         *)
LoopTest ==
    /\ mainpc = "test"
    /\ mainpc' = IF stop_flag = 1 THEN "exited" ELSE "accept"
    /\ UNCHANGED <<stop_flag, late, pc, req, sockVars, heapVars, body, answer,
                   mutex, cacheVars>>

(* accept() succeeds; the handler starts and allocates its buffer.         *)
Accept(c) ==
    /\ mainpc = "accept"
    /\ pc[c] = "none"
    /\ mainpc' = "test"
    /\ Goto(c, "read")
    /\ client_fd' = [client_fd EXCEPT ![c] = "open"]
    /\ buffer' = [buffer EXCEPT ![c] = "live"]
    /\ late' = IF stop_flag = 1 THEN late \cup {c} ELSE late
    /\ UNCHANGED <<stop_flag, req, host_fd, page, body, answer, mutex, cacheVars>>

(* pthread_create() reports failure by a positive result, which the test   *)
(* for -1 does not see: nobody serves or closes the accepted socket.       *)
AcceptNoThread(c) ==
    /\ "thread" \in Faults
    /\ mainpc = "accept"
    /\ pc[c] = "none"
    /\ mainpc' = "test"
    /\ Goto(c, "orphan")
    /\ client_fd' = [client_fd EXCEPT ![c] = "open"]
    /\ late' = IF stop_flag = 1 THEN late \cup {c} ELSE late
    /\ UNCHANGED <<stop_flag, req, host_fd, heapVars, body, answer, mutex, cacheVars>>

AcceptFails ==
    /\ "accept" \in Faults
    /\ mainpc = "accept"
    /\ mainpc' = "test"
    /\ UNCHANGED <<stop_flag, late, pc, req, sockVars, heapVars, body, answer,
                   mutex, cacheVars>>

(* signals_handler() sets the flag.  init_signals() leaves sa_flags        *)
(* uninitialized, so a blocked accept() is either interrupted or restarted. *)
Signal ==
    /\ "signal" \in Faults
    /\ mainpc \in {"test", "accept"}
    /\ stop_flag' = 1
    /\ \/ mainpc = "accept" /\ mainpc' = "test"
       \/ UNCHANGED mainpc
    /\ UNCHANGED <<late, pc, req, sockVars, heapVars, body, answer, mutex, cacheVars>>

-----------------------------------------------------------------------------
(* handle_connect_request(): the request, the lookup and a hit.            *)

(* The early returns that close what is open and free the buffer.          *)
CloseAndFree(c) ==
    /\ Goto(c, "done")
    /\ client_fd' = [client_fd EXCEPT ![c] = "closed"]
    /\ host_fd' = [host_fd EXCEPT ![c] = IF @ = "open" THEN "closed" ELSE @]
    /\ buffer' = [buffer EXCEPT ![c] = "freed"]

ReadRequest(c) ==
    /\ At(c, "read")
    /\ Goto(c, "lookup")
    /\ UNCHANGED <<mainVars, req, sockVars, heapVars, body, answer, mutex, cacheVars>>

(* read() fails or meets the end of the stream, or the request does not    *)
(* parse or resolve.                                                       *)
RequestRejected(c) ==
    /\ "client" \in Faults
    /\ At(c, "read")
    /\ CloseAndFree(c)
    /\ UNCHANGED <<mainVars, req, page, body, answer, mutex, cacheVars>>

(* map_get() under the mutex, which a hit keeps and a miss gives back.     *)
Lookup(c) ==
    /\ At(c, "lookup")
    /\ \/ /\ Ip(c) \in Cached
          /\ Lock(c)
          /\ Goto(c, "hit")
       \/ /\ Ip(c) \notin Cached
          /\ mutex = NULL
          /\ Goto(c, "connect")
          /\ UNCHANGED mutex
    /\ UNCHANGED <<mainVars, req, sockVars, heapVars, body, answer, cacheVars>>

(* What map_get() finds: the message the copy under the address points to. *)
Served_AnyEntry(c) == body[map[CHOOSE ip \in Cached : TRUE]]
Served_Struct(c) == map[Ip(c)]
Served(c) == body[map[Ip(c)]]

(* times_used += 1 through the pointer into the map.                       *)
CountUse(c) ==
    /\ times_used' = [times_used EXCEPT ![Ip(c)] = @ + 1]
    /\ UNCHANGED prio

(* The cached message is written to the client with the mutex held, and    *)
(* the copy in the map counts the use.                                     *)
ServeHit(c) ==
    /\ At(c, "hit")
    /\ answer' = [answer EXCEPT ![c] = Served(c)]
    /\ CountUse(c)
    /\ Unlock(c)
    /\ CloseAndFree(c)
    /\ UNCHANGED <<mainVars, req, page, body, map, pqueue, curr_cache_size>>

(* The one early return that does not free the buffer.                     *)
ServeHitFails(c) ==
    /\ "client" \in Faults
    /\ At(c, "hit")
    /\ Unlock(c)
    /\ client_fd' = [client_fd EXCEPT ![c] = "closed"]
    /\ Goto(c, "done")
    /\ UNCHANGED <<mainVars, req, host_fd, heapVars, body, answer, cacheVars>>

-----------------------------------------------------------------------------
(* A miss: fetch from the host, answer the client.                         *)

ConnectHost(c) ==
    /\ At(c, "connect")
    /\ Goto(c, "reading")
    /\ host_fd' = [host_fd EXCEPT ![c] = "open"]
    /\ UNCHANGED <<mainVars, req, client_fd, heapVars, body, answer, mutex, cacheVars>>

(* socket(), inet_pton(), connect() or the write of the request fails.     *)
ConnectFails(c) ==
    /\ "host" \in Faults
    /\ At(c, "connect")
    /\ CloseAndFree(c)
    /\ UNCHANGED <<mainVars, req, page, body, answer, mutex, cacheVars>>

(* The read loop, in one step, ends at the end of the response and         *)
(* in the same way when read() fails in the middle of it.                  *)
ReadHost(c) ==
    /\ At(c, "reading")
    /\ Goto(c, "reply")
    /\ \E end \in {"eof", "error"} :
          /\ end = "error" => "cut" \in Faults
          /\ body' = [body EXCEPT ![c] = [res |-> req[c], end |-> end]]
    /\ UNCHANGED <<mainVars, req, sockVars, heapVars, answer, mutex, cacheVars>>

CloseBoth_ClientOnly(c) ==
    /\ client_fd' = [client_fd EXCEPT ![c] = "closed"]
    /\ UNCHANGED host_fd
CloseBoth(c) ==
    /\ client_fd' = [client_fd EXCEPT ![c] = "closed"]
    /\ host_fd' = [host_fd EXCEPT ![c] = "closed"]

(* A failed realloc() overwrites the only pointer to the old block.        *)
ReallocFails(c) ==
    /\ "realloc" \in Faults
    /\ At(c, "reading")
    /\ CloseBoth(c)
    /\ Goto(c, "done")
    /\ UNCHANGED <<mainVars, req, heapVars, body, answer, mutex, cacheVars>>

(* The response is written, both sockets are closed and the new page is    *)
(* filled in, before the cache is touched.                                 *)
ReplyClient(c) ==
    /\ At(c, "reply")
    /\ answer' = [answer EXCEPT ![c] = body[c]]
    /\ CloseBoth(c)
    /\ page' = [page EXCEPT ![c] = "live"]
    /\ prio' = [prio EXCEPT ![c] = 1]
    /\ Goto(c, "lock")
    /\ UNCHANGED <<mainVars, req, buffer, body, mutex, map, times_used, pqueue,
                   curr_cache_size>>

ReplyFails(c) ==
    /\ "client" \in Faults
    /\ At(c, "reply")
    /\ CloseAndFree(c)
    /\ UNCHANGED <<mainVars, req, page, body, answer, mutex, cacheVars>>

-----------------------------------------------------------------------------
(* Adding the page to the cache, with the mutex held from LockInsert to    *)
(* Enqueue.                                                                *)

LockInsert(c) ==
    /\ At(c, "lock")
    /\ Lock(c)
    /\ Goto(c, IF curr_cache_size = CACHE_SIZE THEN "evict" ELSE "set")
    /\ UNCHANGED <<mainVars, req, sockVars, heapVars, body, answer, cacheVars>>

(* What pqueue_dequeue() promises to return: a page of greatest times_used. *)
Greatest == {p \in pqueue : \A q \in pqueue : prio[q] <= prio[p]}

Uncount_Missing == UNCHANGED curr_cache_size
Uncount == curr_cache_size' = curr_cache_size - 1

EvictedKey_Own(c, victim) == Ip(c)
EvictedKey(c, victim) == Ip(victim)

(* The victim's message is freed, whatever the map holds under the         *)
(* victim's address is removed, and the page is freed.                     *)
EvictPage(c, victim) ==
    /\ At(c, "evict")
    /\ victim \in Greatest
    /\ pqueue' = pqueue \ {victim}
    /\ MapRemove(EvictedKey(c, victim))
    /\ buffer' = [buffer EXCEPT ![victim] = "freed"]
    /\ page' = [page EXCEPT ![victim] = "freed"]
    /\ Uncount
    /\ Goto(c, "set")
    /\ UNCHANGED <<mainVars, req, sockVars, body, answer, mutex, prio>>

(* An empty queue: the handler unlocks and gives its own page up.          *)
DequeueFails(c) ==
    /\ At(c, "evict")
    /\ Unlock(c)
    /\ buffer' = [buffer EXCEPT ![c] = "freed"]
    /\ page' = [page EXCEPT ![c] = "freed"]
    /\ Goto(c, "done")
    /\ UNCHANGED <<mainVars, req, sockVars, body, answer, cacheVars>>

Evict(c) ==
    IF pqueue = {} THEN DequeueFails(c) ELSE \E victim \in Conns : EvictPage(c, victim)

(* map_set_(): the copy of the new page replaces the one under the same    *)
(* address, if there is one.                                               *)
MapSet(c) ==
    /\ At(c, "set")
    /\ MapPut(Ip(c), c)
    /\ Goto(c, "enqueue")
    /\ UNCHANGED <<mainVars, req, sockVars, heapVars, body, answer, mutex, prio,
                   pqueue, curr_cache_size>>

(* map_set_() runs out of memory, which it can only when it needs a new    *)
(* node: the handler returns without unlocking cache_mutex.                *)
MapSetFails(c) ==
    /\ "mapset" \in Faults
    /\ At(c, "set")
    /\ Ip(c) \notin Cached
    /\ buffer' = [buffer EXCEPT ![c] = "freed"]
    /\ page' = [page EXCEPT ![c] = "freed"]
    /\ Goto(c, "done")
    /\ UNCHANGED <<mainVars, req, sockVars, body, answer, mutex, cacheVars>>

Enqueue_ThenFree(c) ==
    /\ At(c, "enqueue")
    /\ pqueue' = pqueue \cup {c}
    /\ curr_cache_size' = curr_cache_size + 1
    /\ Unlock(c)
    /\ buffer' = [buffer EXCEPT ![c] = "freed"]
    /\ Goto(c, "done")
    /\ UNCHANGED <<mainVars, req, sockVars, page, body, answer, map, times_used, prio>>

(* pqueue_enqueue() drops a page that does not fit.                        *)
Enqueue(c) ==
    /\ At(c, "enqueue")
    /\ pqueue' = IF Cardinality(pqueue) >= CACHE_SIZE THEN pqueue ELSE pqueue \cup {c}
    /\ curr_cache_size' = curr_cache_size + 1
    /\ Unlock(c)
    /\ Goto(c, "done")
    /\ UNCHANGED <<mainVars, req, sockVars, heapVars, body, answer, map,
                   times_used, prio>>

(* A request without a Host header is read from an uninitialized header    *)
(* slot, and a write to a peer that is gone raises SIGPIPE: either may end *)
(* the whole process.                                                      *)
Killed(c) ==
    /\ "kill" \in Faults
    /\ Running
    /\ pc[c] \in {"read", "hit", "connect", "reply"}
    /\ mainpc' = "exited"
    /\ UNCHANGED <<stop_flag, late, pc, req, sockVars, heapVars, body, answer,
                   mutex, cacheVars>>

-----------------------------------------------------------------------------
Main == Startup \/ LoopTest \/ AcceptFails \/ Signal
        \/ \E c \in Conns : Accept(c) \/ AcceptNoThread(c)

Fetch(c) == ConnectHost(c) \/ ReadHost(c) \/ ReplyClient(c)

Insert(c) == LockInsert(c) \/ Evict(c) \/ MapSet(c) \/ Enqueue(c)

HandlerFails(c) == RequestRejected(c) \/ ServeHitFails(c) \/ ConnectFails(c)
                   \/ ReallocFails(c) \/ ReplyFails(c) \/ MapSetFails(c) \/ Killed(c)

Handler(c) == ReadRequest(c) \/ Lookup(c) \/ ServeHit(c) \/ Fetch(c) \/ Insert(c)
              \/ HandlerFails(c)

Next == Main \/ \E c \in Conns : Handler(c)

(* Every thread that can take a step eventually takes one; for the steps   *)
(* that read from or write to a peer this assumes a peer that does not     *)
(* stall for ever.  accept() and the signal get no fairness.               *)
Fairness == WF_vars(Startup) /\ WF_vars(LoopTest) /\ \A c \in Conns : WF_vars(Handler(c))

Spec == Init /\ [][Next]_vars
FairSpec == Spec /\ Fairness

-----------------------------------------------------------------------------
(* Where a handler holds cache_mutex.                                      *)
Critical == {"hit", "evict", "set", "enqueue"}

(* Every variable stays within its type.                                   *)
TypeOK ==
    /\ mainpc \in {"start", "test", "accept", "exited"}
    /\ stop_flag \in {0, 1}
    /\ late \subseteq Conns
    /\ pc \in [Conns -> HandlerPc]
    /\ req \in [Conns -> Resources]
    /\ client_fd \in [Conns -> {"none", "open", "closed"}]
    /\ host_fd \in [Conns -> {"none", "open", "closed"}]
    /\ buffer \in [Conns -> {"none", "live", "freed"}]
    /\ page \in [Conns -> {"none", "live", "freed"}]
    /\ body \in [Conns -> Body \cup {NULL}]
    /\ answer \in [Conns -> Body \cup {NULL}]
    /\ mutex \in Conns \cup {NULL}
    /\ map \in [Ips -> Conns \cup {NULL}]
    /\ times_used \in [Ips -> Nat]
    /\ prio \in [Conns -> Nat]
    /\ pqueue \subseteq Conns
    /\ curr_cache_size \in Nat

(* Mutual exclusion on the cache: a handler between the lock and the       *)
(* unlock is the owner of cache_mutex, and the only owner outside that     *)
(* region is a handler whose map_set_() failed (its page is freed and not  *)
(* queued).                                                                *)
MutexDiscipline ==
    \A c \in Conns :
        /\ pc[c] \in Critical => mutex = c
        /\ mutex = c /\ pc[c] \notin Critical
              => pc[c] = "done" /\ page[c] = "freed" /\ "mapset" \in Faults

(* No use after free through the map: the copy stored under an address     *)
(* points to a message that is still allocated and belongs to a page of    *)
(* that same address which the queue still owns, or that the handler       *)
(* holding the mutex is about to queue; and a handler that saw a hit still *)
(* finds the entry when it writes the message.  It has to survive several  *)
(* pages being queued for one address and each eviction removing whatever  *)
(* entry that address has by then.                                         *)
NoDanglingPage ==
    /\ \A ip \in Cached :
          LET p == map[ip] IN
          /\ Ip(p) = ip
          /\ page[p] = "live" /\ buffer[p] = "live" /\ body[p] # NULL
          /\ p \in pqueue \/ pc[p] = "enqueue"
    /\ \A c \in Conns : pc[c] = "hit" => Ip(c) \in Cached

(* No double free: whatever pqueue_dequeue() can return is a page whose    *)
(* handler is gone and whose two heap blocks are still allocated.          *)
QueuedPagesLive ==
    \A p \in pqueue : page[p] = "live" /\ buffer[p] = "live" /\ pc[p] = "done"

(* curr_cache_size, which decides on eviction, counts the pages in the     *)
(* queue, which has its own limit: so a page is never dropped by           *)
(* pqueue_enqueue() and the eviction never meets an empty queue.           *)
CacheAccounting ==
    /\ curr_cache_size = Cardinality(pqueue)
    /\ curr_cache_size <= CACHE_SIZE
    /\ \A c \in Conns : pc[c] \in {"set", "enqueue"} => curr_cache_size < CACHE_SIZE

(* What a handler leaves behind: no open socket, and, once its client has  *)
(* an answer, no heap block that neither was freed nor is owned by the     *)
(* queue.  (Two failure paths do leak the buffer; their clients get no     *)
(* answer.)                                                                *)
ResourcesReleased ==
    \A c \in Conns : pc[c] = "done" =>
        /\ client_fd[c] # "open" /\ host_fd[c] # "open"
        /\ page[c] = "live" => c \in pqueue
        /\ buffer[c] = "live" => c \in pqueue \/ answer[c] = NULL

(* A client is never answered with a page of another host, however the     *)
(* pages of that host were replaced and evicted in the meantime.           *)
AnswerFromRequestedHost ==
    \A c \in Conns : answer[c] # NULL => IpOf[answer[c].res] = Ip(c)

(* After the signal at most one more connection is accepted: the test of   *)
(* stop_flag and accept() are separate steps.                              *)
StopAcceptsAtMostOne == Cardinality(late) <= 1

(* Only the owner of cache_mutex changes the cache, and the copy under an  *)
(* address is replaced or dropped only for a page of that same address.    *)
CacheChangedByOwner ==
    [][\A ip \in Ips : map'[ip] # map[ip] =>
          /\ mutex # NULL
          /\ map'[ip] \in {NULL, mutex}
          /\ map'[ip] = NULL => \E p \in pqueue \ pqueue' : Ip(p) = ip]_vars

(* The abstract cache: an address holds the message its copy points to, or *)
(* garbage once that block is freed; a page may be stored until map_set_(). *)
cacheBar == [ip \in Ips |->
    IF map[ip] = NULL THEN NULL
    ELSE IF buffer[map[ip]] = "live" THEN body[map[ip]] ELSE [end |-> "freed"]]
pendingBar == {c \in Conns : pc[c] \in {"lock", "evict", "set"}}

Abstract == INSTANCE ProxyCache WITH cache <- cacheBar, pending <- pendingBar

(* The proxy implements its abstract cache: every answer is what the host  *)
(* sent or what the cache held at that moment for the client's host, only  *)
(* answers are stored, and never for more than CACHE_SIZE addresses.       *)
ImplementsProxyCache == Abstract!Spec

(* What the assignment and the tests expect of the proxy and the code does *)
(* not give.                                                               *)

(* task.txt: a request with no record in the cache is loaded; so a client  *)
(* should only be answered with the resource it asked for.                 *)
AnswerMatchesRequest ==
    \A c \in Conns : answer[c] # NULL => answer[c].res = req[c]

(* Every accepted connection is eventually closed, answered or not, unless *)
(* the process ends first: nobody waits for cache_mutex for ever.          *)
EveryConnectionClosed ==
    \A c \in Conns : client_fd[c] = "open" ~> (client_fd[c] = "closed" \/ mainpc = "exited")

(* Every handler that has fetched a page gets rid of it: queued or freed.  *)
EveryPageSettled ==
    \A c \in Conns : pc[c] = "lock" ~> (pc[c] = "done" \/ mainpc = "exited")
=============================================================================
