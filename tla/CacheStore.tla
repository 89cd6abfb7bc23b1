----------------------------- MODULE CacheStore -----------------------------
(***************************************************************************)
(* The cache of 2-term/3.3 put together from its parts: the hash map       *)
(* (HashMap), the binary heap (PQueue) and the counter, as the critical    *)
(* sections of handle_connect_request() use them.  cache_mutex is held     *)
(* from CheckSize to the end of the section, so sections do not interleave *)
(* and the steps here are the calls of one section after another.          *)
(*                                                                         *)
(* A page is the block new_cache_page together with its message.  The map  *)
(* holds a copy of the page's structure, of which only the message matters *)
(* here: a hit increments times_used of the copy, which nothing reads, so  *)
(* the pages that the heap compares all have been used once.               *)
(***************************************************************************)
EXTENDS HashMap, PQueue

CONSTANTS
    Hosts,          \* the hosts that are asked for, a set of keys
    CACHE_SIZE      \* 30 in the source

(* The map's values are pages, one more than fit: the one to be stored.    *)
Pages == Values

ASSUME StoreAssumption == Hosts \subseteq Keys /\ CACHE_SIZE \in Nat \ {0}

VARIABLES
    host_ip,            \* of each page, or NULL when the block is free
    pqueue,             \* the heap of pages
    curr_cache_size,
    section,            \* where the critical section is
    new_cache_page      \* the page it stores, or NULL

storeVars == <<host_ip, pqueue, curr_cache_size, section, new_cache_page>>

StoreInit ==
    /\ host_ip = [p \in Pages |-> NULL]
    /\ pqueue = <<>>
    /\ curr_cache_size = 0
    /\ section = "none" /\ new_cache_page = NULL

(* pqueue_cmp().                                                           *)
TimesUsed == [p \in Pages |-> 1]

(* A response has come from host h and is put into a new page.             *)
CreatePage(h) ==
    /\ section = "none"
    /\ \E p \in {q \in Pages : host_ip[q] = NULL} :
          /\ host_ip' = [host_ip EXCEPT ![p] = h]
          /\ new_cache_page' = p
    /\ section' = "check"
    /\ UNCHANGED <<mapVars, pqueue, curr_cache_size>>

RemoveKey(h) == MapRemove(h) \/ (GetRef(h) = 0 /\ UNCHANGED mapVars)

Evict_KeepsKey ==
    /\ section = "check" /\ curr_cache_size = CACHE_SIZE
    /\ host_ip' = [host_ip EXCEPT ![PqFirst(pqueue)] = NULL]
    /\ pqueue' = PqDequeue(TimesUsed, pqueue)
    /\ curr_cache_size' = curr_cache_size - 1
    /\ section' = "set"
    /\ UNCHANGED <<mapVars, new_cache_page>>

(* A full cache gives up the heap's first page, its key and its block.     *)
(* The heap is not empty then: see StoreSound.                             *)
Evict ==
    /\ section = "check" /\ curr_cache_size = CACHE_SIZE
    /\ RemoveKey(host_ip[PqFirst(pqueue)])
    /\ host_ip' = [host_ip EXCEPT ![PqFirst(pqueue)] = NULL]
    /\ pqueue' = PqDequeue(TimesUsed, pqueue)
    /\ curr_cache_size' = curr_cache_size - 1
    /\ section' = "set"
    /\ UNCHANGED new_cache_page

HasRoom ==
    /\ section = "check" /\ curr_cache_size # CACHE_SIZE
    /\ section' = "set"
    /\ UNCHANGED <<mapVars, host_ip, pqueue, curr_cache_size, new_cache_page>>

SetPage ==
    /\ section = "set"
    /\ LET h == host_ip[new_cache_page]
       IN  MapReplace(h, new_cache_page) \/ MapInsert(h, new_cache_page)
    /\ section' = "enqueue"
    /\ UNCHANGED <<host_ip, pqueue, curr_cache_size, new_cache_page>>

(* map_set_() fails: malloc() or realloc().  The page is freed and the     *)
(* thread returns with cache_mutex held, so no other section follows.      *)
SetPageFails ==
    /\ section = "set"
    /\ LET h == host_ip[new_cache_page]
       IN  GetRef(h) = 0 /\ (UNCHANGED mapVars \/ MapInsertFails(h))
    /\ host_ip' = [host_ip EXCEPT ![new_cache_page] = NULL]
    /\ section' = "kept" /\ new_cache_page' = NULL
    /\ UNCHANGED <<pqueue, curr_cache_size>>

EnqueuePage ==
    /\ section = "enqueue"
    /\ pqueue' = PqEnqueue(TimesUsed, pqueue, CACHE_SIZE, new_cache_page)
    /\ curr_cache_size' = curr_cache_size + 1
    /\ section' = "none" /\ new_cache_page' = NULL
    /\ UNCHANGED <<mapVars, host_ip>>

StoreNext ==
    \/ \E h \in Hosts : CreatePage(h)
    \/ Evict \/ HasRoom \/ SetPage \/ SetPageFails \/ EnqueuePage

-----------------------------------------------------------------------------
(* Map, heap, counter and blocks fit together, whichever hosts are stored  *)
(* again while an older page of theirs is still queued: what the map holds *)
(* for a host is a page of that host that has not been freed; the heap     *)
(* holds every page in use but the new one, once; and the counter is the   *)
(* number of queued pages, so that a full cache has one to give up.        *)
StoreSound ==
    /\ \A h \in Keys : MapGet(h) # NULL => host_ip[MapGet(h)] = h
    /\ IsInjective(pqueue)
    /\ Range(pqueue) = {p \in Pages : host_ip[p] # NULL} \ {new_cache_page}
    /\ curr_cache_size = Len(pqueue) /\ curr_cache_size <= CACHE_SIZE
=============================================================================
