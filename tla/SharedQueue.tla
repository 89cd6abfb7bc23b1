---------------------------- MODULE SharedQueue ----------------------------
(***************************************************************************)
(* The linked-list queue of 2-term/2.1 and its four synchronised versions  *)
(* of 2-term/2.2, with the reader and the writer of queue-threads.c.       *)
(*                                                                         *)
(* queue_add() and queue_get() are the same code in all five directories   *)
(* and are modelled at the granularity of accesses to shared memory; sync  *)
(* says how the calls are protected:                                       *)
(*   "none"  2.1: not at all;                                              *)
(*   "lock"  2.2/mutex and 2.2/spinlock: a lock around each call;          *)
(*   "cond"  2.2/condVar: a mutex, and queue_get() waits on a condition;   *)
(*   "sem"   2.2/semaphore: the threads take turns filling and draining.   *)
(*                                                                         *)
(* The node that holds value v is called v: the writer allocates one node  *)
(* for each value.  The statistics, which are only printed, are left out.  *)
(***************************************************************************)
EXTENDS Integers, Sequences

CONSTANTS
    MAX,        \* max_count, 1000000 in the source
    LIMIT,      \* bound: the writer stops after this many values, in full turns
    NOMEM,      \* TRUE if malloc() may fail
    NULL        \* the null pointer

Nodes == 0 .. LIMIT - 1

ASSUME QueueAssumption ==
    /\ MAX \in Nat \ {0}
    /\ LIMIT \in Nat \ {0} /\ LIMIT % MAX = 0
    /\ NOMEM \in BOOLEAN
    /\ NULL \notin Nodes

VARIABLES
    sync,                   \* the version of the queue; never changes
    first, last, count,     \* the queue_t
    next,                   \* the next field of each node
    node,                   \* the heap block of each node
    lock,                   \* who holds the lock of the queue
    sem_write, sem_read,    \* the semaphores of 2.2/semaphore
    wpc, i, wcount,         \* the writer: its value and its copy of count
    rpc, tmp, rnext, rcount, expected,   \* the reader
    failure                 \* what ended the process, or an ERROR line, or "no"

queueVars  == <<first, last, count, next, node>>
syncVars   == <<sync, lock, sem_write, sem_read>>
writerVars == <<wpc, i, wcount>>
readerVars == <<rpc, tmp, rnext, rcount, expected>>
vars == <<queueVars, syncVars, writerVars, readerVars, failure>>

(* queue_init(): an empty list.                                            *)
QueueInit ==
    /\ first = NULL /\ last = NULL /\ count = 0
    /\ next = [n \in Nodes |-> NULL]
    /\ node = [n \in Nodes |-> "none"]

(* The lock of queue_init(), and the semaphores of main(): the writer has  *)
(* the first turn.                                                         *)
SyncInit == lock = "free" /\ sem_write = 1 /\ sem_read = 0

(* main() has started the two threads.                                     *)
ThreadsInit ==
    /\ wpc = "idle" /\ i = 0 /\ wcount = 0
    /\ rpc = "idle" /\ tmp = NULL /\ rnext = NULL /\ rcount = 0 /\ expected = 0

Init ==
    /\ sync \in {"none", "lock", "cond", "sem"}
    /\ QueueInit /\ SyncInit /\ ThreadsInit
    /\ failure = "no"

Running == failure \in {"no", "order"}
Writer(label) == Running /\ wpc = label
Reader(label) == Running /\ rpc = label
Fails(what) == failure' = what

(* What a read or write through pointer p meets.                           *)
Bad(p) == p = NULL \/ node[p] # "live"
Access(p) == IF p = NULL THEN "segfault" ELSE "use after free"

Locks == sync \in {"lock", "cond"}
Lock_Skipped(t) == UNCHANGED lock
Lock(t) == IF Locks THEN lock = "free" /\ lock' = t ELSE UNCHANGED lock
Unlock == IF Locks THEN lock' = "free" ELSE UNCHANGED lock

(* pthread_cond_signal(): a waiting reader goes on to take the mutex.      *)
Signal_Lost == UNCHANGED rpc
Signal == rpc' = IF rpc = "waiting" THEN "woken" ELSE rpc

-----------------------------------------------------------------------------
(* writer() and queue_add().                                               *)

AddBegin ==
    /\ Writer("idle") /\ sync # "sem" /\ i < LIMIT
    /\ Lock("writer")
    /\ wpc' = "check"
    /\ UNCHANGED <<queueVars, sync, sem_write, sem_read, i, wcount, readerVars, failure>>

FillBegin_NoWait ==
    /\ Writer("idle") /\ sync = "sem" /\ i < LIMIT
    /\ wpc' = "fill"
    /\ UNCHANGED <<queueVars, syncVars, i, wcount, readerVars, failure>>

(* 2.2/semaphore: wait for the turn, fill the queue, give the turn over.   *)
FillBegin ==
    /\ Writer("idle") /\ sync = "sem" /\ i < LIMIT
    /\ sem_write > 0
    /\ sem_write' = sem_write - 1
    /\ wpc' = "fill"
    /\ UNCHANGED <<queueVars, sync, lock, sem_read, i, wcount, readerVars, failure>>

Fill ==
    /\ Writer("fill") /\ (count < MAX => i < LIMIT)
    /\ IF count < MAX THEN wpc' = "check" /\ UNCHANGED sem_read
                      ELSE wpc' = "idle" /\ sem_read' = sem_read + 1
    /\ UNCHANGED <<queueVars, sync, lock, sem_write, i, wcount, readerVars, failure>>

(* The assertion, the test for a full queue, the allocation.  The writer   *)
(* tries a refused value again, except in 2.2/semaphore.                   *)
Full_OffByOne == count > MAX
Full == count = MAX

AddCheck ==
    /\ Writer("check")
    /\ IF count > MAX
       THEN Fails("assert") /\ UNCHANGED <<wpc, i, node, next, lock, rpc>>
       ELSE IF Full
       THEN /\ wpc' = IF sync = "sem" THEN "fill" ELSE "idle"
            /\ i' = IF sync = "sem" THEN i + 1 ELSE i
            /\ Signal /\ Unlock
            /\ UNCHANGED <<node, next, failure>>
       ELSE \/ /\ wpc' = "link"
               /\ node' = [node EXCEPT ![i] = "live"]
               /\ next' = [next EXCEPT ![i] = NULL]
               /\ UNCHANGED <<i, lock, rpc, failure>>
            \/ NOMEM /\ Fails("abort") /\ UNCHANGED <<wpc, i, node, next, lock, rpc>>
    /\ UNCHANGED <<first, last, count, sync, sem_write, sem_read, wcount, tmp, rnext, rcount,
                   expected>>

(* if (!q->first)                                                          *)
AddLink ==
    /\ Writer("link")
    /\ wpc' = IF first = NULL THEN "first" ELSE "append"
    /\ UNCHANGED <<queueVars, syncVars, i, wcount, readerVars, failure>>

AddFirst ==
    /\ Writer("first")
    /\ first' = i /\ last' = i
    /\ wpc' = "load"
    /\ UNCHANGED <<count, next, node, syncVars, i, wcount, readerVars, failure>>

(* q->last->next = new: last may be a node the reader has freed.           *)
AddAppend ==
    /\ Writer("append")
    /\ IF Bad(last)
       THEN Fails(Access(last)) /\ UNCHANGED <<wpc, next>>
       ELSE /\ next' = [next EXCEPT ![last] = i]
            /\ wpc' = "last"
            /\ UNCHANGED failure
    /\ UNCHANGED <<first, last, count, node, syncVars, i, wcount, readerVars>>

AddLast_Forgotten ==
    /\ Writer("last")
    /\ wpc' = "load"
    /\ UNCHANGED <<queueVars, syncVars, i, wcount, readerVars, failure>>

(* q->last = q->last->next: the node is read again.                        *)
AddLast ==
    /\ Writer("last")
    /\ IF Bad(last)
       THEN Fails(Access(last)) /\ UNCHANGED <<wpc, last>>
       ELSE last' = next[last] /\ wpc' = "load" /\ UNCHANGED failure
    /\ UNCHANGED <<first, count, next, node, syncVars, i, wcount, readerVars>>

(* q->count++ is a load and a store.                                       *)
AddLoad ==
    /\ Writer("load")
    /\ wcount' = count
    /\ wpc' = "store"
    /\ UNCHANGED <<queueVars, syncVars, i, readerVars, failure>>

(* In 2.2 a leftover test, if (!q->last->next), guards the increment.      *)
AddStore ==
    /\ Writer("store")
    /\ count' = IF sync # "none" /\ next[last] # NULL THEN count ELSE wcount + 1
    /\ wpc' = "return"
    /\ UNCHANGED <<first, last, next, node, syncVars, i, wcount, readerVars, failure>>

AddReturn ==
    /\ Writer("return")
    /\ Signal /\ Unlock
    /\ i' = i + 1
    /\ wpc' = IF sync = "sem" THEN "fill" ELSE "idle"
    /\ UNCHANGED <<queueVars, sync, sem_write, sem_read, wcount, tmp, rnext, rcount, expected,
                   failure>>

-----------------------------------------------------------------------------
(* reader() and queue_get().                                               *)

GetBegin ==
    /\ Reader("idle") /\ sync # "sem"
    /\ Lock("reader")
    /\ rpc' = "check"
    /\ UNCHANGED <<queueVars, sync, sem_write, sem_read, writerVars, tmp, rnext, rcount, expected,
                   failure>>

DrainBegin ==
    /\ Reader("idle") /\ sync = "sem"
    /\ sem_read > 0
    /\ sem_read' = sem_read - 1
    /\ rpc' = "drain"
    /\ UNCHANGED <<queueVars, sync, lock, sem_write, writerVars, tmp, rnext, rcount, expected,
                   failure>>

Drain ==
    /\ Reader("drain")
    /\ IF count # 0 THEN rpc' = "check" /\ UNCHANGED sem_write
                    ELSE rpc' = "idle" /\ sem_write' = sem_write + 1
    /\ UNCHANGED <<queueVars, sync, lock, sem_read, writerVars, tmp, rnext, rcount, expected,
                   failure>>

(* The reader after a failed queue_get(): 2.2/semaphore ignores the result *)
(* and compares -1 with what it expects.                                   *)
GetNothing ==
    /\ Unlock
    /\ IF sync = "sem" THEN rpc' = "drain" /\ expected' = 0 /\ Fails("order")
                       ELSE rpc' = "idle" /\ UNCHANGED <<expected, failure>>
    /\ UNCHANGED tmp

(* pthread_cond_wait(): the mutex is given back while waiting.             *)
CondWait == rpc' = "waiting" /\ Unlock /\ UNCHANGED <<tmp, expected, failure>>

(* The assertion, and the test for an empty queue.                         *)
GetCheck ==
    /\ Reader("check")
    /\ IF count < 0 THEN Fails("assert") /\ UNCHANGED <<rpc, tmp, expected, lock>>
       ELSE IF count = 0 THEN IF sync = "cond" THEN CondWait ELSE GetNothing
       ELSE tmp' = first /\ rpc' = "read" /\ UNCHANGED <<expected, failure, lock>>
    /\ UNCHANGED <<queueVars, sync, sem_write, sem_read, writerVars, rnext, rcount>>

(* A condition wait may return without a signal.                           *)
SpuriousWakeup ==
    /\ Reader("waiting")
    /\ rpc' = "woken"
    /\ UNCHANGED <<queueVars, syncVars, writerVars, tmp, rnext, rcount, expected, failure>>

GetWoken ==
    /\ Reader("woken")
    /\ Lock("reader")
    /\ rpc' = "check"
    /\ UNCHANGED <<queueVars, sync, sem_write, sem_read, writerVars, tmp, rnext, rcount, expected,
                   failure>>

(* *val = tmp->val, and the load of q->first->next.                        *)
GetRead ==
    /\ Reader("read")
    /\ IF Bad(tmp)
       THEN Fails(Access(tmp)) /\ UNCHANGED <<rpc, rnext>>
       ELSE rnext' = next[tmp] /\ rpc' = "unlink" /\ UNCHANGED failure
    /\ UNCHANGED <<queueVars, syncVars, writerVars, tmp, rcount, expected>>

GetUnlink ==
    /\ Reader("unlink")
    /\ first' = rnext
    /\ rpc' = "free"
    /\ UNCHANGED <<last, count, next, node, syncVars, writerVars, tmp, rnext, rcount, expected,
                   failure>>

GetFree ==
    /\ Reader("free")
    /\ node' = [node EXCEPT ![tmp] = "freed"]
    /\ rpc' = "load"
    /\ UNCHANGED <<first, last, count, next, syncVars, writerVars, tmp, rnext, rcount, expected,
                   failure>>

(* q->count-- is a load and a store.                                       *)
GetLoad ==
    /\ Reader("load")
    /\ rcount' = count
    /\ rpc' = "store"
    /\ UNCHANGED <<queueVars, syncVars, writerVars, tmp, rnext, expected, failure>>

GetStore ==
    /\ Reader("store")
    /\ count' = rcount - 1
    /\ rpc' = "return"
    /\ UNCHANGED <<first, last, next, node, syncVars, writerVars, tmp, rnext, rcount, expected,
                   failure>>

(* queue_get() returns 1 and the reader compares the value.                *)
GetReturn ==
    /\ Reader("return")
    /\ Unlock
    /\ IF tmp # expected THEN Fails("order") ELSE UNCHANGED failure
    /\ expected' = tmp + 1
    /\ rpc' = IF sync = "sem" THEN "drain" ELSE "idle"
    /\ UNCHANGED <<queueVars, sync, sem_write, sem_read, writerVars, tmp, rnext, rcount>>

-----------------------------------------------------------------------------
LinkNode == AddLink \/ AddFirst \/ AddAppend \/ AddLast
QueueAdd == AddCheck \/ LinkNode \/ AddLoad \/ AddStore \/ AddReturn
WriterStep == AddBegin \/ FillBegin \/ Fill \/ QueueAdd

TakeNode == GetRead \/ GetUnlink \/ GetFree \/ GetLoad \/ GetStore
QueueGet == GetCheck \/ GetWoken \/ TakeNode \/ GetReturn
ReaderStep == GetBegin \/ DrainBegin \/ Drain \/ QueueGet

Next == WriterStep \/ ReaderStep \/ SpuriousWakeup

Spec == Init /\ [][Next]_vars

(* Both threads keep running; a thread that is repeatedly passed over when *)
(* the lock is free gets it in the end.                                    *)
FairSpec == Spec /\ WF_vars(WriterStep) /\ WF_vars(ReaderStep)
                 /\ SF_vars(AddBegin) /\ SF_vars(GetBegin) /\ SF_vars(GetWoken)

-----------------------------------------------------------------------------
(* The assertions on count in queue_add() and queue_get() hold even in 2.1 *)
(* without any lock, however the loads and stores of count++ and count--   *)
(* interleave: each thread moves count in one direction only, and tests it *)
(* before.                                                                 *)
AssertsHold == failure # "assert"

Synchronised == sync # "none"

(* With any of the four ways of synchronisation no thread follows a null   *)
(* or freed pointer, no assertion fails and the reader prints no ERROR.    *)
NoFailure == Synchronised => failure \in {"no", "abort"}

(* The node k steps from q->first, and the nodes that can be reached.      *)
Walk[k \in 0 .. LIMIT] ==
    IF k = 0 THEN first ELSE IF Walk[k - 1] = NULL THEN NULL ELSE next[Walk[k - 1]]
Reached == [k \in {j \in 1 .. LIMIT : Walk[j - 1] # NULL} |-> Walk[k - 1]]

(* No call is in progress.                                                 *)
Quiet == wpc \in {"idle", "fill"} /\ rpc \in {"idle", "drain", "waiting", "woken"}

(* Between calls the list holds exactly the values sent and not received,  *)
(* in order; count is its length, last is its end (which only matters      *)
(* while the list is not empty: it dangles otherwise), and every other     *)
(* node is freed or was never allocated.                                   *)
ListShape ==
    Synchronised /\ Quiet =>
        /\ Reached = [k \in 1 .. count |-> expected + k - 1]
        /\ i = expected + count
        /\ count > 0 => last = i - 1
        /\ \A n \in Nodes : node[n] = "live" <=> n \in expected .. i - 1

(* No lost signal in 2.2/condVar: when nobody holds the mutex a reader     *)
(* that still waits on the condition has nothing to wait for but a value.  *)
WaiterNotForgotten == rpc = "waiting" /\ lock = "free" => count = 0

(* The channel: a value is in it from the moment its node is linked until  *)
(* the moment the node is unlinked.  The queue of 2.1 promises nothing and *)
(* is mapped to a channel nobody uses.                                     *)
chanBar == IF Synchronised THEN Reached ELSE <<>>
sentBar == IF ~Synchronised THEN 0
           ELSE IF wpc \in {"last", "load", "store", "return"} THEN i + 1 ELSE i
gotBar  == IF ~Synchronised THEN 0
           ELSE IF rpc \in {"free", "load", "store", "return"} THEN expected + 1 ELSE expected

Channel == INSTANCE Fifo WITH chan <- chanBar, sent <- sentBar, got <- gotBar

(* The synchronised queue is a bounded FIFO channel.                       *)
ImplementsFifo == Channel!Spec

(* Every value that was added is taken out by the reader, in spite of      *)
(* spurious wake-ups and of the turns of 2.2/semaphore.                    *)
ValuesDelivered ==
    \A v \in Nodes : (Synchronised /\ i > v) ~> (expected > v \/ failure = "abort")
=============================================================================
