# Verification of the operating-systems exercises

The repository holds two terms of operating-systems exercises in C. There is no
single program: each directory is a small one. This project models the ones that
carry concurrent or algorithmic logic of their own, checks them with TLC and
proves the most important results with TLAPS. Most of them are in `src/2-term`;
the heap allocator, the reversed copy of a directory and the UNIX socket and TCP
servers are in `src/1-term`.

Run a model with `tlc -workers 2 -config <cfg> <module>` and a proof with
`tlapm <module>.tla`. `PROJECT.json` lists the runs, the source lines each
definition stands for, the hazards and the theorems.

## 1. Inventory

### Caching HTTP proxy, 3.3 (`http-proxy.c`, `main.c`)

* State: `stop_flag`; the cache, which is a map from a host's IPv4 address to a
  **copy** of a `cache_page`, a priority queue of **pointers** to the malloc'ed
  pages, and `curr_cache_size`; all three under `cache_mutex`. Each connection
  has two sockets, a response buffer and perhaps a page.
* Operations: `proxy_run()` accepts and starts one detached thread per
  connection; `signals_handler()` sets the flag; `handle_connect_request()` reads
  and parses the request, looks the address up, answers a hit under the mutex, or
  fetches from the host, answers, evicts and inserts.
* Interaction: the handlers share only the cache. Map and queue refer to the same
  heap blocks: an eviction frees the message that a copy in the map points to.
* Hard: the mutex is given back between a miss and the insert, so several
  handlers insert pages of one address; every call on the way may fail, each
  with its own early return; the eviction test relies on a counter and a queue
  that count separately.
* Correct when: nothing is used after it is freed or freed twice, the counter is
  the length of the queue, sockets are closed and buffers freed, a client gets
  an answer of the IP address it asked for, the signal stops the loop, and nobody
  waits for the mutex for ever.

### Priority queue, 3.3 (`pqueue.c`)

An array heap of fixed capacity: `pqueue_enqueue()`, `pqueue_dequeue()`,
`pqueue_heapify()`. Correct when the biggest element comes out and no element is
lost. The proxy calls it with the mutex held.

### Hash map, 3.3 (`map.c`, vendored)

Chains of nodes in buckets whose number doubles. `map_get_()`, `map_set_()` and
`map_remove_()` are called with the mutex held. Hard: the resize takes all chains
apart, and may fail after it has. Correct when it is a partial function from keys
to values, whatever was inserted, removed and refused before.

### Cache of the proxy, put together (`http-proxy.c` over `pqueue.c` and `map.c`)

* State: the real heap, the real hash map, `curr_cache_size` and the pages.
* Operations: the calls of one critical section of `handle_connect_request()`:
  make a page, evict if the cache is full, set, enqueue.
* Hard: a host is stored again while an older page of it is still queued, so the
  entry an eviction removes may be that of a newer page; the map doubles, and may
  fail to, between two such calls.
* Correct when: no entry leads to a freed page, no page is queued twice or lost,
  and a full cache has a page to give up.

### Request parser, 3.3 (`picohttpparser.c`, vendored)

* State: none; `phr_parse_request()` is a function of what one `read()` returned,
  which may end anywhere.
* Hard: some characters are looked at without a check for the end, because an
  earlier function has made sure of them; header lines may be continued.
* Correct when: an answer other than "partial" does not depend on what has not
  arrived, and exactly the requests are accepted.

### Heap allocator, term 1, lab 4, subtask 3 (`myHeap.c`)

* State: one mapped page, divided into blocks with a tag (size, freed) at each end.
* Operations: `my_malloc()` takes the first free block that passes its size test
  and splits it; `my_free()` marks a block and merges it with its neighbours;
  `freeAll()` unmaps the page.
* Hard: sizes are unsigned, the tags share the page with the data, and a merge
  with both neighbours uses sizes read before the first one.
* Correct when: the blocks handed out lie in the page, with their tags, and apart.

### Queues, 2.1 and 2.2 (five directories)

* State: a singly linked list with `first`, `last` and `count`, one writer that
  adds 0, 1, 2, ... and one reader that expects them in that order.
* The five versions are unprotected (2.1), protected by a mutex or a spinlock,
  by a mutex with a condition variable, or by two semaphores that let the threads
  fill and drain in turn.
* Hard: every pointer and counter access interleaves; `last` dangles after the
  list becomes empty; a signal may be lost or spurious.
* Correct when: the queue is a bounded FIFO channel, no freed node is followed,
  and every value arrives.

### List with a lock in each node, 2.3 (`list.c`, `concurrent_list.c`)

* State: a linked list whose nodes each have a spinlock, mutex or read-write
  lock. Three kinds of thread compare neighbours, one kind swaps neighbours; all
  walk from the head hand over hand and start again at the end.
* Hard: a thread keeps pointers across blocking lock calls while swappers
  reorder the list; a swap is three stores; each thread holds two locks while it
  waits for a third.
* Correct when: a thread holds exactly the locks around it, what it has read is
  still true when used, swaps are atomic, no node is lost, nobody deadlocks.

### Locks, 2.4 (`my_spinlock.h`, `my_mutex.h`, `test.c`)

A compare-exchange spinlock and a futex mutex, one `int` each; threads increment
a shared counter under one of them. Hard: the wake-up between a failed
compare-exchange and `FUTEX_WAIT`, spurious returns and `EINTR`. Correct when the
locks exclude, no wake-up is lost, no increment is lost and the program ends.

### Kernel threads, 1.6 (`mythread_create.c`)

`mythread_create()` clones a thread whose structure lies at the bottom of its stack;
`mythread_startup()` and `mythread_join()` meet on two futex words. Hard: the
words are stored after the wake-up, and the result after the word.

### User threads, 1.7 (`uthread_create.c`)

A round-robin scheduler on `swapcontext()`. Hard: a thread that returns resumes
`main()` through `uc_link` but leaves `uthread_curr` at its own index, so that
`main()` runs, and is saved, in the slot of the thread that is gone.

### UNIX socket and TCP servers, term 1, labs 6 and 7 (`server.c`, `client.c`)

* State: the backlog, the connection being served, and the server's `num`, which
  is never reset.
* Operations: the server accepts, reads, writes and closes; a client connects,
  sends one message, reads one and leaves, or is killed.
* Hard: the UNIX server does not look at how much it has read, so that after a
  client that leaves without sending, `num` is that of the client before; a write
  to a client that is gone ends the server.
* Correct when: a client gets its own number or the greeting, and is served.

### Reversed copy of a directory, term 1, lab 3 (`copyCatalogBackwards.c`)

One thread copies every regular file of a directory, last byte first. Hard: every
call may fail, and the end of a file is told by a value that a byte can have.
Correct when all regular files are copied unless a call has failed.

### Not modelled

| Part | Why |
|---|---|
| `phr_parse_response()`, `phr_parse_headers()`, `phr_decode_chunked()`, `is_complete()` of `picohttpparser.c` | never called with the arguments the proxy uses |
| what the proxy does with the headers of a request that is only partly there | the header array is then partly uninitialised; the outcome is a choice in `HttpProxy` |
| `map_iter_()`, `map_next_()`, `map_deinit_()` of `map.c` | never called, or only when start-up fails |
| 1.1 to 1.5 | demonstrations of one pthread call each; what they show belongs to the C library |
| term 1, labs 1, 2 and 5, lab 3, subtasks 2 and 3, lab 4, subtasks 1 and 2 | system-call demonstrations, pure I/O, no retained state |
| term 1, lab 6, subtasks 1 and 2 | a reader and a writer cloned onto one stack, which overwrite each other, and a pipe whose order is the kernel's; neither keeps an invariant |
| term 1, lab 7, UDP | a loop that prints each datagram and answers none |
| `reverseDirName()`, `reverseFileName()` | build names in buffers that are not terminated; a copy is known by its source instead |
| `queue-example.c`, `queue_destroy()`, the queues' monitor threads, the statistics | one thread's straight line of calls, and numbers that are only printed |
| `list_get()`, `list_erase()`, `list_destroy()`, `pqueue_delete()` | never called |

## 2. Plan

Order of the modules, the most important behaviour first; the first group is
written, the second is open.

1. `HttpProxy` with its abstract cache `ProxyCache`; `MyLock` with
   `AtomicCounter`; `SharedQueue` with `Fifo`; `PQueue` with its client
   `PQueueUse`, and `HashMap` with `Dictionary`; `CacheStore`, which composes the
   heap and the map into the proxy's cache; `ConcurrentList` with
   `AdjacentSwaps`; `RequestParser`; `UThread`; `EchoServer`; `Programs`, which
   runs the small ones; `MyThread`; `MyHeap`; `CopyBackwards`.
   Proofs: `HttpProxyProofs`, `MyLockProofs`, `ConcurrentListProofs`,
   `SharedQueueProofs`, `RequestParserProofs`, `HashMapProofs`, and
   `ProgramsProofs` for the heap, the cache, the user threads and the echo
   servers; the ones with a walk or a loop to follow on top of `LeastNumber`.
2. The name buffers of the reversed copy, as a model of its own.

## 3. Modules and their correspondence to the code

A pc value names the place a thread has reached; one action runs from there to
the next access that another thread can observe. Local computation between two
such accesses is part of the action.

**`HttpProxy`.** A connection `c` stands for its handler thread, its buffer and
the page it may create. `map[ip]` is the page whose copy is stored, `pqueue` the
set of queued pages, `mutex` the owner of `cache_mutex`. `buffer` and `page` are
the heap blocks (`"none"`, `"live"`, `"freed"`), `client_fd` and `host_fd` the
sockets, `answer` a history of what was written to the client. `req` is fixed in
`Init`, since the environment chooses it anyway. Each return path of
`handle_connect_request()` is an action; `Faults` says which failures of the
environment may happen: start-up, `accept()`, the signal, `pthread_create()`,
writes to the client, the host, a response cut short by `read()`, `realloc()`,
`map_set_()`, and a request on which the parser makes the process end. The
priority queue removes a page of the biggest priority; the pages themselves all
keep `times_used` as it was when they were queued, because only the copy in the
map is counted up.

**`ProxyCache`** is what the proxy promises: per address at most one stored
message, at most `CACHE_SIZE` in all, and only messages a host has sent. "Host" is
always the IP address here, as in the key of the cache: two names of one address are
one host.

**`PQueue`, `PQueueUse`.** The heap as operators on a sequence, with the source's
`LEFT`, `RIGHT` and `PARENT`, and a client that calls in any order. The loop of
`pqueue_enqueue()` and the recursion of `pqueue_heapify()` are recursive functions
over the number of their steps, `StepUp` and `StepDown`. `ReturnsBiggest` is what
`pqueue.c` says of itself, and it is false (`containers_six`). `CallsKeepElements` is
what is left of it in any number of elements, tied to the call: `pqueue_enqueue(p)`
adds one copy of p, or nothing to a full queue, and leaves a biggest element in the
first place if there was one; `pqueue_dequeue()` takes away one copy of what it
returns. So elements are never lost or doubled, and only a dequeue spoils the order.

**`HashMap`, `Dictionary`.** `buckets` is the sequence of chains, `nnodes` the count;
a call is one step, because the caller holds the mutex. `MapInsert` includes the
doubling, which is the source's two passes: `Chained` makes one list of all nodes,
`Dealt` adds them to empty buckets; `MapInsertFails` is the `realloc()` that fails after the chains were
taken apart (a node that cannot be allocated changes nothing). Hash values are a
constant function. `Dictionary` is the partial function that `map_get_()` shows, with
its operations `Put`, `Delete` and `Fail`. `ImplementsDictionary` says that every step is
one of these and, in `CallsAsPromised`, which one: a call that sets k to v is `Put(k, v)`, a
call that removes k is `Delete(k)`, and a set that fails is `Fail`, which changes nothing.
A failed resize that lost one key would look like a `Delete`; it is not the operation of
its call and is refused.

**`CacheStore`** extends both and makes the calls of one critical section after
another: `CreatePage`, `Evict` or `HasRoom`, `SetPage` or `SetPageFails`,
`EnqueuePage`. The mutex is held from the size test on, so that sections do not
interleave; who waits for it is `HttpProxy`'s subject, in which map and queue are
a function and a set. A page is a block with its host (`host_ip[p]`, `NULL` when
it is free), the heap and the map hold names of pages, so that a freed page that
is still in one of them shows. A failed `map_set_()` leaves the mutex locked: no
other section follows.

**`RequestParser`.** A character is one of nine classes, the ones the parser's
tests tell apart: among the token characters the digits, and those that are neither a
digit nor in the version literal. Each function of the parser is an operator that returns the
position after what it read, `Failed` or `Partial`; a read at a position that has
not arrived yields `"BEYOND"`, which is no class, so that an unchecked read shows.
The version literal and the number of headers are constants. `Receive` lets the
read return one character more. `IsRequest` is a definition of its own, by lines
and not by positions, against which the parser is compared.

**`EchoServer`.** One module for the two pairs of programs, told apart by `family`.
A message fits into one call. `spc` is where the server is, `cpc[c]` where each
client is; `inbox` and `outbox` are what the sockets hold. `Kill` closes a
client's socket at any time; the server's next write to it raises SIGPIPE
(UNIX), or may succeed, fail or find the connection reset (TCP).

**`Programs`** puts the parts and programs that run by themselves side by side; its
`program` chooses which one a behaviour uses, and the others stay where they begin.

**`CopyBackwards`.** The loop of `main()` and the body of `copyFile()`, a byte a step,
with every early return. `failed` is a history of whether a library call has
failed. A byte is 255 or another one.

**`MyHeap`.** `mem` is the tag in each cell of the page, in units of one tag, and
`live` a history of the blocks handed out. The stores of `my_malloc()` and
`my_free()` go where the tags say; one that leaves the page either hits memory
that is not modelled or ends the process. `size_t` wraps at `WORD`. The data
between the tags is not modelled: a cell that was never a tag stays zero.

**`SharedQueue`, `Fifo`.** One module for the five directories, because
`queue_add()` and `queue_get()` are the same code in all of them; the constant
variable `sync` tells how calls are protected. Every access to shared memory is a
step, `count++` is a load and a store, and a node is `"live"` or `"freed"`. The
node of value v is called v. The 2.2 versions contain a leftover test,
`if (!q->last->next)`, that guards `count++`; the model has it. `Fifo` is a
bounded channel carrying 0, 1, 2, ...

**`ConcurrentList`, `AdjacentSwaps`.** `next` is the list, `holders[n]` the threads
that hold the lock of node n; `prev`, `curr`, `nxt` are each thread's local
pointers and `want` the node it waits to lock. The three stores of
`list_swap_elements()` are steps. `last` is NULL because `list_add()` at position 0
never sets it. The three comparator functions differ only in their statistics and
are one kind of thread. `AdjacentSwaps` exchanges two neighbours in one step.

**`MyLock`, `AtomicCounter`.** `kind` chooses the lock of the build. Compare-exchange
is one step, `val++` two, `FUTEX_WAIT` compares and sleeps in one step and may
return without a wake-up or with `EINTR`, which aborts the process. The local
`one`, which a failed compare-exchange overwrites, is initialised again in each
iteration and is left out.

**`MyThread`.** The two futex words and `retval`, each access a step. `FUTEX_WAIT`
on a word that has changed returns EAGAIN, which takes the branch that ends in
`exit(-1)`, as in the source.

**`UThread`.** A saved context is who resumes and where: at the top of its loop, or
after `swapcontext()`. The counters are on the stacks and are not copied. The
source's three loops are all of length 3; `rounds` lets them differ.

## 4. Runs

| Run | Bounds | What it shows |
|---|---|---|
| `proxy_faults` | 3 connections, cache of 2, all faults | memory safety, accounting, released resources, prompt stop, answers from the right IP address, refinement of `ProxyCache` |
| `proxy_live` | 3 connections, cache of 1, client failures and the signal | every connection is closed, every fetched page is queued or freed |
| `proxy_wrong_resource` | 3 connections | violation: the cache is keyed by address alone, so another resource of the address is served |
| `proxy_mutex_kept` | 3 connections, `map_set_()` fails | violation: the early return keeps the mutex and later handlers wait for ever |
| `programs` | queue: capacity 8, 4 priorities; map: 5 keys, up to 8 buckets; cache of 3 pages, 3 hosts; reads of 6 characters after 5 beginnings; 3 user threads, loops of up to 3; 3 clients, 2 numbers | the queue loses and doubles no element and no enqueue spoils its order; the map keeps its shape, and each call of it is the operation of a partial function that it is meant to be; heap, map and counter of the cache fit together; the parser accepts exactly the requests and never changes its mind; contexts are never mixed up, turns are fair and the user threads end; a client gets its own number, and every client is served |
| `containers_six` | queue: capacity 6 | violation: `PARENT(x)` is `x / 2`, and a mixture of calls returns an element that is not the biggest |
| `queues` | capacity 2, 6 values, all versions | FIFO refinement, list shape, no freed node followed, no lost signal, delivery; in 2.1 the assertions on `count` still hold |
| `list` | 2 comparators, 2 swappers, 4 nodes, both lock kinds | lock discipline, no stale pointer, atomic swaps, no lost node, no deadlock, every pass ends |
| `locks` | 3 threads, 3 iterations, both locks | exclusion, no lost wake-up, the total printed, the counter refined, termination |
| `mythread_join` | one thread | violation: the join may abort, hang or return a null result |
| `my_heap` | a page of 16 units, requests of 1 to 3 | violation: a bigger request is given a freed block that is too small for it |
| `copy_backwards` | 2 entries of up to 2 bytes | violation: a file with a byte 255 ends the program before its copy is complete, although no call has failed |

**Why the bounds are enough.** In the proxy three connections give a handler that
inserts, one that evicts it and one that reads between them; with a cache of two,
two of them queue pages of one address and the third evicts one of these, which
removes the entry the other page filled. `proxy_live` has a cache of one, so that
every insert but the first evicts. The proofs cover every other size, in this and in the other programs they are about.
In the queue, capacity 2 has the empty, the middle
and the full state, and six values fill and drain it three times (`LIMIT` is a
multiple of `MAX`, so that the semaphore version stops between two turns). Four
list nodes let two swappers and a comparator hold disjoint windows and meet; the
safety properties are proved for every length. Three threads on the futex mutex
are an owner, a sleeper and a thread between compare-exchange and `FUTEX_WAIT`;
three iterations bring each of them back. The map's five keys force the doublings
to one, two, four and eight buckets, and their hashes make chains that each
doubling splits. The priority queue's first wrong result needs six
elements; `programs` goes on to eight, a heap of four levels, so that its property is
checked in heaps whose order is lost as well. A cache of three
pages is full with two pages of one host in it, and four pages leave one for the
section that evicts; its three hosts are in one chain until the second doubling.
The parser's five beginnings place its six free characters before the method, in
the path, after the request line and after a header, so that each function meets
the end of the read at each of its tests; the literal `"HTTP/1."` is shortened to
one character, which keeps the test of the two characters behind it at its edge,
and with room for two headers a third is refused. Three clients are one that is
served, one that waits and one killed between them; two numbers make a stale
`num` visible. Deadlock is checked in `list` and `containers_six`; the other
programs end, or their bounded models do.

**Fairness.** Every thread that can run eventually runs (WF per thread): the
kernel schedules all of them. For a handler that talks to a peer this assumes a
peer that does not stall for ever, since the code has no timeouts; `accept()` and
the signal get no fairness. Taking a lock that is free again and again succeeds
in the end (SF on the lock steps of `SharedQueue` and `ConcurrentList`): the locks
of the C library do not promise it, but the scheduler's preemption gives it in
practice, and only the liveness properties use it. The process of the user threads,
the echo server and each of its clients get WF: one process each, which the kernel
runs while it can; a client is not obliged to be killed. No step is assumed for
spurious wake-ups, `EINTR` or failures.

## 5. Proofs

All theorems hold for every value of the constants that the named assumptions
allow. `TypeCorrect` and each invariant follow from an inductive invariant (`IInv`;
`EchoInv`, `ThreadInv` with `LevelInv`, and `ProgInv` in `ProgramsProofs`, `MapInv` in
`HashMapProofs`, `CountInv` for `PrintsTotal`) that was model-checked on the instances of the runs
before it was proved.

**`LeastNumber`.** A set of natural numbers that is not empty has a least element
(`Least`). The provers cannot use the library's induction principles, whose
parameter is a predicate, but this fact is about a set: a proof by induction takes
the set of the numbers for which the claim fails and leads its least element to a
contradiction (`UpTo` is the same as an induction over a set of numbers). The walks
along the two lists, the loop over header lines, the resize of the map and the loops
of the heap are recursive functions, and what they compute is proved this way. That
such a definition has a value at all is a theorem too (`Iterates`,
`IteratesForever`): a function that repeats a step a given number of times exists.

**`HttpProxyProofs`** (any number of connections, addresses and pages, any set of
faults, assumption `ProxyAssumption`). `NoDanglingPage` is not inductive alone: an
eviction frees a page, and the entry it removes is the one of the page's address,
whichever page that entry names by then. The invariant therefore adds
`HandlerState`: what a handler holds at each place (its buffer, its page, whether
it is queued), so that a page in the queue belongs to a handler that is gone, and that
a handler about to evict sees a full cache. `Sizes` adds that the queue is
finite, which the cardinality argument needs. `StopPrompt` and `NothingLeft` have
invariants of their own (`StopInv`, `OwnedInv`). `Implements` maps the map to the
messages its copies point to; a step that frees a message is a step of the
abstract cache because `NoDanglingPage` says no other entry points to it.

**`MyLockProofs`** (any finite set of threads, any number of iterations). The
invariant adds `LoopState`, which bounds the loop counter at each place and says
that the loaded value is still that of `val` at the store; this makes `val++` an
atomic increment (`CounterStep`, `Implements`). `WakeupsKept` is part of the
induction: it needs exclusion to see that the owner will come to its wake-up.
`TotalPrinted` counts: `Effective` is the set of pairs of a thread and an iteration
whose increment has taken effect, `val` is its cardinality, because a step of the
abstract counter adds one new pair, and when `main()` prints it is the whole product.

**`ConcurrentListProofs`** (any list, any threads). `Own(t)` is what thread t knows of
its window and which locks it holds; it is preserved by other threads because a
`next` field is only stored by a thread that holds the node's lock (`Frame`,
`StoreStep`). That the three nodes of a swap are different, without which the
stores would make a cycle, needs a fact about the whole list: `Placed`, some
numbering of the nodes that grows along the list. A swap exchanges two numbers
(`PlacedStep`). `Implements` shows that the first store of a swap is the atomic
exchange and the other two change nothing in the mapped list. `ListStaysIntact`
follows from `Placed`: the least place without a node would come after a place whose
node has a successor, so every place is taken (`PlacesTaken`), their number is that
of the nodes, and the walk of k steps ends at place k + 1 (`AlongIs`).

**`ProgramsProofs`, echo servers** (any clients and numbers; it needs no assumption).
`EchoesOwnNumber` speaks of what a client has read; the invariant follows the
number on its way there. `NumCurrent` is the step that matters: before a write,
`num` is the number of the client being served, or that client has been killed,
because `read()` returns nothing only from such a client and nobody comes back from
being killed.

**`SharedQueueProofs`** (any capacity, any number of values, with or without failing
`malloc()`). `CountInv` alone is inductive and does without any synchronisation: a
thread that has tested `count` may be overtaken by the other one, which moves it only
away from the limit the test was about. That is why the assertions hold in 2.1 too.
`SyncInv` is the exclusion: `LockInv` where there is a mutex, `TurnInv` where the
two semaphores pass the turn; `Exclusive` concludes that never both threads are inside
a call. `QueueInv` then describes a list that only one thread at a time changes: its
values are `lo` to `hi - 1`, which move in the middle of a call, when the node is
linked and when it is unlinked; `count` lags behind by what the calls in progress have
still to store; `last` may dangle while the list is empty. `WalkIs` follows `first` and
`next` by the least counterexample; `ListKept` is the case of no call in progress.
`Implements` is `EndsMove`: a step leaves `lo` and `hi` alone or moves one of them by one,
and a move is a send or a receive of `Fifo`.

**`ProgramsProofs`, user threads** (any number of threads, loops of any lengths). The invariant has to say
what is in a slot whose thread has returned: its old context until `main()` saves over
it, which happens because `uthread_curr` stays there. `Dead` is the set of threads that
have returned; the counter is its cardinality (`DeadInv`), and so `main()`, which waits
for it to reach N, waits for all of them (`MainWaits`). `TurnsGoRound` is not inductive:
`Level` takes from each thread's turns the one of the present round, which the slots
before the current one have had, and all threads that have not returned have one level.

**`RequestParserProofs`** (reads of any length, any number of headers, and any literal
without spaces and control characters, as `"HTTP/1."`: `ParserAssumption`). `Firm`
says of each function of the parser that its answer is in range and that a longer read
gives the same unless it was `Partial`; the functions compose (`Compose`). The range is
what the argument turns on: `VersionKept` ends one character before the end, which
is why its caller may look at that character unchecked. For the loop over headers the
recursion is first shown to define something (`HeadersExist`). `AnswerFinal` is stated for
any longer read, `AnswersSettled` is the run's property.

The second half compares the parser with `IsRequest`, which cuts what has been received
into lines and says what each line is. Each function of the parser gets the condition on
positions under which it returns y (`TokenIs`, `SkipIs`, `ToEolIs`, `VersionIs`, ...;
`Stretch` is a range of characters of one class, `Eol` the end of a line); the functions
compose to `HeaderTo` and `RequestTo`. `LineIs` gives the characters of a line, `TextLine`
says that text up to an end of line is one whole line, and so `HeaderLineIs`,
`EmptyLineIs` and `RequestLineIs` say the same of the lines. The loop over headers is an
induction over the room that is left (`HeadersAccept`): the rest of the text is accepted
exactly if it is that many headers and an empty line (`Rest`). `ParserSays` and
`DefinitionSays` then meet in `Matches`, which gives `ParsesRequests`: for any characters
in any number, all are read as a request if and only if they are one. `RequestsAccepted`,
the run's property, also says that the parser never stops short of the end: an answer
before it would have been given when no more had been received (`EarlierAnswer`). For the
first state this is an assumption about the beginnings (`BeginningsAssumption`): they
hold no more than one request.

**`HashMapProofs`** (any keys, values and hash function; `MapAssumption` only says that
`NULL` is no key and no value). `MapShape` speaks of the list of all nodes, which a
resize builds and takes apart again, so the induction is about the *set* of nodes:
`Present(buckets)`, in which a key occurs once. `Shape` says that a node is in the
bucket of its hash and only once in it, `Counted` that `nnodes` is the size of the
set, `Doubled` that the number of buckets is zero or a power of two (`MapInv`).
`ChainedLists` shows that the first pass of `map_resize()` lists the set without
repetition, and `Dealt` that the second one puts a list into buckets of that shape,
for any number of buckets: a successful and a failed resize are the same argument.
Each call is then an equation on the set (one node added, replaced or gone, or
nothing), and what `map_get_()` returns depends only on the set (`GetIs`); that
gives both `KeepsShape` and `MapIsDictionary`. The latter needs no more than `MapInv`
before the step: on a sound map each call keeps its own promise (`PromisesKept`),
whoever makes it.

**`ProgramsProofs`, heap and cache** (any cache size, pages, hosts and hashes).
`Rearranges(a, b)` says that a permutation of positions leads from a to b. Every step
of the two loops is an exchange, so it rearranges, and so do the loops: `EnqueueKeeps`
and `DequeueKeeps` hold whatever order the elements are in, that is in spite of the
wrong parent index. `QueueKeepsElements` counts copies through that permutation. For the
order it follows the new element on its way up (`RisingStep`): everything else stays
behind the first place, whatever order it is in, until the element stops or is first
itself; the path x, x / 2, ... always ends at 0. `CacheIsSound` needs nothing else of the heap, and of the map only
the equations above. `StoreInv` adds to `StoreSound` what the critical section knows on
its way: the page it stores is in use and not yet queued, and past its check there is
room, so that `pqueue_enqueue()` does not drop the page. The step that matters is
`EvictStep`: the entry that is removed is the one of the evicted page's host, and no
other entry can lead to that page. `ProgInv` joins `MapInv` and `StoreInv` for the
specification that the run checks, which gives `MapKeepsShape` and
`ProgramsUseDictionary` for the cache's use of the map as well.

**Only model-checked.** All liveness properties, which are beyond this prover.
`ReturnsBiggest` is not proved, since it is false from six elements on
(`containers_six`); what holds of the heap instead is `QueueKeepsElements`.

## 6. What the project found

* `http-proxy.c`: cache entries are keyed by the address only; a failed
  `map_set_()` returns with the mutex locked.
* `pqueue.c`: `PARENT` does not match `LEFT` and `RIGHT`.
* `mythread_create.c`: the join protocol stores after it wakes, treats EAGAIN as
  fatal, and stores the result last.
* `myHeap.c`: the size test of `my_malloc()` adds the two tags on the wrong side, so
  a block is handed out for a request it cannot hold.
* `copyCatalogBackwards.c`: the result of `fgetc()` is kept in a `char`, so that the
  byte 255 is taken for the end of the file and the program stops.

In `UThread` and `EchoServer` the opposite happened: the stale `uthread_curr` and
the `num` that is never reset look like mistakes, and the run shows that they do
no harm: whoever could be given a stale number is no longer there to read it.

## 7. Limits of the models

`sem_destroy()` on semaphores in use (2.2/semaphore) is undefined by POSIX and has
no effect in the C library; it is not modelled. A failing `pthread_create()` in 2.3
and in the queues ends the process and is not modelled, nor is a failing
`pthread_join()`. Memory is sequentially consistent: the data races of 2.1 and of
the futex words are modelled as interleavings of whole accesses, with no
reordering. Bodies, paths and host names are model values. The strings the parser
hands back are left out, and `char` is taken as signed, as on the build's machine.
A socket's set-up, a full backlog and messages split by the kernel are left out of
`EchoServer`. `EvictPage` removes a
page of the biggest priority, which is the contract of the queue and, because all
queued pages have the same priority, also what the faulty heap returns.
