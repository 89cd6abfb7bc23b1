------------------------------- MODULE MyHeap -------------------------------
(***************************************************************************)
(* The allocator of 1-term/lab4/subtask3 (myHeap.c): one mapped page,      *)
(* divided into blocks with a metadata tag at each end.                    *)
(*                                                                         *)
(* Addresses and sizes count units of META_SIZE, 16 bytes; a cell that was *)
(* never a tag is zero, as mmap() gives it, and what the program writes    *)
(* into its blocks is not modelled.  size_t wraps at WORD.                 *)
(***************************************************************************)
EXTENDS Naturals, FiniteSets

CONSTANTS
    PAGE_SIZE,  \* 256 units in the source; more than 2 * META_SIZE
    WORD,       \* size_t counts modulo this; more than 4 * PAGE_SIZE
    Sizes       \* the sizes that are asked for; zero gets NULL and changes nothing

META_SIZE == 1

VARIABLES
    mem,        \* the tag in each cell
    live,       \* history: the blocks handed out, by address and size
    status      \* "running", "fault" (an access outside the page) or "done"

vars == <<mem, live, status>>

Cells == 0 .. PAGE_SIZE - 1
Tag(size, freed) == [size |-> size, freed |-> freed]
Plus(x, y) == (x + y) % WORD
Minus(x, y) == (x + WORD - y) % WORD
Block(ptr, size) == [ptr |-> ptr, size |-> size]
memoryTail == PAGE_SIZE - META_SIZE

(* No addresses: my_malloc() found nothing, or lost its way.               *)
Nothing == WORD
Astray == WORD + 1

(* initMalloc(), which the first my_malloc() calls.                        *)
Init ==
    /\ mem = [c \in Cells |-> IF c \in {0, memoryTail} THEN Tag(PAGE_SIZE - 2 * META_SIZE, 1)
                                                       ELSE Tag(0, 0)]
    /\ live = {}
    /\ status = "running"

TailOf(m, c) == Plus(c, META_SIZE + m[c].size)

(* The loop of my_malloc(): the block to use, Nothing at the end of the    *)
(* memory, Astray if the tags lead out of the page or in a circle.         *)
RECURSIVE Find(_, _, _)
Find(c, size, steps) ==
    IF c \notin Cells \/ steps = 0 THEN Astray
    ELSE IF mem[c].freed = 1 /\ Plus(mem[c].size, 2 * META_SIZE) >= size THEN c
    ELSE IF TailOf(mem, c) = memoryTail THEN Nothing
    ELSE IF TailOf(mem, c) \notin Cells THEN Astray
    ELSE Find(Plus(c, 2 * META_SIZE + mem[TailOf(mem, c)].size), size, steps - 1)

(* A store to a tag; outside the page it hits other memory, or faults.     *)
Store(m, c, tag) == IF c \in Cells THEN [m EXCEPT ![c] = tag] ELSE m

(* my_malloc(): the block is cut in two.                                   *)
MyMalloc(size) ==
    LET c == Find(0, size, PAGE_SIZE)
        end == Plus(c, META_SIZE + size)
        rest == Tag(Minus(Minus(mem[c].size, 2 * META_SIZE), size), 1)
        head == Plus(end, META_SIZE)
        tail == TailOf(mem, c)
    IN  /\ status = "running" /\ c # Nothing
        /\ \/ /\ c \in Cells
              /\ mem' = Store(Store(Store(Store(mem, c, Tag(size, 0)), end, Tag(size, 0)),
                                    head, rest), tail, rest)
              /\ live' = live \cup {Block(c + META_SIZE, size)}
              /\ UNCHANGED status
           \/ /\ c = Astray \/ {end, head, tail} \notin SUBSET Cells
              /\ status' = "fault" /\ UNCHANGED <<mem, live>>

(* my_free(): mark the block, merge it with the one before, then with the  *)
(* one after.  The pointer to one of the two is not set at an end of the   *)
(* page, but read; a block that is all of the page returns before that.    *)
MyFree(b) ==
    LET c == b.ptr - META_SIZE
        end == TailOf(mem, c)
        size == mem[c].size
        marked == [mem EXCEPT ![c].freed = 1, ![end].freed = 1]
        prev == mem[c - META_SIZE]
        prevFreed == c # 0 /\ prev.freed = 1
        head == IF prevFreed THEN Minus(c, prev.size + 2 * META_SIZE) ELSE c
        joined == Tag(prev.size + 2 * META_SIZE + size, 1)
        merged == IF prevFreed THEN Store(Store(marked, head, joined), end, joined) ELSE marked
        next == merged[end + META_SIZE]
        nextFreed == end # memoryTail /\ next.freed = 1
        both == Tag(size + 2 * META_SIZE + next.size, 1)
    IN  /\ status = "running"
        /\ \/ /\ end \in Cells
              /\ mem' = IF nextFreed
                        THEN Store(Store(merged, head, both),
                                   Plus(end, 2 * META_SIZE + next.size), both)
                        ELSE merged
              /\ live' = live \ {b}
              /\ UNCHANGED status
           \/ /\ (c = 0) # (end = memoryTail) \/ end \notin Cells
              /\ status' = "fault" /\ UNCHANGED <<mem, live>>

(* freeAll(): the page is unmapped.                                        *)
FreeAll == status = "running" /\ status' = "done" /\ UNCHANGED <<mem, live>>

Next == FreeAll \/ (\E s \in Sizes : MyMalloc(s)) \/ \E b \in live : MyFree(b)

Spec == Init /\ [][Next]_vars

-----------------------------------------------------------------------------
(* my_malloc() says that it goes on to the next metadata where "there is   *)
(* not enough space": so every block that it hands out lies with its two   *)
(* tags in the page, apart from the others.                                *)
Extent(b) == (b.ptr - META_SIZE) .. (b.ptr + b.size + META_SIZE - 1)
BlocksFit ==
    /\ \A b \in live : Extent(b) \subseteq Cells
    /\ \A b, c \in live : b # c => Extent(b) \cap Extent(c) = {}
=============================================================================
