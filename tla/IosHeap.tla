------------------------------ MODULE IosHeap -------------------------------
(***************************************************************************)
(* The heap of the IPC library (IPC/memory.c): the memory every request to *)
(* IOS is made in.  A chunk is a header and the bytes after it; the free   *)
(* chunks are linked in the order of their addresses.  An allocation cuts  *)
(* the smallest free chunk that fits, a free puts its chunk back and joins *)
(* it with its neighbours.  All run with interrupts disabled.              *)
(*                                                                         *)
(* Addresses and sizes are in units of 16 bytes, the size of a header.     *)
(***************************************************************************)
EXTENDS Integers, FiniteSets

CONSTANTS
    HeapBase,   \* the address of the heap, aligned to 32 bytes
    HeapSize,   \* its size
    BlockSize,  \* the sizes clients ask for
    BlockAlign  \* the alignments they ask for, powers of two

ASSUME HeapAssumption ==
    /\ HeapBase \in Nat \ {0} /\ HeapBase % 2 = 0
    /\ HeapSize \in Nat \ {0, 1}
    /\ BlockSize \subseteq Nat \ {0}
    /\ BlockAlign \subseteq {2 ^ n : n \in 0 .. 8}

VARIABLES
    heap,   \* the head of the list, and the header at each address
    blocks  \* the blocks the clients hold (history: what __iosAlloc returned)

heapVars == <<heap, blocks>>

NULL == 0
Cell == HeapBase .. HeapBase + HeapSize - 1
HeapEnd == HeapBase + HeapSize

(* What an address holds that is not, or no longer, a header that is read. *)
NoHeader == [magic |-> "NONE", size |-> 0, prev |-> NULL, next |-> NULL]

(* iosCreateHeap. *)
HeapInit ==
    /\ heap = [head |-> HeapBase,
               mem |-> [c \in Cell |->
                    IF c = HeapBase THEN [NoHeader EXCEPT !.magic = "FREE", !.size = HeapSize - 1]
                    ELSE NoHeader]]
    /\ blocks = {}

(***************************************************************************)
(* The chunks of a heap h.                                                 *)
(***************************************************************************)

(* The walk along the list, of at most n chunks from the chunk c. *)
FreeChunks(h) ==
    LET walk[n \in 0 .. HeapSize, c \in Cell \cup {NULL}] ==
            IF n = 0 \/ c = NULL THEN {} ELSE {c} \cup walk[n - 1, h.mem[c].next]
    IN  walk[HeapSize, h.head]

WithPrev(mem, c, p) == IF c = NULL THEN mem ELSE [mem EXCEPT ![c].prev = p]
WithNext(h, c, n) ==
    IF c = NULL THEN [h EXCEPT !.head = n] ELSE [h EXCEPT !.mem[c].next = n]

(* The padding before a block so that it is aligned. *)
Padding(c, align) == (align - ((c + 1) % align)) % align

Fitting(h, size, align) ==
    {c \in FreeChunks(h) : h.mem[c].size >= size + Padding(c, align)}

(* The first of the smallest chunks that fit.  The exact fit the loop      *)
(* stops at is one of them.                                                *)
BestFit(h, size, align) ==
    LET fitting == Fitting(h, size, align)
        smallest == {c \in fitting : \A d \in fitting : h.mem[c].size <= h.mem[d].size}
    IN  IF fitting = {} THEN NULL ELSE CHOOSE c \in smallest : \A d \in smallest : c <= d

(* Cuts the chunk c after the first `need' units, when more than a header  *)
(* is left.                                                                *)
Split(h, c, need) ==
    LET rest == c + need + 1
        old == h.mem[c]
    IN  IF old.size > need + 1
        THEN [h EXCEPT
                !.mem = [WithPrev(@, old.next, rest) EXCEPT
                    ![rest] = [magic |-> "FREE", size |-> old.size - need - 1,
                               prev |-> c, next |-> old.next],
                    ![c].next = rest,
                    ![c].size = need]]
        ELSE h

Unlink(h, c) ==
    LET old == h.mem[c]
        unlinked == WithNext(h, old.prev, old.next)
    IN  [unlinked EXCEPT !.mem = [WithPrev(@, old.next, old.prev) EXCEPT
                                      ![c].prev = NULL, ![c].next = NULL]]

AlignedMutant(h, c, block) == h
(* The header that leads back from an aligned block to its chunk. *)
Aligned(h, c, block) ==
    IF block = c + 1 THEN h
    ELSE [h EXCEPT !.mem[block - 1] = [NoHeader EXCEPT !.magic = "FORALIGN", !.prev = c]]

(* ROUND_UP(size, 32), and no alignment below 32. *)
Rounded(size) == size + (size % 2)
AtLeast32(align) == IF align < 2 THEN 2 ELSE align

CoalesceMutant(h, c) == h

(* __iosCoalesceChunk *)
Coalesce(h, c) ==
    IF c = NULL \/ h.mem[c].next # c + h.mem[c].size + 1 THEN h
    ELSE LET n == h.mem[c].next
             joined == [h EXCEPT !.mem[c].next = h.mem[n].next,
                                 !.mem[c].size = @ + h.mem[n].size + 1,
                                 !.mem[n] = NoHeader]
         IN  [joined EXCEPT !.mem = WithPrev(@, joined.mem[c].next, c)]

ChunkOf(h, block) ==
    IF h.mem[block - 1].magic = "FORALIGN" THEN h.mem[block - 1].prev ELSE block - 1

(* Links the chunk c behind the last free chunk before it. *)
Link(h, c) ==
    LET before == {d \in FreeChunks(h) : d < c}
        prev == IF before = {} THEN NULL ELSE CHOOSE d \in before : \A e \in before : e <= d
        next == IF prev = NULL THEN h.head ELSE h.mem[prev].next
        linked == WithNext(h, prev, c)
    IN  [linked EXCEPT !.mem = [WithPrev(@, next, c) EXCEPT ![c].prev = prev, ![c].next = next]]

(***************************************************************************)
(* The operations.                                                         *)
(***************************************************************************)

(* __iosAlloc; the block is the clients' to write, so nothing in it is a   *)
(* header any more.                                                        *)
IosAlloc(bytes, alignment) ==
    LET size == Rounded(bytes)
        align == AtLeast32(alignment)
        c == BestFit(heap, size, align)
        padding == Padding(c, align)
        block == c + 1 + padding
        cut == Unlink(Split(heap, c, size + padding), c)
    IN  /\ c # NULL
        /\ heap' = Aligned([cut EXCEPT !.mem[c].magic = "USED"], c, block)
        /\ blocks' = blocks \cup {[at |-> block, size |-> size, align |-> align]}

(* iosFree of a block that was allocated.  The headers inside the chunk    *)
(* are not read again.                                                     *)
IosFree(b) ==
    LET c == ChunkOf(heap, b.at)
        freed == [heap EXCEPT !.mem[b.at - 1] = NoHeader,
                              !.mem[c] = [heap.mem[c] EXCEPT !.magic = "FREE"]]
        joined == Coalesce(Link(freed, c), c)
    IN  /\ heap.mem[c].magic = "USED"
        /\ heap' = Coalesce(joined, joined.mem[c].prev)
        /\ blocks' = blocks \ {b}

HeapNext ==
    \/ \E size \in BlockSize, align \in BlockAlign : IosAlloc(size, align)
    \/ \E b \in blocks : IosFree(b)

HeapSpec == HeapInit /\ [][HeapNext]_heapVars

-----------------------------------------------------------------------------
(***************************************************************************)
(* Properties.                                                             *)
(***************************************************************************)
Header == [magic : {"NONE", "FREE", "USED", "FORALIGN"}, size : 0 .. HeapSize,
           prev : Cell \cup {NULL}, next : Cell \cup {NULL}]
HeapTypeOK ==
    /\ heap.head \in Cell \cup {NULL}
    /\ heap.mem \in [Cell -> Header]
    /\ \A b \in blocks : b.at \in Cell

Chunks == {c \in Cell : heap.mem[c].magic \in {"FREE", "USED"}}
ChunkEnd(c) == c + heap.mem[c].size + 1

(* The chunks tile the heap: whatever was cut and joined, each ends where  *)
(* the next begins and the last at the end of the heap.                    *)
ChunksTile ==
    /\ HeapBase \in Chunks
    /\ \A c \in Chunks :
          /\ ChunkEnd(c) \in Chunks \cup {HeapEnd}
          /\ \A d \in Chunks : d > c => d >= ChunkEnd(c)

(* The list has exactly the free chunks, in the order of their addresses,  *)
(* and its links back agree.                                               *)
FreeListExact ==
    /\ FreeChunks(heap) = {c \in Chunks : heap.mem[c].magic = "FREE"}
    /\ heap.head # NULL => heap.mem[heap.head].prev = NULL
    /\ \A c \in FreeChunks(heap) : heap.mem[c].next # NULL =>
          heap.mem[c].next > c /\ heap.mem[heap.mem[c].next].prev = c

(* Every block the clients hold can be freed: it leads back to a chunk of  *)
(* its own, is aligned, and no header is in it, nor in another block.      *)
BlocksFreeable ==
    /\ \A b \in blocks :
          LET c == ChunkOf(heap, b.at) IN
          /\ heap.mem[c].magic = "USED"
          /\ b.at % b.align = 0
          /\ c < b.at /\ b.at + b.size <= ChunkEnd(c)
          /\ \A d \in Chunks : d < b.at \/ d >= b.at + b.size
    /\ \A a, b \in blocks : a # b => ChunkOf(heap, a.at) # ChunkOf(heap, b.at)
    /\ Cardinality({c \in Chunks : heap.mem[c].magic = "USED"}) = Cardinality(blocks)

(* A request is refused only when the memory between the used chunks has   *)
(* no room for it: nothing is lost to chunks that were not joined.         *)
Used(u) == \E c \in Chunks : heap.mem[c].magic = "USED" /\ u \in c .. ChunkEnd(c) - 1
NoRoomLost ==
    \A size \in BlockSize, align \in BlockAlign :
        BestFit(heap, Rounded(size), AtLeast32(align)) = NULL =>
            ~\E at \in Cell :
                /\ at % AtLeast32(align) = 0
                /\ at + Rounded(size) <= HeapEnd
                /\ at > HeapBase
                /\ \A u \in at - 1 .. at + Rounded(size) - 1 : ~Used(u)

(* After any sequence of calls the chunks tile the heap, the free list has *)
(* the free ones, the blocks can be freed, and no room is lost.            *)
HeapExact == ChunksTile /\ FreeListExact /\ BlocksFreeable /\ NoRoomLost
=============================================================================
