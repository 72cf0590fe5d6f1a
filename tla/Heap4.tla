------------------------------- MODULE Heap4 -------------------------------
(***************************************************************************)
(* portable/MemMang/heap_4.c: first fit over a list of free blocks in the  *)
(* order of their addresses, with coalescing of neighbours.                *)
(*                                                                         *)
(* The heap is one value, so that a step that frees twice can apply vPort- *)
(* Free twice.  Every call suspends the scheduler for all it does, and is  *)
(* therefore one step.  The list is the set of its blocks: its order is    *)
(* that of their addresses.  A block and its size, header included, are a  *)
(* record; the allocated bit of xBlockSize says which of the two sets the  *)
(* block is in.  Requests with the top bit of size_t set are left out, and *)
(* so is the least the count of free bytes has ever been.                  *)
(***************************************************************************)
EXTENDS Integers, FiniteSets, FiniteSetsExt

CONSTANTS ucHeap,                 \* address of the array
          configTOTAL_HEAP_SIZE,
          portBYTE_ALIGNMENT,
          SizeofBlockLink,        \* sizeof( BlockLink_t )
          NULL                    \* the null pointer

VARIABLE heap

AlignedDown(n) == (n \div portBYTE_ALIGNMENT) * portBYTE_ALIGNMENT
Aligned(n) == AlignedDown(n + portBYTE_ALIGNMENT - 1)

xHeapStructSize == Aligned(SizeofBlockLink)
heapMINIMUM_BLOCK_SIZE == 2 * xHeapStructSize

(* The first usable byte, and the address of pxEnd.                        *)
HeapStart == Aligned(ucHeap)
HeapEnd == AlignedDown(ucHeap + configTOTAL_HEAP_SIZE - xHeapStructSize)

(* The array has room for more than a header in front of pxEnd.            *)
ASSUME HeapAssumption ==
    /\ {ucHeap, configTOTAL_HEAP_SIZE, SizeofBlockLink} \subseteq Nat
    /\ portBYTE_ALIGNMENT \in Nat \ {0}
    /\ SizeofBlockLink > 0
    /\ HeapStart + xHeapStructSize < HeapEnd
    /\ NULL \notin Int

Block(at, size) == [at |-> at, size |-> size]

(* free, used: the free and the allocated blocks; remaining: xFreeBytes-   *)
(* Remaining, which the code keeps apart from the list.                    *)
prvHeapInit ==
    heap = [free |-> {Block(HeapStart, HeapEnd - HeapStart)}, used |-> {},
            remaining |-> HeapEnd - HeapStart]

-----------------------------------------------------------------------------

(* prvInsertBlockIntoFreeList: b becomes one block with its neighbours.    *)
Inserted(list, b) ==
    LET joined == {b} \cup {f \in list : f.at + f.size = b.at \/ b.at + b.size = f.at}
        from == Min({f.at : f \in joined})
    IN (list \ joined) \cup {Block(from, Max({f.at + f.size : f \in joined}) - from)}

(* The size of the block a request for n bytes asks for.                   *)
Wanted(n) == IF n > 0 THEN Aligned(n + xHeapStructSize) ELSE 0

Fitting(h, w) == {b \in h.free : b.size >= w}

(* Whether pvPortMalloc finds a block, and where its memory then starts.   *)
Available(h, n) ==
    /\ Wanted(n) \in 1 .. h.remaining
    /\ Fitting(h, Wanted(n)) # {}

FirstFit(h, n) ==
    CHOOSE b \in Fitting(h, Wanted(n)) : \A c \in Fitting(h, Wanted(n)) : b.at <= c.at

pvReturn(h, n) == IF Available(h, n) THEN FirstFit(h, n).at + xHeapStructSize ELSE NULL

(* The block given for a request: all of b, if the rest could hold no more *)
(* than a header and a unit beside it.                                     *)
Given(b, w) == IF b.size - w > heapMINIMUM_BLOCK_SIZE THEN Block(b.at, w) ELSE b

pvPortMalloc(h, n) ==
    IF ~Available(h, n) THEN h
    ELSE LET b == FirstFit(h, n)
             given == Given(b, Wanted(n))
             others == h.free \ {b}
         IN [free |-> IF given = b THEN others
                      ELSE Inserted(others, Block(b.at + given.size, b.size - given.size)),
             used |-> h.used \cup {given},
             remaining |-> h.remaining - given.size]

(* The block in front of the memory p points to.                           *)
BlockOf(h, p) == CHOOSE b \in h.used : b.at + xHeapStructSize = p

vPortFree(h, p) ==
    IF p = NULL THEN h
    ELSE LET b == BlockOf(h, p)
         IN [h EXCEPT !.free = Inserted(@, b), !.used = @ \ {b}, !.remaining = @ + b.size]

-----------------------------------------------------------------------------
(* Properties *)

Bytes(b) == b.at .. b.at + b.size - 1

(* The blocks, free and allocated, cover the heap without a gap or an      *)
(* overlap, each can hold a header and something beside it, no two free    *)
(* ones lie side by side, and the count of free bytes is theirs.           *)
Tiled(h) ==
    LET blocks == h.free \cup h.used
    IN /\ \A x \in HeapStart .. HeapEnd - 1 : \E b \in blocks : x \in Bytes(b)
       /\ \A b, c \in blocks : b # c => b.at + b.size <= c.at \/ c.at + c.size <= b.at
       /\ h.free \cap h.used = {}
       /\ \A b \in blocks :
             /\ b.at >= HeapStart /\ b.at + b.size <= HeapEnd
             /\ b.size > xHeapStructSize
       /\ \A f, g \in h.free : f.at + f.size # g.at
       /\ h.remaining = Cardinality(UNION {Bytes(f) : f \in h.free})

=============================================================================
