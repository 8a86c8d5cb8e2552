------------------------------- MODULE Malloc -------------------------------
(***************************************************************************)
(* The heap of system/malloc.c: blocks are carved from NextBlock upwards,  *)
(* rounded up to a size class, and a freed block goes back on the free     *)
(* list of its class.  A block is named by the address of its header.  The *)
(* chain of header->next pointers of a class is the sequence freeList[c],  *)
(* its first element being Blocks[i].freeList.                             *)
(*                                                                         *)
(* Pointers have the width of the machine: NextBlock is computed modulo    *)
(* AddressSpace.  It is not restored when a request fails, so it moves     *)
(* beyond BlockLimit and may go round.  The model is bounded there: once   *)
(* wrapped it has shown what it can show and takes no further step.        *)
(***************************************************************************)
EXTENDS Integers, Sequences

CONSTANTS Classes,       \* Blocks[].size
          Requests,      \* the sizes asked for
          Header,        \* sizeof(BlockHeader)
          BLOCK_ALIGN,
          HeapStart,     \* MEM_HEAP_START
          HeapSize,      \* the size given to MallocInit
          AddressSpace   \* number of addresses, 2^32 on the board

Addresses  == 0 .. AddressSpace - 1
BlockLimit == HeapStart + HeapSize

ASSUME MallocAssumption ==
  /\ Classes \subseteq Nat \ {0} /\ Classes # {}
  /\ Requests \subseteq Nat
  /\ Header \in Nat \ {0}
  /\ BLOCK_ALIGN \in Nat \ {0}
  /\ HeapStart \in Nat
  /\ HeapSize \in Nat
  /\ AddressSpace \in Nat
  /\ BlockLimit < AddressSpace

VARIABLES NextBlock, \* where the next block is carved
          size,      \* size[a]: the size in the header at a, 0 where there is none
          freeList,  \* freeList[c]: the free blocks of class c, first one first
          live,      \* the blocks handed out and not yet freed
          asked,     \* asked[a]: the size block a was last requested with
          wrapped    \* NextBlock has gone round the address space

heapVars == <<NextBlock, size, freeList, live, asked, wrapped>>

Carved == {a \in Addresses : size[a] # 0}

OnList(c) == {freeList[c][i] : i \in DOMAIN freeList[c]}

(* (sizeof(BlockHeader) + size + BLOCK_ALIGN - 1) & ~(BLOCK_ALIGN - 1) *)
Span(n) == ((Header + n + BLOCK_ALIGN - 1) \div BLOCK_ALIGN) * BLOCK_ALIGN

(* (u32)(BlockLimit - NextBlock) *)
MallocRemaining == (BlockLimit - NextBlock) % AddressSpace

MallocInit ==
  /\ NextBlock = HeapStart
  /\ freeList = [c \in Classes |-> << >>]

HeapInit ==
  /\ MallocInit
  /\ size = [a \in Addresses |-> 0]
  /\ live = {}
  /\ asked = [a \in Addresses |-> 0]
  /\ wrapped = FALSE

(* c is the first class a request of n bytes fits in. *)
ClassOf(n, c) == n <= c /\ \A d \in Classes : n <= d => c <= d

(* Mutant of Reuse: the block is not unlinked from the free list. *)
ReuseKeepsLinked(n, c) ==
  /\ freeList[c] # << >>
  /\ live' = live \cup {Head(freeList[c])}
  /\ asked' = [asked EXCEPT ![Head(freeList[c])] = n]
  /\ UNCHANGED <<NextBlock, size, freeList, wrapped>>

(* Take the first block of the free list of class c. *)
Reuse(n, c) ==
  LET a == Head(freeList[c])
  IN  /\ freeList[c] # << >>
      /\ freeList' = [freeList EXCEPT ![c] = Tail(@)]
      /\ live' = live \cup {a}
      /\ asked' = [asked EXCEPT ![a] = n]
      /\ UNCHANGED <<NextBlock, size, wrapped>>

(* Carve a new block of m bytes, or fail having moved NextBlock all the same. *)
Carve(n, m) ==
  LET a   == NextBlock
      end == (NextBlock + Span(m)) % AddressSpace
  IN  /\ NextBlock' = end
      /\ wrapped' = (wrapped \/ NextBlock + Span(m) >= AddressSpace)
      /\ IF end > BlockLimit
         THEN UNCHANGED <<size, live, asked>>
         ELSE /\ size' = [size EXCEPT ![a] = m]
              /\ live' = live \cup {a}
              /\ asked' = [asked EXCEPT ![a] = n]
      /\ UNCHANGED freeList

malloc(n) ==
  \/ \E c \in Classes :
       /\ ClassOf(n, c)
       /\ \/ Reuse(n, c)
          \/ freeList[c] = << >> /\ Carve(n, c)
  \/ (\A c \in Classes : n > c) /\ Carve(n, n)

(* Only a size that is exactly a class has a list to go back to. *)
free(a) ==
  /\ live' = live \ {a}
  /\ freeList' = [c \in Classes |-> IF size[a] = c THEN <<a>> \o freeList[c]
                                    ELSE freeList[c]]
  /\ UNCHANGED <<NextBlock, size, asked, wrapped>>

HeapNext ==
  \/ ~wrapped /\ \E n \in Requests : malloc(n)
  \/ ~wrapped /\ \E a \in live : free(a)
  \/ wrapped /\ UNCHANGED heapVars

HeapSpec == HeapInit /\ [][HeapNext]_heapVars

-----------------------------------------------------------------------------
(***************************************************************************)
(* Shape of the state.                                                     *)
(***************************************************************************)
HeapTypeOK ==
  /\ NextBlock \in Addresses
  /\ size \in [Addresses -> Nat]
  /\ freeList \in [Classes -> Seq(Addresses)]
  /\ live \subseteq Addresses
  /\ asked \in [Addresses -> Nat]
  /\ wrapped \in BOOLEAN

(***************************************************************************)
(* No two blocks share a byte and every block ends inside the heap, as     *)
(* long as NextBlock has not gone round the address space.                 *)
(***************************************************************************)
Disjoint ==
  \A a, b \in Carved : a < b => a + Span(size[a]) <= b

InHeap ==
  \A a \in Carved : HeapStart <= a /\ a + Span(size[a]) <= BlockLimit

BlocksApart == ~wrapped => Disjoint /\ InHeap

(***************************************************************************)
(* A block is in one place: handed out, or once on the free list of its    *)
(* own class.  So malloc never hands out a block that is in use.           *)
(***************************************************************************)
FreeListsSound ==
  /\ live \subseteq Carved
  /\ \A c \in Classes : \A i \in DOMAIN freeList[c] :
       /\ freeList[c][i] \in Carved \ live
       /\ size[freeList[c][i]] = c
       /\ \A j \in DOMAIN freeList[c] : freeList[c][i] = freeList[c][j] => i = j

OneOwner == ~wrapped => FreeListsSound

(***************************************************************************)
(* A caller gets at least the bytes it asked for, also from a recycled     *)
(* block.                                                                  *)
(***************************************************************************)
BigEnough == ~wrapped => \A a \in live : asked[a] <= size[a]

(***************************************************************************)
(* The heap is sound: what malloc and free hand out and take back in any   *)
(* order never overlaps, has one owner, and is as large as was asked for.  *)
(***************************************************************************)
HeapSound == BlocksApart /\ OneOwner /\ BigEnough

(***************************************************************************)
(* The inductive invariant behind the three: every block lies below        *)
(* NextBlock, which only moves up, so a new block is clear of all others.  *)
(***************************************************************************)
BelowNext ==
  /\ HeapStart <= NextBlock
  /\ \A a \in Carved : a + Span(size[a]) <= NextBlock

Fits == \A a \in live : asked[a] <= size[a]

HeapInv ==
  /\ HeapTypeOK
  /\ ~wrapped => BelowNext /\ Disjoint /\ InHeap /\ FreeListsSound /\ Fits

(***************************************************************************)
(* Claims of the comments in malloc.c that the code does not keep.         *)
(***************************************************************************)

(* MallocRemaining "Returns: size of the remaining heap". *)
RemainingIsSizeOfHeap == MallocRemaining <= HeapSize

(* free: "Free, or deallocate, a previously allocated pointer": a block    *)
(* that is not in use can be handed out again.                             *)
FreedIsReusable ==
  \A a \in Carved : a \in live \/ \E c \in Classes : a \in OnList(c)
=============================================================================
