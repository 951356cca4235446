-------------------------------- MODULE Heap --------------------------------
(***************************************************************************)
(* The kernel heap, kernel/mm/kmalloc.c: one static array, cut into blocks *)
(* that each begin with a header [size, free, next, prev].  Everything is  *)
(* counted in units of 16 bytes, to which kmalloc rounds every size: the   *)
(* header takes 2 units, MIN_BLOCK_SIZE is 4.                              *)
(***************************************************************************)
EXTENDS Integers

CONSTANTS HeapSize,   \* HEAP_SIZE
          Header,     \* sizeof(block_t)
          MinBlock,   \* MIN_BLOCK_SIZE
          Requests    \* sizes asked for, rounded up

ASSUME HeapAssumption ==
  /\ Header \in Nat \ {0}
  /\ MinBlock \in Nat \ {0}
  /\ HeapSize \in Nat /\ HeapSize > Header
  /\ Requests \subseteq Nat \ {0}

VARIABLES hdr,    \* the header at each offset where a block begins
          live    \* history: for each block handed out, the size asked for

vars == <<hdr, live>>

Nil == -1

Blocks(h) == DOMAIN h

-----------------------------------------------------------------------------
(* Blocks are cut and joined. *)

\* Mutant: the header is not counted.
FitsTight(h, b, n) == h[b].free /\ h[b].size >= n

Fits(h, b, n) == h[b].free /\ h[b].size >= n + Header

\* find_free_block.  The list is in the order of the offsets (see Tiled), so the
\* first block that fits is the lowest.
FindFreeBlock(h, b, n) ==
  /\ b \in Blocks(h)
  /\ Fits(h, b, n)
  /\ \A c \in Blocks(h) : c < b => ~Fits(h, c, n)

\* Mutant: the block after the rest still points back to the block.
SplitForgetful(h, b, n) ==
  LET total == n + Header
      new   == b + total
  IN  IF h[b].size < total + MinBlock + Header THEN h
      ELSE [c \in Blocks(h) \cup {new} |->
              IF c = b THEN [h[b] EXCEPT !.size = total, !.next = new]
              ELSE IF c = new
                   THEN [size |-> h[b].size - total, free |-> TRUE,
                         next |-> h[b].next, prev |-> b]
              ELSE h[c]]

\* split_block
Split(h, b, n) ==
  LET total == n + Header
      new   == b + total
  IN  IF h[b].size < total + MinBlock + Header THEN h
      ELSE [c \in Blocks(h) \cup {new} |->
              IF c = b THEN [h[b] EXCEPT !.size = total, !.next = new]
              ELSE IF c = new
                   THEN [size |-> h[b].size - total, free |-> TRUE,
                         next |-> h[b].next, prev |-> b]
              ELSE IF c = h[b].next THEN [h[c] EXCEPT !.prev = new]
              ELSE h[c]]

\* a takes over the block c that follows it.
Absorb(h, a, c) ==
  [x \in Blocks(h) \ {c} |->
     IF x = a THEN [h[a] EXCEPT !.size = @ + h[c].size, !.next = h[c].next]
     ELSE IF x = h[c].next THEN [h[x] EXCEPT !.prev = a]
     ELSE h[x]]

\* coalesce, first half
WithNext(h, b) ==
  IF h[b].next # Nil /\ h[h[b].next].free THEN Absorb(h, b, h[b].next) ELSE h

\* Mutant: the block before is not looked at.
WithPrevNever(h, b) == h

\* coalesce, second half
WithPrev(h, b) ==
  IF h[b].prev # Nil /\ h[h[b].prev].free THEN Absorb(h, h[b].prev, b) ELSE h

MarkFree(h, b) == [h EXCEPT ![b].free = TRUE]
MarkUsed(h, b) == [h EXCEPT ![b].free = FALSE]

Allocated(h, b, n) == MarkUsed(Split(h, b, n), b)
Released(h, b)     == WithPrev(WithNext(MarkFree(h, b), b), b)

-----------------------------------------------------------------------------
(* The calls.  The pointer handed out is the block's offset plus Header. *)

Init ==
  /\ hdr = [b \in {0} |-> [size |-> HeapSize, free |-> TRUE, next |-> Nil, prev |-> Nil]]
  /\ live = [b \in {} |-> 0]

\* Without a block that fits, kmalloc returns NULL and changes nothing.
Kmalloc(n) ==
  \E b \in Blocks(hdr) :
     /\ FindFreeBlock(hdr, b, n)
     /\ hdr' = Allocated(hdr, b, n)
     /\ live' = [c \in DOMAIN live \cup {b} |-> IF c = b THEN n ELSE live[c]]

Kfree(b) ==
  /\ hdr' = Released(hdr, b)
  /\ live' = [c \in DOMAIN live \ {b} |-> live[c]]

\* krealloc with a size that the block holds already
KreallocInPlace(b, n) ==
  /\ n <= hdr[b].size - Header
  /\ live' = [live EXCEPT ![b] = n]
  /\ UNCHANGED hdr

\* krealloc to another block; when there is none the old one stays.
KreallocMoves(b, n) ==
  /\ n > hdr[b].size - Header
  /\ \E c \in Blocks(hdr) :
       /\ FindFreeBlock(hdr, c, n)
       /\ hdr' = Released(Allocated(hdr, c, n), b)
       /\ live' = [d \in (DOMAIN live \cup {c}) \ {b} |-> IF d = c THEN n ELSE live[d]]

Next ==
  \/ \E n \in Requests : Kmalloc(n)
  \/ \E b \in DOMAIN live : Kfree(b)
  \/ \E b \in DOMAIN live, n \in Requests : KreallocInPlace(b, n)
  \/ \E b \in DOMAIN live, n \in Requests : KreallocMoves(b, n)

Spec == Init /\ [][Next]_vars

-----------------------------------------------------------------------------
(* Properties *)

Headers == [size : 1..HeapSize, free : BOOLEAN,
            next : {Nil} \cup 0..HeapSize-1, prev : {Nil} \cup 0..HeapSize-1]

TypedBy(h) ==
  /\ Blocks(h) \subseteq 0..HeapSize-1
  /\ h \in [Blocks(h) -> Headers]

\* Offsets, sizes and pointers stay within the heap.
TypeOK ==
  /\ TypedBy(hdr)
  /\ live \in [DOMAIN live -> Requests]

TiledBy(h) ==
  /\ 0 \in Blocks(h) /\ h[0].prev = Nil
  /\ \A b \in Blocks(h) \ {0} : h[b].prev \in Blocks(h) /\ h[h[b].prev].next = b
  /\ \A b \in Blocks(h) :
       LET end == b + h[b].size
       IN  /\ h[b].size > Header
           /\ \/ end = HeapSize /\ h[b].next = Nil
              \/ /\ end < HeapSize /\ h[b].next = end
                 /\ end \in Blocks(h) /\ h[end].prev = b
           /\ \A c \in Blocks(h) : b < c => end <= c

\* The blocks cover the heap from end to end without gap or overlap, the list
\* runs through them in order, and each points back to the one before it.
Tiled == TiledBy(hdr)

JoinedAt(h, b) == h[b].free /\ h[b].next # Nil => ~h[h[b].next].free

\* Two free blocks are never next to each other: kfree joins all it can, so a
\* request fails only if no run of free space, headers included, is large enough.
Joined == \A b \in Blocks(hdr) : JoinedAt(hdr, b)

\* The blocks in use are those handed out and not freed, and each has at least
\* the room that was asked for.
LiveHeld ==
  /\ DOMAIN live = {b \in Blocks(hdr) : ~hdr[b].free}
  /\ \A b \in DOMAIN live : live[b] + Header <= hdr[b].size
=============================================================================
