---------------------------- MODULE MemoryProofs ----------------------------
(***************************************************************************)
(* The heap stays tiled, joined and true to what was handed out, for every *)
(* size of the heap, of the header and of the requests; cutting and        *)
(* joining blocks is dealt with in lemmas about a header map h.  The inode *)
(* table stays a tree with buffers of one owner, for every set of paths,   *)
(* size of the table and number of blocks; its lemmas are about a table t  *)
(* and the blocks h that are in use.                                       *)
(***************************************************************************)
EXTENDS Heap, InodeTable, SequenceTheorems, WellFoundedInduction, TLAPS


WellFormed(h) == TypedBy(h) /\ TiledBy(h)

\* A block taken over by the one before it leaves a well-formed list.
LEMMA AbsorbWellFormed ==
  ASSUME NEW h, WellFormed(h), NEW a \in Blocks(h), h[a].next # Nil,
         NEW c, c = h[a].next
  PROVE  /\ WellFormed(Absorb(h, a, c))
         /\ Blocks(Absorb(h, a, c)) = Blocks(h) \ {c}
         /\ c \in Blocks(h) /\ a # c
         /\ \A x \in Blocks(h) \ {c} :
              /\ Absorb(h, a, c)[x].free = h[x].free
              /\ Absorb(h, a, c)[x].size >= h[x].size
              /\ Absorb(h, a, c)[x].next = IF x = a THEN h[c].next ELSE h[x].next
              /\ Absorb(h, a, c)[x].prev = IF x # a /\ x = h[c].next THEN a ELSE h[x].prev
<1> DEFINE g == Absorb(h, a, c)
<1>1. h \in [Blocks(h) -> Headers] /\ Blocks(h) \subseteq 0..HeapSize-1
  BY DEF WellFormed, TypedBy
<1>5. \A x \in Blocks(h) : /\ h[x].size \in Int /\ x \in Nat /\ h[x].size > Header
                           /\ x + h[x].size <= HeapSize
                           /\ \A y \in Blocks(h) : x < y => x + h[x].size <= y
  <2>1. \A x \in Blocks(h) : x \in Nat /\ h[x].size \in Int
    BY <1>1, HeapAssumption DEF Headers
  <2> QED BY <2>1, HeapAssumption DEF WellFormed, TiledBy
<1>2. c \in Blocks(h) /\ c = a + h[a].size /\ a < c /\ a # c /\ h[c].prev = a
  BY <1>5, HeapAssumption DEF WellFormed, TiledBy, Nil
<1>3. Blocks(g) = Blocks(h) \ {c} /\ a \in Blocks(g)
  BY <1>2 DEF Absorb, Blocks
<1>4. \A x \in Blocks(g) :
         /\ g[x].free = h[x].free
         /\ g[x].size = IF x = a THEN h[a].size + h[c].size ELSE h[x].size
         /\ g[x].next = IF x = a THEN h[c].next ELSE h[x].next
         /\ g[x].prev = IF x # a /\ x = h[c].next THEN a ELSE h[x].prev
  BY <1>1, <1>2, <1>3 DEF Absorb, Blocks, Headers
<1>6. TypedBy(g)
  <2>1. ASSUME NEW x \in Blocks(g) PROVE g[x] \in Headers
    <3>1. h[x] \in Headers /\ h[c] \in Headers /\ h[a] \in Headers /\ a \in 0..HeapSize-1
      BY <1>1, <1>2, <1>3
    <3>2. CASE x = a
      <4>1. g[x] = [h[a] EXCEPT !.size = @ + h[c].size, !.next = h[c].next]
        BY <1>3, <3>2 DEF Absorb, Blocks
      <4>2. h[a].size + h[c].size \in 1..HeapSize
        BY <1>2, <1>5, HeapAssumption
      <4> QED BY <3>1, <4>1, <4>2 DEF Headers
    <3>3. CASE x # a
      <4>1. g[x] = h[x] \/ g[x] = [h[x] EXCEPT !.prev = a]
        BY <1>3, <3>3 DEF Absorb, Blocks
      <4> QED BY <3>1, <4>1 DEF Headers
    <3> QED BY <3>2, <3>3
  <2> QED BY <1>1, <1>3, <2>1 DEF TypedBy, Absorb, Blocks
<1>7. TiledBy(g)
  <2>1. 0 \in Blocks(g) /\ g[0].prev = Nil
    BY <1>1, <1>2, <1>3, <1>4, <1>5 DEF WellFormed, TiledBy, Nil
  <2>2. ASSUME NEW b \in Blocks(g)
        PROVE  /\ g[b].size > Header
               /\ \/ b + g[b].size = HeapSize /\ g[b].next = Nil
                  \/ /\ b + g[b].size < HeapSize /\ g[b].next = b + g[b].size
                     /\ b + g[b].size \in Blocks(g) /\ g[b + g[b].size].prev = b
               /\ \A d \in Blocks(g) : b < d => b + g[b].size <= d
    <3>1. CASE b = a
      BY <1>1, <1>2, <1>3, <1>4, <1>5, <3>1, HeapAssumption DEF WellFormed, TiledBy, Nil
    <3>2. CASE b # a
      BY <1>1, <1>2, <1>3, <1>4, <1>5, <3>2, HeapAssumption DEF WellFormed, TiledBy, Nil
    <3> QED BY <3>1, <3>2
  <2>3. ASSUME NEW b \in Blocks(g) \ {0} PROVE g[b].prev \in Blocks(g) /\ g[g[b].prev].next = b
    <3>1. b \in Blocks(h) /\ h[b].prev \in Blocks(h) /\ h[h[b].prev].next = b
      BY <1>3 DEF WellFormed, TiledBy
    <3>2. h[c].next # Nil => h[c].next # a /\ h[h[c].next].prev = c
      BY <1>2, <1>5, HeapAssumption DEF WellFormed, TiledBy
    <3>3. CASE b = h[c].next
      <4>1. b # a
        BY <1>5, <3>1, <3>2, <3>3 DEF Nil
      <4>2. g[b].prev = a /\ g[a].next = b
        BY <1>3, <1>4, <3>3, <4>1
      <4> QED BY <1>3, <4>2
    <3>4. CASE b # h[c].next
      <4>1. h[b].prev # c /\ h[b].prev # a
        BY <1>3, <3>1, <3>4
      <4>2. g[b].prev = h[b].prev
        BY <1>4, <3>4
      <4> QED BY <1>3, <1>4, <3>1, <4>1, <4>2
    <3> QED BY <3>3, <3>4
  <2> QED BY <2>1, <2>2, <2>3 DEF TiledBy
<1> QED BY <1>2, <1>3, <1>4, <1>5, <1>6, <1>7, HeapAssumption DEF WellFormed

\* Cutting a block leaves a well-formed list, in which every block that was
\* there keeps its place, and what is new is free.
LEMMA SplitWellFormed ==
  ASSUME NEW h, WellFormed(h), NEW b \in Blocks(h), NEW n \in Nat \ {0},
         h[b].size >= n + Header,
         NEW g, g = Split(h, b, n)
  PROVE  /\ WellFormed(g)
         /\ Blocks(h) \subseteq Blocks(g)
         /\ g[b].size >= n + Header
         /\ \A x \in Blocks(h) : g[x].free = h[x].free
         /\ \A x \in Blocks(h) \ {b} : g[x].size = h[x].size /\ g[x].next = h[x].next
         /\ \A x \in Blocks(g) \ Blocks(h) : g[x].free /\ g[x].next = h[b].next
         /\ g[b].next = h[b].next \/ g[b].next \in Blocks(g) \ Blocks(h)
<1> DEFINE total == n + Header
           new   == b + total
<1>1. h \in [Blocks(h) -> Headers] /\ Blocks(h) \subseteq 0..HeapSize-1
  BY DEF WellFormed, TypedBy
<1>2. \A x \in Blocks(h) : /\ h[x].size \in Int /\ x \in Nat /\ h[x].size > Header
                           /\ x + h[x].size <= HeapSize
                           /\ \A y \in Blocks(h) : x < y => x + h[x].size <= y
  <2>1. \A x \in Blocks(h) : x \in Nat /\ h[x].size \in Int
    BY <1>1, HeapAssumption DEF Headers
  <2> QED BY <2>1, HeapAssumption DEF WellFormed, TiledBy
<1>3. CASE h[b].size < total + MinBlock + Header
  BY <1>1, <1>3 DEF Split
<1>4. CASE ~(h[b].size < total + MinBlock + Header)
  <2>1. /\ total \in Int /\ total > Header /\ new \in 0..HeapSize-1
        /\ b < new /\ new < b + h[b].size
        /\ h[b].size - total > Header /\ h[b].size - total \in 1..HeapSize
        /\ total \in 1..HeapSize /\ total = n + Header /\ new = b + total
    BY <1>2, <1>4, HeapAssumption
  <2>2. new \notin Blocks(h) /\ new # b
    BY <1>2, <2>1
  <2>3. g = [c \in Blocks(h) \cup {new} |->
              IF c = b THEN [h[b] EXCEPT !.size = total, !.next = new]
              ELSE IF c = new
                   THEN [size |-> h[b].size - total, free |-> TRUE,
                         next |-> h[b].next, prev |-> b]
              ELSE IF c = h[b].next THEN [h[c] EXCEPT !.prev = new]
              ELSE h[c]]
    BY <1>4 DEF Split
  <2>4. Blocks(g) = Blocks(h) \cup {new}
    BY <2>3 DEF Blocks
  <2> HIDE DEF total, new
  <2>5. /\ g[b].size = total /\ g[b].next = new /\ g[b].free = h[b].free /\ g[b].prev = h[b].prev
        /\ g[new] = [size |-> h[b].size - total, free |-> TRUE, next |-> h[b].next, prev |-> b]
        /\ g[new].size = h[b].size - total /\ g[new].next = h[b].next /\ g[new].prev = b
    <3>1. h[b] \in Headers
      BY <1>1
    <3>2. g[b] = [h[b] EXCEPT !.size = total, !.next = new]
      BY <2>3
    <3>3. g[new] = [size |-> h[b].size - total, free |-> TRUE, next |-> h[b].next, prev |-> b]
      BY <2>2, <2>3
    <3> QED BY <3>1, <3>2, <3>3 DEF Headers
  <2>6. \A x \in Blocks(h) \ {b} :
           /\ g[x].size = h[x].size /\ g[x].next = h[x].next /\ g[x].free = h[x].free
           /\ g[x].prev = IF x = h[b].next THEN new ELSE h[x].prev
    <3> TAKE x \in Blocks(h) \ {b}
    <3>1. h[x] \in Headers
      BY <1>1
    <3>2. g[x] = IF x = h[b].next THEN [h[x] EXCEPT !.prev = new] ELSE h[x]
      BY <2>2, <2>3
    <3> QED BY <3>1, <3>2 DEF Headers
  <2>7. TypedBy(g)
    <3>1. ASSUME NEW x \in Blocks(g) PROVE g[x] \in Headers
      <4>1. CASE x = new
        <5>1. h[b] \in Headers /\ b \in 0..HeapSize-1
          BY <1>1
        <5>2. g[x] = [size |-> h[b].size - total, free |-> TRUE, next |-> h[b].next, prev |-> b]
          BY <2>5, <4>1
        <5> QED BY <2>1, <5>1, <5>2 DEF Headers
      <4>2. CASE x = b
        <5>1. g[b] = [h[b] EXCEPT !.size = total, !.next = new]
          BY <2>3
        <5>2. h[b] \in Headers /\ total \in 1..HeapSize /\ new \in 0..HeapSize-1
          BY <1>1, <2>1
        <5> QED BY <4>2, <5>1, <5>2 DEF Headers
      <4>3. CASE x # b /\ x # new
        <5>1. g[x] = h[x] \/ g[x] = [h[x] EXCEPT !.prev = new]
          BY <2>3, <2>4, <4>3
        <5>2. h[x] \in Headers
          BY <1>1, <2>4, <4>3
        <5> QED BY <2>1, <5>1, <5>2 DEF Headers
      <4> QED BY <4>1, <4>2, <4>3
    <3>2. Blocks(g) \subseteq 0..HeapSize-1
      BY <1>1, <2>1, <2>4
    <3>3. g = [x \in Blocks(g) |-> g[x]]
      BY <2>3 DEF Blocks
    <3> QED BY <3>1, <3>2, <3>3 DEF TypedBy
  <2>8. TiledBy(g)
    <3>0. b + h[b].size \in Int /\ b \in Nat /\ h[b].size \in Int /\ b \in Blocks(g) /\ new \in Blocks(g)
      BY <1>2, <2>4
    <3>1. 0 \in Blocks(g) /\ g[0].prev = Nil
      BY <1>1, <1>2, <2>1, <2>2, <2>4, <2>5, <2>6, HeapAssumption DEF WellFormed, TiledBy, Nil
    <3>2. ASSUME NEW x \in Blocks(g)
          PROVE  /\ g[x].size > Header
                 /\ \/ x + g[x].size = HeapSize /\ g[x].next = Nil
                    \/ /\ x + g[x].size < HeapSize /\ g[x].next = x + g[x].size
                       /\ x + g[x].size \in Blocks(g) /\ g[x + g[x].size].prev = x
                 /\ \A d \in Blocks(g) : x < d => x + g[x].size <= d
      <4>1. CASE x = b
        <5>1. x + g[x].size = new /\ g[x].size > Header
          BY <2>1, <2>5, <3>0, <4>1
        <5>2. \A d \in Blocks(g) : x < d => new <= d
          BY <1>2, <2>1, <2>4, <3>0, <4>1
        <5> QED BY <2>1, <2>5, <3>0, <4>1, <5>1, <5>2, HeapAssumption
      <4>2. CASE x = new
        <5>1. x + g[x].size = b + h[b].size /\ g[x].size > Header
          BY <2>1, <2>5, <3>0, <4>2
        <5>2. \A d \in Blocks(g) : x < d => b + h[b].size <= d
          BY <1>2, <2>1, <2>4, <3>0, <4>2
        <5>3. \/ b + h[b].size = HeapSize /\ h[b].next = Nil
              \/ /\ b + h[b].size < HeapSize /\ h[b].next = b + h[b].size
                 /\ h[b].next \in Blocks(h)
          BY DEF WellFormed, TiledBy
        <5>4. h[b].next \in Blocks(h) => h[b].next # b \/ h[b].next # b + h[b].size
          BY <1>2, HeapAssumption
        <5> QED BY <2>4, <2>5, <2>6, <4>2, <5>1, <5>2, <5>3, <5>4
      <4>3. CASE x # b /\ x # new
        <5>1. x \in Blocks(h) \ {b} /\ x \in Nat /\ h[x].size \in Int
          BY <1>2, <2>4, <4>3
        <5>2. g[x].size = h[x].size /\ g[x].next = h[x].next
          BY <2>6, <5>1
        <5>3. \A d \in Blocks(g) : x < d => x + h[x].size <= d
          BY <1>2, <2>1, <2>4, <3>0, <5>1
        <5>4. /\ h[x].size > Header
              /\ \/ x + h[x].size = HeapSize /\ h[x].next = Nil
                 \/ /\ x + h[x].size < HeapSize /\ h[x].next = x + h[x].size
                    /\ h[x].next \in Blocks(h) /\ h[h[x].next].prev = x
          BY <5>1 DEF WellFormed, TiledBy
        <5>5. h[x].next \in Blocks(h) => g[h[x].next].prev = h[h[x].next].prev
          <6>1. CASE h[x].next = b
            BY <2>5, <6>1
          <6>2. CASE h[x].next # b /\ h[x].next \in Blocks(h)
            <7>1. h[x].next # h[b].next
              <8>1. h[b].next = Nil \/ h[h[b].next].prev = b
                BY DEF WellFormed, TiledBy
              <8>2. h[x].next # Nil /\ h[h[x].next].prev = x
                BY <1>2, <5>4, <6>2 DEF Nil
              <8> QED BY <5>1, <8>1, <8>2
            <7> QED BY <2>6, <6>2, <7>1
          <6> QED BY <6>1, <6>2
        <5> QED BY <2>4, <5>2, <5>3, <5>4, <5>5
      <4> QED BY <4>1, <4>2, <4>3
    <3>3. ASSUME NEW x \in Blocks(g) \ {0} PROVE g[x].prev \in Blocks(g) /\ g[g[x].prev].next = x
      <4>1. CASE x = new
        BY <2>5, <3>0, <4>1
      <4>2. CASE x # new
        <5>1. x \in Blocks(h) /\ h[x].prev \in Blocks(h) /\ h[h[x].prev].next = x
          BY <2>4, <4>2 DEF WellFormed, TiledBy
        <5>2. h[b].next # b
          BY <1>2, HeapAssumption DEF WellFormed, TiledBy, Nil
        <5>3. CASE x = h[b].next
          <6>1. g[x].prev = new
            BY <2>6, <5>1, <5>2, <5>3
          <6> QED BY <2>5, <3>0, <5>3, <6>1
        <5>4. CASE x # h[b].next
          <6>1. h[x].prev # b
            BY <5>1, <5>4
          <6>2. g[x].prev = h[x].prev
            BY <2>5, <2>6, <5>1, <5>4
          <6> QED BY <2>4, <2>6, <5>1, <6>1, <6>2
        <5> QED BY <5>3, <5>4
      <4> QED BY <4>1, <4>2
    <3> QED BY <3>1, <3>2, <3>3 DEF TiledBy
  <2> QED BY <1>2, <2>1, <2>2, <2>4, <2>5, <2>6, <2>7, <2>8, HeapAssumption DEF WellFormed
<1> QED BY <1>3, <1>4

AllJoined(h) == \A b \in Blocks(h) : JoinedAt(h, b)
Used(h)      == {b \in Blocks(h) : ~h[b].free}

\* What a well-formed list says of a block and the one after it.
LEMMA Neighbours ==
  ASSUME NEW h, WellFormed(h), NEW b \in Blocks(h)
  PROVE  /\ b \in Nat /\ b # Nil /\ h[b] \in Headers
         /\ h[b].next # Nil => h[b].next \in Blocks(h) /\ b < h[b].next /\ h[h[b].next].prev = b
<1>1. b \in Nat /\ h[b] \in Headers
  BY HeapAssumption DEF WellFormed, TypedBy
<1>2. h[b].size \in Nat /\ h[b].size > 0
  BY <1>1, HeapAssumption DEF Headers
<1> QED BY <1>1, <1>2 DEF WellFormed, TiledBy, Nil

\* Headers that differ in nothing but the free flag describe the same list.
LEMMA SameList ==
  ASSUME NEW h, WellFormed(h), NEW g, g \in [Blocks(h) -> Headers],
         \A x \in Blocks(h) :
           g[x].size = h[x].size /\ g[x].next = h[x].next /\ g[x].prev = h[x].prev
  PROVE  WellFormed(g) /\ Blocks(g) = Blocks(h)
<1>1. h \in [Blocks(h) -> Headers] /\ Blocks(h) \subseteq 0..HeapSize-1
  BY DEF WellFormed, TypedBy
<1>2. Blocks(g) = Blocks(h)
  BY DEF Blocks
<1>3. \A x \in Blocks(h) :
        g[x].size = h[x].size /\ g[x].next = h[x].next /\ g[x].prev = h[x].prev
  OBVIOUS
<1>4. TypedBy(g)
  BY <1>1, <1>2, <1>3 DEF TypedBy
<1>5. TiledBy(g)
  <2>1. 0 \in Blocks(g) /\ g[0].prev = Nil
    BY <1>2, <1>3 DEF WellFormed, TiledBy
  <2>2. \A x \in Blocks(g) \ {0} : g[x].prev \in Blocks(g) /\ g[g[x].prev].next = x
    BY <1>2, <1>3 DEF WellFormed, TiledBy
  <2>3. ASSUME NEW x \in Blocks(g)
        PROVE  /\ g[x].size > Header
               /\ \/ x + g[x].size = HeapSize /\ g[x].next = Nil
                  \/ /\ x + g[x].size < HeapSize /\ g[x].next = x + g[x].size
                     /\ x + g[x].size \in Blocks(g) /\ g[x + g[x].size].prev = x
               /\ \A d \in Blocks(g) : x < d => x + g[x].size <= d
    <3>1. g[x].size = h[x].size /\ g[x].next = h[x].next /\ x \in Blocks(h)
      BY <1>2, <1>3
    <3>2. x + h[x].size \in Blocks(h) => g[x + h[x].size].prev = h[x + h[x].size].prev
      BY <1>3
    <3> QED BY <1>2, <3>1, <3>2 DEF WellFormed, TiledBy
  <2> QED BY <2>1, <2>2, <2>3 DEF TiledBy
<1> QED BY <1>2, <1>3, <1>4, <1>5 DEF WellFormed

\* Marking a block free changes nothing else.
LEMMA MarkFreeHolds ==
  ASSUME NEW h, WellFormed(h), NEW b \in Blocks(h), NEW g, g = MarkFree(h, b)
  PROVE  /\ WellFormed(g) /\ Blocks(g) = Blocks(h)
         /\ g[b].free
         /\ \A x \in Blocks(h) \ {b} : g[x].free <=> h[x].free
         /\ \A x \in Blocks(h) :
              g[x].size = h[x].size /\ g[x].next = h[x].next /\ g[x].prev = h[x].prev
<1>1. h \in [Blocks(h) -> Headers]
  BY DEF WellFormed, TypedBy
<1>2. \A x \in Blocks(h) :
        /\ g[x] \in Headers
        /\ g[x].size = h[x].size /\ g[x].next = h[x].next /\ g[x].prev = h[x].prev
        /\ x = b => g[x].free
        /\ x # b => g[x] = h[x]
  <2> TAKE x \in Blocks(h)
  <2>1. h[x] \in Headers
    BY <1>1
  <2>2. g[x] = IF x = b THEN [h[x] EXCEPT !.free = TRUE] ELSE h[x]
    BY <1>1 DEF Blocks, MarkFree
  <2> QED BY <2>1, <2>2 DEF Headers
<1>3. g \in [Blocks(h) -> Headers]
  BY <1>1, <1>2 DEF Blocks, MarkFree
<1> QED BY <1>2, <1>3, SameList

\* Marking a block used changes nothing else.
LEMMA MarkUsedHolds ==
  ASSUME NEW h, WellFormed(h), NEW b \in Blocks(h), NEW g, g = MarkUsed(h, b)
  PROVE  /\ WellFormed(g) /\ Blocks(g) = Blocks(h)
         /\ ~g[b].free
         /\ \A x \in Blocks(h) \ {b} : g[x].free <=> h[x].free
         /\ \A x \in Blocks(h) :
              g[x].size = h[x].size /\ g[x].next = h[x].next /\ g[x].prev = h[x].prev
<1>1. h \in [Blocks(h) -> Headers]
  BY DEF WellFormed, TypedBy
<1>2. \A x \in Blocks(h) :
        /\ g[x] \in Headers
        /\ g[x].size = h[x].size /\ g[x].next = h[x].next /\ g[x].prev = h[x].prev
        /\ x = b => ~g[x].free
        /\ x # b => g[x] = h[x]
  <2> TAKE x \in Blocks(h)
  <2>1. h[x] \in Headers
    BY <1>1
  <2>2. g[x] = IF x = b THEN [h[x] EXCEPT !.free = FALSE] ELSE h[x]
    BY <1>1 DEF Blocks, MarkUsed
  <2> QED BY <2>1, <2>2 DEF Headers
<1>3. g \in [Blocks(h) -> Headers]
  BY <1>1, <1>2 DEF Blocks, MarkUsed
<1> QED BY <1>2, <1>3, SameList

\* kmalloc takes exactly the block it found into use.
LEMMA AllocatedHolds ==
  ASSUME NEW h, WellFormed(h), AllJoined(h), NEW n \in Nat \ {0},
         NEW b \in Blocks(h), Fits(h, b, n),
         NEW g, g = Allocated(h, b, n)
  PROVE  /\ WellFormed(g) /\ AllJoined(g)
         /\ Used(g) = Used(h) \cup {b} /\ b \notin Used(h)
         /\ g[b].size >= n + Header
         /\ \A x \in Used(h) : g[x].size = h[x].size
<1> DEFINE s == Split(h, b, n)
<1>1. /\ WellFormed(s)
      /\ Blocks(h) \subseteq Blocks(s)
      /\ s[b].size >= n + Header
      /\ \A x \in Blocks(h) : s[x].free = h[x].free
      /\ \A x \in Blocks(h) \ {b} : s[x].size = h[x].size /\ s[x].next = h[x].next
      /\ \A x \in Blocks(s) \ Blocks(h) : s[x].free /\ s[x].next = h[b].next
      /\ s[b].next = h[b].next \/ s[b].next \in Blocks(s) \ Blocks(h)
  BY SplitWellFormed DEF Fits
<1> HIDE DEF s
<1>2. g = MarkUsed(s, b)
  BY DEF Allocated, s
<1>3. /\ WellFormed(g) /\ Blocks(g) = Blocks(s)
      /\ \A x \in Blocks(s) :
           /\ g[x].free <=> x # b /\ s[x].free
           /\ g[x].size = s[x].size /\ g[x].next = s[x].next /\ g[x].prev = s[x].prev
  BY <1>1, <1>2, MarkUsedHolds
<1>4. ASSUME NEW x \in Blocks(g) PROVE JoinedAt(g, x)
  <2>1. h[b].next # Nil => h[b].next \in Blocks(h) /\ b # h[b].next /\ ~h[h[b].next].free
    BY Neighbours DEF AllJoined, JoinedAt, Fits
  <2>2. CASE x = b
    BY <1>1, <1>3, <2>2 DEF JoinedAt
  <2>3. CASE x \in Blocks(h) \ {b}
    <3>1. h[x].next # Nil => h[x].next \in Blocks(h)
      BY <2>3, Neighbours
    <3>2. JoinedAt(h, x)
      BY <2>3 DEF AllJoined
    <3> QED BY <1>1, <1>3, <2>3, <3>1, <3>2 DEF JoinedAt
  <2>4. CASE x \notin Blocks(h)
    BY <1>1, <1>3, <2>1, <2>4 DEF JoinedAt
  <2> QED BY <2>2, <2>3, <2>4
<1>5. Used(g) = Used(h) \cup {b} /\ b \notin Used(h)
  BY <1>1, <1>3 DEF Used, Fits
<1>6. \A x \in Used(h) : g[x].size = h[x].size
  BY <1>1, <1>3, <1>5 DEF Used
<1> QED BY <1>1, <1>3, <1>4, <1>5, <1>6 DEF AllJoined

\* kfree takes exactly the block freed out of use and leaves no two free
\* neighbours.
LEMMA ReleasedHolds ==
  ASSUME NEW h, WellFormed(h), AllJoined(h), NEW b \in Used(h),
         NEW g, g = Released(h, b)
  PROVE  /\ WellFormed(g) /\ AllJoined(g)
         /\ Used(g) = Used(h) \ {b}
         /\ \A x \in Used(g) : g[x].size >= h[x].size
<1> DEFINE f == MarkFree(h, b)
           k == WithNext(f, b)
<1>1. /\ WellFormed(f) /\ Blocks(f) = Blocks(h) /\ b \in Blocks(f)
      /\ \A x \in Blocks(h) :
           /\ f[x].free <=> x = b \/ h[x].free
           /\ f[x].size = h[x].size /\ f[x].next = h[x].next /\ f[x].prev = h[x].prev
  BY MarkFreeHolds DEF Used
<1>2. \A x \in Blocks(f) : x # b /\ f[x].next # b => JoinedAt(f, x)
  <2> TAKE x \in Blocks(f)
  <2>1. h[x].next # Nil => h[x].next \in Blocks(h)
    BY <1>1, Neighbours
  <2> QED BY <1>1, <2>1 DEF AllJoined, JoinedAt
<1>3. Used(f) = Used(h) \ {b}
  BY <1>1 DEF Used
<1>s. \A x \in Blocks(f) : f[x].size \in Int /\ f[x].size = h[x].size
  BY <1>1, Neighbours DEF Headers
<1>g. g = WithPrev(k, b)
  BY DEF Released
<1> HIDE DEF f
<1>4. /\ WellFormed(k) /\ b \in Blocks(k) /\ k[b].free
      /\ Used(k) = Used(f)
      /\ \A x \in Used(k) : k[x].size >= f[x].size
      /\ \A x \in Blocks(k) : k[x].next # b => JoinedAt(k, x)
  <2> DEFINE c == f[b].next
  <2>1. CASE ~(c # Nil /\ f[c].free)
    <3>1. k = f
      BY <2>1 DEF WithNext
    <3>2. \A x \in Used(k) : k[x].size >= f[x].size
      BY <1>s, <3>1 DEF Used
    <3>3. JoinedAt(f, b)
      BY <2>1 DEF JoinedAt
    <3> HIDE DEF k
    <3> QED BY <1>1, <1>2, <1>3, <3>1, <3>2, <3>3
  <2>2. CASE c # Nil /\ f[c].free
    <3>1. k = Absorb(f, b, c)
      BY <2>2 DEF WithNext
    <3>2. /\ WellFormed(k)
          /\ Blocks(k) = Blocks(f) \ {c}
          /\ c \in Blocks(f) /\ b # c
          /\ \A x \in Blocks(f) \ {c} :
              /\ k[x].free = f[x].free
              /\ k[x].size >= f[x].size
              /\ k[x].next = IF x = b THEN f[c].next ELSE f[x].next
      BY <1>1, <2>2, <3>1, AbsorbWellFormed
    <3> HIDE DEF k
    <3>3. b < c /\ b \in Nat /\ c \in Nat /\ f[c].prev = b
      BY <1>1, <2>2, <3>2, Neighbours
    <3>4. f[c].next # b /\ f[c].next # c
      BY <1>1, <3>2, <3>3, Neighbours DEF Nil
    <3>5. f[c].next # Nil => f[c].next \in Blocks(f) /\ ~f[f[c].next].free
      BY <1>1, <1>2, <2>2, <3>2, <3>4, Neighbours DEF JoinedAt
    <3>6. ASSUME NEW x \in Blocks(k), k[x].next # b PROVE JoinedAt(k, x)
      <4>1. CASE x = b
        BY <1>1, <3>2, <3>4, <3>5, <4>1 DEF JoinedAt
      <4>2. CASE x # b
        <5>1. x \in Blocks(f) /\ k[x].next = f[x].next /\ k[x].free = f[x].free
          BY <3>2, <4>2
        <5>2. f[x].next # Nil => f[x].next \in Blocks(f) /\ f[f[x].next].prev = x
          BY <1>1, <5>1, Neighbours
        <5>3. f[x].next # c
          BY <3>3, <4>2, <5>2, <2>2
        <5>4. JoinedAt(f, x)
          BY <1>2, <3>6, <4>2, <5>1
        <5> QED BY <3>2, <5>1, <5>2, <5>3, <5>4 DEF JoinedAt
      <4> QED BY <4>1, <4>2
    <3>7. Used(k) = Used(f)
      BY <2>2, <3>2 DEF Used
    <3>8. k[b].free /\ b \in Blocks(k)
      BY <1>1, <3>2
    <3> QED BY <3>2, <3>6, <3>7, <3>8 DEF Used
  <2> QED BY <2>1, <2>2
<1> HIDE DEF k
<1>5. /\ WellFormed(g) /\ AllJoined(g)
      /\ Used(g) = Used(k)
      /\ \A x \in Used(g) : g[x].size >= k[x].size
  <2> DEFINE p == k[b].prev
  <2>1. \A x \in Blocks(k) : k[x].next = b => x = p /\ p # Nil
    BY <1>4, Neighbours
  <2>2. CASE ~(p # Nil /\ k[p].free)
    <3>1. g = k
      BY <1>g, <2>2 DEF WithPrev
    <3>2. \A x \in Used(k) : k[x].size >= k[x].size
      BY <1>4, Neighbours DEF Used, Headers
    <3>3. \A x \in Blocks(k) : JoinedAt(k, x)
      BY <1>4, <2>1, <2>2 DEF JoinedAt
    <3> QED BY <1>4, <3>1, <3>2, <3>3 DEF AllJoined
  <2>3. CASE p # Nil /\ k[p].free
    <3>1. g = Absorb(k, p, b)
      BY <1>g, <2>3 DEF WithPrev
    <3>2. p \in Blocks(k) /\ k[p].next = b
      BY <1>4, <2>3 DEF WellFormed, TiledBy
    <3>3. /\ WellFormed(g)
          /\ Blocks(g) = Blocks(k) \ {b}
          /\ \A x \in Blocks(k) \ {b} :
              /\ g[x].free = k[x].free
              /\ g[x].size >= k[x].size
              /\ g[x].next = IF x = p THEN k[b].next ELSE k[x].next
      BY <1>4, <3>1, <3>2, AbsorbWellFormed, Neighbours
    <3>4. ASSUME NEW x \in Blocks(g) PROVE JoinedAt(g, x)
      <4>1. k[b].next # b /\ (k[b].next # Nil => k[b].next \in Blocks(k))
        BY <1>4, Neighbours
      <4>2. CASE x = p
        BY <1>4, <3>3, <4>1, <4>2 DEF JoinedAt
      <4>3. CASE x # p
        <5>1. x \in Blocks(k) /\ k[x].next # b /\ g[x].next = k[x].next /\ g[x].free = k[x].free
          BY <2>1, <3>3, <4>3
        <5>2. k[x].next # Nil => k[x].next \in Blocks(k)
          BY <1>4, <5>1, Neighbours
        <5> QED BY <1>4, <3>3, <5>1, <5>2 DEF JoinedAt
      <4> QED BY <4>2, <4>3
    <3>5. Used(g) = Used(k)
      BY <1>4, <3>3 DEF Used
    <3> QED BY <3>3, <3>4, <3>5 DEF AllJoined, Used
  <2> QED BY <2>2, <2>3
<1>6. \A x \in Used(g) : g[x].size >= h[x].size
  <2> TAKE x \in Used(g)
  <2>1. g[x].size \in Int /\ k[x].size \in Int /\ f[x].size \in Int /\ f[x].size = h[x].size
    BY <1>1, <1>s, <1>4, <1>5, Neighbours DEF Used, Headers
  <2> QED BY <1>4, <1>5, <2>1
<1> QED BY <1>3, <1>4, <1>5, <1>6

-----------------------------------------------------------------------------
Inv == TypeOK /\ Tiled /\ Joined /\ LiveHeld

\* Inv without the history, and the history against it.
LEMMA InvParts ==
  Inv <=> /\ WellFormed(hdr) /\ AllJoined(hdr)
          /\ live \in [DOMAIN live -> Requests]
          /\ DOMAIN live = Used(hdr)
          /\ \A b \in DOMAIN live : live[b] + Header <= hdr[b].size
BY DEF Inv, TypeOK, Tiled, Joined, LiveHeld, WellFormed, AllJoined, Used

\* The heap kmalloc_init sets up satisfies it.
LEMMA InitInv == Init => Inv
<1> SUFFICES ASSUME Init PROVE Inv
  OBVIOUS
<1>1. Blocks(hdr) = {0} /\ DOMAIN live = {}
  BY DEF Init, Blocks
<1>2. hdr[0] = [size |-> HeapSize, free |-> TRUE, next |-> Nil, prev |-> Nil]
  BY DEF Init
<1>3. hdr[0] \in Headers /\ HeapSize > Header
  BY <1>2, HeapAssumption DEF Headers
<1>4. TypeOK
  BY <1>1, <1>3, HeapAssumption DEF TypeOK, TypedBy, Init, Blocks
<1>5. Tiled
  BY <1>1, <1>2, <1>3, HeapAssumption DEF Tiled, TiledBy
<1>6. Joined /\ LiveHeld
  BY <1>1, <1>2 DEF Joined, JoinedAt, LiveHeld
<1> QED BY <1>4, <1>5, <1>6 DEF Inv

\* Every call preserves the invariant.
LEMMA NextInv == Inv /\ [Next]_vars => Inv'
<1> SUFFICES ASSUME Inv, [Next]_vars PROVE Inv'
  OBVIOUS
<1>0. /\ WellFormed(hdr) /\ AllJoined(hdr)
      /\ live \in [DOMAIN live -> Requests]
      /\ DOMAIN live = Used(hdr)
      /\ \A b \in DOMAIN live : live[b] + Header <= hdr[b].size
  BY InvParts
<1>s. \A b \in Blocks(hdr) : hdr[b].size \in Int
  BY <1>0, Neighbours DEF Headers
<1>l. /\ \A b \in DOMAIN live : live[b] \in Nat /\ b \in Blocks(hdr)
      /\ \A n \in Requests : n \in Nat \ {0}
  BY <1>0, HeapAssumption DEF Used
<1>f. \A x : x \in DOMAIN live => live[x] \in Requests
  BY <1>0
<1>q. ASSUME WellFormed(hdr'), AllJoined(hdr'),
             live' \in [DOMAIN live' -> Requests], DOMAIN live' = Used(hdr'),
             \A b \in DOMAIN live' : live'[b] + Header <= hdr'[b].size
      PROVE  Inv'
  BY <1>q DEF Inv, TypeOK, Tiled, Joined, LiveHeld, WellFormed, AllJoined, Used
<1>1. ASSUME NEW n \in Requests, Kmalloc(n) PROVE Inv'
  <2>1. PICK b \in Blocks(hdr) :
          /\ Fits(hdr, b, n)
          /\ hdr' = Allocated(hdr, b, n)
          /\ live' = [c \in DOMAIN live \cup {b} |-> IF c = b THEN n ELSE live[c]]
    BY <1>1 DEF Kmalloc, FindFreeBlock
  <2>2. /\ WellFormed(hdr') /\ AllJoined(hdr')
        /\ Used(hdr') = Used(hdr) \cup {b} /\ b \notin Used(hdr)
        /\ hdr'[b].size >= n + Header
        /\ \A x \in Used(hdr) : hdr'[x].size = hdr[x].size
    BY <1>0, <1>l, <2>1, AllocatedHolds
  <2>3. live' \in [DOMAIN live' -> Requests] /\ DOMAIN live' = Used(hdr')
    BY <1>0, <1>f, <2>1, <2>2
  <2>4. ASSUME NEW x \in DOMAIN live' PROVE live'[x] + Header <= hdr'[x].size
    <3>1. hdr'[x].size \in Int
      BY <2>2, <2>3, Neighbours DEF Used, Headers
    <3>2. CASE x = b
      BY <1>l, <2>1, <2>2, <3>1, <3>2, HeapAssumption
    <3>3. CASE x # b
      <4>1. x \in DOMAIN live /\ live'[x] = live[x]
        BY <2>1, <3>3
      <4> QED BY <1>0, <2>2, <4>1
    <3> QED BY <3>2, <3>3
  <2> QED BY <1>q, <2>2, <2>3, <2>4
<1>2. ASSUME NEW b \in DOMAIN live, Kfree(b) PROVE Inv'
  <2>1. /\ hdr' = Released(hdr, b)
        /\ live' = [c \in DOMAIN live \ {b} |-> live[c]]
    BY <1>2 DEF Kfree
  <2>2. /\ WellFormed(hdr') /\ AllJoined(hdr')
        /\ Used(hdr') = Used(hdr) \ {b}
        /\ \A x \in Used(hdr') : hdr'[x].size >= hdr[x].size
    BY <1>0, <2>1, ReleasedHolds
  <2>3. live' \in [DOMAIN live' -> Requests] /\ DOMAIN live' = Used(hdr')
    BY <1>0, <1>f, <2>1, <2>2
  <2>4. ASSUME NEW x \in DOMAIN live' PROVE live'[x] + Header <= hdr'[x].size
    <3>1. hdr'[x].size \in Int
      BY <2>2, <2>3, Neighbours DEF Used, Headers
    <3>2. x \in DOMAIN live /\ live'[x] = live[x]
      BY <2>1
    <3>3. hdr'[x].size >= hdr[x].size
      BY <2>2, <2>3
    <3> QED BY <1>0, <1>s, <1>l, <3>1, <3>2, <3>3, HeapAssumption
  <2> QED BY <1>q, <2>2, <2>3, <2>4
<1>3. ASSUME NEW b \in DOMAIN live, NEW n \in Requests, KreallocInPlace(b, n) PROVE Inv'
  <2>1. /\ n <= hdr[b].size - Header
        /\ live' = [live EXCEPT ![b] = n]
        /\ hdr' = hdr
    BY <1>3 DEF KreallocInPlace
  <2>2. DOMAIN live' = DOMAIN live /\ live' \in [DOMAIN live' -> Requests]
    BY <1>0, <2>1
  <2>3. ASSUME NEW x \in DOMAIN live' PROVE live'[x] + Header <= hdr'[x].size
    BY <1>0, <1>s, <1>l, <2>1, <2>2, HeapAssumption
  <2> QED BY <1>0, <1>q, <2>1, <2>2, <2>3
<1>4. ASSUME NEW b \in DOMAIN live, NEW n \in Requests, KreallocMoves(b, n) PROVE Inv'
  <2>1. PICK c \in Blocks(hdr) :
          /\ Fits(hdr, c, n)
          /\ hdr' = Released(Allocated(hdr, c, n), b)
          /\ live' = [d \in (DOMAIN live \cup {c}) \ {b} |-> IF d = c THEN n ELSE live[d]]
    BY <1>4 DEF KreallocMoves, FindFreeBlock
  <2> DEFINE m == Allocated(hdr, c, n)
  <2>2. /\ WellFormed(m) /\ AllJoined(m)
        /\ Used(m) = Used(hdr) \cup {c} /\ c \notin Used(hdr)
        /\ m[c].size >= n + Header
        /\ \A x \in Used(hdr) : m[x].size = hdr[x].size
    BY <1>0, <1>l, <2>1, AllocatedHolds
  <2> HIDE DEF m
  <2>3. hdr' = Released(m, b) /\ b \in Used(m) /\ b # c
    BY <1>0, <2>1, <2>2 DEF m
  <2>4. /\ WellFormed(hdr') /\ AllJoined(hdr')
        /\ Used(hdr') = Used(m) \ {b}
        /\ \A x \in Used(hdr') : hdr'[x].size >= m[x].size
    BY <2>2, <2>3, ReleasedHolds
  <2>5. live' \in [DOMAIN live' -> Requests] /\ DOMAIN live' = Used(hdr')
    BY <1>0, <1>f, <2>1, <2>2, <2>4
  <2>6. ASSUME NEW x \in DOMAIN live' PROVE live'[x] + Header <= hdr'[x].size
    <3>1. hdr'[x].size \in Int /\ m[x].size \in Int /\ hdr'[x].size >= m[x].size
      BY <2>2, <2>4, <2>5, Neighbours DEF Used, Headers
    <3>2. CASE x = c
      BY <1>l, <2>1, <2>2, <3>1, <3>2, HeapAssumption
    <3>3. CASE x # c
      <4>1. x \in DOMAIN live /\ live'[x] = live[x] /\ m[x].size = hdr[x].size
        BY <1>0, <2>1, <2>2, <3>3
      <4> QED BY <1>0, <1>l, <3>1, <4>1, HeapAssumption
    <3> QED BY <3>2, <3>3
  <2> QED BY <1>q, <2>4, <2>5, <2>6
<1>5. CASE UNCHANGED vars
  BY <1>5 DEF Inv, TypeOK, Tiled, Joined, LiveHeld, vars
<1> QED BY <1>1, <1>2, <1>3, <1>4, <1>5 DEF Next

\* kmalloc, kfree and krealloc keep the block list well formed: the blocks tile
\* the heap, next and prev agree, whatever the sizes and the order of the calls.
THEOREM HeapTiled == Spec => []Tiled
BY InitInv, NextInv, PTL DEF Spec, Inv

\* kfree leaves no two free blocks side by side.
THEOREM HeapJoined == Spec => []Joined
BY InitInv, NextInv, PTL DEF Spec, Inv

\* Every block handed out and not yet freed is in use and has the room asked
\* for; no other block is in use.
THEOREM HeapLiveHeld == Spec => []LiveHeld
BY InitInv, NextInv, PTL DEF Spec, Inv

\* Offsets, sizes and pointers stay within the heap.
THEOREM HeapTypeCorrect == Spec => []TypeOK
BY InitInv, NextInv, PTL DEF Spec, Inv

-----------------------------------------------------------------------------
(* The inode table: induction over the natural numbers, then what each     *)
(* call does to a table.                                                   *)

\* A set of natural numbers has a least element.
LEMMA NatMin ==
  ASSUME NEW T \in SUBSET Nat, T # {}
  PROVE \E n \in T : \A m \in T : n <= m
<1> DEFINE R == OpToRel(<, Nat)
<1>1. IsWellFoundedOn(R, Nat)
  BY NatLessThanWellFounded
<1>2. \A m, n \in Nat : m < n => <<m, n>> \in R
  BY DEF OpToRel
<1> HIDE DEF R
<1>3. PICK n \in T : \A m \in T : ~ (<<m, n>> \in R)
  BY <1>1, WFMin
<1> SUFFICES ASSUME NEW m \in T PROVE n <= m
  BY <1>3
<1>4. ~ (m < n)
  BY <1>2, <1>3, Zenon
<1> QED BY <1>4

\* A set of natural numbers that holds 0 and the successor of each of its
\* members holds them all.
LEMMA NatSet ==
  ASSUME NEW S \in SUBSET Nat, 0 \in S, \A n \in S : n + 1 \in S
  PROVE S = Nat
<1> SUFFICES ASSUME Nat \ S # {} PROVE FALSE
  OBVIOUS
<1>1. PICK n \in Nat \ S : \A m \in Nat \ S : n <= m
  BY NatMin
<1>2. n - 1 \in Nat /\ n - 1 \in S
  BY <1>1
<1> QED BY <1>1, <1>2

LEMMA LeastIsLeast ==
  ASSUME NEW S \in SUBSET Nat, S # {}
  PROVE Least(S) \in S
BY NatMin DEF Least

Inode == [path : Paths, type : {"file", "dir"}, parent : -1..MaxFiles-1,
          data : BufferIds \cup {Null}]

Typed(t, h) ==
  /\ t.count \in 1..MaxFiles
  /\ t = [count |-> t.count, node |-> t.node]
  /\ t.node \in [Indices(t) -> Inode]
  /\ h \subseteq BufferIds

\* ParentIsParent, with the type of the parent.
Linked(t) ==
  /\ t.node[0].path = <<>> /\ t.node[0].type = "dir"
  /\ \A i, j \in Indices(t) : i # j => t.node[i].path # t.node[j].path
  /\ \A i \in Indices(t) \ {0} :
       LET n == t.node[i]
       IN  /\ n.parent \in Indices(t)
           /\ t.node[n.parent].path = ParentPath(n.path)
           /\ t.node[n.parent].type = "dir"
  /\ t.node[0].parent = NoNode

Held(t, h) ==
  /\ h = {t.node[i].data : i \in Indices(t)} \ {Null}
  /\ \A i, j \in Indices(t) :
       (i # j /\ t.node[i].data # Null) => t.node[i].data # t.node[j].data
  /\ \A i \in Indices(t) : t.node[i].type = "dir" => t.node[i].data = Null

InodeInv == Typed(table, heap) /\ Linked(table) /\ Held(table, heap)

LEMMA PathsAreSeqs ==
  ASSUME NEW p \in Paths
  PROVE /\ p \in Seq(STRING) /\ Len(p) \in Nat
        /\ p # <<>> => Len(p) > 0 /\ ParentPath(p) \in Paths
        /\ Len(p) = 0 => p = <<>>
        /\ p # <<>> => Len(ParentPath(p)) = Len(p) - 1
<1>1. p \in Seq(STRING) /\ Len(p) \in Nat
  BY InodeTableAssumption
<1>2. p # <<>> => Len(p) > 0
  BY <1>1, EmptySeq
<1>3. Len(p) = 0 => p = <<>>
  BY <1>1
<1>4. p # <<>> => Len(ParentPath(p)) = Len(p) - 1
  <2> SUFFICES ASSUME p # <<>> PROVE Len(ParentPath(p)) = Len(p) - 1
    OBVIOUS
  <2>1. \A i \in 1 .. Len(p) - 1 : p[i] \in STRING
    BY <1>1
  <2> DEFINE n == Len(p) - 1
             q == SubSeq(p, 1, n)
  <2>2. n \in Int /\ 1 \in Int /\ n >= 0
    BY <1>1, <1>2
  <2>3. \A i \in 1 .. n : p[i] \in STRING
    BY <2>1
  <2> HIDE DEF n
  <2>4. Len(q) = IF 1 <= n THEN n - 1 + 1 ELSE 0
    BY <2>2, <2>3, SubSeqProperties
  <2> HIDE DEF q
  <2>5. Len(q) = n
    BY <2>2, <2>4
  <2> QED BY <2>5 DEF ParentPath, n, q
<1> QED BY <1>1, <1>2, <1>3, <1>4, InodeTableAssumption DEF ParentPath

LEMMA FindFinds ==
  ASSUME NEW t, t.count \in Nat, NEW p
  PROVE \/ Find(t, p) = NoNode /\ \A i \in Indices(t) : t.node[i].path # p
        \/ Find(t, p) \in Indices(t) /\ t.node[Find(t, p)].path = p
<1> DEFINE S == {i \in Indices(t) : t.node[i].path = p}
<1>1. S \in SUBSET Nat
  BY DEF Indices
<1>2. S # {} => Least(S) \in S
  BY <1>1, LeastIsLeast
<1>3. Find(t, p) = IF S = {} THEN NoNode ELSE Least(S)
  BY DEF Find
<1> QED BY <1>2, <1>3

LEMMA CreatedKeeps ==
  ASSUME NEW t, NEW h, Typed(t, h), Linked(t), Held(t, h),
         NEW p \in Paths, NEW type \in {"dir", "file"},
         CanCreate(t, p), p # <<>>,
         NEW d \in Indices(t), t.node[d].path = ParentPath(p), t.node[d].type = "dir"
  PROVE /\ Typed(Created(t, p, type), h) /\ Linked(Created(t, p, type))
        /\ Held(Created(t, p, type), h)
        /\ Created(t, p, type).count = t.count + 1
        /\ Created(t, p, type).node[t.count].path = p
        /\ Created(t, p, type).node[t.count].type = type
        /\ Created(t, p, type).node[t.count].data = Null
<1> DEFINE c == Created(t, p, type)
           parent == Find(t, ParentPath(p))
           new == [path |-> p, type |-> type, parent |-> parent, data |-> Null]
<1>0. t.count \in Nat /\ t.count > 0 /\ t.count < MaxFiles /\ MaxFiles \in Nat
  BY InodeTableAssumption DEF Typed, CanCreate
<1>1. parent \in Indices(t) /\ t.node[parent].path = ParentPath(p)
  BY <1>0, FindFinds DEF CanCreate
<1>2. parent = d
  <2> HIDE DEF parent
  <2> QED BY <1>1 DEF Linked
<1>3. \A i \in Indices(t) : t.node[i].path # p
  <2>1. Find(t, p) = NoNode
    BY DEF CanCreate, Exists
  <2>2. NoNode \notin Indices(t)
    BY DEF NoNode, Indices
  <2> QED BY <1>0, <2>1, <2>2, FindFinds
<1>4. c = [count |-> t.count + 1, node |-> [i \in 0..t.count |-> IF i = t.count THEN new ELSE t.node[i]]]
  BY DEF Created
<1> HIDE DEF parent, new, c
<1>5. Indices(c) = Indices(t) \cup {t.count} /\ Indices(c) = 0..t.count /\ t.count \notin Indices(t) /\ 0 \in Indices(t)
  BY <1>0, <1>4 DEF Indices
<1>6. new \in Inode
  BY <1>0, <1>1 DEF Inode, Indices, new
<1>7. \A i \in Indices(t) : c.node[i] = t.node[i] /\ t.node[i] \in Inode
  BY <1>4, <1>5 DEF Typed
<1>8. c.node[t.count] = new
  BY <1>4, <1>5
<1>9. c.node \in [Indices(c) -> Inode]
  BY <1>4, <1>5, <1>6, <1>7
<1>10. Typed(c, h)
  BY <1>0, <1>4, <1>9 DEF Typed
<1>11. Linked(c)
  BY <1>0, <1>1, <1>2, <1>3, <1>5, <1>7, <1>8 DEF Linked, new
<1>12. Held(c, h)
  BY <1>5, <1>7, <1>8 DEF Held, new
<1> QED BY <1>4, <1>8, <1>10, <1>11, <1>12 DEF new, c

LEMMA RemovedKeeps ==
  ASSUME NEW t, NEW h, Typed(t, h), Linked(t), Held(t, h),
         NEW idx \in Indices(t) \ {0}, t.node[idx].type = "dir" => Empty(t, idx)
  PROVE LET r == Trimmed(Removed(t, idx))
            g == h \ {t.node[idx].data}
        IN  Typed(r, g) /\ Linked(r) /\ Held(r, g)
<1> DEFINE last == t.count - 1
           r == Trimmed(Removed(t, idx))
           g == h \ {t.node[idx].data}
           \* Where the inode of an index came from.
           from(i) == IF i = idx THEN last ELSE i
           \* Where an index other than idx went.
           to(i) == IF i = last THEN idx ELSE i
<1>0. t.count \in Nat /\ last \in Nat /\ last > 0 /\ idx <= last /\ idx > 0 /\ idx \in Nat /\ t.count <= MaxFiles /\ MaxFiles \in Nat
  BY InodeTableAssumption DEF Typed, Indices
<1>1. Indices(t) = 0..last /\ last \in Indices(t) /\ 0 \in Indices(t)
  BY <1>0 DEF Indices
<1>2. \A i \in Indices(t) : t.node[i].parent # idx
  <2>1. CASE t.node[idx].type = "dir"
    BY <2>1 DEF Empty
  <2>2. CASE t.node[idx].type # "dir"
    BY <2>2, <1>0 DEF Linked, NoNode
  <2> QED BY <2>1, <2>2
<1>3. \A i \in Indices(t) : t.node[i] \in Inode
  BY DEF Typed
<1>4. r.count = last /\ r = [count |-> r.count, node |-> r.node]
  BY DEF Trimmed, Removed
<1>5. Indices(r) = 0..last-1 /\ 0 \in Indices(r)
  BY <1>0, <1>4 DEF Indices
<1>6. ASSUME NEW i \in Indices(r)
      PROVE /\ from(i) \in Indices(t) /\ from(i) # idx
            /\ r.node[i] \in Inode
            /\ r.node[i].path = t.node[from(i)].path
            /\ r.node[i].type = t.node[from(i)].type
            /\ r.node[i].data = t.node[from(i)].data
            /\ r.node[i].parent = to(t.node[from(i)].parent)
  <2>1. r.node[i] = Removed(t, idx).node[i]
    BY <1>4, <1>5 DEF Trimmed, Removed, Indices
  <2>2. i \in Nat /\ i < last /\ i \in Indices(t)
    BY <1>0, <1>1, <1>5
  <2>3. CASE idx = last
    <3>1. Removed(t, idx).node[i] = t.node[i]
      BY <2>3, <1>0 DEF Removed
    <3>2. t.node[i].parent # last
      BY <1>2, <2>2, <2>3
    <3> QED BY <2>1, <2>2, <2>3, <3>1, <3>2, <1>3
  <2>4. CASE idx # last
    <3> DEFINE n == [t.node EXCEPT ![idx] = t.node[last]]
    <3>1. n \in [Indices(t) -> Inode]
      BY <1>1, <1>3 DEF Typed
    <3>2. n[i] = t.node[from(i)] /\ from(i) \in Indices(t) /\ from(i) # idx
      BY <1>1, <2>2, <2>4 DEF Typed
    <3>3. Removed(t, idx).node = Moved(t, idx)
      BY <1>0, <2>4 DEF Removed
    <3>4. Moved(t, idx)[i] = IF i < last /\ n[i].parent = last THEN [n[i] EXCEPT !.parent = idx] ELSE n[i]
      BY <3>1, <2>2 DEF Moved
    <3>5. n[i] \in Inode /\ idx \in -1..MaxFiles-1
      BY <3>1, <2>2, <1>0
    <3>6. CASE n[i].parent = last
      <4>1. r.node[i] = [n[i] EXCEPT !.parent = idx]
        BY <2>1, <3>3, <3>4, <3>6, <2>2
      <4> QED BY <4>1, <3>2, <3>5, <3>6 DEF Inode
    <3>7. CASE n[i].parent # last
      BY <3>7, <2>1, <3>2, <3>3, <3>4, <3>5
    <3> QED BY <3>6, <3>7
  <2> QED BY <2>3, <2>4
<1>7. \A i \in Indices(t) \ {idx} : to(i) \in Indices(r) /\ from(to(i)) = i
  BY <1>0, <1>1, <1>5
<1>8. \A i \in Indices(r) : from(i) = 0 <=> i = 0
  BY <1>0, <1>5
<1>9. \A i, j \in Indices(r) : i # j => from(i) # from(j)
  BY <1>0, <1>5
<1>10. r.node \in [Indices(r) -> Inode]
  <2>1. r.node = [i \in Indices(r) |-> r.node[i]]
    BY <1>4 DEF Trimmed, Removed, Indices
  <2> QED BY <2>1, <1>6
<1> HIDE DEF r, to, from
<1>11. Typed(r, g)
  BY <1>0, <1>4, <1>10 DEF Typed
<1>12. Linked(r)
  <2>1. r.node[0].path = <<>> /\ r.node[0].type = "dir"
    BY <1>5, <1>6, <1>8 DEF Linked
  <2>2. \A i, j \in Indices(r) : i # j => r.node[i].path # r.node[j].path
    BY <1>6, <1>9 DEF Linked
  <2>3. ASSUME NEW i \in Indices(r) \ {0}
        PROVE /\ r.node[i].parent \in Indices(r)
              /\ r.node[r.node[i].parent].path = ParentPath(r.node[i].path)
              /\ r.node[r.node[i].parent].type = "dir"
    <3> DEFINE q == t.node[from(i)].parent
    <3>1. from(i) \in Indices(t) \ {0} /\ r.node[i].parent = to(q) /\ r.node[i].path = t.node[from(i)].path
      BY <1>6, <1>8, <2>3
    <3>2. q \in Indices(t) \ {idx} /\ t.node[q].path = ParentPath(t.node[from(i)].path) /\ t.node[q].type = "dir"
      BY <1>2, <3>1 DEF Linked
    <3>3. to(q) \in Indices(r) /\ from(to(q)) = q
      BY <1>7, <3>2
    <3> HIDE DEF q
    <3> QED BY <1>6, <3>1, <3>2, <3>3
  <2>4. r.node[0].parent = NoNode
    <3>1. r.node[0].parent = to(NoNode)
      BY <1>5, <1>6, <1>8 DEF Linked
    <3> QED BY <3>1, <1>0 DEF to, NoNode
  <2> QED BY <2>1, <2>2, <2>3, <2>4 DEF Linked
<1>13. Held(r, g)
  <2>1. \A i, j \in Indices(r) : (i # j /\ r.node[i].data # Null) => r.node[i].data # r.node[j].data
    BY <1>6, <1>9 DEF Held
  <2>2. \A i \in Indices(r) : r.node[i].type = "dir" => r.node[i].data = Null
    BY <1>6 DEF Held
  <2>3. ASSUME NEW b PROVE b \in g <=> b \in {r.node[i].data : i \in Indices(r)} \ {Null}
    <3>1. ASSUME b \in g PROVE b \in {r.node[i].data : i \in Indices(r)} \ {Null}
      <4>1. PICK i \in Indices(t) : t.node[i].data = b /\ b # Null
        BY <3>1 DEF Held
      <4>2. i # idx
        BY <3>1, <4>1
      <4>3. to(i) \in Indices(r) /\ r.node[to(i)].data = b
        BY <1>6, <1>7, <4>1, <4>2
      <4> QED BY <4>1, <4>3
    <3>2. ASSUME b \in {r.node[i].data : i \in Indices(r)} \ {Null} PROVE b \in g
      <4>1. PICK i \in Indices(r) : r.node[i].data = b /\ b # Null
        BY <3>2
      <4>2. from(i) \in Indices(t) \ {idx} /\ t.node[from(i)].data = b
        BY <1>6, <4>1
      <4> QED BY <4>1, <4>2 DEF Held
    <3> QED BY <3>1, <3>2
  <2> QED BY <2>1, <2>2, <2>3 DEF Held
<1> QED BY <1>11, <1>12, <1>13 DEF r

LEMMA DataKeeps ==
  ASSUME NEW t, NEW h, Typed(t, h), Linked(t), Held(t, h),
         NEW i \in Indices(t), t.node[i].type = "file",
         NEW b \in BufferIds \cup {Null}, b \notin h \ {t.node[i].data}
  PROVE LET r == [t EXCEPT !.node[i].data = b]
            g == (h \ {t.node[i].data}) \cup ({b} \ {Null})
        IN  Typed(r, g) /\ Linked(r) /\ Held(r, g)
<1> DEFINE n == [t.node EXCEPT ![i].data = b]
           r == [count |-> t.count, node |-> n]
           g == (h \ {t.node[i].data}) \cup ({b} \ {Null})
<1>1. [t EXCEPT !.node[i].data = b] = r
  <2>1. t = [count |-> t.count, node |-> t.node]
    BY DEF Typed
  <2> QED BY <2>1
<1>2. t.node \in [Indices(t) -> Inode] /\ Indices(r) = Indices(t)
  BY DEF Typed, Indices
<1>3. \A j \in Indices(t) : /\ r.node[j].path = t.node[j].path
                            /\ r.node[j].type = t.node[j].type
                            /\ r.node[j].parent = t.node[j].parent
                            /\ r.node[j].data = IF j = i THEN b ELSE t.node[j].data
                            /\ r.node[j] \in Inode
  BY <1>2 DEF Inode
<1>4. r.node \in [Indices(r) -> Inode]
  BY <1>2, <1>3
<1>5. Typed(r, g)
  BY <1>4 DEF Typed
<1>6. 0 \in Indices(t)
  BY DEF Typed, Indices
<1> HIDE DEF r
<1>7. Linked(r)
  BY <1>2, <1>3, <1>6 DEF Linked
<1>8. Held(r, g)
  <2>1. \A j, k \in Indices(r) : (j # k /\ r.node[j].data # Null) => r.node[j].data # r.node[k].data
    BY <1>2, <1>3 DEF Held
  <2>2. \A j \in Indices(r) : r.node[j].type = "dir" => r.node[j].data = Null
    BY <1>2, <1>3 DEF Held
  <2>3. ASSUME NEW c PROVE c \in g <=> c \in {r.node[j].data : j \in Indices(r)} \ {Null}
    <3>1. ASSUME c \in g PROVE c \in {r.node[j].data : j \in Indices(r)} \ {Null}
      <4>1. CASE c = b /\ b # Null
        BY <4>1, <1>2, <1>3
      <4>2. CASE c \in h /\ c # t.node[i].data
        <5>1. PICK j \in Indices(t) : t.node[j].data = c /\ c # Null
          BY <4>2 DEF Held
        <5> QED BY <4>2, <5>1, <1>2, <1>3
      <4> QED BY <3>1, <4>1, <4>2
    <3>2. ASSUME c \in {r.node[j].data : j \in Indices(r)} \ {Null} PROVE c \in g
      <4>1. PICK j \in Indices(r) : r.node[j].data = c /\ c # Null
        BY <3>2
      <4> QED BY <4>1, <1>2, <1>3 DEF Held
    <3> QED BY <3>1, <3>2
  <2> QED BY <2>1, <2>2, <2>3 DEF Held
<1> QED BY <1>1, <1>5, <1>7, <1>8

LEMMA Prefix ==
  ASSUME NEW S, NEW p \in Seq(S), NEW n \in 0..Len(p)
  PROVE /\ SubSeq(p, 1, n) \in Seq(S) /\ Len(SubSeq(p, 1, n)) = n
        /\ \A i \in 1..n : SubSeq(p, 1, n)[i] = p[i]
<1>1. n \in Int /\ 1 \in Int /\ n >= 0
  OBVIOUS
<1>2. \A i \in 1..n : p[i] \in S
  OBVIOUS
<1>3. /\ SubSeq(p, 1, n) \in Seq(S)
      /\ Len(SubSeq(p, 1, n)) = IF 1 <= n THEN n - 1 + 1 ELSE 0
      /\ \A i \in 1 .. n - 1 + 1 : SubSeq(p, 1, n)[i] = p[1 + i - 1]
  BY <1>1, <1>2, SubSeqProperties
<1> DEFINE q == SubSeq(p, 1, n)
<1> HIDE DEF q
<1>4. q \in Seq(S) /\ Len(q) = n /\ \A i \in 1..n : q[i] = p[i]
  BY <1>1, <1>3 DEF q
<1> QED BY <1>4 DEF q

LEMMA PrefixOfPrefix ==
  ASSUME NEW S, NEW p \in Seq(S), NEW n \in 0..Len(p), NEW m \in 0..n
  PROVE SubSeq(SubSeq(p, 1, n), 1, m) = SubSeq(p, 1, m)
<1> DEFINE q == SubSeq(p, 1, n)
           u == SubSeq(q, 1, m)
           v == SubSeq(p, 1, m)
<1>1. q \in Seq(S) /\ Len(q) = n /\ \A i \in 1..n : q[i] = p[i]
  BY Prefix
<1>2. m \in 0..Len(p)
  OBVIOUS
<1>3. v \in Seq(S) /\ Len(v) = m /\ \A i \in 1..m : v[i] = p[i]
  BY <1>2, Prefix
<1> HIDE DEF q
<1>4. m \in 0..Len(q)
  BY <1>1
<1>5. u \in Seq(S) /\ Len(u) = m /\ \A i \in 1..m : u[i] = q[i]
  BY <1>1, <1>4, Prefix
<1> HIDE DEF u, v
<1>6. \A i \in 1..m : u[i] = v[i]
  BY <1>1, <1>3, <1>5
<1>7. u = v
  BY <1>3, <1>5, <1>6, SeqEqual
<1> QED BY <1>7 DEF u, v, q

\* The directories above an inode are in the table.
LEMMA AncestorsExist ==
  ASSUME NEW t, NEW h, Typed(t, h), Linked(t), NEW i \in Indices(t),
         NEW m \in 0..Len(t.node[i].path)
  PROVE \E j \in Indices(t) : t.node[j].path = SubSeq(t.node[i].path, 1, m)
<1> DEFINE p == t.node[i].path
           S == {k \in Nat : k <= Len(p) =>
                   \E j \in Indices(t) : t.node[j].path = SubSeq(p, 1, Len(p) - k)}
<1>1. p \in Paths /\ p \in Seq(STRING) /\ Len(p) \in Nat
  <2>1. p \in Paths
    BY DEF Typed, Inode
  <2> QED BY <2>1, PathsAreSeqs
<1>2. 0 \in S
  <2>1. SubSeq(p, 1, Len(p)) = p
    BY <1>1, SubSeqFull
  <2>2. Len(p) - 0 = Len(p)
    BY <1>1
  <2> QED BY <2>1, <2>2
<1>3. ASSUME NEW k \in S PROVE k + 1 \in S
  <2> SUFFICES ASSUME k + 1 <= Len(p)
               PROVE \E j \in Indices(t) : t.node[j].path = SubSeq(p, 1, Len(p) - (k + 1))
    OBVIOUS
  <2> DEFINE n == Len(p) - k
  <2>1. k \in Nat /\ n \in 0..Len(p) /\ n >= 1 /\ n - 1 \in 0..n /\ Len(p) - (k + 1) = n - 1 /\ k <= Len(p)
    BY <1>1
  <2>2. PICK j \in Indices(t) : t.node[j].path = SubSeq(p, 1, n)
    BY <2>1
  <2> HIDE DEF p, n
  <2>3. Len(t.node[j].path) = n
    BY <1>1, <2>1, <2>2, Prefix
  <2>4. j # 0
    <3>1. Len(<<>>) = 0
      BY EmptySeq
    <3> QED BY <2>1, <2>3, <3>1 DEF Linked
  <2>5. t.node[j].parent \in Indices(t) /\ t.node[t.node[j].parent].path = ParentPath(t.node[j].path)
    BY <2>4 DEF Linked
  <2>6. ParentPath(t.node[j].path) = SubSeq(SubSeq(p, 1, n), 1, n - 1)
    BY <2>2, <2>3 DEF ParentPath
  <2>7. SubSeq(SubSeq(p, 1, n), 1, n - 1) = SubSeq(p, 1, n - 1)
    BY <1>1, <2>1, PrefixOfPrefix
  <2> QED BY <2>1, <2>5, <2>6, <2>7
<1>4. S = Nat
  <2> HIDE DEF S
  <2>1. S \in SUBSET Nat
    BY DEF S
  <2> QED BY <1>2, <1>3, <2>1, NatSet
<1>5. Len(p) - m \in Nat /\ Len(p) - (Len(p) - m) = m /\ Len(p) - m <= Len(p)
  BY <1>1
<1>6. Len(p) - m \in S
  BY <1>4, <1>5
<1> QED BY <1>5, <1>6

\* The path that an inode below a renamed directory gets.
Moves(p, old, new) == new \o SubSeq(p, Len(old) + 1, Len(p))

Displaced(u, p, old, new) ==
  /\ u \in Seq(STRING) /\ Len(u) = Len(new) + Len(p) - Len(old) /\ Len(p) >= Len(old)
  /\ \A i \in 1..Len(new) : u[i] = new[i]
  /\ \A i \in Len(new) + 1 .. Len(u) : u[i] = p[i - Len(new) + Len(old)]
  /\ \A i \in 1..Len(old) : p[i] = old[i]
  /\ SubSeq(u, 1, Len(new)) = new

LEMMA MovesApart ==
  ASSUME NEW old \in Seq(STRING), NEW new \in Seq(STRING), NEW p \in Seq(STRING),
         Inside(p, old)
  PROVE Displaced(Moves(p, old, new), p, old, new)
<1> DEFINE w == SubSeq(p, Len(old) + 1, Len(p))
           q == Moves(p, old, new)
           a == Len(old)
           b == Len(new)
           n == Len(p)
<1>1. a \in Nat /\ b \in Nat /\ n \in Nat /\ n >= a /\ SubSeq(p, 1, a) = old
  BY DEF Inside
<1>2. \A i \in a + 1 .. n : p[i] \in STRING
  BY <1>1
<1>3. a + 1 \in Int /\ n \in Int /\ a \in 0..n /\ n - (a + 1) + 1 = n - a
  BY <1>1
<1>4. SubSeq(p, 1, a) \in Seq(STRING) /\ \A i \in 1..a : SubSeq(p, 1, a)[i] = p[i]
  BY <1>3, Prefix
<1>5. /\ w \in Seq(STRING) /\ Len(w) = IF a + 1 <= n THEN n - (a + 1) + 1 ELSE 0
      /\ \A i \in 1 .. n - (a + 1) + 1 : w[i] = p[a + 1 + i - 1]
  <2> HIDE DEF a, n
  <2> QED BY <1>2, <1>3, SubSeqProperties DEF a, n
<1> HIDE DEF w
<1>6. Len(w) = n - a /\ \A i \in 1 .. n - a : w[i] = p[a + i]
  <2> HIDE DEF a, n
  <2> QED BY <1>1, <1>5
<1>7. /\ q \in Seq(STRING) /\ Len(q) = b + Len(w)
      /\ \A i \in 1 .. b + Len(w) : q[i] = IF i <= b THEN new[i] ELSE w[i - b]
  BY <1>5, ConcatProperties DEF Moves, w
<1> HIDE DEF q
<1>8. \A i \in 1..b : q[i] = new[i]
  BY <1>1, <1>6, <1>7
<1>9. \A i \in b + 1 .. Len(q) : q[i] = p[i - b + a]
  <2> SUFFICES ASSUME NEW i \in b + 1 .. Len(q) PROVE q[i] = p[i - b + a]
    OBVIOUS
  <2>1. i \in 1 .. b + Len(w) /\ ~(i <= b) /\ i - b \in 1 .. n - a /\ a + (i - b) = i - b + a
    BY <1>1, <1>6, <1>7
  <2> QED BY <2>1, <1>6, <1>7
<1>10. SubSeq(q, 1, b) = new
  <2>1. b \in 0..Len(q)
    BY <1>1, <1>6, <1>7
  <2>2. SubSeq(q, 1, b) \in Seq(STRING) /\ Len(SubSeq(q, 1, b)) = b /\ \A i \in 1..b : SubSeq(q, 1, b)[i] = q[i]
    BY <1>7, <2>1, Prefix
  <2> QED BY <1>8, <2>2, SeqEqual
<1>11. \A i \in 1..a : p[i] = old[i]
  BY <1>1, <1>4
<1>12. Len(q) = b + n - a
  BY <1>1, <1>6, <1>7
<1>13. Displaced(q, p, old, new)
  BY <1>1, <1>7, <1>8, <1>9, <1>10, <1>11, <1>12 DEF Displaced
<1> QED BY <1>13 DEF q

LEMMA MovesInjective ==
  ASSUME NEW old \in Seq(STRING), NEW new \in Seq(STRING),
         NEW p \in Seq(STRING), Inside(p, old), NEW q \in Seq(STRING), Inside(q, old),
         Moves(p, old, new) = Moves(q, old, new)
  PROVE p = q
<1> DEFINE u == Moves(p, old, new)
<1>1. Len(p) \in Nat /\ Len(q) \in Nat /\ Len(old) \in Nat /\ Len(new) \in Nat
  OBVIOUS
<1>2. Displaced(u, p, old, new) /\ Displaced(u, q, old, new)
  BY MovesApart
<1> HIDE DEF u
<1>4. Len(p) = Len(q)
  BY <1>1, <1>2 DEF Displaced
<1>5. ASSUME NEW i \in 1..Len(p) PROVE p[i] = q[i]
  <2>1. CASE i <= Len(old)
    BY <1>1, <1>2, <2>1 DEF Displaced
  <2>2. CASE i > Len(old)
    <3> DEFINE k == i - Len(old) + Len(new)
    <3>1. k \in Len(new) + 1 .. Len(u) /\ k - Len(new) + Len(old) = i
      BY <1>1, <1>2, <2>2 DEF Displaced
    <3> HIDE DEF k
    <3>2. u[k] = p[k - Len(new) + Len(old)] /\ u[k] = q[k - Len(new) + Len(old)]
      BY <1>2, <3>1 DEF Displaced
    <3> QED BY <3>1, <3>2
  <2> QED BY <1>1, <2>1, <2>2
<1> QED BY <1>4, <1>5, SeqEqual

\* What is inside a directory, seen from the parent.
LEMMA InsideParent ==
  ASSUME NEW p \in Seq(STRING), Len(p) > 0, NEW old \in Seq(STRING)
  PROVE /\ Inside(ParentPath(p), old) => Inside(p, old)
        /\ Inside(p, old) /\ p # old => Inside(ParentPath(p), old) /\ Len(p) > Len(old)
        /\ ParentPath(p) \in Seq(STRING) /\ Len(ParentPath(p)) = Len(p) - 1
        /\ \A i \in 1..Len(p)-1 : ParentPath(p)[i] = p[i]
<1> DEFINE n == Len(p) - 1
           q == SubSeq(p, 1, n)
           a == Len(old)
<1>1. n \in 0..Len(p) /\ a \in Nat /\ n + 1 = Len(p) /\ Len(p) \in Nat
  OBVIOUS
<1> HIDE DEF n
<1>2. q \in Seq(STRING) /\ Len(q) = n /\ \A i \in 1..n : q[i] = p[i]
  BY <1>1, Prefix
<1>3. ParentPath(p) = q
  BY DEF ParentPath, n
<1>4. ASSUME a <= n PROVE SubSeq(q, 1, a) = SubSeq(p, 1, a)
  <2>1. a \in 0..n
    BY <1>1, <1>4
  <2> QED BY <1>1, <2>1, PrefixOfPrefix
<1> HIDE DEF q
<1>5. ASSUME Inside(q, old) PROVE Inside(p, old)
  BY <1>1, <1>2, <1>4, <1>5 DEF Inside
<1>6. ASSUME Inside(p, old), p # old PROVE Inside(q, old) /\ Len(p) > a
  <2>1. SubSeq(p, 1, Len(p)) = p
    BY SubSeqFull
  <2>2. a # Len(p)
    BY <1>6, <2>1 DEF Inside
  <2>3. a <= n
    <3>1. Len(p) >= a
      BY <1>6 DEF Inside
    <3> QED BY <1>1, <2>2, <3>1
  <2> QED BY <1>1, <1>2, <1>4, <1>6, <2>3 DEF Inside
<1> QED BY <1>1, <1>2, <1>3, <1>5, <1>6 DEF n

LEMMA MovesParent ==
  ASSUME NEW old \in Seq(STRING), NEW new \in Seq(STRING), NEW p \in Seq(STRING),
         Inside(p, old), p # old, Len(p) > 0
  PROVE ParentPath(Moves(p, old, new)) = Moves(ParentPath(p), old, new)
<1> DEFINE q == ParentPath(p)
           u == Moves(p, old, new)
           v == Moves(q, old, new)
           w == ParentPath(u)
<1>1. /\ Inside(q, old) /\ Len(p) > Len(old) /\ q \in Seq(STRING) /\ Len(q) = Len(p) - 1
      /\ \A i \in 1..Len(p)-1 : q[i] = p[i]
  BY InsideParent
<1>2. Len(p) \in Nat /\ Len(old) \in Nat /\ Len(new) \in Nat
  OBVIOUS
<1> HIDE DEF q
<1>3. Displaced(u, p, old, new)
  BY MovesApart
<1>4. Displaced(v, q, old, new)
  BY <1>1, MovesApart
<1> HIDE DEF u, v
<1>5. u \in Seq(STRING) /\ Len(u) > 0
  BY <1>1, <1>2, <1>3 DEF Displaced
<1>6. w \in Seq(STRING) /\ Len(w) = Len(u) - 1 /\ \A i \in 1..Len(u)-1 : w[i] = u[i]
  BY <1>5, InsideParent
<1> HIDE DEF w
<1>7. Len(w) = Len(v)
  BY <1>1, <1>2, <1>3, <1>4, <1>6 DEF Displaced
<1>8. \A i \in 1..Len(w) : w[i] = v[i]
  <2> SUFFICES ASSUME NEW i \in 1..Len(w) PROVE w[i] = v[i]
    OBVIOUS
  <2>1. w[i] = u[i]
    BY <1>6, <1>5
  <2>2. CASE i <= Len(new)
    BY <1>2, <1>3, <1>4, <2>1, <2>2 DEF Displaced
  <2>3. CASE i > Len(new)
    <3> DEFINE k == i - Len(new) + Len(old)
    <3>1. i \in Len(new) + 1 .. Len(u) /\ i \in Len(new) + 1 .. Len(v) /\ k \in 1..Len(p)-1
      BY <1>1, <1>2, <1>3, <1>5, <1>6, <1>7, <2>3 DEF Displaced
    <3>2. u[i] = p[k] /\ v[i] = q[k]
      BY <1>3, <1>4, <3>1 DEF Displaced
    <3> QED BY <1>1, <2>1, <3>1, <3>2
  <2> QED BY <1>2, <2>2, <2>3
<1>9. w = v
  <2>1. v \in Seq(STRING)
    BY <1>4 DEF Displaced
  <2> QED BY <1>6, <1>7, <1>8, <2>1, SeqEqual
<1> QED BY <1>9 DEF q, u, v, w

LEMMA MovesItself ==
  ASSUME NEW old \in Seq(STRING), NEW new \in Seq(STRING)
  PROVE Inside(old, old) /\ Moves(old, old, new) = new
<1>1. SubSeq(old, 1, Len(old)) = old
  BY SubSeqFull
<1>2. SubSeq(old, Len(old) + 1, Len(old)) = <<>>
  BY SubSeqEmpty
<1>3. new \o <<>> = new
  BY ConcatEmptySeq
<1> QED BY <1>1, <1>2, <1>3 DEF Inside, Moves

LEMMA InodeStarts == InodeInit => InodeInv
<1> SUFFICES ASSUME InodeInit PROVE InodeInv
  OBVIOUS
<1> DEFINE new == [path |-> <<>>, type |-> "dir", parent |-> NoNode, data |-> Null]
<1>0. MaxFiles \in Nat /\ MaxFiles > 0
  BY InodeTableAssumption
<1>1. table = [count |-> 1, node |-> [i \in 0..0 |-> new]]
  BY DEF InodeInit, Created
<1>2. Indices(table) = {0}
  BY <1>1 DEF Indices
<1>3. new \in Inode
  BY <1>0, InodeTableAssumption DEF Inode, NoNode, Null
<1>4. table.node \in [Indices(table) -> Inode] /\ table.node[0] = new
  BY <1>1, <1>2, <1>3
<1>5. Typed(table, heap)
  BY <1>0, <1>1, <1>4 DEF Typed, InodeInit
<1>6. Linked(table)
  BY <1>2, <1>4 DEF Linked
<1>7. Held(table, heap)
  BY <1>2, <1>4 DEF Held, InodeInit
<1> QED BY <1>5, <1>6, <1>7 DEF InodeInv

LEMMA CreateStep ==
  ASSUME InodeInv, NEW p \in InDirectory, NEW type \in {"dir", "file"}, Create(p, type)
  PROVE InodeInv'
<1>1. PICK d \in Indices(table) : table.node[d].path = ParentPath(p) /\ table.node[d].type = "dir"
  BY DEF InDirectory
<1>2. p \in Paths /\ p # <<>>
  BY DEF InDirectory
<1>3. CanCreate(table, p) /\ table' = Created(table, p, type) /\ heap' = heap
  BY DEF Create
<1>4. Typed(table', heap') /\ Linked(table') /\ Held(table', heap')
  BY <1>1, <1>2, <1>3, CreatedKeeps DEF InodeInv
<1> QED BY <1>4 DEF InodeInv, Typed, Linked, Held, Indices

LEMMA WriteStep ==
  ASSUME InodeInv, NEW p \in InDirectory, NEW trunc \in BOOLEAN, WriteFile(p, trunc)
  PROVE InodeInv'
<1> DEFINE t == Open(p)
           i == Find(t, p)
           old == t.node[i].data
           kept == IF trunc THEN Null ELSE old
           released == heap \ (IF trunc THEN {old} ELSE {})
<1>1. PICK d \in Indices(table) : table.node[d].path = ParentPath(p) /\ table.node[d].type = "dir"
  BY DEF InDirectory
<1>2. p \in Paths /\ p # <<>>
  BY DEF InDirectory
<1>3. Typed(t, heap) /\ Linked(t) /\ Held(t, heap)
  <2>1. CASE CanCreate(table, p)
    BY <1>1, <1>2, <2>1, CreatedKeeps DEF InodeInv, Open, Ensured
  <2>2. CASE ~CanCreate(table, p)
    BY <2>2 DEF InodeInv, Open, Ensured
  <2> QED BY <2>1, <2>2
<1>4. /\ i # NoNode /\ t.node[i].type = "file"
      /\ \/ kept # Null /\ table' = t /\ heap' = released
         \/ /\ released # BufferIds
            /\ table' = [t EXCEPT !.node[i].data = LowestFree(released)]
            /\ heap' = (released \ {kept}) \cup {LowestFree(released)}
         \/ table' = [t EXCEPT !.node[i].data = kept] /\ heap' = released
  BY DEF WriteFile
<1> HIDE DEF t
<1>5. t.count \in Nat
  BY <1>3, InodeTableAssumption DEF Typed
<1>6. i \in Indices(t)
  BY <1>4, <1>5, FindFinds
<1> HIDE DEF i
<1>7. old \in BufferIds \cup {Null} /\ (old # Null => old \in heap) /\ Null \notin heap /\ heap \subseteq BufferIds
  BY <1>3, <1>6 DEF Typed, Inode, Held
<1>8. CASE kept # Null /\ table' = t /\ heap' = released
  <2>1. heap' = heap
    BY <1>8
  <2>2. Typed(table', heap') /\ Linked(table') /\ Held(table', heap')
    BY <1>3, <1>8, <2>1
  <2> QED BY <2>2 DEF InodeInv, Typed, Linked, Held, Indices
<1>9. CASE /\ released # BufferIds
           /\ table' = [t EXCEPT !.node[i].data = LowestFree(released)]
           /\ heap' = (released \ {kept}) \cup {LowestFree(released)}
  <2> DEFINE b == LowestFree(released)
  <2>1. released \subseteq BufferIds /\ BufferIds \ released \in SUBSET Nat /\ BufferIds \ released # {}
    BY <1>7, <1>9, InodeTableAssumption
  <2>2. b \in BufferIds \ released
    BY <2>1, LeastIsLeast DEF LowestFree
  <2>3. b # Null
    BY <2>2, InodeTableAssumption DEF Null
  <2>4. heap' = (heap \ {old}) \cup ({b} \ {Null}) /\ b \notin heap \ {old}
    BY <1>7, <1>9, <2>2, <2>3
  <2> HIDE DEF b
  <2>5. table' = [t EXCEPT !.node[i].data = b]
    BY <1>9 DEF b
  <2>6. Typed(table', heap') /\ Linked(table') /\ Held(table', heap')
    BY <1>3, <1>4, <1>6, <2>2, <2>4, <2>5, DataKeeps
  <2> QED BY <2>6 DEF InodeInv, Typed, Linked, Held, Indices
<1>10. CASE table' = [t EXCEPT !.node[i].data = kept] /\ heap' = released
  <2>1. kept \in BufferIds \cup {Null} /\ kept \notin heap \ {old}
    BY <1>7
  <2>2. heap' = (heap \ {old}) \cup ({kept} \ {Null})
    BY <1>7, <1>10
  <2>3. t.node[i].type = "file"
    BY <1>4
  <2> HIDE DEF kept
  <2>4. table' = [t EXCEPT !.node[i].data = kept]
    BY <1>10 DEF kept
  <2>5. Typed(table', heap') /\ Linked(table') /\ Held(table', heap')
    BY <1>3, <1>6, <2>1, <2>2, <2>3, <2>4, DataKeeps
  <2> QED BY <2>5 DEF InodeInv, Typed, Linked, Held, Indices
<1> QED BY <1>4, <1>8, <1>9, <1>10

LEMMA DeleteStep ==
  ASSUME InodeInv, NEW p \in Paths, Delete(p)
  PROVE InodeInv'
<1> DEFINE idx == Find(table, p)
<1>1. /\ idx > 0 /\ (table.node[idx].type = "dir" => Empty(table, idx))
      /\ heap' = heap \ {table.node[idx].data}
      /\ table' = Trimmed(Removed(table, idx))
  BY DEF Delete, Freed
<1>2. table.count \in Nat
  BY InodeTableAssumption DEF InodeInv, Typed
<1>3. idx \in Indices(table) \ {0}
  BY <1>1, <1>2, FindFinds DEF NoNode
<1> HIDE DEF idx
<1>4. Typed(table', heap') /\ Linked(table') /\ Held(table', heap')
  BY <1>1, <1>3, RemovedKeeps DEF InodeInv
<1> QED BY <1>4 DEF InodeInv, Typed, Linked, Held, Indices

LEMMA RenameStep ==
  ASSUME InodeInv, NEW old \in Paths, NEW new \in Paths, Rename(old, new)
  PROVE InodeInv'
<1> DEFINE t == table
           idx == Find(table, old)
           parent == Find(table, ParentPath(new))
           isDir == table.node[idx].type = "dir"
           below(i) == isDir /\ Inside(t.node[i].path, old)
           to(i) == IF i = idx THEN new
                    ELSE IF below(i) THEN Moves(t.node[i].path, old, new)
                    ELSE t.node[i].path
<1>1. /\ idx > 0 /\ new # <<>> /\ ~Exists(table, new) /\ parent # NoNode
      /\ table.node[parent].type = "dir"
      /\ isDir => ~Inside(new, old)
      /\ \A i \in Indices(table) :
           (IF isDir /\ Inside(table.node[i].path, old)
            THEN new \o SubSeq(table.node[i].path, Len(old) + 1, Len(table.node[i].path))
            ELSE table.node[i].path) \in Paths
      /\ table' = [table EXCEPT !.node =
           [i \in Indices(table) |->
              IF i = idx THEN [table.node[i] EXCEPT !.path = new, !.parent = parent]
              ELSE [table.node[i] EXCEPT !.path =
                      IF isDir /\ Inside(@, old)
                      THEN new \o SubSeq(@, Len(old) + 1, Len(@)) ELSE @]]]
      /\ heap' = heap
  BY DEF Rename
<1>2. t.count \in Nat /\ t.count <= MaxFiles /\ 0 \in Indices(t)
  BY InodeTableAssumption DEF InodeInv, Typed, Indices
<1>3. idx \in Indices(t) \ {0} /\ t.node[idx].path = old
  <2>1. idx > 0
    BY DEF Rename
  <2> HIDE DEF idx
  <2>2. idx = NoNode \/ (idx \in Indices(t) /\ t.node[idx].path = old)
    BY <1>2, FindFinds DEF idx
  <2> QED BY <2>1, <2>2 DEF NoNode, Indices
<1>4. parent \in Indices(t) /\ t.node[parent].path = ParentPath(new)
  BY <1>1, <1>2, FindFinds
<1>5. \A i \in Indices(t) : t.node[i].path # new
  <2>1. Find(t, new) = NoNode
    BY <1>1 DEF Exists
  <2>2. NoNode \notin Indices(t)
    BY DEF NoNode, Indices
  <2> QED BY <1>2, <2>1, <2>2, FindFinds
<1> HIDE DEF idx, parent
<1>6. \A i \in Indices(t) : t.node[i] \in Inode /\ t.node[i].path \in Paths
  BY DEF InodeInv, Typed, Inode
<1>7. \A i \in Indices(t) : to(i) \in Paths
  BY <1>1 DEF Moves
<1>8. ASSUME NEW i \in Indices(t)
      PROVE /\ table'.node[i] \in Inode
            /\ table'.node[i].path = to(i)
            /\ table'.node[i].type = t.node[i].type
            /\ table'.node[i].data = t.node[i].data
            /\ table'.node[i].parent = IF i = idx THEN parent ELSE t.node[i].parent
  <2> DEFINE q == IF below(i) THEN Moves(t.node[i].path, old, new) ELSE t.node[i].path
  <2>1. table = [count |-> table.count, node |-> table.node]
    BY DEF InodeInv, Typed
  <2>2. table'.node[i] = IF i = idx THEN [t.node[i] EXCEPT !.path = new, !.parent = parent]
                         ELSE [t.node[i] EXCEPT !.path = q]
    BY <1>1, <2>1 DEF Moves
  <2>3. parent \in -1 .. MaxFiles - 1
    BY <1>2, <1>4, InodeTableAssumption DEF Indices
  <2>4. t.node[i] = [path |-> t.node[i].path, type |-> t.node[i].type,
                     parent |-> t.node[i].parent, data |-> t.node[i].data]
    BY <1>6 DEF Inode
  <2>5. t.node[i] \in Inode /\ to(i) \in Paths /\ (i # idx => q = to(i))
    BY <1>6, <1>7
  <2> HIDE DEF q, below, to
  <2>6. CASE i = idx
    <3>1. table'.node[i] = [t.node[i] EXCEPT !.path = new, !.parent = parent]
      BY <2>2, <2>6
    <3>2. to(i) = new
      BY <2>6 DEF to
    <3> HIDE DEF t
    <3> QED BY <2>3, <2>5, <2>6, <3>1, <3>2 DEF Inode
  <2>7. CASE i # idx
    <3>1. table'.node[i] = [t.node[i] EXCEPT !.path = q]
      BY <2>2, <2>7
    <3> HIDE DEF t
    <3> QED BY <2>5, <2>7, <3>1 DEF Inode
  <2> QED BY <2>6, <2>7
<1>9. table'.count = t.count /\ Indices(table') = Indices(t)
      /\ table'.node = [i \in Indices(t) |-> table'.node[i]]
      /\ table' = [count |-> table'.count, node |-> table'.node]
  <2>1. table = [count |-> table.count, node |-> table.node]
    BY DEF InodeInv, Typed
  <2>2. DOMAIN table'.node = Indices(t)
    BY <1>1, <2>1
  <2> QED BY <1>1, <2>1, <2>2 DEF Indices
<1>10. Typed(table', heap')
  <2>1. table'.node \in [Indices(table') -> Inode]
    BY <1>8, <1>9
  <2> QED BY <1>1, <1>9, <2>1 DEF Typed, InodeInv
<1>11. Held(table', heap')
  <2>1. {table'.node[i].data : i \in Indices(table')} = {t.node[i].data : i \in Indices(t)}
    BY <1>8, <1>9
  <2>2. Held(table, heap) /\ heap' = heap
    BY <1>1 DEF InodeInv
  <2> HIDE DEF t
  <2>3. Held(t, heap)
    BY <2>2 DEF t
  <2> QED BY <1>8, <1>9, <2>1, <2>2, <2>3 DEF Held
<1>12. old \in Seq(STRING) /\ new \in Seq(STRING) /\ Len(new) > 0 /\ Len(old) > 0 /\ old # <<>>
  <2>1. old # <<>>
    BY <1>2, <1>3 DEF InodeInv, Linked
  <2> QED BY <1>1, <2>1, PathsAreSeqs
<1>13. \A i \in Indices(t) : t.node[i].path \in Seq(STRING)
  BY <1>6, PathsAreSeqs
<1>14. \A i \in Indices(t) \ {0} :
         /\ t.node[i].parent \in Indices(t) /\ t.node[i].path # <<>> /\ Len(t.node[i].path) > 0
         /\ t.node[t.node[i].parent].path = ParentPath(t.node[i].path)
         /\ t.node[t.node[i].parent].type = "dir"
  <2> QED BY <1>2, <1>6, PathsAreSeqs DEF InodeInv, Linked
<1>15. \A i, j \in Indices(t) : i # j => t.node[i].path # t.node[j].path
  BY DEF InodeInv, Linked
<1>16. isDir => to(idx) = Moves(old, old, new) /\ below(idx)
  BY <1>3, <1>12, MovesItself
<1>17. \A i \in Indices(t) : below(i) => to(i) = Moves(t.node[i].path, old, new)
  BY <1>3, <1>15, <1>16
<1>18. ASSUME NEW i \in Indices(t), NEW j \in Indices(t), i # j
       PROVE to(i) # to(j)
  <2>1. ASSUME NEW a \in Indices(t), NEW b \in Indices(t), a # b,
               isDir, below(a), ~below(b), to(a) = to(b) PROVE FALSE
    <3> DEFINE q == Moves(t.node[a].path, old, new)
    <3>1. b # idx /\ t.node[b].path = q
      BY <1>16, <1>17, <2>1
    <3>2. Displaced(q, t.node[a].path, old, new)
      BY <1>12, <1>13, <2>1, MovesApart
    <3>3. SubSeq(t.node[b].path, 1, Len(new)) = new /\ Len(new) \in 0..Len(t.node[b].path)
      <4>1. SubSeq(q, 1, Len(new)) = new
        BY <3>2 DEF Displaced
      <4>2. Len(q) = Len(new) + Len(t.node[a].path) - Len(old) /\ Len(t.node[a].path) >= Len(old)
        BY <3>2 DEF Displaced
      <4>3. Len(new) \in Nat /\ Len(old) \in Nat /\ Len(t.node[a].path) \in Nat
        BY <1>12, <1>13
      <4> HIDE DEF q
      <4> QED BY <3>1, <4>1, <4>2, <4>3
    <3>4. \E k \in Indices(t) : t.node[k].path = SubSeq(t.node[b].path, 1, Len(new))
      BY <3>3, AncestorsExist DEF InodeInv
    <3> QED BY <1>5, <3>3, <3>4
  <2>2. CASE ~isDir
    BY <1>5, <1>15, <1>18, <2>2
  <2>3. CASE isDir /\ below(i) /\ below(j)
    <3>1. to(i) = Moves(t.node[i].path, old, new) /\ to(j) = Moves(t.node[j].path, old, new)
      BY <1>17, <2>3
    <3>2. t.node[i].path # t.node[j].path
      BY <1>15, <1>18
    <3> HIDE DEF to
    <3> QED BY <1>12, <1>13, <2>3, <3>1, <3>2, MovesInjective
  <2>4. CASE isDir /\ below(i) /\ ~below(j)
    BY <1>18, <2>1, <2>4
  <2>5. CASE isDir /\ ~below(i) /\ below(j)
    BY <1>18, <2>1, <2>5
  <2>6. CASE isDir /\ ~below(i) /\ ~below(j)
    BY <1>15, <1>16, <1>18, <2>6
  <2> QED BY <2>2, <2>3, <2>4, <2>5, <2>6
<1>19. parent # idx /\ to(parent) = ParentPath(new)
  <2>1. CASE ~isDir
    BY <1>1, <1>4, <2>1
  <2>2. CASE isDir
    <3>1. ~Inside(ParentPath(new), old)
      BY <1>1, <1>12, <2>2, InsideParent
    <3> QED BY <1>4, <1>16, <2>2, <3>1
  <2> QED BY <2>1, <2>2
<1>20. ASSUME NEW i \in Indices(t) \ {0, idx}
       PROVE to(t.node[i].parent) = ParentPath(to(i))
  <2> DEFINE q == t.node[i].parent
             p == t.node[i].path
  <2>1. q \in Indices(t) /\ t.node[q].path = ParentPath(p) /\ p \in Seq(STRING) /\ Len(p) > 0 /\ t.node[q].type = "dir"
    BY <1>13, <1>14
  <2>2. p # old
    BY <1>3, <1>15
  <2>3. CASE ~isDir
    <3>1. q # idx
      BY <2>1, <2>3
    <3> QED BY <2>1, <2>3, <3>1
  <2>4. CASE isDir /\ below(i)
    <3>1. Inside(ParentPath(p), old)
      BY <1>12, <2>1, <2>2, <2>4, InsideParent
    <3>2. to(q) = Moves(ParentPath(p), old, new)
      BY <1>17, <2>1, <2>4, <3>1
    <3>3. ParentPath(Moves(p, old, new)) = Moves(ParentPath(p), old, new)
      BY <1>12, <2>1, <2>2, <2>4, MovesParent
    <3> QED BY <1>17, <2>4, <3>2, <3>3
  <2>5. CASE isDir /\ ~below(i)
    <3>1. ~Inside(ParentPath(p), old)
      BY <1>12, <2>1, <2>5, InsideParent
    <3>2. ~below(q)
      BY <2>1, <3>1
    <3>3. q # idx
      BY <1>16, <2>5, <3>2
    <3> QED BY <2>1, <2>5, <3>2, <3>3
  <2> QED BY <2>3, <2>4, <2>5
<1>21. Linked(table')
  <2>0. 0 \in Indices(t) /\ 0 # idx
    BY <1>2, <1>3
  <2>1. to(0) = <<>>
    <3>1. ~Inside(<<>>, old)
      <4>1. Len(<<>>) = 0 /\ Len(old) \in Nat
        BY <1>12
      <4> QED BY <1>12, <4>1 DEF Inside
    <3> QED BY <2>0, <3>1 DEF InodeInv, Linked
  <2> HIDE DEF to
  <2>2. table'.node[0].path = <<>> /\ table'.node[0].type = "dir" /\ table'.node[0].parent = NoNode
    BY <1>8, <2>0, <2>1 DEF InodeInv, Linked
  <2>3. \A i, j \in Indices(table') : i # j => table'.node[i].path # table'.node[j].path
    BY <1>8, <1>9, <1>18
  <2>4. ASSUME NEW i \in Indices(table') \ {0}
        PROVE /\ table'.node[i].parent \in Indices(table')
              /\ table'.node[table'.node[i].parent].path = ParentPath(table'.node[i].path)
              /\ table'.node[table'.node[i].parent].type = "dir"
    <3>1. CASE i = idx
      <4>1. table'.node[idx].parent = parent /\ table'.node[idx].path = new
        BY <1>3, <1>8 DEF to
      <4>2. table'.node[parent].path = ParentPath(new) /\ table'.node[parent].type = "dir"
        BY <1>1, <1>4, <1>8, <1>19
      <4> QED BY <1>4, <1>9, <3>1, <4>1, <4>2
    <3>2. CASE i # idx
      BY <1>8, <1>9, <1>14, <1>20, <2>4, <3>2
    <3> QED BY <3>1, <3>2
  <2> QED BY <2>2, <2>3, <2>4 DEF Linked
<1> QED BY <1>10, <1>11, <1>21 DEF InodeInv, Typed, Linked, Held, Indices

LEMMA InodeStep == InodeInv /\ [InodeNext]_inodeVars => InodeInv'
<1> SUFFICES ASSUME InodeInv, [InodeNext]_inodeVars PROVE InodeInv'
  OBVIOUS
<1>1. ASSUME NEW p \in InDirectory, Create(p, "dir") \/ Create(p, "file") PROVE InodeInv'
  BY <1>1, CreateStep
<1>2. ASSUME NEW p \in InDirectory, NEW trunc \in BOOLEAN, WriteFile(p, trunc) PROVE InodeInv'
  BY <1>2, WriteStep
<1>3. ASSUME NEW p \in Paths, Delete(p) PROVE InodeInv'
  BY <1>3, DeleteStep
<1>4. ASSUME NEW p \in Paths, NEW q \in Paths, Rename(p, q) PROVE InodeInv'
  BY <1>4, RenameStep
<1>5. CASE UNCHANGED inodeVars
  BY <1>5 DEF inodeVars, InodeInv, Typed, Linked, Held, Indices
<1> QED BY <1>1, <1>2, <1>3, <1>4, <1>5 DEF InodeNext

LEMMA InodeInvSound == InodeInv => TableSound
<1> SUFFICES ASSUME InodeInv PROVE TableSound
  OBVIOUS
<1>1. InodeTypeOK
  BY DEF InodeInv, Typed, InodeTypeOK, Inode
<1>2. ParentIsParent
  BY DEF InodeInv, Linked, ParentIsParent
<1>3. Buffers
  BY DEF InodeInv, Held, Buffers
<1> QED BY <1>1, <1>2, <1>3 DEF TableSound

\* Whatever is created, written, deleted and renamed, the table's inodes name
\* the inode of their parent path, have paths of their own, and the blocks
\* allocated are exactly the buffers of the files (vfs.c, all calls).
THEOREM InodesStaySound == InodeSpec => []TableSound
<1>1. InodeSpec => []InodeInv
  BY InodeStarts, InodeStep, PTL DEF InodeSpec
<1> QED BY <1>1, InodeInvSound, PTL
=============================================================================
