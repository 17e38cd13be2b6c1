--------------------------- MODULE MemoryMapProofs ---------------------------
(***************************************************************************)
(* The allocator and the placement check are right for every heap, every   *)
(* sequence of sizes and frees, and every set of ranges.                   *)
(***************************************************************************)
EXTENDS MemoryMap, SequenceTheorems, TLAPS

\* Rounding up reaches the next multiple of an alignment, from which the
\* address of a heap at a multiple of 8 is aligned.
LEMMA AlignUpAligns ==
  ASSUME NEW n \in Nat, NEW a \in {1, 2, 4, 8}
  PROVE  /\ AlignUp(n, a) \in Nat
         /\ AlignUp(n, a) >= n
         /\ (HeapBase + AlignUp(n, a)) % a = 0
<1>1. HeapBase \in Nat /\ HeapBase % 8 = 0
  BY HeapAssumption
<1>2. CASE a = 1
  BY <1>1, <1>2 DEF AlignUp
<1>3. CASE a = 2
  BY <1>1, <1>3 DEF AlignUp
<1>4. CASE a = 4
  BY <1>1, <1>4 DEF AlignUp
<1>5. CASE a = 8
  BY <1>1, <1>5 DEF AlignUp
<1> QED
  BY <1>2, <1>3, <1>4, <1>5

\* What alloc hands out is a block above the offset.
LEMMA NewBlockAbove ==
  ASSUME HeapTypeOK, NEW l \in [size: Nat \ {0}, align: {1, 2, 4, 8}]
  PROVE  /\ NewBlock(l) \in Blocks
         /\ NewBlock(l).start >= offset
         /\ End(NewBlock(l)) \in Nat
         /\ End(NewBlock(l)) > offset
         /\ (HeapBase + NewBlock(l).start) % NewBlock(l).align = 0
<1>1. /\ AlignUp(offset, l.align) \in Nat
      /\ AlignUp(offset, l.align) >= offset
      /\ (HeapBase + AlignUp(offset, l.align)) % l.align = 0
  BY AlignUpAligns DEF HeapTypeOK
<1> QED
  BY <1>1 DEF HeapTypeOK, NewBlock, Blocks, End

\* The heap's invariant: types, and live blocks that share nothing.
HeapInv == HeapTypeOK /\ LiveDisjoint

\* The empty heap satisfies its invariant.
LEMMA HeapInit == Init => HeapInv
  BY HeapAssumption DEF Init, HeapInv, HeapTypeOK, LiveDisjoint

\* alloc keeps live blocks apart: the new one starts above the offset.
LEMMA AllocKeeps ==
  ASSUME HeapInv, NEW l \in Layouts, Alloc(l)
  PROVE  HeapInv'
<1> DEFINE n == NewBlock(l)
<1>1. l \in [size: Nat \ {0}, align: {1, 2, 4, 8}]
  BY HeapAssumption
<1>2. /\ n \in Blocks /\ n.start >= offset /\ End(n) \in Nat /\ End(n) > offset
      /\ (HeapBase + n.start) % n.align = 0
  BY <1>1, NewBlockAbove DEF HeapInv
<1>3. End(n) <= HeapSize /\ offset' = End(n) /\ live' = live \cup {n} /\ running' = running
  BY DEF Alloc, Fits
<1>4. HeapTypeOK'
  BY <1>2, <1>3 DEF HeapInv, HeapTypeOK
<1>5. \A b \in live : End(b) \in Nat /\ End(b) <= offset
  BY HeapAssumption DEF HeapInv, HeapTypeOK, LiveDisjoint, Blocks, End
<1> HIDE DEF n
<1>6. LiveDisjoint'
  <2>1. \A b \in live' : End(b) <= offset' /\ (HeapBase + b.start) % b.align = 0
    BY <1>2, <1>3, <1>5 DEF HeapInv, HeapTypeOK, LiveDisjoint
  <2>2. \A b, c \in live' : b # c => End(b) <= c.start \/ End(c) <= b.start
    BY <1>2, <1>3, <1>5 DEF HeapInv, HeapTypeOK, LiveDisjoint, Blocks
  <2> QED
    BY <1>3, <2>1, <2>2 DEF LiveDisjoint
<1> QED
  BY <1>4, <1>6 DEF HeapInv

\* dealloc takes back a block only when it is the highest: every other live
\* block then ends at its start or below.
LEMMA DeallocKeeps ==
  ASSUME HeapInv, NEW b \in live, Dealloc(b)
  PROVE  HeapInv'
<1>1. /\ offset' = Reclaimed(offset, b) /\ live' = live \ {b} /\ running' = running
  BY DEF Dealloc
<1>2. \A c \in live : c.start \in Nat /\ c.size \in Nat /\ c.size > 0 /\ End(c) = c.start + c.size
  BY DEF HeapInv, HeapTypeOK, Blocks, End
<1>3. HeapTypeOK'
  BY <1>1, <1>2, HeapAssumption DEF HeapInv, HeapTypeOK, LiveDisjoint, Reclaimed
<1>4. \A c \in live' : End(c) <= offset'
  BY <1>1, <1>2 DEF HeapInv, HeapTypeOK, LiveDisjoint, Reclaimed
<1> QED
  BY <1>1, <1>3, <1>4 DEF HeapInv, LiveDisjoint

\* realloc allocates above the old block, so it never takes that one back.
LEMMA ReallocKeeps ==
  ASSUME HeapInv, NEW b \in live, NEW l \in Layouts, Realloc(b, l)
  PROVE  HeapInv'
<1> DEFINE m == [l EXCEPT !.align = b.align]
           n == NewBlock(m)
<1>1. m \in [size: Nat \ {0}, align: {1, 2, 4, 8}]
  BY HeapAssumption DEF HeapInv, HeapTypeOK, Blocks
<1>2. /\ n \in Blocks /\ n.start >= offset /\ End(n) \in Nat /\ End(n) > offset
      /\ (HeapBase + n.start) % n.align = 0
  BY <1>1, NewBlockAbove DEF HeapInv
<1>3. /\ End(n) <= HeapSize /\ offset' = Reclaimed(End(n), b)
      /\ live' = (live \ {b}) \cup {n} /\ running' = running
  BY DEF Realloc, Fits
<1>4. \A c \in live : End(c) \in Nat /\ End(c) <= offset
  BY HeapAssumption DEF HeapInv, HeapTypeOK, LiveDisjoint, Blocks, End
<1> HIDE DEF n
<1>5. offset' = End(n)
  BY <1>2, <1>3, <1>4 DEF Reclaimed, HeapInv, HeapTypeOK
<1>6. HeapTypeOK'
  BY <1>2, <1>3, <1>5 DEF HeapInv, HeapTypeOK
<1>7. LiveDisjoint'
  <2>1. \A c \in live' : End(c) <= offset' /\ (HeapBase + c.start) % c.align = 0
    BY <1>2, <1>3, <1>4, <1>5 DEF HeapInv, HeapTypeOK, LiveDisjoint
  <2>2. \A c, d \in live' : c # d => End(c) <= d.start \/ End(d) <= c.start
    BY <1>2, <1>3, <1>4 DEF HeapInv, HeapTypeOK, LiveDisjoint, Blocks
  <2> QED
    BY <1>3, <1>5, <2>1, <2>2 DEF LiveDisjoint
<1> QED
  BY <1>6, <1>7 DEF HeapInv

\* Every call of the allocator keeps it.
LEMMA HeapStep == HeapInv /\ [HeapNext]_heapVars => HeapInv'
<1> SUFFICES ASSUME HeapInv, [HeapNext]_heapVars PROVE HeapInv'
  OBVIOUS
<1>1. ASSUME NEW l \in Layouts, AllocError(l) PROVE HeapInv'
  BY <1>1 DEF AllocError, HeapInv, HeapTypeOK, LiveDisjoint
<1>2. CASE UNCHANGED heapVars
  BY <1>2 DEF heapVars, HeapInv, HeapTypeOK, LiveDisjoint
<1> QED
  BY <1>1, <1>2, AllocKeeps, DeallocKeeps, ReallocKeeps DEF HeapNext

-----------------------------------------------------------------------------
(* The memory map around the heap. *)

\* Nothing is loaded before the check, nothing more than a region holds after
\* it, and the ranges that passed it are pairwise apart.
MapInv ==
  /\ TypeOK
  /\ HeapInv
  /\ ~checked => \A i \in Loads : loaded[i] = 0
  /\ checked => NoOverlap(ranges)
  /\ \A i \in Loads : loaded[i] = 0 \/ loaded[i] <= RangeSize(ranges[i])

\* Every placement is a sequence of ranges of naturals that holds the heap.
LEMMA PlacementFacts ==
  ASSUME NEW p \in Placements
  PROVE  /\ Len(p) \in Nat /\ DOMAIN p = 1 .. Len(p)
         /\ \A j \in 1 .. Len(p) : p[j].start \in Nat /\ p[j].end \in Nat
         /\ 1 \in 1 .. Len(p)
         /\ \A i \in Loads : i \in 1 .. Len(p) /\ i # 1
         /\ p[1].start <= HeapBase /\ HeapBase + HeapSize <= p[1].end
<1>1. /\ p \in Seq([start: Nat, end: Nat])
      /\ Len(p) >= 1 /\ Loads \subseteq 2 .. Len(p)
      /\ p[1].start <= HeapBase /\ HeapBase + HeapSize <= p[1].end
  BY MapAssumption
<1>2. /\ Len(p) \in Nat /\ DOMAIN p = 1 .. Len(p)
      /\ \A j \in 1 .. Len(p) : p[j] \in [start: Nat, end: Nat]
  BY <1>1, LenProperties, ElementOfSeq
<1>3. \A j \in 1 .. Len(p) : p[j].start \in Nat /\ p[j].end \in Nat
  BY <1>2
<1>4. 1 \in 1 .. Len(p) /\ \A i \in Loads : i \in 1 .. Len(p) /\ i # 1
  BY <1>1, <1>2
<1> QED
  BY <1>1, <1>2, <1>3, <1>4

\* The map starts in its invariant.
LEMMA MapInitial == MapInit => MapInv
<1> SUFFICES ASSUME MapInit PROVE MapInv
  OBVIOUS
<1>1. HeapInv
  BY HeapInit DEF MapInit
<1> QED
  BY <1>1 DEF MapInit, MapInv, TypeOK, HeapInv

\* Allocations, the placement check and the loads keep it.
LEMMA MapStep == MapInv /\ [Next]_vars => MapInv'
<1> SUFFICES ASSUME MapInv, [Next]_vars PROVE MapInv'
  OBVIOUS
<1>1. CASE HeapNext /\ UNCHANGED mapVars
  <2>1. HeapInv'
    BY <1>1, HeapStep DEF MapInv
  <2> QED
    BY <1>1, <2>1 DEF mapVars, MapInv, TypeOK, HeapInv, NoOverlap, Compares, Overlap, RangeSize
<1>2. CASE CheckPlacement
  <2>1. HeapInv'
    BY <1>2 DEF CheckPlacement, MapInv, HeapInv, HeapTypeOK, LiveDisjoint
  <2> QED
    BY <1>2, <2>1 DEF CheckPlacement, MapInv, TypeOK, HeapInv, NoOverlap, Compares, Overlap, RangeSize
<1>3. ASSUME NEW i \in Loads, NEW len \in {l.size : l \in Layouts}, Load(i, len)
      PROVE  MapInv'
  <2>1. HeapInv'
    BY <1>3 DEF Load, MapInv, HeapInv, HeapTypeOK, LiveDisjoint
  <2>2. len \in Nat
    BY HeapAssumption
  <2>3. UNCHANGED <<ranges, checked>> /\ checked
    BY <1>3 DEF Load
  <2>4. TypeOK' /\ \A k \in Loads : loaded'[k] = 0 \/ loaded'[k] <= RangeSize(ranges[k])
    BY <1>3, <2>1, <2>2, <2>3 DEF Load, MapInv, TypeOK, HeapInv
  <2> QED
    BY <2>1, <2>3, <2>4 DEF MapInv, NoOverlap, Compares, Overlap, RangeSize
<1>4. CASE UNCHANGED vars
  BY <1>4 DEF vars, MapInv, TypeOK, HeapInv, HeapTypeOK, LiveDisjoint,
     NoOverlap, Compares, Overlap, RangeSize
<1> QED
  BY <1>1, <1>2, <1>3, <1>4 DEF Next

\* Ranges that passed check_no_overlap are apart, whichever two are taken.
LEMMA CheckedApart ==
  ASSUME NEW p \in Placements, NoOverlap(p),
         NEW i \in 1 .. Len(p), NEW j \in 1 .. Len(p), i # j
  PROVE  p[i].end <= p[j].start \/ p[j].end <= p[i].start
<1>1. Len(p) \in Nat /\ \A k \in 1 .. Len(p) : p[k].start \in Nat /\ p[k].end \in Nat
  BY PlacementFacts
<1>2. ~Overlap(p[i], p[j]) \/ ~Overlap(p[j], p[i])
  <2>1. i < j \/ j < i
    BY <1>1
  <2> QED
    BY <2>1 DEF NoOverlap, Compares
<1> QED
  BY <1>1, <1>2 DEF Overlap

\* The invariant says that what has been loaded hit nothing.
LEMMA MapInvSuffices == MapInv => LoadsHitNothing
<1> SUFFICES ASSUME MapInv, NEW i \in Loads, loaded[i] # 0
             PROVE  /\ \A b \in live :
                         \/ HeapBase + End(b) <= ranges[i].start
                         \/ ranges[i].start + loaded[i] <= HeapBase + b.start
                    /\ \A j \in DOMAIN ranges \ {i} :
                         \/ ranges[j].end <= ranges[i].start
                         \/ ranges[i].start + loaded[i] <= ranges[j].start
  BY DEF LoadsHitNothing
<1>1. ranges \in Placements /\ NoOverlap(ranges) /\ loaded[i] \in Nat
  BY DEF MapInv, TypeOK
<1>2. /\ Len(ranges) \in Nat /\ DOMAIN ranges = 1 .. Len(ranges)
      /\ \A j \in 1 .. Len(ranges) : ranges[j].start \in Nat /\ ranges[j].end \in Nat
      /\ 1 \in 1 .. Len(ranges) /\ i \in 1 .. Len(ranges) /\ i # 1
      /\ ranges[1].start <= HeapBase /\ HeapBase + HeapSize <= ranges[1].end
  BY <1>1, PlacementFacts
<1>3. ranges[i].start + loaded[i] <= ranges[i].end
  BY <1>1, <1>2 DEF MapInv, RangeSize
<1>4. ASSUME NEW j \in 1 .. Len(ranges), j # i
      PROVE  \/ ranges[j].end <= ranges[i].start
             \/ ranges[i].start + loaded[i] <= ranges[j].start
  <2>1. ranges[i].end <= ranges[j].start \/ ranges[j].end <= ranges[i].start
    BY <1>1, <1>2, <1>4, CheckedApart
  <2> QED
    BY <1>1, <1>2, <1>3, <1>4, <2>1
<1>5. ASSUME NEW b \in live
      PROVE  \/ HeapBase + End(b) <= ranges[i].start
             \/ ranges[i].start + loaded[i] <= HeapBase + b.start
  <2>1. b.start \in Nat /\ End(b) \in Nat /\ End(b) <= HeapSize
    BY <1>5, HeapAssumption DEF MapInv, HeapInv, HeapTypeOK, LiveDisjoint, Blocks, End
  <2>2. \/ ranges[1].end <= ranges[i].start
        \/ ranges[i].start + loaded[i] <= ranges[1].start
    BY <1>2, <1>4
  <2>3. ranges[i].start \in Nat /\ ranges[1].start \in Nat /\ ranges[1].end \in Nat
    BY <1>2
  <2>4. HeapBase \in Nat /\ HeapSize \in Nat
    BY HeapAssumption
  <2>5. CASE ranges[1].end <= ranges[i].start
    <3>1. HeapBase + HeapSize <= ranges[1].end
      BY <1>2
    <3> QED
      BY <2>1, <2>3, <2>4, <2>5, <3>1
  <2>6. CASE ranges[i].start + loaded[i] <= ranges[1].start
    <3>1. ranges[1].start <= HeapBase
      BY <1>2
    <3> QED
      BY <1>1, <2>1, <2>3, <2>4, <2>6, <3>1
  <2> QED
    BY <2>2, <2>5, <2>6
<1> QED
  BY <1>2, <1>4, <1>5

\* Every variable keeps its type, for every heap and every placement.
THEOREM MapTypes == Spec => []TypeOK
<1>1. MapInv => TypeOK
  BY DEF MapInv
<1> QED
  BY <1>1, MapInitial, MapStep, PTL DEF Spec

\* Live blocks are disjoint, aligned and in the heap after any sequence of
\* allocations, reallocations and frees in any order.
THEOREM BlocksAreDisjoint == Spec => []LiveDisjoint
<1>1. MapInv => LiveDisjoint
  BY DEF MapInv, HeapInv
<1> QED
  BY <1>1, MapInitial, MapStep, PTL DEF Spec

\* What is loaded hits no live block and no other range, wherever the linker
\* put the program and however long the device tree is.
THEOREM LoadsAreSafe == Spec => []LoadsHitNothing
  BY MapInitial, MapStep, MapInvSuffices, PTL DEF Spec

=============================================================================
