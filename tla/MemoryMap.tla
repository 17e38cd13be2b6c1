------------------------------ MODULE MemoryMap ------------------------------
(***************************************************************************)
(* The loader's memory (main.rs, placement.rs): its program, which holds   *)
(* the heap, its stack, the device tree it was given, and the fixed        *)
(* regions that downloads and copies are written into.  main_flow checks   *)
(* the ranges once; the first depend on the link and on the device tree.   *)
(* Allocations go on before and after the check.                           *)
(***************************************************************************)
EXTENDS BumpAllocator, Sequences

CONSTANTS
  Placements,   \* sequences of ranges; the first is the program
  Loads         \* the indices of the regions that are written into

ASSUME MapAssumption ==
  /\ Loads \subseteq Nat
  /\ \A p \in Placements :
       /\ p \in Seq([start: Nat, end: Nat])
       /\ Len(p) >= 1 /\ Loads \subseteq 2 .. Len(p)
       /\ p[1].start <= HeapBase /\ HeapBase + HeapSize <= p[1].end

VARIABLES
  ranges,    \* the ranges of this link and this device tree
  checked,   \* check_no_overlap returned Ok
  loaded     \* how much of each region has been written

mapVars == <<ranges, checked, loaded>>
vars == <<offset, live, running, ranges, checked, loaded>>

-----------------------------------------------------------------------------

MapInit ==
  /\ Init
  /\ ranges \in Placements
  /\ checked = FALSE
  /\ loaded = [i \in Loads |-> 0]

Overlap(a, b) == a.start < b.end /\ b.start < a.end

(* Plausible bug: each range is compared with its successor only. *)
ComparesNext(i, j) == j = i + 1

\* The two loops of check_no_overlap compare range i with range j.
Compares(i, j) == i < j

NoOverlap(p) ==
  /\ \A i \in 1 .. Len(p) : p[i].start < p[i].end
  /\ \A i, j \in 1 .. Len(p) : Compares(i, j) => ~Overlap(p[i], p[j])

CheckPlacement ==
  /\ running /\ ~checked
  /\ IF NoOverlap(ranges)
     THEN checked' = TRUE /\ UNCHANGED running
     ELSE running' = FALSE /\ UNCHANGED checked
  /\ UNCHANGED <<offset, live, ranges, loaded>>

RangeSize(r) == r.end - r.start

\* A download, an inflate, a zero-fill or a copy of len bytes, or the refusal
\* of one that is too long.
Load(i, len) ==
  /\ running /\ checked
  /\ IF len <= RangeSize(ranges[i])
     THEN loaded' = [loaded EXCEPT ![i] = len] /\ UNCHANGED running
     ELSE running' = FALSE /\ UNCHANGED loaded
  /\ UNCHANGED <<offset, live, ranges, checked>>

Next ==
  \/ HeapNext /\ UNCHANGED mapVars
  \/ CheckPlacement
  \/ \E i \in Loads, len \in {l.size : l \in Layouts} : Load(i, len)

Spec == MapInit /\ [][Next]_vars

-----------------------------------------------------------------------------

TypeOK ==
  /\ HeapTypeOK
  /\ ranges \in Placements
  /\ checked \in BOOLEAN
  /\ loaded \in [Loads -> Nat]

(* What is loaded into a region hits neither a live block of the heap nor
   any other range: not the program, not the stack, not the device tree that
   is still being read, not what was loaded before.                          *)
LoadsHitNothing ==
  \A i \in Loads :
    /\ \A b \in live :
         \/ HeapBase + End(b) <= ranges[i].start
         \/ ranges[i].start + loaded[i] <= HeapBase + b.start
         \/ loaded[i] = 0
    /\ \A j \in DOMAIN ranges \ {i} :
         \/ ranges[j].end <= ranges[i].start
         \/ ranges[i].start + loaded[i] <= ranges[j].start
         \/ loaded[i] = 0

=============================================================================
