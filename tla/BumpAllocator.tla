---------------------------- MODULE BumpAllocator ----------------------------
(***************************************************************************)
(* The global allocator of the loader (main.rs): a heap in .bss and the    *)
(* offset of its first free byte.  alloc moves the offset up; dealloc      *)
(* moves it back only when the block it is given ends at the offset, and   *)
(* leaves a hole otherwise.  A caller may free in any order.               *)
(*                                                                         *)
(* The heap is a byte array beside a usize in one static, so its address   *)
(* is a multiple of 8 and of nothing more: the offset alone is aligned,    *)
(* which is enough for the layouts up to 8 of this program.                *)
(***************************************************************************)
EXTENDS Naturals

CONSTANTS
  HeapBase,   \* address of the heap
  HeapSize,   \* its length (80 MiB in the code)
  Layouts     \* the sizes and alignments callers ask for

ASSUME HeapAssumption ==
  /\ HeapBase \in Nat
  /\ HeapSize \in Nat
  /\ HeapBase % 8 = 0
  /\ Layouts \subseteq [size: Nat \ {0}, align: {1, 2, 4, 8}]

VARIABLES
  offset,   \* GLOBAL_ALLOCATOR.offset
  live,     \* the blocks handed out and not freed
  running   \* FALSE after alloc_error

heapVars == <<offset, live, running>>

Blocks == [start: Nat, size: Nat \ {0}, align: {1, 2, 4, 8}]
End(b) == b.start + b.size

-----------------------------------------------------------------------------

Init ==
  /\ offset = 0
  /\ live = {}
  /\ running = TRUE

\* (current + align - 1) & !(align - 1), for a power of two.
AlignUp(n, a) == LET r == n + a - 1 IN r - (r % a)

NewBlock(l) == [start |-> AlignUp(offset, l.align), size |-> l.size, align |-> l.align]

Fits(b) == End(b) <= HeapSize

(* Plausible bug: dealloc takes back whatever it is given. *)
ReclaimedAlways(top, b) == b.start

\* What dealloc leaves of an offset.
Reclaimed(top, b) == IF End(b) = top THEN b.start ELSE top

Alloc(l) ==
  LET b == NewBlock(l) IN
  /\ Fits(b)
  /\ offset' = End(b)
  /\ live' = live \cup {b}
  /\ UNCHANGED running

Dealloc(b) ==
  /\ offset' = Reclaimed(offset, b)
  /\ live' = live \ {b}
  /\ UNCHANGED running

\* GlobalAlloc's own realloc: alloc, copy, dealloc.
Realloc(b, l) ==
  LET n == NewBlock([l EXCEPT !.align = b.align]) IN
  /\ Fits(n)
  /\ offset' = Reclaimed(End(n), b)
  /\ live' = (live \ {b}) \cup {n}
  /\ UNCHANGED running

\* A null pointer: the caller ends in alloc_error, which halts.
AllocError(l) ==
  /\ ~Fits(NewBlock(l))
  /\ running' = FALSE
  /\ UNCHANGED <<offset, live>>

HeapNext ==
  /\ running
  /\ \/ \E l \in Layouts : Alloc(l) \/ AllocError(l)
     \/ \E b \in live : Dealloc(b)
     \/ \E b \in live, l \in Layouts : Realloc(b, l)

HeapSpec == Init /\ [][HeapNext]_heapVars

-----------------------------------------------------------------------------

HeapTypeOK ==
  /\ offset \in 0 .. HeapSize
  /\ live \subseteq Blocks
  /\ running \in BOOLEAN

(* Whatever the order of frees, no two live blocks share a byte, each lies
   in the heap below the offset, and its address has the alignment it was
   asked for: dealloc never takes back a byte that is still in use.         *)
LiveDisjoint ==
  /\ \A b \in live : End(b) <= offset /\ (HeapBase + b.start) % b.align = 0
  /\ \A b, c \in live : b # c => End(b) <= c.start \/ End(c) <= b.start

=============================================================================
