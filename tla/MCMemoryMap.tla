---------------------------- MODULE MCMemoryMap ----------------------------
(* A heap of eight bytes at address 8, in a program that ends where the heap
   does or runs into the kernel's region; a device tree that is empty, fits,
   or runs into a region.                                                   *)
EXTENDS MemoryMap

MCLayouts == {[size |-> 1, align |-> 1], [size |-> 2, align |-> 2],
              [size |-> 3, align |-> 1], [size |-> 4, align |-> 4]}

Range(s, e) == [start |-> s, end |-> e]

\* program, stack, dtb-input, kernel, initramfs
MCPlacements ==
  {<<Range(4, p), Range(0, 4), Range(30, d), Range(18, 21), Range(40, 43)>> :
     p \in {16, 20}, d \in {30, 34, 41}}

=============================================================================
