--------------------------- MODULE MCRp1Bootstrap ---------------------------
(* An image of two chunks and a short third, with three attempts a loop.   *)
EXTENDS Rp1Bootstrap
=============================================================================
