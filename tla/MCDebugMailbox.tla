--------------------------- MODULE MCDebugMailbox ---------------------------
(* Two addresses, one of them in SRAM; a smoke test of two commands and a  *)
(* SEQ byte of four values, so that four packets reach the number of the   *)
(* last smoke command and the wrap of the byte.                            *)
EXTENDS DebugMailbox
=============================================================================
