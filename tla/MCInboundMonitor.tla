-------------------------- MODULE MCInboundMonitor --------------------------
(* Every build the features allow, three probes of the loop and two polls of *)
(* a wait: the window can move between any two reads of one probe, and be  *)
(* moved at one and mended at the next.                                    *)
EXTENDS InboundMonitor
=============================================================================
