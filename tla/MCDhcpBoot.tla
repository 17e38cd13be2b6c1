----------------------------- MODULE MCDhcpBoot -----------------------------
(* Two servers, two addresses, one retransmission and one power cycle.     *)
EXTENDS DhcpBoot
=============================================================================
