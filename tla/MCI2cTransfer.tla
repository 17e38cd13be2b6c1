--------------------------- MODULE MCI2cTransfer ---------------------------
(* A packet of four bytes through a FIFO of two, with three polls a wait. *)
EXTENDS I2cTransfer

\* README.md:653, "polling MMIO driver with bounded timeouts": every transfer
\* returns, reads included.
BoundedTimeouts == <>(pc \in Returned)
=============================================================================
