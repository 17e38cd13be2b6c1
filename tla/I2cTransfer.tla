---------------------------- MODULE I2cTransfer ----------------------------
(***************************************************************************)
(* One transfer of the polling BCM2712 I2C driver: transfer_write and      *)
(* transfer_read with wait_for, check_error and wait_done, run against the *)
(* controller.  Driver and controller interleave at every register access  *)
(* of the driver.  A driver that gives up does not stop the controller:    *)
(* what is in the FIFO may still cross the bus after the call has returned,*)
(* until C_CLEAR of the next transfer.  So this transfer may follow one    *)
(* that was given up half way and is still going on.                       *)
(***************************************************************************)
EXTENDS Naturals, Sequences, SequencesExt

CONSTANTS
    N,              \* bytes of the transfer
    Depth,          \* bytes the FIFO holds
    PollLimit       \* POLL_LIMIT

ASSUME SizesAssumption == {N, Depth, PollLimit} \subseteq Nat \ {0}

Stale == 0                          \* a byte of an earlier transfer
Bytes == [i \in 1..N |-> i]         \* the bytes of this one, in order

VARIABLES
    op,         \* "write" or "read"
    pc,         \* the driver's next register access, or its result
    pos,        \* bytes of the caller's buffer done
    polls,      \* reads of S in the current wait
    buf,        \* what a read has put into the caller's buffer
    fifo,       \* the controller's FIFO
    bus,        \* the bytes of this transfer that crossed the bus
    S           \* the status flags that are latched: subset of Flags

vars == <<op, pc, pos, polls, buf, fifo, bus, S>>

Flags == {"TA", "DONE", "ERR", "CLKT"}
Starting == {"begin", "start"}
Waiting == {"room", "data", "done"}
Returned == {"Ok", "I2cNack", "I2cTimeout"}

TypeOK ==
    /\ op \in {"write", "read"}
    /\ pc \in Starting \cup {"check", "push", "drain"} \cup Waiting \cup Returned
    /\ pos \in 0..N
    /\ polls \in 0..(PollLimit - 1)
    /\ buf \in Seq(0..N) /\ Len(buf) <= N
    /\ fifo \in Seq(0..N) /\ Len(fifo) <= Depth
    /\ bus \in Seq(0..N)
    /\ S \subseteq Flags

Init ==
    /\ op \in {"write", "read"}
    /\ pc = "begin"
    /\ pos = 0 /\ polls = 0 /\ buf = <<>> /\ bus = <<>>
    /\ \E n \in 0..Depth : fifo = [i \in 1..n |-> Stale]
    /\ S \in SUBSET Flags

ctl == <<fifo, bus, S>>

-----------------------------------------------------------------------------
(* The driver.                                                             *)

\* Variant: C_CLEAR left out of the start of a transfer.
KeepFifo(f) == f

\* C_CLEAR empties the FIFO.
ClearFifo(f) == <<>>

\* TXD and RXD follow the FIFO.
TXD == Len(fifo) < Depth
RXD == fifo # <<>>

\* A, DLEN and S = u32::MAX: write one to clear, which TA does not obey.
Begin ==
    /\ pc = "begin"
    /\ S' = S \cap {"TA"}
    /\ pc' = "start"
    /\ UNCHANGED <<op, pos, polls, buf, fifo, bus>>

\* C_CLEAR, which ends what was going on, and C_ST.  A flag that the abandoned
\* transfer has set since Begin stays.
Start ==
    /\ pc = "start"
    /\ fifo' = ClearFifo(fifo)
    /\ S' = S \cup {"TA"}
    /\ pc' = IF op = "write" THEN "room" ELSE "data"
    /\ UNCHANGED <<op, pos, polls, buf, bus>>

\* Variant: the wait has no limit.
MissForever == UNCHANGED <<polls, pc>>

\* A read of S that shows nothing awaited; the last one ends the wait.
Miss ==
    /\ polls' = (polls + 1) % PollLimit
    /\ pc' = IF polls + 1 = PollLimit THEN "I2cTimeout" ELSE pc

\* One read of S in wait_for.
Poll(where, found, next) ==
    /\ pc = where
    /\ \/ found /\ pc' = next /\ polls' = 0
       \/ ~found /\ Miss
    /\ UNCHANGED <<op, pos, buf, ctl>>

Failed == S \cap {"ERR", "CLKT"} # {}

\* Variant: a byte is pushed without looking for room.
RoomAssumed == TRUE

RoomSeen == TXD \/ Failed
DataSeen == RXD \/ "DONE" \in S \/ Failed

WaitForRoom == Poll("room", RoomSeen, "check")
WaitForData == Poll("data", DataSeen, "check")

CheckError ==
    /\ pc = "check"
    /\ pc' = IF "CLKT" \in S THEN "I2cTimeout"
             ELSE IF "ERR" \in S THEN "I2cNack"
             ELSE IF op = "write" THEN "push" ELSE "drain"
    /\ UNCHANGED <<op, pos, polls, buf, ctl>>

MoreOr(more) == IF pos' < N THEN more ELSE "done"

\* A byte pushed into a full FIFO is lost.
Push ==
    /\ pc = "push"
    /\ fifo' = IF TXD THEN Append(fifo, Bytes[pos + 1]) ELSE fifo
    /\ pos' = pos + 1
    /\ pc' = MoreOr("room")
    /\ UNCHANGED <<op, polls, buf, bus, S>>

\* The inner loop of transfer_read: take bytes while RXD is set.
Drain ==
    /\ pc = "drain"
    /\ \/ /\ RXD
          /\ buf' = Append(buf, Head(fifo))
          /\ fifo' = Tail(fifo)
          /\ pos' = pos + 1
          /\ pc' = MoreOr("drain")
       \/ /\ ~RXD
          /\ pc' = "data"
          /\ UNCHANGED <<buf, fifo, pos>>
    /\ UNCHANGED <<op, polls, bus, S>>

\* Variant: DONE ends the wait and the error flags are not looked at.
DoneTrusted == "DONE" \in S

\* An error wins over DONE; DONE counts once TA is gone.
DoneSeen == "DONE" \in S /\ "TA" \notin S /\ ~Failed

\* One read of S in wait_done; success clears the flags.
WaitDone ==
    /\ pc = "done"
    /\ \/ DoneSeen /\ pc' = "Ok" /\ polls' = 0 /\ S' = S \cap {"TA"}
       \/ ~DoneSeen /\ Failed /\ pc' = "I2cNack" /\ polls' = 0 /\ UNCHANGED S
       \/ ~DoneSeen /\ ~Failed /\ Miss /\ UNCHANGED S
    /\ UNCHANGED <<op, pos, buf, fifo, bus>>

Driver ==
    \/ Begin \/ Start \/ WaitForRoom \/ WaitForData \/ CheckError \/ Push \/ Drain
    \/ WaitDone

-----------------------------------------------------------------------------
(* The controller and the device behind it (external).                     *)

\* One more byte crosses the bus; after N of them the transfer is over.
Shift(byte) ==
    /\ bus' = Append(bus, byte)
    /\ S' = IF Len(bus') = N THEN (S \ {"TA"}) \cup {"DONE"} ELSE S

ShiftOut ==
    /\ op = "write" /\ "TA" \in S /\ fifo # <<>>
    /\ Shift(Head(fifo))
    /\ fifo' = Tail(fifo)

ShiftIn ==
    /\ op = "read" /\ "TA" \in S /\ Len(fifo) < Depth
    /\ Shift(Bytes[Len(bus) + 1])
    /\ fifo' = Append(fifo, Bytes[Len(bus) + 1])

\* The device does not acknowledge, or holds the clock for too long.
Give(flag) ==
    /\ "TA" \in S
    /\ S' = (S \ {"TA"}) \cup {"DONE", flag}
    /\ UNCHANGED <<fifo, bus>>

\* A read that ends early without an error flag: the driver looks for DONE
\* while it still waits for bytes.
EndShort ==
    /\ op = "read" /\ "TA" \in S
    /\ S' = (S \ {"TA"}) \cup {"DONE"}
    /\ UNCHANGED <<fifo, bus>>

\* This transfer, whether or not the driver has given it up.
Transfer ==
    /\ pc \notin Starting
    /\ ShiftOut \/ ShiftIn \/ Give("ERR") \/ Give("CLKT") \/ EndShort

\* The abandoned one: it takes a byte from the FIFO, puts one in or ends.
Residue ==
    /\ pc \in Starting /\ "TA" \in S
    /\ \/ fifo # <<>> /\ fifo' = Tail(fifo)
       \/ Len(fifo) < Depth /\ fifo' = Append(fifo, Stale)
       \/ UNCHANGED fifo
    /\ \/ UNCHANGED S
       \/ \E flag \in Flags \ {"TA"} : S' = (S \ {"TA"}) \cup {"DONE", flag}
    /\ UNCHANGED bus

Controller ==
    /\ Transfer \/ Residue
    /\ UNCHANGED <<op, pc, pos, polls, buf>>

Finished == pc \in Returned /\ UNCHANGED vars

Next == Driver \/ Controller \/ Finished

\* The driver is the only code that runs; the controller may stop at any time.
Spec == Init /\ [][Next]_vars /\ WF_vars(Driver)

-----------------------------------------------------------------------------
\* A transfer that returns Ok moved exactly the caller's bytes, in order:
\* nothing of an abandoned transfer and nothing lost in a full FIFO.
OkIsExact ==
    pc = "Ok" => bus = Bytes /\ (op = "read" => buf = Bytes)

\* However a write ends, what the RP1 has got of it, then and later, is a
\* prefix of the packet: what Rp1Bootstrap assumes of a write that fails.
LandsPrefix == op = "write" => IsPrefix(bus, Bytes)

\* A write returns, whatever the controller does (wait_for, wait_done).
WriteReturns == (op = "write") ~> (pc \in Returned)

-----------------------------------------------------------------------------
(* A write implements the abstract one; of a read there is nothing to see. *)

Write == INSTANCE I2cWrite WITH
    Packet <- Bytes,
    sent <- IF op = "write" THEN bus ELSE <<>>,
    result <- IF op = "write" /\ pc \in Returned THEN pc ELSE "none"

\* Whatever an abandoned transfer left or still does, wherever a poll gives up
\* and whenever the device stops acknowledging, the bytes land in order, none
\* twice and none of an earlier transfer; Ok means all of them, and only after
\* Ok does nothing more land.
KeepsWrite == Write!Spec
=============================================================================
