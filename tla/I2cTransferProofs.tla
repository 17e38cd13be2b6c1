-------------------------- MODULE I2cTransferProofs --------------------------
(***************************************************************************)
(* The I2C transfer is exact for every length, FIFO depth and poll limit.  *)
(***************************************************************************)
EXTENDS I2cTransfer, SequenceTheorems, TLAPS

USE DEF Starting

\* The bytes of s are those of the transfer that follow the first k.
Counts(s, k) == \A i \in 1 .. Len(s) : s[i] = k + i

\* The polls of a wait start again at the limit.
LEMMA PollsInRange ==
  ASSUME NEW n \in 0 .. PollLimit - 1
  PROVE  (n + 1) % PollLimit \in 0 .. PollLimit - 1
<1>1. PollLimit \in Nat \ {0}
  BY SizesAssumption
<1> QED
  BY <1>1

\* A byte put behind a run of them.
LEMMA AppendCounts ==
  ASSUME NEW s \in Seq(0 .. N), NEW k \in Nat, Counts(s, k),
         k + Len(s) + 1 \in 0 .. N
  PROVE  /\ Append(s, k + Len(s) + 1) \in Seq(0 .. N)
         /\ Len(Append(s, k + Len(s) + 1)) = Len(s) + 1
         /\ Counts(Append(s, k + Len(s) + 1), k)
  BY AppendProperties, LenProperties DEF Counts

\* A byte taken from the front of a run.
LEMMA TailCounts ==
  ASSUME NEW s \in Seq(0 .. N), NEW k \in Nat, Counts(s, k), s # <<>>
  PROVE  /\ Head(s) = k + 1
         /\ Tail(s) \in Seq(0 .. N)
         /\ Len(Tail(s)) = Len(s) - 1 /\ Len(s) \in Nat \ {0}
         /\ Counts(Tail(s), k + 1)
<1>1. Len(s) \in Nat \ {0}
  BY EmptySeq
<1>2. Head(s) = s[1]
  OBVIOUS
<1> QED
  BY <1>1, <1>2, HeadTailProperties DEF Counts

\* A run from the first byte is a prefix of the transfer; N of them are all.
LEMMA CountsIsPrefix ==
  ASSUME NEW s \in Seq(0 .. N), Counts(s, 0), Len(s) <= N
  PROVE  /\ IsPrefix(s, Bytes)
         /\ Len(s) = N => s = Bytes
<1>1. N \in Nat \ {0}
  BY SizesAssumption
<1>2. Bytes \in Seq(0 .. N) /\ Len(Bytes) = N /\ (\A i \in 1 .. N : Bytes[i] = i)
  BY <1>1 DEF Bytes
<1>3. Len(s) \in Nat
  BY LenProperties
<1>4. Len(s) = N => s = Bytes
  BY <1>2, <1>3, SeqEqual DEF Counts
<1>5. SubSeq(s, 1, Len(s)) = SubSeq(Bytes, 1, Len(s))
  <2>1. /\ SubSeq(s, 1, Len(s)) \in Seq(0 .. N)
        /\ Len(SubSeq(s, 1, Len(s))) = Len(s)
        /\ \A i \in 1 .. Len(s) : SubSeq(s, 1, Len(s))[i] = s[i]
    BY <1>3, SubSeqFull, ElementOfSeq
  <2>2. /\ SubSeq(Bytes, 1, Len(s)) \in Seq(0 .. N)
        /\ Len(SubSeq(Bytes, 1, Len(s))) = Len(s)
        /\ \A i \in 1 .. Len(s) : SubSeq(Bytes, 1, Len(s))[i] = Bytes[i]
    <3>1. \A i \in 1 .. Len(s) : Bytes[i] \in 0 .. N
      BY <1>1, <1>2, <1>3
    <3> QED
      BY <1>3, <3>1, SubSeqProperties
  <2> QED
    BY <1>1, <1>2, <1>3, <2>1, <2>2, SeqEqual DEF Counts
<1> QED
  BY <1>2, <1>4, <1>5 DEF IsPrefix

-----------------------------------------------------------------------------
(* The invariant: where each byte of the transfer is. *)

\* What each place of the driver relies on.
PlaceInv ==
  /\ op = "write" => pc \notin {"data", "drain"}
  /\ op = "read" => pc \notin {"room", "push"}
  /\ pc \in Starting => bus = <<>> /\ buf = <<>> /\ pos = 0
  /\ pc = "Ok" => "TA" \notin S
  /\ pc \in {"room", "data", "check", "push"} => pos < N
  /\ pc = "drain" => pos < N
  /\ pc \in {"done", "Ok"} => pos = N
  /\ op = "write" /\ pc = "check" => TXD \/ Failed
  /\ pc = "push" => TXD

\* The bytes that crossed the bus are the first of the transfer; those of a
\* write that have not crossed yet, and those of a read that have not been
\* taken, are the next ones, in the FIFO.
ByteInv ==
  /\ Len(bus) <= N /\ Counts(bus, 0)
  /\ "TA" \in S => Len(bus) < N
  /\ pc \notin Starting /\ op = "write" => Len(bus) + Len(fifo) = pos /\ Counts(fifo, Len(bus))
  /\ pc \notin Starting /\ op = "read" =>
       /\ Len(bus) = pos + Len(fifo) /\ Counts(fifo, pos)
       /\ Len(buf) = pos /\ Counts(buf, 0)
  /\ /\ pc \notin Starting /\ op = "write"
     /\ "DONE" \in S /\ "TA" \notin S /\ ~Failed
     => Len(bus) = N
  /\ pc = "Ok" => Len(bus) = N

TransferInv == TypeOK /\ PlaceInv /\ ByteInv

\* A transfer starts in its invariant, whatever an abandoned one left.
LEMMA TransferInit == Init => TransferInv
<1> SUFFICES ASSUME Init PROVE TransferInv
  OBVIOUS
<1>1. N \in Nat \ {0} /\ Depth \in Nat \ {0} /\ PollLimit \in Nat \ {0}
  BY SizesAssumption
<1>2. <<>> \in Seq(0 .. N) /\ Len(<<>>) = 0
  BY EmptySeq
<1>3. ASSUME NEW n \in 0 .. Depth
      PROVE  /\ [i \in 1 .. n |-> Stale] \in Seq(0 .. N)
             /\ Len([i \in 1 .. n |-> Stale]) <= Depth
  BY <1>1 DEF Stale
<1>4. TypeOK
  <2>1. 0 \in 0 .. N /\ 0 \in 0 .. (PollLimit - 1) /\ 1 <= Depth /\ 0 <= Depth /\ 0 <= N
    BY <1>1
  <2>2. fifo \in Seq(0 .. N) /\ Len(fifo) <= Depth
    BY <1>3 DEF Init
  <2>3. /\ op \in {"write", "read"} /\ pc = "begin"
        /\ pos = 0 /\ polls = 0 /\ buf = <<>> /\ bus = <<>> /\ S \subseteq Flags
    BY DEF Init
  <2>4. /\ pos \in 0 .. N /\ polls \in 0 .. (PollLimit - 1)
        /\ buf \in Seq(0 .. N) /\ Len(buf) <= N /\ bus \in Seq(0 .. N)
    BY <1>2, <2>1, <2>3
  <2> QED
    BY <2>2, <2>3, <2>4 DEF TypeOK
<1> QED
  BY <1>1, <1>2, <1>4 DEF Init, TransferInv, PlaceInv, ByteInv, Counts

\* The sizes and types every step needs.
LEMMA Sizes ==
  ASSUME TypeOK
  PROVE  /\ N \in Nat \ {0} /\ Depth \in Nat \ {0} /\ PollLimit \in Nat \ {0}
         /\ bus \in Seq(0 .. N) /\ fifo \in Seq(0 .. N) /\ buf \in Seq(0 .. N)
         /\ Len(bus) \in Nat /\ Len(fifo) \in Nat /\ Len(buf) \in Nat
         /\ pos \in 0 .. N /\ polls \in 0 .. PollLimit - 1
         /\ op \in {"write", "read"}
         /\ (fifo # <<>> <=> Len(fifo) > 0)
  BY SizesAssumption, LenProperties, EmptySeq DEF TypeOK

\* One read of S in a wait.
LEMMA PollKeeps ==
  ASSUME TransferInv, NEW where \in Waiting, NEW found, NEW next \in {"check"},
         Poll(where, found, next),
         op = "write" => where = "room" /\ (found => TXD \/ Failed),
         op = "read" => where = "data"
  PROVE  TransferInv'
<1>1. (polls + 1) % PollLimit \in 0 .. PollLimit - 1 /\ 0 \in 0 .. PollLimit - 1
  <2>1. polls \in 0 .. PollLimit - 1 /\ PollLimit \in Nat \ {0}
    BY Sizes DEF TransferInv
  <2>2. 0 \in 0 .. PollLimit - 1
    BY <2>1
  <2> QED
    BY <2>1, <2>2, PollsInRange
<1>2. pc = where /\ UNCHANGED <<op, pos, buf, fifo, bus, S>>
  BY DEF Poll, ctl
<1>3. CASE found /\ pc' = next /\ polls' = 0
  BY <1>1, <1>2, <1>3, Sizes
  DEF TransferInv, TypeOK, PlaceInv, ByteInv, Counts, Failed, TXD, Waiting, Returned
<1>4. CASE Miss
  <2>1. polls' \in 0 .. PollLimit - 1 /\ pc' \in {where, "I2cTimeout"}
    BY <1>1, <1>2, <1>4 DEF Miss
  <2> QED
    BY <1>2, <2>1 DEF TransferInv, TypeOK, PlaceInv, ByteInv, Counts, Failed, TXD, Waiting, Returned
<1> QED
  BY <1>3, <1>4 DEF Poll

\* Each step of the driver keeps the bytes where they belong.
LEMMA DriverKeeps == TransferInv /\ Driver => TransferInv'
<1> SUFFICES ASSUME TransferInv, Driver PROVE TransferInv'
  OBVIOUS
<1>0. TypeOK /\ PlaceInv /\ ByteInv
  BY DEF TransferInv
<1>1. CASE Begin
  <2>1. /\ pc = "begin" /\ pc' = "start" /\ S' = S \cap {"TA"}
        /\ UNCHANGED <<op, pos, polls, buf, fifo, bus>>
    BY <1>1 DEF Begin
  <2>2. TypeOK'
    BY <1>0, <2>1 DEF TypeOK, Flags
  <2>3. PlaceInv' /\ ByteInv'
    BY <1>0, <2>1 DEF PlaceInv, ByteInv, Counts
  <2> QED
    BY <2>2, <2>3 DEF TransferInv
<1>8. CASE Start
  <2>1. /\ fifo' = <<>> /\ S' = S \cup {"TA"} /\ pc = "start"
        /\ pc' = IF op = "write" THEN "room" ELSE "data"
        /\ UNCHANGED <<op, pos, polls, buf, bus>>
        /\ bus = <<>> /\ buf = <<>> /\ pos = 0
    BY <1>0, <1>8 DEF Start, ClearFifo, PlaceInv
  <2>2. <<>> \in Seq(0 .. N) /\ Len(<<>>) = 0
    BY EmptySeq
  <2>3. TypeOK'
    BY <1>0, <2>1, <2>2, Sizes DEF TypeOK, Waiting, Flags
  <2>4. PlaceInv'
    BY <1>0, <2>1, Sizes DEF PlaceInv
  <2>5. ByteInv'
    BY <1>0, <2>1, <2>2, Sizes DEF ByteInv, Counts
  <2> QED
    BY <2>3, <2>4, <2>5 DEF TransferInv
<1>2. CASE WaitForRoom
  <2>1. op = "write"
    BY <1>0, <1>2, Sizes DEF WaitForRoom, Poll, PlaceInv
  <2> QED
    BY <1>2, <2>1, PollKeeps DEF WaitForRoom, RoomSeen, Waiting
<1>3. CASE WaitForData
  <2>1. op = "read"
    BY <1>0, <1>3, Sizes DEF WaitForData, Poll, PlaceInv
  <2> QED
    BY <1>3, <2>1, PollKeeps DEF WaitForData, Waiting
<1>4. CASE CheckError
  <2>1. /\ pc = "check" /\ UNCHANGED <<op, pos, polls, buf, fifo, bus, S>>
        /\ \/ pc' \in {"I2cTimeout", "I2cNack"}
           \/ ~Failed /\ pc' = IF op = "write" THEN "push" ELSE "drain"
    BY <1>4 DEF CheckError, ctl, Failed
  <2> QED
    BY <1>0, <2>1, Sizes
    DEF TransferInv, TypeOK, PlaceInv, ByteInv, Counts, Failed, TXD, Waiting, Returned
<1>5. CASE Push
  <2>1. /\ pc = "push" /\ TXD /\ op = "write" /\ pos < N
        /\ fifo' = Append(fifo, Len(bus) + Len(fifo) + 1) /\ pos' = pos + 1
        /\ pc' = (IF pos' < N THEN "room" ELSE "done")
        /\ UNCHANGED <<op, polls, buf, bus, S>>
        /\ pos = Len(bus) + Len(fifo)
    <3>1. pc = "push" /\ TXD /\ op = "write" /\ pos < N /\ pos = Len(bus) + Len(fifo)
      BY <1>0, <1>5, Sizes DEF Push, PlaceInv, ByteInv
    <3>2. Bytes[pos + 1] = pos + 1
      BY <1>0, <3>1, Sizes DEF Bytes
    <3> QED
      BY <1>5, <3>1, <3>2 DEF Push, MoreOr
  <2>2. /\ fifo' \in Seq(0 .. N) /\ Len(fifo') = Len(fifo) + 1 /\ Counts(fifo', Len(bus))
    <3>1. /\ fifo \in Seq(0 .. N) /\ Len(bus) \in Nat /\ Counts(fifo, Len(bus))
          /\ Len(fifo) \in Nat /\ pos \in 0 .. N /\ N \in Nat
      BY <1>0, <2>1, Sizes DEF ByteInv
    <3>2. Len(bus) + Len(fifo) + 1 \in 0 .. N
      BY <2>1, <3>1
    <3> QED
      BY <2>1, <3>1, <3>2, AppendCounts
  <2>3. TypeOK'
    BY <1>0, <2>1, <2>2, Sizes DEF TypeOK, Waiting, Returned, TXD
  <2>4. PlaceInv'
    <3>1. op' = "write" /\ pc' \in {"room", "done"} /\ pos \in 0 .. N /\ N \in Nat
      BY <1>0, <2>1, Sizes
    <3>2. (pc' = "room" => pos' < N) /\ (pc' = "done" => pos' = N)
      BY <2>1, <3>1
    <3> QED
      BY <3>1, <3>2 DEF PlaceInv
  <2>5. ByteInv'
    <3>1. /\ Len(bus) <= N /\ Counts(bus, 0) /\ bus' = bus /\ S' = S /\ op' = "write"
          /\ "TA" \in S => Len(bus) < N
          /\ pc = "push" /\ pc' \in {"room", "done"} /\ pos \in Nat
      BY <1>0, <2>1, Sizes DEF ByteInv
    <3>2. Len(bus') + Len(fifo') = pos' /\ Counts(fifo', Len(bus'))
      BY <2>1, <2>2, <3>1
    <3>3. "DONE" \in S /\ "TA" \notin S /\ ~Failed => Len(bus) = N
      BY <1>0, <2>1, <3>1, Sizes DEF ByteInv
    <3>4. Failed' = Failed
      BY <3>1 DEF Failed
    <3> QED
      BY <3>1, <3>2, <3>3, <3>4 DEF ByteInv
  <2> QED
    BY <2>3, <2>4, <2>5 DEF TransferInv
<1>6. CASE Drain
  <2>0. pc = "drain" /\ op = "read" /\ pos < N /\ UNCHANGED <<op, polls, bus, S>>
    BY <1>0, <1>6, Sizes DEF Drain, PlaceInv
  <2>1. CASE /\ RXD /\ buf' = Append(buf, Head(fifo)) /\ fifo' = Tail(fifo)
             /\ pos' = pos + 1 /\ pc' = MoreOr("drain")
    <3>1. pc' = (IF pos' < N THEN "drain" ELSE "done")
      BY <2>1 DEF MoreOr
    <3>2. /\ Head(fifo) = pos + 1 /\ fifo' \in Seq(0 .. N)
          /\ Len(fifo') = Len(fifo) - 1 /\ Counts(fifo', pos + 1)
      BY <1>0, <2>0, <2>1, Sizes, TailCounts DEF ByteInv, RXD
    <3>3. buf' \in Seq(0 .. N) /\ Len(buf') = pos + 1 /\ Counts(buf', 0)
      <4>1. /\ buf \in Seq(0 .. N) /\ Len(buf) = pos /\ Counts(buf, 0)
            /\ pos \in 0 .. N /\ N \in Nat
        BY <1>0, <2>0, Sizes DEF ByteInv
      <4>2. 0 + Len(buf) + 1 \in 0 .. N /\ 0 + Len(buf) + 1 = Head(fifo)
        BY <2>0, <3>2, <4>1
      <4>3. /\ Append(buf, Head(fifo)) \in Seq(0 .. N)
            /\ Len(Append(buf, Head(fifo))) = Len(buf) + 1
            /\ Counts(Append(buf, Head(fifo)), 0)
        BY <4>1, <4>2, AppendCounts
      <4> QED
        BY <2>1, <4>1, <4>3
    <3>4. TypeOK'
      BY <1>0, <2>0, <2>1, <3>1, <3>2, <3>3, Sizes DEF TypeOK, Waiting, Returned
    <3>5. PlaceInv'
      <4>1. pos \in Nat /\ N \in Nat /\ op' = "read" /\ pos' = pos + 1
        BY <1>0, <2>0, <2>1, Sizes
      <4>2. \/ pc' = "drain" /\ pos' < N
            \/ pc' = "done" /\ pos' = N
        BY <2>0, <3>1, <4>1
      <4> QED
        BY <4>1, <4>2 DEF PlaceInv
    <3>6. ByteInv'
      <4>1. /\ Len(bus) <= N /\ Counts(bus, 0) /\ ("TA" \in S => Len(bus) < N)
            /\ Len(bus) = pos + Len(fifo) /\ Len(fifo) \in Nat /\ pos \in Nat
            /\ bus' = bus /\ S' = S /\ op' = "read" /\ pc' \in {"drain", "done"}
        BY <1>0, <2>0, <3>1, Sizes DEF ByteInv
      <4>2. Len(bus') = pos' + Len(fifo') /\ Counts(fifo', pos')
        BY <2>1, <3>2, <4>1
      <4>3. Len(buf') = pos' /\ Counts(buf', 0)
        BY <2>1, <3>3
      <4> QED
        BY <4>1, <4>2, <4>3 DEF ByteInv
    <3> QED
      BY <3>4, <3>5, <3>6 DEF TransferInv
  <2>2. CASE ~RXD /\ pc' = "data" /\ UNCHANGED <<buf, fifo, pos>>
    BY <1>0, <2>0, <2>2, Sizes
    DEF TransferInv, TypeOK, PlaceInv, ByteInv, Counts, Failed, TXD, Waiting, Returned
  <2> QED
    BY <1>6, <2>1, <2>2 DEF Drain
<1>7. CASE WaitDone
  <2>0. pc = "done" /\ UNCHANGED <<op, pos, buf, fifo, bus>> /\ pos = N
    BY <1>0, <1>7 DEF WaitDone, PlaceInv
  <2>1. CASE DoneSeen /\ pc' = "Ok" /\ polls' = 0 /\ S' = S \cap {"TA"}
    <3>1. S' = {} /\ 0 \in 0 .. PollLimit - 1
      BY <1>0, <2>1, Sizes DEF DoneSeen
    <3>2. Len(bus) = N
      BY <1>0, <2>0, <2>1, Sizes DEF ByteInv, DoneSeen
    <3>3. TypeOK'
      BY <1>0, <2>0, <2>1, <3>1 DEF TypeOK, Returned
    <3> QED
      BY <1>0, <2>0, <2>1, <3>1, <3>2, <3>3, Sizes DEF TransferInv, PlaceInv, ByteInv, Counts
  <2>2. CASE ~DoneSeen /\ Failed /\ pc' = "I2cNack" /\ polls' = 0 /\ UNCHANGED S
    BY <1>0, <2>0, <2>2, Sizes
    DEF TransferInv, TypeOK, PlaceInv, ByteInv, Counts, Failed, TXD, Waiting, Returned
  <2>3. CASE ~DoneSeen /\ ~Failed /\ Miss /\ UNCHANGED S
    <3>1. polls' \in 0 .. PollLimit - 1 /\ pc' \in {"done", "I2cTimeout"}
      BY <1>0, <2>0, <2>3, Sizes, PollsInRange DEF Miss
    <3> QED
      BY <1>0, <2>0, <2>3, <3>1
      DEF TransferInv, TypeOK, PlaceInv, ByteInv, Counts, Failed, TXD, Waiting, Returned
  <2> QED
    BY <1>7, <2>1, <2>2, <2>3 DEF WaitDone
<1> QED
  BY <1>1, <1>2, <1>3, <1>4, <1>5, <1>6, <1>7, <1>8 DEF Driver

\* What an abandoned transfer still does touches nothing of this one.
LEMMA ResidueKeeps ==
  ASSUME TransferInv, Residue, UNCHANGED <<op, pc, pos, polls, buf>>
  PROVE  TransferInv'
<1>1. /\ TypeOK /\ PlaceInv /\ ByteInv /\ pc \in Starting /\ bus' = bus
      /\ bus = <<>> /\ S' \subseteq Flags
  BY DEF TransferInv, PlaceInv, Residue, TypeOK, Flags
<1>2. fifo' \in Seq(0 .. N) /\ Len(fifo') <= Depth
  <2>1. /\ fifo \in Seq(0 .. N) /\ Len(fifo) \in Nat /\ Len(fifo) <= Depth
        /\ Depth \in Nat /\ Stale \in 0 .. N
    BY <1>1, Sizes DEF TypeOK, Stale
  <2>2. CASE fifo # <<>> /\ fifo' = Tail(fifo)
    BY <2>1, <2>2, HeadTailProperties
  <2>3. CASE Len(fifo) < Depth /\ fifo' = Append(fifo, Stale)
    BY <2>1, <2>3, AppendProperties
  <2> QED
    BY <2>1, <2>2, <2>3 DEF Residue
<1>3. TypeOK'
  BY <1>1, <1>2 DEF TypeOK
<1>4. PlaceInv'
  BY <1>1 DEF PlaceInv
<1>5. ByteInv'
  BY <1>1, Sizes, EmptySeq DEF ByteInv, Counts
<1> QED
  BY <1>3, <1>4, <1>5 DEF TransferInv

\* The controller moves the next byte, or gives up; either keeps the
\* invariant, and after Ok it does neither.
LEMMA ControllerKeeps == TransferInv /\ Controller => TransferInv'
<1> SUFFICES ASSUME TransferInv, Controller, Transfer PROVE TransferInv'
  BY ResidueKeeps DEF Controller
<1>0. /\ TypeOK /\ PlaceInv /\ ByteInv /\ pc \notin Starting /\ pc # "Ok"
      /\ UNCHANGED <<op, pc, pos, polls, buf>>
  BY DEF TransferInv, PlaceInv, Controller, Transfer, ShiftOut, ShiftIn, Give, EndShort
<1>1. ASSUME NEW byte, byte = Len(bus) + 1, Shift(byte), "TA" \in S
      PROVE  /\ bus' \in Seq(0 .. N) /\ Len(bus') = Len(bus) + 1 /\ Counts(bus', 0)
             /\ Len(bus') <= N /\ S' \subseteq Flags /\ ("TA" \in S' => Len(bus') < N)
             /\ ("TA" \notin S' => Len(bus') = N)
             /\ Failed' = Failed
  <2>1. Len(bus) < N
    BY <1>0, <1>1 DEF ByteInv
  <2>2. bus' \in Seq(0 .. N) /\ Len(bus') = Len(bus) + 1 /\ Counts(bus', 0)
    BY <1>0, <1>1, <2>1, Sizes, AppendCounts DEF ByteInv, Shift
  <2> QED
    BY <1>0, <1>1, <2>1, <2>2, Sizes DEF Shift, TypeOK, Flags, Failed
<1>2. CASE ShiftOut
  <2>1. op = "write" /\ "TA" \in S /\ fifo # <<>> /\ Shift(Head(fifo)) /\ fifo' = Tail(fifo)
    BY <1>2 DEF ShiftOut
  <2>2. /\ Head(fifo) = Len(bus) + 1 /\ fifo' \in Seq(0 .. N)
        /\ Len(fifo') = Len(fifo) - 1 /\ Counts(fifo', Len(bus) + 1)
    BY <1>0, <2>1, Sizes, TailCounts DEF ByteInv
  <2>3. TypeOK'
    <3>1. bus' \in Seq(0 .. N) /\ S' \subseteq Flags
      BY <1>1, <2>1, <2>2
    <3>2. Len(fifo') <= Depth
      BY <1>0, <2>1, <2>2, Sizes DEF TypeOK
    <3> QED
      BY <1>0, <2>1, <2>2, <3>1, <3>2 DEF TypeOK
  <2>4. PlaceInv'
    <3>1. Failed' = Failed
      BY <1>1, <2>1, <2>2
    <3>2. TXD => TXD'
      BY <1>0, <2>2, Sizes DEF TXD
    <3> QED
      BY <1>0, <2>1, <3>1, <3>2 DEF PlaceInv
  <2>5. ByteInv'
    <3>1. /\ Len(bus) + Len(fifo) = pos /\ Len(bus) \in Nat /\ Len(fifo) \in Nat
          /\ op' = "write" /\ pc' = pc /\ pos' = pos /\ pc' # "Ok" /\ N \in Nat
      BY <1>0, <2>1, Sizes DEF ByteInv
    <3>2. /\ Len(bus') = Len(bus) + 1 /\ Counts(bus', 0) /\ Len(bus') <= N
          /\ ("TA" \in S' => Len(bus') < N) /\ ("TA" \notin S' => Len(bus') = N)
      BY <1>1, <2>1, <2>2
    <3>3. Len(bus') + Len(fifo') = pos' /\ Counts(fifo', Len(bus'))
      BY <2>2, <3>1, <3>2
    <3> QED
      BY <3>1, <3>2, <3>3 DEF ByteInv
  <2> QED
    BY <2>3, <2>4, <2>5 DEF TransferInv
<1>3. CASE ShiftIn
  <2>1. /\ op = "read" /\ "TA" \in S /\ Len(fifo) < Depth /\ Len(bus) < N
        /\ Shift(Len(bus) + 1) /\ fifo' = Append(fifo, pos + Len(fifo) + 1)
    <3>1. Bytes[Len(bus) + 1] = Len(bus) + 1 /\ Len(bus) = pos + Len(fifo) /\ Len(bus) < N
      BY <1>0, <1>3, Sizes DEF ShiftIn, ByteInv, Bytes
    <3> QED
      BY <1>3, <3>1 DEF ShiftIn
  <2>2. /\ fifo' \in Seq(0 .. N) /\ Len(fifo') = Len(fifo) + 1 /\ Counts(fifo', pos)
    <3>1. /\ fifo \in Seq(0 .. N) /\ Counts(fifo, pos) /\ pos \in Nat /\ Len(fifo) \in Nat
          /\ Len(bus) = pos + Len(fifo) /\ N \in Nat
      BY <1>0, <2>1, Sizes DEF ByteInv
    <3>2. pos + Len(fifo) + 1 \in 0 .. N
      BY <2>1, <3>1
    <3> QED
      BY <2>1, <3>1, <3>2, AppendCounts
  <2>3. TypeOK'
    <3>1. bus' \in Seq(0 .. N) /\ S' \subseteq Flags
      BY <1>1, <2>1
    <3>2. Len(fifo') <= Depth
      BY <1>0, <2>1, <2>2, Sizes
    <3> QED
      BY <1>0, <2>1, <2>2, <3>1, <3>2 DEF TypeOK
  <2>4. PlaceInv'
    BY <1>0, <2>1, <2>2, Sizes DEF PlaceInv
  <2>5. ByteInv'
    <3>1. /\ Len(bus) = pos + Len(fifo) /\ Len(buf) = pos /\ Counts(buf, 0)
          /\ Len(fifo) \in Nat /\ pos \in Nat /\ buf' = buf
          /\ op' = "read" /\ pc' = pc /\ pos' = pos /\ pc' # "Ok"
      BY <1>0, <2>1, Sizes DEF ByteInv
    <3>2. /\ Len(bus') = Len(bus) + 1 /\ Counts(bus', 0) /\ Len(bus') <= N
          /\ ("TA" \in S' => Len(bus') < N)
      BY <1>1, <2>1, <3>1
    <3>3. Len(bus') = pos' + Len(fifo') /\ Counts(fifo', pos')
      BY <2>2, <3>1, <3>2
    <3>4. Len(buf') = pos' /\ Counts(buf', 0)
      BY <3>1
    <3> QED
      BY <3>1, <3>2, <3>3, <3>4 DEF ByteInv
  <2> QED
    BY <2>3, <2>4, <2>5 DEF TransferInv
<1>4. ASSUME NEW flag \in {"ERR", "CLKT"}, Give(flag)
      PROVE  TransferInv'
  <2>1. /\ S' = (S \ {"TA"}) \cup {"DONE", flag} /\ UNCHANGED <<fifo, bus>>
        /\ Failed' /\ "TA" \notin S' /\ S' \subseteq Flags
    BY <1>0, <1>4 DEF Give, Failed, TypeOK, Flags
  <2> QED
    BY <1>0, <2>1 DEF TransferInv, TypeOK, PlaceInv, ByteInv, Counts, TXD
<1>5. CASE EndShort
  <2>1. /\ op = "read" /\ UNCHANGED <<fifo, bus>> /\ "TA" \notin S' /\ S' \subseteq Flags
    BY <1>0, <1>5 DEF EndShort, TypeOK, Flags
  <2> QED
    BY <1>0, <2>1 DEF TransferInv, TypeOK, PlaceInv, ByteInv, Counts, TXD
<1> QED
  BY <1>2, <1>3, <1>4, <1>5 DEF Transfer

\* A step that changes nothing keeps it.
LEMMA TransferStill == TransferInv /\ UNCHANGED vars => TransferInv'
  BY DEF TransferInv, TypeOK, PlaceInv, ByteInv, Counts, Failed, TXD, vars

\* The invariant holds in every reachable state.
THEOREM TransferInvariance == Spec => []TransferInv
<1>1. TransferInv /\ [Next]_vars => TransferInv'
  BY DriverKeeps, ControllerKeeps, TransferStill DEF Next, Finished
<1> QED
  BY <1>1, TransferInit, PTL DEF Spec

\* Every variable of the transfer keeps its type (bcm2712_i2c.rs).
THEOREM TransferTypes == Spec => []TypeOK
<1>1. TransferInv => TypeOK
  BY DEF TransferInv
<1> QED
  BY <1>1, TransferInvariance, PTL

\* Ok means exactly the caller's bytes, for every length, FIFO and poll limit
\* (transfer_write, transfer_read).
THEOREM OkMeansExact == Spec => []OkIsExact
<1>1. TransferInv => OkIsExact
  <2> SUFFICES ASSUME TransferInv, pc = "Ok"
               PROVE  bus = Bytes /\ (op = "read" => buf = Bytes)
    BY DEF OkIsExact
  <2>1. TypeOK /\ pos = N /\ Len(bus) = N /\ Counts(bus, 0)
        /\ (op = "read" => Len(buf) = N /\ Counts(buf, 0))
    BY DEF TransferInv, PlaceInv, ByteInv
  <2> QED
    BY <2>1, Sizes, CountsIsPrefix
<1> QED
  BY <1>1, TransferInvariance, PTL

\* A write that fails has landed a prefix, whatever it failed on
\* (transfer_write); Rp1Bootstrap assumes no more of its writes.
THEOREM WriteLandsPrefix == Spec => []LandsPrefix
<1>1. TransferInv => LandsPrefix
  BY Sizes, CountsIsPrefix DEF TransferInv, ByteInv, LandsPrefix
<1> QED
  BY <1>1, TransferInvariance, PTL
-----------------------------------------------------------------------------
(* How long a write can take: its waits are bounded, so its register       *)
(* accesses are.                                                           *)

\* The most accesses one byte costs: the polls of its wait, the look at the
\* error flags and the push; and those of k bytes.
Wait == PollLimit + 2
Waits(k) == k * Wait
Longest == Waits(N) + PollLimit + 2

\* The steps a write has left, at most: an access each, but the first two, which
\* write three registers and two.
WriteLeft ==
  CASE pc = "begin" -> Longest
    [] pc = "start" -> Longest - 1
    [] pc = "room"  -> Waits(N - pos) + PollLimit - polls
    [] pc = "check" -> Waits(N - pos)
    [] pc = "push"  -> Waits(N - pos) - 1
    [] pc = "done"  -> PollLimit - polls
    [] OTHER -> 0

\* A write makes no more than Longest steps at the controller's registers: each
\* one leaves fewer, nothing the controller does adds any, and none are
\* left exactly when the call has returned (wait_for, wait_done).
WriteBounded ==
  /\ [](op = "write" => /\ WriteLeft \in 0 .. Longest
                        /\ WriteLeft = 0 <=> pc \in Returned)
  /\ [][op = "write" => /\ Driver => WriteLeft' < WriteLeft
                        /\ Controller => WriteLeft' = WriteLeft]_vars

\* The bytes left, one by one.
LEMMA WaitsAdd ==
  /\ \A k \in Nat : Waits(k) \in Nat /\ Waits(k + 1) = Waits(k) + PollLimit + 2
  /\ \A k \in 0 .. N : Waits(k) <= Waits(N)
<1>1. Wait \in Nat /\ N \in Nat /\ PollLimit \in Nat
  BY SizesAssumption DEF Wait
<1>2. ASSUME NEW k \in Nat
      PROVE  Waits(k) \in Nat /\ Waits(k + 1) = Waits(k) + PollLimit + 2
  <2>1. k * Wait \in Nat /\ (k + 1) * Wait = k * Wait + Wait
    BY <1>1
  <2> QED
    BY <1>1, <2>1 DEF Waits, Wait
<1>3. ASSUME NEW k \in 0 .. N PROVE Waits(k) <= Waits(N)
  <2>1. (N - k) \in Nat /\ (N - k) * Wait \in Nat /\ N * Wait = k * Wait + (N - k) * Wait
    BY <1>1
  <2>2. k * Wait \in Nat
    BY <1>1
  <2> QED
    BY <2>1, <2>2 DEF Waits
<1> QED
  BY <1>2, <1>3

\* What is left at each place, as a number of bytes and of polls.
LEMMA WriteLeftAt ==
  ASSUME TransferInv, op = "write", NEW k, k = N - pos
  PROVE  /\ PollLimit \in Nat /\ PollLimit > 0
         /\ k \in 0 .. N /\ Waits(k) \in Nat /\ Waits(k) <= Waits(N) /\ Waits(N) \in Nat
         /\ (pc \in {"room", "check", "push"} =>
               k - 1 \in Nat /\ Waits(k - 1) \in Nat
               /\ Waits(k) = Waits(k - 1) + PollLimit + 2)
         /\ polls \in 0 .. PollLimit - 1
         /\ (pc = "room" => WriteLeft = Waits(k) + PollLimit - polls)
         /\ (pc = "check" => WriteLeft = Waits(k))
         /\ (pc = "push" => WriteLeft = Waits(k) - 1)
<1>1. /\ PollLimit \in Nat /\ PollLimit > 0
      /\ pos \in 0 .. N /\ polls \in 0 .. PollLimit - 1 /\ N \in Nat
  BY Sizes DEF TransferInv
<1>2. k \in 0 .. N
  BY <1>1
<1>3. Waits(k) \in Nat /\ Waits(k) <= Waits(N) /\ Waits(N) \in Nat
  BY <1>1, <1>2, WaitsAdd
<1>4. ASSUME pc \in {"room", "check", "push"}
      PROVE  k - 1 \in Nat /\ Waits(k - 1) \in Nat /\ Waits(k) = Waits(k - 1) + PollLimit + 2
  <2>1. k - 1 \in Nat /\ (k - 1) + 1 = k
    BY <1>1, <1>4 DEF TransferInv, PlaceInv
  <2> QED
    BY <2>1, WaitsAdd
<1>5. /\ (pc = "room" => WriteLeft = Waits(k) + PollLimit - polls)
      /\ (pc = "check" => WriteLeft = Waits(k))
      /\ (pc = "push" => WriteLeft = Waits(k) - 1)
  BY DEF WriteLeft
<1> QED
  BY <1>1, <1>2, <1>3, <1>4, <1>5

\* What is left is a number, and nothing once the call has returned.
LEMMA WriteLeftRange ==
  ASSUME TransferInv, op = "write"
  PROVE  WriteLeft \in 0 .. Longest /\ (WriteLeft = 0 <=> pc \in Returned)
<1> DEFINE k == N - pos
<1>1. /\ PollLimit \in Nat /\ PollLimit > 0
      /\ k \in 0 .. N /\ Waits(k) \in Nat /\ Waits(k) <= Waits(N) /\ Waits(N) \in Nat
      /\ (pc \in {"room", "check", "push"} =>
            k - 1 \in Nat /\ Waits(k - 1) \in Nat
            /\ Waits(k) = Waits(k - 1) + PollLimit + 2)
      /\ polls \in 0 .. PollLimit - 1
      /\ (pc = "room" => WriteLeft = Waits(k) + PollLimit - polls)
      /\ (pc = "check" => WriteLeft = Waits(k))
      /\ (pc = "push" => WriteLeft = Waits(k) - 1)
  BY WriteLeftAt
<1> HIDE DEF k
<1>2. /\ (pc = "begin" => WriteLeft = Longest)
      /\ (pc = "start" => WriteLeft = Longest - 1)
      /\ (pc = "done" => WriteLeft = PollLimit - polls)
      /\ (pc \in Returned => WriteLeft = 0)
  BY DEF WriteLeft, Returned
<1>3. pc \in {"begin", "start", "room", "check", "push", "done"} \cup Returned
  BY DEF TransferInv, TypeOK, PlaceInv, Waiting
<1>4. "begin" \notin Returned /\ "start" \notin Returned /\ "room" \notin Returned /\ "check" \notin Returned
      /\ "push" \notin Returned /\ "done" \notin Returned
  BY DEF Returned
<1> QED
  BY <1>1, <1>2, <1>3, <1>4 DEF Longest

\* A step of the driver leaves fewer of them.
LEMMA DriverShortens ==
  ASSUME TransferInv, TransferInv', op = "write", Driver
  PROVE  WriteLeft' < WriteLeft
<1> DEFINE k == N - pos
<1>0. /\ PollLimit \in Nat /\ PollLimit > 0
      /\ k \in 0 .. N /\ Waits(k) \in Nat /\ Waits(k) <= Waits(N) /\ Waits(N) \in Nat
      /\ (pc \in {"room", "check", "push"} =>
            k - 1 \in Nat /\ Waits(k - 1) \in Nat
            /\ Waits(k) = Waits(k - 1) + PollLimit + 2)
      /\ polls \in 0 .. PollLimit - 1
      /\ (pc = "room" => WriteLeft = Waits(k) + PollLimit - polls)
      /\ (pc = "check" => WriteLeft = Waits(k))
      /\ (pc = "push" => WriteLeft = Waits(k) - 1)
  BY WriteLeftAt
<1>a. /\ pos \in 0 .. N /\ N \in Nat /\ polls' \in 0 .. PollLimit - 1
      /\ pos' \in 0 .. N
  BY Sizes, SizesAssumption DEF TransferInv, TypeOK
<1>b. pc' \in Returned => WriteLeft' = 0
  BY DEF WriteLeft, Returned
<1>c. WriteLeft \in Nat /\ (WriteLeft = 0 => pc \in Returned)
  BY WriteLeftRange, <1>0 DEF Longest
<1>1. CASE Begin
  <2>1. WriteLeft = Longest /\ WriteLeft' = Longest - 1
    BY <1>1 DEF Begin, WriteLeft
  <2> QED
    BY <2>1, <1>0 DEF Longest
<1>8. CASE Start
  <2>1. pc = "start" /\ pc' = "room" /\ pos = 0 /\ pos' = 0
    BY <1>8 DEF Start, TransferInv, PlaceInv
  <2>2. WriteLeft = Longest - 1
    BY <2>1 DEF WriteLeft
  <2>3. WriteLeft' = Waits(N) + PollLimit - polls'
    <3>1. N - pos' = N
      BY <2>1, <1>a
    <3> QED
      BY <2>1, <3>1 DEF WriteLeft
  <2> QED
    BY <2>2, <2>3, <1>0, <1>a DEF Longest
<1>2. CASE WaitForRoom
  <2>1. pc = "room" /\ pos' = pos
    BY <1>2 DEF WaitForRoom, Poll
  <2>2. CASE pc' = "check"
    <3>1. WriteLeft' = Waits(k)
      BY <2>1, <2>2 DEF WriteLeft
    <3> QED
      BY <1>0, <2>1, <3>1
  <2>3. CASE Miss /\ polls + 1 = PollLimit
    BY <2>1, <2>3, <1>b, <1>c DEF Miss, Returned
  <2>4. CASE Miss /\ polls + 1 # PollLimit
    <3>1. pc' = "room" /\ polls' = polls + 1
      BY <2>1, <2>4, <1>0 DEF Miss
    <3>2. WriteLeft' = Waits(k) + PollLimit - (polls + 1)
      BY <2>1, <3>1 DEF WriteLeft
    <3> QED
      BY <1>0, <2>1, <3>2
  <2> QED
    BY <1>2, <2>2, <2>3, <2>4 DEF WaitForRoom, Poll
<1>3. CASE WaitForData
  BY <1>3 DEF WaitForData, Poll, TransferInv, PlaceInv
<1>4. CASE CheckError
  <2>1. pc = "check" /\ pos' = pos /\ pc' \in {"I2cTimeout", "I2cNack", "push"}
    BY <1>4 DEF CheckError
  <2>2. CASE pc' = "push"
    <3>1. WriteLeft' = Waits(k) - 1
      BY <2>1, <2>2 DEF WriteLeft
    <3> QED
      BY <1>0, <2>1, <3>1
  <2>3. CASE pc' \in Returned
    BY <2>1, <2>3, <1>b, <1>c DEF Returned
  <2> QED
    BY <2>1, <2>2, <2>3 DEF Returned
<1>5. CASE Push
  <2>1. pc = "push" /\ pos' = pos + 1 /\ pc' = (IF pos' < N THEN "room" ELSE "done")
    BY <1>5 DEF Push, MoreOr
  <2>3. CASE pc' = "room"
    <3>1. N - pos' = k - 1
      BY <1>a, <2>1
    <3>2. WriteLeft' = Waits(N - pos') + PollLimit - polls'
      BY <2>3 DEF WriteLeft
    <3>3. WriteLeft' = Waits(k - 1) + PollLimit - polls'
      BY <3>1, <3>2
    <3> HIDE DEF k
    <3> QED
      BY <1>0, <1>a, <2>1, <3>3
  <2>4. CASE pc' = "done"
    <3>1. WriteLeft' = PollLimit - polls'
      BY <2>4 DEF WriteLeft
    <3> HIDE DEF k
    <3> QED
      BY <1>0, <1>a, <2>1, <3>1
  <2> QED
    BY <2>1, <2>3, <2>4
<1>6. CASE Drain
  BY <1>6 DEF Drain, TransferInv, PlaceInv
<1>7. CASE WaitDone
  <2>1. pc = "done"
    BY <1>7 DEF WaitDone
  <2>2. CASE pc' \in Returned
    BY <2>1, <2>2, <1>b, <1>c DEF Returned
  <2>3. CASE Miss /\ polls + 1 # PollLimit
    <3>1. pc' = "done" /\ polls' = polls + 1
      BY <2>1, <2>3, <1>0 DEF Miss
    <3>2. WriteLeft = PollLimit - polls /\ WriteLeft' = PollLimit - (polls + 1)
      BY <2>1, <3>1 DEF WriteLeft
    <3> QED
      BY <1>0, <3>2
  <2>4. CASE Miss /\ polls + 1 = PollLimit
    BY <2>1, <2>4, <1>b, <1>c DEF Miss, Returned
  <2> QED
    BY <1>7, <2>2, <2>3, <2>4 DEF WaitDone, Returned
<1> QED
  BY <1>1, <1>2, <1>3, <1>4, <1>5, <1>6, <1>7, <1>8 DEF Driver

\* A write returns within Longest steps at the registers, for every length, FIFO and
\* poll limit (transfer_write); that the driver makes the next access at all is
\* fairness.
THEOREM WriteIsBounded == Spec => WriteBounded
<1>1. TransferInv => (op = "write" => /\ WriteLeft \in 0 .. Longest
                                      /\ WriteLeft = 0 <=> pc \in Returned)
  BY WriteLeftRange
<1>2. ASSUME TransferInv, TransferInv', [Next]_vars
      PROVE  [op = "write" => /\ Driver => WriteLeft' < WriteLeft
                              /\ Controller => WriteLeft' = WriteLeft]_vars
  <2>1. Controller => WriteLeft' = WriteLeft
    BY DEF Controller, WriteLeft
  <2>2. ASSUME op = "write", Driver PROVE WriteLeft' < WriteLeft
    BY <1>2, <2>2, DriverShortens
  <2> QED
    BY <2>1, <2>2
<1> QED
  BY <1>1, <1>2, TransferInvariance, PTL DEF Spec, WriteBounded

-----------------------------------------------------------------------------
(* A write implements the abstract one.                                    *)

\* The bytes of a finished write are the packet's.
LEMMA FinishedIsWhole ==
  ASSUME TransferInv', bus' = bus, pc' = "Ok"
  PROVE  bus = Bytes
<1>1. bus \in Seq(0 .. N) /\ Len(bus) = N /\ Counts(bus, 0)
  BY DEF TransferInv, TypeOK, ByteInv, Counts
<1> QED
  BY <1>1, Sizes, CountsIsPrefix

\* No access of the driver lands a byte; one that returns ends the write.
LEMMA DriverMaps ==
  ASSUME TransferInv, TransferInv', Driver, op = "write"
  PROVE  Write!Next \/ UNCHANGED Write!vars
<1>1. op' = "write" /\ pc \notin Returned
  BY DEF Driver, Begin, Start, WaitForRoom, WaitForData, Poll, Waiting, CheckError, Push,
     Drain, WaitDone, Returned
<1>2. bus' = bus
  BY DEF Driver, Begin, Start, WaitForRoom, WaitForData, Poll, CheckError, Push, Drain,
     WaitDone, ctl
<1>3. CASE pc' \notin Returned
  BY <1>1, <1>2, <1>3 DEF Write!vars
<1>4. CASE pc' \in {"I2cNack", "I2cTimeout"}
  BY <1>1, <1>2, <1>4 DEF Write!Next, Write!Fail, Returned
<1>5. CASE pc' = "Ok"
  BY <1>1, <1>2, <1>5, FinishedIsWhole DEF Write!Next, Write!Succeed, Returned
<1> QED
  BY <1>3, <1>4, <1>5 DEF Returned

\* The byte that crosses the bus is the packet's next.
LEMMA ControllerMaps ==
  ASSUME TransferInv, Controller, op = "write"
  PROVE  Write!Next \/ UNCHANGED Write!vars
<1>1. UNCHANGED <<op, pc>>
  BY DEF Controller
<1>2. CASE Transfer /\ ShiftOut
  <2>1. /\ "TA" \in S /\ fifo # <<>> /\ bus' = Append(bus, Head(fifo))
        /\ Len(bus) < N /\ Counts(fifo, Len(bus)) /\ pc # "Ok"
    BY <1>1, <1>2 DEF Transfer, ShiftOut, Shift, TransferInv, ByteInv, PlaceInv
  <2>2. /\ fifo \in Seq(0 .. N) /\ Len(bus) \in Nat /\ N \in Nat
    BY Sizes DEF TransferInv
  <2>3. Head(fifo) = Len(bus) + 1
    BY <2>1, <2>2, TailCounts
  <2>4. Len(Bytes) = N /\ Bytes[Len(bus) + 1] = Len(bus) + 1
    BY <2>1, <2>2 DEF Bytes
  <2> QED
    BY <1>1, <2>1, <2>3, <2>4 DEF Write!Next, Write!Land
<1>3. CASE ~(Transfer /\ ShiftOut)
  <2>1. bus' = bus
    BY <1>3 DEF Controller, Transfer, Residue, ShiftIn, Give, EndShort
  <2> QED
    BY <1>1, <2>1 DEF Write!vars
<1> QED
  BY <1>2, <1>3

\* transfer_write keeps the promise of module I2cWrite, for every length, FIFO
\* and poll limit and whatever an abandoned transfer left behind or still does;
\* the controller runs on after an error, so bytes may land after the return.
THEOREM ImplementsWrite == Spec => KeepsWrite
<1>1. Init => Write!Init
  BY DEF Init, Write!Init, Returned
<1>2. TransferInv /\ TransferInv' /\ [Next]_vars => [Write!Next]_(Write!vars)
  <2> SUFFICES ASSUME TransferInv, TransferInv', [Next]_vars
               PROVE  Write!Next \/ UNCHANGED Write!vars
    OBVIOUS
  <2>1. CASE UNCHANGED vars
    BY <2>1 DEF vars, Write!vars
  <2>2. CASE op = "read" /\ Next
    <3>1. op' = op
      BY <2>2 DEF Next, Driver, Begin, Start, WaitForRoom, WaitForData, Poll, CheckError, Push,
         Drain, WaitDone, Controller, Finished, vars
    <3> QED
      BY <2>2, <3>1 DEF Write!vars
  <2>3. CASE op = "write" /\ Next
    BY <2>1, <2>3, DriverMaps, ControllerMaps DEF Next, Finished
  <2> QED
    BY <2>1, <2>2, <2>3 DEF TransferInv, TypeOK
<1> QED
  BY <1>1, <1>2, TransferInvariance, PTL DEF Spec, KeepsWrite, Write!Spec

\* What a caller may find: every write that has returned did so with one of
\* the outcomes that module I2cWrite names, and what lands later does not leave
\* them.
OutcomeAllowed ==
  op = "write" /\ pc \in Returned =>
    [landed |-> Len(bus), ok |-> pc = "Ok"] \in Write!Outcomes(N)

\* A write that has returned did so with one of the outcomes the reload of
\* module Rp1Bootstrap is built on, for every length, FIFO and poll limit.
THEOREM WriteOutcomes == Spec => []OutcomeAllowed
<1>1. TransferInv => OutcomeAllowed
  <2> SUFFICES ASSUME TransferInv, op = "write", pc \in Returned
               PROVE  [landed |-> Len(bus), ok |-> pc = "Ok"] \in Write!Outcomes(N)
    BY DEF OutcomeAllowed
  <2>1. Len(bus) \in 0 .. N /\ (pc = "Ok" => Len(bus) = N)
    BY Sizes DEF TransferInv, ByteInv
  <2>2. CASE pc = "Ok"
    BY <2>1, <2>2 DEF Write!Outcomes
  <2>3. CASE pc # "Ok"
    BY <2>1, <2>3 DEF Write!Outcomes
  <2> QED
    BY <2>2, <2>3
<1> QED
  BY <1>1, TransferInvariance, PTL

=============================================================================
