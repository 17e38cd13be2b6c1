------------------------- MODULE DebugMailboxProofs -------------------------
(***************************************************************************)
(* The debug mailbox for every smoke test shorter than a byte counts, any  *)
(* memory, any number of polls and any length of a session.                *)
(***************************************************************************)
EXTENDS DebugMailbox, TLAPS

Prepares == {"data", "arg", "cmd"}

\* The memory words and the places keep their types.
PlainTypes ==
  /\ pc \in CommandSteps \cup {"answer", "failed", "idle", "dead"}
  /\ session \in BOOLEAN /\ polls \in 0..(PollLimit - 1)
  /\ op \in Packets /\ reply \in Replies \cup Values
  /\ clean \in BOOLEAN

WordTypes ==
  /\ arg \in Addresses /\ data \in Values /\ cmd \in Kinds
  /\ status \in {"OK", "BAD"}
  /\ mem \in [Addresses -> Values] /\ before \in [Addresses -> Values]

NumTypes ==
  /\ seq \in 0..MaxSeq /\ seqw \in 0..MaxSeq /\ ack \in 0..MaxSeq
  /\ fw \in [at : {"wait", "exec", "ack"}, seq : 0..MaxSeq]
  /\ execs \in Nat /\ ran \subseteq 0..MaxSeq

\* The packet in hand, and how many commands have been sent.
OpInv ==
  /\ pc = "idle" => session
  /\ pc = "dead" => ~session
  /\ session /\ pc # "idle" => op.kind # "smoke"
  /\ ~session => op.kind = "smoke" /\ seq <= SmokeLen
  /\ ~session /\ pc \in Prepares => seq < SmokeLen
  /\ session => seq <= MaxPackets
  /\ session /\ pc \in Prepares => seq < MaxPackets
  /\ pc = "data" => op.kind = "write"
  /\ pc = "arg" => op.kind # "continue"
  /\ pc \notin Prepares \cup {"idle"} => seq >= 1
  /\ pc = "idle" /\ op.kind # "smoke" => seq >= 1

\* SEQ is the command before, or for the first packet the last smoke command;
\* while its two bytes are written it is the new one or one byte behind.
SeqInv ==
  /\ pc \in Prepares \cup {"idle"} =>
       seqw = seq \/ (session /\ seq = 0 /\ seqw = SmokeLen)
  /\ pc = "low" => seqw = seq - 1 \/ (session /\ seq = 1 /\ seqw = SmokeLen)
  /\ pc = "high" =>
       seqw = seq \/ (session /\ seq % Base = 0 /\ seq >= Base /\ seqw = seq - Base)
  /\ pc \in {"poll", "status", "answer", "failed", "dead"} => seqw = seq

\* The smoke test gives up at the first failure, so each of its commands is
\* over before the next.
SmokeInv ==
  ~session =>
    /\ pc \in Prepares \cup {"low"} => fw.at = "wait" /\ ack = seqw
    /\ pc \in {"high", "poll"} => fw.at = "wait" \/ ack # seq
    /\ pc \in {"status", "answer"} => fw.at = "wait" /\ ack = seq

\* An acknowledgement is of this session, or the last of the smoke test.
AckInv == session => ack \in ran \/ (ran = {} /\ ack = SmokeLen)

Ours == session /\ clean /\ op.kind # "smoke"
Sent == {"high", "poll", "status", "answer", "failed", "idle"}

\* From a quiet mailbox: nothing has happened until SEQ changes,
QuietInv ==
  Ours /\ pc \in Prepares \cup {"low"} =>
    fw.at = "wait" /\ ack = seqw /\ mem = before /\ execs = 0

\* the words of the command stay as they were written,
WordInv ==
  Ours =>
    /\ op.kind = "write" /\ pc # "data" => data = op.val
    /\ op.kind # "continue" /\ pc \in {"cmd", "low"} \cup Sent => arg = op.addr
    /\ pc \in {"low"} \cup Sent => cmd = op.kind

\* the firmware latches SEQ once, or twice where the low byte wraps,
Fresh == fw.seq = seq
Stale == seq % Base = 0 /\ seq >= Base /\ fw.seq = seq - Base
Again == seq % Base = 0 /\ Fresh

LatchInv ==
  Ours /\ pc \in Sent =>
    /\ fw.at = "wait" =>
         \/ execs = 0 /\ ack # seq
         \/ execs = 1 /\ ack = fw.seq /\ (Fresh \/ Stale)
         \/ execs = 2 /\ ack = fw.seq /\ Again
    /\ fw.at = "exec" =>
         ack # seq /\ ((execs = 0 /\ (Fresh \/ Stale)) \/ (execs = 1 /\ Again))
    /\ fw.at = "ack" =>
         ack # seq /\ ((execs = 1 /\ (Fresh \/ Stale)) \/ (execs = 2 /\ Again))
    /\ pc = "high" =>
         /\ execs < 2
         /\ fw.at # "wait" \/ execs = 1 => fw.seq = seqw
         /\ fw.at = "exec" => execs = 0
    /\ pc \in {"status", "answer"} => fw.at = "wait" /\ ack = seq

\* and memory holds the value once a command has been carried out.
Written == [before EXCEPT ![op.addr] = op.val]

MemInv ==
  Ours /\ pc \in Sent =>
    /\ op.kind = "write" => mem \in {before, Written}
    /\ op.kind # "write" => mem = before
    /\ op.kind = "write" /\ execs > 0 /\ status = "OK" => mem = Written
    /\ op.kind = "read" /\ execs > 0 /\ status = "OK" => data = mem[op.addr]
    /\ pc = "answer" => status = "OK"
    /\ pc = "idle" /\ op.kind = "write" /\ reply = "OK" => mem = Written
    /\ pc = "idle" /\ op.kind = "read" /\ reply \in Values => reply = mem[op.addr]

MailboxInv ==
  /\ PlainTypes /\ WordTypes /\ NumTypes /\ OpInv /\ SeqInv /\ SmokeInv /\ AckInv
  /\ QuietInv /\ WordInv /\ LatchInv /\ MemInv
-----------------------------------------------------------------------------
\* A larger multiple is larger by a whole byte.
LEMMA Multiples ==
  ASSUME NEW B \in Nat, NEW p \in Nat, NEW q \in Nat, p < q
  PROVE  B * q >= B * p + B
<1> DEFINE d == q - p - 1
<1>1. d \in Nat /\ q = p + 1 + d
  OBVIOUS
<1>2. B * (p + 1 + d) = B * p + B + B * d /\ B * d \in Nat /\ B * p \in Nat
  BY <1>1
<1> HIDE DEF d
<1> QED BY <1>1, <1>2

\* The remainder is the only one.
LEMMA Remainder ==
  ASSUME NEW B \in Nat \ {0}, NEW n \in Nat, NEW q \in Nat, NEW r \in 0 .. (B - 1), n = B * q + r
  PROVE  n % B = r
<1> DEFINE p == n \div B
           s == n % B
<1>1. /\ p \in Nat /\ s \in 0 .. (B-1) /\ n = B * p + s
  OBVIOUS
<1> HIDE DEF p, s
<1>2. ~(p < q)
  BY <1>1, Multiples
<1>3. ~(q < p)
  BY <1>1, Multiples
<1>4. p = q
  BY <1>1, <1>2, <1>3
<1>5. B * p = B * q /\ B * p \in Nat
  BY <1>1, <1>4
<1>6. r = s
  BY <1>1, <1>5
<1> QED BY <1>6 DEF s

\* Writing the low byte of n over n - 1 gives n, or n - B where the byte wraps.
LEMMA LowByte ==
  ASSUME NEW B \in Nat \ {0, 1}, NEW n \in Nat \ {0}
  PROVE  /\ n % B # 0 => (n-1) - ((n-1) % B) + (n % B) = n
         /\ n % B = 0 => (n-1) - ((n-1) % B) + (n % B) = n - B /\ n >= B
<1> DEFINE m == n - 1
           q == m \div B
           r == m % B
<1>1. /\ m \in Nat /\ q \in Nat /\ r \in 0 .. (B-1) /\ m = B * q + r /\ n = m + 1
  OBVIOUS
<1>0. m = n - 1 /\ r = (n - 1) % B
  OBVIOUS
<1> HIDE DEF m, q, r
<1>2. CASE r = B - 1
  <2>0. B * (q + 1) = B * q + B /\ B * q \in Nat
    BY <1>1
  <2>1. n = B * (q + 1) + 0 /\ q + 1 \in Nat /\ 0 \in 0 .. (B - 1)
    BY <1>1, <1>2, <2>0
  <2>2. n % B = 0
    BY <2>1, Remainder
  <2> QED BY <1>0, <1>1, <1>2, <2>0, <2>2
<1>3. CASE r < B - 1
  <2>0. B * q \in Nat
    BY <1>1
  <2>1. n = B * q + (r + 1) /\ r + 1 \in 0 .. (B-1) 
    BY <1>1, <1>3, <2>0
  <2>2. n % B = r + 1
    BY <1>1, <2>1, Remainder
  <2> QED BY <1>0, <1>1, <1>3, <2>2
<1> QED BY <1>1, <1>2, <1>3

\* What the sizes allow.
LEMMA Sizes ==
  /\ Base \in Nat \ {0, 1} /\ PollLimit \in Nat \ {0} /\ MaxPackets \in Nat
  /\ SmokeLen \in Nat /\ 2 <= SmokeLen /\ SmokeLen < Base
  /\ MaxSeq \in Nat /\ SmokeLen <= MaxSeq /\ MaxPackets <= MaxSeq
  /\ 0 \in 0..(PollLimit - 1) /\ 0 \in 0..MaxSeq
  /\ \A n \in 0..SmokeLen : n % Base = n
<1>1. /\ Base \in Nat \ {0, 1} /\ PollLimit \in Nat \ {0} /\ MaxPackets \in Nat
      /\ SmokeLen \in Nat /\ 2 <= SmokeLen /\ SmokeLen < Base
  BY MailboxAssumption
<1>2. /\ MaxSeq \in Nat /\ SmokeLen <= MaxSeq /\ MaxPackets <= MaxSeq
      /\ 0 \in 0..(PollLimit - 1) /\ 0 \in 0..MaxSeq
  BY <1>1 DEF MaxSeq
<1>3. ASSUME NEW n \in 0..SmokeLen PROVE n % Base = n
  <2>1. n \in 0..(Base - 1) /\ n = Base * 0 + n /\ n \in Nat /\ 0 \in Nat
    BY <1>1, <1>3
  <2> QED
    BY <1>1, <2>1, Remainder
<1> QED
  BY <1>1, <1>2, <1>3

\* The parts of the invariant, and the types in simpler terms.
LEMMA Parts ==
  ASSUME MailboxInv
  PROVE  /\ PlainTypes /\ WordTypes /\ NumTypes /\ OpInv /\ SeqInv /\ SmokeInv /\ AckInv
         /\ QuietInv /\ WordInv /\ LatchInv /\ MemInv
         /\ op.kind \in Kinds /\ op.addr \in Addresses /\ op.val \in Values
         /\ seq \in Nat /\ seqw \in Nat /\ ack \in Nat /\ fw.seq \in Nat
         /\ fw.at \in {"wait", "exec", "ack"} /\ fw.seq \in 0..MaxSeq
<1>1. PlainTypes /\ WordTypes /\ NumTypes
  BY DEF MailboxInv
<1>2. op.kind \in Kinds /\ op.addr \in Addresses /\ op.val \in Values
  BY <1>1 DEF PlainTypes, Packets
<1>3. fw.at \in {"wait", "exec", "ack"} /\ fw.seq \in 0..MaxSeq
  BY <1>1 DEF NumTypes
<1>4. seq \in Nat /\ seqw \in Nat /\ ack \in Nat /\ fw.seq \in Nat
  BY <1>1, <1>3, Sizes DEF NumTypes
<1> QED
  BY <1>1, <1>2, <1>3, <1>4 DEF MailboxInv

\* The invariant holds once the firmware has set the mailbox up.
LEMMA MailboxInit == Init => MailboxInv
<1> SUFFICES ASSUME Init PROVE MailboxInv
  OBVIOUS
<1>1. Smoke.kind = "smoke" /\ Smoke.addr \in Addresses /\ Smoke.val = Blank
  <2>1. (CHOOSE a \in Addresses : TRUE) \in Addresses
    BY MailboxAssumption
  <2> QED
    BY <2>1 DEF Smoke
<1>2. Smoke \in Packets
  BY <1>1, MailboxAssumption DEF Smoke, Packets, Kinds
<1>3. PlainTypes
  BY <1>2, Sizes DEF Init, PlainTypes, CommandSteps, Replies
<1>4. WordTypes
  BY <1>1, MailboxAssumption DEF Init, WordTypes, Kinds
<1>5. NumTypes
  BY Sizes DEF Init, NumTypes
<1>6. OpInv /\ SeqInv /\ SmokeInv /\ AckInv
  BY <1>1, Sizes DEF Init, OpInv, SeqInv, SmokeInv, AckInv, Prepares
<1>7. QuietInv /\ WordInv /\ LatchInv /\ MemInv
  BY DEF Init, QuietInv, WordInv, LatchInv, MemInv, Ours
<1> QED
  BY <1>3, <1>4, <1>5, <1>6, <1>7 DEF MailboxInv

\* A packet taken from a quiet mailbox starts clean.
LEMMA TakePacketKeeps == MailboxInv /\ TakePacket => MailboxInv'
<1> SUFFICES ASSUME MailboxInv, TakePacket PROVE MailboxInv'
  OBVIOUS
<1>0. /\ PlainTypes /\ WordTypes /\ NumTypes /\ OpInv /\ SeqInv /\ SmokeInv /\ AckInv
      /\ QuietInv /\ WordInv /\ LatchInv /\ MemInv
      /\ op.kind \in Kinds /\ op.addr \in Addresses /\ op.val \in Values
      /\ seq \in Nat /\ seqw \in Nat /\ ack \in Nat /\ fw.seq \in Nat
      /\ fw.at \in {"wait", "exec", "ack"} /\ fw.seq \in 0..MaxSeq
  BY Parts
<1>c. TakePacket
  OBVIOUS
<1>9. /\ op'.kind \in {"read", "write", "continue"} /\ pc = "idle" /\ seq < MaxPackets
      /\ \/ op'.kind = "write" /\ pc' = "data"
         \/ op'.kind = "read" /\ pc' = "arg"
         \/ op'.kind = "continue" /\ pc' = "cmd"
  BY <1>c DEF TakePacket, FirstStep, Kinds
<1>10. /\ UNCHANGED <<session, seq, arg, data, cmd, ack, status, seqw, fw, mem, ran>>
       /\ before' = mem /\ execs' = 0 /\ clean' = (fw.at = "wait" /\ seqw = ack)
  BY <1>c DEF TakePacket, Quiet, args, answer
<1>1. PlainTypes'
  BY <1>0, <1>c, Sizes DEF TakePacket, FirstStep, Quiet, hostVars, args, answer, history,
     PlainTypes, CommandSteps, Packets, Replies, Kinds
<1>2. WordTypes'
  BY <1>0, <1>c, Sizes DEF TakePacket, FirstStep, Quiet, hostVars, args, answer, history,
     WordTypes, Kinds
<1>3. NumTypes'
  BY <1>0, <1>c, Sizes DEF TakePacket, FirstStep, Quiet, hostVars, args, answer, history,
     NumTypes, OpInv, Prepares
<1>4. OpInv'
  BY <1>0, <1>c, Sizes DEF TakePacket, FirstStep, Quiet, hostVars, args, answer, history,
     OpInv, Prepares, Kinds, Packets
<1>5. SeqInv' /\ SmokeInv' /\ AckInv'
  BY <1>0, <1>9, <1>10 DEF SeqInv, SmokeInv, AckInv, OpInv, Prepares
<1>6. QuietInv' /\ WordInv'
  BY <1>9, <1>10 DEF QuietInv, WordInv, Ours, Prepares, Sent
<1>7. LatchInv'
  BY <1>9, <1>10 DEF LatchInv, Sent
<1>8. MemInv'
  BY <1>9, <1>10 DEF MemInv, Sent
<1> QED
  BY <1>1, <1>2, <1>3, <1>4, <1>5, <1>6, <1>7, <1>8 DEF MailboxInv

\* The value of a write.
LEMMA WriteDataKeeps == MailboxInv /\ WriteData => MailboxInv'
<1> SUFFICES ASSUME MailboxInv, WriteData PROVE MailboxInv'
  OBVIOUS
<1>0. /\ PlainTypes /\ WordTypes /\ NumTypes /\ OpInv /\ SeqInv /\ SmokeInv /\ AckInv
      /\ QuietInv /\ WordInv /\ LatchInv /\ MemInv
      /\ op.kind \in Kinds /\ op.addr \in Addresses /\ op.val \in Values
      /\ seq \in Nat /\ seqw \in Nat /\ ack \in Nat /\ fw.seq \in Nat
      /\ fw.at \in {"wait", "exec", "ack"} /\ fw.seq \in 0..MaxSeq
  BY Parts
<1>c. WriteData
  OBVIOUS
<1>1. PlainTypes'
  BY <1>0, <1>c, Sizes DEF WriteData, hostVars, args, answer, history, PlainTypes,
     CommandSteps, Packets, Replies, Kinds
<1>2. WordTypes'
  BY <1>0, <1>c, Sizes DEF WriteData, hostVars, args, answer, history, WordTypes, Kinds
<1>3. NumTypes'
  BY <1>0, <1>c, Sizes DEF WriteData, hostVars, args, answer, history, NumTypes, OpInv, Prepares
<1>4. OpInv'
  BY <1>0, <1>c, Sizes DEF WriteData, hostVars, args, answer, history, OpInv, Prepares, Kinds,
     Packets
<1>5. SeqInv' /\ SmokeInv' /\ AckInv'
  BY <1>0, <1>c, Sizes DEF WriteData, hostVars, args, answer, history, SeqInv, SmokeInv,
     AckInv, OpInv, Prepares
<1>6. QuietInv' /\ WordInv'
  BY <1>0, <1>c, Sizes DEF WriteData, hostVars, args, answer, history, QuietInv, WordInv,
     Ours, Prepares, Sent, Packets, OpInv, WordTypes
<1>7. LatchInv'
  BY <1>0, <1>c, Sizes DEF WriteData, hostVars, args, answer, history, QuietInv, LatchInv,
     SeqInv, OpInv, Ours, Prepares, Sent, Fresh, Stale, Again
<1>8. MemInv'
  BY <1>0, <1>c, Sizes DEF WriteData, hostVars, args, answer, history, MemInv, WordInv,
     QuietInv, LatchInv, OpInv, Ours, Prepares, Sent, Written, WordTypes, NumTypes
<1> QED
  BY <1>1, <1>2, <1>3, <1>4, <1>5, <1>6, <1>7, <1>8 DEF MailboxInv

\* The address.
LEMMA WriteArgsKeeps == MailboxInv /\ WriteArgs => MailboxInv'
<1> SUFFICES ASSUME MailboxInv, WriteArgs PROVE MailboxInv'
  OBVIOUS
<1>0. /\ PlainTypes /\ WordTypes /\ NumTypes /\ OpInv /\ SeqInv /\ SmokeInv /\ AckInv
      /\ QuietInv /\ WordInv /\ LatchInv /\ MemInv
      /\ op.kind \in Kinds /\ op.addr \in Addresses /\ op.val \in Values
      /\ seq \in Nat /\ seqw \in Nat /\ ack \in Nat /\ fw.seq \in Nat
      /\ fw.at \in {"wait", "exec", "ack"} /\ fw.seq \in 0..MaxSeq
  BY Parts
<1>c. WriteArgs
  OBVIOUS
<1>1. PlainTypes'
  BY <1>0, <1>c, Sizes DEF WriteArgs, hostVars, args, answer, history, PlainTypes,
     CommandSteps, Packets, Replies, Kinds
<1>2. WordTypes'
  BY <1>0, <1>c, Sizes DEF WriteArgs, hostVars, args, answer, history, WordTypes, Kinds
<1>3. NumTypes'
  BY <1>0, <1>c, Sizes DEF WriteArgs, hostVars, args, answer, history, NumTypes, OpInv, Prepares
<1>4. OpInv'
  BY <1>0, <1>c, Sizes DEF WriteArgs, hostVars, args, answer, history, OpInv, Prepares, Kinds,
     Packets
<1>5. SeqInv' /\ SmokeInv' /\ AckInv'
  BY <1>0, <1>c, Sizes DEF WriteArgs, hostVars, args, answer, history, SeqInv, SmokeInv,
     AckInv, OpInv, Prepares
<1>6. QuietInv' /\ WordInv'
  BY <1>0, <1>c, Sizes DEF WriteArgs, hostVars, args, answer, history, QuietInv, WordInv,
     Ours, Prepares, Sent, Packets, OpInv, WordTypes
<1>7. LatchInv'
  BY <1>0, <1>c, Sizes DEF WriteArgs, hostVars, args, answer, history, QuietInv, LatchInv,
     SeqInv, OpInv, Ours, Prepares, Sent, Fresh, Stale, Again
<1>8. MemInv'
  BY <1>0, <1>c, Sizes DEF WriteArgs, hostVars, args, answer, history, MemInv, WordInv,
     QuietInv, LatchInv, OpInv, Ours, Prepares, Sent, Written, WordTypes, NumTypes
<1> QED
  BY <1>1, <1>2, <1>3, <1>4, <1>5, <1>6, <1>7, <1>8 DEF MailboxInv

\* The command, and the next number.
LEMMA WriteCommandKeeps == MailboxInv /\ WriteCommand => MailboxInv'
<1> SUFFICES ASSUME MailboxInv, WriteCommand PROVE MailboxInv'
  OBVIOUS
<1>0. /\ PlainTypes /\ WordTypes /\ NumTypes /\ OpInv /\ SeqInv /\ SmokeInv /\ AckInv
      /\ QuietInv /\ WordInv /\ LatchInv /\ MemInv
      /\ op.kind \in Kinds /\ op.addr \in Addresses /\ op.val \in Values
      /\ seq \in Nat /\ seqw \in Nat /\ ack \in Nat /\ fw.seq \in Nat
      /\ fw.at \in {"wait", "exec", "ack"} /\ fw.seq \in 0..MaxSeq
  BY Parts
<1>c. WriteCommand
  OBVIOUS
<1>1. PlainTypes'
  BY <1>0, <1>c, Sizes DEF WriteCommand, hostVars, args, answer, history, PlainTypes,
     CommandSteps, Packets, Replies, Kinds
<1>2. WordTypes'
  BY <1>0, <1>c, Sizes DEF WriteCommand, hostVars, args, answer, history, WordTypes, Kinds
<1>3. NumTypes'
  BY <1>0, <1>c, Sizes DEF WriteCommand, hostVars, args, answer, history, NumTypes, OpInv,
     Prepares
<1>4. OpInv'
  BY <1>0, <1>c, Sizes DEF WriteCommand, hostVars, args, answer, history, OpInv, Prepares,
     Kinds, Packets
<1>5. SeqInv' /\ SmokeInv' /\ AckInv'
  BY <1>0, <1>c, Sizes DEF WriteCommand, hostVars, args, answer, history, SeqInv, SmokeInv,
     AckInv, OpInv, Prepares
<1>6. QuietInv' /\ WordInv'
  BY <1>0, <1>c, Sizes DEF WriteCommand, hostVars, args, answer, history, QuietInv, WordInv,
     Ours, Prepares, Sent, Packets, OpInv, WordTypes
<1>7. LatchInv'
  BY <1>0, <1>c, Sizes DEF WriteCommand, hostVars, args, answer, history, QuietInv, LatchInv,
     SeqInv, OpInv, Ours, Prepares, Sent, Fresh, Stale, Again
<1>8. MemInv'
  BY <1>0, <1>c, Sizes DEF WriteCommand, hostVars, args, answer, history, MemInv, WordInv,
     QuietInv, LatchInv, OpInv, Ours, Prepares, Sent, Written, WordTypes, NumTypes
<1> QED
  BY <1>1, <1>2, <1>3, <1>4, <1>5, <1>6, <1>7, <1>8 DEF MailboxInv

\* The low byte of SEQ: the number itself, or one byte behind it.
LEMMA WriteSeqLowKeeps == MailboxInv /\ WriteSeqLow => MailboxInv'
<1> SUFFICES ASSUME MailboxInv, WriteSeqLow PROVE MailboxInv'
  OBVIOUS
<1>0. /\ PlainTypes /\ WordTypes /\ NumTypes /\ OpInv /\ SeqInv /\ SmokeInv /\ AckInv
      /\ QuietInv /\ WordInv /\ LatchInv /\ MemInv
      /\ op.kind \in Kinds /\ op.addr \in Addresses /\ op.val \in Values
      /\ seq \in Nat /\ seqw \in Nat /\ ack \in Nat /\ fw.seq \in Nat
      /\ fw.at \in {"wait", "exec", "ack"} /\ fw.seq \in 0..MaxSeq
  BY Parts
<1>c. WriteSeqLow
  OBVIOUS
<1>9. \/ seqw' = seq
      \/ session /\ seq % Base = 0 /\ seq >= Base /\ seqw' = seq - Base
  <2>1. seq \in Nat \ {0} /\ pc = "low" /\ seqw' = seqw - (seqw % Base) + (seq % Base)
    BY <1>0, <1>c DEF WriteSeqLow, OpInv, Prepares
  <2>2. CASE session /\ seq = 1 /\ seqw = SmokeLen
    <3>1. SmokeLen % Base = SmokeLen /\ 1 % Base = 1
      BY Sizes
    <3> QED
      BY <2>1, <2>2, <3>1, Sizes
  <2>3. CASE seqw = seq - 1
    <3>1. ~session => seq % Base = seq
      BY <1>0, Sizes DEF OpInv
    <3> QED
      BY <2>1, <2>3, <3>1, LowByte, Sizes
  <2> QED
    BY <1>0, <2>1, <2>2, <2>3 DEF SeqInv
<1>d. ack # seq \/ ~(ack = seqw)
  BY <1>0, <1>c, Sizes DEF SeqInv, OpInv, WriteSeqLow
<1>1. PlainTypes'
  BY <1>0, <1>c, Sizes DEF WriteSeqLow, hostVars, args, answer, history, PlainTypes,
     CommandSteps, Packets, Replies, Kinds
<1>2. WordTypes'
  BY <1>0, <1>c, Sizes DEF WriteSeqLow, hostVars, args, answer, history, WordTypes, Kinds
<1>3. NumTypes'
  BY <1>0, <1>9, <1>c, Sizes DEF WriteSeqLow, args, answer, history, NumTypes, OpInv, Prepares
<1>4. OpInv'
  BY <1>0, <1>c, Sizes DEF WriteSeqLow, hostVars, args, answer, history, OpInv, Prepares,
     Kinds, Packets
<1>5. SeqInv' /\ SmokeInv' /\ AckInv'
  BY <1>0, <1>9, <1>c DEF WriteSeqLow, args, answer, history, SeqInv, SmokeInv, AckInv, Prepares
<1>6. QuietInv' /\ WordInv'
  BY <1>0, <1>c, Sizes DEF WriteSeqLow, hostVars, args, answer, history, QuietInv, WordInv,
     Ours, Prepares, Sent, Packets, OpInv, WordTypes
<1>7. LatchInv'
  BY <1>0, <1>c, Sizes DEF WriteSeqLow, hostVars, args, answer, history, QuietInv, LatchInv,
     SeqInv, OpInv, Ours, Prepares, Sent, Fresh, Stale, Again
<1>8. MemInv'
  BY <1>0, <1>c, Sizes DEF WriteSeqLow, hostVars, args, answer, history, MemInv, WordInv,
     QuietInv, LatchInv, OpInv, Ours, Prepares, Sent, Written, WordTypes, NumTypes
<1> QED
  BY <1>1, <1>2, <1>3, <1>4, <1>5, <1>6, <1>7, <1>8 DEF MailboxInv

\* The rest of SEQ.
LEMMA WriteSeqHighKeeps == MailboxInv /\ WriteSeqHigh => MailboxInv'
<1> SUFFICES ASSUME MailboxInv, WriteSeqHigh PROVE MailboxInv'
  OBVIOUS
<1>0. /\ PlainTypes /\ WordTypes /\ NumTypes /\ OpInv /\ SeqInv /\ SmokeInv /\ AckInv
      /\ QuietInv /\ WordInv /\ LatchInv /\ MemInv
      /\ op.kind \in Kinds /\ op.addr \in Addresses /\ op.val \in Values
      /\ seq \in Nat /\ seqw \in Nat /\ ack \in Nat /\ fw.seq \in Nat
      /\ fw.at \in {"wait", "exec", "ack"} /\ fw.seq \in 0..MaxSeq
  BY Parts
<1>c. WriteSeqHigh
  OBVIOUS
<1>1. PlainTypes'
  BY <1>0, <1>c, Sizes DEF WriteSeqHigh, hostVars, args, answer, history, PlainTypes,
     CommandSteps, Packets, Replies, Kinds
<1>2. WordTypes'
  BY <1>0, <1>c, Sizes DEF WriteSeqHigh, hostVars, args, answer, history, WordTypes, Kinds
<1>3. NumTypes'
  BY <1>0, <1>c, Sizes DEF WriteSeqHigh, hostVars, args, answer, history, NumTypes, OpInv,
     Prepares
<1>4. OpInv'
  BY <1>0, <1>c, Sizes DEF WriteSeqHigh, hostVars, args, answer, history, OpInv, Prepares,
     Kinds, Packets
<1>5. SeqInv' /\ SmokeInv' /\ AckInv'
  BY <1>0, <1>c, Sizes DEF WriteSeqHigh, hostVars, args, answer, history, SeqInv, SmokeInv,
     AckInv, OpInv, Prepares
<1>6. QuietInv' /\ WordInv'
  BY <1>0, <1>c, Sizes DEF WriteSeqHigh, hostVars, args, answer, history, QuietInv, WordInv,
     Ours, Prepares, Sent, Packets, OpInv, WordTypes
<1>7. LatchInv'
  BY <1>0, <1>c, Sizes DEF WriteSeqHigh, hostVars, args, answer, history, QuietInv, LatchInv,
     SeqInv, OpInv, Ours, Prepares, Sent, Fresh, Stale, Again
<1>8. MemInv'
  BY <1>0, <1>c, Sizes DEF WriteSeqHigh, hostVars, args, answer, history, MemInv, WordInv,
     QuietInv, LatchInv, OpInv, Ours, Prepares, Sent, Written, WordTypes, NumTypes
<1> QED
  BY <1>1, <1>2, <1>3, <1>4, <1>5, <1>6, <1>7, <1>8 DEF MailboxInv

\* A poll, the acknowledgement or the last poll.
LEMMA PollAckKeeps == MailboxInv /\ PollAck => MailboxInv'
<1> SUFFICES ASSUME MailboxInv, PollAck PROVE MailboxInv'
  OBVIOUS
<1>0. /\ PlainTypes /\ WordTypes /\ NumTypes /\ OpInv /\ SeqInv /\ SmokeInv /\ AckInv
      /\ QuietInv /\ WordInv /\ LatchInv /\ MemInv
      /\ op.kind \in Kinds /\ op.addr \in Addresses /\ op.val \in Values
      /\ seq \in Nat /\ seqw \in Nat /\ ack \in Nat /\ fw.seq \in Nat
      /\ fw.at \in {"wait", "exec", "ack"} /\ fw.seq \in 0..MaxSeq
  BY Parts
<1>c. PollAck
  OBVIOUS
<1>1. PlainTypes'
  BY <1>0, <1>c, Sizes DEF PollAck, Acked, LastPoll, hostVars, args, answer, history,
     PlainTypes, CommandSteps, Packets, Replies, Kinds
<1>2. WordTypes'
  BY <1>0, <1>c, Sizes DEF PollAck, Acked, LastPoll, hostVars, args, answer, history,
     WordTypes, Kinds
<1>3. NumTypes'
  BY <1>0, <1>c, Sizes DEF PollAck, Acked, LastPoll, hostVars, args, answer, history,
     NumTypes, OpInv, Prepares
<1>4. OpInv'
  BY <1>0, <1>c, Sizes DEF PollAck, Acked, LastPoll, hostVars, args, answer, history, OpInv,
     Prepares, Kinds, Packets
<1>5. SeqInv' /\ SmokeInv' /\ AckInv'
  BY <1>0, <1>c, Sizes DEF PollAck, Acked, LastPoll, hostVars, args, answer, history, SeqInv,
     SmokeInv, AckInv, OpInv, Prepares
<1>6. QuietInv' /\ WordInv'
  BY <1>0, <1>c, Sizes DEF PollAck, Acked, LastPoll, hostVars, args, answer, history,
     QuietInv, WordInv, Ours, Prepares, Sent, Packets, OpInv, WordTypes
<1>7. LatchInv'
  BY <1>0, <1>c, Sizes DEF PollAck, Acked, LastPoll, hostVars, args, answer, history,
     QuietInv, LatchInv, SeqInv, OpInv, Ours, Prepares, Sent, Fresh, Stale, Again
<1>8. MemInv'
  BY <1>0, <1>c, Sizes DEF PollAck, Acked, LastPoll, hostVars, args, answer, history, MemInv,
     WordInv, QuietInv, LatchInv, OpInv, Ours, Prepares, Sent, Written, WordTypes, NumTypes
<1> QED
  BY <1>1, <1>2, <1>3, <1>4, <1>5, <1>6, <1>7, <1>8 DEF MailboxInv

\* The status word.
LEMMA ReadStatusKeeps == MailboxInv /\ ReadStatus => MailboxInv'
<1> SUFFICES ASSUME MailboxInv, ReadStatus PROVE MailboxInv'
  OBVIOUS
<1>0. /\ PlainTypes /\ WordTypes /\ NumTypes /\ OpInv /\ SeqInv /\ SmokeInv /\ AckInv
      /\ QuietInv /\ WordInv /\ LatchInv /\ MemInv
      /\ op.kind \in Kinds /\ op.addr \in Addresses /\ op.val \in Values
      /\ seq \in Nat /\ seqw \in Nat /\ ack \in Nat /\ fw.seq \in Nat
      /\ fw.at \in {"wait", "exec", "ack"} /\ fw.seq \in 0..MaxSeq
  BY Parts
<1>c. ReadStatus
  OBVIOUS
<1>1. PlainTypes'
  BY <1>0, <1>c, Sizes DEF ReadStatus, hostVars, args, answer, history, PlainTypes,
     CommandSteps, Packets, Replies, Kinds
<1>2. WordTypes'
  BY <1>0, <1>c, Sizes DEF ReadStatus, hostVars, args, answer, history, WordTypes, Kinds
<1>3. NumTypes'
  BY <1>0, <1>c, Sizes DEF ReadStatus, hostVars, args, answer, history, NumTypes, OpInv, Prepares
<1>4. OpInv'
  BY <1>0, <1>c, Sizes DEF ReadStatus, hostVars, args, answer, history, OpInv, Prepares,
     Kinds, Packets
<1>5. SeqInv' /\ SmokeInv' /\ AckInv'
  BY <1>0, <1>c, Sizes DEF ReadStatus, hostVars, args, answer, history, SeqInv, SmokeInv,
     AckInv, OpInv, Prepares
<1>6. QuietInv' /\ WordInv'
  BY <1>0, <1>c, Sizes DEF ReadStatus, hostVars, args, answer, history, QuietInv, WordInv,
     Ours, Prepares, Sent, Packets, OpInv, WordTypes
<1>7. LatchInv'
  BY <1>0, <1>c, Sizes DEF ReadStatus, hostVars, args, answer, history, QuietInv, LatchInv,
     SeqInv, OpInv, Ours, Prepares, Sent, Fresh, Stale, Again
<1>8. MemInv'
  BY <1>0, <1>c, Sizes DEF ReadStatus, hostVars, args, answer, history, MemInv, WordInv,
     QuietInv, LatchInv, OpInv, Ours, Prepares, Sent, Written, WordTypes, NumTypes
<1> QED
  BY <1>1, <1>2, <1>3, <1>4, <1>5, <1>6, <1>7, <1>8 DEF MailboxInv

\* The answer to a packet that was carried out.
LEMMA AnswerPacketKeeps == MailboxInv /\ AnswerPacket => MailboxInv'
<1> SUFFICES ASSUME MailboxInv, AnswerPacket PROVE MailboxInv'
  OBVIOUS
<1>0. /\ PlainTypes /\ WordTypes /\ NumTypes /\ OpInv /\ SeqInv /\ SmokeInv /\ AckInv
      /\ QuietInv /\ WordInv /\ LatchInv /\ MemInv
      /\ op.kind \in Kinds /\ op.addr \in Addresses /\ op.val \in Values
      /\ seq \in Nat /\ seqw \in Nat /\ ack \in Nat /\ fw.seq \in Nat
      /\ fw.at \in {"wait", "exec", "ack"} /\ fw.seq \in 0..MaxSeq
  BY Parts
<1>c. AnswerPacket
  OBVIOUS
<1>1. PlainTypes'
  <2>1. op.kind \in {"read", "write", "continue"}
    BY <1>0, <1>c DEF AnswerPacket, OpInv, Kinds
  <2>2. reply' \in Replies \cup Values
    BY <1>0, <1>c, <2>1 DEF AnswerPacket, Reply, Replies, WordTypes
  <2> QED
    BY <1>0, <1>c, <2>2 DEF AnswerPacket, Reply, PlainTypes, CommandSteps, history
<1>2. WordTypes'
  BY <1>0, <1>c, Sizes DEF AnswerPacket, Reply, hostVars, args, answer, history, WordTypes, Kinds
<1>3. NumTypes'
  BY <1>0, <1>c, Sizes DEF AnswerPacket, Reply, hostVars, args, answer, history, NumTypes,
     OpInv, Prepares
<1>4. OpInv'
  BY <1>0, <1>c, Sizes DEF AnswerPacket, Reply, hostVars, args, answer, history, OpInv,
     Prepares, Kinds, Packets
<1>5. SeqInv' /\ SmokeInv' /\ AckInv'
  BY <1>0, <1>c, Sizes DEF AnswerPacket, Reply, hostVars, args, answer, history, SeqInv,
     SmokeInv, AckInv, OpInv, Prepares
<1>6. QuietInv' /\ WordInv'
  BY <1>0, <1>c, Sizes DEF AnswerPacket, Reply, hostVars, args, answer, history, QuietInv,
     WordInv, Ours, Prepares, Sent, Packets, OpInv, WordTypes
<1>7. LatchInv'
  BY <1>0, <1>c, Sizes DEF AnswerPacket, Reply, hostVars, args, answer, history, QuietInv,
     LatchInv, SeqInv, OpInv, Ours, Prepares, Sent, Fresh, Stale, Again
<1>8. MemInv'
  BY <1>0, <1>c, Sizes DEF AnswerPacket, Reply, hostVars, args, answer, history, MemInv,
     WordInv, QuietInv, LatchInv, OpInv, Ours, Prepares, Sent, Written, WordTypes, NumTypes
<1> QED
  BY <1>1, <1>2, <1>3, <1>4, <1>5, <1>6, <1>7, <1>8 DEF MailboxInv

\* The answer to one that was not.
LEMMA FailPacketKeeps == MailboxInv /\ FailPacket => MailboxInv'
<1> SUFFICES ASSUME MailboxInv, FailPacket PROVE MailboxInv'
  OBVIOUS
<1>0. /\ PlainTypes /\ WordTypes /\ NumTypes /\ OpInv /\ SeqInv /\ SmokeInv /\ AckInv
      /\ QuietInv /\ WordInv /\ LatchInv /\ MemInv
      /\ op.kind \in Kinds /\ op.addr \in Addresses /\ op.val \in Values
      /\ seq \in Nat /\ seqw \in Nat /\ ack \in Nat /\ fw.seq \in Nat
      /\ fw.at \in {"wait", "exec", "ack"} /\ fw.seq \in 0..MaxSeq
  BY Parts
<1>c. FailPacket
  OBVIOUS
<1>9. /\ UNCHANGED <<session, seq, op, arg, data, cmd, ack, status, seqw, fw, before, clean,
                      execs, ran>>
      /\ pc = "failed" /\ pc' = "idle" /\ session
  BY <1>c DEF FailPacket, Reply, args, answer, history
<1>10. \/ op.kind = "write" /\ mem' = [mem EXCEPT ![op.addr] = op.val] /\ reply' = "OK"
       \/ mem' = mem /\ reply' \in {"E01", "S05"}
  BY <1>c DEF FailPacket, Reply
<1>1. PlainTypes'
  BY <1>0, <1>c, Sizes DEF FailPacket, Reply, hostVars, args, answer, history, PlainTypes,
     CommandSteps, Packets, Replies, Kinds
<1>2. WordTypes'
  BY <1>0, <1>c, Sizes DEF FailPacket, Reply, hostVars, args, answer, history, WordTypes, Kinds
<1>3. NumTypes'
  BY <1>0, <1>c, Sizes DEF FailPacket, Reply, hostVars, args, answer, history, NumTypes,
     OpInv, Prepares
<1>4. OpInv'
  BY <1>0, <1>c, Sizes DEF FailPacket, Reply, hostVars, args, answer, history, OpInv,
     Prepares, Kinds, Packets
<1>5. SeqInv' /\ SmokeInv' /\ AckInv'
  BY <1>0, <1>c, Sizes DEF FailPacket, Reply, hostVars, args, answer, history, SeqInv,
     SmokeInv, AckInv, OpInv, Prepares
<1>6. QuietInv' /\ WordInv'
  BY <1>0, <1>9 DEF QuietInv, WordInv, Ours, Prepares, Sent
<1>7. LatchInv'
  BY <1>0, <1>c, Sizes DEF FailPacket, Reply, hostVars, args, answer, history, QuietInv,
     LatchInv, SeqInv, OpInv, Ours, Prepares, Sent, Fresh, Stale, Again
<1>8. MemInv'
  <2> SUFFICES ASSUME Ours' PROVE MemInv'
    BY DEF MemInv
  <2>1. Ours /\ Written' = Written
    BY <1>9 DEF Ours, Written
  <2>2. CASE op.kind = "write" /\ mem' = [mem EXCEPT ![op.addr] = op.val] /\ reply' = "OK"
    <3>1. mem \in {before, Written}
      BY <1>0, <1>9, <2>1, <2>2 DEF MemInv, Sent
    <3>2. mem' = Written
      BY <1>0, <2>2, <3>1 DEF Written, WordTypes
    <3> QED
      BY <1>9, <2>1, <2>2, <3>2 DEF MemInv
  <2>3. CASE mem' = mem /\ reply' \in {"E01", "S05"}
    <3>1. reply' # "OK" /\ reply' \notin Values
      BY <2>3, MailboxAssumption DEF Replies
    <3> QED
      BY <1>0, <1>9, <2>1, <2>3, <3>1 DEF MemInv, Sent
  <2> QED
    BY <1>10, <2>2, <2>3
<1> QED
  BY <1>1, <1>2, <1>3, <1>4, <1>5, <1>6, <1>7, <1>8 DEF MailboxInv

\* The next smoke command, or the session.
LEMMA SmokePassedKeeps == MailboxInv /\ SmokePassed => MailboxInv'
<1> SUFFICES ASSUME MailboxInv, SmokePassed PROVE MailboxInv'
  OBVIOUS
<1>0. /\ PlainTypes /\ WordTypes /\ NumTypes /\ OpInv /\ SeqInv /\ SmokeInv /\ AckInv
      /\ QuietInv /\ WordInv /\ LatchInv /\ MemInv
      /\ op.kind \in Kinds /\ op.addr \in Addresses /\ op.val \in Values
      /\ seq \in Nat /\ seqw \in Nat /\ ack \in Nat /\ fw.seq \in Nat
      /\ fw.at \in {"wait", "exec", "ack"} /\ fw.seq \in 0..MaxSeq
  BY Parts
<1>c. SmokePassed
  OBVIOUS
<1>1. PlainTypes'
  BY <1>0, <1>c, Sizes DEF SmokePassed, hostVars, args, answer, history, PlainTypes,
     CommandSteps, Packets, Replies, Kinds
<1>2. WordTypes'
  BY <1>0, <1>c, Sizes DEF SmokePassed, hostVars, args, answer, history, WordTypes, Kinds
<1>3. NumTypes'
  BY <1>0, <1>c, Sizes DEF SmokePassed, hostVars, args, answer, history, NumTypes, OpInv, Prepares
<1>4. OpInv'
  BY <1>0, <1>c, Sizes DEF SmokePassed, hostVars, args, answer, history, OpInv, Prepares,
     Kinds, Packets
<1>5. SeqInv' /\ SmokeInv' /\ AckInv'
  BY <1>0, <1>c, Sizes DEF SmokePassed, hostVars, args, answer, history, SeqInv, SmokeInv,
     AckInv, OpInv, Prepares
<1>6. QuietInv' /\ WordInv'
  BY <1>0, <1>c, Sizes DEF SmokePassed, hostVars, args, answer, history, QuietInv, WordInv,
     Ours, Prepares, Sent, Packets, OpInv, WordTypes
<1>7. LatchInv'
  BY <1>0, <1>c, Sizes DEF SmokePassed, hostVars, args, answer, history, QuietInv, LatchInv,
     SeqInv, OpInv, Ours, Prepares, Sent, Fresh, Stale, Again
<1>8. MemInv'
  BY <1>0, <1>c, Sizes DEF SmokePassed, hostVars, args, answer, history, MemInv, WordInv,
     QuietInv, LatchInv, OpInv, Ours, Prepares, Sent, Written, WordTypes, NumTypes
<1> QED
  BY <1>1, <1>2, <1>3, <1>4, <1>5, <1>6, <1>7, <1>8 DEF MailboxInv

\* The end of the smoke test.
LEMMA SmokeFailedKeeps == MailboxInv /\ SmokeFailed => MailboxInv'
<1> SUFFICES ASSUME MailboxInv, SmokeFailed PROVE MailboxInv'
  OBVIOUS
<1>0. /\ PlainTypes /\ WordTypes /\ NumTypes /\ OpInv /\ SeqInv /\ SmokeInv /\ AckInv
      /\ QuietInv /\ WordInv /\ LatchInv /\ MemInv
      /\ op.kind \in Kinds /\ op.addr \in Addresses /\ op.val \in Values
      /\ seq \in Nat /\ seqw \in Nat /\ ack \in Nat /\ fw.seq \in Nat
      /\ fw.at \in {"wait", "exec", "ack"} /\ fw.seq \in 0..MaxSeq
  BY Parts
<1>c. SmokeFailed
  OBVIOUS
<1>1. PlainTypes'
  BY <1>0, <1>c, Sizes DEF SmokeFailed, hostVars, args, answer, history, PlainTypes,
     CommandSteps, Packets, Replies, Kinds
<1>2. WordTypes'
  BY <1>0, <1>c, Sizes DEF SmokeFailed, hostVars, args, answer, history, WordTypes, Kinds
<1>3. NumTypes'
  BY <1>0, <1>c, Sizes DEF SmokeFailed, hostVars, args, answer, history, NumTypes, OpInv, Prepares
<1>4. OpInv'
  BY <1>0, <1>c, Sizes DEF SmokeFailed, hostVars, args, answer, history, OpInv, Prepares,
     Kinds, Packets
<1>5. SeqInv' /\ SmokeInv' /\ AckInv'
  BY <1>0, <1>c, Sizes DEF SmokeFailed, hostVars, args, answer, history, SeqInv, SmokeInv,
     AckInv, OpInv, Prepares
<1>6. QuietInv' /\ WordInv'
  BY <1>0, <1>c, Sizes DEF SmokeFailed, hostVars, args, answer, history, QuietInv, WordInv,
     Ours, Prepares, Sent, Packets, OpInv, WordTypes
<1>7. LatchInv'
  BY <1>0, <1>c, Sizes DEF SmokeFailed, hostVars, args, answer, history, QuietInv, LatchInv,
     SeqInv, OpInv, Ours, Prepares, Sent, Fresh, Stale, Again
<1>8. MemInv'
  BY <1>0, <1>c, Sizes DEF SmokeFailed, hostVars, args, answer, history, MemInv, WordInv,
     QuietInv, LatchInv, OpInv, Ours, Prepares, Sent, Written, WordTypes, NumTypes
<1> QED
  BY <1>1, <1>2, <1>3, <1>4, <1>5, <1>6, <1>7, <1>8 DEF MailboxInv

\* The firmware sees a new number.
LEMMA FwLatchKeeps == MailboxInv /\ FwLatch => MailboxInv'
<1> SUFFICES ASSUME MailboxInv, FwLatch PROVE MailboxInv'
  OBVIOUS
<1>0. /\ PlainTypes /\ WordTypes /\ NumTypes /\ OpInv /\ SeqInv /\ SmokeInv /\ AckInv
      /\ QuietInv /\ WordInv /\ LatchInv /\ MemInv
      /\ op.kind \in Kinds /\ op.addr \in Addresses /\ op.val \in Values
      /\ seq \in Nat /\ seqw \in Nat /\ ack \in Nat /\ fw.seq \in Nat
      /\ fw.at \in {"wait", "exec", "ack"} /\ fw.seq \in 0..MaxSeq
  BY Parts
<1>c. FwLatch
  OBVIOUS
<1>9. /\ fw.at = "wait" /\ seqw # ack /\ fw'.at = "exec" /\ fw'.seq = seqw
      /\ UNCHANGED <<pc, session, seq, op, ack, seqw, clean, execs>>
  BY <1>c DEF FwLatch, hostVars, answer, history
<1>1. PlainTypes'
  BY <1>0, <1>c, Sizes DEF FwLatch, hostVars, args, answer, history, PlainTypes, CommandSteps,
     Packets, Replies, Kinds
<1>2. WordTypes'
  BY <1>0, <1>c, Sizes DEF FwLatch, hostVars, args, answer, history, WordTypes, Kinds
<1>3. NumTypes'
  BY <1>0, <1>c, Sizes DEF FwLatch, hostVars, args, answer, history, NumTypes, OpInv, Prepares
<1>4. OpInv'
  BY <1>0, <1>c, Sizes DEF FwLatch, hostVars, args, answer, history, OpInv, Prepares, Kinds,
     Packets
<1>5. SeqInv' /\ SmokeInv' /\ AckInv'
  BY <1>0, <1>c, Sizes DEF FwLatch, hostVars, args, answer, history, SeqInv, SmokeInv, AckInv,
     OpInv, Prepares
<1>6. QuietInv' /\ WordInv'
  BY <1>0, <1>c, Sizes DEF FwLatch, hostVars, args, answer, history, QuietInv, WordInv, Ours,
     Prepares, Sent, Packets, OpInv, WordTypes
<1>7. LatchInv'
  <2> SUFFICES ASSUME Ours, pc \in Sent PROVE LatchInv'
    BY <1>9 DEF LatchInv, Ours
  <2>1. seqw = seq \/ (pc = "high" /\ seq % Base = 0 /\ seq >= Base /\ seqw = seq - Base)
    BY <1>0 DEF SeqInv, OpInv, Ours, Sent, Prepares
  <2>2. \/ execs = 0 /\ ack # seq
        \/ execs = 1 /\ ack = fw.seq /\ (Fresh \/ Stale)
        \/ execs = 2 /\ ack = fw.seq /\ Again
    BY <1>0, <1>9 DEF LatchInv
  <2>3. pc = "high" => execs = 0
    BY <1>0, <1>9, <2>1, <2>2 DEF LatchInv
  <2>4. CASE seqw = seq
    BY <1>0, <1>9, <2>2, <2>3, <2>4 DEF LatchInv, Fresh, Stale, Again
  <2>5. CASE pc = "high" /\ seq % Base = 0 /\ seq >= Base /\ seqw = seq - Base
    <3>1. seq # seq - Base
      BY <1>0, Sizes
    <3> QED
      BY <1>0, <1>9, <2>2, <2>3, <2>5, <3>1 DEF LatchInv, Fresh, Stale, Again
  <2> QED
    BY <2>1, <2>4, <2>5
<1>8. MemInv'
  BY <1>0, <1>c, Sizes DEF FwLatch, hostVars, args, answer, history, MemInv, WordInv,
     QuietInv, LatchInv, OpInv, Ours, Prepares, Sent, Written, WordTypes, NumTypes
<1> QED
  BY <1>1, <1>2, <1>3, <1>4, <1>5, <1>6, <1>7, <1>8 DEF MailboxInv

\* It carries the command out or refuses.
LEMMA FwExecKeeps == MailboxInv /\ FwExec => MailboxInv'
<1> SUFFICES ASSUME MailboxInv, FwExec PROVE MailboxInv'
  OBVIOUS
<1>0. /\ PlainTypes /\ WordTypes /\ NumTypes /\ OpInv /\ SeqInv /\ SmokeInv /\ AckInv
      /\ QuietInv /\ WordInv /\ LatchInv /\ MemInv
      /\ op.kind \in Kinds /\ op.addr \in Addresses /\ op.val \in Values
      /\ seq \in Nat /\ seqw \in Nat /\ ack \in Nat /\ fw.seq \in Nat
      /\ fw.at \in {"wait", "exec", "ack"} /\ fw.seq \in 0..MaxSeq
  BY Parts
<1>c. FwExec
  OBVIOUS
<1>1. PlainTypes'
  BY <1>0, <1>c, Sizes DEF FwExec, hostVars, args, answer, history, PlainTypes, CommandSteps,
     Packets, Replies, Kinds
<1>2. WordTypes'
  BY <1>0, <1>c, Sizes DEF FwExec, hostVars, args, answer, history, WordTypes, Kinds
<1>3. NumTypes'
  BY <1>0, <1>c, Sizes DEF FwExec, hostVars, args, answer, history, NumTypes, OpInv, Prepares
<1>4. OpInv'
  BY <1>0, <1>c, Sizes DEF FwExec, hostVars, args, answer, history, OpInv, Prepares, Kinds,
     Packets
<1>5. SeqInv' /\ SmokeInv' /\ AckInv'
  BY <1>0, <1>c, Sizes DEF FwExec, hostVars, args, answer, history, SeqInv, SmokeInv, AckInv,
     OpInv, Prepares
<1>6. QuietInv' /\ WordInv'
  <2>1. /\ UNCHANGED <<pc, session, op, arg, cmd, ack, seqw, before, clean>>
        /\ fw.at = "exec" /\ (data' = data \/ cmd = "read")
    BY <1>c DEF FwExec, hostVars
  <2>2. QuietInv'
    BY <1>0, <2>1 DEF QuietInv, Ours
  <2>3. Ours /\ pc # "data" => pc \in {"low"} \cup Sent \/ pc \in Prepares
    BY <1>0 DEF PlainTypes, CommandSteps, Sent, Prepares, Ours, OpInv
  <2>4. Ours /\ op.kind = "write" => data' = data \/ pc = "data"
    BY <1>0, <2>1, <2>3 DEF WordInv, QuietInv, Ours
  <2>5. WordInv'
    BY <1>0, <2>1, <2>4 DEF WordInv, Ours
  <2> QED
    BY <2>2, <2>5
<1>7. LatchInv'
  BY <1>0, <1>c, Sizes DEF FwExec, hostVars, args, answer, history, QuietInv, LatchInv,
     SeqInv, OpInv, Ours, Prepares, Sent, Fresh, Stale, Again
<1>8. MemInv'
  BY <1>0, <1>c, Sizes DEF FwExec, hostVars, args, answer, history, MemInv, WordInv, QuietInv,
     LatchInv, OpInv, Ours, Prepares, Sent, Written, WordTypes, NumTypes
<1> QED
  BY <1>1, <1>2, <1>3, <1>4, <1>5, <1>6, <1>7, <1>8 DEF MailboxInv

\* It acknowledges.
LEMMA FwAckKeeps == MailboxInv /\ FwAck => MailboxInv'
<1> SUFFICES ASSUME MailboxInv, FwAck PROVE MailboxInv'
  OBVIOUS
<1>0. /\ PlainTypes /\ WordTypes /\ NumTypes /\ OpInv /\ SeqInv /\ SmokeInv /\ AckInv
      /\ QuietInv /\ WordInv /\ LatchInv /\ MemInv
      /\ op.kind \in Kinds /\ op.addr \in Addresses /\ op.val \in Values
      /\ seq \in Nat /\ seqw \in Nat /\ ack \in Nat /\ fw.seq \in Nat
      /\ fw.at \in {"wait", "exec", "ack"} /\ fw.seq \in 0..MaxSeq
  BY Parts
<1>c. FwAck
  OBVIOUS
<1>1. PlainTypes'
  BY <1>0, <1>c, Sizes DEF FwAck, hostVars, args, answer, history, PlainTypes, CommandSteps,
     Packets, Replies, Kinds
<1>2. WordTypes'
  BY <1>0, <1>c, Sizes DEF FwAck, hostVars, args, answer, history, WordTypes, Kinds
<1>3. NumTypes'
  BY <1>0, <1>c, Sizes DEF FwAck, hostVars, args, answer, history, NumTypes, OpInv, Prepares
<1>4. OpInv'
  BY <1>0, <1>c, Sizes DEF FwAck, hostVars, args, answer, history, OpInv, Prepares, Kinds, Packets
<1>5. SeqInv' /\ SmokeInv' /\ AckInv'
  BY <1>0, <1>c, Sizes DEF FwAck, hostVars, args, answer, history, SeqInv, SmokeInv, AckInv,
     OpInv, Prepares
<1>6. QuietInv' /\ WordInv'
  BY <1>0, <1>c, Sizes DEF FwAck, hostVars, args, answer, history, QuietInv, WordInv, Ours,
     Prepares, Sent, Packets, OpInv, WordTypes
<1>7. LatchInv'
  BY <1>0, <1>c, Sizes DEF FwAck, hostVars, args, answer, history, QuietInv, LatchInv, SeqInv,
     OpInv, Ours, Prepares, Sent, Fresh, Stale, Again
<1>8. MemInv'
  BY <1>0, <1>c, Sizes DEF FwAck, hostVars, args, answer, history, MemInv, WordInv, QuietInv,
     LatchInv, OpInv, Ours, Prepares, Sent, Written, WordTypes, NumTypes
<1> QED
  BY <1>1, <1>2, <1>3, <1>4, <1>5, <1>6, <1>7, <1>8 DEF MailboxInv

\* The invariant holds in every reachable state.
THEOREM MailboxInvariance == Spec => []MailboxInv
<1>1. MailboxInv /\ UNCHANGED vars => MailboxInv'
  BY DEF MailboxInv, PlainTypes, WordTypes, NumTypes, OpInv, SeqInv, SmokeInv, AckInv, QuietInv,
         WordInv, LatchInv, MemInv, Ours, Fresh, Stale, Again, Written, vars, hostVars, args,
         answer, history
<1>2. MailboxInv /\ [Next]_vars => MailboxInv'
  BY <1>1, TakePacketKeeps, WriteDataKeeps, WriteArgsKeeps, WriteCommandKeeps,
     WriteSeqLowKeeps, WriteSeqHighKeeps, PollAckKeeps, ReadStatusKeeps, AnswerPacketKeeps,
     FailPacketKeeps, SmokePassedKeeps, SmokeFailedKeeps, FwLatchKeeps, FwExecKeeps,
     FwAckKeeps DEF Next, Host, Firmware, Finished
<1> QED
  BY <1>2, MailboxInit, PTL DEF Spec

\* Every variable of the host, the mailbox and the firmware keeps its type
\* (rp1_debug_stub.rs).
THEOREM MailboxTypes == Spec => []TypeOK
<1>1. MailboxInv => TypeOK
  BY DEF MailboxInv, PlainTypes, WordTypes, NumTypes, TypeOK
<1> QED
  BY <1>1, MailboxInvariance, PTL

\* A packet that found the mailbox quiet is answered truthfully.
THEOREM AnswersAreClean == Spec => []CleanAnswers
<1>1. MailboxInv => CleanAnswers
  <2> SUFFICES ASSUME MailboxInv, session, pc = "idle", clean
               PROVE  /\ op.kind = "write" /\ reply = "OK" => mem = Written
                      /\ op.kind = "read" /\ reply \in Values =>
                           reply = mem[op.addr] /\ mem = before
    BY DEF CleanAnswers, Written
  <2> QED
    BY DEF MailboxInv, MemInv, Ours, Sent
<1> QED
  BY <1>1, MailboxInvariance, PTL

\* From a quiet mailbox a command is carried out once, or once more for the
\* number the firmware sees between the two bytes of SEQ.
THEOREM CommandsRunOnce == Spec => []CarriedOutOnce
<1>1. MailboxInv => CarriedOutOnce
  <2> SUFFICES ASSUME MailboxInv, session, clean, pc \in {"status", "answer"}
               PROVE  execs = 1 \/ (seq % Base = 0 /\ execs = 2)
    BY DEF CarriedOutOnce
  <2> QED
    BY DEF MailboxInv, LatchInv, Ours, Sent, OpInv, Again
<1> QED
  BY <1>1, MailboxInvariance, PTL

\* No acknowledgement the host takes is stale, but for the one exception.
THEOREM AnswersAreFresh == Spec => AnswerIsFresh
<1> DEFINE A == session /\ pc = "poll" /\ pc' = "status"
                  => seq \in ran \/ (seq = SmokeLen /\ ran = {})
<1>1. MailboxInv /\ [Next]_vars => [A]_vars
  <2> SUFFICES ASSUME MailboxInv, Next, session, pc = "poll", pc' = "status"
               PROVE  seq \in ran \/ (seq = SmokeLen /\ ran = {})
    OBVIOUS
  <2>1. PollAck
    BY DEF Next, Host, Firmware, Finished, TakePacket, WriteData, WriteArgs, WriteCommand,
           WriteSeqLow, WriteSeqHigh, ReadStatus, AnswerPacket, FailPacket, SmokePassed,
           SmokeFailed, FwLatch, FwExec, FwAck, vars, hostVars, Reply
  <2>2. ack = seq
    BY <2>1 DEF PollAck, Acked
  <2> QED
    BY <2>2 DEF MailboxInv, AckInv
<1> QED
  BY <1>1, MailboxInvariance, PTL DEF Spec, AnswerIsFresh
-----------------------------------------------------------------------------
(* How long the host can take.                                             *)

\* The accesses the command in hand has left: five words, the polls, STATUS
\* and the answer.
CommandLeft ==
  CASE pc = "data" -> PollLimit + 7
    [] pc = "arg"  -> PollLimit + 6
    [] pc = "cmd"  -> PollLimit + 5
    [] pc = "low"  -> PollLimit + 4
    [] pc = "high" -> PollLimit + 3
    [] pc = "poll" -> 2 + (PollLimit - polls)
    [] pc = "status" -> 2
    [] pc \in {"answer", "failed"} -> 1
    [] OTHER -> 0

\* The commands of the smoke test after the one in hand, and the accesses k of
\* them take.
Commands == IF pc \in Prepares THEN SmokeLen - seq - 1 ELSE SmokeLen - seq
Rounds(k) == k * (PollLimit + 6)

AccessesLeft ==
  CommandLeft + (IF session \/ pc \in {"failed", "dead"} THEN 0 ELSE Rounds(Commands))

\* A packet takes at most PollLimit + 7 accesses and the whole smoke test
\* Rounds(SmokeLen), whatever the firmware does: each access leaves fewer, no
\* step of the firmware adds any, and none are left exactly when the packet is
\* answered or the smoke test is over (command_no_payload, smoke_test_mailbox).
AccessesBounded ==
  /\ [](/\ AccessesLeft \in 0 .. (IF session THEN PollLimit + 7 ELSE Rounds(SmokeLen))
        /\ AccessesLeft = 0 <=> pc \in {"idle", "dead"})
  /\ [][/\ Host => AccessesLeft' < AccessesLeft
        /\ Firmware => AccessesLeft' = AccessesLeft]_vars

\* The commands left, one by one.
LEMMA RoundsAdd ==
  /\ Rounds(0) = 0
  /\ \A k \in Nat : Rounds(k) \in Nat /\ Rounds(k + 1) = Rounds(k) + PollLimit + 6
  /\ \A k \in 0 .. SmokeLen - 1 : Rounds(k) + PollLimit + 6 <= Rounds(SmokeLen)
<1>1. PollLimit \in Nat /\ SmokeLen \in Nat /\ PollLimit + 6 \in Nat
  BY Sizes
<1>2. ASSUME NEW k \in Nat
      PROVE  Rounds(k) \in Nat /\ Rounds(k + 1) = Rounds(k) + PollLimit + 6
  <2> DEFINE c == PollLimit + 6
  <2>1. c \in Nat
    BY <1>1
  <2> HIDE DEF c
  <2>2. k * c \in Nat /\ (k + 1) * c = k * c + c
    BY <2>1
  <2> QED
    BY <1>1, <2>2 DEF Rounds, c
<1>3. ASSUME NEW k \in 0 .. SmokeLen - 1
      PROVE  Rounds(k) + PollLimit + 6 <= Rounds(SmokeLen)
  <2> DEFINE c == PollLimit + 6
             m == SmokeLen - k - 1
  <2>1. c \in Nat /\ m \in Nat /\ k \in Nat /\ SmokeLen = k + 1 + m
    BY <1>1
  <2> HIDE DEF c, m
  <2>2. m * c \in Nat /\ (k + 1 + m) * c = k * c + c + m * c /\ k * c \in Nat
    BY <2>1
  <2>3. SmokeLen * c = k * c + c + m * c
    BY <2>1, <2>2
  <2>4. Rounds(SmokeLen) = SmokeLen * c /\ Rounds(k) = k * c
    BY DEF Rounds, c
  <2> QED
    BY <1>1, <2>1, <2>2, <2>3, <2>4 DEF c
<1>4. Rounds(0) = 0
  BY <1>1 DEF Rounds
<1> QED
  BY <1>2, <1>3, <1>4

\* What the command in hand has left, by its place.
LEMMA CommandLeftAt ==
  ASSUME MailboxInv
  PROVE  /\ CommandLeft \in 0 .. PollLimit + 7
         /\ CommandLeft = 0 <=> pc \in {"idle", "dead"}
         /\ pc # "data" => CommandLeft <= PollLimit + 6
         /\ pc \in {"high", "poll", "status", "answer"} => CommandLeft >= 1
<1>1. PollLimit \in Nat /\ PollLimit >= 1 /\ polls \in 0 .. PollLimit - 1
  BY Sizes DEF MailboxInv, PlainTypes
<1>2. pc \in CommandSteps \cup {"answer", "failed", "idle", "dead"}
  BY DEF MailboxInv, PlainTypes
<1> QED
  BY <1>1, <1>2 DEF CommandLeft, CommandSteps

\* How many commands of the smoke test follow.
LEMMA CommandsLeft ==
  ASSUME MailboxInv, ~session
  PROVE  /\ SmokeLen \in Nat
         /\ pc \in Prepares => seq \in Nat /\ Commands = SmokeLen - seq - 1
                               /\ Commands \in 0 .. SmokeLen - 1
         /\ pc \notin Prepares => Commands = SmokeLen - seq
                                  /\ Commands \in 0 .. SmokeLen - 1
<1>1. SmokeLen \in Nat /\ seq \in Nat /\ seq <= SmokeLen
  BY Sizes, Parts DEF MailboxInv, NumTypes, OpInv
<1>2. (pc \in Prepares => seq < SmokeLen) /\ (pc \notin Prepares => seq >= 1)
  BY Parts DEF MailboxInv, OpInv, PlainTypes
<1> QED
  BY <1>1, <1>2 DEF Commands

\* What is left is within the bound, and zero where the host does not wait.
LEMMA AccessesRange ==
  ASSUME MailboxInv
  PROVE  /\ AccessesLeft \in 0 .. (IF session THEN PollLimit + 7 ELSE Rounds(SmokeLen))
         /\ AccessesLeft = 0 <=> pc \in {"idle", "dead"}
<1>1. /\ PollLimit \in Nat /\ CommandLeft \in 0 .. PollLimit + 7
      /\ CommandLeft = 0 <=> pc \in {"idle", "dead"}
      /\ pc # "data" => CommandLeft <= PollLimit + 6
  BY CommandLeftAt, Sizes
<1>2. CASE session
  <2>1. AccessesLeft = CommandLeft
    BY <1>1, <1>2 DEF AccessesLeft
  <2> QED
    BY <1>1, <1>2, <2>1
<1>3. CASE ~session
  <2>1. pc \notin {"data", "idle"}
    BY <1>3, Parts DEF OpInv
  <2>2. /\ Commands \in 0 .. SmokeLen - 1 /\ SmokeLen \in Nat /\ 0 \in 0 .. SmokeLen - 1
    BY <1>3, CommandsLeft, Sizes
  <2>3. Rounds(Commands) \in Nat /\ Rounds(Commands) + PollLimit + 6 <= Rounds(SmokeLen)
    BY <2>2, RoundsAdd
  <2>4. PollLimit + 6 <= Rounds(SmokeLen) /\ Rounds(SmokeLen) \in Nat
    <3>1. Rounds(0) + PollLimit + 6 <= Rounds(SmokeLen) /\ Rounds(0) = 0
      BY <2>2, RoundsAdd
    <3>2. Rounds(SmokeLen) \in Nat
      BY <2>2, RoundsAdd
    <3> QED
      BY <1>1, <3>1, <3>2
  <2>5. CASE pc \in {"failed", "dead"}
    <3>1. AccessesLeft = CommandLeft
      BY <1>1, <2>5 DEF AccessesLeft
    <3> QED
      BY <1>1, <1>3, <2>1, <2>4, <3>1
  <2>6. CASE pc \notin {"failed", "dead"}
    <3>1. AccessesLeft = CommandLeft + Rounds(Commands)
      BY <1>3, <2>6 DEF AccessesLeft
    <3> HIDE DEF Commands, Rounds
    <3> QED
      BY <1>1, <1>3, <2>1, <2>3, <2>4, <2>6, <3>1
  <2> QED
    BY <2>5, <2>6
<1> QED
  BY <1>2, <1>3

\* An access within a command leaves fewer of its accesses and as many commands
\* to follow; one that gives the command up leaves none of these.
LEMMA WithinCommand ==
  ASSUME MailboxInv, UNCHANGED session,
         pc \notin {"failed", "dead"},
         CommandLeft \in Nat, CommandLeft' \in Nat, CommandLeft' < CommandLeft,
         pc' \in {"failed", "idle"} \/ Commands' = Commands,
         pc' = "idle" => session
  PROVE  AccessesLeft' < AccessesLeft
<1>0. (session => session') /\ (~session => ~session')
  OBVIOUS
<1>1. CASE session
  <2>1. AccessesLeft = CommandLeft + 0 /\ AccessesLeft' = CommandLeft' + 0
    BY <1>0, <1>1 DEF AccessesLeft
  <2>2. \A n \in Nat : n + 0 = n
    OBVIOUS
  <2> QED
    BY <2>1, <2>2
<1>2. CASE ~session
  <2>1. AccessesLeft = CommandLeft + Rounds(Commands)
    BY <1>2 DEF AccessesLeft
  <2>2. Commands \in Nat /\ Rounds(Commands) \in Nat
    <3>1. Commands \in 0 .. SmokeLen - 1 /\ SmokeLen \in Nat
      BY <1>2, CommandsLeft
    <3>2. Commands \in Nat
      BY <3>1
    <3> QED
      BY <3>2, RoundsAdd
  <2>3. CASE pc' = "failed"
    <3>1. AccessesLeft' = CommandLeft' + 0
      BY <1>2, <2>3 DEF AccessesLeft
    <3> QED
      BY <2>1, <2>2, <3>1
  <2>4. CASE Commands' = Commands /\ pc' # "failed"
    <3>1. \/ AccessesLeft' = CommandLeft' + 0
          \/ AccessesLeft' = CommandLeft' + Rounds(Commands)
      <4>1. Rounds(Commands)' = Rounds(Commands)
        BY <2>4 DEF Rounds
      <4> QED
        BY <4>1 DEF AccessesLeft
    <3> QED
      BY <2>1, <2>2, <3>1
  <2> QED
    BY <1>2, <2>3, <2>4
<1> QED
  BY <1>1, <1>2

\* An access of the host leaves fewer.
LEMMA HostShortens ==
  ASSUME MailboxInv, MailboxInv', Host
  PROVE  AccessesLeft' < AccessesLeft
<1>1. PollLimit \in Nat /\ PollLimit >= 1 /\ polls \in 0 .. PollLimit - 1
  BY Sizes, Parts DEF PlainTypes
<1>2. polls' \in 0 .. PollLimit - 1 /\ seq \in Nat /\ seq' \in Nat /\ SmokeLen \in Nat
  <2>1. seq' \in 0 .. MaxSeq /\ polls' \in 0 .. PollLimit - 1
    BY DEF MailboxInv, NumTypes, PlainTypes
  <2> QED
    BY <2>1, Parts, Sizes
<1>3. CASE WriteData
  <2>1. pc = "data" /\ pc' = "arg" /\ session' = session /\ seq' = seq
    BY <1>3 DEF WriteData
  <2>2. CommandLeft = PollLimit + 7 /\ CommandLeft' = PollLimit + 6
    BY <2>1 DEF CommandLeft
  <2>3. Commands' = Commands
    BY <2>1 DEF Commands, Prepares
  <2> QED
    BY <1>1, <2>1, <2>2, <2>3, WithinCommand
<1>4. CASE WriteArgs
  <2>1. pc = "arg" /\ pc' = "cmd" /\ session' = session /\ seq' = seq
    BY <1>4 DEF WriteArgs
  <2>2. CommandLeft = PollLimit + 6 /\ CommandLeft' = PollLimit + 5
    BY <2>1 DEF CommandLeft
  <2>3. Commands' = Commands
    BY <2>1 DEF Commands, Prepares
  <2> QED
    BY <1>1, <2>1, <2>2, <2>3, WithinCommand
<1>5. CASE WriteCommand
  <2>1. pc = "cmd" /\ pc' = "low" /\ session' = session /\ seq' = seq + 1
    BY <1>5 DEF WriteCommand
  <2>2. CommandLeft = PollLimit + 5 /\ CommandLeft' = PollLimit + 4
    BY <2>1 DEF CommandLeft
  <2>3. Commands' = Commands
    BY <1>2, <2>1 DEF Commands, Prepares
  <2> QED
    BY <1>1, <2>1, <2>2, <2>3, WithinCommand
<1>6. CASE WriteSeqLow
  <2>1. pc = "low" /\ pc' = "high" /\ session' = session /\ seq' = seq
    BY <1>6 DEF WriteSeqLow
  <2>2. CommandLeft = PollLimit + 4 /\ CommandLeft' = PollLimit + 3
    BY <2>1 DEF CommandLeft
  <2>3. Commands' = Commands
    BY <2>1 DEF Commands, Prepares
  <2> QED
    BY <1>1, <2>1, <2>2, <2>3, WithinCommand
<1>7. CASE WriteSeqHigh
  <2>1. /\ pc = "high" /\ pc' = "poll" /\ session' = session /\ seq' = seq
        /\ polls' = polls
    BY <1>7 DEF WriteSeqHigh
  <2>2. CommandLeft = PollLimit + 3 /\ CommandLeft' = 2 + (PollLimit - polls)
    BY <2>1 DEF CommandLeft
  <2>3. Commands' = Commands
    BY <2>1 DEF Commands, Prepares
  <2>4. CommandLeft \in Nat /\ CommandLeft' \in Nat /\ CommandLeft' < CommandLeft
    BY <1>1, <1>2, <2>2
  <2> QED
    BY <2>1, <2>3, <2>4, WithinCommand
<1>8. CASE PollAck
  <2>1. /\ pc = "poll" /\ session' = session /\ seq' = seq
        /\ (pc' = "poll" /\ polls' = polls + 1) \/ pc' \in {"status", "failed"}
    BY <1>8 DEF PollAck
  <2>2. CommandLeft = 2 + (PollLimit - polls)
    BY <2>1 DEF CommandLeft
  <2>3. \/ CommandLeft' = 2 + (PollLimit - (polls + 1))
        \/ CommandLeft' \in {1, 2}
    BY <2>1 DEF CommandLeft
  <2>4. Commands' = Commands \/ pc' = "failed"
    BY <2>1 DEF Commands, Prepares
  <2>5. CommandLeft \in Nat /\ CommandLeft' \in Nat /\ CommandLeft' < CommandLeft
    BY <1>1, <1>2, <2>1, <2>2, <2>3
  <2> QED
    BY <2>1, <2>4, <2>5, WithinCommand
<1>9. CASE ReadStatus
  <2>1. pc = "status" /\ pc' \in {"answer", "failed"} /\ session' = session /\ seq' = seq
    BY <1>9 DEF ReadStatus
  <2>2. CommandLeft = 2 /\ CommandLeft' = 1
    BY <2>1 DEF CommandLeft
  <2>3. Commands' = Commands
    BY <2>1 DEF Commands, Prepares
  <2> QED
    BY <2>1, <2>2, <2>3, WithinCommand
<1>10. CASE AnswerPacket \/ FailPacket \/ SmokeFailed
  <2>1. /\ pc \in {"answer", "failed"} /\ pc' \in {"idle", "dead"} /\ session' = session
        /\ pc = "answer" => session
    BY <1>10 DEF AnswerPacket, FailPacket, SmokeFailed, Reply
  <2>2. CommandLeft = 1 /\ CommandLeft' = 0
    BY <2>1 DEF CommandLeft
  <2>3. AccessesLeft = 1 /\ AccessesLeft' = 0
    <3>1. session \/ pc \in {"failed", "dead"}
      BY <2>1
    <3>2. session' \/ pc' \in {"failed", "dead"}
      BY <1>10, <2>1 DEF AnswerPacket, FailPacket, SmokeFailed
    <3> QED
      BY <2>2, <3>1, <3>2 DEF AccessesLeft
  <2> QED
    BY <2>3
<1>11. CASE SmokePassed
  <2>1. pc = "answer" /\ ~session
    BY <1>11 DEF SmokePassed
  <2>2. Commands = SmokeLen - seq /\ Commands \in Nat /\ Rounds(Commands) \in Nat
    <3>1. Commands = SmokeLen - seq /\ Commands \in 0 .. SmokeLen - 1 /\ SmokeLen \in Nat
      BY <2>1, CommandsLeft DEF Prepares
    <3>2. Commands \in Nat
      BY <3>1
    <3> QED
      BY <3>1, <3>2, RoundsAdd
  <2>3. AccessesLeft = 1 + Rounds(Commands)
    <3>1. CommandLeft = 1
      BY <2>1 DEF CommandLeft
    <3> QED
      BY <2>1, <3>1 DEF AccessesLeft
  <2>4. CASE seq < SmokeLen
    <3>1. pc' = "arg" /\ session' = session /\ seq' = seq
      BY <1>11, <2>4 DEF SmokePassed
    <3>2. Commands' = SmokeLen - seq - 1 /\ CommandLeft' = PollLimit + 6
      BY <3>1 DEF Commands, CommandLeft, Prepares
    <3> DEFINE k == SmokeLen - seq - 1
    <3>3. k \in Nat /\ Commands = k + 1
      BY <1>2, <2>2, <2>4
    <3>4. Rounds(Commands) = Rounds(k) + PollLimit + 6 /\ Rounds(k) \in Nat
      BY <3>3, RoundsAdd
    <3>5. AccessesLeft' = PollLimit + 6 + Rounds(k)
      BY <2>1, <3>1, <3>2 DEF AccessesLeft, Rounds
    <3> HIDE DEF k
    <3> QED
      BY <1>1, <2>3, <3>4, <3>5
  <2>5. CASE ~(seq < SmokeLen)
    <3>1. pc' = "idle" /\ session'
      BY <1>11, <2>5 DEF SmokePassed
    <3>2. CommandLeft' = 0
      BY <3>1 DEF CommandLeft
    <3>3. AccessesLeft' = 0
      BY <3>1, <3>2 DEF AccessesLeft
    <3> QED
      BY <2>2, <2>3, <3>3
  <2> QED
    BY <2>4, <2>5
<1> QED
  BY <1>3, <1>4, <1>5, <1>6, <1>7, <1>8, <1>9, <1>10, <1>11 DEF Host

\* The host answers a packet, or ends the smoke test, within a bounded number
\* of accesses for every poll limit and every firmware; that the host makes the
\* next one is fairness.
THEOREM HostIsBounded == Spec => AccessesBounded
<1>1. MailboxInv =>
        /\ AccessesLeft \in 0 .. (IF session THEN PollLimit + 7 ELSE Rounds(SmokeLen))
        /\ AccessesLeft = 0 <=> pc \in {"idle", "dead"}
  BY AccessesRange
<1>2. ASSUME MailboxInv, MailboxInv', [Next]_vars
      PROVE  [/\ Host => AccessesLeft' < AccessesLeft
              /\ Firmware => AccessesLeft' = AccessesLeft]_vars
  <2>1. ASSUME Firmware PROVE AccessesLeft' = AccessesLeft
    <3>1. UNCHANGED hostVars
      BY <2>1 DEF Firmware, FwLatch, FwExec, FwAck
    <3> QED
      BY <3>1 DEF hostVars, AccessesLeft, CommandLeft, Commands, Rounds
  <2>2. ASSUME Host PROVE AccessesLeft' < AccessesLeft
    BY <1>2, <2>2, HostShortens
  <2> QED
    BY <2>1, <2>2
<1> QED
  BY <1>1, <1>2, MailboxInvariance, PTL DEF Spec, AccessesBounded
=============================================================================
