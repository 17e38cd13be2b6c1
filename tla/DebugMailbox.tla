---------------------------- MODULE DebugMailbox ----------------------------
(***************************************************************************)
(* The debug mailbox in RP1 SRAM: smoke_test_mailbox() and then the GDB    *)
(* server's memory packets on the host, against a firmware that polls SEQ. *)
(* Both sides run at their own pace and meet only in the mailbox words;    *)
(* the host gives a command up after a number of polls, the firmware does  *)
(* not know.  The host's accesses are single bytes over PCIe, which shows  *)
(* where a word has more than one byte that changes: SEQ, when its low     *)
(* byte wraps.                                                             *)
(***************************************************************************)
EXTENDS Naturals

CONSTANTS
    Addresses,      \* the addresses the debugger names
    Sram,           \* those the host reaches over PCIe itself
    Values,         \* memory contents; Blank is what is there at first
    Blank,
    SmokeLen,       \* commands of the smoke test, seq 1..SmokeLen
    Base,           \* values of a byte of SEQ
    PollLimit,      \* polls of ACK before a command is given up
    MaxPackets      \* bound: packets of a debugger session

Kinds == {"smoke", "read", "write", "continue"}
Packets == [kind : Kinds, addr : Addresses, val : Values]
Replies == {"none", "OK", "E01", "S05"}

\* The smoke test sends several commands, and fewer than a byte counts.
ASSUME MailboxAssumption ==
    /\ Sram \subseteq Addresses /\ Addresses # {}
    /\ Blank \in Values /\ Values \cap Replies = {}
    /\ {Base, PollLimit} \subseteq Nat \ {0} /\ MaxPackets \in Nat
    /\ SmokeLen \in 2..(Base - 1)

VARIABLES
    pc,         \* the host's next access, "idle", or "dead"
    session,    \* FALSE during the smoke test
    seq,        \* the host's command counter
    polls,      \* polls of ACK for the current command
    op,         \* the packet in hand, then the last one answered
    reply,      \* the answer to it: in Replies, or the value read
    arg, data, cmd, seqw, ack, status,      \* the mailbox words
    fw,         \* [at, seq]: where the firmware is, and the SEQ it latched
    mem,        \* memory as the RP1 sees it
    before, clean, execs,   \* history: memory when the packet came, whether
                            \* the mailbox was quiet then, executions since
    ran         \* history: the SEQ values of the session acknowledged so far

hostVars == <<pc, session, seq, polls, op, reply>>
args     == <<arg, data, cmd>>
answer   == <<ack, status>>
history  == <<before, clean, execs, ran>>
vars == <<hostVars, args, answer, seqw, fw, mem, history>>

CommandSteps == {"data", "arg", "cmd", "low", "high", "poll", "status"}
MaxSeq == IF SmokeLen > MaxPackets THEN SmokeLen ELSE MaxPackets

TypeOK ==
    /\ pc \in CommandSteps \cup {"answer", "failed", "idle", "dead"}
    /\ session \in BOOLEAN
    /\ seq \in 0..MaxSeq /\ seqw \in 0..MaxSeq /\ ack \in 0..MaxSeq
    /\ polls \in 0..(PollLimit - 1)
    /\ op \in Packets
    /\ reply \in Replies \cup Values
    /\ arg \in Addresses /\ data \in Values /\ cmd \in Kinds
    /\ status \in {"OK", "BAD"}
    /\ fw \in [at : {"wait", "exec", "ack"}, seq : 0..MaxSeq]
    /\ mem \in [Addresses -> Values] /\ before \in [Addresses -> Values]
    /\ clean \in BOOLEAN
    /\ execs \in Nat
    /\ ran \subseteq 0..MaxSeq

Smoke == [kind |-> "smoke", addr |-> CHOOSE a \in Addresses : TRUE, val |-> Blank]

\* The firmware has set the mailbox up before proc0 is reached over PCIe; a
\* header that does not match is "dead" at once and not looked at here.
Init ==
    /\ pc = "arg" /\ session = FALSE /\ seq = 0 /\ polls = 0
    /\ op = Smoke /\ reply = "none"
    /\ arg = Smoke.addr /\ data = Blank /\ cmd = "smoke"
    /\ seqw = 0 /\ ack = 0 /\ status = "OK"
    /\ fw = [at |-> "wait", seq |-> 0]
    /\ mem = [a \in Addresses |-> Blank]
    /\ before = mem /\ clean = TRUE /\ execs = 0 /\ ran = {}

-----------------------------------------------------------------------------
(* The host: handle_read_mem, handle_write_mem, "c", command_no_payload.   *)

Quiet == fw.at = "wait" /\ seqw = ack

FirstStep(kind) ==
    CASE kind = "write" -> "data" [] kind = "read" -> "arg"
      [] kind = "continue" -> "cmd"

\* read_packet and handle_packet.
TakePacket ==
    /\ pc = "idle" /\ seq < MaxPackets
    /\ op' \in [kind : Kinds \ {"smoke"}, addr : Addresses, val : Values]
    /\ pc' = FirstStep(op'.kind)
    /\ reply' = "none"
    /\ before' = mem /\ clean' = Quiet /\ execs' = 0
    /\ UNCHANGED <<session, seq, polls, args, answer, seqw, fw, mem, ran>>

WriteData ==
    /\ pc = "data"
    /\ data' = op.val /\ pc' = "arg"
    /\ UNCHANGED <<session, seq, polls, op, reply, arg, cmd, answer, seqw, fw,
                   mem, history>>

WriteArgs ==
    /\ pc = "arg"
    /\ arg' = op.addr /\ pc' = "cmd"
    /\ UNCHANGED <<session, seq, polls, op, reply, data, cmd, answer, seqw, fw,
                   mem, history>>

WriteCommand ==
    /\ pc = "cmd"
    /\ cmd' = op.kind /\ seq' = seq + 1 /\ pc' = "low"
    /\ UNCHANGED <<session, polls, op, reply, arg, data, answer, seqw, fw, mem,
                   history>>

WriteSeqLow ==
    /\ pc = "low"
    /\ seqw' = seqw - (seqw % Base) + (seq % Base)
    /\ pc' = "high"
    /\ UNCHANGED <<session, seq, polls, op, reply, args, answer, fw, mem, history>>

WriteSeqHigh ==
    /\ pc = "high"
    /\ seqw' = seq
    /\ pc' = "poll"
    /\ UNCHANGED <<session, seq, polls, op, reply, args, answer, fw, mem, history>>

\* Variant: any acknowledgement from this one on will do.
AckedSince == ack >= seq

Acked == ack = seq

\* Variant: one poll too many.
LateLast == polls = PollLimit

LastPoll == polls + 1 = PollLimit

\* Variant: the host polls until the firmware answers.
PollForever ==
    /\ pc = "poll"
    /\ Acked /\ pc' = "status"
    /\ UNCHANGED <<session, seq, polls, op, reply, args, answer, seqw, fw, mem,
                   history>>

PollAck ==
    /\ pc = "poll"
    /\ \/ Acked /\ pc' = "status" /\ polls' = 0
       \/ ~Acked /\ ~LastPoll /\ polls' = polls + 1 /\ UNCHANGED pc
       \/ ~Acked /\ LastPoll /\ polls' = 0 /\ pc' = "failed"
    /\ UNCHANGED <<session, seq, op, reply, args, answer, seqw, fw, mem, history>>

ReadStatus ==
    /\ pc = "status"
    /\ pc' = IF status = "OK" THEN "answer" ELSE "failed"
    /\ UNCHANGED <<session, seq, polls, op, reply, args, answer, seqw, fw, mem,
                   history>>

Reply(r) ==
    /\ reply' = r /\ pc' = "idle"
    /\ UNCHANGED <<session, seq, polls, op, args, answer, seqw, fw, history>>

AnswerPacket ==
    /\ session /\ pc = "answer"
    /\ Reply(CASE op.kind = "read" -> data [] op.kind = "write" -> "OK"
               [] op.kind = "continue" -> "S05")
    /\ UNCHANGED mem

\* Variant: a write the firmware did not confirm is answered OK all the same.
ConfirmAnyway ==
    /\ session /\ pc = "failed"
    /\ Reply(IF op.kind = "write" THEN "OK"
             ELSE IF op.kind = "read" THEN "E01" ELSE "S05")
    /\ UNCHANGED mem

\* A write the firmware did not confirm is made directly, where PCIe reaches.
FailPacket ==
    /\ session /\ pc = "failed"
    /\ \/ /\ op.kind = "write" /\ op.addr \in Sram
          /\ mem' = [mem EXCEPT ![op.addr] = op.val]
          /\ Reply("OK")
       \/ op.kind = "write" /\ op.addr \notin Sram /\ Reply("E01") /\ UNCHANGED mem
       \/ op.kind = "read" /\ Reply("E01") /\ UNCHANGED mem
       \/ op.kind = "continue" /\ Reply("S05") /\ UNCHANGED mem

\* The next command of the smoke test, or the session with a fresh counter.
SmokePassed ==
    /\ ~session /\ pc = "answer"
    /\ IF seq < SmokeLen THEN pc' = "arg" /\ UNCHANGED <<session, seq>>
                         ELSE pc' = "idle" /\ session' = TRUE /\ seq' = 0
    /\ ran' = {}
    /\ UNCHANGED <<polls, op, reply, args, answer, seqw, fw, mem, before, clean,
                   execs>>

SmokeFailed ==
    /\ ~session /\ pc = "failed"
    /\ pc' = "dead"
    /\ UNCHANGED <<session, seq, polls, op, reply, args, answer, seqw, fw, mem,
                   history>>

Host ==
    \/ WriteData \/ WriteArgs \/ WriteCommand \/ WriteSeqLow \/ WriteSeqHigh
    \/ PollAck \/ ReadStatus \/ AnswerPacket \/ FailPacket \/ SmokePassed
    \/ SmokeFailed

-----------------------------------------------------------------------------
(* The firmware (external): it latches a SEQ that differs from ACK, reads  *)
(* the command and its arguments, carries it out or refuses, and then      *)
(* acknowledges.  It may be slow, and it may stop anywhere.                *)

FwLatch ==
    /\ fw.at = "wait" /\ seqw # ack
    /\ fw' = [at |-> "exec", seq |-> seqw]
    /\ UNCHANGED <<hostVars, args, answer, seqw, mem, history>>

FwExec ==
    /\ fw.at = "exec"
    /\ fw' = [fw EXCEPT !.at = "ack"]
    /\ \/ /\ status' = "OK"
          /\ mem' = IF cmd = "write" THEN [mem EXCEPT ![arg] = data] ELSE mem
          /\ data' = IF cmd = "read" THEN mem[arg] ELSE data
       \/ status' = "BAD" /\ cmd # "continue" /\ UNCHANGED <<mem, data>>
    /\ execs' = execs + 1
    /\ UNCHANGED <<hostVars, arg, cmd, ack, seqw, before, clean, ran>>

FwAck ==
    /\ fw.at = "ack"
    /\ ack' = fw.seq
    /\ fw' = [fw EXCEPT !.at = "wait"]
    /\ ran' = ran \cup {fw.seq}
    /\ UNCHANGED <<hostVars, args, status, seqw, mem, before, clean, execs>>

Firmware == FwLatch \/ FwExec \/ FwAck

Finished == pc \in {"idle", "dead"} /\ UNCHANGED vars

Next == TakePacket \/ Host \/ Firmware \/ Finished

\* The host runs alone on its core; nothing is asked of the firmware.
Spec == Init /\ [][Next]_vars /\ WF_vars(Host)

-----------------------------------------------------------------------------
\* A memory packet that found the mailbox quiet is answered truthfully,
\* whether the firmware confirmed it, refused it or was given up on: an OK
\* means that the value is there and nothing else changed, a value is the
\* one in memory.  (A packet sent while a given-up command is still pending
\* has no such promise: the firmware may mix the words of both.)
CleanAnswers ==
    session /\ pc = "idle" /\ clean =>
        /\ op.kind = "write" /\ reply = "OK" =>
               mem = [before EXCEPT ![op.addr] = op.val]
        /\ op.kind = "read" /\ reply \in Values =>
               reply = mem[op.addr] /\ mem = before

\* An acknowledged command of the session has been carried out.  The one
\* stale answer: the counter restarts after the smoke test, whose last
\* acknowledgement is still in ACK when no command since got one.
AnswerIsFresh ==
    [][session /\ pc = "poll" /\ pc' = "status"
       => seq \in ran \/ (seq = SmokeLen /\ ran = {})]_vars

\* From a quiet mailbox a command is carried out once.  The exception is a
\* SEQ whose low byte wraps: between the bytes the firmware may see a value
\* of its own and carry the command out for that one, too.
CarriedOutOnce ==
    session /\ clean /\ pc \in {"status", "answer"} =>
        execs = 1 \/ (seq % Base = 0 /\ execs = 2)

\* Every packet is answered and the smoke test ends, if the firmware hangs or not.
Answers == []<>(pc \in {"idle", "dead"})
=============================================================================
