------------------------- MODULE InboundMonitorProofs -------------------------
(***************************************************************************)
(* The safety of the inbound monitor proof for every selection of builds,  *)
(* every number of probes and every length of the waits.                   *)
(***************************************************************************)
EXTENDS InboundMonitor, SequenceTheorems, TLAPS

\* The record and the program of the RP1, as TypeOK has them.
RecType ==
  [seq : 0..MaxSeq, mode : Modes \cup {"none"}, go : 0..MaxSeq,
   ack : 0..MaxSeq, phase : 0..5, doneSeq : 0..MaxSeq,
   done : {"none", "done", "rejected", "rounded"}]
FwType ==
  [at : {"idle", "ack", "go", "run", "checked", "announced", "shut",
         "moved", "open", "publish"},
   seq : 0..MaxSeq, mode : Modes \cup {"none"}, effect : BOOLEAN]

PlainTypes ==
  /\ pc \in {"entry", "next", "install", "precheck", "send", "seq", "ack",
             "acked", "loop", "probe", "after", "wait", "post", "postprobe",
             "verdict", "end", "parked"}
  /\ build \in AllBuilds /\ todo \in Seq(Modes)
  /\ mode \in Modes /\ seq \in 0..MaxSeq
  /\ polls \in 0..(Polls - 1) /\ ops \in 0..(Ops - 1)
  /\ stop \in BOOLEAN /\ forced \in BOOLEAN /\ ok \in BOOLEAN
  /\ seen \in 0..5
  /\ got \in {"chip", "dummy", "ff", "abort", "none"}
  /\ during \subseteq {"chip", "dummy", "ff", "abort"}
  /\ vector \in BOOLEAN /\ armed \in BOOLEAN /\ late \in BOOLEAN
PairTypes ==
  /\ acked \subseteq Modes \X (0..MaxSeq)
  /\ ran \subseteq Modes \X (0..MaxSeq) \X BOOLEAN
  /\ taken \in (Modes \cup {"none"}) \X (0..MaxSeq)
  /\ proven \subseteq Modes \X (0..MaxSeq)

\* Places of the host at which a mode has been started.
Started == {"loop", "probe", "after", "wait", "post", "postprobe", "verdict"}
Before  == {"install", "precheck", "send", "seq"}

\* The numbers never run out: every mode of the list costs one.
ListInv ==
  /\ todo \in Seq(Modes \ {"DONE"})
  /\ pc = "entry" => seq = 0 /\ Len(todo) <= 6
  /\ pc \notin {"entry", "end"} => seq >= 1
  /\ pc = "next" => seq + Len(todo) <= 7
  /\ pc # "next" /\ mode # "DONE" => seq + Len(todo) <= 6

\* Which modes come to which place.
PlaceInv ==
  /\ pc \in {"entry", "end"} => mode = "DONE"
  /\ pc = "install" => mode \in Guarded
  /\ pc = "precheck" => mode \in {"BLOCK", "HOLE", "REDIRECT"}
  /\ pc \in {"loop", "probe", "after"} => mode \in Moves
  /\ pc \in {"postprobe", "verdict"} => mode \in Moves \cup {"IATU"}
  /\ pc = "parked" => mode \in {"BLOCK", "INTERIOR"}
  /\ forced => pc = "next" \/ (pc \in {"wait", "post"} /\ mode \in {"REDIRECT", "HOLE"})

\* The vector is ours and aborts are expected exactly where a mode needs it.
GuardInv ==
  /\ pc \in {"entry", "next", "install", "end"} \/ mode \notin Guarded
        => ~vector /\ ~armed
  /\ mode \in Guarded /\ pc \in {"precheck", "send", "seq", "ack", "acked",
                                 "loop", "probe", "after"} => vector
  /\ mode \in Guarded /\ pc \in {"loop", "probe", "after"} => armed

\* The numbers in the record: completed, latched, written, in use.
NumberInv ==
  /\ rec.doneSeq <= fw.seq /\ rec.ack <= fw.seq
  /\ fw.seq <= rec.seq /\ rec.seq <= seq
  /\ fw.at # "idle" => rec.doneSeq < fw.seq
  /\ fw.at = "ack" => rec.ack < fw.seq
  /\ rec.ack = fw.seq /\ fw.seq # 0 => <<fw.mode, fw.seq>> \in acked
  /\ rec.mode = "none" => rec.seq = fw.seq
  /\ fw.at # "idle" => fw.mode # "none"

\* The RP1 on its own: the window is moved between two of its steps only.
WindowInv ==
  /\ window # "open" => fw.at \in {"shut", "moved"} /\ fw.effect
  /\ window = "closed" => fw.mode # "REDIRECT"
  /\ fw.at \in {"checked", "announced", "shut", "moved", "open"} => fw.mode \in Moves
  /\ fw.at \in {"ack", "go", "run", "checked", "announced"} => ~fw.effect
  /\ fw.at \in {"go", "run", "checked", "announced", "shut", "moved", "open"}
        => rec.phase # Restored

\* Until a mode is sent the RP1 is through with all that went before.
CleanInv ==
  /\ pc = "entry" => fw.at = "idle" /\ fw.seq = rec.seq
  /\ (pc = "next" /\ todo # << >>) \/ (mode # "DONE" /\ pc \in Before)
        => fw.at = "idle" /\ fw.seq = rec.seq /\ rec.seq < seq

\* From then on the RP1 has that mode, under that number, or has yet to see it.
ModeInv ==
  mode # "DONE" =>
    /\ pc = "seq" => rec.mode = mode /\ rec.go = 0
    /\ pc = "ack" =>
         /\ rec.seq = seq /\ rec.mode = mode /\ rec.go = 0
         /\ \/ fw.seq < seq /\ fw.at = "idle"
            \/ fw.seq = seq /\ fw.mode = mode /\ fw.at \in {"ack", "go"}
    /\ pc = "acked" =>
         /\ rec.seq = seq /\ rec.mode = mode /\ rec.go = 0
         /\ fw.seq = seq /\ fw.mode = mode /\ fw.at = "go"
    /\ pc \in Started =>
         /\ rec.seq = seq /\ fw.seq = seq /\ fw.mode = mode /\ fw.at # "ack"
         /\ pc \in {"post", "postprobe", "verdict"} /\ ok
              => fw.at = "idle" /\ rec.done = "done"
         /\ pc = "postprobe" /\ mode = "HOLE" => fw.at \in {"publish", "idle"}

\* A value that only a moved window gives means that the window was moved.
Moved == {"dummy", "ff", "abort"}

RunInv ==
  /\ mode # "DONE" /\ pc \in Started /\ fw.at = "idle" /\ rec.done = "done"
        => <<fw.mode, fw.seq, fw.effect>> \in ran
  /\ mode # "DONE" /\ pc = "after" /\ got \in Moved => fw.effect
  /\ mode # "DONE" /\ pc \in Started /\ ~forced /\ during \cap Moved # {} => fw.effect

\* What DONE may be answered with.
LastMode(m) == m = "DONE" \/ (stop /\ late /\ IsTraffic(m))

AckInv ==
  /\ mode = "DONE" /\ pc \in {"send", "seq", "ack"} =>
       /\ rec.seq = seq => LastMode(rec.mode)
       /\ fw.seq = seq => LastMode(fw.mode)
  /\ mode = "DONE" /\ pc \in {"seq", "ack"} => rec.mode = "DONE"

MonitorInv ==
  /\ TypeOK /\ ListInv /\ PlaceInv /\ GuardInv /\ NumberInv /\ WindowInv
  /\ CleanInv /\ ModeInv /\ RunInv /\ AckInv /\ VerdictIsReal /\ AckIsItsOwn

-----------------------------------------------------------------------------
\* The sets of modes, spelt out (rp1_inbound_monitor.rs).
LEMMA Names ==
  /\ \A m : IsTraffic(m) <=> m \in {"IDLE", "BAR2_READ", "BAR2_WRITE", "BAR1_READ"}
  /\ Moves = {"BLOCK", "HOLE", "INTERIOR", "REDIRECT"}
  /\ Modes = {"BLOCK", "HOLE", "INTERIOR", "REDIRECT", "IDLE", "BAR2_READ",
              "BAR2_WRITE", "BAR1_READ", "IATU", "DONE"}
  /\ MaxSeq = 8 /\ Guarded = {"BLOCK", "HOLE", "INTERIOR"}
<1>1. Len(Traffic) = 4 /\ 1 .. Len(Traffic) = {1, 2, 3, 4}
  BY DEF Traffic
<1>2. /\ Traffic[1] = "IDLE" /\ Traffic[2] = "BAR2_READ"
      /\ Traffic[3] = "BAR2_WRITE" /\ Traffic[4] = "BAR1_READ"
  BY DEF Traffic
<1>3. {Traffic[i] : i \in 1 .. Len(Traffic)} = {"IDLE", "BAR2_READ", "BAR2_WRITE", "BAR1_READ"}
  BY <1>1, <1>2
<1>4. \A m : IsTraffic(m) <=> m \in {"IDLE", "BAR2_READ", "BAR2_WRITE", "BAR1_READ"}
  BY <1>1, <1>2 DEF IsTraffic
<1> QED
  BY <1>1, <1>3, <1>4 DEF Moves, Guarded, Modes, MaxSeq

\* What the bounds of the counters contain.
LEMMA Sizes ==
  /\ Ops \in Nat \ {0} /\ Polls \in Nat \ {0} /\ 0 \in 0 .. (Polls - 1) /\ 0 \in 0 .. (Ops - 1)
  /\ MaxSeq = 8 /\ 0 \in 0 .. MaxSeq
  /\ << >> \in Seq(Modes) /\ << >> \in Seq(Modes \ {"DONE"}) /\ Len(<< >>) = 0
  /\ "DONE" \in Modes
<1>1. << >> \in Seq(Modes) /\ << >> \in Seq(Modes \ {"DONE"}) /\ Len(<< >>) = 0
  BY EmptySeq
<1>2. "DONE" \in Modes /\ MaxSeq = 8
  BY Names
<1> QED
  BY <1>1, <1>2, MonitorAssumption

\* A mode taken from the list.
LEMMA HeadOfList ==
  ASSUME ListInv, todo # << >>
  PROVE  /\ Head(todo) \in Modes \ {"DONE"} /\ Head(todo) \in Modes
         /\ Tail(todo) \in Seq(Modes \ {"DONE"}) /\ Tail(todo) \in Seq(Modes)
         /\ Len(todo) \in Nat \ {0} /\ Len(Tail(todo)) = Len(todo) - 1
<1>1. todo \in Seq(Modes \ {"DONE"})
  BY DEF ListInv
<1>2. /\ Head(todo) \in Modes \ {"DONE"} /\ Tail(todo) \in Seq(Modes \ {"DONE"})
      /\ Len(todo) \in Nat \ {0} /\ Len(Tail(todo)) = Len(todo) - 1
  BY <1>1, EmptySeq, HeadTailProperties
<1>3. Tail(todo) \in Seq(Modes)
  BY <1>2
<1> QED
  BY <1>2, <1>3

\* A record the RP1 has updated is a record.
LEMMA RecUpdates ==
  ASSUME NEW r \in RecType, NEW n \in 0 .. MaxSeq, NEW p \in 0 .. 5,
         NEW d \in {"none", "done", "rejected", "rounded"}
  PROVE  /\ [r EXCEPT !.ack = n, !.phase = p] \in RecType
         /\ [r EXCEPT !.phase = p, !.done = d] \in RecType
         /\ [r EXCEPT !.done = d, !.phase = p] \in RecType
<1>1. [r EXCEPT !.ack = n, !.phase = p] \in RecType
  BY DEF RecType
<1>2. [r EXCEPT !.phase = p, !.done = d] \in RecType
  BY DEF RecType
<1>3. [r EXCEPT !.done = d, !.phase = p] \in RecType
  BY DEF RecType
<1> QED
  BY <1>1, <1>2, <1>3

\* The sequence number and the length of the list are numbers.
LEMMA Numbers ==
  ASSUME TypeOK, ListInv
  PROVE  seq \in Nat /\ Len(todo) \in Nat
  BY LenProperties DEF TypeOK, ListInv

\* The type invariant, cut into the host's variables and the RP1's.
LEMMA TypesSplit ==
  /\ TypeOK => PlainTypes /\ PairTypes /\ rec \in RecType /\ fw \in FwType /\ window \in {"open", "closed", "dummy"}
  /\ (PlainTypes /\ PairTypes /\ rec \in RecType /\ fw \in FwType /\ window \in {"open", "closed", "dummy"})' => TypeOK'
<1>1. TypeOK => PlainTypes
  BY DEF TypeOK, PlainTypes
<1>2. TypeOK => PairTypes
  BY DEF TypeOK, PairTypes
<1>3. TypeOK => rec \in RecType /\ fw \in FwType /\ window \in {"open", "closed", "dummy"}
  BY DEF TypeOK, RecType, FwType
<1>4. (PlainTypes /\ PairTypes /\ rec \in RecType /\ fw \in FwType /\ window \in {"open", "closed", "dummy"})' => TypeOK'
  BY DEF TypeOK, PlainTypes, PairTypes, RecType, FwType
<1> QED
  BY <1>1, <1>2, <1>3, <1>4

\* No step of the host breaks a type.
LEMMA HostTypes == MonitorInv /\ Host => TypeOK'
<1> SUFFICES ASSUME MonitorInv, Host PROVE TypeOK'
  OBVIOUS
<1>0. /\ TypeOK /\ ListInv /\ PlaceInv /\ NumberInv /\ rec \in RecType /\ fw \in FwType
      /\ PlainTypes /\ PairTypes /\ window \in {"open", "closed", "dummy"}
  BY TypesSplit DEF MonitorInv
<1>1. CASE Entry
  <2>8. PlainTypes'
    BY <1>0, <1>1, Sizes, Numbers DEF Entry, control, probe, guard, notes, Idle, Checked,
       Refused, Disabled, Restored, Restoring, PlainTypes, RecType, ListInv, NumberInv
  <2>9. PairTypes' /\ rec' \in RecType /\ fw' \in FwType /\ window' \in {"open", "closed", "dummy"}
    BY <1>0, <1>1, Sizes DEF Entry, rp1, notes, PairTypes
  <2> QED
    BY <2>8, <2>9, TypesSplit
<1>2. CASE NextMode
  <2>1. UNCHANGED <<build, stop, polls, ops, seen, got, during, ok, vector, armed, rec, fw,
                    window, acked, ran, taken, late, proven>> /\ forced' = FALSE
    BY <1>2 DEF NextMode, probe, guard, rp1, notes
  <2>2. /\ mode' \in Modes /\ seq' \in 0 .. MaxSeq /\ todo' \in Seq(Modes)
        /\ pc' \in {"next", "install", "precheck", "send"}
    <3>1. CASE todo = << >>
      <4>1. /\ mode' = "DONE" /\ seq' = seq + 1 /\ todo' = << >> /\ pc' = "send"
            /\ pc = "next" /\ Len(todo) = 0 /\ seq \in 0 .. MaxSeq
        BY <1>0, <1>2, <3>1, Sizes DEF NextMode, PlainTypes
      <4>2. seq + 1 \in 0 .. MaxSeq
        BY <1>0, <4>1, Sizes DEF ListInv
      <4> QED
        BY <4>1, <4>2, Sizes
    <3>2. CASE todo # << >>
      BY <1>0, <1>2, <3>2, HeadOfList, Sizes DEF NextMode, Begin, PlainTypes
    <3> QED
      BY <3>1, <3>2
  <2>8. PlainTypes'
    BY <1>0, <2>1, <2>2 DEF PlainTypes
  <2>9. PairTypes' /\ rec' \in RecType /\ fw' \in FwType /\ window' \in {"open", "closed", "dummy"}
    BY <1>0, <1>2, Sizes DEF NextMode, rp1, notes, PairTypes
  <2> QED
    BY <2>8, <2>9, TypesSplit
<1>3. CASE Install
  <2>1. UNCHANGED <<build, mode, seq, stop, polls, forced, ops, seen, got, during, ok, armed,
                    rec, fw, window, acked, ran, taken, late, proven>>
    BY <1>3 DEF Install, probe, rp1, notes
  <2>2. todo' \in Seq(Modes) /\ vector' \in BOOLEAN /\ pc' \in {"next", "precheck", "send"}
    BY <1>0, <1>3, Sizes DEF Install, GiveUp, PlainTypes
  <2>8. PlainTypes'
    BY <1>0, <2>1, <2>2 DEF PlainTypes
  <2>9. PairTypes' /\ rec' \in RecType /\ fw' \in FwType /\ window' \in {"open", "closed", "dummy"}
    BY <1>0, <1>3, Sizes DEF Install, rp1, notes, PairTypes
  <2> QED
    BY <2>8, <2>9, TypesSplit
<1>4. CASE Precheck
  <2>1. UNCHANGED <<build, mode, seq, stop, polls, forced, ops, seen, got, during, ok,
                    rec, fw, window, acked, ran, taken, late, proven>>
    BY <1>4 DEF Precheck, probe, rp1, notes
  <2>2. /\ todo' \in Seq(Modes) /\ vector' \in BOOLEAN /\ armed' \in BOOLEAN
        /\ pc' \in {"parked", "next", "send"}
    BY <1>0, <1>4, Sizes DEF Precheck, GiveUp, Release, guard, PlainTypes
  <2>8. PlainTypes'
    BY <1>0, <2>1, <2>2 DEF PlainTypes
  <2>9. PairTypes' /\ rec' \in RecType /\ fw' \in FwType /\ window' \in {"open", "closed", "dummy"}
    BY <1>0, <1>4, Sizes DEF Precheck, rp1, notes, PairTypes
  <2> QED
    BY <2>8, <2>9, TypesSplit
<1>5. CASE SendMode
  <2>8. PlainTypes'
    BY <1>0, <1>5, Sizes DEF SendMode, control, probe, guard, notes, Idle, Checked, Refused,
       Disabled, Restored, Restoring, PlainTypes, RecType
  <2>9. PairTypes' /\ rec' \in RecType /\ fw' \in FwType /\ window' \in {"open", "closed", "dummy"}
    BY <1>0, <1>5, Sizes DEF SendMode, rp1, notes, PairTypes, PlainTypes, RecType
  <2> QED
    BY <2>8, <2>9, TypesSplit
<1>6. CASE SendSeq
  <2>8. PlainTypes'
    BY <1>0, <1>6, Sizes DEF SendSeq, control, probe, guard, notes, Idle, Checked, Refused,
       Disabled, Restored, Restoring, PlainTypes, RecType
  <2>9. PairTypes' /\ rec' \in RecType /\ fw' \in FwType /\ window' \in {"open", "closed", "dummy"}
    BY <1>0, <1>6, Sizes DEF SendSeq, rp1, notes, PairTypes, PlainTypes, RecType
  <2> QED
    BY <2>8, <2>9, TypesSplit
<1>7. CASE PollAck
  <2>1. UNCHANGED <<build, seq, forced, ops, seen, got, during, ok, rec, fw, window, acked,
                    ran, proven>>
    BY <1>7 DEF PollAck, probe, rp1
  <2>2. /\ todo' \in Seq(Modes) /\ vector' \in BOOLEAN /\ armed' \in BOOLEAN
        /\ mode' \in Modes /\ stop' \in BOOLEAN /\ pc' \in {"ack", "acked", "send", "end", "next"}
    BY <1>0, <1>7, Sizes DEF PollAck, AckTimeout, GiveUp, Release, guard, PlainTypes
  <2>3. polls' \in 0 .. (Polls - 1)
    BY <1>0, <1>7, Sizes DEF PollAck, LastPoll, PlainTypes
  <2>4. taken' \in (Modes \cup {"none"}) \X (0 .. MaxSeq) /\ late' \in BOOLEAN
    <3>1. taken' = taken \/ taken' = <<mode, seq>>
      BY <1>7 DEF PollAck
    <3>2. <<mode, seq>> \in (Modes \cup {"none"}) \X (0 .. MaxSeq)
      BY <1>0 DEF PlainTypes
    <3>3. late' = late \/ late' = TRUE
      BY <1>7 DEF PollAck
    <3> QED
      BY <1>0, <3>1, <3>2, <3>3 DEF PlainTypes, PairTypes
  <2>8. PlainTypes'
    BY <1>0, <2>1, <2>2, <2>3, <2>4 DEF PlainTypes
  <2>9. PairTypes' /\ rec' \in RecType /\ fw' \in FwType /\ window' \in {"open", "closed", "dummy"}
    BY <1>0, <2>1, <2>4 DEF PairTypes
  <2> QED
    BY <2>8, <2>9, TypesSplit
<1>8. CASE ForceReject
  <2>8. PlainTypes'
    BY <1>0, <1>8, Sizes DEF ForceReject, control, probe, guard, notes, Idle, Checked,
       Refused, Disabled, Restored, Restoring, PlainTypes, RecType
  <2>9. PairTypes' /\ rec' \in RecType /\ fw' \in FwType /\ window' \in {"open", "closed", "dummy"}
    BY <1>0, <1>8, Sizes DEF ForceReject, rp1, notes, PairTypes, PlainTypes, RecType
  <2> QED
    BY <2>8, <2>9, TypesSplit
<1>9. CASE Go
  <2>8. PlainTypes'
    BY <1>0, <1>9, Sizes DEF Go, AfterGo, control, probe, guard, notes, Idle, Checked,
       Refused, Disabled, Restored, Restoring, PlainTypes, RecType
  <2>9. PairTypes' /\ rec' \in RecType /\ fw' \in FwType /\ window' \in {"open", "closed", "dummy"}
    BY <1>0, <1>9, Sizes DEF Go, rp1, notes, PairTypes, PlainTypes, RecType
  <2> QED
    BY <2>8, <2>9, TypesSplit
<1>10. CASE Unstable
  <2>8. PlainTypes'
    BY <1>0, <1>10, Sizes DEF Unstable, GiveUp, Release, control, probe, guard, notes, Idle,
       Checked, Refused, Disabled, Restored, Restoring, PlainTypes, RecType
  <2>9. PairTypes' /\ rec' \in RecType /\ fw' \in FwType /\ window' \in {"open", "closed", "dummy"}
    BY <1>0, <1>10, Sizes DEF Unstable, rp1, notes, PairTypes
  <2> QED
    BY <2>8, <2>9, TypesSplit
<1>11. CASE ReadPhase
  <2>8. PlainTypes'
    BY <1>0, <1>11, Sizes DEF ReadPhase, control, probe, guard, notes, Idle, Checked, Refused,
       Disabled, Restored, Restoring, PlainTypes, RecType
  <2>9. PairTypes' /\ rec' \in RecType /\ fw' \in FwType /\ window' \in {"open", "closed", "dummy"}
    BY <1>0, <1>11, Sizes DEF ReadPhase, rp1, notes, PairTypes
  <2> QED
    BY <2>8, <2>9, TypesSplit
<1>12. CASE Probe
  <2>8. PlainTypes'
    BY <1>0, <1>12, Sizes DEF Probe, ProbesIn, Survives, Reads, control, probe, guard, notes,
       Idle, Checked, Refused, Disabled, Restored, Restoring, PlainTypes, RecType
  <2>9. PairTypes' /\ rec' \in RecType /\ fw' \in FwType /\ window' \in {"open", "closed", "dummy"}
    BY <1>0, <1>12, Sizes DEF Probe, rp1, notes, PairTypes
  <2> QED
    BY <2>8, <2>9, TypesSplit
<1>13. CASE CountProbe
  <2>8. PlainTypes'
    BY <1>0, <1>13, Sizes DEF CountProbe, control, probe, guard, notes, Idle, Checked,
       Refused, Disabled, Restored, Restoring, PlainTypes, RecType
  <2>9. PairTypes' /\ rec' \in RecType /\ fw' \in FwType /\ window' \in {"open", "closed", "dummy"}
    BY <1>0, <1>13, Sizes DEF CountProbe, rp1, notes, PairTypes
  <2> QED
    BY <2>8, <2>9, TypesSplit
<1>14. CASE PollDone
  <2>1. UNCHANGED <<control, forced, probe, guard, rec, rp1, notes>>
    BY <1>14 DEF PollDone
  <2>2. /\ polls' \in 0 .. (Polls - 1)
        /\ \/ ok' \in BOOLEAN /\ pc' = "post"
           \/ ok' = ok /\ pc' = pc
    <3>1. CASE DoneSeen /\ ok' = (rec.done = "done") /\ pc' = "post" /\ polls' = 0
      BY <3>1, Sizes
    <3>2. CASE LastPoll /\ ok' = FALSE /\ pc' = "post" /\ polls' = 0
      BY <3>2, Sizes
    <3>3. CASE ~LastPoll /\ polls' = polls + 1 /\ UNCHANGED <<pc, ok>>
      BY <1>0, <3>3, Sizes DEF LastPoll, PlainTypes
    <3> QED
      BY <1>14, <3>1, <3>2, <3>3 DEF PollDone
  <2>8. PlainTypes'
    BY <1>0, <2>1, <2>2 DEF control, probe, guard, rp1, notes, PlainTypes
  <2>9. PairTypes' /\ rec' \in RecType /\ fw' \in FwType /\ window' \in {"open", "closed", "dummy"}
    BY <1>0, <1>14, Sizes DEF PollDone, rp1, notes, PairTypes
  <2> QED
    BY <2>8, <2>9, TypesSplit
<1>15. CASE AfterTraffic
  <2>1. /\ UNCHANGED <<build, todo, polls, forced, probe, ok, guard, rec, rp1, notes>>
        /\ pc = "post" /\ IsTraffic(mode) /\ seq' = seq + 1
        /\ pc' \in {"next", "send"} /\ mode' \in {mode, "DONE"} /\ stop' \in {stop, TRUE}
    BY <1>15 DEF AfterTraffic
  <2>2. seq' \in 0 .. MaxSeq
    BY <1>0, <2>1, Names, Sizes, Numbers DEF ListInv
  <2>3. mode' \in Modes /\ stop' \in BOOLEAN
    BY <1>0, <2>1, Names DEF PlainTypes
  <2>8. PlainTypes'
    BY <1>0, <2>1, <2>2, <2>3 DEF probe, guard, rp1, notes, PlainTypes
  <2>9. PairTypes' /\ rec' \in RecType /\ fw' \in FwType /\ window' \in {"open", "closed", "dummy"}
    BY <1>0, <1>15, Sizes DEF AfterTraffic, rp1, notes, PairTypes
  <2> QED
    BY <2>8, <2>9, TypesSplit
<1>16. CASE AfterDone
  <2>8. PlainTypes'
    BY <1>0, <1>16, Sizes DEF AfterDone, control, probe, guard, notes, Idle, Checked, Refused,
       Disabled, Restored, Restoring, PlainTypes, RecType
  <2>9. PairTypes' /\ rec' \in RecType /\ fw' \in FwType /\ window' \in {"open", "closed", "dummy"}
    BY <1>0, <1>16, Sizes DEF AfterDone, rp1, notes, PairTypes
  <2> QED
    BY <2>8, <2>9, TypesSplit
<1>17. CASE AfterReject
  <2>1. /\ UNCHANGED <<build, mode, stop, polls, forced, probe, ok, rec, rp1, notes>>
        /\ pc = "post" /\ mode # "DONE" /\ seq' = seq + 1
        /\ pc' = "next" /\ todo' = << >> /\ vector' = FALSE /\ armed' = FALSE
    BY <1>0, <1>17 DEF AfterReject, GiveUp, Release, PlaceInv
  <2>2. seq' \in 0 .. MaxSeq
    BY <1>0, <2>1, Sizes, Numbers DEF ListInv
  <2>8. PlainTypes'
    BY <1>0, <2>1, <2>2, Sizes DEF probe, rp1, notes, PlainTypes
  <2>9. PairTypes' /\ rec' \in RecType /\ fw' \in FwType /\ window' \in {"open", "closed", "dummy"}
    BY <1>0, <1>17, Sizes DEF AfterReject, rp1, notes, PairTypes
  <2> QED
    BY <2>8, <2>9, TypesSplit
<1>18. CASE PostPhase
  <2>8. PlainTypes'
    BY <1>0, <1>18, Sizes DEF PostPhase, control, probe, guard, notes, Idle, Checked, Refused,
       Disabled, Restored, Restoring, PlainTypes, RecType
  <2>9. PairTypes' /\ rec' \in RecType /\ fw' \in FwType /\ window' \in {"open", "closed", "dummy"}
    BY <1>0, <1>18, Sizes DEF PostPhase, rp1, notes, PairTypes
  <2> QED
    BY <2>8, <2>9, TypesSplit
<1>19. CASE PostProbe
  <2>8. PlainTypes'
    BY <1>0, <1>19, Sizes DEF PostProbe, Survives, Reads, control, probe, guard, notes, Idle,
       Checked, Refused, Disabled, Restored, Restoring, PlainTypes, RecType
  <2>9. PairTypes' /\ rec' \in RecType /\ fw' \in FwType /\ window' \in {"open", "closed", "dummy"}
    BY <1>0, <1>19, Sizes DEF PostProbe, rp1, notes, PairTypes
  <2> QED
    BY <2>8, <2>9, TypesSplit
<1>20. CASE Verdict
  <2>1. /\ UNCHANGED <<build, mode, stop, polls, forced, probe, ok, rec, rp1, taken, late>>
        /\ pc = "verdict" /\ mode # "DONE" /\ seq' = seq + 1
        /\ pc' = "next" /\ todo' \in {todo, << >>} /\ vector' = FALSE /\ armed' = FALSE
        /\ proven' \in {proven, proven \cup {<<mode, seq>>}}
    BY <1>0, <1>20, Names DEF Verdict, Release, PlaceInv
  <2>2. seq' \in 0 .. MaxSeq
    BY <1>0, <2>1, Sizes, Numbers DEF ListInv
  <2>8. PlainTypes'
    BY <1>0, <2>1, <2>2, Sizes DEF probe, rp1, PlainTypes
  <2>9. PairTypes' /\ rec' \in RecType /\ fw' \in FwType /\ window' \in {"open", "closed", "dummy"}
    BY <1>0, <2>1 DEF PairTypes, rp1, PlainTypes
  <2> QED
    BY <2>8, <2>9, TypesSplit
<1> QED
  BY <1>1, <1>2, <1>3, <1>4, <1>5, <1>6, <1>7, <1>8, <1>9, <1>10, <1>11, <1>12, <1>13, <1>14,
     <1>15, <1>16, <1>17, <1>18, <1>19, <1>20 DEF Host

\* No step of the RP1's program breaks a type.
LEMMA Rp1Types == MonitorInv /\ Rp1 => TypeOK'
<1> SUFFICES ASSUME MonitorInv, Rp1 PROVE TypeOK'
  OBVIOUS
<1>0. /\ TypeOK /\ WindowInv /\ rec \in RecType /\ fw \in FwType
      /\ PlainTypes /\ PairTypes /\ window \in {"open", "closed", "dummy"}
  BY TypesSplit DEF MonitorInv
<1>n. /\ fw.seq \in 0 .. MaxSeq /\ fw.mode \in Modes \cup {"none"} /\ fw.effect \in BOOLEAN
      /\ fw.at # "idle" => fw.mode \in Modes
  BY <1>0 DEF FwType, MonitorInv, NumberInv
<1>s. Silent => PlainTypes' /\ taken' = taken /\ proven' = proven
  BY <1>0 DEF Silent, PlainTypes, control, probe, guard, notes
<1>v. 0 \in 0 .. 5 /\ 1 \in 0 .. 5 /\ 2 \in 0 .. 5 /\ 3 \in 0 .. 5 /\ 4 \in 0 .. 5 /\ 5 \in 0 .. 5
  OBVIOUS

<1>1. CASE FwLatch
  <2>1. rec' \in RecType
    BY <1>0, <1>n, <1>1 DEF FwLatch, Silent, Idle, Checked, Refused, Disabled, Restored,
       Restoring, RecType
  <2>2. fw' \in FwType
    BY <1>0, <1>1 DEF FwLatch, Silent, RecType, FwType
  <2>3. PairTypes' /\ window' \in {"open", "closed", "dummy"}
    BY <1>0, <1>n, <1>s, <1>1 DEF FwLatch, Silent, PairTypes
  <2> QED
    BY <1>1, <1>s, <2>1, <2>2, <2>3, TypesSplit DEF FwLatch, Silent
<1>2. CASE FwAck
  <2>1. rec' \in RecType
    <3>1. rec' = [rec EXCEPT !.ack = fw.seq, !.phase = 0]
      BY <1>2 DEF FwAck, Idle, Checked, Refused, Disabled, Restored, Restoring
    <3> QED
      BY <1>0, <1>n, <1>v, <3>1, RecUpdates
  <2>2. fw' \in FwType
    BY <1>0, <1>2 DEF FwAck, Silent, FwAt, RecType, FwType
  <2>3. PairTypes' /\ window' \in {"open", "closed", "dummy"}
    BY <1>0, <1>n, <1>s, <1>2 DEF FwAck, Silent, FwAt, PairTypes
  <2> QED
    BY <1>2, <1>s, <2>1, <2>2, <2>3, TypesSplit DEF FwAck, Silent, FwAt
<1>3. CASE FwGo
  <2>1. rec' \in RecType
    <3>1. rec' = rec \/ rec' = [rec EXCEPT !.phase = 2, !.done = "rejected"]
      BY <1>3 DEF FwGo, Idle, Checked, Refused, Disabled, Restored, Restoring
    <3>2. [rec EXCEPT !.phase = 2, !.done = "rejected"] \in RecType
      BY <1>0, <1>n, <1>v, RecUpdates
    <3> QED
      BY <1>0, <1>n, <1>v, <3>1, <3>2
  <2>2. fw' \in FwType
    BY <1>0, <1>3 DEF FwGo, Silent, RecType, FwType
  <2>3. PairTypes' /\ window' \in {"open", "closed", "dummy"}
    BY <1>0, <1>n, <1>s, <1>3 DEF FwGo, Silent, PairTypes
  <2> QED
    BY <1>3, <1>s, <2>1, <2>2, <2>3, TypesSplit DEF FwGo, Silent
<1>4. CASE FwRun
  <2>1. rec' \in RecType
    <3>1. \/ \E p \in {rec.phase, 4} : rec' = [rec EXCEPT !.done = "done", !.phase = p]
          \/ rec' = [rec EXCEPT !.phase = 1]
          \/ \E d \in {"rejected", "rounded"} : rec' = [rec EXCEPT !.phase = 2, !.done = d]
      BY <1>4 DEF FwRun, Idle, Checked, Refused, Disabled, Restored, Restoring
    <3>2. rec.phase \in 0 .. 5 /\ [rec EXCEPT !.phase = 1] \in RecType
      BY <1>0 DEF RecType
    <3>3. \A p \in {rec.phase, 4} : [rec EXCEPT !.done = "done", !.phase = p] \in RecType
      BY <1>0, <1>n, <1>v, <3>2, RecUpdates
    <3>4. \A d \in {"rejected", "rounded"} : [rec EXCEPT !.phase = 2, !.done = d] \in RecType
      BY <1>0, <1>n, <1>v, RecUpdates
    <3> QED
      BY <3>1, <3>2, <3>3, <3>4
  <2>2. fw' \in FwType
    BY <1>0, <1>4 DEF FwRun, Silent, RecType, FwType
  <2>3. PairTypes' /\ window' \in {"open", "closed", "dummy"}
    BY <1>0, <1>n, <1>s, <1>4 DEF FwRun, Silent, PairTypes
  <2> QED
    BY <1>4, <1>s, <2>1, <2>2, <2>3, TypesSplit DEF FwRun, Silent
<1>5. CASE FwAnnounce
  <2>1. rec' \in RecType
    BY <1>0, <1>n, <1>5 DEF FwAnnounce, Silent, FwAt, Idle, Checked, Refused, Disabled,
       Restored, Restoring, RecType
  <2>2. fw' \in FwType
    BY <1>0, <1>5 DEF FwAnnounce, Silent, FwAt, RecType, FwType
  <2>3. PairTypes' /\ window' \in {"open", "closed", "dummy"}
    BY <1>0, <1>n, <1>s, <1>5 DEF FwAnnounce, Silent, FwAt, PairTypes
  <2> QED
    BY <1>5, <1>s, <2>1, <2>2, <2>3, TypesSplit DEF FwAnnounce, Silent, FwAt
<1>6. CASE FwMove
  <2>1. rec' \in RecType
    BY <1>0, <1>n, <1>6 DEF FwMove, Silent, Idle, Checked, Refused, Disabled, Restored,
       Restoring, RecType
  <2>2. fw' \in FwType
    BY <1>0, <1>6 DEF FwMove, Silent, RecType, FwType
  <2>3. PairTypes' /\ window' \in {"open", "closed", "dummy"}
    BY <1>0, <1>n, <1>s, <1>6 DEF FwMove, Silent, PairTypes
  <2> QED
    BY <1>6, <1>s, <2>1, <2>2, <2>3, TypesSplit DEF FwMove, Silent
<1>7. CASE FwMend
  <2>1. rec' \in RecType
    BY <1>0, <1>n, <1>7 DEF FwMend, Silent, FwAt, Idle, Checked, Refused, Disabled, Restored,
       Restoring, RecType
  <2>2. fw' \in FwType
    BY <1>0, <1>7 DEF FwMend, Silent, FwAt, RecType, FwType
  <2>3. PairTypes' /\ window' \in {"open", "closed", "dummy"}
    BY <1>0, <1>n, <1>s, <1>7 DEF FwMend, Silent, FwAt, PairTypes
  <2> QED
    BY <1>7, <1>s, <2>1, <2>2, <2>3, TypesSplit DEF FwMend, Silent, FwAt
<1>8. CASE FwRestored
  <2>1. rec' \in RecType
    <3>1. rec' = [rec EXCEPT !.phase = 4, !.done = "done"]
      BY <1>8 DEF FwRestored, Idle, Checked, Refused, Disabled, Restored, Restoring
    <3> QED
      BY <1>0, <1>n, <1>v, <3>1, RecUpdates
  <2>2. fw' \in FwType
    BY <1>0, <1>8 DEF FwRestored, Silent, FwAt, RecType, FwType
  <2>3. PairTypes' /\ window' \in {"open", "closed", "dummy"}
    BY <1>0, <1>n, <1>s, <1>8 DEF FwRestored, Silent, FwAt, PairTypes
  <2> QED
    BY <1>8, <1>s, <2>1, <2>2, <2>3, TypesSplit DEF FwRestored, Silent, FwAt
<1>9. CASE FwPublish
  <2>1. rec' \in RecType
    BY <1>0, <1>n, <1>9 DEF FwPublish, Silent, FwAt, Idle, Checked, Refused, Disabled,
       Restored, Restoring, RecType
  <2>2. fw' \in FwType
    BY <1>0, <1>9 DEF FwPublish, Silent, FwAt, RecType, FwType
  <2>3. PairTypes' /\ window' \in {"open", "closed", "dummy"}
    BY <1>0, <1>n, <1>s, <1>9 DEF FwPublish, Silent, FwAt, PairTypes
  <2> QED
    BY <1>9, <1>s, <2>1, <2>2, <2>3, TypesSplit DEF FwPublish, Silent, FwAt
<1> QED
  BY <1>1, <1>2, <1>3, <1>4, <1>5, <1>6, <1>7, <1>8, <1>9 DEF Rp1

\* What the host leaves alone of the record, and what it reads of the RP1.
LEMMA HostFrame ==
  ASSUME MonitorInv, Host
  PROVE  /\ UNCHANGED <<fw, window, acked, ran>>
         /\ rec'.ack = rec.ack /\ rec'.phase = rec.phase
         /\ rec'.doneSeq = rec.doneSeq /\ rec'.done = rec.done
<1>1. rec \in RecType
  BY TypesSplit DEF MonitorInv
<1>2. \/ UNCHANGED rec
      \/ rec' = [rec EXCEPT !.go = 0, !.mode = mode]
      \/ rec' = [rec EXCEPT !.seq = seq]
      \/ rec' = [rec EXCEPT !.mode = "none", !.go = seq]
      \/ rec' = [rec EXCEPT !.go = seq]
  BY DEF Host, Entry, NextMode, Install, Precheck, SendMode, SendSeq, PollAck, ForceReject, Go,
     Unstable, ReadPhase, Probe, CountProbe, PollDone, AfterTraffic, AfterDone, AfterReject,
     PostPhase, PostProbe, Verdict
<1>3. UNCHANGED <<fw, window, acked, ran>>
  BY DEF Host, Entry, NextMode, Install, Precheck, SendMode, SendSeq, PollAck, ForceReject, Go,
     Unstable, ReadPhase, Probe, CountProbe, PollDone, AfterTraffic, AfterDone, AfterReject,
     PostPhase, PostProbe, Verdict, rp1
<1> QED
  BY <1>1, <1>2, <1>3 DEF RecType

\* A step of the RP1 leaves all of the host alone.
LEMMA Rp1Frame ==
  ASSUME MonitorInv, Rp1
  PROVE  /\ UNCHANGED <<pc, todo, mode, seq, stop, forced, got, during, ok, vector, armed,
                        taken, late, proven>>
         /\ ListInv' /\ PlaceInv' /\ GuardInv'
<1>1. UNCHANGED <<pc, todo, mode, seq, stop, forced, got, during, ok, vector, armed,
                  taken, late, proven>>
  BY DEF Rp1, Silent, FwLatch, FwAck, FwGo, FwRun, FwAnnounce, FwMove, FwMend, FwRestored,
     FwPublish, control, probe, guard, notes
<1> QED
  BY <1>1 DEF MonitorInv, ListInv, PlaceInv, GuardInv

\* Every step of the host keeps the invariant.
LEMMA HostKeeps == MonitorInv /\ Host => MonitorInv'
<1> SUFFICES ASSUME MonitorInv, Host PROVE MonitorInv'
  OBVIOUS
<1>0. /\ TypeOK /\ ListInv /\ PlaceInv /\ GuardInv /\ NumberInv /\ WindowInv
      /\ CleanInv /\ ModeInv /\ RunInv /\ AckInv /\ VerdictIsReal /\ AckIsItsOwn
  BY DEF MonitorInv
<1>a. rec \in RecType /\ fw \in FwType /\ seq \in Nat /\ ok \in BOOLEAN /\ rec.seq \in Nat /\ rec.doneSeq \in Nat
      /\ rec.ack \in Nat /\ fw.seq \in Nat /\ window \in {"open", "closed", "dummy"} /\ late \in BOOLEAN /\ mode \in Modes
  BY <1>0, TypesSplit, Sizes DEF TypeOK
<1>f. /\ UNCHANGED <<fw, window, acked, ran>>
      /\ rec'.ack = rec.ack /\ rec'.phase = rec.phase
      /\ rec'.doneSeq = rec.doneSeq /\ rec'.done = rec.done
  BY HostFrame
<1>w. WindowInv'
  BY <1>0, <1>f DEF WindowInv
<1>v. proven' = proven => VerdictIsReal'
  BY <1>0, <1>f DEF VerdictIsReal
<1>k. UNCHANGED taken /\ (stop => stop') /\ (late => late') => AckIsItsOwn'
  BY <1>0, <1>f DEF AckIsItsOwn
<1>1. CASE Entry
  <2>1. ListInv'
    <3>1. rec.seq \in Nat /\ rec.seq <= seq /\ seq = 0 /\ Len(todo) <= 6 /\ mode = "DONE"
      BY <1>0, <1>1 DEF Entry, ListInv, PlaceInv, NumberInv, TypeOK
    <3>2. UNCHANGED <<todo, mode>> /\ (pc' = "end" \/ (pc' = "next" /\ seq' = rec.seq + 1))
      BY <1>1 DEF Entry
    <3> QED
      BY <1>0, <3>1, <3>2, Numbers DEF ListInv
  <2>2. PlaceInv' /\ GuardInv'
    BY <1>0, <1>a, <1>f, <1>1, Names, Sizes DEF Entry, control, probe, guard, rp1, notes,
       Idle, Checked, Refused, Disabled, Restored, Restoring, PlaceInv, GuardInv, Started,
       Before, RecType
  <2>3. NumberInv' /\ CleanInv'
    BY <1>0, <1>a, <1>f, <1>1, Names, Sizes DEF Entry, control, probe, guard, rp1, notes,
       Idle, Checked, Refused, Disabled, Restored, Restoring, NumberInv, CleanInv, ModeInv,
       AckInv, RunInv, PlaceInv, Started, Before, RecType
  <2>4. ModeInv'
    BY <1>0, <1>a, <1>f, <1>1, Names, Sizes DEF Entry, control, probe, guard, rp1, notes,
       Idle, Checked, Refused, Disabled, Restored, Restoring, ModeInv, NumberInv, WindowInv,
       CleanInv, PlaceInv, Started, Before, RecType, FwType
  <2>5. RunInv' /\ AckInv'
    BY <1>0, <1>a, <1>f, <1>1, Names, Sizes DEF Entry, control, probe, guard, rp1, notes,
       Idle, Checked, Refused, Disabled, Restored, Restoring, RunInv, AckInv, WindowInv,
       ModeInv, PlaceInv, NumberInv, Moved, LastMode, CleanInv, Started, Before, RecType
  <2>6. VerdictIsReal' /\ AckIsItsOwn'
    BY <1>v, <1>k, <1>1 DEF Entry, notes, control
  <2> QED
    BY <1>w, <2>1, <2>2, <2>3, <2>4, <2>5, <2>6, HostTypes DEF MonitorInv
<1>2. CASE NextMode
  <2>1. ListInv'
    <3>1. CASE todo = << >>
      <4>1. mode' = "DONE" /\ seq' = seq + 1 /\ todo' = << >> /\ pc' = "send"
        BY <1>2, <3>1 DEF NextMode
      <4> QED
        BY <1>0, <4>1, Sizes, Numbers DEF ListInv
    <3>2. CASE todo # << >>
      <4>1. /\ seq' = seq /\ pc = "next"
            /\ \/ mode' = Head(todo) /\ todo' = Tail(todo) /\ pc' \in {"install", "precheck", "send"}
               \/ todo' = << >> /\ pc' = pc
        BY <1>2, <3>2 DEF NextMode, Begin
      <4>2. CASE mode' = Head(todo) /\ todo' = Tail(todo) /\ pc' \in {"install", "precheck", "send"}
        BY <1>0, <3>2, <4>1, <4>2, Numbers, HeadOfList DEF ListInv
      <4>3. CASE todo' = << >> /\ pc' = pc
        <5>1. todo' \in Seq(Modes \ {"DONE"}) /\ Len(todo') = 0
          BY <4>3, Sizes
        <5> QED
          BY <1>0, <3>2, <4>1, <4>3, <5>1, Numbers, HeadOfList DEF ListInv
      <4> QED
        BY <4>1, <4>2, <4>3
    <3> QED
      BY <3>1, <3>2
  <2>2. PlaceInv' /\ GuardInv'
    BY <1>0, <1>a, <1>f, <1>2, Names, Sizes DEF NextMode, Begin, Gated, control, probe, guard,
       rp1, notes, Idle, Checked, Refused, Disabled, Restored, Restoring, PlaceInv, GuardInv,
       Started, Before, RecType
  <2>3. NumberInv' /\ CleanInv'
    BY <1>0, <1>a, <1>f, <1>2, Names, Sizes DEF NextMode, Begin, Gated, control, probe, guard,
       rp1, notes, Idle, Checked, Refused, Disabled, Restored, Restoring, NumberInv, CleanInv,
       ModeInv, AckInv, RunInv, PlaceInv, Started, Before, RecType
  <2>4. ModeInv'
    BY <1>0, <1>a, <1>f, <1>2, Names, Sizes DEF NextMode, Begin, Gated, control, probe, guard,
       rp1, notes, Idle, Checked, Refused, Disabled, Restored, Restoring, ModeInv, NumberInv,
       WindowInv, CleanInv, PlaceInv, Started, Before, RecType, FwType
  <2>5. RunInv' /\ AckInv'
    BY <1>0, <1>a, <1>f, <1>2, Names, Sizes DEF NextMode, Begin, Gated, control, probe, guard,
       rp1, notes, Idle, Checked, Refused, Disabled, Restored, Restoring, RunInv, AckInv,
       WindowInv, ModeInv, PlaceInv, NumberInv, Moved, LastMode, CleanInv, Started, Before,
       RecType
  <2>6. VerdictIsReal' /\ AckIsItsOwn'
    BY <1>v, <1>k, <1>2 DEF NextMode, notes, control
  <2> QED
    BY <1>w, <2>1, <2>2, <2>3, <2>4, <2>5, <2>6, HostTypes DEF MonitorInv
<1>3. CASE Install
  <2>1. ListInv'
    <3>1. /\ UNCHANGED <<mode, seq>> /\ pc \notin {"next", "entry", "end"} /\ mode # "DONE"
          /\ pc' \in {"next", "precheck", "send"} /\ (todo' = todo \/ todo' = << >>)
      BY <1>0, <1>3 DEF Install, GiveUp, PlaceInv, Guarded
    <3>2. todo' \in Seq(Modes \ {"DONE"}) /\ (Len(todo') = Len(todo) \/ Len(todo') = 0)
      BY <1>0, <3>1, Sizes DEF ListInv
    <3> QED
      BY <1>0, <3>1, <3>2, Numbers DEF ListInv
  <2>2. PlaceInv' /\ GuardInv'
    BY <1>0, <1>a, <1>f, <1>3, Names, Sizes DEF Install, GiveUp, control, probe, guard, rp1,
       notes, Idle, Checked, Refused, Disabled, Restored, Restoring, PlaceInv, GuardInv,
       Started, Before, RecType
  <2>3. NumberInv' /\ CleanInv'
    BY <1>0, <1>a, <1>f, <1>3, Names, Sizes DEF Install, GiveUp, control, probe, guard, rp1,
       notes, Idle, Checked, Refused, Disabled, Restored, Restoring, NumberInv, CleanInv,
       ModeInv, AckInv, RunInv, PlaceInv, Started, Before, RecType
  <2>4. ModeInv'
    BY <1>0, <1>a, <1>f, <1>3, Names, Sizes DEF Install, GiveUp, control, probe, guard, rp1,
       notes, Idle, Checked, Refused, Disabled, Restored, Restoring, ModeInv, NumberInv,
       WindowInv, CleanInv, PlaceInv, Started, Before, RecType, FwType
  <2>5. RunInv' /\ AckInv'
    BY <1>0, <1>a, <1>f, <1>3, Names, Sizes DEF Install, GiveUp, control, probe, guard, rp1,
       notes, Idle, Checked, Refused, Disabled, Restored, Restoring, RunInv, AckInv,
       WindowInv, ModeInv, PlaceInv, NumberInv, Moved, LastMode, CleanInv, Started, Before,
       RecType
  <2>6. VerdictIsReal' /\ AckIsItsOwn'
    BY <1>v, <1>k, <1>3 DEF Install, notes, control
  <2> QED
    BY <1>w, <2>1, <2>2, <2>3, <2>4, <2>5, <2>6, HostTypes DEF MonitorInv
<1>4. CASE Precheck
  <2>1. ListInv'
    <3>1. /\ UNCHANGED <<mode, seq>> /\ pc \notin {"next", "entry", "end"} /\ mode # "DONE"
          /\ pc' \in {"parked", "send", "next"} /\ (todo' = todo \/ todo' = << >>)
      BY <1>0, <1>4 DEF Precheck, GiveUp, guard, PlaceInv, Guarded
    <3>2. todo' \in Seq(Modes \ {"DONE"}) /\ (Len(todo') = Len(todo) \/ Len(todo') = 0)
      BY <1>0, <3>1, Sizes DEF ListInv
    <3> QED
      BY <1>0, <3>1, <3>2, Numbers DEF ListInv
  <2>2. PlaceInv' /\ GuardInv'
    <3>1. window # "closed" \/ mode = "BLOCK"
      BY <1>0, <1>4, Names DEF Precheck, PlaceInv, CleanInv, WindowInv, Before
    <3>2. pc' = "parked" => mode = "BLOCK"
      BY <1>0, <1>a, <1>4, <3>1 DEF Precheck, PlaceInv, Survives, Reads, GiveUp
    <3>3. /\ UNCHANGED <<mode, forced>> /\ pc' \in {"parked", "send", "next"} /\ pc = "precheck"
      BY <1>4 DEF Precheck, GiveUp
    <3>8. PlaceInv'
      BY <1>0, <3>2, <3>3 DEF PlaceInv
    <3>9. GuardInv'
      BY <1>0, <1>4, <3>1, Names DEF Precheck, Survives, GiveUp, Release, guard, GuardInv, PlaceInv
    <3> QED
      BY <3>8, <3>9
  <2>3. NumberInv' /\ CleanInv'
    BY <1>0, <1>a, <1>f, <1>4, Names, Sizes DEF Precheck, Survives, Reads, GiveUp, Release,
       control, probe, guard, rp1, notes, Idle, Checked, Refused, Disabled, Restored,
       Restoring, NumberInv, CleanInv, ModeInv, AckInv, RunInv, PlaceInv, Started, Before,
       RecType
  <2>4. ModeInv'
    BY <1>0, <1>a, <1>f, <1>4, Names, Sizes DEF Precheck, Survives, Reads, GiveUp, Release,
       control, probe, guard, rp1, notes, Idle, Checked, Refused, Disabled, Restored,
       Restoring, ModeInv, NumberInv, WindowInv, CleanInv, PlaceInv, Started, Before, RecType,
       FwType
  <2>5. RunInv' /\ AckInv'
    BY <1>0, <1>a, <1>f, <1>4, Names, Sizes DEF Precheck, Survives, Reads, GiveUp, Release,
       control, probe, guard, rp1, notes, Idle, Checked, Refused, Disabled, Restored,
       Restoring, RunInv, AckInv, WindowInv, ModeInv, PlaceInv, NumberInv, Moved, LastMode,
       CleanInv, Started, Before, RecType
  <2>6. VerdictIsReal' /\ AckIsItsOwn'
    BY <1>v, <1>k, <1>4 DEF Precheck, notes, control
  <2> QED
    BY <1>w, <2>1, <2>2, <2>3, <2>4, <2>5, <2>6, HostTypes DEF MonitorInv
<1>5. CASE SendMode
  <2>1. ListInv'
    BY <1>0, <1>a, <1>f, <1>5, Names, Sizes DEF SendMode, control, probe, guard, rp1, notes,
       Idle, Checked, Refused, Disabled, Restored, Restoring, ListInv, PlaceInv, Started,
       Before, RecType
  <2>2. PlaceInv' /\ GuardInv'
    BY <1>0, <1>a, <1>f, <1>5, Names, Sizes DEF SendMode, control, probe, guard, rp1, notes,
       Idle, Checked, Refused, Disabled, Restored, Restoring, PlaceInv, GuardInv, Started,
       Before, RecType
  <2>3. NumberInv' /\ CleanInv'
    BY <1>0, <1>a, <1>f, <1>5, Names, Sizes DEF SendMode, control, probe, guard, rp1, notes,
       Idle, Checked, Refused, Disabled, Restored, Restoring, NumberInv, CleanInv, ModeInv,
       AckInv, RunInv, PlaceInv, Started, Before, RecType
  <2>4. ModeInv'
    BY <1>0, <1>a, <1>f, <1>5, Names, Sizes DEF SendMode, control, probe, guard, rp1, notes,
       Idle, Checked, Refused, Disabled, Restored, Restoring, ModeInv, NumberInv, WindowInv,
       CleanInv, PlaceInv, Started, Before, RecType, FwType
  <2>5. RunInv' /\ AckInv'
    BY <1>0, <1>a, <1>f, <1>5, Names, Sizes DEF SendMode, control, probe, guard, rp1, notes,
       Idle, Checked, Refused, Disabled, Restored, Restoring, RunInv, AckInv, WindowInv,
       ModeInv, PlaceInv, NumberInv, Moved, LastMode, CleanInv, Started, Before, RecType
  <2>6. VerdictIsReal' /\ AckIsItsOwn'
    BY <1>v, <1>k, <1>5 DEF SendMode, notes, control
  <2> QED
    BY <1>w, <2>1, <2>2, <2>3, <2>4, <2>5, <2>6, HostTypes DEF MonitorInv
<1>6. CASE SendSeq
  <2>1. ListInv'
    BY <1>0, <1>a, <1>f, <1>6, Names, Sizes DEF SendSeq, control, probe, guard, rp1, notes,
       Idle, Checked, Refused, Disabled, Restored, Restoring, ListInv, PlaceInv, Started,
       Before, RecType
  <2>2. PlaceInv' /\ GuardInv'
    BY <1>0, <1>a, <1>f, <1>6, Names, Sizes DEF SendSeq, control, probe, guard, rp1, notes,
       Idle, Checked, Refused, Disabled, Restored, Restoring, PlaceInv, GuardInv, Started,
       Before, RecType
  <2>3. NumberInv' /\ CleanInv'
    BY <1>0, <1>a, <1>f, <1>6, Names, Sizes DEF SendSeq, control, probe, guard, rp1, notes,
       Idle, Checked, Refused, Disabled, Restored, Restoring, NumberInv, CleanInv, ModeInv,
       AckInv, RunInv, PlaceInv, Started, Before, RecType
  <2>4. ModeInv'
    BY <1>0, <1>a, <1>f, <1>6, Names, Sizes DEF SendSeq, control, probe, guard, rp1, notes,
       Idle, Checked, Refused, Disabled, Restored, Restoring, ModeInv, NumberInv, WindowInv,
       CleanInv, PlaceInv, Started, Before, RecType, FwType
  <2>5. RunInv' /\ AckInv'
    BY <1>0, <1>a, <1>f, <1>6, Names, Sizes DEF SendSeq, control, probe, guard, rp1, notes,
       Idle, Checked, Refused, Disabled, Restored, Restoring, RunInv, AckInv, WindowInv,
       ModeInv, PlaceInv, NumberInv, Moved, LastMode, CleanInv, Started, Before, RecType
  <2>6. VerdictIsReal' /\ AckIsItsOwn'
    BY <1>v, <1>k, <1>6 DEF SendSeq, notes, control
  <2> QED
    BY <1>w, <2>1, <2>2, <2>3, <2>4, <2>5, <2>6, HostTypes DEF MonitorInv
<1>7. CASE PollAck
  <2>1. ListInv'
    <3>1. /\ seq' = seq /\ pc = "ack" /\ pc' \in {"ack", "acked", "send", "end", "next"}
          /\ mode' = mode \/ mode' = "DONE"
          /\ todo' = todo \/ todo' = << >>
      BY <1>7 DEF PollAck, AckTimeout, GiveUp
    <3>2. pc' = "next" => mode # "DONE" /\ todo' = << >>
      BY <1>7, Names DEF PollAck, AckTimeout, GiveUp
    <3>3. todo' \in Seq(Modes \ {"DONE"}) /\ (Len(todo') = Len(todo) \/ Len(todo') = 0)
      BY <1>0, <3>1, Sizes DEF ListInv
    <3>4. pc' = "next" => mode # "DONE" /\ Len(todo') = 0
      BY <3>2, Sizes
    <3> QED
      BY <1>0, <3>1, <3>3, <3>4, Numbers DEF ListInv
  <2>2. PlaceInv' /\ GuardInv'
    BY <1>0, <1>a, <1>f, <1>7, Names, Sizes DEF PollAck, AckSeen, LastPoll, AckTimeout,
       GiveUp, Release, control, probe, guard, rp1, notes, Idle, Checked, Refused, Disabled,
       Restored, Restoring, PlaceInv, GuardInv, Started, Before, RecType
  <2>3. NumberInv' /\ CleanInv'
    BY <1>0, <1>a, <1>f, <1>7, Names, Sizes DEF PollAck, AckSeen, LastPoll, AckTimeout,
       GiveUp, Release, control, probe, guard, rp1, notes, Idle, Checked, Refused, Disabled,
       Restored, Restoring, NumberInv, CleanInv, ModeInv, AckInv, RunInv, PlaceInv, Started,
       Before, RecType
  <2>4. ModeInv'
    BY <1>0, <1>a, <1>f, <1>7, Names, Sizes DEF PollAck, AckSeen, LastPoll, AckTimeout,
       GiveUp, Release, control, probe, guard, rp1, notes, Idle, Checked, Refused, Disabled,
       Restored, Restoring, ModeInv, NumberInv, WindowInv, CleanInv, PlaceInv, Started,
       Before, RecType, FwType
  <2>5. RunInv' /\ AckInv'
    BY <1>0, <1>a, <1>f, <1>7, Names, Sizes DEF PollAck, AckSeen, LastPoll, AckTimeout,
       GiveUp, Release, control, probe, guard, rp1, notes, Idle, Checked, Refused, Disabled,
       Restored, Restoring, RunInv, AckInv, WindowInv, ModeInv, PlaceInv, NumberInv, Moved,
       LastMode, CleanInv, Started, Before, RecType
  <2>6. VerdictIsReal' /\ AckIsItsOwn'
    <3>1. UNCHANGED proven /\ (stop => stop') /\ (late => late')
      BY <1>a, <1>7 DEF PollAck, AckTimeout
    <3>2. ASSUME AckSeen /\ taken' = <<mode, seq>> PROVE AckIsItsOwn'
      <4>1. fw.seq = seq /\ rec.seq = seq /\ <<fw.mode, seq>> \in acked /\ pc = "ack"
        <5>1. pc = "ack" /\ rec.ack = seq /\ seq >= 1
          BY <1>0, <1>7, <3>2 DEF PollAck, AckSeen, ListInv
        <5> QED
          BY <1>0, <1>a, <5>1 DEF NumberInv
      <4>2. CASE mode = "DONE"
        <5>1. fw.mode = "DONE" \/ (stop /\ late /\ IsTraffic(fw.mode))
          BY <1>0, <4>1, <4>2 DEF AckInv, LastMode
        <5>2. taken'[1] = "DONE" /\ taken'[2] = seq /\ taken' = <<"DONE", seq>>
          BY <3>2, <4>2
        <5>3. CASE fw.mode = "DONE"
          BY <1>f, <4>1, <5>2, <5>3 DEF AckIsItsOwn
        <5>4. CASE stop /\ late /\ IsTraffic(fw.mode)
          BY <1>f, <3>1, <4>1, <5>2, <5>4 DEF AckIsItsOwn, IsTraffic
        <5> QED
          BY <5>1, <5>3, <5>4
      <4>3. CASE mode # "DONE"
        <5>1. fw.mode = mode
          BY <1>0, <1>a, <4>1, <4>3 DEF ModeInv
        <5>2. taken' \in acked'
          BY <1>f, <3>2, <4>1, <5>1
        <5> QED
          BY <5>2 DEF AckIsItsOwn
      <4> QED
        BY <4>2, <4>3
    <3>3. CASE UNCHANGED taken
      BY <1>v, <1>k, <3>1, <3>3
    <3>4. VerdictIsReal'
      BY <1>v, <3>1
    <3> QED
      BY <1>7, <3>2, <3>3, <3>4 DEF PollAck
  <2> QED
    BY <1>w, <2>1, <2>2, <2>3, <2>4, <2>5, <2>6, HostTypes DEF MonitorInv
<1>8. CASE ForceReject
  <2>1. ListInv'
    BY <1>0, <1>a, <1>f, <1>8, Names, Sizes DEF ForceReject, control, probe, guard, rp1,
       notes, Idle, Checked, Refused, Disabled, Restored, Restoring, ListInv, PlaceInv,
       Started, Before, RecType
  <2>2. PlaceInv' /\ GuardInv'
    BY <1>0, <1>a, <1>f, <1>8, Names, Sizes DEF ForceReject, control, probe, guard, rp1,
       notes, Idle, Checked, Refused, Disabled, Restored, Restoring, PlaceInv, GuardInv,
       Started, Before, RecType
  <2>3. NumberInv' /\ CleanInv'
    BY <1>0, <1>a, <1>f, <1>8, Names, Sizes DEF ForceReject, control, probe, guard, rp1,
       notes, Idle, Checked, Refused, Disabled, Restored, Restoring, NumberInv, CleanInv,
       ModeInv, AckInv, RunInv, PlaceInv, Started, Before, RecType
  <2>4. ModeInv'
    BY <1>0, <1>a, <1>f, <1>8, Names, Sizes DEF ForceReject, control, probe, guard, rp1,
       notes, Idle, Checked, Refused, Disabled, Restored, Restoring, ModeInv, NumberInv,
       WindowInv, CleanInv, PlaceInv, Started, Before, RecType, FwType
  <2>5. RunInv' /\ AckInv'
    BY <1>0, <1>a, <1>f, <1>8, Names, Sizes DEF ForceReject, control, probe, guard, rp1,
       notes, Idle, Checked, Refused, Disabled, Restored, Restoring, RunInv, AckInv,
       WindowInv, ModeInv, PlaceInv, NumberInv, Moved, LastMode, CleanInv, Started, Before,
       RecType
  <2>6. VerdictIsReal' /\ AckIsItsOwn'
    BY <1>v, <1>k, <1>8 DEF ForceReject, notes, control
  <2> QED
    BY <1>w, <2>1, <2>2, <2>3, <2>4, <2>5, <2>6, HostTypes DEF MonitorInv
<1>9. CASE Go
  <2>1. ListInv'
    BY <1>0, <1>a, <1>f, <1>9, Names, Sizes DEF Go, AfterGo, control, probe, guard, rp1,
       notes, Idle, Checked, Refused, Disabled, Restored, Restoring, ListInv, PlaceInv,
       Started, Before, RecType
  <2>2. PlaceInv' /\ GuardInv'
    BY <1>0, <1>a, <1>f, <1>9, Names, Sizes DEF Go, AfterGo, control, probe, guard, rp1,
       notes, Idle, Checked, Refused, Disabled, Restored, Restoring, PlaceInv, GuardInv,
       Started, Before, RecType
  <2>3. NumberInv' /\ CleanInv'
    BY <1>0, <1>a, <1>f, <1>9, Names, Sizes DEF Go, AfterGo, control, probe, guard, rp1,
       notes, Idle, Checked, Refused, Disabled, Restored, Restoring, NumberInv, CleanInv,
       ModeInv, AckInv, RunInv, PlaceInv, Started, Before, RecType
  <2>4. ModeInv'
    BY <1>0, <1>a, <1>f, <1>9, Names, Sizes DEF Go, AfterGo, control, probe, guard, rp1,
       notes, Idle, Checked, Refused, Disabled, Restored, Restoring, ModeInv, NumberInv,
       WindowInv, CleanInv, PlaceInv, Started, Before, RecType, FwType
  <2>5. RunInv' /\ AckInv'
    BY <1>0, <1>a, <1>f, <1>9, Names, Sizes DEF Go, AfterGo, control, probe, guard, rp1,
       notes, Idle, Checked, Refused, Disabled, Restored, Restoring, RunInv, AckInv,
       WindowInv, ModeInv, PlaceInv, NumberInv, Moved, LastMode, CleanInv, Started, Before,
       RecType
  <2>6. VerdictIsReal' /\ AckIsItsOwn'
    BY <1>v, <1>k, <1>9 DEF Go, notes, control
  <2> QED
    BY <1>w, <2>1, <2>2, <2>3, <2>4, <2>5, <2>6, HostTypes DEF MonitorInv
<1>10. CASE Unstable
  <2>1. ListInv'
    BY <1>0, <1>a, <1>f, <1>10, Names, Sizes DEF Unstable, GiveUp, Release, control, probe,
       guard, rp1, notes, Idle, Checked, Refused, Disabled, Restored, Restoring, ListInv,
       PlaceInv, Started, Before, RecType
  <2>2. PlaceInv' /\ GuardInv'
    BY <1>0, <1>a, <1>f, <1>10, Names, Sizes DEF Unstable, GiveUp, Release, control, probe,
       guard, rp1, notes, Idle, Checked, Refused, Disabled, Restored, Restoring, PlaceInv,
       GuardInv, Started, Before, RecType
  <2>3. NumberInv' /\ CleanInv'
    BY <1>0, <1>a, <1>f, <1>10, Names, Sizes DEF Unstable, GiveUp, Release, control, probe,
       guard, rp1, notes, Idle, Checked, Refused, Disabled, Restored, Restoring, NumberInv,
       CleanInv, ModeInv, AckInv, RunInv, PlaceInv, Started, Before, RecType
  <2>4. ModeInv'
    BY <1>0, <1>a, <1>f, <1>10, Names, Sizes DEF Unstable, GiveUp, Release, control, probe,
       guard, rp1, notes, Idle, Checked, Refused, Disabled, Restored, Restoring, ModeInv,
       NumberInv, WindowInv, CleanInv, PlaceInv, Started, Before, RecType, FwType
  <2>5. RunInv' /\ AckInv'
    BY <1>0, <1>a, <1>f, <1>10, Names, Sizes DEF Unstable, GiveUp, Release, control, probe,
       guard, rp1, notes, Idle, Checked, Refused, Disabled, Restored, Restoring, RunInv,
       AckInv, WindowInv, ModeInv, PlaceInv, NumberInv, Moved, LastMode, CleanInv, Started,
       Before, RecType
  <2>6. VerdictIsReal' /\ AckIsItsOwn'
    BY <1>v, <1>k, <1>10 DEF Unstable, notes, control
  <2> QED
    BY <1>w, <2>1, <2>2, <2>3, <2>4, <2>5, <2>6, HostTypes DEF MonitorInv
<1>11. CASE ReadPhase
  <2>1. ListInv'
    BY <1>0, <1>a, <1>f, <1>11, Names, Sizes DEF ReadPhase, control, probe, guard, rp1, notes,
       Idle, Checked, Refused, Disabled, Restored, Restoring, ListInv, PlaceInv, Started,
       Before, RecType
  <2>2. PlaceInv' /\ GuardInv'
    BY <1>0, <1>a, <1>f, <1>11, Names, Sizes DEF ReadPhase, control, probe, guard, rp1, notes,
       Idle, Checked, Refused, Disabled, Restored, Restoring, PlaceInv, GuardInv, Started,
       Before, RecType
  <2>3. NumberInv' /\ CleanInv'
    BY <1>0, <1>a, <1>f, <1>11, Names, Sizes DEF ReadPhase, control, probe, guard, rp1, notes,
       Idle, Checked, Refused, Disabled, Restored, Restoring, NumberInv, CleanInv, ModeInv,
       AckInv, RunInv, PlaceInv, Started, Before, RecType
  <2>4. ModeInv'
    BY <1>0, <1>a, <1>f, <1>11, Names, Sizes DEF ReadPhase, control, probe, guard, rp1, notes,
       Idle, Checked, Refused, Disabled, Restored, Restoring, ModeInv, NumberInv, WindowInv,
       CleanInv, PlaceInv, Started, Before, RecType, FwType
  <2>5. RunInv' /\ AckInv'
    BY <1>0, <1>a, <1>f, <1>11, Names, Sizes DEF ReadPhase, control, probe, guard, rp1, notes,
       Idle, Checked, Refused, Disabled, Restored, Restoring, RunInv, AckInv, WindowInv,
       ModeInv, PlaceInv, NumberInv, Moved, LastMode, CleanInv, Started, Before, RecType
  <2>6. VerdictIsReal' /\ AckIsItsOwn'
    BY <1>v, <1>k, <1>11 DEF ReadPhase, notes, control
  <2> QED
    BY <1>w, <2>1, <2>2, <2>3, <2>4, <2>5, <2>6, HostTypes DEF MonitorInv
<1>12. CASE Probe
  <2>1. ListInv'
    BY <1>0, <1>a, <1>f, <1>12, Names, Sizes DEF Probe, ProbesIn, Survives, Reads, control,
       probe, guard, rp1, notes, Idle, Checked, Refused, Disabled, Restored, Restoring,
       ListInv, PlaceInv, Started, Before, RecType
  <2>2. PlaceInv' /\ GuardInv'
    <3>1. /\ pc = "probe" /\ UNCHANGED <<mode, forced>> /\ mode \in Moves /\ ~forced
          /\ pc' \in {"after", "parked"}
      BY <1>0, <1>a, <1>12 DEF Probe, PlaceInv, control
    <3>2. pc' = "parked" => ProbesIn(mode, seen) /\ window = "closed" /\ ~(vector /\ armed /\ seen = Disabled)
      BY <1>0, <1>a, <1>12 DEF Probe, Survives, Reads
    <3>3. mode = "HOLE" => ~(ProbesIn(mode, seen) /\ ~(vector /\ armed /\ seen = Disabled))
      BY <1>0, <3>1 DEF ProbesIn, GuardInv, Guarded
    <3>4. mode = "REDIRECT" => window # "closed"
      BY <1>0, <3>1 DEF ModeInv, WindowInv, Started
    <3>8. PlaceInv'
      BY <1>0, <3>1, <3>2, <3>3, <3>4, Names DEF PlaceInv
    <3>9. GuardInv'
      BY <1>0, <1>12, <3>1, Names DEF Probe, control, guard, GuardInv, PlaceInv
    <3> QED
      BY <3>8, <3>9
  <2>3. NumberInv' /\ CleanInv'
    BY <1>0, <1>a, <1>f, <1>12, Names, Sizes DEF Probe, ProbesIn, Survives, Reads, control,
       probe, guard, rp1, notes, Idle, Checked, Refused, Disabled, Restored, Restoring,
       NumberInv, CleanInv, ModeInv, AckInv, RunInv, PlaceInv, Started, Before, RecType
  <2>4. ModeInv'
    BY <1>0, <1>a, <1>f, <1>12, Names, Sizes DEF Probe, ProbesIn, Survives, Reads, control,
       probe, guard, rp1, notes, Idle, Checked, Refused, Disabled, Restored, Restoring,
       ModeInv, NumberInv, WindowInv, CleanInv, PlaceInv, Started, Before, RecType, FwType
  <2>5. RunInv' /\ AckInv'
    BY <1>0, <1>a, <1>f, <1>12, Names, Sizes DEF Probe, ProbesIn, Survives, Reads, control,
       probe, guard, rp1, notes, Idle, Checked, Refused, Disabled, Restored, Restoring,
       RunInv, AckInv, WindowInv, ModeInv, PlaceInv, NumberInv, Moved, LastMode, CleanInv,
       Started, Before, RecType
  <2>6. VerdictIsReal' /\ AckIsItsOwn'
    BY <1>v, <1>k, <1>12 DEF Probe, notes, control
  <2> QED
    BY <1>w, <2>1, <2>2, <2>3, <2>4, <2>5, <2>6, HostTypes DEF MonitorInv
<1>13. CASE CountProbe
  <2>1. ListInv'
    BY <1>0, <1>a, <1>f, <1>13, Names, Sizes DEF CountProbe, control, probe, guard, rp1,
       notes, Idle, Checked, Refused, Disabled, Restored, Restoring, ListInv, PlaceInv,
       Started, Before, RecType
  <2>2. PlaceInv' /\ GuardInv'
    BY <1>0, <1>a, <1>f, <1>13, Names, Sizes DEF CountProbe, control, probe, guard, rp1,
       notes, Idle, Checked, Refused, Disabled, Restored, Restoring, PlaceInv, GuardInv,
       Started, Before, RecType
  <2>3. NumberInv' /\ CleanInv'
    BY <1>0, <1>a, <1>f, <1>13, Names, Sizes DEF CountProbe, control, probe, guard, rp1,
       notes, Idle, Checked, Refused, Disabled, Restored, Restoring, NumberInv, CleanInv,
       ModeInv, AckInv, RunInv, PlaceInv, Started, Before, RecType
  <2>4. ModeInv'
    BY <1>0, <1>a, <1>f, <1>13, Names, Sizes DEF CountProbe, control, probe, guard, rp1,
       notes, Idle, Checked, Refused, Disabled, Restored, Restoring, ModeInv, NumberInv,
       WindowInv, CleanInv, PlaceInv, Started, Before, RecType, FwType
  <2>5. RunInv' /\ AckInv'
    BY <1>0, <1>a, <1>f, <1>13, Names, Sizes DEF CountProbe, control, probe, guard, rp1,
       notes, Idle, Checked, Refused, Disabled, Restored, Restoring, RunInv, AckInv,
       WindowInv, ModeInv, PlaceInv, NumberInv, Moved, LastMode, CleanInv, Started, Before,
       RecType
  <2>6. VerdictIsReal' /\ AckIsItsOwn'
    BY <1>v, <1>k, <1>13 DEF CountProbe, notes, control
  <2> QED
    BY <1>w, <2>1, <2>2, <2>3, <2>4, <2>5, <2>6, HostTypes DEF MonitorInv
<1>14. CASE PollDone
  <2>1. ListInv'
    BY <1>0, <1>a, <1>f, <1>14, Names, Sizes DEF PollDone, DoneSeen, LastPoll, control, probe,
       guard, rp1, notes, Idle, Checked, Refused, Disabled, Restored, Restoring, ListInv,
       PlaceInv, Started, Before, RecType
  <2>2. PlaceInv' /\ GuardInv'
    BY <1>0, <1>a, <1>f, <1>14, Names, Sizes DEF PollDone, DoneSeen, LastPoll, control, probe,
       guard, rp1, notes, Idle, Checked, Refused, Disabled, Restored, Restoring, PlaceInv,
       GuardInv, Started, Before, RecType
  <2>3. NumberInv' /\ CleanInv'
    BY <1>0, <1>a, <1>f, <1>14, Names, Sizes DEF PollDone, DoneSeen, LastPoll, control, probe,
       guard, rp1, notes, Idle, Checked, Refused, Disabled, Restored, Restoring, NumberInv,
       CleanInv, ModeInv, AckInv, RunInv, PlaceInv, Started, Before, RecType
  <2>4. ModeInv'
    <3>1. /\ pc = "wait" /\ UNCHANGED <<mode, seq, rec, fw>>
          /\ \/ pc' = "post" /\ rec.doneSeq = seq /\ ok' = (rec.done = "done")
             \/ pc' = "post" /\ ok' = FALSE
             \/ UNCHANGED <<pc, ok>>
      BY <1>14 DEF PollDone, DoneSeen, rp1, control
    <3>2. rec.doneSeq = fw.seq => fw.at = "idle"
      BY <1>0 DEF NumberInv, TypeOK
    <3>3. mode # "DONE" => rec.seq = seq /\ fw.seq = seq /\ fw.mode = mode /\ fw.at # "ack"
      BY <1>0, <3>1 DEF ModeInv, Started
    <3>4. pc' = "post" /\ ok' /\ mode # "DONE" => fw.at = "idle" /\ rec.done = "done"
      BY <3>1, <3>2, <3>3
    <3> QED
      BY <3>1, <3>3, <3>4 DEF ModeInv, Started
  <2>5. RunInv' /\ AckInv'
    BY <1>0, <1>a, <1>f, <1>14, Names, Sizes DEF PollDone, DoneSeen, LastPoll, control, probe,
       guard, rp1, notes, Idle, Checked, Refused, Disabled, Restored, Restoring, RunInv,
       AckInv, WindowInv, ModeInv, PlaceInv, NumberInv, Moved, LastMode, CleanInv, Started,
       Before, RecType
  <2>6. VerdictIsReal' /\ AckIsItsOwn'
    BY <1>v, <1>k, <1>14 DEF PollDone, notes, control
  <2> QED
    BY <1>w, <2>1, <2>2, <2>3, <2>4, <2>5, <2>6, HostTypes DEF MonitorInv
<1>15. CASE AfterTraffic
  <2>1. ListInv'
    BY <1>0, <1>a, <1>f, <1>15, Names, Sizes DEF AfterTraffic, control, probe, guard, rp1,
       notes, Idle, Checked, Refused, Disabled, Restored, Restoring, ListInv, PlaceInv,
       Started, Before, RecType
  <2>2. PlaceInv' /\ GuardInv'
    BY <1>0, <1>a, <1>f, <1>15, Names, Sizes DEF AfterTraffic, control, probe, guard, rp1,
       notes, Idle, Checked, Refused, Disabled, Restored, Restoring, PlaceInv, GuardInv,
       Started, Before, RecType
  <2>3. NumberInv' /\ CleanInv'
    BY <1>0, <1>a, <1>f, <1>15, Names, Sizes DEF AfterTraffic, control, probe, guard, rp1,
       notes, Idle, Checked, Refused, Disabled, Restored, Restoring, NumberInv, CleanInv,
       ModeInv, AckInv, RunInv, PlaceInv, Started, Before, RecType
  <2>4. ModeInv'
    BY <1>0, <1>a, <1>f, <1>15, Names, Sizes DEF AfterTraffic, control, probe, guard, rp1,
       notes, Idle, Checked, Refused, Disabled, Restored, Restoring, ModeInv, NumberInv,
       WindowInv, CleanInv, PlaceInv, Started, Before, RecType, FwType
  <2>5. RunInv' /\ AckInv'
    BY <1>0, <1>a, <1>f, <1>15, Names, Sizes DEF AfterTraffic, control, probe, guard, rp1,
       notes, Idle, Checked, Refused, Disabled, Restored, Restoring, RunInv, AckInv,
       WindowInv, ModeInv, PlaceInv, NumberInv, Moved, LastMode, CleanInv, Started, Before,
       RecType
  <2>6. VerdictIsReal' /\ AckIsItsOwn'
    BY <1>v, <1>k, <1>15 DEF AfterTraffic, notes, control
  <2> QED
    BY <1>w, <2>1, <2>2, <2>3, <2>4, <2>5, <2>6, HostTypes DEF MonitorInv
<1>16. CASE AfterDone
  <2>1. ListInv'
    BY <1>0, <1>a, <1>f, <1>16, Names, Sizes DEF AfterDone, control, probe, guard, rp1, notes,
       Idle, Checked, Refused, Disabled, Restored, Restoring, ListInv, PlaceInv, Started,
       Before, RecType
  <2>2. PlaceInv' /\ GuardInv'
    BY <1>0, <1>a, <1>f, <1>16, Names, Sizes DEF AfterDone, control, probe, guard, rp1, notes,
       Idle, Checked, Refused, Disabled, Restored, Restoring, PlaceInv, GuardInv, Started,
       Before, RecType
  <2>3. NumberInv' /\ CleanInv'
    BY <1>0, <1>a, <1>f, <1>16, Names, Sizes DEF AfterDone, control, probe, guard, rp1, notes,
       Idle, Checked, Refused, Disabled, Restored, Restoring, NumberInv, CleanInv, ModeInv,
       AckInv, RunInv, PlaceInv, Started, Before, RecType
  <2>4. ModeInv'
    BY <1>0, <1>a, <1>f, <1>16, Names, Sizes DEF AfterDone, control, probe, guard, rp1, notes,
       Idle, Checked, Refused, Disabled, Restored, Restoring, ModeInv, NumberInv, WindowInv,
       CleanInv, PlaceInv, Started, Before, RecType, FwType
  <2>5. RunInv' /\ AckInv'
    BY <1>0, <1>a, <1>f, <1>16, Names, Sizes DEF AfterDone, control, probe, guard, rp1, notes,
       Idle, Checked, Refused, Disabled, Restored, Restoring, RunInv, AckInv, WindowInv,
       ModeInv, PlaceInv, NumberInv, Moved, LastMode, CleanInv, Started, Before, RecType
  <2>6. VerdictIsReal' /\ AckIsItsOwn'
    BY <1>v, <1>k, <1>16 DEF AfterDone, notes, control
  <2> QED
    BY <1>w, <2>1, <2>2, <2>3, <2>4, <2>5, <2>6, HostTypes DEF MonitorInv
<1>17. CASE AfterReject
  <2>1. ListInv'
    BY <1>0, <1>a, <1>f, <1>17, Names, Sizes DEF AfterReject, GiveUp, Release, control, probe,
       guard, rp1, notes, Idle, Checked, Refused, Disabled, Restored, Restoring, ListInv,
       PlaceInv, Started, Before, RecType
  <2>2. PlaceInv' /\ GuardInv'
    BY <1>0, <1>a, <1>f, <1>17, Names, Sizes DEF AfterReject, GiveUp, Release, control, probe,
       guard, rp1, notes, Idle, Checked, Refused, Disabled, Restored, Restoring, PlaceInv,
       GuardInv, Started, Before, RecType
  <2>3. NumberInv' /\ CleanInv'
    BY <1>0, <1>a, <1>f, <1>17, Names, Sizes DEF AfterReject, GiveUp, Release, control, probe,
       guard, rp1, notes, Idle, Checked, Refused, Disabled, Restored, Restoring, NumberInv,
       CleanInv, ModeInv, AckInv, RunInv, PlaceInv, Started, Before, RecType
  <2>4. ModeInv'
    BY <1>0, <1>a, <1>f, <1>17, Names, Sizes DEF AfterReject, GiveUp, Release, control, probe,
       guard, rp1, notes, Idle, Checked, Refused, Disabled, Restored, Restoring, ModeInv,
       NumberInv, WindowInv, CleanInv, PlaceInv, Started, Before, RecType, FwType
  <2>5. RunInv' /\ AckInv'
    BY <1>0, <1>a, <1>f, <1>17, Names, Sizes DEF AfterReject, GiveUp, Release, control, probe,
       guard, rp1, notes, Idle, Checked, Refused, Disabled, Restored, Restoring, RunInv,
       AckInv, WindowInv, ModeInv, PlaceInv, NumberInv, Moved, LastMode, CleanInv, Started,
       Before, RecType
  <2>6. VerdictIsReal' /\ AckIsItsOwn'
    BY <1>v, <1>k, <1>17 DEF AfterReject, notes, control
  <2> QED
    BY <1>w, <2>1, <2>2, <2>3, <2>4, <2>5, <2>6, HostTypes DEF MonitorInv
<1>18. CASE PostPhase
  <2>1. ListInv'
    BY <1>0, <1>a, <1>f, <1>18, Names, Sizes DEF PostPhase, control, probe, guard, rp1, notes,
       Idle, Checked, Refused, Disabled, Restored, Restoring, ListInv, PlaceInv, Started,
       Before, RecType
  <2>2. PlaceInv' /\ GuardInv'
    BY <1>0, <1>a, <1>f, <1>18, Names, Sizes DEF PostPhase, control, probe, guard, rp1, notes,
       Idle, Checked, Refused, Disabled, Restored, Restoring, PlaceInv, GuardInv, Started,
       Before, RecType
  <2>3. NumberInv' /\ CleanInv'
    BY <1>0, <1>a, <1>f, <1>18, Names, Sizes DEF PostPhase, control, probe, guard, rp1, notes,
       Idle, Checked, Refused, Disabled, Restored, Restoring, NumberInv, CleanInv, ModeInv,
       AckInv, RunInv, PlaceInv, Started, Before, RecType
  <2>4. ModeInv'
    BY <1>0, <1>a, <1>f, <1>18, Names, Sizes DEF PostPhase, control, probe, guard, rp1, notes,
       Idle, Checked, Refused, Disabled, Restored, Restoring, ModeInv, NumberInv, WindowInv,
       CleanInv, PlaceInv, Started, Before, RecType, FwType
  <2>5. RunInv' /\ AckInv'
    BY <1>0, <1>a, <1>f, <1>18, Names, Sizes DEF PostPhase, control, probe, guard, rp1, notes,
       Idle, Checked, Refused, Disabled, Restored, Restoring, RunInv, AckInv, WindowInv,
       ModeInv, PlaceInv, NumberInv, Moved, LastMode, CleanInv, Started, Before, RecType
  <2>6. VerdictIsReal' /\ AckIsItsOwn'
    BY <1>v, <1>k, <1>18 DEF PostPhase, notes, control
  <2> QED
    BY <1>w, <2>1, <2>2, <2>3, <2>4, <2>5, <2>6, HostTypes DEF MonitorInv
<1>19. CASE PostProbe
  <2>1. ListInv'
    BY <1>0, <1>a, <1>f, <1>19, Names, Sizes DEF PostProbe, Survives, Reads, control, probe,
       guard, rp1, notes, Idle, Checked, Refused, Disabled, Restored, Restoring, ListInv,
       PlaceInv, Started, Before, RecType
  <2>2. PlaceInv' /\ GuardInv'
    <3>1. /\ pc = "postprobe" /\ UNCHANGED <<mode, forced>> /\ mode \in Moves \cup {"IATU"}
          /\ ~forced /\ pc' \in {"verdict", "parked"}
      BY <1>0, <1>a, <1>19 DEF PostProbe, PlaceInv, control
    <3>2. pc' = "parked" => window = "closed"
      BY <1>0, <1>a, <1>19 DEF PostProbe, Survives, Reads
    <3>3. mode \in {"HOLE", "REDIRECT", "IATU"} => window # "closed"
      BY <1>0, <3>1, Names DEF ModeInv, WindowInv, Started
    <3>8. PlaceInv'
      BY <1>0, <3>1, <3>2, <3>3, Names DEF PlaceInv
    <3>9. GuardInv'
      BY <1>0, <1>19, <3>1, Names DEF PostProbe, control, guard, GuardInv, PlaceInv
    <3> QED
      BY <3>8, <3>9
  <2>3. NumberInv' /\ CleanInv'
    BY <1>0, <1>a, <1>f, <1>19, Names, Sizes DEF PostProbe, Survives, Reads, control, probe,
       guard, rp1, notes, Idle, Checked, Refused, Disabled, Restored, Restoring, NumberInv,
       CleanInv, ModeInv, AckInv, RunInv, PlaceInv, Started, Before, RecType
  <2>4. ModeInv'
    BY <1>0, <1>a, <1>f, <1>19, Names, Sizes DEF PostProbe, Survives, Reads, control, probe,
       guard, rp1, notes, Idle, Checked, Refused, Disabled, Restored, Restoring, ModeInv,
       NumberInv, WindowInv, CleanInv, PlaceInv, Started, Before, RecType, FwType
  <2>5. RunInv' /\ AckInv'
    BY <1>0, <1>a, <1>f, <1>19, Names, Sizes DEF PostProbe, Survives, Reads, control, probe,
       guard, rp1, notes, Idle, Checked, Refused, Disabled, Restored, Restoring, RunInv,
       AckInv, WindowInv, ModeInv, PlaceInv, NumberInv, Moved, LastMode, CleanInv, Started,
       Before, RecType
  <2>6. VerdictIsReal' /\ AckIsItsOwn'
    BY <1>v, <1>k, <1>19 DEF PostProbe, notes, control
  <2> QED
    BY <1>w, <2>1, <2>2, <2>3, <2>4, <2>5, <2>6, HostTypes DEF MonitorInv
<1>20. CASE Verdict
  <2>1. ListInv'
    <3>1. /\ pc = "verdict" /\ mode # "DONE" /\ seq' = seq + 1 /\ mode' = mode
          /\ pc' = "next" /\ (todo' = todo \/ todo' = << >>)
      BY <1>0, <1>20, Names DEF Verdict, PlaceInv
    <3>2. todo' \in Seq(Modes \ {"DONE"}) /\ (Len(todo') = Len(todo) \/ Len(todo') = 0)
      BY <1>0, <3>1, Sizes DEF ListInv
    <3> QED
      BY <1>0, <3>1, <3>2, Numbers DEF ListInv
  <2>2. PlaceInv' /\ GuardInv'
    BY <1>0, <1>a, <1>f, <1>20, Names, Sizes DEF Verdict, Release, FallsBack, RoundedGate,
       RestoreGate, Proves, RecordGate, control, probe, guard, rp1, notes, Idle, Checked,
       Refused, Disabled, Restored, Restoring, PlaceInv, GuardInv, Started, Before, RecType
  <2>3. NumberInv' /\ CleanInv'
    <3>1. /\ pc = "verdict" /\ pc' = "next" /\ seq' = seq + 1 /\ UNCHANGED <<mode, rec>>
          /\ todo' = << >> \/ FallsBack
      BY <1>20 DEF Verdict
    <3>2. rec.seq = seq /\ fw.seq = seq /\ mode # "DONE"
      BY <1>0, <3>1, Names DEF ModeInv, PlaceInv, Started
    <3>3. FallsBack => fw.at = "idle"
      BY <1>0, <1>a, <3>1, <3>2
      DEF FallsBack, RoundedGate, RestoreGate, ModeInv, NumberInv, Started
    <3> QED
      BY <1>0, <1>a, <1>f, <3>1, <3>2, <3>3 DEF NumberInv, CleanInv, Before
  <2>4. ModeInv'
    BY <1>0, <1>a, <1>f, <1>20, Names, Sizes DEF Verdict, Release, FallsBack, RoundedGate,
       RestoreGate, Proves, RecordGate, control, probe, guard, rp1, notes, Idle, Checked,
       Refused, Disabled, Restored, Restoring, ModeInv, NumberInv, WindowInv, CleanInv,
       PlaceInv, Started, Before, RecType, FwType
  <2>5. RunInv' /\ AckInv'
    BY <1>0, <1>a, <1>f, <1>20, Names, Sizes DEF Verdict, Release, FallsBack, RoundedGate,
       RestoreGate, Proves, RecordGate, control, probe, guard, rp1, notes, Idle, Checked,
       Refused, Disabled, Restored, Restoring, RunInv, AckInv, WindowInv, ModeInv, PlaceInv,
       NumberInv, Moved, LastMode, CleanInv, Started, Before, RecType
  <2>6. VerdictIsReal' /\ AckIsItsOwn'
    <3>1. /\ pc = "verdict" /\ pc' = "next" /\ UNCHANGED <<ran>>
          /\ proven' = proven \/ (Proves /\ proven' = proven \cup {<<mode, seq>>})
      BY <1>20 DEF Verdict, rp1
    <3>2. /\ mode \in Moves \cup {"IATU"} /\ ~forced /\ mode # "DONE"
          /\ fw.seq = seq /\ fw.mode = mode
          /\ (ok => <<mode, seq, fw.effect>> \in ran)
          /\ (during \cap Moved # {} => fw.effect)
      BY <1>0, <3>1, Names DEF PlaceInv, ModeInv, RunInv, Started
    <3>3. Proves => ok /\ (mode \in {"REDIRECT", "HOLE", "INTERIOR"} => during \cap Moved # {})
      BY <3>2, Names DEF Proves, RestoreGate, Moved
    <3>4. VerdictIsReal'
      <4>1. fw.effect \in BOOLEAN
        BY <1>0 DEF TypeOK
      <4> SUFFICES ASSUME NEW p \in proven'
                   PROVE  \E e \in BOOLEAN :
                            /\ <<p[1], p[2], e>> \in ran
                            /\ p[1] \in {"REDIRECT", "HOLE", "INTERIOR"} => e
        BY <3>1 DEF VerdictIsReal
      <4>2. CASE p \in proven
        BY <1>0, <4>2 DEF RunInv, VerdictIsReal
      <4>3. CASE Proves /\ p = <<mode, seq>>
        BY <3>2, <3>3, <4>1, <4>3
      <4> QED
        BY <3>1, <4>2, <4>3
    <3> QED
      BY <1>20, <1>k, <3>4 DEF Verdict, control
  <2> QED
    BY <1>w, <2>1, <2>2, <2>3, <2>4, <2>5, <2>6, HostTypes DEF MonitorInv
<1> QED
  BY <1>1, <1>2, <1>3, <1>4, <1>5, <1>6, <1>7, <1>8, <1>9, <1>10, <1>11, <1>12, <1>13, <1>14,
     <1>15, <1>16, <1>17, <1>18, <1>19, <1>20 DEF Host

\* Every step of the RP1's program keeps the invariant.
LEMMA Rp1Keeps == MonitorInv /\ Rp1 => MonitorInv'
<1> SUFFICES ASSUME MonitorInv, Rp1 PROVE MonitorInv'
  OBVIOUS
<1>0. /\ TypeOK /\ ListInv /\ PlaceInv /\ GuardInv /\ NumberInv /\ WindowInv
      /\ CleanInv /\ ModeInv /\ RunInv /\ AckInv /\ VerdictIsReal /\ AckIsItsOwn
  BY DEF MonitorInv
<1>a. rec \in RecType /\ fw \in FwType /\ seq \in Nat /\ ok \in BOOLEAN /\ rec.seq \in Nat /\ rec.doneSeq \in Nat
      /\ rec.ack \in Nat /\ fw.seq \in Nat /\ window \in {"open", "closed", "dummy"} /\ late \in BOOLEAN /\ mode \in Modes
  BY <1>0, TypesSplit, Sizes DEF TypeOK
<1>f. /\ UNCHANGED <<pc, todo, mode, seq, stop, forced, got, during, ok, vector, armed,
                     taken, late, proven>>
      /\ ListInv' /\ PlaceInv' /\ GuardInv'
  BY Rp1Frame
<1>1. CASE FwLatch
  <2>1. NumberInv' /\ WindowInv'
    BY <1>0, <1>a, <1>f, <1>1, Names, Sizes DEF FwLatch, control, probe, guard, rp1, notes,
       Idle, Checked, Refused, Disabled, Restored, Restoring, NumberInv, WindowInv, ModeInv,
       Started, Before, RecType, FwType
  <2>2. CleanInv' /\ ModeInv'
    BY <1>0, <1>a, <1>f, <1>1, Names, Sizes DEF FwLatch, control, probe, guard, rp1, notes,
       Idle, Checked, Refused, Disabled, Restored, Restoring, CleanInv, ModeInv, NumberInv,
       WindowInv, PlaceInv, ListInv, Started, Before, RecType, FwType
  <2>3. RunInv' /\ AckInv' /\ VerdictIsReal' /\ AckIsItsOwn'
    BY <1>0, <1>a, <1>f, <1>1, Names, Sizes DEF FwLatch, control, probe, guard, rp1, notes,
       Idle, Checked, Refused, Disabled, Restored, Restoring, RunInv, AckInv, WindowInv,
       ModeInv, PlaceInv, NumberInv, Moved, LastMode, VerdictIsReal, AckIsItsOwn, Started,
       Before, RecType, FwType
  <2> QED
    BY <1>f, <2>1, <2>2, <2>3, Rp1Types DEF MonitorInv
<1>2. CASE FwAck
  <2>1. NumberInv' /\ WindowInv'
    BY <1>0, <1>a, <1>f, <1>2, Names, Sizes DEF FwAck, FwAt, control, probe, guard, rp1,
       notes, Idle, Checked, Refused, Disabled, Restored, Restoring, NumberInv, WindowInv,
       ModeInv, Started, Before, RecType, FwType
  <2>2. CleanInv' /\ ModeInv'
    BY <1>0, <1>a, <1>f, <1>2, Names, Sizes DEF FwAck, FwAt, control, probe, guard, rp1,
       notes, Idle, Checked, Refused, Disabled, Restored, Restoring, CleanInv, ModeInv,
       NumberInv, WindowInv, PlaceInv, ListInv, Started, Before, RecType, FwType
  <2>3. RunInv' /\ AckInv' /\ VerdictIsReal' /\ AckIsItsOwn'
    BY <1>0, <1>a, <1>f, <1>2, Names, Sizes DEF FwAck, FwAt, control, probe, guard, rp1,
       notes, Idle, Checked, Refused, Disabled, Restored, Restoring, RunInv, AckInv,
       WindowInv, ModeInv, PlaceInv, NumberInv, Moved, LastMode, VerdictIsReal, AckIsItsOwn,
       Started, Before, RecType, FwType
  <2> QED
    BY <1>f, <2>1, <2>2, <2>3, Rp1Types DEF MonitorInv
<1>3. CASE FwGo
  <2>a. /\ fw.at = "go" /\ rec.go = fw.seq /\ fw'.at \in {"run", "publish"}
        /\ UNCHANGED window /\ (fw'.at = "run" => rec'.phase = rec.phase)
        /\ fw'.seq = fw.seq /\ fw'.mode = fw.mode  /\ fw'.effect = fw.effect
        /\ rec'.seq = rec.seq /\ rec'.mode = rec.mode /\ rec'.go = rec.go
        /\ rec'.ack = rec.ack /\ rec'.doneSeq = rec.doneSeq
        /\ UNCHANGED <<acked, ran>>
    BY <1>a, <1>3 DEF FwGo, control, probe, guard, notes, RecType, FwType, Idle, Checked,
       Refused, Disabled, Restored
  <2>1. NumberInv' /\ WindowInv'
    BY <1>0, <1>a, <1>f, <2>a DEF NumberInv, WindowInv
  <2>2. CleanInv' /\ ModeInv'
    BY <1>0, <1>a, <1>f, <2>a DEF CleanInv, ModeInv, ListInv, Started, Before
  <2>3. RunInv' /\ AckInv' /\ VerdictIsReal' /\ AckIsItsOwn'
    BY <1>0, <1>a, <1>f, <2>a DEF RunInv, AckInv, LastMode, VerdictIsReal, AckIsItsOwn
  <2> QED
    BY <1>f, <2>1, <2>2, <2>3, Rp1Types DEF MonitorInv
<1>4. CASE FwRun
  <2>a. /\ fw.at = "run" /\ UNCHANGED window
        /\ \/ fw'.at = "publish"
           \/ fw.mode \in Moves /\ fw'.at = "checked" /\ rec'.phase = Checked
        /\ fw'.seq = fw.seq /\ fw'.mode = fw.mode  /\ fw'.effect = fw.effect
        /\ rec'.seq = rec.seq /\ rec'.mode = rec.mode /\ rec'.go = rec.go
        /\ rec'.ack = rec.ack /\ rec'.doneSeq = rec.doneSeq
        /\ UNCHANGED <<acked, ran>>
    <3>1. /\ fw.at = "run" /\ UNCHANGED <<window, acked, ran>>
          /\ \/ /\ fw' = [fw EXCEPT !.at = "publish"]
                /\ \E p, d : \/ rec' = [rec EXCEPT !.done = d, !.phase = p]
                            \/ rec' = [rec EXCEPT !.phase = p, !.done = d]
             \/ /\ fw.mode \in Moves
                /\ fw' = [fw EXCEPT !.at = "checked"]
                /\ rec' = [rec EXCEPT !.phase = Checked]
      <4>1. fw.at = "run" /\ UNCHANGED <<window, acked, ran>>
        BY <1>4 DEF FwRun
      <4> DEFINE p == IF fw.mode = "IATU" THEN Restored ELSE rec.phase
      <4>2. CASE /\ fw' = [fw EXCEPT !.at = "publish"]
                 /\ rec' = [rec EXCEPT !.done = "done", !.phase = p]
        BY <4>1, <4>2
      <4>3. CASE /\ fw' = [fw EXCEPT !.at = "publish"]
                 /\ \E d : rec' = [rec EXCEPT !.phase = Refused, !.done = d]
        BY <4>1, <4>3
      <4> QED
        BY <1>4, <4>1, <4>2, <4>3 DEF FwRun
    <3>2. ASSUME NEW p, NEW d, fw' = [fw EXCEPT !.at = "publish"],
                 \/ rec' = [rec EXCEPT !.done = d, !.phase = p]
                 \/ rec' = [rec EXCEPT !.phase = p, !.done = d]
          PROVE  /\ fw'.at = "publish"
                 /\ fw'.seq = fw.seq /\ fw'.mode = fw.mode /\ fw'.effect = fw.effect
                 /\ rec'.seq = rec.seq /\ rec'.mode = rec.mode /\ rec'.go = rec.go
                 /\ rec'.ack = rec.ack /\ rec'.doneSeq = rec.doneSeq
      BY <1>a, <3>2 DEF RecType, FwType
    <3>3. ASSUME fw' = [fw EXCEPT !.at = "checked"], rec' = [rec EXCEPT !.phase = Checked]
          PROVE  /\ fw'.at = "checked" /\ rec'.phase = Checked
                 /\ fw'.seq = fw.seq /\ fw'.mode = fw.mode /\ fw'.effect = fw.effect
                 /\ rec'.seq = rec.seq /\ rec'.mode = rec.mode /\ rec'.go = rec.go
                 /\ rec'.ack = rec.ack /\ rec'.doneSeq = rec.doneSeq
      BY <1>a, <3>3 DEF RecType, FwType
    <3>4. CASE fw' = [fw EXCEPT !.at = "publish"]
      <4>1. CASE \E p, d : \/ rec' = [rec EXCEPT !.done = d, !.phase = p]
                          \/ rec' = [rec EXCEPT !.phase = p, !.done = d]
        <5>1. PICK p, d : \/ rec' = [rec EXCEPT !.done = d, !.phase = p]
                          \/ rec' = [rec EXCEPT !.phase = p, !.done = d]
          BY <4>1
        <5>2. /\ fw'.at = "publish"
              /\ fw'.seq = fw.seq /\ fw'.mode = fw.mode /\ fw'.effect = fw.effect
              /\ rec'.seq = rec.seq /\ rec'.mode = rec.mode /\ rec'.go = rec.go
              /\ rec'.ack = rec.ack /\ rec'.doneSeq = rec.doneSeq
          BY <3>2, <3>4, <5>1
        <5>3. fw.at = "run" /\ UNCHANGED <<window, acked, ran>>
          BY <3>1
        <5> QED
          BY <5>2, <5>3
      <4> QED
        BY <3>1, <3>3, <3>4, <4>1
    <3>5. CASE /\ fw.mode \in Moves /\ fw' = [fw EXCEPT !.at = "checked"]
               /\ rec' = [rec EXCEPT !.phase = Checked]
      <4>1. fw.at = "run" /\ UNCHANGED <<window, acked, ran>>
        BY <3>1
      <4> QED
        BY <3>3, <3>5, <4>1
    <3> QED
      BY <3>1, <3>4, <3>5
  <2>1. NumberInv' /\ WindowInv'
    BY <1>0, <1>a, <1>f, <2>a DEF NumberInv, WindowInv, Checked, Restored
  <2>2. CleanInv' /\ ModeInv'
    BY <1>0, <1>a, <1>f, <2>a DEF CleanInv, ModeInv, ListInv, Started, Before, Checked
  <2>3. RunInv' /\ AckInv' /\ VerdictIsReal' /\ AckIsItsOwn'
    BY <1>0, <1>a, <1>f, <2>a DEF RunInv, AckInv, LastMode, VerdictIsReal, AckIsItsOwn
  <2> QED
    BY <1>f, <2>1, <2>2, <2>3, Rp1Types DEF MonitorInv
<1>5. CASE FwAnnounce
  <2>a. /\ \/ fw.at = "checked" /\ fw'.at = "announced"
           \/ fw.at = "shut" /\ fw'.at = "moved"
        /\ UNCHANGED window
        /\ fw'.seq = fw.seq /\ fw'.mode = fw.mode  /\ fw'.effect = fw.effect
        /\ rec'.seq = rec.seq /\ rec'.mode = rec.mode /\ rec'.go = rec.go
        /\ rec'.ack = rec.ack /\ rec'.doneSeq = rec.doneSeq
        /\ UNCHANGED <<acked, ran>>
    BY <1>a, <1>5 DEF FwAnnounce, FwAt, control, probe, guard, notes, RecType, FwType, Idle,
       Checked, Refused, Disabled, Restored
  <2>1. NumberInv' /\ WindowInv'
    BY <1>0, <1>a, <1>f, <1>5, Names, Sizes DEF FwAnnounce, FwAt, control, probe, guard, rp1,
       notes, Idle, Checked, Refused, Disabled, Restored, Restoring, NumberInv, WindowInv,
       ModeInv, Started, Before, RecType, FwType
  <2>2. CleanInv' /\ ModeInv'
    BY <1>0, <1>a, <1>f, <2>a DEF CleanInv, ModeInv, ListInv, Started, Before
  <2>3. RunInv' /\ AckInv' /\ VerdictIsReal' /\ AckIsItsOwn'
    BY <1>0, <1>a, <1>f, <2>a DEF RunInv, AckInv, LastMode, VerdictIsReal, AckIsItsOwn
  <2> QED
    BY <1>f, <2>1, <2>2, <2>3, Rp1Types DEF MonitorInv
<1>6. CASE FwMove
  <2>a. /\ fw.at \in {"checked", "announced"} /\ fw'.at \in {"shut", "moved"}
        /\ fw'.seq = fw.seq /\ fw'.mode = fw.mode
        /\ rec'.seq = rec.seq /\ rec'.mode = rec.mode /\ rec'.go = rec.go
        /\ rec'.ack = rec.ack /\ rec'.doneSeq = rec.doneSeq
        /\ UNCHANGED <<acked, ran>>
    BY <1>a, <1>6 DEF FwMove, control, probe, guard, notes, RecType, FwType, Idle, Checked,
       Refused, Disabled, Restored
  <2>1. NumberInv' /\ WindowInv'
    BY <1>0, <1>a, <1>f, <1>6, Names, Sizes DEF FwMove, control, probe, guard, rp1, notes,
       Idle, Checked, Refused, Disabled, Restored, Restoring, NumberInv, WindowInv, ModeInv,
       Started, Before, RecType, FwType
  <2>2. CleanInv' /\ ModeInv'
    BY <1>0, <1>a, <1>f, <1>6, Names, Sizes DEF FwMove, control, probe, guard, rp1, notes,
       Idle, Checked, Refused, Disabled, Restored, Restoring, CleanInv, ModeInv, NumberInv,
       WindowInv, PlaceInv, ListInv, Started, Before, RecType, FwType
  <2>3. RunInv' /\ AckInv' /\ VerdictIsReal' /\ AckIsItsOwn'
    BY <1>0, <1>a, <1>f, <2>a DEF RunInv, AckInv, LastMode, VerdictIsReal, AckIsItsOwn,
       ModeInv, WindowInv, Moved, Started
  <2> QED
    BY <1>f, <2>1, <2>2, <2>3, Rp1Types DEF MonitorInv
<1>7. CASE FwMend
  <2>a. /\ fw.at = "moved" /\ fw'.at = "open" /\ window' = "open"
        /\ fw'.seq = fw.seq /\ fw'.mode = fw.mode  /\ fw'.effect = fw.effect
        /\ rec'.seq = rec.seq /\ rec'.mode = rec.mode /\ rec'.go = rec.go
        /\ rec'.ack = rec.ack /\ rec'.doneSeq = rec.doneSeq
        /\ UNCHANGED <<acked, ran>>
    BY <1>a, <1>7 DEF FwMend, FwAt, control, probe, guard, notes, RecType, FwType, Idle,
       Checked, Refused, Disabled, Restored, Restoring
  <2>1. NumberInv' /\ WindowInv'
    BY <1>0, <1>a, <1>f, <1>7, Names, Sizes DEF FwMend, FwAt, control, probe, guard, rp1,
       notes, Idle, Checked, Refused, Disabled, Restored, Restoring, NumberInv, WindowInv,
       ModeInv, Started, Before, RecType, FwType
  <2>2. CleanInv' /\ ModeInv'
    BY <1>0, <1>a, <1>f, <1>7, Names, Sizes DEF FwMend, FwAt, control, probe, guard, rp1,
       notes, Idle, Checked, Refused, Disabled, Restored, Restoring, CleanInv, ModeInv,
       NumberInv, WindowInv, PlaceInv, ListInv, Started, Before, RecType, FwType
  <2>3. RunInv' /\ AckInv' /\ VerdictIsReal' /\ AckIsItsOwn'
    BY <1>0, <1>a, <1>f, <2>a DEF RunInv, AckInv, LastMode, VerdictIsReal, AckIsItsOwn
  <2> QED
    BY <1>f, <2>1, <2>2, <2>3, Rp1Types DEF MonitorInv
<1>8. CASE FwRestored
  <2>a. /\ fw.at = "open" /\ fw'.at = "publish" /\ UNCHANGED window
        /\ fw'.seq = fw.seq /\ fw'.mode = fw.mode  /\ fw'.effect = fw.effect
        /\ rec'.seq = rec.seq /\ rec'.mode = rec.mode /\ rec'.go = rec.go
        /\ rec'.ack = rec.ack /\ rec'.doneSeq = rec.doneSeq
        /\ UNCHANGED <<acked, ran>>
    BY <1>a, <1>8 DEF FwRestored, FwAt, control, probe, guard, notes, RecType, FwType, Idle,
       Checked, Refused, Disabled, Restored
  <2>1. NumberInv' /\ WindowInv'
    BY <1>0, <1>a, <1>f, <1>8, Names, Sizes DEF FwRestored, FwAt, control, probe, guard, rp1,
       notes, Idle, Checked, Refused, Disabled, Restored, Restoring, NumberInv, WindowInv,
       ModeInv, Started, Before, RecType, FwType
  <2>2. CleanInv' /\ ModeInv'
    BY <1>0, <1>a, <1>f, <1>8, Names, Sizes DEF FwRestored, FwAt, control, probe, guard, rp1,
       notes, Idle, Checked, Refused, Disabled, Restored, Restoring, CleanInv, ModeInv,
       NumberInv, WindowInv, PlaceInv, ListInv, Started, Before, RecType, FwType
  <2>3. RunInv' /\ AckInv' /\ VerdictIsReal' /\ AckIsItsOwn'
    BY <1>0, <1>a, <1>f, <2>a DEF RunInv, AckInv, LastMode, VerdictIsReal, AckIsItsOwn
  <2> QED
    BY <1>f, <2>1, <2>2, <2>3, Rp1Types DEF MonitorInv
<1>9. CASE FwPublish
  <2>1. NumberInv' /\ WindowInv'
    BY <1>0, <1>a, <1>f, <1>9, Names, Sizes DEF FwPublish, FwAt, control, probe, guard, rp1,
       notes, Idle, Checked, Refused, Disabled, Restored, Restoring, NumberInv, WindowInv,
       ModeInv, Started, Before, RecType, FwType
  <2>2. CleanInv' /\ ModeInv'
    BY <1>0, <1>a, <1>f, <1>9, Names, Sizes DEF FwPublish, FwAt, control, probe, guard, rp1,
       notes, Idle, Checked, Refused, Disabled, Restored, Restoring, CleanInv, ModeInv,
       NumberInv, WindowInv, PlaceInv, ListInv, Started, Before, RecType, FwType
  <2>3. RunInv' /\ AckInv' /\ VerdictIsReal' /\ AckIsItsOwn'
    BY <1>0, <1>a, <1>f, <1>9, Names, Sizes DEF FwPublish, FwAt, control, probe, guard, rp1,
       notes, Idle, Checked, Refused, Disabled, Restored, Restoring, RunInv, AckInv,
       WindowInv, ModeInv, PlaceInv, NumberInv, Moved, LastMode, VerdictIsReal, AckIsItsOwn,
       Started, Before, RecType, FwType
  <2> QED
    BY <1>f, <2>1, <2>2, <2>3, Rp1Types DEF MonitorInv
<1> QED
  BY <1>1, <1>2, <1>3, <1>4, <1>5, <1>6, <1>7, <1>8, <1>9 DEF Rp1
-----------------------------------------------------------------------------
\* The plans are short, and DONE is never on them.
LEMMA Plans ==
  ASSUME NEW b \in AllBuilds
  PROVE  Plan(b) \in Seq(Modes \ {"DONE"}) /\ Plan(b) \in Seq(Modes) /\ Len(Plan(b)) <= 6
<1> DEFINE M == Modes \ {"DONE"}
<1>1. Traffic \in Seq(M) /\ Len(Traffic) = 4
  BY Names DEF Traffic
<1>2. ASSUME NEW s \in Seq(M), Len(s) <= 2
      PROVE  Traffic \o s \in Seq(M) /\ Len(Traffic \o s) <= 6
  <2>1. Traffic \o s \in Seq(M) /\ Len(Traffic \o s) = Len(Traffic) + Len(s)
    BY <1>1, ConcatProperties
  <2> QED
    BY <1>1, <1>2, <2>1, LenProperties
<1>3. /\ <<"BLOCK">> \in Seq(M) /\ Len(<<"BLOCK">>) = 1
      /\ <<"REDIRECT", "HOLE">> \in Seq(M) /\ Len(<<"REDIRECT", "HOLE">>) = 2
      /\ <<"HOLE">> \in Seq(M) /\ Len(<<"HOLE">>) = 1
      /\ <<"INTERIOR">> \in Seq(M) /\ Len(<<"INTERIOR">>) = 1
      /\ <<"IATU">> \in Seq(M) /\ Len(<<"IATU">>) = 1
  BY Names
<1>4. /\ Traffic \o <<"BLOCK">> \in Seq(M) /\ Len(Traffic \o <<"BLOCK">>) <= 6
      /\ Traffic \o <<"REDIRECT", "HOLE">> \in Seq(M) /\ Len(Traffic \o <<"REDIRECT", "HOLE">>) <= 6
      /\ Traffic \o <<"HOLE">> \in Seq(M) /\ Len(Traffic \o <<"HOLE">>) <= 6
      /\ Traffic \in Seq(M) /\ Len(Traffic) <= 6
  <2>1. 1 <= 2 /\ 2 <= 2
    OBVIOUS
  <2>2. Len(Traffic) <= 6
    BY <1>1
  <2> HIDE DEF M
  <2> QED
    BY <1>1, <1>2, <1>3, <2>1, <2>2
<1>5. Plan(b) \in Seq(M) /\ Len(Plan(b)) <= 6
  <2> HIDE DEF M
  <2>1. b \in {"block", "protect4k", "hole64k", "interior", "iatu", "focused"}
    BY DEF AllBuilds
  <2>2. CASE b = "block"
    BY <1>4, <2>2 DEF Plan
  <2>3. CASE b = "protect4k"
    BY <1>4, <2>3 DEF Plan
  <2>4. CASE b = "hole64k"
    BY <1>4, <2>4 DEF Plan
  <2>5. CASE b = "interior"
    BY <1>3, <2>5 DEF Plan
  <2>6. CASE b = "iatu"
    BY <1>3, <2>6 DEF Plan
  <2>7. CASE b = "focused"
    <3>1. Plan(b) = Traffic
      BY <2>7 DEF Plan
    <3> QED
      BY <1>4, <3>1
  <2> QED
    BY <2>1, <2>2, <2>3, <2>4, <2>5, <2>6, <2>7
<1> QED
  BY <1>5

\* The invariant holds when the monitor is entered.
LEMMA MonitorInit == Init => MonitorInv
<1> SUFFICES ASSUME Init PROVE MonitorInv
  OBVIOUS
<1>1. todo \in Seq(Modes \ {"DONE"}) /\ todo \in Seq(Modes) /\ Len(todo) <= 6 /\ build \in AllBuilds
  BY Plans, MonitorAssumption DEF Init
<1>2. TypeOK
  <2>1. PlainTypes
    <3>1. /\ pc = "entry" /\ mode = "DONE" /\ seq = 0 /\ polls = 0 /\ ops = 0
          /\ stop = FALSE /\ forced = FALSE /\ ok = FALSE /\ seen = 0 /\ got = "none"
          /\ during = {} /\ vector = FALSE /\ armed = FALSE /\ late = FALSE
      BY DEF Init, Idle
    <3>2. mode \in Modes /\ seq \in 0 .. MaxSeq /\ polls \in 0 .. (Polls - 1)
          /\ ops \in 0 .. (Ops - 1) /\ seen \in 0 .. 5
      BY <3>1, Sizes
    <3> QED
      BY <1>1, <3>1, <3>2 DEF PlainTypes
  <2>2. PairTypes
    BY Sizes DEF Init, PairTypes
  <2>3. rec \in RecType /\ fw \in FwType /\ window \in {"open", "closed", "dummy"}
    BY Sizes DEF Init, RecType, FwType, Idle
  <2> QED
    BY <2>1, <2>2, <2>3 DEF TypeOK, PlainTypes, PairTypes, RecType, FwType
<1>3. ListInv /\ PlaceInv /\ GuardInv /\ NumberInv /\ WindowInv
  BY <1>1, Names DEF Init, Idle, Restored, ListInv, PlaceInv, GuardInv, NumberInv, WindowInv
<1>4. CleanInv /\ ModeInv
  BY DEF Init, CleanInv, ModeInv, Before, Started
<1>5. RunInv /\ AckInv /\ VerdictIsReal /\ AckIsItsOwn
  BY DEF Init, RunInv, AckInv, VerdictIsReal, AckIsItsOwn
<1> QED
  BY <1>2, <1>3, <1>4, <1>5 DEF MonitorInv

\* A stuttering step changes nothing.
LEMMA MonitorStill == MonitorInv /\ UNCHANGED vars => MonitorInv'
<1> SUFFICES ASSUME MonitorInv, UNCHANGED vars PROVE MonitorInv'
  OBVIOUS
<1>1. UNCHANGED <<pc, build, todo, mode, seq, stop, polls, forced, ops, seen, got, during, ok,
                  vector, armed, rec, fw, window, acked, ran, taken, late, proven>>
  BY DEF vars, control, probe, guard, rp1, notes
<1>2. TypeOK' /\ ListInv' /\ PlaceInv' /\ GuardInv'
  BY <1>1 DEF MonitorInv, TypeOK, ListInv, PlaceInv, GuardInv
<1>3. NumberInv' /\ WindowInv' /\ CleanInv' /\ ModeInv'
  BY <1>1 DEF MonitorInv, NumberInv, WindowInv, CleanInv, ModeInv
<1>4. RunInv' /\ AckInv' /\ VerdictIsReal' /\ AckIsItsOwn'
  BY <1>1 DEF MonitorInv, RunInv, AckInv, VerdictIsReal, AckIsItsOwn, LastMode
<1> QED
  BY <1>2, <1>3, <1>4 DEF MonitorInv

\* The invariant holds in every reachable state.
THEOREM MonitorInvariance == Spec => []MonitorInv
<1>1. MonitorInv /\ [Next]_vars => MonitorInv'
  BY HostKeeps, Rp1Keeps, MonitorStill DEF Next, Over
<1> QED
  BY <1>1, MonitorInit, PTL DEF Spec

\* Every variable of the proof and of the record keeps its type
\* (rp1_inbound_monitor.rs).
THEOREM MonitorTypes == Spec => []TypeOK
<1>1. MonitorInv => TypeOK
  BY DEF MonitorInv
<1> QED
  BY <1>1, MonitorInvariance, PTL

\* Every return of run_..._mode gives the abort vector back.
THEOREM VectorGivenBack == Spec => []NoGuardLeft
<1>1. MonitorInv => NoGuardLeft
  BY DEF MonitorInv, GuardInv, NoGuardLeft
<1> QED
  BY <1>1, MonitorInvariance, PTL

\* The hole modes, the redirect and the iATU mode never park the core.
THEOREM HolesNeverPark == Spec => []OnlyRacyModesPark
<1>1. MonitorInv => OnlyRacyModesPark
  BY DEF MonitorInv, PlaceInv, OnlyRacyModesPark
<1> QED
  BY <1>1, MonitorInvariance, PTL

\* A positive verdict is about a run that took place.
THEOREM VerdictsAreReal == Spec => []VerdictIsReal
<1>1. MonitorInv => VerdictIsReal
  BY DEF MonitorInv
<1> QED
  BY <1>1, MonitorInvariance, PTL

\* An ACK the host takes is the RP1's ACK of that mode, but for the DONE after
\* a timeout.
THEOREM AcksAreOwn == Spec => []AckIsItsOwn
<1>1. MonitorInv => AckIsItsOwn
  BY DEF MonitorInv
<1> QED
  BY <1>1, MonitorInvariance, PTL

\* The hole follows the redirect only when the RP1 has undone it.
THEOREM FallbacksAreClean == Spec => []FallbackIsClean
<1>1. MonitorInv => FallbackIsClean
  BY DEF MonitorInv, CleanInv, WindowInv, FallbackIsClean, Before
<1> QED
  BY <1>1, MonitorInvariance, PTL
-----------------------------------------------------------------------------
(* How long the proof can take.                                            *)

\* The steps the mode being run has left, at most: the polls of its two waits,
\* three reads for each probe and one step at each other place.
ModeLeft ==
  CASE pc = "install"  -> 8 + 2 * Polls + 3 * Ops
    [] pc = "precheck" -> 7 + 2 * Polls + 3 * Ops
    [] pc = "send"     -> 6 + 2 * Polls + 3 * Ops
    [] pc = "seq"      -> 5 + 2 * Polls + 3 * Ops
    [] pc = "ack"      -> 4 + Polls + 3 * Ops + (Polls - polls)
    [] pc = "acked"    -> 4 + Polls + 3 * Ops
    [] pc = "loop"     -> 3 + Polls + 3 * (Ops - ops)
    [] pc = "probe"    -> 2 + Polls + 3 * (Ops - ops)
    [] pc = "after"    -> 1 + Polls + 3 * (Ops - ops)
    [] pc = "wait"     -> 3 + (Polls - polls)
    [] pc = "post"     -> 3
    [] pc = "postprobe" -> 2
    [] OTHER -> 1

\* One mode with the step that picks it, and k of them.
Turn == 9 + 2 * Polls + 3 * Ops
Turns(k) == k * Turn

\* What follows the mode: those on the list, and DONE.
Rest == IF mode = "DONE" THEN 0 ELSE Turns(Len(todo) + 1)

StepsLeft ==
  CASE pc = "entry" -> Turns(Len(todo) + 1) + 1
    [] pc = "next" -> Turns(Len(todo) + 1)
    [] pc \in {"end", "parked"} -> 0
    [] OTHER -> ModeLeft + Rest

\* The proof takes at most seven turns and one step, whatever the RP1 does or
\* stops doing: each step of the host leaves fewer, no step of the RP1 adds any,
\* and none are left exactly when the proof has ended or parked the core.  So a
\* DONE sent under the old number, a forced rejection, a hole tried after a
\* redirect and every early return end the list (run_inbound_monitor_proof).
StepsBounded ==
  /\ [](StepsLeft \in 0 .. Turns(7) + 1 /\ (StepsLeft = 0 <=> pc \in {"end", "parked"}))
  /\ [][/\ Host => StepsLeft' < StepsLeft
        /\ Rp1 => StepsLeft' = StepsLeft]_vars

\* Places at which a mode is being run.
Running == {"install", "precheck", "send", "seq", "ack", "acked", "loop", "probe", "after",
            "wait", "post", "postprobe", "verdict"}

\* The turns left, one by one.
LEMMA TurnsAdd ==
  /\ Turn \in Nat /\ Turn = 9 + 2 * Polls + 3 * Ops
  /\ \A k \in Nat : Turns(k) \in Nat /\ Turns(k + 1) = Turns(k) + Turn
  /\ \A j, k \in Nat : j <= k => Turns(j) <= Turns(k)
<1>1. Turn \in Nat /\ Turn = 9 + 2 * Polls + 3 * Ops
  BY Sizes DEF Turn
<1> HIDE DEF Turn
<1>2. \A k \in Nat : Turns(k) \in Nat /\ Turns(k + 1) = Turns(k) + Turn
  <2> SUFFICES ASSUME NEW k \in Nat
               PROVE  Turns(k) \in Nat /\ Turns(k + 1) = Turns(k) + Turn
    OBVIOUS
  <2>1. k * Turn \in Nat /\ (k + 1) * Turn = k * Turn + Turn
    BY <1>1
  <2> QED
    BY <2>1 DEF Turns
<1>3. ASSUME NEW j \in Nat, NEW k \in Nat, j <= k PROVE Turns(j) <= Turns(k)
  <2> DEFINE d == k - j
  <2>1. d \in Nat /\ k = j + d
    BY <1>3
  <2> HIDE DEF d
  <2>2. (j + d) * Turn = j * Turn + d * Turn /\ d * Turn \in Nat /\ j * Turn \in Nat
    BY <1>1, <2>1
  <2> QED
    BY <2>1, <2>2 DEF Turns
<1> QED
  BY <1>1, <1>2, <1>3

\* The numbers at hand.
LEMMA TurnNumbers ==
  ASSUME MonitorInv
  PROVE  /\ Polls \in Nat /\ Ops \in Nat /\ Polls >= 1 /\ Ops >= 1
         /\ polls \in 0 .. Polls - 1 /\ ops \in 0 .. Ops - 1
         /\ Len(todo) \in Nat /\ Turns(Len(todo) + 1) \in Nat
         /\ Turns(Len(todo) + 1) >= Turn /\ Turn \in Nat
         /\ Turn = 9 + 2 * Polls + 3 * Ops
         /\ Rest \in Nat
<1>1. /\ Polls \in Nat /\ Ops \in Nat /\ Polls >= 1 /\ Ops >= 1
      /\ polls \in 0 .. Polls - 1 /\ ops \in 0 .. Ops - 1 /\ Len(todo) \in Nat
  BY Sizes, Numbers DEF MonitorInv, TypeOK
<1>2. Turns(Len(todo)) \in Nat /\ Turns(Len(todo) + 1) = Turns(Len(todo)) + Turn
      /\ Turn \in Nat /\ Turn = 9 + 2 * Polls + 3 * Ops
  BY <1>1, TurnsAdd
<1>3. Turns(Len(todo) + 1) \in Nat /\ Turns(Len(todo) + 1) >= Turn
  BY <1>2
<1>4. Rest \in Nat
  BY <1>3 DEF Rest
<1> QED
  BY <1>1, <1>2, <1>3, <1>4

\* A mode that is being run has something left, and less than a turn.
LEMMA ModeLeftRange ==
  ASSUME MonitorInv, pc \in Running
  PROVE  ModeLeft \in 1 .. Turn - 1
<1>1. /\ Polls \in Nat /\ Ops \in Nat /\ Polls >= 1 /\ Ops >= 1
      /\ polls \in 0 .. Polls - 1 /\ ops \in 0 .. Ops - 1
      /\ Turn \in Nat /\ Turn = 9 + 2 * Polls + 3 * Ops
  BY TurnNumbers
<1>2. \/ ModeLeft \in {1, 2, 3}
      \/ ModeLeft = 8 + 2 * Polls + 3 * Ops \/ ModeLeft = 7 + 2 * Polls + 3 * Ops
      \/ ModeLeft = 6 + 2 * Polls + 3 * Ops \/ ModeLeft = 5 + 2 * Polls + 3 * Ops
      \/ ModeLeft = 4 + Polls + 3 * Ops + (Polls - polls)
      \/ ModeLeft = 4 + Polls + 3 * Ops
      \/ ModeLeft = 3 + Polls + 3 * (Ops - ops)
      \/ ModeLeft = 2 + Polls + 3 * (Ops - ops)
      \/ ModeLeft = 1 + Polls + 3 * (Ops - ops)
      \/ ModeLeft = 3 + (Polls - polls)
  BY DEF ModeLeft
<1> HIDE DEF ModeLeft
<1> QED
  BY <1>1, <1>2

\* What is left is within the bound, and zero once the proof is over.
LEMMA StepsRange ==
  ASSUME MonitorInv
  PROVE  StepsLeft \in 0 .. Turns(7) + 1 /\ (StepsLeft = 0 <=> pc \in {"end", "parked"})
<1>1. /\ Len(todo) \in Nat /\ Turns(Len(todo) + 1) \in Nat
      /\ Turns(Len(todo) + 1) >= Turn /\ Turn \in Nat /\ Turn >= 1
  <2>1. /\ Len(todo) \in Nat /\ Turns(Len(todo) + 1) \in Nat
        /\ Turns(Len(todo) + 1) >= Turn /\ Turn \in Nat
        /\ Polls \in Nat /\ Ops \in Nat /\ Turn = 9 + 2 * Polls + 3 * Ops
    BY TurnNumbers
  <2>2. Turn >= 1
    BY <2>1
  <2> QED
    BY <2>1, <2>2
<1>2. /\ pc \in {"entry", "next"} => Len(todo) <= 6
      /\ pc \in Running /\ mode # "DONE" => Len(todo) <= 5
  <2>1. seq \in Nat /\ ListInv
    BY Numbers DEF MonitorInv
  <2> QED
    BY <1>1, <2>1 DEF ListInv, Running
<1>3. /\ pc \in {"entry", "next"} => Turns(Len(todo) + 1) <= Turns(7)
      /\ pc \in Running /\ mode # "DONE" => Turns(Len(todo) + 1) <= Turns(6)
  <2> DEFINE k == Len(todo) + 1
  <2>1. /\ k \in Nat /\ 6 \in Nat /\ 7 \in Nat
        /\ pc \in {"entry", "next"} => k <= 7
        /\ pc \in Running /\ mode # "DONE" => k <= 6
    BY <1>1, <1>2
  <2> HIDE DEF k
  <2>2. (k <= 7 => Turns(k) <= Turns(7)) /\ (k <= 6 => Turns(k) <= Turns(6))
    BY <2>1, TurnsAdd
  <2> QED
    BY <2>1, <2>2 DEF k
<1>4. /\ Turns(6) \in Nat /\ Turns(7) \in Nat /\ Turns(7) = Turns(6) + Turn
  <2>1. Turns(6) \in Nat /\ Turns(6 + 1) = Turns(6) + Turn /\ 6 + 1 = 7
    BY TurnsAdd
  <2> QED
    BY <1>1, <2>1
<1>5. CASE pc = "entry"
  BY <1>1, <1>3, <1>4, <1>5 DEF StepsLeft
<1>6. CASE pc = "next"
  BY <1>1, <1>3, <1>4, <1>6 DEF StepsLeft
<1>7. CASE pc \in {"end", "parked"}
  BY <1>1, <1>4, <1>7 DEF StepsLeft
<1>8. CASE pc \in Running
  <2>1. StepsLeft = ModeLeft + Rest
    BY <1>8 DEF StepsLeft, Running
  <2>2. ModeLeft \in 1 .. Turn - 1
    BY <1>8, ModeLeftRange
  <2>3. Rest \in Nat /\ Rest <= Turns(6)
    BY <1>1, <1>3, <1>4, <1>8 DEF Rest
  <2>4. StepsLeft \in 1 .. Turns(7) + 1
    BY <1>1, <1>4, <2>1, <2>2, <2>3
  <2> QED
    BY <1>4, <1>8, <2>4 DEF Running
<1>9. pc \in {"entry", "next", "end", "parked"} \cup Running
  BY TypesSplit DEF MonitorInv, PlainTypes, Running
<1> QED
  BY <1>5, <1>6, <1>7, <1>8, <1>9

-----------------------------------------------------------------------------
\* A step within a mode.
LEMMA WithinMode ==
  ASSUME MonitorInv, pc \in Running, pc' \in Running, UNCHANGED <<mode, todo>>,
         NEW n \in Nat, ModeLeft' = n, n < ModeLeft
  PROVE  StepsLeft' < StepsLeft
<1>1. StepsLeft = ModeLeft + Rest /\ StepsLeft' = ModeLeft' + Rest'
  BY DEF StepsLeft, Running
<1>2. Rest' = Rest
  BY DEF Rest, Turns, Turn
<1>3. ModeLeft \in Nat /\ Rest \in Nat
  <2>1. ModeLeft \in 1 .. Turn - 1 /\ Turn \in Nat
    BY ModeLeftRange, TurnNumbers
  <2> QED
    BY <2>1, TurnNumbers
<1> QED
  BY <1>1, <1>2, <1>3

\* A step that ends the proof.
LEMMA ToTheEnd ==
  ASSUME MonitorInv, pc \in Running \cup {"entry", "next"}, pc' \in {"end", "parked"}
  PROVE  StepsLeft' < StepsLeft
<1>1. StepsLeft' = 0
  BY DEF StepsLeft
<1>2. StepsLeft \in 0 .. Turns(7) + 1 /\ StepsLeft # 0 /\ Turns(7) \in Nat
  BY StepsRange, TurnsAdd DEF Running
<1> QED
  BY <1>1, <1>2

\* A step that ends the mode, and goes on with the list or drops it.
LEMMA ToTheNext ==
  ASSUME MonitorInv, pc \in Running, mode # "DONE", pc' = "next", todo' \in {todo, << >>}
  PROVE  StepsLeft' < StepsLeft
<1>1. /\ Len(todo) \in Nat /\ Turns(Len(todo) + 1) \in Nat /\ Turn \in Nat
      /\ Turns(Len(todo) + 1) >= Turn
  BY TurnNumbers
<1>2. StepsLeft = ModeLeft + Turns(Len(todo) + 1)
  BY DEF StepsLeft, Rest, Running
<1>3. ModeLeft \in 1 .. Turn - 1
  BY ModeLeftRange
<1>4. StepsLeft' \in {Turns(Len(todo) + 1), Turns(0 + 1)}
  <2>1. StepsLeft' = Turns(Len(todo') + 1)
    BY DEF StepsLeft, Turns, Turn
  <2>2. CASE todo' = todo
    BY <2>1, <2>2
  <2>3. CASE todo' = << >>
    BY <2>1, <2>3, Sizes
  <2> QED
    BY <2>2, <2>3
<1>5. Turns(0 + 1) \in Nat /\ Turns(0 + 1) <= Turns(Len(todo) + 1)
  <2>1. 0 + 1 \in Nat /\ Len(todo) + 1 \in Nat /\ 0 + 1 <= Len(todo) + 1
    BY <1>1
  <2> QED
    BY <2>1, TurnsAdd
<1> QED
  BY <1>1, <1>2, <1>3, <1>4, <1>5

\* A step that drops the list and sends DONE.
LEMMA ToDone ==
  ASSUME MonitorInv, pc \in Running, mode # "DONE", pc' = "send", mode' = "DONE"
  PROVE  StepsLeft' < StepsLeft
<1>1. /\ Turns(Len(todo) + 1) \in Nat /\ Turn \in Nat /\ Turns(Len(todo) + 1) >= Turn
      /\ Polls \in Nat /\ Ops \in Nat /\ Turn = 9 + 2 * Polls + 3 * Ops
  BY TurnNumbers
<1>2. StepsLeft = ModeLeft + Turns(Len(todo) + 1)
  BY DEF StepsLeft, Rest, Running
<1>3. ModeLeft \in 1 .. Turn - 1
  BY ModeLeftRange
<1>4. StepsLeft' = 6 + 2 * Polls + 3 * Ops + 0
  BY DEF StepsLeft, ModeLeft, Rest
<1> QED
  BY <1>1, <1>2, <1>3, <1>4

\* Every step of the host leaves fewer.
LEMMA HostStepShortens ==
  ASSUME MonitorInv, Host
  PROVE  StepsLeft' < StepsLeft
<1>0. /\ ListInv /\ PlaceInv
      /\ Polls \in Nat /\ Ops \in Nat /\ Polls >= 1 /\ Ops >= 1
      /\ polls \in 0 .. Polls - 1 /\ ops \in 0 .. Ops - 1
      /\ Len(todo) \in Nat /\ Turns(Len(todo) + 1) \in Nat
      /\ Turn \in Nat /\ Turn = 9 + 2 * Polls + 3 * Ops
  BY TurnNumbers DEF MonitorInv
<1>m. /\ IsTraffic(mode) => mode # "DONE"
      /\ mode \in Moves \cup {"IATU"} => mode # "DONE"
      /\ mode \in Guarded => mode # "DONE"
  BY Names
<1>1. CASE Entry
  <2>1. pc = "entry" /\ pc' \in {"end", "next"} /\ todo' = todo
    BY <1>1 DEF Entry
  <2>2. StepsLeft = Turns(Len(todo) + 1) + 1
    BY <2>1 DEF StepsLeft
  <2>3. pc' = "next" => StepsLeft' = Turns(Len(todo) + 1)
    BY <2>1 DEF StepsLeft, Turns, Turn
  <2> QED
    BY <1>0, <2>1, <2>2, <2>3, ToTheEnd
<1>2. CASE NextMode
  <2>1. pc = "next" /\ StepsLeft = Turns(Len(todo) + 1)
    BY <1>2 DEF NextMode, StepsLeft
  <2>2. CASE todo = << >>
    <3>1. mode' = "DONE" /\ pc' = "send"
      BY <1>2, <2>2 DEF NextMode
    <3>2. StepsLeft' = 6 + 2 * Polls + 3 * Ops + 0
      BY <3>1 DEF StepsLeft, ModeLeft, Rest
    <3>3. Turns(Len(todo) + 1) >= Turn
      BY TurnNumbers
    <3> QED
      BY <1>0, <2>1, <3>2, <3>3
  <2>3. CASE todo # << >>
    <3> DEFINE k == Len(todo) - 1
    <3>1. /\ k \in Nat /\ Len(todo) = k + 1 /\ Len(Tail(todo)) = k
          /\ Head(todo) \in Modes \ {"DONE"}
      BY <1>0, <2>3, HeadOfList
    <3> HIDE DEF k
    <3>2. /\ Turns(k + 1) \in Nat /\ Turns(k + 1 + 1) = Turns(k + 1) + Turn
          /\ Turns(0 + 1) \in Nat /\ Turns(0 + 1) <= Turns(k + 1)
      <4>1. k + 1 \in Nat /\ 0 + 1 \in Nat /\ 0 + 1 <= k + 1
        BY <3>1
      <4> QED
        BY <4>1, TurnsAdd
    <3>3. StepsLeft = Turns(k + 1) + Turn
      BY <2>1, <3>1, <3>2
    <3>4. CASE mode' = Head(todo) /\ todo' = Tail(todo) /\ pc' = Begin(Head(todo))
      <4>1. pc' \in {"install", "precheck", "send"} /\ mode' # "DONE"
        BY <3>1, <3>4 DEF Begin
      <4>2. StepsLeft' = ModeLeft' + Turns(Len(todo') + 1)
        BY <4>1 DEF StepsLeft, Rest, Turns, Turn
      <4>3. \/ ModeLeft' = 8 + 2 * Polls + 3 * Ops
            \/ ModeLeft' = 7 + 2 * Polls + 3 * Ops
            \/ ModeLeft' = 6 + 2 * Polls + 3 * Ops
        BY <4>1 DEF ModeLeft
      <4>4. StepsLeft' = ModeLeft' + Turns(k + 1)
        BY <3>1, <3>4, <4>2
      <4> QED
        BY <1>0, <3>2, <3>3, <4>3, <4>4
    <3>5. CASE pc' = pc /\ todo' = << >>
      <4>1. StepsLeft' = Turns(Len(todo') + 1)
        BY <2>1, <3>5 DEF StepsLeft, Turns, Turn
      <4>2. StepsLeft' = Turns(0 + 1)
        BY <3>5, <4>1, Sizes
      <4>3. Turn >= 1
        BY <1>0
      <4> QED
        BY <1>0, <3>2, <3>3, <4>2, <4>3
    <3> QED
      BY <1>2, <2>3, <3>4, <3>5 DEF NextMode
  <2> QED
    BY <2>2, <2>3
<1>3. CASE Install
  <2>1. pc = "install" /\ mode # "DONE" /\ ModeLeft = 8 + 2 * Polls + 3 * Ops
    BY <1>0, <1>3, <1>m DEF Install, PlaceInv, ModeLeft
  <2>2. CASE pc' \in {"send", "precheck"} /\ UNCHANGED <<mode, todo>>
    <3>1. \/ ModeLeft' = 7 + 2 * Polls + 3 * Ops
          \/ ModeLeft' = 6 + 2 * Polls + 3 * Ops
      BY <2>2 DEF ModeLeft
    <3>2. /\ 7 + 2 * Polls + 3 * Ops \in Nat /\ 7 + 2 * Polls + 3 * Ops < ModeLeft
          /\ 6 + 2 * Polls + 3 * Ops \in Nat /\ 6 + 2 * Polls + 3 * Ops < ModeLeft
      BY <1>0, <2>1
    <3> QED
      BY <2>1, <2>2, <3>1, <3>2, WithinMode DEF Running
  <2>3. CASE GiveUp
    BY <2>1, <2>3, ToTheNext DEF GiveUp, Running
  <2> QED
    BY <1>3, <2>2, <2>3 DEF Install
<1>4. CASE Precheck
  <2>1. /\ pc = "precheck" /\ mode # "DONE" /\ ModeLeft = 7 + 2 * Polls + 3 * Ops
        /\ mode' = mode
    BY <1>0, <1>4 DEF Precheck, PlaceInv, ModeLeft
  <2>2. CASE pc' = "send" /\ todo' = todo
    <3>1. ModeLeft' = 6 + 2 * Polls + 3 * Ops
      BY <2>2 DEF ModeLeft
    <3>2. 6 + 2 * Polls + 3 * Ops \in Nat /\ 6 + 2 * Polls + 3 * Ops < ModeLeft
      BY <1>0, <2>1
    <3> QED
      BY <2>1, <2>2, <3>1, <3>2, WithinMode DEF Running
  <2>3. CASE pc' = "parked"
    BY <2>1, <2>3, ToTheEnd DEF Running
  <2>4. CASE GiveUp
    BY <2>1, <2>4, ToTheNext DEF GiveUp, Running
  <2> QED
    BY <1>4, <2>2, <2>3, <2>4 DEF Precheck
<1>5. CASE SendMode
  <2>1. pc = "send" /\ pc' = "seq" /\ UNCHANGED <<mode, todo>>
    BY <1>5 DEF SendMode, control
  <2>2. ModeLeft = 6 + 2 * Polls + 3 * Ops /\ ModeLeft' = 5 + 2 * Polls + 3 * Ops
    BY <2>1 DEF ModeLeft
  <2>3. 5 + 2 * Polls + 3 * Ops \in Nat /\ 5 + 2 * Polls + 3 * Ops < ModeLeft
    BY <1>0, <2>2
  <2> QED
    BY <2>1, <2>2, <2>3, WithinMode DEF Running
<1>6. CASE SendSeq
  <2>1. pc = "seq" /\ pc' = "ack" /\ polls' = 0 /\ UNCHANGED <<mode, todo>>
    BY <1>6 DEF SendSeq, control
  <2>2. /\ ModeLeft = 5 + 2 * Polls + 3 * Ops
        /\ ModeLeft' = 4 + Polls + 3 * Ops + (Polls - 0)
    BY <2>1 DEF ModeLeft
  <2>3. /\ 4 + Polls + 3 * Ops + (Polls - 0) \in Nat
        /\ 4 + Polls + 3 * Ops + (Polls - 0) < ModeLeft
    BY <1>0, <2>2
  <2> QED
    BY <2>1, <2>2, <2>3, WithinMode DEF Running
<1>7. CASE PollAck
  <2>1. pc = "ack" /\ ModeLeft = 4 + Polls + 3 * Ops + (Polls - polls)
    BY <1>7 DEF PollAck, ModeLeft
  <2>2. CASE pc' = "acked" /\ UNCHANGED <<mode, todo>>
    <3>1. ModeLeft' = 4 + Polls + 3 * Ops
      BY <2>2 DEF ModeLeft
    <3>2. 4 + Polls + 3 * Ops \in Nat /\ 4 + Polls + 3 * Ops < ModeLeft
      BY <1>0, <2>1
    <3> QED
      BY <2>1, <2>2, <3>1, <3>2, WithinMode DEF Running
  <2>3. CASE pc' = pc /\ polls' = polls + 1 /\ ~LastPoll /\ UNCHANGED <<mode, todo>>
    <3>1. ModeLeft' = 4 + Polls + 3 * Ops + (Polls - (polls + 1))
      BY <2>1, <2>3 DEF ModeLeft
    <3>2. /\ 4 + Polls + 3 * Ops + (Polls - (polls + 1)) \in Nat
          /\ 4 + Polls + 3 * Ops + (Polls - (polls + 1)) < ModeLeft
      BY <1>0, <2>1
    <3> QED
      BY <2>1, <2>3, <3>1, <3>2, WithinMode DEF Running
  <2>4. CASE AckTimeout
    <3>1. \/ IsTraffic(mode) /\ pc' = "send" /\ mode' = "DONE"
          \/ mode = "DONE" /\ pc' = "end"
          \/ mode # "DONE" /\ GiveUp
      BY <2>4 DEF AckTimeout
    <3> QED
      BY <1>m, <2>1, <3>1, ToDone, ToTheEnd, ToTheNext DEF GiveUp, Running
  <2> QED
    BY <1>7, <2>2, <2>3, <2>4 DEF PollAck
<1>8. CASE ForceReject
  <2>1. pc = "acked" /\ pc' = "wait" /\ polls' = 0 /\ UNCHANGED <<mode, todo>>
    BY <1>8 DEF ForceReject, control
  <2>2. ModeLeft = 4 + Polls + 3 * Ops /\ ModeLeft' = 3 + (Polls - 0)
    BY <2>1 DEF ModeLeft
  <2>3. 3 + (Polls - 0) \in Nat /\ 3 + (Polls - 0) < ModeLeft
    BY <1>0, <2>2
  <2> QED
    BY <2>1, <2>2, <2>3, WithinMode DEF Running
<1>9. CASE Go
  <2>1. /\ pc = "acked" /\ pc' \in {"loop", "wait", "end"} /\ polls' = 0 /\ ops' = 0
        /\ UNCHANGED <<mode, todo>>
    BY <1>9 DEF Go, AfterGo, control
  <2>2. /\ ModeLeft = 4 + Polls + 3 * Ops
        /\ pc' = "loop" => ModeLeft' = 3 + Polls + 3 * (Ops - 0)
        /\ pc' = "wait" => ModeLeft' = 3 + (Polls - 0)
    BY <2>1 DEF ModeLeft
  <2>3. /\ 3 + (Polls - 0) \in Nat /\ 3 + (Polls - 0) < ModeLeft
        /\ 3 + Polls + 3 * (Ops - 0) \in Nat /\ 3 + Polls + 3 * (Ops - 0) < ModeLeft
    BY <1>0, <2>2
  <2> QED
    BY <2>1, <2>2, <2>3, WithinMode, ToTheEnd DEF Running
<1>10. CASE Unstable
  BY <1>10, ToTheNext DEF Unstable, GiveUp, Running
<1>11. CASE ReadPhase
  <2>1. pc = "loop" /\ pc' = "probe" /\ ops' = ops /\ UNCHANGED <<mode, todo>>
    BY <1>11 DEF ReadPhase, control
  <2>2. /\ ModeLeft = 3 + Polls + 3 * (Ops - ops)
        /\ ModeLeft' = 2 + Polls + 3 * (Ops - ops)
    BY <2>1 DEF ModeLeft
  <2>3. 2 + Polls + 3 * (Ops - ops) \in Nat /\ 2 + Polls + 3 * (Ops - ops) < ModeLeft
    BY <1>0, <2>2
  <2> QED
    BY <2>1, <2>2, <2>3, WithinMode DEF Running
<1>12. CASE Probe
  <2>1. pc = "probe" /\ pc' \in {"after", "parked"} /\ ops' = ops /\ UNCHANGED <<mode, todo>>
    BY <1>12 DEF Probe, control
  <2>2. /\ ModeLeft = 2 + Polls + 3 * (Ops - ops)
        /\ pc' = "after" => ModeLeft' = 1 + Polls + 3 * (Ops - ops)
    BY <2>1 DEF ModeLeft
  <2>3. 1 + Polls + 3 * (Ops - ops) \in Nat /\ 1 + Polls + 3 * (Ops - ops) < ModeLeft
    BY <1>0, <2>2
  <2> QED
    BY <2>1, <2>2, <2>3, WithinMode, ToTheEnd DEF Running
<1>13. CASE CountProbe
  <2>1. /\ pc = "after" /\ UNCHANGED <<mode, todo, polls>>
        /\ \/ ops + 1 = Ops /\ pc' = "wait"
           \/ ops + 1 # Ops /\ ops' = ops + 1 /\ pc' = "loop"
    BY <1>13 DEF CountProbe, control
  <2>2. /\ ModeLeft = 1 + Polls + 3 * (Ops - ops)
        /\ pc' = "wait" => ModeLeft' = 3 + (Polls - polls)
        /\ pc' = "loop" => ModeLeft' = 3 + Polls + 3 * (Ops - (ops + 1))
    BY <2>1 DEF ModeLeft
  <2>3. CASE pc' = "wait"
    <3>1. 3 + (Polls - polls) \in Nat /\ 3 + (Polls - polls) < ModeLeft
      BY <1>0, <2>2
    <3> QED
      BY <2>1, <2>2, <2>3, <3>1, WithinMode DEF Running
  <2>4. CASE ops + 1 # Ops /\ ops' = ops + 1 /\ pc' = "loop"
    <3>1. /\ 3 + Polls + 3 * (Ops - (ops + 1)) \in Nat
          /\ 3 + Polls + 3 * (Ops - (ops + 1)) < ModeLeft
      BY <1>0, <2>2, <2>4
    <3> QED
      BY <2>1, <2>2, <2>4, <3>1, WithinMode DEF Running
  <2> QED
    BY <2>1, <2>3, <2>4
<1>14. CASE PollDone
  <2>1. pc = "wait" /\ ModeLeft = 3 + (Polls - polls) /\ UNCHANGED <<mode, todo>>
    BY <1>14 DEF PollDone, ModeLeft, control
  <2>2. CASE pc' = "post"
    <3>1. ModeLeft' = 3
      BY <2>2 DEF ModeLeft
    <3>2. 3 < ModeLeft
      BY <1>0, <2>1
    <3> QED
      BY <2>1, <2>2, <3>1, <3>2, WithinMode DEF Running
  <2>3. CASE pc' = pc /\ polls' = polls + 1
    <3>1. ModeLeft' = 3 + (Polls - (polls + 1))
      BY <2>1, <2>3 DEF ModeLeft
    <3>2. 3 + (Polls - (polls + 1)) \in Nat /\ 3 + (Polls - (polls + 1)) < ModeLeft
      BY <1>0, <2>1
    <3> QED
      BY <2>1, <2>3, <3>1, <3>2, WithinMode DEF Running
  <2> QED
    BY <1>14, <2>2, <2>3 DEF PollDone
<1>15. CASE AfterTraffic
  <2>1. pc = "post" /\ mode # "DONE" /\ todo' = todo
    BY <1>15, <1>m DEF AfterTraffic
  <2>2. pc' = "next" \/ (pc' = "send" /\ mode' = "DONE")
    BY <1>15 DEF AfterTraffic
  <2> QED
    BY <2>1, <2>2, ToTheNext, ToDone DEF Running
<1>16. CASE AfterDone
  BY <1>16, ToTheEnd DEF AfterDone, Running
<1>17. CASE AfterReject
  <2>1. pc = "post" /\ mode # "DONE"
    BY <1>0, <1>17 DEF AfterReject, PlaceInv
  <2> QED
    BY <1>17, <2>1, ToTheNext DEF AfterReject, GiveUp, Running
<1>18. CASE PostPhase
  <2>1. pc = "post" /\ pc' \in {"verdict", "postprobe"} /\ UNCHANGED <<mode, todo>>
    BY <1>18 DEF PostPhase, control
  <2>2. ModeLeft = 3 /\ ModeLeft' \in {1, 2}
    BY <2>1 DEF ModeLeft
  <2> QED
    BY <2>1, <2>2, WithinMode DEF Running
<1>19. CASE PostProbe
  <2>1. pc = "postprobe" /\ pc' \in {"verdict", "parked"} /\ UNCHANGED <<mode, todo>>
    BY <1>19 DEF PostProbe, control
  <2>2. ModeLeft = 2 /\ (pc' = "verdict" => ModeLeft' = 1)
    BY <2>1 DEF ModeLeft
  <2>3. 1 \in Nat /\ 1 < ModeLeft
    BY <2>2
  <2> QED
    BY <2>1, <2>2, <2>3, WithinMode, ToTheEnd DEF Running
<1>20. CASE Verdict
  <2>1. pc = "verdict" /\ pc' = "next" /\ mode # "DONE" /\ todo' \in {todo, << >>}
    BY <1>0, <1>20, <1>m DEF Verdict, PlaceInv
  <2> QED
    BY <2>1, ToTheNext DEF Running
<1> QED
  BY <1>1, <1>2, <1>3, <1>4, <1>5, <1>6, <1>7, <1>8, <1>9, <1>10, <1>11, <1>12, <1>13,
     <1>14, <1>15, <1>16, <1>17, <1>18, <1>19, <1>20 DEF Host

\* The host ends the proof within Turns(7) + 1 of its own steps, for every
\* build, number of probes and length of the waits; that it makes the next one
\* is fairness.
THEOREM MonitorIsBounded == Spec => StepsBounded
<1>1. MonitorInv =>
        StepsLeft \in 0 .. Turns(7) + 1 /\ (StepsLeft = 0 <=> pc \in {"end", "parked"})
  BY StepsRange
<1>2. ASSUME MonitorInv, [Next]_vars
      PROVE  [/\ Host => StepsLeft' < StepsLeft
              /\ Rp1 => StepsLeft' = StepsLeft]_vars
  <2>1. ASSUME Rp1 PROVE StepsLeft' = StepsLeft
    <3>1. UNCHANGED <<pc, todo, mode, polls, ops>>
      BY <2>1 DEF Rp1, Silent, FwLatch, FwAck, FwGo, FwRun, FwAnnounce, FwMove, FwMend,
         FwRestored, FwPublish, control, probe
    <3> QED
      BY <3>1 DEF StepsLeft, ModeLeft, Rest, Turns, Turn
  <2>2. ASSUME Host PROVE StepsLeft' < StepsLeft
    BY <1>2, <2>2, HostStepShortens
  <2> QED
    BY <2>1, <2>2
<1> QED
  BY <1>1, <1>2, MonitorInvariance, PTL DEF Spec, StepsBounded
=============================================================================
