--------------------------- MODULE PostReloadProofs ---------------------------
(***************************************************************************)
(* Proofs about the observers of reloaded firmware and their composition,  *)
(* for every bound on polls, samples and attempts and every width of the   *)
(* counter.  Each observer has an invariant over its own variables; a step *)
(* of the boot is a step of one observer, so the conjunction is inductive. *)
(***************************************************************************)
EXTENDS PostReload, SequenceTheorems, TLAPS

-----------------------------------------------------------------------------
(* The time anchor. *)

\* What the words read so far say of the counter and the link.
AnchorInv ==
  /\ AnchorTypeOK
  /\ anchor.pc \in {"low", "again"} =>
       IF anchor.before = High THEN ~link ELSE anchor.before <= counter[1]
  /\ anchor.pc = "again" =>
       /\ anchor.at[1] <= counter[1]
       /\ anchor.before # High => anchor.before <= anchor.at[1]
       /\ anchor.before = High => anchor.low = Radix - 1
       /\ link => anchor.low = anchor.at[2]
  /\ \A i \in DOMAIN samples : Sound(samples[i]) => samples[i].raw = samples[i].at

\* The counter starts at zero and nothing has been read.
LEMMA AnchorInitial == AnchorInit => AnchorInv
  BY AnchorAssumption DEF AnchorInit, AnchorInv, AnchorTypeOK, Words

\* The counter only grows and the link stays down.
LEMMA AnchorFirmwareKeeps == AnchorInv /\ AnchorFirmware => AnchorInv'
<1> SUFFICES ASSUME AnchorInv, AnchorFirmware PROVE AnchorInv'
  OBVIOUS
<1>0. /\ counter[1] \in 0 .. High - 1 /\ counter[2] \in 0 .. Radix - 1
      /\ anchor' = anchor /\ samples' = samples /\ (link' => link)
      /\ High \in Nat /\ Radix \in Nat
  BY AnchorAssumption DEF AnchorInv, AnchorTypeOK, AnchorFirmware, Micro, LinkDown
<1>1. counter' \in (0 .. High - 1) \X (0 .. Radix - 1) /\ counter[1] <= counter'[1]
  <2>1. CASE counter' = counter
    BY <2>1, <1>0 DEF AnchorInv, AnchorTypeOK
  <2>2. CASE counter' = <<counter[1], counter[2] + 1>> /\ counter[2] + 1 < Radix
    BY <2>2, <1>0
  <2>3. CASE counter' = <<counter[1] + 1, 0>> /\ counter[1] + 1 < High
    BY <2>3, <1>0
  <2> QED
    BY <2>1, <2>2, <2>3 DEF AnchorFirmware, Micro, LinkDown
<1>2. link' \in BOOLEAN
  BY DEF AnchorInv, AnchorTypeOK, AnchorFirmware, Micro, LinkDown
<1>3. AnchorTypeOK'
  BY <1>0, <1>1, <1>2 DEF AnchorInv, AnchorTypeOK
<1>4. anchor.before \in Nat /\ anchor.at[1] \in Nat /\ counter'[1] \in Nat
  BY <1>0, <1>1 DEF AnchorInv, AnchorTypeOK, Words
<1> QED
  BY <1>0, <1>1, <1>3, <1>4 DEF AnchorInv, Sound

\* A sample is taken with equal high words, or it is not sound.
LEMMA AnchorHostKeeps == AnchorInv /\ AnchorHost => AnchorInv'
<1> SUFFICES ASSUME AnchorInv, AnchorHost PROVE AnchorInv'
  OBVIOUS
<1>0. /\ counter[1] \in 0 .. High - 1 /\ counter[2] \in 0 .. Radix - 1
      /\ counter' = counter /\ link' = link
      /\ High \in Nat /\ Radix \in Nat
      /\ HighWord \in 0 .. High /\ LowWord \in 0 .. Radix - 1 /\ counter \in Words
  BY AnchorAssumption
  DEF AnchorInv, AnchorTypeOK, AnchorHost, HighWord, LowWord, Words
<1>1. CASE ReadHigh
  <2>1. anchor' = [anchor EXCEPT !.pc = "low", !.before = HighWord] /\ samples' = samples
    BY <1>1 DEF ReadHigh
  <2>2. AnchorTypeOK'
    BY <2>1, <1>0 DEF AnchorInv, AnchorTypeOK
  <2>3. anchor'.pc = "low" /\ anchor'.before = HighWord
    BY <2>1 DEF AnchorInv, AnchorTypeOK
  <2> QED
    BY <2>1, <2>2, <2>3, <1>0 DEF AnchorInv, HighWord, Sound
<1>2. CASE ReadLow
  <2>1. /\ anchor.pc = "low" /\ samples' = samples
        /\ anchor' = [anchor EXCEPT !.pc = "again", !.low = LowWord, !.at = counter]
    BY <1>2 DEF ReadLow
  <2>2. AnchorTypeOK'
    BY <2>1, <1>0 DEF AnchorInv, AnchorTypeOK
  <2>3. /\ anchor'.pc = "again" /\ anchor'.before = anchor.before
        /\ anchor'.low = LowWord /\ anchor'.at = counter
    BY <2>1 DEF AnchorInv, AnchorTypeOK
  <2>4. IF anchor.before = High THEN ~link ELSE anchor.before <= counter[1]
    BY <2>1 DEF AnchorInv
  <2> QED
    BY <2>1, <2>2, <2>3, <2>4, <1>0 DEF AnchorInv, LowWord, Sound
<1>3. CASE ReadHighAgain
  <2> DEFINE s == [raw |-> <<anchor.before, anchor.low>>, after |-> HighWord, at |-> anchor.at]
  <2>0. /\ anchor.pc = "again" /\ anchor.try \in 1 .. Tries /\ Tries \in Nat
        /\ anchor.before \in 0 .. High /\ anchor.low \in 0 .. Radix - 1
        /\ anchor.at \in Words
    BY <1>3, AnchorAssumption DEF ReadHighAgain, AnchorInv, AnchorTypeOK
  <2>1. s \in [raw: Words, after: 0 .. High, at: Words]
    BY <2>0, <1>0 DEF Words
  <2>2. Sound(s) => s.raw = s.at
    <3>1. /\ anchor.at[1] \in Nat
          /\ anchor.at = <<anchor.at[1], anchor.at[2]>>
      BY <2>0 DEF Words
    <3>2. /\ anchor.at[1] <= counter[1]
          /\ anchor.before # High => anchor.before <= anchor.at[1]
          /\ anchor.before = High => anchor.low = Radix - 1
          /\ link => anchor.low = anchor.at[2]
      BY <2>0 DEF AnchorInv
    <3>3. Sound(s) => anchor.before = HighWord /\ <<anchor.before, anchor.low>> # <<High, Radix - 1>>
      BY DEF Sound
    <3>4. Sound(s) => link /\ anchor.before = counter[1] /\ anchor.before # High
      BY <3>2, <3>3, <1>0 DEF HighWord
    <3>5. Sound(s) => anchor.before = anchor.at[1] /\ anchor.low = anchor.at[2]
      BY <3>1, <3>2, <3>4, <2>0, <1>0
    <3> QED
      BY <3>1, <3>5
  <2>3. CASE anchor' = [anchor EXCEPT !.pc = "high", !.try = @ + 1] /\ samples' = samples
             /\ anchor.try # Tries
    <3>0. anchor.try + 1 \in 1 .. Tries
      BY <2>0, <2>3
    <3>1. AnchorTypeOK'
      BY <2>3, <3>0, <1>0 DEF AnchorInv, AnchorTypeOK
    <3>2. anchor'.pc = "high"
      BY <2>3 DEF AnchorInv, AnchorTypeOK
    <3> QED
      BY <2>3, <3>1, <3>2 DEF AnchorInv, Sound
  <2>4. CASE /\ samples' = Append(samples, s)
             /\ anchor' = [anchor EXCEPT !.try = 1,
                  !.pc = IF Len(samples) + 1 = Anchors THEN "end" ELSE "high"]
    <3>1. samples' \in Seq([raw: Words, after: 0 .. High, at: Words])
      BY <2>1, <2>4 DEF AnchorInv, AnchorTypeOK
    <3>a. 1 \in 1 .. Tries
      BY <2>0
    <3>2. AnchorTypeOK'
      BY <3>a, <2>4, <3>1, <1>0 DEF AnchorInv, AnchorTypeOK
    <3>3. \A i \in DOMAIN samples' : Sound(samples'[i]) => samples'[i].raw = samples'[i].at
      <4> SUFFICES ASSUME NEW i \in DOMAIN samples', Sound(samples'[i])
                   PROVE  samples'[i].raw = samples'[i].at
        OBVIOUS
      <4>1. Len(samples) \in Nat /\ DOMAIN samples = 1 .. Len(samples)
            /\ DOMAIN samples' = 1 .. Len(samples) + 1
            /\ samples'[Len(samples) + 1] = s
            /\ \A j \in 1 .. Len(samples) : samples'[j] = samples[j]
        BY <2>1, <2>4, AppendProperties DEF AnchorInv, AnchorTypeOK
      <4>2. CASE i = Len(samples) + 1
        BY <4>1, <4>2, <2>2
      <4>3. CASE i \in 1 .. Len(samples)
        BY <4>1, <4>3 DEF AnchorInv
      <4> QED
        BY <4>1, <4>2, <4>3
    <3>4. anchor'.pc \in {"high", "end"}
      BY <2>4 DEF AnchorInv, AnchorTypeOK
    <3> QED
      BY <3>2, <3>3, <3>4 DEF AnchorInv, Sound
  <2> QED
    BY <1>3, <2>3, <2>4 DEF ReadHighAgain
<1> QED
  BY <1>1, <1>2, <1>3 DEF AnchorHost

-----------------------------------------------------------------------------
(* The final record. *)

\* What each place of the firmware has written, and what a copy has seen of it.
FinalInv ==
  /\ FinalTypeOK
  /\ record.head = IF run.pc \in {"clear", "head"} THEN "old" ELSE "new"
  /\ record.p = IF run.pc \in {"clear", "head", "p"} THEN "old" ELSE "new"
  /\ record.q = IF run.pc \in {"publish", "done"} THEN "new" ELSE "old"
  /\ record.tag => run.pc \in {"clear", "done"} /\ ~run.during
  /\ final.pc \notin {"poll", "end"} =>
       /\ final.seen.tag
       /\ IF final.seen.head = "new" THEN run.pc = "done" ELSE run.pc = "clear" \/ run.during
  /\ final.pc \in {"copyq", "after"} =>
       /\ final.seen.head = "new" => final.p = "new"
       /\ run.pc = "clear" => final.p = "old"
  /\ final.pc = "after" =>
       /\ final.seen.head = "new" => final.q = "new"
       /\ run.pc = "clear" => final.q = "old"
  /\ final.result = "record" => final.pc = "end"
  /\ FinalIsWhole

\* Nothing has been read.
LEMMA FinalInitial == FinalInit => FinalInv
<1> SUFFICES ASSUME FinalInit PROVE FinalInv
  OBVIOUS
<1>1. 1 \in 1 .. FinalPolls
  BY FinalAssumption
<1>2. record \in [tag: BOOLEAN, head: Ages, p: Ages, q: Ages]
  <2>1. Blank \in [tag: BOOLEAN, head: Ages, p: Ages, q: Ages]
    BY DEF Blank, Ages
  <2> QED
    BY <2>1 DEF FinalInit
<1>3. FinalTypeOK
  BY <1>1, <1>2 DEF FinalInit, FinalTypeOK, NoHead, Ages
<1>4. record.head = "old" /\ record.p = "old" /\ record.q = "old"
  BY DEF FinalInit, Blank
<1> QED
  BY <1>3, <1>4 DEF FinalInit, FinalInv, FinalIsWhole, NoHead

Records == [tag: BOOLEAN, head: Ages, p: Ages, q: Ages]
Runs == [pc: {"clear", "head", "p", "q", "publish", "done"}, during: BOOLEAN]

Finals ==
  [pc: {"poll", "copyhead", "copyp", "copyq", "after", "end"},
   poll: 1 .. FinalPolls, seen: [tag: BOOLEAN, head: Ages],
   copy: [tag: BOOLEAN, head: Ages], p: Ages, q: Ages,
   result: {"none", "record", "read", "header-changed", "final-tag-timeout"}]

\* The tag is gone from the clearing to the publication.
LEMMA FinalFirmwareKeeps == FinalInv /\ FinalFirmware => FinalInv'
<1> SUFFICES ASSUME FinalInv, FinalFirmware PROVE FinalInv'
  OBVIOUS
<1>0. /\ final' = final
      /\ record \in Records /\ run \in Runs
  BY DEF FinalInv, FinalTypeOK, FinalFirmware, Records, Runs
<1>1. CASE RunClear
  <2>1. /\ run.pc = "clear" /\ run' = [pc |-> "head", during |-> Copying]
        /\ record' = [record EXCEPT !.tag = FALSE]
    BY <1>1 DEF RunClear
  <2>2. /\ run'.pc = "head" /\ run'.during = (final.pc \notin {"poll", "end"})
        /\ record'.tag = FALSE /\ record'.head = record.head
        /\ record'.p = record.p /\ record'.q = record.q
    BY <1>0, <2>1 DEF Copying, Records, Runs
  <2>3. FinalTypeOK'
    <3>1. record' \in Records
      BY <1>0, <2>1 DEF Records, Ages
    <3>2. run' \in Runs
      BY <1>0, <2>1 DEF Runs, Copying
    <3> QED
      BY <1>0, <3>1, <3>2 DEF FinalInv, FinalTypeOK, Records, Runs
  <2> QED
    BY <1>0, <2>1, <2>2, <2>3 DEF FinalInv, FinalIsWhole
<1>2. CASE RunWord("head", "head", "p")
  <2>1. /\ run.pc = "head" /\ run' = [run EXCEPT !.pc = "p"]
        /\ record' = [record EXCEPT !.head = "new"]
    BY <1>2 DEF RunWord
  <2>2. /\ run'.pc = "p" /\ run'.during = run.during
        /\ record'.tag = record.tag /\ record'.head = "new"
        /\ record'.p = record.p /\ record'.q = record.q
    BY <1>0, <2>1 DEF Records, Runs
  <2>3. FinalTypeOK'
    <3>1. record' \in Records
      BY <1>0, <2>1 DEF Records, Ages
    <3>2. run' \in Runs
      BY <1>0, <2>1 DEF Runs, Copying
    <3> QED
      BY <1>0, <3>1, <3>2 DEF FinalInv, FinalTypeOK, Records, Runs
  <2> QED
    BY <1>0, <2>1, <2>2, <2>3 DEF FinalInv, FinalIsWhole
<1>3. CASE RunWord("p", "p", "q")
  <2>1. /\ run.pc = "p" /\ run' = [run EXCEPT !.pc = "q"]
        /\ record' = [record EXCEPT !.p = "new"]
    BY <1>3 DEF RunWord
  <2>2. /\ run'.pc = "q" /\ run'.during = run.during
        /\ record'.tag = record.tag /\ record'.head = record.head
        /\ record'.p = "new" /\ record'.q = record.q
    BY <1>0, <2>1 DEF Records, Runs
  <2>3. FinalTypeOK'
    <3>1. record' \in Records
      BY <1>0, <2>1 DEF Records, Ages
    <3>2. run' \in Runs
      BY <1>0, <2>1 DEF Runs, Copying
    <3> QED
      BY <1>0, <3>1, <3>2 DEF FinalInv, FinalTypeOK, Records, Runs
  <2> QED
    BY <1>0, <2>1, <2>2, <2>3 DEF FinalInv, FinalIsWhole
<1>4. CASE RunWord("q", "q", "publish")
  <2>1. /\ run.pc = "q" /\ run' = [run EXCEPT !.pc = "publish"]
        /\ record' = [record EXCEPT !.q = "new"]
    BY <1>4 DEF RunWord
  <2>2. /\ run'.pc = "publish" /\ run'.during = run.during
        /\ record'.tag = record.tag /\ record'.head = record.head
        /\ record'.p = record.p /\ record'.q = "new"
    BY <1>0, <2>1 DEF Records, Runs
  <2>3. FinalTypeOK'
    <3>1. record' \in Records
      BY <1>0, <2>1 DEF Records, Ages
    <3>2. run' \in Runs
      BY <1>0, <2>1 DEF Runs, Copying
    <3> QED
      BY <1>0, <3>1, <3>2 DEF FinalInv, FinalTypeOK, Records, Runs
  <2> QED
    BY <1>0, <2>1, <2>2, <2>3 DEF FinalInv, FinalIsWhole
<1>5. CASE RunPublish
  <2>1. /\ run.pc = "publish" /\ ~run.during /\ run' = [run EXCEPT !.pc = "done"]
        /\ record' = [record EXCEPT !.tag = TRUE]
    BY <1>5 DEF RunPublish
  <2>2. /\ run'.pc = "done" /\ run'.during = run.during
        /\ record'.tag = TRUE /\ record'.head = record.head
        /\ record'.p = record.p /\ record'.q = record.q
    BY <1>0, <2>1 DEF Records, Runs
  <2>3. FinalTypeOK'
    <3>1. record' \in Records
      BY <1>0, <2>1 DEF Records, Ages
    <3>2. run' \in Runs
      BY <1>0, <2>1 DEF Runs, Copying
    <3> QED
      BY <1>0, <3>1, <3>2 DEF FinalInv, FinalTypeOK, Records, Runs
  <2> QED
    BY <1>0, <2>1, <2>2, <2>3 DEF FinalInv, FinalIsWhole
<1> QED
  BY <1>1, <1>2, <1>3, <1>4, <1>5 DEF FinalFirmware

\* Equal heads, both tagged, enclose words of one boot.
LEMMA FinalHostKeeps == FinalInv /\ FinalHost => FinalInv'
<1> SUFFICES ASSUME FinalInv, FinalHost PROVE FinalInv'
  OBVIOUS
<1>0. FinalTypeOK'
  <2>0. /\ final \in Finals /\ record \in Records /\ FinalPolls \in Nat
        /\ HeadWords \in [tag: BOOLEAN, head: Ages] /\ record.p \in Ages /\ record.q \in Ages
    BY FinalAssumption DEF FinalInv, FinalTypeOK, Finals, Records, HeadWords
  <2>f. SUFFICES final' \in Finals
    BY DEF FinalInv, FinalTypeOK, FinalHost, Finals
  <2>1. CASE PollHead
    <3>1. CASE final' = [final EXCEPT !.pc = "copyhead", !.seen = HeadWords]
      BY <2>0, <3>1 DEF Finals
    <3>2. CASE final' = [final EXCEPT !.pc = "end", !.result = "final-tag-timeout"]
      BY <2>0, <3>2 DEF Finals
    <3>3. CASE final' = [final EXCEPT !.poll = @ + 1] /\ ~PollsDone
      <4>1. final.poll + 1 \in 1 .. FinalPolls
        BY <2>0, <3>3 DEF PollsDone, Finals
      <4> QED
        BY <2>0, <3>3, <4>1 DEF Finals
    <3> QED
      BY <2>1, <3>1, <3>2, <3>3 DEF PollHead, FinishFinal
  <2>2. CASE CopyHead
    <3>1. final' = [final EXCEPT !.pc = "copyp", !.copy = HeadWords]
      BY <2>2 DEF CopyHead
    <3> QED
      BY <2>0, <3>1 DEF Finals
  <2>3. CASE CopyWord("p", "copyp", "copyq")
    <3>1. final' = [final EXCEPT !.pc = "copyq", !.p = record.p]
      BY <2>3 DEF CopyWord
    <3> QED
      BY <2>0, <3>1 DEF Finals
  <2>4. CASE CopyWord("q", "copyq", "after")
    <3>1. final' = [final EXCEPT !.pc = "after", !.q = record.q]
      BY <2>4 DEF CopyWord
    <3> QED
      BY <2>0, <3>1 DEF Finals
  <2>5. ASSUME NEW result \in {"record", "header-changed", "read"}, FinishFinal(result)
        PROVE  final' \in Finals
    <3>1. final' = [final EXCEPT !.pc = "end", !.result = result]
      BY <2>5 DEF FinishFinal
    <3> QED
      BY <2>0, <3>1 DEF Finals
  <2>6. CASE HeadAfter
    <3>1. FinishFinal("record") \/ FinishFinal("header-changed")
      BY <2>6 DEF HeadAfter
    <3> QED
      BY <2>5, <3>1
  <2>7. CASE ReadRefused
    BY <2>5, <2>7 DEF ReadRefused
  <2> QED
    BY <2>1, <2>2, <2>3, <2>4, <2>6, <2>7 DEF FinalHost
<1> USE DEF FinalInv, FinalIsWhole, FinalHost, FinishFinal, HeadWords
<1>1. CASE PollHead
  <2>1. CASE record.tag /\ final' = [final EXCEPT !.pc = "copyhead", !.seen = HeadWords]
    BY <1>0, <1>1, <2>1 DEF PollHead, FinalTypeOK
  <2>2. CASE final' = [final EXCEPT !.pc = "end", !.result = "final-tag-timeout"]
    BY <1>0, <1>1, <2>2 DEF PollHead, FinalTypeOK
  <2>3. CASE final' = [final EXCEPT !.poll = @ + 1]
    BY <1>0, <1>1, <2>3 DEF PollHead, FinalTypeOK
  <2> QED
    BY <1>1, <2>1, <2>2, <2>3 DEF PollHead
<1>2. CASE CopyHead
  BY <1>0, <1>2 DEF CopyHead, FinalTypeOK
<1>3. CASE CopyWord("p", "copyp", "copyq")
  BY <1>0, <1>3 DEF CopyWord, FinalTypeOK
<1>4. CASE CopyWord("q", "copyq", "after")
  <2>1. final.pc = "copyq" /\ final' = [final EXCEPT !.pc = "after", !.q = record.q]
    BY <1>4 DEF CopyWord
  <2> QED
    BY <1>0, <2>1 DEF FinalTypeOK
<1>5. CASE HeadAfter
  <2>1. final.pc = "after" /\ final'.pc = "end"
        /\ final'.p = final.p /\ final'.q = final.q /\ final'.seen = final.seen
        /\ final'.result = IF SameHeads(HeadWords) THEN "record" ELSE "header-changed"
    BY <1>5 DEF HeadAfter, FinalTypeOK
  <2>2. SameHeads(HeadWords) => record.tag
    BY <2>1 DEF SameHeads
  <2>3. final.seen.head \in Ages
    BY DEF FinalTypeOK
  <2> QED
    BY <1>0, <2>1, <2>2, <2>3 DEF Ages
<1>6. CASE ReadRefused
  BY <1>0, <1>6 DEF ReadRefused, FinalTypeOK
<1> QED
  BY <1>1, <1>2, <1>3, <1>4, <1>5, <1>6

-----------------------------------------------------------------------------
(* Clock independence. *)

Waiting == {"seq", "ack", "go", "phase"}

\* What each place of the firmware has written, and what a GO implies.
ClockInv ==
  /\ ClockTypeOK
  /\ page.p = IF proof \in {"clear", "announce", "ack", "wait", "go", "p"} THEN "old" ELSE "new"
  /\ page.q = IF proof \in {"phase", "complete", "end"} THEN "new" ELSE "old"
  /\ page.done => proof \in {"clear", "end"}
  /\ proof = "clear" /\ page.done => page.phase = "done" /\ clock.pc \in Waiting \cup {"end"}
  /\ clock.pc \in {"p", "q", "validate"} /\ clock.ok => proof = "end"
  /\ clock.pc \in {"q", "validate"} /\ clock.ok => clock.p = "new"
  /\ clock.pc = "validate" /\ clock.ok => clock.q = "new"
  /\ clock.result = "pass" => clock.pc = "end"
  /\ PassIsThisRun

\* Nothing has been read, and a retained record is not complete unless done.
LEMMA ClockInitial == ClockInit => ClockInv
<1> SUFFICES ASSUME ClockInit PROVE ClockInv
  OBVIOUS
<1>1. 1 \in 1 .. AckPolls
  BY ClockAssumption
<1>2. /\ page \in [seq: Numbers, ack: Numbers, go: Numbers, phase: Phases, done: BOOLEAN,
                   p: Origins, q: Origins]
      /\ page.p = "old" /\ page.q = "old" /\ (page.done => page.phase = "done")
  <2> USE DEF Numbers, Phases, Origins
  <2>1. CASE page = [seq |-> 0, ack |-> 0, go |-> 0, phase |-> "none", done |-> FALSE,
                     p |-> "old", q |-> "old"]
    BY <2>1
  <2>2. CASE page = [seq |-> 1, ack |-> 1, go |-> 0, phase |-> "wait", done |-> FALSE,
                     p |-> "old", q |-> "old"]
    BY <2>2
  <2>3. CASE page = [seq |-> 1, ack |-> 1, go |-> 1, phase |-> "done", done |-> TRUE,
                     p |-> "old", q |-> "old"]
    BY <2>3
  <2> QED
    BY <2>1, <2>2, <2>3 DEF ClockInit, Retained
<1>3. ClockTypeOK
  BY <1>1, <1>2 DEF ClockInit, ClockTypeOK, Numbers, Origins
<1> QED
  BY <1>2, <1>3 DEF ClockInit, ClockInv, PassIsThisRun, Waiting

Pages ==
  [seq: Numbers, ack: Numbers, go: Numbers, phase: Phases, done: BOOLEAN, p: Origins, q: Origins]

\* The completion word is written after the words it completes.
LEMMA ClockFirmwareKeeps == ClockInv /\ ClockFirmware => ClockInv'
<1> SUFFICES ASSUME ClockInv, ClockFirmware PROVE ClockInv'
  OBVIOUS
<1>0. /\ clock' = clock
      /\ page \in Pages
  BY DEF ClockInv, ClockTypeOK, ClockFirmware, Pages
<1>1. CASE ProofClear
  <2>1. /\ proof = "clear" /\ proof' = "announce"
        /\ page' = [page EXCEPT !.seq = 0, !.ack = 0, !.go = 0, !.phase = "none", !.done = FALSE]
    BY <1>1 DEF ProofClear
  <2>2. /\ page'.phase = "none" /\ page'.done = FALSE
        /\ page'.p = page.p /\ page'.q = page.q
    BY <1>0, <2>1 DEF Pages
  <2>3. ClockTypeOK'
    <3>1. page' \in Pages
      BY <1>0, <2>1 DEF Pages, Numbers, Phases, Origins
    <3> QED
      BY <1>0, <2>1, <3>1 DEF ClockInv, ClockTypeOK, Pages
  <2> QED
    BY <1>0, <2>1, <2>2, <2>3 DEF ClockInv, PassIsThisRun, Waiting
<1>2. CASE ProofAnnounce
  <2>1. /\ proof = "announce" /\ proof' = "ack"
        /\ page' = [page EXCEPT !.seq = 1]
    BY <1>2 DEF ProofAnnounce
  <2>2. /\ page'.phase = page.phase /\ page'.done = page.done
        /\ page'.p = page.p /\ page'.q = page.q
    BY <1>0, <2>1 DEF Pages
  <2>3. ClockTypeOK'
    <3>1. page' \in Pages
      BY <1>0, <2>1 DEF Pages, Numbers, Phases, Origins
    <3> QED
      BY <1>0, <2>1, <3>1 DEF ClockInv, ClockTypeOK, Pages
  <2> QED
    BY <1>0, <2>1, <2>2, <2>3 DEF ClockInv, PassIsThisRun, Waiting
<1>3. CASE ProofAck
  <2>1. /\ proof = "ack" /\ proof' = "wait"
        /\ page' = [page EXCEPT !.ack = 1]
    BY <1>3 DEF ProofAck
  <2>2. /\ page'.phase = page.phase /\ page'.done = page.done
        /\ page'.p = page.p /\ page'.q = page.q
    BY <1>0, <2>1 DEF Pages
  <2>3. ClockTypeOK'
    <3>1. page' \in Pages
      BY <1>0, <2>1 DEF Pages, Numbers, Phases, Origins
    <3> QED
      BY <1>0, <2>1, <3>1 DEF ClockInv, ClockTypeOK, Pages
  <2> QED
    BY <1>0, <2>1, <2>2, <2>3 DEF ClockInv, PassIsThisRun, Waiting
<1>4. CASE ProofWait
  <2>1. /\ proof = "wait" /\ proof' = "go"
        /\ page' = [page EXCEPT !.phase = "wait"]
    BY <1>4 DEF ProofWait
  <2>2. /\ page'.phase = "wait" /\ page'.done = page.done
        /\ page'.p = page.p /\ page'.q = page.q
    BY <1>0, <2>1 DEF Pages
  <2>3. ClockTypeOK'
    <3>1. page' \in Pages
      BY <1>0, <2>1 DEF Pages, Numbers, Phases, Origins
    <3> QED
      BY <1>0, <2>1, <3>1 DEF ClockInv, ClockTypeOK, Pages
  <2> QED
    BY <1>0, <2>1, <2>2, <2>3 DEF ClockInv, PassIsThisRun, Waiting
<1>5. CASE ProofGo
  <2>1. /\ proof = "go" /\ proof' = "p"
        /\ page' = [page EXCEPT !.phase = "busy"]
    BY <1>5 DEF ProofGo
  <2>2. /\ page'.phase = "busy" /\ page'.done = page.done
        /\ page'.p = page.p /\ page'.q = page.q
    BY <1>0, <2>1 DEF Pages
  <2>3. ClockTypeOK'
    <3>1. page' \in Pages
      BY <1>0, <2>1 DEF Pages, Numbers, Phases, Origins
    <3> QED
      BY <1>0, <2>1, <3>1 DEF ClockInv, ClockTypeOK, Pages
  <2> QED
    BY <1>0, <2>1, <2>2, <2>3 DEF ClockInv, PassIsThisRun, Waiting
<1>6. CASE ProofWord("p", "p", "q")
  <2>1. /\ proof = "p" /\ proof' = "q"
        /\ page' = [page EXCEPT !.p = "new"]
    BY <1>6 DEF ProofWord
  <2>2. /\ page'.phase = page.phase /\ page'.done = page.done
        /\ page'.p = "new" /\ page'.q = page.q
    BY <1>0, <2>1 DEF Pages
  <2>3. ClockTypeOK'
    <3>1. page' \in Pages
      BY <1>0, <2>1 DEF Pages, Numbers, Phases, Origins
    <3> QED
      BY <1>0, <2>1, <3>1 DEF ClockInv, ClockTypeOK, Pages
  <2> QED
    BY <1>0, <2>1, <2>2, <2>3 DEF ClockInv, PassIsThisRun, Waiting
<1>7. CASE ProofWord("q", "q", "phase")
  <2>1. /\ proof = "q" /\ proof' = "phase"
        /\ page' = [page EXCEPT !.q = "new"]
    BY <1>7 DEF ProofWord
  <2>2. /\ page'.phase = page.phase /\ page'.done = page.done
        /\ page'.p = page.p /\ page'.q = "new"
    BY <1>0, <2>1 DEF Pages
  <2>3. ClockTypeOK'
    <3>1. page' \in Pages
      BY <1>0, <2>1 DEF Pages, Numbers, Phases, Origins
    <3> QED
      BY <1>0, <2>1, <3>1 DEF ClockInv, ClockTypeOK, Pages
  <2> QED
    BY <1>0, <2>1, <2>2, <2>3 DEF ClockInv, PassIsThisRun, Waiting
<1>8. CASE ProofPhase
  <2>1. /\ proof = "phase" /\ proof' = "complete"
        /\ page' = [page EXCEPT !.phase = "done"]
    BY <1>8 DEF ProofPhase
  <2>2. /\ page'.phase = "done" /\ page'.done = page.done
        /\ page'.p = page.p /\ page'.q = page.q
    BY <1>0, <2>1 DEF Pages
  <2>3. ClockTypeOK'
    <3>1. page' \in Pages
      BY <1>0, <2>1 DEF Pages, Numbers, Phases, Origins
    <3> QED
      BY <1>0, <2>1, <3>1 DEF ClockInv, ClockTypeOK, Pages
  <2> QED
    BY <1>0, <2>1, <2>2, <2>3 DEF ClockInv, PassIsThisRun, Waiting
<1>9. CASE ProofComplete
  <2>1. /\ proof = "complete" /\ proof' = "end"
        /\ page' = [page EXCEPT !.done = TRUE]
    BY <1>9 DEF ProofComplete
  <2>2. /\ page'.phase = page.phase /\ page'.done = TRUE
        /\ page'.p = page.p /\ page'.q = page.q
    BY <1>0, <2>1 DEF Pages
  <2>3. ClockTypeOK'
    <3>1. page' \in Pages
      BY <1>0, <2>1 DEF Pages, Numbers, Phases, Origins
    <3> QED
      BY <1>0, <2>1, <3>1 DEF ClockInv, ClockTypeOK, Pages
  <2> QED
    BY <1>0, <2>1, <2>2, <2>3 DEF ClockInv, PassIsThisRun, Waiting
<1> QED
  BY <1>1, <1>2, <1>3, <1>4, <1>5, <1>6, <1>7, <1>8, <1>9 DEF ClockFirmware

\* A record found complete after GO is this boot's: a retained one never waits.
LEMMA ClockHostKeeps == ClockInv /\ ClockHost => ClockInv'
<1> SUFFICES ASSUME ClockInv, ClockHost PROVE ClockInv'
  OBVIOUS
<1> USE DEF ClockInv, ClockHost, PassIsThisRun
<1>1. CASE PollSeq /\ UNCHANGED page
  BY <1>1 DEF PollSeq, ClockTypeOK, Numbers, Waiting
<1>2. CASE PollWord("ack", "go", page.ack = clock.seq) /\ UNCHANGED page
  <2>1. clock.pc = "ack" /\ clock' = [clock EXCEPT !.pc = "go", !.ok = clock.ok /\ page.ack = clock.seq]
    BY <1>2 DEF PollWord
  <2> QED
    BY <1>2, <2>1 DEF ClockTypeOK, Waiting
<1>3. CASE PollWord("go", "phase", page.go = 0) /\ UNCHANGED page
  <2>1. clock.pc = "go" /\ clock' = [clock EXCEPT !.pc = "phase", !.ok = clock.ok /\ page.go = 0]
    BY <1>3 DEF PollWord
  <2> QED
    BY <1>3, <2>1 DEF ClockTypeOK, Waiting
<1>4. CASE PollPhase /\ UNCHANGED page
  <2>1. CASE page.phase = "wait" /\ clock' = [clock EXCEPT !.pc = "writego"]
    BY <1>4, <2>1 DEF PollPhase, ClockTypeOK, Waiting
  <2>2. CASE clock' = [clock EXCEPT !.pc = "end", !.result = "ack-timeout"]
    BY <1>4, <2>2 DEF PollPhase, ClockTypeOK, Waiting
  <2>3. CASE clock.poll # AckPolls /\ clock' = [clock EXCEPT !.pc = "seq", !.poll = @ + 1]
    <3>1. clock.poll + 1 \in 1 .. AckPolls
      BY <2>3, ClockAssumption DEF ClockTypeOK
    <3> QED
      BY <1>4, <2>3, <3>1 DEF PollPhase, ClockTypeOK, Waiting
  <2> QED
    BY <1>4, <2>1, <2>2, <2>3 DEF PollPhase
<1>5. CASE WriteGo
  BY <1>5 DEF WriteGo, ClockTypeOK, Waiting
<1>6. CASE ReadHeader /\ UNCHANGED page
  BY <1>6 DEF ReadHeader, RunComplete, ClockTypeOK, Waiting
<1>7. CASE ReadWord("p", "p", "q") /\ UNCHANGED page
  <2>1. clock.pc = "p" /\ clock' = [clock EXCEPT !.pc = "q", !.p = page.p]
    BY <1>7 DEF ReadWord
  <2> QED
    BY <1>7, <2>1 DEF ClockTypeOK, Waiting
<1>8. CASE ReadWord("q", "q", "validate") /\ UNCHANGED page
  <2>1. clock.pc = "q" /\ clock' = [clock EXCEPT !.pc = "validate", !.q = page.q]
    BY <1>8 DEF ReadWord
  <2> QED
    BY <1>8, <2>1 DEF ClockTypeOK, Waiting
<1>9. CASE Validate /\ UNCHANGED page
  BY <1>9 DEF Validate, ClockTypeOK, Waiting
<1>10. CASE BarRefused
  BY <1>10 DEF BarRefused, ClockTypeOK, Waiting
<1> QED
  BY <1>1, <1>2, <1>3, <1>4, <1>5, <1>6, <1>7, <1>8, <1>9, <1>10 DEF WaitForAck, ReadRecordOnce

-----------------------------------------------------------------------------
(* Watchdog quiescence. *)

Nothing == [token |-> "none", p |-> "none", q |-> "none"]

\* What stands in the region at each place of the host, and what the firmware
\* has done when the host sees it disabled.
DogInv ==
  /\ DogTypeOK
  /\ dog.pc \in {"state", "receipt", "region"} =>
       region = IF dog.requested THEN Request ELSE Nothing
  /\ dog.pc = "p" => region = Nothing
  /\ dog.pc = "q" => region = [token |-> "none", p |-> "request", q |-> "none"]
  /\ dog.pc = "token" => region = [token |-> "none", p |-> "request", q |-> "request"]
  /\ dog.pc \in {"readback", "gem", "ackp"} => region = Request
  /\ dog.pc = "ackq" => region = [token |-> "WQ03", p |-> "ack", q |-> "request"]
  /\ dog.pc = "acktoken" => region = [token |-> "WQ03", p |-> "ack", q |-> "ack"]
  /\ dog.pc \in {"p", "q", "token", "readback"} => dog.state = "ready"
  /\ m3.pc \in {"p", "q", "state", "ack"} => m3.disabled
  /\ m3.pc \in {"q", "state", "ack"} => receipt.p = "new"
  /\ m3.pc \in {"state", "ack"} => receipt.q = "new"
  /\ receipt.state = "disabled" => m3.pc \in {"clear", "ack"}
  /\ dog.requested \/ dog.state = "ready" => ~(m3.pc = "clear" /\ receipt.state = "disabled")
  /\ dog.state = "disabled" /\ dog.requested => m3.pc = "ack"
  /\ dog.pc \in {"gem", "ackp", "ackq", "acktoken"} => m3.pc = "ack"
  /\ dog.pc \in {"ackp", "ackq", "acktoken"} => stopped
  /\ AckIsEarned

\* The host has asked nothing, whatever an earlier boot left in the receipt.
LEMMA DogInitial == DogInit => DogInv
<1> SUFFICES ASSUME DogInit PROVE DogInv
  OBVIOUS
<1>1. 1 \in 1 .. DogPolls
  BY DogAssumption
<1>2. receipt \in [state: States, error: BOOLEAN, p: {"none", "old", "new"}, q: {"none", "old", "new"}]
  <2>1. PICK s \in States, w \in {"none", "old"} :
          receipt = [state |-> s, error |-> FALSE, p |-> w, q |-> w]
    BY DEF DogInit
  <2> QED
    BY <2>1
<1>3. DogTypeOK
  BY <1>1, <1>2 DEF DogInit, DogTypeOK, Looks, Tokens, Payloads, States
<1> QED
  BY <1>3 DEF DogInit, DogInv, AckIsEarned, Nothing

\* The firmware says "disabled" after disabling and completing its receipt.
LEMMA DogFirmwareKeeps == DogInv /\ DogFirmware => DogInv'
<1> SUFFICES ASSUME DogInv, DogFirmware PROVE DogInv'
  OBVIOUS
<1> USE DEF DogInv, DogTypeOK, DogFirmware, AckIsEarned, States, Request, Nothing
<1>1. CASE M3Clear
  BY <1>1 DEF M3Clear
<1>2. CASE M3Ready
  BY <1>2 DEF M3Ready
<1>3. CASE M3Take
  <2>1. CASE m3' = [pc |-> "p", disabled |-> TRUE] /\ receipt' = receipt
    BY <1>3, <2>1 DEF M3Take
  <2>2. CASE /\ m3' = [m3 EXCEPT !.pc = "failed"]
             /\ receipt' = [receipt EXCEPT !.error = TRUE]
    BY <1>3, <2>2 DEF M3Take
  <2> QED
    BY <1>3, <2>1, <2>2 DEF M3Take
<1>4. CASE M3Receipt("p", "p", "q")
  BY <1>4 DEF M3Receipt
<1>5. CASE M3Receipt("q", "q", "state")
  BY <1>5 DEF M3Receipt
<1>6. CASE M3Disabled
  BY <1>6 DEF M3Disabled
<1>7. CASE M3Fail
  <2>1. m3.pc \in {"ready", "request", "p", "q", "state"}
        /\ m3'.pc = "failed" /\ m3'.disabled = m3.disabled
        /\ receipt'.state = receipt.state
    BY <1>7 DEF M3Fail
  <2>2. DogTypeOK'
    BY <1>7 DEF M3Fail
  <2>3. receipt.state # "disabled"
    BY <2>1
  <2> QED
    BY <2>1, <2>2, <2>3
<1> QED
  BY <1>1, <1>2, <1>3, <1>4, <1>5, <1>6, <1>7

\* Payload before token, and an acknowledgement only after everything else.
LEMMA DogHostKeeps == DogInv /\ DogHost => DogInv'
<1> SUFFICES ASSUME DogInv, DogHost PROVE DogInv'
  OBVIOUS
<1>a. ASSUME NEW result, DogEnd(result), UNCHANGED <<region, stopped, receipt, m3>>,
             result \in {"bounded-wait", "firmware-error", "disabled-receipt",
                         "request-readback", "pre-ack-gem-stop"}
      PROVE  DogInv'
  <2>1. dog' = [dog EXCEPT !.pc = "end", !.result = result]
    BY <1>a DEF DogEnd
  <2>2. dog' \in Looks
    BY <1>a, <2>1 DEF DogInv, DogTypeOK, Looks
  <2>3. dog'.pc = "end" /\ dog'.state = dog.state /\ dog'.requested = dog.requested
    BY <2>1 DEF DogInv, DogTypeOK, Looks
  <2>4. DogTypeOK'
    BY <1>a, <2>2 DEF DogInv, DogTypeOK
  <2> QED
    BY <1>a, <2>3, <2>4 DEF DogInv, AckIsEarned, Request
<1>0. ASSUME NEW r \in BOOLEAN, NextLook(r), dog.pc # "end",
             UNCHANGED <<region, stopped, receipt, m3>>,
             region = IF r THEN Request ELSE Nothing,
             r => dog.requested \/ dog.state = "ready"
      PROVE  DogInv'
  <2>1. CASE DogEnd("bounded-wait")
    BY <1>0, <2>1, <1>a
  <2>2. CASE /\ dog.poll # DogPolls
             /\ dog' = [dog EXCEPT !.pc = "state", !.poll = @ + 1, !.requested = r,
                                   !.state = "none", !.good = TRUE]
    <3>1. dog.poll + 1 \in 1 .. DogPolls
      BY <2>2, DogAssumption DEF DogInv, DogTypeOK, Looks
    <3>a. dog' \in Looks
      BY <1>0, <2>2, <3>1 DEF DogInv, DogTypeOK, Looks, States
    <3>2. DogTypeOK'
      BY <1>0, <3>a DEF DogInv, DogTypeOK
    <3>3. dog'.pc = "state" /\ dog'.requested = r /\ dog'.state = "none"
      BY <2>2 DEF DogInv, DogTypeOK, Looks
    <3>4. r => ~(m3.pc = "clear" /\ receipt.state = "disabled")
      BY <1>0 DEF DogInv
    <3> QED
      BY <1>0, <3>2, <3>3, <3>4 DEF DogInv, AckIsEarned, Request
  <2> QED
    BY <1>0, <2>1, <2>2 DEF NextLook
<1>1. CASE SweepState
  <2>1. dog.pc = "state" /\ UNCHANGED <<region, stopped, receipt, m3>>
    BY <1>1 DEF SweepState, DogHost
  <2>2. dog' \in Looks /\ dog'.pc = "receipt" /\ dog'.requested = dog.requested
        /\ dog'.state = receipt.state
    BY <1>1 DEF SweepState, DogInv, DogTypeOK, Looks
  <2>3. DogTypeOK'
    BY <2>1, <2>2 DEF DogInv, DogTypeOK
  <2>4. receipt.state = "ready" => ~(m3.pc = "clear" /\ receipt.state = "disabled")
    OBVIOUS
  <2>5. receipt.state = "disabled" /\ dog.requested => m3.pc = "ack"
    BY DEF DogInv
  <2> QED
    BY <2>1, <2>2, <2>3, <2>4, <2>5 DEF DogInv, AckIsEarned, Request
<1>2. CASE SweepReceipt
  <2>1. CASE DogEnd("firmware-error")
    BY <1>2, <2>1, <1>a DEF SweepReceipt, DogHost
  <2>2. CASE dog' = [dog EXCEPT !.pc = "region", !.good = receipt.p # "none" /\ receipt.q # "none"]
    <3>1. dog' \in Looks /\ dog'.pc = "region" /\ dog'.requested = dog.requested
          /\ dog'.state = dog.state
      BY <2>2 DEF DogInv, DogTypeOK, Looks
    <3>2. dog.pc = "receipt" /\ UNCHANGED <<region, stopped, receipt, m3>>
      BY <1>2 DEF SweepReceipt, DogHost
    <3>3. DogTypeOK'
      BY <3>1, <3>2 DEF DogInv, DogTypeOK
    <3> QED
      BY <3>1, <3>2, <3>3 DEF DogInv, AckIsEarned, Request
  <2> QED
    BY <1>2, <2>1, <2>2 DEF SweepReceipt
<1>3. CASE SweepRegion
  <2> USE <1>3 DEF SweepRegion, DogHost, DogInv, DogTypeOK, Looks, AckIsEarned
  <2>1. CASE ~dog.requested /\ dog.state = "ready" /\ dog' = [dog EXCEPT !.pc = "p"]
    BY <2>1
  <2>2. CASE NextLook(dog.requested)
    BY <2>2, <1>0
  <2>3. CASE Answered /\ region = Request /\ dog' = [dog EXCEPT !.pc = "gem"]
    BY <2>3 DEF Answered
  <2>4. CASE DogEnd("disabled-receipt")
    BY <2>4, <1>a
  <2> QED
    BY <2>1, <2>2, <2>3, <2>4
<1>4. CASE WriteRequest
  <2> USE <1>4 DEF WriteRequest, TokenLast, After, DogHost, DogInv, DogTypeOK, Looks, AckIsEarned,
                   Tokens, Payloads, Request, Nothing
  <2>1. CASE dog.pc = "p"
    BY <2>1
  <2>2. CASE dog.pc = "q"
    BY <2>2
  <2>3. CASE dog.pc = "token"
    BY <2>3
  <2> QED
    BY <2>1, <2>2, <2>3
<1>5. CASE ReadBack
  <2>1. CASE NextLook(TRUE)
    BY <1>5, <2>1, <1>0 DEF ReadBack, DogHost, DogInv
  <2>2. CASE DogEnd("request-readback")
    BY <1>5, <2>2, <1>a DEF ReadBack, DogHost
  <2> QED
    BY <1>5, <2>1, <2>2 DEF ReadBack
<1>6. CASE VerifyGem
  <2>1. CASE dog' = [dog EXCEPT !.pc = "ackp"] /\ stopped' = TRUE
    BY <1>6, <2>1 DEF VerifyGem, DogHost, DogInv, DogTypeOK, Looks, AckIsEarned
  <2>2. CASE DogEnd("pre-ack-gem-stop") /\ UNCHANGED stopped
    BY <1>6, <2>2, <1>a DEF VerifyGem, DogHost
  <2> QED
    BY <1>6, <2>1, <2>2 DEF VerifyGem
<1>7. CASE WriteAck
  <2>0. /\ region \in [token: Tokens, p: Payloads, q: Payloads]
        /\ dog \in Looks /\ UNCHANGED <<stopped, receipt, m3>>
    BY <1>7 DEF WriteAck, DogHost, DogInv, DogTypeOK
  <2>1. CASE dog.pc = "ackp"
    <3>1. /\ region' = [region EXCEPT !.p = "ack"]
          /\ dog' = [dog EXCEPT !.pc = "ackq"]
      BY <1>7, <2>1 DEF WriteAck, TokenLast, After
    <3>2. region = Request /\ stopped
      BY <2>1 DEF DogInv
    <3>3. region' = [token |-> "WQ03", p |-> "ack", q |-> "request"]
      BY <3>1, <3>2 DEF Request
    <3>4. /\ dog' \in Looks /\ dog'.pc = "ackq" /\ dog'.requested = dog.requested
          /\ dog'.state = dog.state
      BY <2>0, <3>1 DEF Looks
    <3>5. DogTypeOK'
      BY <2>0, <3>3, <3>4 DEF DogInv, DogTypeOK, Tokens, Payloads
    <3>6. m3.pc = "ack"
      BY <2>1 DEF DogInv
    <3> QED
      BY <2>0, <3>2, <3>3, <3>4, <3>5, <3>6 DEF DogInv, AckIsEarned
  <2>2. CASE dog.pc = "ackq"
    <3>1. /\ region' = [region EXCEPT !.q = "ack"]
          /\ dog' = [dog EXCEPT !.pc = "acktoken"]
      BY <1>7, <2>2 DEF WriteAck, TokenLast, After
    <3>2. region = [token |-> "WQ03", p |-> "ack", q |-> "request"] /\ stopped
      BY <2>2 DEF DogInv
    <3>3. region' = [token |-> "WQ03", p |-> "ack", q |-> "ack"]
      BY <3>1, <3>2
    <3>4. /\ dog' \in Looks /\ dog'.pc = "acktoken" /\ dog'.requested = dog.requested
          /\ dog'.state = dog.state
      BY <2>0, <3>1 DEF Looks
    <3>5. DogTypeOK'
      BY <2>0, <3>3, <3>4 DEF DogInv, DogTypeOK, Tokens, Payloads
    <3>6. m3.pc = "ack"
      BY <2>2 DEF DogInv
    <3> QED
      BY <2>0, <3>2, <3>3, <3>4, <3>5, <3>6 DEF DogInv, AckIsEarned
  <2>3. CASE dog.pc = "acktoken"
    <3>1. /\ region' = [region EXCEPT !.token = "QA03"]
          /\ dog' = [dog EXCEPT !.pc = "end", !.result = "quiesced"]
      BY <1>7, <2>3 DEF WriteAck, TokenLast, DogEnd
    <3>2. region = [token |-> "WQ03", p |-> "ack", q |-> "ack"] /\ stopped
      BY <2>3 DEF DogInv
    <3>3. region' = [token |-> "QA03", p |-> "ack", q |-> "ack"]
      BY <3>1, <3>2
    <3>4. /\ dog' \in Looks /\ dog'.pc = "end" /\ dog'.requested = dog.requested
          /\ dog'.state = dog.state
      BY <2>0, <3>1 DEF Looks
    <3>5. DogTypeOK'
      BY <2>0, <3>3, <3>4 DEF DogInv, DogTypeOK, Tokens, Payloads
    <3>6. m3.pc = "ack" /\ m3.disabled /\ receipt.p = "new" /\ receipt.q = "new"
      BY <2>3 DEF DogInv
    <3> QED
      BY <2>0, <3>2, <3>3, <3>4, <3>5, <3>6 DEF DogInv, AckIsEarned
  <2> QED
    BY <1>7, <2>1, <2>2, <2>3 DEF WriteAck
<1> QED
  BY <1>1, <1>2, <1>3, <1>4, <1>5, <1>6, <1>7 DEF DogHost

-----------------------------------------------------------------------------
(* The cold observer. *)

Before == {"ready", "readywords", "readyagain", "clocks"}
Sweeping == {"head", "counters", "held", "before", "p", "moved", "q", "after"}

\* A fault found by an observation still good is one it is about to refuse: at
\* the head of this sample, or in the counter of the SCMI record at the next.
ColdInv ==
  /\ ColdTypeOK
  /\ cold.pc \in Before => cold.n = 0
  /\ cold.pc \in {"ready", "readywords", "readyagain"} => ~wrong
  /\ cold.pc \in Before \cup Sweeping => cold.n < Samples
  /\ cold.pc \notin Before \cup Sweeping => cold.n = Samples
  /\ scmi.seq % 2 = 1 => scmi.seq <= MaxSeq
  /\ cold.pc \in {"p", "q", "after"} => cold.seq % 2 = 0 /\ cold.seq <= scmi.seq
  /\ cold.pc = "q" /\ scmi.seq = cold.seq =>
       cold.good = scmi.p /\ cold.whole = (scmi.p /\ scmi.q)
  /\ cold.pc = "after" /\ scmi.seq = cold.seq => (cold.good => cold.whole)
  /\ cold.ok /\ cold.n >= 1 => scmi.seq >= 2
  /\ cold.ok /\ wrong =>
       \/ cold.pc = "counters" /\ ~cold.good
       \/ scmi.seq >= 3 /\ cold.pc \in Sweeping

\* Nothing has been read.
LEMMA ColdInitial == ColdInit => ColdInv
<1> SUFFICES ASSUME ColdInit PROVE ColdInv
  OBVIOUS
<1>1. 1 \in 1 .. ColdPolls /\ 1 \in 1 .. Attempts /\ 0 \in 0 .. Samples /\ 0 < Samples
      /\ 0 \in 0 .. MaxSeq + 1
  BY ColdAssumption
<1>2. ColdTypeOK
  BY <1>1 DEF ColdInit, ColdTypeOK, ColdLocals
<1> QED
  BY <1>1, <1>2 DEF ColdInit, ColdInv, Before, Sweeping

\* A version begun is one the counter shows for ever.
LEMMA ColdFirmwareKeeps == ColdInv /\ ColdFirmware => ColdInv'
<1> SUFFICES ASSUME ColdInv, ColdFirmware PROVE ColdInv'
  OBVIOUS
<1>1. cold' = cold /\ cold.pc # "end" /\ scmi.seq \in Nat /\ cold.seq \in Nat
      /\ MaxSeq \in Nat /\ cold.n \in Nat /\ Samples \in Nat
  BY ColdAssumption DEF ColdFirmware, ColdInv, ColdTypeOK, ColdLocals
<1>2. CASE FwStart
  BY <1>1, <1>2 DEF FwStart, ColdInv, ColdTypeOK
<1>3. CASE FwMove
  <2>1. rtos' \in [phase: {"boot", "run", "fault"}, moved: BOOLEAN]
    BY <1>3 DEF FwMove, ColdInv, ColdTypeOK
  <2>2. UNCHANGED <<scmi, wrong>>
    BY <1>3 DEF FwMove
  <2> QED
    BY <1>1, <2>1, <2>2 DEF ColdInv, ColdTypeOK
<1>4. CASE FwFault
  BY <1>1, <1>4 DEF FwFault, ColdInv, ColdTypeOK
<1>5. CASE FwBegin
  <2>1. /\ scmi' = [scmi EXCEPT !.seq = @ + 1] /\ scmi.seq < MaxSeq /\ scmi.seq % 2 = 0
        /\ rtos' = rtos /\ wrong' = (wrong \/ (cold.ok /\ cold.n \in 1 .. Samples - 1))
    BY <1>5 DEF FwBegin
  <2>2. scmi'.seq = scmi.seq + 1
    BY <2>1 DEF ColdInv, ColdTypeOK
  <2>3. ColdTypeOK'
    <3>1. scmi.seq + 1 \in 0 .. MaxSeq + 1
      BY <1>1, <2>1
    <3> QED
      BY <1>1, <2>1, <3>1 DEF ColdInv, ColdTypeOK
  <2>a. scmi'.seq <= MaxSeq
    BY <1>1, <2>1, <2>2
  <2>4. cold.pc \in {"p", "q", "after"} => cold.seq <= scmi.seq
    BY DEF ColdInv
  <2>5. cold.ok /\ cold.n \in 1 .. Samples - 1 => scmi.seq >= 2 /\ cold.pc \notin Before
    BY <1>1 DEF ColdInv
  <2>6. cold.ok /\ wrong' =>
          \/ cold.pc = "counters" /\ ~cold.good
          \/ scmi'.seq >= 3 /\ cold.pc \in Sweeping
    <3>1. CASE cold.ok /\ wrong
      <4>1. \/ cold.pc = "counters" /\ ~cold.good
            \/ scmi.seq >= 3 /\ cold.pc \in Sweeping
        BY <3>1 DEF ColdInv
      <4>2. scmi.seq >= 3 => scmi.seq + 1 >= 3
        BY <1>1
      <4> QED
        BY <4>1, <4>2, <2>2, <1>1
    <3>2. CASE cold.ok /\ cold.n \in 1 .. Samples - 1
      <4>1. scmi.seq + 1 >= 3
        BY <3>2, <2>5, <1>1
      <4>2. cold.n # Samples
        BY <3>2, <1>1
      <4>3. cold.pc \in Sweeping
        BY <3>2, <2>5, <4>2 DEF ColdInv
      <4> QED
        BY <4>1, <4>3, <2>2
    <3> QED
      BY <2>1, <3>1, <3>2
  <2>7. cold.pc \in {"ready", "readywords", "readyagain"} => ~wrong'
    BY <2>1, <2>5 DEF ColdInv, Before
  <2> QED
    BY <1>1, <2>2, <2>3, <2>4, <2>6, <2>7, <2>a DEF ColdInv
<1>6. CASE FwWord
  <2>1. /\ scmi'.seq = scmi.seq /\ scmi.seq % 2 = 1 /\ rtos' = rtos /\ wrong' = wrong
        /\ ColdTypeOK'
    BY <1>1, <1>6 DEF FwWord, ColdInv, ColdTypeOK
  <2>2. cold.pc \in {"q", "after"} => scmi.seq # cold.seq
    BY <1>1, <2>1 DEF ColdInv
  <2> QED
    BY <1>1, <2>1, <2>2 DEF ColdInv
<1>7. CASE FwEnd
  <2>1. /\ scmi' = [scmi EXCEPT !.seq = @ + 1] /\ scmi.seq % 2 = 1
        /\ rtos' = rtos /\ wrong' = wrong
    BY <1>7 DEF FwEnd
  <2>2. scmi'.seq = scmi.seq + 1 /\ scmi.seq + 1 \in 0 .. MaxSeq + 1
    BY <1>1, <2>1 DEF ColdInv, ColdTypeOK
  <2>3. ColdTypeOK'
    BY <1>1, <2>1, <2>2 DEF ColdInv, ColdTypeOK
  <2>4. (scmi.seq + 1) % 2 = 0
    BY <1>1, <2>1
  <2> QED
    BY <1>1, <2>1, <2>2, <2>3, <2>4 DEF ColdInv
<1> QED
  BY <1>2, <1>3, <1>4, <1>5, <1>6, <1>7 DEF ColdFirmware

\* What a sample's end, or its next try, keeps of the observation.
LEMMA SampleEnds ==
  ASSUME ColdInv, cold.pc \in {"before", "moved", "after"}, UNCHANGED <<scmi, rtos>>,
         NEW taken \in BOOLEAN,
         taken => scmi.seq = 2,
         \/ cold' = NextSample(taken)
         \/ cold' = NextTry,
         wrong' = (cold'.ok /\ wrong)
  PROVE  ColdInv'
<1>0. /\ cold.n \in Nat /\ cold.n < Samples /\ Samples \in Nat /\ scmi.seq \in Nat
      /\ cold.try \in 1 .. Attempts /\ Attempts \in Nat \ {0} /\ cold.ok \in BOOLEAN
      /\ cold.n \in 0 .. Samples /\ MaxSeq \in Nat
  BY ColdAssumption DEF ColdInv, ColdTypeOK, ColdLocals, Before, Sweeping
<1>1. ASSUME NEW t \in BOOLEAN, cold' = NextSample(t), t => scmi.seq = 2
      PROVE  ColdInv'
  <2>1. /\ cold' = [cold EXCEPT !.ok = @ /\ t, !.n = @ + 1, !.try = 1,
                     !.seq = 0, !.good = TRUE, !.whole = FALSE,
                     !.pc = IF cold.n + 1 = Samples THEN "complete" ELSE "head"]
        /\ cold.n + 1 \in 0 .. Samples /\ 1 \in 1 .. Attempts /\ 0 \in 0 .. MaxSeq + 1
    BY <1>0, <1>1 DEF NextSample, EveryLook
  <2>2. /\ cold'.n = cold.n + 1 /\ (cold'.ok <=> cold.ok /\ t)
        /\ cold'.pc = IF cold.n + 1 = Samples THEN "complete" ELSE "head"
    BY <2>1 DEF ColdInv, ColdTypeOK, ColdLocals
  <2>3. ColdTypeOK'
    <3>1. wrong' \in BOOLEAN
      BY DEF ColdInv, ColdTypeOK
    <3>2. (cold.ok /\ t) \in BOOLEAN
      OBVIOUS
    <3>3. cold \in ColdLocals
      BY DEF ColdInv, ColdTypeOK
    <3>4. cold' \in ColdLocals
      BY <2>1, <3>2, <3>3 DEF ColdLocals
    <3> QED
      BY <1>0, <3>1, <3>4 DEF ColdInv, ColdTypeOK
  <2>4. ~(cold'.ok /\ wrong')
    <3>1. SUFFICES ASSUME cold'.ok, wrong PROVE FALSE
      OBVIOUS
    <3>2. scmi.seq = 2
      BY <3>1, <2>2, <1>1
    <3> QED
      BY <3>1, <3>2, <2>2 DEF ColdInv
  <2> QED
    BY <1>0, <1>1, <2>2, <2>3, <2>4 DEF ColdInv, Before, Sweeping
<1>2. ASSUME cold' = [cold EXCEPT !.try = @ + 1, !.pc = "before",
                    !.seq = 0, !.good = TRUE, !.whole = FALSE],
             cold.try # Attempts
      PROVE  ColdInv'
  <2>1. cold.try + 1 \in 1 .. Attempts /\ 0 \in 0 .. MaxSeq + 1
    BY <1>0, <1>2
  <2>2. cold'.n = cold.n /\ cold'.ok = cold.ok /\ cold'.pc = "before"
    BY <1>2 DEF ColdInv, ColdTypeOK, ColdLocals
  <2>3. ColdTypeOK'
    <3>1. wrong' \in BOOLEAN
      BY DEF ColdInv, ColdTypeOK
    <3>2. cold' \in ColdLocals
      BY <1>2, <2>1 DEF ColdInv, ColdTypeOK, ColdLocals
    <3> QED
      BY <3>1, <3>2 DEF ColdInv, ColdTypeOK
  <2> QED
    BY <1>0, <2>2, <2>3 DEF ColdInv, Before, Sweeping
<1> QED
  BY <1>1, <1>2 DEF NextTry

\* A look that finds a fault either refuses or is at the head of a sample.
LEMMA ColdHostKeeps == ColdInv /\ ColdStep => ColdInv'
<1> SUFFICES ASSUME ColdInv, ColdStep PROVE ColdInv'
  OBVIOUS
<1>0. /\ cold.n \in Nat /\ Samples \in Nat \ {0} /\ scmi.seq \in 0 .. MaxSeq + 1 /\ MaxSeq \in Nat
      /\ cold.ok \in BOOLEAN /\ wrong \in BOOLEAN /\ cold.good \in BOOLEAN
      /\ scmi.p \in BOOLEAN /\ scmi.q \in BOOLEAN /\ cold.seq \in Nat
      /\ scmi' = scmi
  BY ColdAssumption DEF ColdInv, ColdTypeOK, ColdLocals, ColdStep, ColdHost
<1> USE DEF Found, EveryLook, At
<1>1. CASE ReadReadySeq /\ rtos' = rtos
  BY <1>0, <1>1 DEF ReadReadySeq, ColdInv, ColdTypeOK, ColdLocals, Before, Sweeping
<1>2. CASE ReadReadyWords /\ rtos' = rtos
  <2>1. /\ cold.pc = "readywords" /\ cold'.pc = "readyagain" /\ cold' \in ColdLocals
        /\ cold'.n = cold.n /\ cold'.ok = cold.ok /\ wrong' = (cold'.ok /\ wrong)
    BY <1>2 DEF ReadReadyWords, ColdInv, ColdTypeOK, ColdLocals
  <2>2. ColdTypeOK'
    BY <1>0, <1>2, <2>1 DEF ColdInv, ColdTypeOK
  <2> QED
    BY <1>0, <2>1, <2>2 DEF ColdInv, Before, Sweeping
<1>3. CASE ReadReadyAgain /\ rtos' = rtos
  <2> DEFINE ready == cold.good /\ scmi.seq = cold.seq
             over == ready \/ cold.poll = ColdPolls
             ok == ready \/ ~over
  <2>0. ok \in BOOLEAN
    OBVIOUS
  <2> HIDE DEF ok
  <2>p. cold.pc = "readyagain" /\ wrong' \in BOOLEAN
    BY <1>3 DEF ReadReadyAgain
  <2>1. CASE cold' = [cold EXCEPT !.pc = "clocks", !.poll = 1, !.ok = ok,
                                  !.good = TRUE, !.seq = 0]
    <3>1. 1 \in 1 .. ColdPolls /\ 0 \in 0 .. MaxSeq + 1
      BY ColdAssumption
    <3>2. /\ cold.pc = "readyagain" /\ cold'.pc = "clocks" /\ cold' \in ColdLocals
          /\ cold'.n = cold.n
      BY <2>p, <2>0, <2>1, <3>1 DEF ColdInv, ColdTypeOK, ColdLocals
    <3>3. ColdTypeOK'
      BY <1>0, <1>3, <2>p, <3>2 DEF ColdInv, ColdTypeOK
    <3>5. ~wrong'
      BY <1>3, <3>2 DEF ReadReadyAgain, ColdInv
    <3> QED
      BY <1>0, <2>1, <3>2, <3>3, <3>5 DEF ColdInv, Before, Sweeping
  <2>2. CASE /\ cold' = [cold EXCEPT !.pc = "ready", !.poll = @ + 1, !.ok = ok,
                                     !.good = TRUE, !.seq = 0]
             /\ cold.poll # ColdPolls
    <3>1. cold.poll + 1 \in 1 .. ColdPolls /\ 0 \in 0 .. MaxSeq + 1
      BY <2>2, ColdAssumption DEF ColdInv, ColdTypeOK, ColdLocals
    <3>2. /\ cold.pc = "readyagain" /\ cold'.pc = "ready" /\ cold' \in ColdLocals
          /\ cold'.n = cold.n
      BY <2>p, <2>0, <2>2, <3>1 DEF ColdInv, ColdTypeOK, ColdLocals
    <3>3. ColdTypeOK'
      BY <1>0, <1>3, <2>p, <3>2 DEF ColdInv, ColdTypeOK
    <3>5. ~wrong'
      BY <1>3, <3>2 DEF ReadReadyAgain, ColdInv
    <3> QED
      BY <1>0, <2>2, <3>2, <3>3, <3>5 DEF ColdInv, Before, Sweeping
  <2> QED
    <3>1. CASE over
      BY <1>3, <2>1, <3>1 DEF ReadReadyAgain, ok
    <3>2. CASE ~over
      BY <1>3, <2>2, <3>2 DEF ReadReadyAgain, ok
    <3> QED
      BY <3>1, <3>2
<1>4. CASE ReadClocks("clocks", "head") /\ rtos' = rtos
  <2>1. PICK known \in BOOLEAN :
          /\ cold' = [cold EXCEPT !.pc = "head", !.ok = @ /\ known]
          /\ wrong' = (cold'.ok /\ (wrong \/ ~known))
    BY <1>4 DEF ReadClocks
  <2>2. /\ cold.pc = "clocks" /\ cold' \in ColdLocals /\ cold'.n = cold.n /\ cold'.pc = "head"
        /\ (cold'.ok <=> cold.ok /\ known)
    BY <1>4, <2>1 DEF ReadClocks, ColdInv, ColdTypeOK, ColdLocals
  <2>3. ColdTypeOK'
    BY <1>0, <1>4, <2>1, <2>2 DEF ColdInv, ColdTypeOK
  <2>4. ~(cold'.ok /\ wrong') /\ cold.n < Samples
    BY <2>1, <2>2 DEF ColdInv, Before, Sweeping
  <2>5. cold'.ok /\ cold.n >= 1 => scmi.seq >= 2
    BY <2>2 DEF ColdInv
  <2>6. scmi.seq % 2 = 1 => scmi.seq <= MaxSeq
    BY DEF ColdInv
  <2> QED
    BY <1>0, <2>2, <2>3, <2>4, <2>5, <2>6 DEF ColdInv, Before, Sweeping
<1>5. CASE ReadHead /\ rtos' = rtos
  <2> DEFINE sound == kind = "cold" \/
                IF cold.n < Light THEN rtos.phase # "fault" ELSE rtos.phase = "run"
  <2>1. /\ cold.pc = "head" /\ cold' = [cold EXCEPT !.pc = "counters", !.good = sound]
        /\ wrong' = (cold'.ok /\ (wrong \/ (kind # "cold" /\ rtos.phase = "fault")))
    BY <1>5 DEF ReadHead
  <2>2. sound \in BOOLEAN /\ (kind # "cold" /\ rtos.phase = "fault" => ~sound)
    OBVIOUS
  <2> HIDE DEF sound
  <2>3. /\ cold' \in ColdLocals /\ cold'.pc = "counters" /\ cold'.n = cold.n
        /\ cold'.ok = cold.ok /\ cold'.good = sound
    BY <1>0, <2>1, <2>2 DEF ColdInv, ColdTypeOK, ColdLocals
  <2>4. ColdTypeOK'
    BY <1>0, <1>5, <2>1, <2>3 DEF ColdInv, ColdTypeOK
  <2>5. cold'.ok /\ wrong' => ~cold'.good \/ scmi.seq >= 3
    BY <2>1, <2>2, <2>3 DEF ColdInv
  <2>6. /\ cold.n < Samples /\ (scmi.seq % 2 = 1 => scmi.seq <= MaxSeq)
        /\ (cold.ok /\ cold.n >= 1 => scmi.seq >= 2)
    BY <2>1 DEF ColdInv, Sweeping
  <2> QED
    BY <1>0, <2>3, <2>4, <2>5, <2>6 DEF ColdInv, Before, Sweeping
<1>6. CASE ReadCounters
  <2> DEFINE moving == kind = "cold" \/ cold.n <= Light \/ rtos.moved
  <2>1. /\ cold' = [cold EXCEPT !.ok = @ /\ (cold.good /\ moving), !.good = TRUE,
                     !.pc = IF kind = "proc1" THEN "held" ELSE "before"]
        /\ cold.pc = "counters" /\ wrong' = (cold'.ok /\ wrong)
        /\ rtos' = [rtos EXCEPT !.moved = FALSE]
    BY <1>6 DEF ReadCounters
  <2>2. (cold.good /\ moving) \in BOOLEAN
    OBVIOUS
  <2>3. /\ cold' \in ColdLocals /\ cold'.n = cold.n /\ cold'.pc \in {"held", "before"}
        /\ (cold'.ok => cold.ok /\ cold.good)
    BY <1>0, <2>1, <2>2 DEF ColdInv, ColdTypeOK, ColdLocals
  <2>4. ColdTypeOK'
    BY <1>0, <2>1, <2>3 DEF ColdInv, ColdTypeOK
  <2> HIDE DEF moving
  <2> QED
    BY <1>0, <2>1, <2>3, <2>4 DEF ColdInv, Before, Sweeping
<1>7. CASE ReadHeld /\ rtos' = rtos
  <2>1. PICK held \in BOOLEAN :
          /\ cold' = [cold EXCEPT !.pc = "before", !.ok = @ /\ held]
          /\ wrong' = (cold'.ok /\ (wrong \/ ~held))
    BY <1>7 DEF ReadHeld
  <2>2. /\ cold.pc = "held" /\ cold' \in ColdLocals /\ cold'.n = cold.n /\ cold'.pc = "before"
        /\ (cold'.ok <=> cold.ok /\ held)
    BY <1>7, <2>1 DEF ReadHeld, ColdInv, ColdTypeOK, ColdLocals
  <2>3. ColdTypeOK'
    BY <1>0, <1>7, <2>1, <2>2 DEF ColdInv, ColdTypeOK
  <2>4. cold'.ok /\ wrong' => scmi.seq >= 3
    BY <2>1, <2>2 DEF ColdInv
  <2>5. cold'.ok /\ cold.n >= 1 => scmi.seq >= 2
    BY <2>2 DEF ColdInv
  <2>6. cold.n < Samples /\ (scmi.seq % 2 = 1 => scmi.seq <= MaxSeq)
    BY <2>2 DEF ColdInv, Sweeping
  <2> QED
    BY <1>0, <2>2, <2>3, <2>4, <2>5, <2>6 DEF ColdInv, Before, Sweeping
<1>8. CASE ReadBefore /\ rtos' = rtos
  <2>0. cold.pc = "before" /\ wrong' = (cold'.ok /\ wrong)
    BY <1>0, <1>8 DEF ReadBefore
  <2>1. CASE cold' = NextTry
    BY <1>0, <1>8, <2>0, <2>1, SampleEnds
  <2>2. CASE scmi.seq % 2 # 1 /\ cold' = [cold EXCEPT !.seq = scmi.seq, !.pc = "p"]
    <3>1. /\ cold' \in ColdLocals /\ cold'.n = cold.n /\ cold'.pc = "p"
          /\ cold'.ok = cold.ok /\ cold'.seq = scmi.seq
      BY <1>0, <2>2 DEF ColdInv, ColdTypeOK, ColdLocals
    <3>2. ColdTypeOK'
      BY <1>0, <1>8, <2>0, <3>1 DEF ColdInv, ColdTypeOK
    <3>3. scmi.seq % 2 = 0 /\ scmi.seq <= scmi.seq
      BY <1>0, <2>2
    <3> QED
      BY <1>0, <2>0, <3>1, <3>2, <3>3 DEF ColdInv, Before, Sweeping
  <2> QED
    BY <1>8, <2>1, <2>2 DEF ReadBefore
<1>9. CASE ReadP /\ rtos' = rtos
  <2>1. /\ cold.pc = "p" /\ wrong' = (cold'.ok /\ wrong)
        /\ cold' = IF scmi.seq # cold.seq THEN [cold EXCEPT !.pc = "moved"]
                   ELSE [cold EXCEPT !.good = scmi.p, !.whole = scmi.p /\ scmi.q, !.pc = "q"]
    BY <1>9 DEF ReadP
  <2>2. /\ cold' \in ColdLocals /\ cold'.n = cold.n /\ cold'.ok = cold.ok
        /\ cold'.seq = cold.seq
        /\ \/ scmi.seq # cold.seq /\ cold'.pc = "moved"
           \/ cold'.pc = "q" /\ cold'.good = scmi.p /\ cold'.whole = (scmi.p /\ scmi.q)
    BY <1>0, <2>1 DEF ColdInv, ColdTypeOK, ColdLocals
  <2>3. ColdTypeOK'
    BY <1>0, <1>9, <2>1, <2>2 DEF ColdInv, ColdTypeOK
  <2>4. /\ cold.n < Samples /\ (scmi.seq % 2 = 1 => scmi.seq <= MaxSeq)
        /\ cold.seq % 2 = 0 /\ cold.seq <= scmi.seq
        /\ (cold.ok /\ cold.n >= 1 => scmi.seq >= 2)
        /\ (cold.ok /\ wrong => scmi.seq >= 3)
    BY <2>1 DEF ColdInv, Sweeping
  <2> QED
    BY <1>0, <2>1, <2>2, <2>3, <2>4 DEF ColdInv, Before, Sweeping
<1>10. CASE CounterMoved /\ rtos' = rtos
  BY <1>0, <1>10, SampleEnds DEF CounterMoved
<1>11. CASE ReadQ /\ rtos' = rtos
  <2>1. /\ cold.pc = "q" /\ cold' = [cold EXCEPT !.good = @ /\ scmi.q, !.pc = "after"]
        /\ wrong' = (cold'.ok /\ wrong)
    BY <1>11 DEF ReadQ
  <2>2. /\ cold' \in ColdLocals /\ cold'.pc = "after" /\ cold'.n = cold.n
        /\ cold'.ok = cold.ok /\ cold'.seq = cold.seq /\ cold'.whole = cold.whole
        /\ cold'.good = (cold.good /\ scmi.q)
    BY <1>0, <2>1 DEF ColdInv, ColdTypeOK, ColdLocals
  <2>3. ColdTypeOK'
    BY <1>0, <1>11, <2>1, <2>2 DEF ColdInv, ColdTypeOK
  <2>4. scmi.seq = cold.seq => (cold'.good => cold'.whole)
    BY <2>1, <2>2 DEF ColdInv
  <2>5. cold'.ok /\ wrong' => scmi.seq >= 3
    BY <2>1, <2>2 DEF ColdInv
  <2>6. /\ cold.n < Samples /\ cold.seq % 2 = 0 /\ cold.seq <= scmi.seq
        /\ (scmi.seq % 2 = 1 => scmi.seq <= MaxSeq)
        /\ (cold.ok /\ cold.n >= 1 => scmi.seq >= 2)
    BY <2>1 DEF ColdInv, Sweeping
  <2> QED
    BY <1>0, <2>2, <2>3, <2>4, <2>5, <2>6 DEF ColdInv, Before, Sweeping
<1>12. CASE ReadAfter /\ rtos' = rtos
  <2> DEFINE taken == cold.seq = 2 /\ cold.good
  <2>1. cold.pc = "after" /\ taken \in BOOLEAN
    BY <1>12 DEF ReadAfter
  <2>2. scmi.seq = cold.seq /\ taken => cold.whole
    BY <2>1 DEF ColdInv
  <2>3. CASE scmi.seq = cold.seq
    <3>1. cold' = NextSample(taken) /\ wrong' = (cold'.ok /\ wrong)
      BY <1>12, <2>2, <2>3 DEF ReadAfter, Stable
    <3>2. taken => scmi.seq = 2
      BY <2>3
    <3> QED
      BY <1>0, <1>12, <2>1, <3>1, <3>2, SampleEnds
  <2>4. CASE scmi.seq # cold.seq
    <3>1. cold' = NextTry /\ wrong' = (cold'.ok /\ wrong)
      BY <1>12, <2>4 DEF ReadAfter, Stable
    <3> QED
      BY <1>0, <1>12, <2>1, <3>1, SampleEnds
  <2> QED
    BY <2>3, <2>4
<1>13. CASE Complete /\ rtos' = rtos
  <2>1. PICK instep \in BOOLEAN :
          cold' = [cold EXCEPT !.pc = "clocksafter", !.ok = @ /\ (kind = "cold" \/ instep)]
    BY <1>13 DEF Complete
  <2>2. /\ cold.pc = "complete" /\ cold' \in ColdLocals /\ cold'.n = cold.n
        /\ cold'.pc = "clocksafter" /\ (cold'.ok => cold.ok) /\ wrong' = (cold'.ok /\ wrong)
    BY <1>13, <2>1 DEF Complete, ColdInv, ColdTypeOK, ColdLocals
  <2>3. ColdTypeOK'
    BY <1>0, <1>13, <2>2 DEF ColdInv, ColdTypeOK
  <2>4. ~(cold.ok /\ wrong) /\ cold.n = Samples
    BY <2>2 DEF ColdInv, Before, Sweeping
  <2>5. ~(cold'.ok /\ wrong')
    BY <2>2, <2>4
  <2>6. /\ cold'.ok /\ cold.n >= 1 => scmi.seq >= 2
        /\ scmi.seq % 2 = 1 => scmi.seq <= MaxSeq
    BY <2>2 DEF ColdInv
  <2> QED
    BY <1>0, <2>2, <2>3, <2>4, <2>5, <2>6 DEF ColdInv, Before, Sweeping
<1>14. CASE ReadClocks("clocksafter", "end") /\ rtos' = rtos
  <2>1. PICK known \in BOOLEAN :
          /\ cold' = [cold EXCEPT !.pc = "end", !.ok = @ /\ known]
          /\ wrong' = (cold'.ok /\ (wrong \/ ~known))
    BY <1>14 DEF ReadClocks
  <2>2. /\ cold.pc = "clocksafter" /\ cold' \in ColdLocals /\ cold'.n = cold.n /\ cold'.pc = "end"
        /\ (cold'.ok <=> cold.ok /\ known)
    BY <1>14, <2>1 DEF ReadClocks, ColdInv, ColdTypeOK, ColdLocals
  <2>3. ColdTypeOK'
    BY <1>0, <1>14, <2>1, <2>2 DEF ColdInv, ColdTypeOK
  <2>4. ~(cold'.ok /\ wrong') /\ cold.n = Samples
    BY <2>1, <2>2 DEF ColdInv, Before, Sweeping
  <2>5. cold'.ok /\ cold.n >= 1 => scmi.seq >= 2
    BY <2>2 DEF ColdInv
  <2>6. scmi.seq % 2 = 1 => scmi.seq <= MaxSeq
    BY DEF ColdInv
  <2> QED
    BY <1>0, <2>2, <2>3, <2>4, <2>5, <2>6 DEF ColdInv, Before, Sweeping
<1> QED
  BY <1>1, <1>2, <1>3, <1>4, <1>5, <1>6, <1>7, <1>8, <1>9, <1>10, <1>11, <1>12, <1>13, <1>14
  DEF ColdStep, ColdHost

-----------------------------------------------------------------------------
(* The composition. *)

Inv ==
  /\ kind \in Kinds /\ stage \in Over \cup {"observe", "anchor"}
  /\ ColdInv /\ AnchorInv /\ FinalInv /\ ClockInv /\ DogInv

\* A boot begins with every observer at its beginning.
LEMMA Initial == Init => Inv
  BY ColdInitial, AnchorInitial, FinalInitial, ClockInitial, DogInitial DEF Init, Inv, Kinds

\* What does not step keeps its invariant.
LEMMA Still ==
  /\ ColdInv /\ UNCHANGED coldVars => ColdInv'
  /\ AnchorInv /\ UNCHANGED anchorVars => AnchorInv'
  /\ FinalInv /\ UNCHANGED finalVars => FinalInv'
  /\ ClockInv /\ UNCHANGED clockVars => ClockInv'
  /\ DogInv /\ UNCHANGED dogVars => DogInv'
<1>1. ColdInv /\ UNCHANGED coldVars => ColdInv'
  BY DEF ColdInv, ColdTypeOK, coldVars
<1>2. AnchorInv /\ UNCHANGED anchorVars => AnchorInv'
  BY DEF AnchorInv, AnchorTypeOK, Sound, anchorVars
<1>3. FinalInv /\ UNCHANGED finalVars => FinalInv'
  BY DEF FinalInv, FinalTypeOK, FinalIsWhole, finalVars
<1>4. ClockInv /\ UNCHANGED clockVars => ClockInv'
  BY DEF ClockInv, ClockTypeOK, PassIsThisRun, clockVars
<1>5. DogInv /\ UNCHANGED dogVars => DogInv'
  BY DEF DogInv, DogTypeOK, AckIsEarned, dogVars
<1> QED
  BY <1>1, <1>2, <1>3, <1>4, <1>5

\* A step of the boot is a step of one observer, a decision or the anchor's.
LEMMA StepKeeps == Inv /\ [Next]_vars => Inv'
<1> SUFFICES ASSUME Inv, [Next]_vars PROVE Inv'
  OBVIOUS
<1> USE Still DEF Inv
<1>1. CASE Observe
  <2>1. UNCHANGED <<kind, stage, anchorVars>>
    BY <1>1 DEF Observe, ByKind
  <2> QED
    BY <1>1, <2>1, ColdHostKeeps, FinalHostKeeps, ClockHostKeeps, DogHostKeeps DEF Observe, ByKind
<1>2. CASE Firmware
  <2>1. UNCHANGED <<kind, stage, anchorVars>>
    BY <1>2 DEF Firmware, ByKind
  <2> QED
    BY <1>2, <2>1, ColdFirmwareKeeps, FinalFirmwareKeeps, ClockFirmwareKeeps, DogFirmwareKeeps
    DEF Firmware, ByKind
<1>3. CASE Decide
  BY <1>3 DEF Decide, Over
<1>4. CASE ReadAnchor
  BY <1>4, AnchorHostKeeps DEF ReadAnchor, Over
<1>5. CASE Counter
  BY <1>5, AnchorFirmwareKeeps DEF Counter
<1>6. CASE UNCHANGED vars
  BY <1>6 DEF vars
<1> QED
  BY <1>1, <1>2, <1>3, <1>4, <1>5, <1>6 DEF Next, Host

\* Every behaviour of the composition keeps the invariant.
LEMMA Invariance == Spec => []Inv
<1> QED
  BY Initial, StepKeeps, PTL DEF Spec

(* Type correctness of the five observers and the boot that runs one. *)
THEOREM PostReloadTypes == Spec => []TypeOK
<1>1. Inv => TypeOK
  BY DEF Inv, TypeOK, ColdInv, AnchorInv, FinalInv, ClockInv, DogInv
<1> QED
  BY <1>1, Invariance, PTL

(* Firmware is admitted only if no look of the whole observation found a
   fault, however many samples and attempts there are.                    *)
THEOREM AdmissionsAreEarned == Spec => []AdmissionIsEarned
<1>1. Inv => AdmissionIsEarned
  BY DEF Inv, ColdInv, AdmissionIsEarned, Sweeping
<1> QED
  BY <1>1, Invariance, PTL

(* A record accepted, a proof passed and a time sample called valid are each
   of one boot and one moment, for every width of the counter.              *)
THEOREM VerdictsAreWhole == Spec => []VerdictIsWhole
<1>1. AnchorInv => AnchorIsExact
  BY DEF AnchorInv, AnchorIsExact, Valid
<1>2. Inv => VerdictIsWhole
  BY <1>1 DEF Inv, FinalInv, ClockInv, VerdictIsWhole
<1> QED
  BY <1>2, Invariance, PTL

(* The acknowledgement is written last of all, after everything it states. *)
THEOREM AcksAreEarned == Spec => []AckIsEarned
<1>1. Inv => AckIsEarned
  BY DEF Inv, DogInv
<1> QED
  BY <1>1, Invariance, PTL

-----------------------------------------------------------------------------
(* How long the host can take.                                             *)

\* The accesses of a sample of the SCMI record at most, times k, and those of
\* a time sample.
Sweeps(k) == k * (4 * Attempts + 3)
Reads(k) == k * (3 * Tries)

\* Each place's distance from the end of the poll, the try or the observer.
FinalPlace == [poll |-> 5, copyhead |-> 4, copyp |-> 3, copyq |-> 2, after |-> 1, end |-> 0]

ClockPlace ==
  [seq |-> 9, ack |-> 8, go |-> 7, phase |-> 6, writego |-> 5, header |-> 4,
   p |-> 3, q |-> 2, validate |-> 1, end |-> 0]

DogPlace ==
  [state |-> 7, receipt |-> 6, region |-> 5, p |-> 8, q |-> 7, token |-> 6,
   readback |-> 5, gem |-> 4, ackp |-> 3, ackq |-> 2, acktoken |-> 1, end |-> 0]

ColdPlace ==
  [ready |-> 3, readywords |-> 2, readyagain |-> 1, clocks |-> 3,
   head |-> 3, counters |-> 2, held |-> 1,
   before |-> 4, p |-> 3, moved |-> 1, q |-> 2, after |-> 1,
   complete |-> 2, clocksafter |-> 1, end |-> 0]

AnchorPlace == [high |-> 3, low |-> 2, again |-> 1]

\* What each observer has still to do at most.
FinalLeft ==
  FinalPlace[final.pc] + (IF final.pc = "poll" THEN FinalPolls - final.poll ELSE 0)

ClockLeft ==
  ClockPlace[clock.pc] +
    (IF clock.pc \in Waiting THEN 4 * (AckPolls - clock.poll) ELSE 0)

Looking == {"state", "receipt", "region"}
Requesting == {"p", "q", "token", "readback"}

DogLeft ==
  DogPlace[dog.pc]
    + (IF dog.pc \in Looking /\ ~dog.requested THEN 4 ELSE 0)
    + (IF dog.pc \in Looking \cup Requesting THEN 3 * (DogPolls - dog.poll) ELSE 0)

InHead == {"head", "counters", "held"}

ColdLeft ==
  ColdPlace[cold.pc] +
    (IF cold.pc \in Before \ {"clocks"}
       THEN 3 * (ColdPolls - cold.poll) + Sweeps(Samples) + 3
     ELSE IF cold.pc = "clocks" THEN Sweeps(Samples)
     ELSE IF cold.pc \in InHead THEN Sweeps(Samples - cold.n - 1) + 4 * Attempts + 2
     ELSE IF cold.pc \in Sweeping
       THEN Sweeps(Samples - cold.n - 1) + 4 * (Attempts - cold.try) + 2
     ELSE 0)

AnchorLeft ==
  IF anchor.pc = "end" THEN 0
  ELSE Reads(Anchors - Len(samples) - 1) + 3 * (Tries - anchor.try) + AnchorPlace[anchor.pc]

ObserverLeft ==
  CASE kind \in ColdKinds -> ColdLeft [] kind = "final" -> FinalLeft
    [] kind = "clock" -> ClockLeft [] kind = "watchdog" -> DogLeft

\* The observer, the decision, the time anchor and the entry into Linux.
StepsLeft ==
  IF stage \in Over THEN 0
  ELSE IF stage = "anchor" THEN AnchorLeft + 1
  ELSE ObserverLeft + Reads(Anchors) + 2

Longest ==
  Reads(Anchors) + 2 +
    CASE kind \in ColdKinds -> 3 * ColdPolls + Sweeps(Samples) + 3
      [] kind = "final" -> FinalPolls + 4
      [] kind = "clock" -> 4 * AckPolls + 5
      [] kind = "watchdog" -> 3 * DogPolls + 8

(* log_rtos_samples, wait_spi_peer_final, run_after_full_init,
   log_watchdog_quiescence and read_time_anchor never wait for the firmware
   without counting: every access of the host brings it nearer to the
   decision, none is left exactly where it has decided, and nothing that the
   firmware writes, nor the loss of the link, puts the decision off.        *)
DecisionBounded ==
  /\ [](StepsLeft \in 0 .. Longest /\ (StepsLeft = 0 <=> stage \in Over))
  /\ [][/\ Host => StepsLeft' < StepsLeft
        /\ Firmware \/ Counter => StepsLeft' = StepsLeft]_vars

\* Sweeps and reads, one by one.
LEMMA SweepsAdd ==
  /\ \A k \in Nat : Sweeps(k) \in Nat /\ Sweeps(k + 1) = Sweeps(k) + 4 * Attempts + 3
  /\ \A k \in 0 .. Samples - 1 : Sweeps(k) + 4 * Attempts + 3 <= Sweeps(Samples)
  /\ Sweeps(0) = 0
<1> DEFINE c == 4 * Attempts + 3
<1>1. c \in Nat /\ Samples \in Nat /\ Attempts \in Nat
  BY ColdAssumption
<1>2. ASSUME NEW k \in Nat
      PROVE  Sweeps(k) \in Nat /\ Sweeps(k + 1) = Sweeps(k) + c
  <2>1. k * c \in Nat /\ (k + 1) * c = k * c + c
    BY <1>1
  <2> QED
    BY <2>1 DEF Sweeps
<1>3. ASSUME NEW k \in 0 .. Samples - 1
      PROVE  Sweeps(k) + c <= Sweeps(Samples)
  <2>1. k \in Nat /\ Samples - 1 - k \in Nat
    BY <1>1
  <2>2. /\ (Samples - 1 - k) * c \in Nat /\ k * c \in Nat
        /\ Samples * c = k * c + c + (Samples - 1 - k) * c
    BY <1>1, <2>1
  <2> QED
    BY <1>1, <2>2 DEF Sweeps
<1>4. Sweeps(0) = 0
  BY <1>1 DEF Sweeps
<1> QED
  BY <1>1, <1>2, <1>3, <1>4

\* The reads of one more sample of the anchor are three for each try.
LEMMA ReadsAdd ==
  /\ \A k \in Nat : Reads(k) \in Nat /\ Reads(k + 1) = Reads(k) + 3 * Tries
  /\ \A k \in 0 .. Anchors - 1 : Reads(k) + 3 * Tries <= Reads(Anchors)
  /\ Reads(0) = 0
<1> DEFINE c == 3 * Tries
<1>1. c \in Nat /\ Anchors \in Nat /\ Tries \in Nat
  BY AnchorAssumption
<1>2. ASSUME NEW k \in Nat
      PROVE  Reads(k) \in Nat /\ Reads(k + 1) = Reads(k) + c
  <2>1. k * c \in Nat /\ (k + 1) * c = k * c + c
    BY <1>1
  <2> QED
    BY <2>1 DEF Reads
<1>3. ASSUME NEW k \in 0 .. Anchors - 1
      PROVE  Reads(k) + c <= Reads(Anchors)
  <2>1. k \in Nat /\ Anchors - 1 - k \in Nat
    BY <1>1
  <2>2. /\ (Anchors - 1 - k) * c \in Nat /\ k * c \in Nat
        /\ Anchors * c = k * c + c + (Anchors - 1 - k) * c
    BY <1>1, <2>1
  <2> QED
    BY <1>1, <2>2 DEF Reads
<1>4. Reads(0) = 0
  BY <1>1 DEF Reads
<1> QED
  BY <1>1, <1>2, <1>3, <1>4

\* wait_spi_peer_final: a poll, or one of the four reads after the last poll.
LEMMA FinalShortens ==
  ASSUME FinalTypeOK
  PROVE  /\ FinalLeft \in 0 .. FinalPolls + 4
         /\ FinalLeft = 0 <=> final.pc = "end"
         /\ FinalHost => FinalLeft' < FinalLeft
<1>1. /\ final.pc \in {"poll", "copyhead", "copyp", "copyq", "after", "end"}
      /\ final.poll \in 1 .. FinalPolls /\ FinalPolls \in Nat
  BY FinalAssumption DEF FinalTypeOK
<1>2. FinalLeft \in 0 .. FinalPolls + 4 /\ (FinalLeft = 0 <=> final.pc = "end")
  BY <1>1 DEF FinalLeft, FinalPlace
<1>3. ASSUME FinalHost PROVE FinalLeft' < FinalLeft
  <2>1. CASE final'.pc = "end" /\ final.pc # "end"
    <3>1. FinalLeft' = 0
      BY <2>1 DEF FinalLeft, FinalPlace
    <3> QED
      BY <1>1, <1>2, <2>1, <3>1
  <2>2. CASE /\ final.pc = "poll" /\ final'.pc = "poll"
             /\ final'.poll = final.poll + 1 /\ final.poll # FinalPolls
    BY <1>1, <2>2 DEF FinalLeft, FinalPlace
  <2>3. CASE \/ final.pc = "poll" /\ final'.pc = "copyhead"
             \/ final.pc = "copyhead" /\ final'.pc = "copyp"
             \/ final.pc = "copyp" /\ final'.pc = "copyq"
             \/ final.pc = "copyq" /\ final'.pc = "after"
    BY <1>1, <2>3 DEF FinalLeft, FinalPlace
  <2>4. \/ final'.pc = "end" /\ final.pc # "end"
        \/ /\ final.pc = "poll" /\ final'.pc = "poll"
           /\ final'.poll = final.poll + 1 /\ final.poll # FinalPolls
        \/ final.pc = "poll" /\ final'.pc = "copyhead"
        \/ final.pc = "copyhead" /\ final'.pc = "copyp"
        \/ final.pc = "copyp" /\ final'.pc = "copyq"
        \/ final.pc = "copyq" /\ final'.pc = "after"
    <3>1. final \in Finals
      BY DEF FinalTypeOK, Finals
    <3> QED
      BY <1>3, <3>1 DEF FinalHost, PollHead, CopyHead, CopyWord, HeadAfter,
         ReadRefused, FinishFinal, PollsDone, Finals
  <2> QED
    BY <2>1, <2>2, <2>3, <2>4
<1> QED
  BY <1>2, <1>3

\* run_after_full_init: four reads a poll, then GO and the one look.
LEMMA ClockShortens ==
  ASSUME ClockTypeOK
  PROVE  /\ ClockLeft \in 0 .. 4 * AckPolls + 5
         /\ ClockLeft = 0 <=> clock.pc = "end"
         /\ ClockHost => ClockLeft' < ClockLeft
<1>1. /\ clock.pc \in {"seq", "ack", "go", "phase", "writego", "header", "p", "q",
                       "validate", "end"}
      /\ clock.poll \in 1 .. AckPolls /\ AckPolls \in Nat
  BY ClockAssumption DEF ClockTypeOK
<1>2. ClockLeft \in 0 .. 4 * AckPolls + 5 /\ (ClockLeft = 0 <=> clock.pc = "end")
  BY <1>1 DEF ClockLeft, ClockPlace, Waiting
<1>3. ASSUME ClockHost PROVE ClockLeft' < ClockLeft
  <2>1. CASE clock'.pc = "end" /\ clock.pc # "end"
    <3>1. ClockLeft' = 0
      BY <2>1 DEF ClockLeft, ClockPlace, Waiting
    <3> QED
      BY <1>1, <1>2, <2>1, <3>1
  <2>2. CASE /\ clock.pc = "phase" /\ clock'.pc = "seq"
             /\ clock'.poll = clock.poll + 1 /\ clock.poll # AckPolls
    BY <1>1, <2>2 DEF ClockLeft, ClockPlace, Waiting
  <2>3. CASE /\ \/ clock.pc = "seq" /\ clock'.pc = "ack"
                \/ clock.pc = "ack" /\ clock'.pc = "go"
                \/ clock.pc = "go" /\ clock'.pc = "phase"
             /\ clock'.poll = clock.poll
    BY <1>1, <2>3 DEF ClockLeft, ClockPlace, Waiting
  <2>4. CASE \/ clock.pc = "phase" /\ clock'.pc = "writego"
             \/ clock.pc = "writego" /\ clock'.pc = "header"
             \/ clock.pc = "header" /\ clock'.pc = "p"
             \/ clock.pc = "p" /\ clock'.pc = "q"
             \/ clock.pc = "q" /\ clock'.pc = "validate"
    BY <1>1, <2>4 DEF ClockLeft, ClockPlace, Waiting
  <2>5. \/ clock'.pc = "end" /\ clock.pc # "end"
        \/ /\ clock.pc = "phase" /\ clock'.pc = "seq"
           /\ clock'.poll = clock.poll + 1 /\ clock.poll # AckPolls
        \/ /\ \/ clock.pc = "seq" /\ clock'.pc = "ack"
              \/ clock.pc = "ack" /\ clock'.pc = "go"
              \/ clock.pc = "go" /\ clock'.pc = "phase"
           /\ clock'.poll = clock.poll
        \/ clock.pc = "phase" /\ clock'.pc = "writego"
        \/ clock.pc = "writego" /\ clock'.pc = "header"
        \/ clock.pc = "header" /\ clock'.pc = "p"
        \/ clock.pc = "p" /\ clock'.pc = "q"
        \/ clock.pc = "q" /\ clock'.pc = "validate"
    <3>1. CASE PollSeq
      BY <3>1 DEF PollSeq, ClockTypeOK
    <3>2. CASE PollWord("ack", "go", page.ack = clock.seq)
      BY <3>2 DEF PollWord, ClockTypeOK
    <3>3. CASE PollWord("go", "phase", page.go = 0)
      BY <3>3 DEF PollWord, ClockTypeOK
    <3>4. CASE PollPhase
      BY <3>4 DEF PollPhase, ClockTypeOK
    <3>5. CASE WriteGo
      BY <3>5 DEF WriteGo, ClockTypeOK
    <3>6. CASE ReadHeader
      <4>1. clock.pc = "header" /\ clock'.pc = "p"
        BY <3>6 DEF ReadHeader, ClockTypeOK
      <4> QED
        BY <4>1
    <3>7. CASE ReadWord("p", "p", "q")
      BY <3>7 DEF ReadWord, ClockTypeOK
    <3>8. CASE ReadWord("q", "q", "validate")
      BY <3>8 DEF ReadWord, ClockTypeOK
    <3>9. CASE Validate
      <4>1. clock.pc = "validate" /\ clock'.pc = "end"
        BY <3>9 DEF Validate, ClockTypeOK
      <4> QED
        BY <4>1
    <3>10. CASE BarRefused
      BY <3>10 DEF BarRefused, ClockTypeOK
    <3> QED
      BY <1>3, <3>1, <3>2, <3>3, <3>4, <3>5, <3>6, <3>7, <3>8, <3>9, <3>10
         DEF ClockHost, WaitForAck, ReadRecordOnce
  <2> QED
    BY <2>1, <2>2, <2>3, <2>4, <2>5
<1> QED
  BY <1>2, <1>3

\* log_watchdog_quiescence: three sweeps a look, the request written once.
LEMMA DogShortens ==
  ASSUME DogTypeOK
  PROVE  /\ DogLeft \in 0 .. 3 * DogPolls + 8
         /\ DogLeft = 0 <=> dog.pc = "end"
         /\ DogHost => DogLeft' < DogLeft
<1>1. /\ dog.pc \in Looking \cup Requesting \cup {"gem", "ackp", "ackq", "acktoken", "end"}
      /\ dog.poll \in 1 .. DogPolls /\ DogPolls \in Nat
      /\ dog \in Looks
  BY DogAssumption DEF DogTypeOK, Looks, Looking, Requesting
<1>2. DogLeft \in 0 .. 3 * DogPolls + 8 /\ (DogLeft = 0 <=> dog.pc = "end")
  BY <1>1 DEF DogLeft, DogPlace, Looking, Requesting
<1>3. ASSUME DogHost PROVE DogLeft' < DogLeft
  <2>1. CASE dog'.pc = "end" /\ dog.pc # "end"
    <3>1. DogLeft' = 0
      BY <2>1 DEF DogLeft, DogPlace, Looking, Requesting
    <3> QED
      BY <1>1, <1>2, <2>1, <3>1
  <2>2. CASE /\ dog.pc \in {"region", "readback"} /\ dog'.pc = "state"
             /\ dog'.poll = dog.poll + 1 /\ dog.poll # DogPolls
             /\ dog.pc = "region" => dog'.requested = dog.requested
             /\ dog.pc = "readback" => dog'.requested
    BY <1>1, <2>2 DEF DogLeft, DogPlace, Looking, Requesting
  <2>3. CASE /\ \/ dog.pc = "state" /\ dog'.pc = "receipt"
                \/ dog.pc = "receipt" /\ dog'.pc = "region"
                \/ dog.pc = "region" /\ ~dog.requested /\ dog'.pc = "p"
                \/ dog.pc = "p" /\ dog'.pc = "q"
                \/ dog.pc = "q" /\ dog'.pc = "token"
                \/ dog.pc = "token" /\ dog'.pc = "readback"
             /\ dog'.poll = dog.poll /\ dog'.requested = dog.requested
    BY <1>1, <2>3 DEF DogLeft, DogPlace, Looking, Requesting
  <2>4. CASE \/ dog.pc = "region" /\ dog'.pc = "gem"
             \/ dog.pc = "gem" /\ dog'.pc = "ackp"
             \/ dog.pc = "ackp" /\ dog'.pc = "ackq"
             \/ dog.pc = "ackq" /\ dog'.pc = "acktoken"
    BY <1>1, <2>4 DEF DogLeft, DogPlace, Looking, Requesting
  <2>5. CASE SweepState
    <3>1. /\ dog.pc = "state" /\ dog'.pc = "receipt"
          /\ dog'.poll = dog.poll /\ dog'.requested = dog.requested
      BY <1>1, <2>5 DEF SweepState, Looks
    <3> QED
      BY <2>3, <3>1
  <2>6. CASE SweepReceipt
    <3>1. CASE DogEnd("firmware-error")
      BY <1>1, <2>1, <2>6, <3>1 DEF SweepReceipt, DogEnd, Looks
    <3>2. CASE ~DogEnd("firmware-error")
      <4>1. dog' = [dog EXCEPT !.pc = "region", !.good = receipt.p # "none" /\ receipt.q # "none"]
        BY <2>6, <3>2 DEF SweepReceipt
      <4>2. /\ dog.pc = "receipt" /\ dog'.pc = "region"
            /\ dog'.poll = dog.poll /\ dog'.requested = dog.requested
        BY <1>1, <2>6, <4>1 DEF SweepReceipt, Looks
      <4> QED
        BY <2>3, <4>2
    <3> QED
      BY <3>1, <3>2
  <2>7. CASE SweepRegion
    <3>1. CASE ~dog.requested /\ dog' = [dog EXCEPT !.pc = "p"]
      BY <1>1, <2>3, <2>7, <3>1 DEF SweepRegion, Looks
    <3>2. CASE NextLook(dog.requested)
      BY <1>1, <2>1, <2>2, <2>7, <3>2 DEF SweepRegion, NextLook, DogEnd, Looks
    <3>3. CASE dog' = [dog EXCEPT !.pc = "gem"]
      BY <1>1, <2>4, <2>7, <3>3 DEF SweepRegion, Looks
    <3>4. CASE DogEnd("disabled-receipt")
      BY <1>1, <2>1, <2>7, <3>4 DEF SweepRegion, DogEnd, Looks
    <3> QED
      BY <2>7, <3>1, <3>2, <3>3, <3>4 DEF SweepRegion
  <2>8. CASE WriteRequest
    <3>1. /\ \/ dog.pc = "p" /\ dog'.pc = "q"
             \/ dog.pc = "q" /\ dog'.pc = "token"
             \/ dog.pc = "token" /\ dog'.pc = "readback"
          /\ dog'.poll = dog.poll /\ dog'.requested = dog.requested
      BY <1>1, <2>8 DEF WriteRequest, After, Looks
    <3> QED
      BY <2>3, <3>1
  <2>9. CASE ReadBack
    <3>1. CASE NextLook(TRUE)
      BY <1>1, <2>1, <2>2, <2>9, <3>1 DEF ReadBack, NextLook, DogEnd, Looks
    <3>2. CASE DogEnd("request-readback")
      BY <1>1, <2>1, <2>9, <3>2 DEF ReadBack, DogEnd, Looks
    <3> QED
      BY <2>9, <3>1, <3>2 DEF ReadBack
  <2>10. CASE VerifyGem
    <3>1. dog.pc = "gem" /\ dog'.pc \in {"ackp", "end"}
      BY <1>1, <2>10 DEF VerifyGem, DogEnd, Looks
    <3> QED
      BY <2>1, <2>4, <3>1
  <2>11. CASE WriteAck
    <3>1. \/ dog.pc = "ackp" /\ dog'.pc = "ackq"
          \/ dog.pc = "ackq" /\ dog'.pc = "acktoken"
          \/ dog.pc = "acktoken" /\ dog'.pc = "end"
      BY <1>1, <2>11 DEF WriteAck, After, DogEnd, Looks
    <3> QED
      BY <2>1, <2>4, <3>1
  <2> QED
    BY <1>3, <2>5, <2>6, <2>7, <2>8, <2>9, <2>10, <2>11 DEF DogHost
<1> QED
  BY <1>2, <1>3

\* The cold observer's accesses, as moves between its places.
Polled == \/ cold.pc = "ready" /\ cold'.pc = "readywords"
          \/ cold.pc = "readywords" /\ cold'.pc = "readyagain"

Read == \/ cold.pc = "head" /\ cold'.pc = "counters"
        \/ cold.pc = "counters" /\ cold'.pc \in {"held", "before"}
        \/ cold.pc = "held" /\ cold'.pc = "before"

Tried == \/ cold.pc = "before" /\ cold'.pc = "p"
         \/ cold.pc = "p" /\ cold'.pc \in {"moved", "q"}
         \/ cold.pc = "q" /\ cold'.pc = "after"

Closed == \/ cold.pc = "complete" /\ cold'.pc = "clocksafter"
          \/ cold.pc = "clocksafter" /\ cold'.pc = "end"

TryEnded ==
  \/ /\ cold'.pc = "before" /\ cold'.n = cold.n
     /\ cold.try # Attempts /\ cold'.try = cold.try + 1
  \/ cold'.pc = "head" /\ cold'.n = cold.n + 1 /\ cold.n + 1 # Samples
  \/ cold'.pc = "complete" /\ cold.n + 1 = Samples

ColdMove ==
  \/ Polled /\ cold'.poll = cold.poll
  \/ /\ cold.pc = "readyagain" /\ cold'.pc = "ready"
     /\ cold.poll # ColdPolls /\ cold'.poll = cold.poll + 1
  \/ cold.pc = "readyagain" /\ cold'.pc = "clocks"
  \/ cold.pc = "clocks" /\ cold'.pc = "head" /\ cold'.n = cold.n
  \/ (Read \/ Tried) /\ cold'.n = cold.n /\ cold'.try = cold.try
  \/ cold.pc \in {"before", "moved", "after"} /\ TryEnded
  \/ Closed

\* Every access is one of these moves.
LEMMA ColdMoves == ASSUME ColdTypeOK, ColdStep PROVE ColdMove
<1>0. cold \in ColdLocals
  BY DEF ColdTypeOK
<1> USE <1>0 DEF At, ColdLocals
<1>1. CASE ReadReadySeq
  BY <1>1 DEF ReadReadySeq, ColdMove, Polled
<1>2. CASE ReadReadyWords
  <2>1. cold.pc = "readywords" /\ cold'.pc = "readyagain" /\ cold'.poll = cold.poll
    BY <1>2 DEF ReadReadyWords
  <2> QED
    BY <2>1 DEF ColdMove, Polled
<1>3. CASE ReadReadyAgain
  <2>1. /\ cold.pc = "readyagain"
        /\ \/ cold'.pc = "clocks"
           \/ cold'.pc = "ready" /\ cold.poll # ColdPolls /\ cold'.poll = cold.poll + 1
    <3> DEFINE ready == cold.good /\ scmi.seq = cold.seq
               over == ready \/ cold.poll = ColdPolls
    <3>1. /\ cold.pc = "readyagain"
          /\ cold' = [cold EXCEPT
               !.pc = IF over THEN "clocks" ELSE "ready",
               !.poll = IF over THEN 1 ELSE @ + 1,
               !.ok = ready \/ ~over, !.good = TRUE, !.seq = 0]
      BY <1>3 DEF ReadReadyAgain
    <3>2. /\ cold'.pc = IF over THEN "clocks" ELSE "ready"
          /\ cold'.poll = IF over THEN 1 ELSE cold.poll + 1
      <4> HIDE DEF ready, over
      <4> QED
        BY <3>1
    <3> QED
      BY <3>1, <3>2
  <2> QED
    BY <2>1 DEF ColdMove
<1>4. CASE ReadClocks("clocks", "head")
  <2>1. cold.pc = "clocks" /\ cold'.pc = "head" /\ cold'.n = cold.n
    BY <1>4 DEF ReadClocks
  <2> QED
    BY <2>1 DEF ColdMove
<1>5. CASE ReadHead
  <2>1. /\ cold.pc = "head" /\ cold'.pc = "counters"
        /\ cold'.n = cold.n /\ cold'.try = cold.try
    BY <1>5 DEF ReadHead
  <2> QED
    BY <2>1 DEF ColdMove, Read
<1>6. CASE ReadCounters
  <2>1. /\ cold.pc = "counters" /\ cold'.pc \in {"held", "before"}
        /\ cold'.n = cold.n /\ cold'.try = cold.try
    BY <1>6 DEF ReadCounters
  <2> QED
    BY <2>1 DEF ColdMove, Read
<1>7. CASE ReadHeld
  <2>1. /\ cold.pc = "held" /\ cold'.pc = "before"
        /\ cold'.n = cold.n /\ cold'.try = cold.try
    BY <1>7 DEF ReadHeld
  <2> QED
    BY <2>1 DEF ColdMove, Read
<1>8. ASSUME NEW good \in BOOLEAN, cold' = NextSample(good) \/ cold' = NextTry
      PROVE  TryEnded
  <2>1. ASSUME NEW g \in BOOLEAN, cold' = NextSample(g) PROVE TryEnded
    <3>1. /\ cold'.n = cold.n + 1
          /\ cold'.pc = IF cold.n + 1 = Samples THEN "complete" ELSE "head"
      BY <2>1 DEF NextSample
    <3> QED
      BY <3>1 DEF TryEnded
  <2>2. CASE cold.try # Attempts /\ cold' = NextTry
    BY <2>2 DEF NextTry, TryEnded
  <2> QED
    BY <1>8, <2>1, <2>2 DEF NextTry
<1>9. CASE ReadBefore
  <2>1. cold.pc = "before"
        /\ (cold' = NextTry \/ cold' = [cold EXCEPT !.seq = scmi.seq, !.pc = "p"])
    BY <1>9 DEF ReadBefore
  <2> QED
    BY <1>8, <2>1 DEF ColdMove, Tried
<1>10. CASE ReadP
  <2>1. /\ cold.pc = "p" /\ cold'.pc \in {"moved", "q"}
        /\ cold'.n = cold.n /\ cold'.try = cold.try
    BY <1>10 DEF ReadP
  <2> QED
    BY <2>1 DEF ColdMove, Tried
<1>11. CASE CounterMoved
  BY <1>8, <1>11 DEF CounterMoved, ColdMove
<1>12. CASE ReadQ
  <2>1. /\ cold.pc = "q" /\ cold'.pc = "after"
        /\ cold'.n = cold.n /\ cold'.try = cold.try
    BY <1>12 DEF ReadQ
  <2> QED
    BY <2>1 DEF ColdMove, Tried
<1>13. CASE ReadAfter
  <2> DEFINE taken == cold.seq = 2 /\ cold.good
  <2>1. cold.pc = "after" /\ (cold' = NextSample(taken) \/ cold' = NextTry)
    BY <1>13 DEF ReadAfter
  <2>2. taken \in BOOLEAN
    OBVIOUS
  <2> HIDE DEF taken
  <2> QED
    BY <1>8, <2>1, <2>2 DEF ColdMove
<1>14. CASE Complete
  <2>1. cold.pc = "complete" /\ cold'.pc = "clocksafter"
    BY <1>14 DEF Complete
  <2> QED
    BY <2>1 DEF ColdMove, Closed
<1>15. CASE ReadClocks("clocksafter", "end")
  <2>1. cold.pc = "clocksafter" /\ cold'.pc = "end"
    BY <1>15 DEF ReadClocks
  <2> QED
    BY <2>1 DEF ColdMove, Closed
<1> QED
  BY <1>1, <1>2, <1>3, <1>4, <1>5, <1>6, <1>7, <1>9, <1>10, <1>11, <1>12, <1>13,
     <1>14, <1>15 DEF ColdStep, ColdHost

\* log_rtos_samples: three reads a poll, then Samples samples of at most
\* Attempts tries each.
LEMMA ColdShortens ==
  ASSUME ColdInv
  PROVE  /\ ColdLeft \in 0 .. 3 * ColdPolls + Sweeps(Samples) + 3
         /\ ColdLeft = 0 <=> cold.pc = "end"
         /\ ColdStep => ColdLeft' < ColdLeft
<1> DEFINE S == Sweeps(Samples)
           R == Sweeps(Samples - cold.n - 1)
           InTry == Sweeping \ InHead
<1>1. /\ cold.pc \in {"ready", "readywords", "readyagain", "clocks", "complete",
                      "clocksafter", "end"} \cup Sweeping
      /\ cold.poll \in 1 .. ColdPolls /\ cold.try \in 1 .. Attempts
      /\ cold.n \in 0 .. Samples
      /\ ColdPolls \in Nat /\ Attempts \in Nat /\ Samples \in Nat /\ ColdTypeOK
      /\ cold.pc \in Sweeping \cup {"clocks"} => cold.n < Samples
  BY ColdAssumption DEF ColdInv, ColdTypeOK, ColdLocals, Before, Sweeping
<1>2. /\ S \in Nat /\ S >= 4 * Attempts + 3
      /\ cold.pc \in Sweeping \cup {"clocks"} => R \in Nat /\ R + 4 * Attempts + 3 <= S
  <2>1. S \in Nat /\ S >= 4 * Attempts + 3
    <3>1. 0 \in 0 .. Samples - 1
      BY ColdAssumption
    <3> QED
      BY <1>1, <3>1, SweepsAdd
  <2>2. cold.n < Samples => Samples - cold.n - 1 \in 0 .. Samples - 1
                            /\ Samples - cold.n - 1 \in Nat
    BY <1>1
  <2> QED
    BY <1>1, <2>1, <2>2, SweepsAdd
<1>3. /\ cold.pc \in Before \ {"clocks"} =>
             ColdLeft = ColdPlace[cold.pc] + 3 * (ColdPolls - cold.poll) + S + 3
      /\ cold.pc = "clocks" => ColdLeft = S + 3
      /\ cold.pc \in InHead => ColdLeft = ColdPlace[cold.pc] + R + 4 * Attempts + 2
      /\ cold.pc \in InTry =>
             ColdLeft = ColdPlace[cold.pc] + R + 4 * (Attempts - cold.try) + 2
      /\ cold.pc \in {"complete", "clocksafter", "end"} => ColdLeft = ColdPlace[cold.pc]
  BY <1>1, <1>2 DEF ColdLeft, ColdPlace, Before, Sweeping, InHead
<1>4. /\ ColdLeft \in 0 .. 3 * ColdPolls + S + 3
      /\ ColdLeft = 0 <=> cold.pc = "end"
  <2> HIDE DEF S, R
  <2>1. CASE cold.pc \in Before
    BY <1>1, <1>2, <1>3, <2>1 DEF Before, ColdPlace
  <2>2. CASE cold.pc \in InHead
    BY <1>1, <1>2, <1>3, <2>2 DEF InHead, Sweeping, ColdPlace
  <2>3. CASE cold.pc \in InTry
    BY <1>1, <1>2, <1>3, <2>3 DEF InHead, Sweeping, ColdPlace
  <2>4. CASE cold.pc \in {"complete", "clocksafter", "end"}
    BY <1>1, <1>2, <1>3, <2>4 DEF ColdPlace
  <2> QED
    BY <1>1, <2>1, <2>2, <2>3, <2>4 DEF Before
<1>5. ASSUME ColdStep PROVE ColdLeft' < ColdLeft
  <2>1. /\ cold'.pc \in Before \ {"clocks"} /\ cold'.poll \in Nat =>
               ColdLeft' = ColdPlace[cold'.pc] + 3 * (ColdPolls - cold'.poll) + S + 3
        /\ cold'.pc = "clocks" => ColdLeft' = S + 3
        /\ cold'.pc \in InHead /\ Sweeps(Samples - cold'.n - 1) \in Nat =>
               ColdLeft' = ColdPlace[cold'.pc] + Sweeps(Samples - cold'.n - 1)
                             + 4 * Attempts + 2
        /\ cold'.pc \in InTry /\ cold'.n = cold.n /\ cold'.try \in Nat /\ R \in Nat =>
               ColdLeft' = ColdPlace[cold'.pc] + R + 4 * (Attempts - cold'.try) + 2
        /\ cold'.pc \in {"complete", "clocksafter", "end"} =>
               ColdLeft' = ColdPlace[cold'.pc]
    BY <1>1, <1>2 DEF ColdLeft, ColdPlace, Before, Sweeping, InHead
  <2>2. cold'.n = cold.n => Sweeps(Samples - cold'.n - 1) = R
    OBVIOUS
  <2>3. CASE Polled /\ cold'.poll = cold.poll
    <3> HIDE DEF S, R
    <3> QED
      BY <1>1, <1>2, <1>3, <2>1, <2>3 DEF Polled, Before, ColdPlace
  <2>4. CASE /\ cold.pc = "readyagain" /\ cold'.pc = "ready"
             /\ cold.poll # ColdPolls /\ cold'.poll = cold.poll + 1
    <3> HIDE DEF S, R
    <3> QED
      BY <1>1, <1>2, <1>3, <2>1, <2>4 DEF Before, ColdPlace
  <2>5. CASE cold.pc = "readyagain" /\ cold'.pc = "clocks"
    <3> HIDE DEF S, R
    <3> QED
      BY <1>1, <1>2, <1>3, <2>1, <2>5 DEF Before, ColdPlace
  <2>6. CASE cold.pc = "clocks" /\ cold'.pc = "head" /\ cold'.n = cold.n
    <3> HIDE DEF S, R
    <3> QED
      BY <1>1, <1>2, <1>3, <2>1, <2>2, <2>6 DEF InHead, ColdPlace
  <2>7. CASE Read /\ cold'.n = cold.n /\ cold'.try = cold.try
    <3> HIDE DEF S, R
    <3> QED
      BY <1>1, <1>2, <1>3, <2>1, <2>2, <2>7 DEF Read, InHead, Sweeping, ColdPlace
  <2>8. CASE Tried /\ cold'.n = cold.n /\ cold'.try = cold.try
    <3> HIDE DEF S, R
    <3> QED
      BY <1>1, <1>2, <1>3, <2>1, <2>8 DEF Tried, InHead, Sweeping, ColdPlace
  <2>9. CASE cold.pc \in {"before", "moved", "after"} /\ TryEnded
    <3>1. cold.pc \in InTry /\ ColdLeft >= R + 4 * (Attempts - cold.try) + 3 /\ R \in Nat
      <4> HIDE DEF S, R
      <4> QED
        BY <1>1, <1>2, <1>3, <2>9 DEF InHead, Sweeping, ColdPlace
    <3>2. CASE /\ cold'.pc = "before" /\ cold'.n = cold.n
               /\ cold.try # Attempts /\ cold'.try = cold.try + 1
      <4> HIDE DEF S, R
      <4>1. ColdLeft' = R + 4 * (Attempts - cold.try - 1) + 6
        BY <1>1, <2>1, <3>1, <3>2 DEF InHead, Sweeping, ColdPlace
      <4> QED
        BY <1>1, <1>2, <1>4, <3>1, <4>1
    <3>3. CASE cold'.pc = "head" /\ cold'.n = cold.n + 1 /\ cold.n + 1 # Samples
      <4>1. /\ Samples - cold.n - 2 \in Nat
            /\ Samples - cold'.n - 1 = Samples - cold.n - 2
            /\ Samples - cold.n - 1 = (Samples - cold.n - 2) + 1
        <5>1. cold.n \in Nat /\ cold.n < Samples
          BY <1>1, <3>1
        <5>2. ASSUME NEW n \in Nat, n < Samples, n + 1 # Samples
              PROVE  /\ Samples - n - 2 \in Nat
                     /\ Samples - (n + 1) - 1 = Samples - n - 2
                     /\ Samples - n - 1 = (Samples - n - 2) + 1
          BY <1>1, <5>2
        <5> QED
          BY <3>3, <5>1, <5>2
      <4>2. Sweeps(Samples - cold'.n - 1) \in Nat
            /\ R = Sweeps(Samples - cold'.n - 1) + 4 * Attempts + 3
        BY <4>1, SweepsAdd
      <4> HIDE DEF S, R
      <4>3. ColdLeft' = Sweeps(Samples - cold'.n - 1) + 4 * Attempts + 5
        BY <1>1, <2>1, <3>3, <4>2 DEF InHead, ColdPlace
      <4> QED
        BY <1>1, <1>4, <3>1, <4>2, <4>3
    <3>4. CASE cold'.pc = "complete" /\ cold.n + 1 = Samples
      <4> HIDE DEF S, R
      <4>1. ColdLeft' = 2
        BY <2>1, <3>4 DEF ColdPlace
      <4> QED
        BY <1>1, <1>4, <3>1, <4>1
    <3> QED
      BY <2>9, <3>2, <3>3, <3>4 DEF TryEnded
  <2>10. CASE Closed
    BY <1>3, <2>1, <2>10 DEF Closed, ColdPlace
  <2>11. ColdMove
    BY <1>1, <1>5, ColdMoves
  <2> QED
    BY <2>3, <2>4, <2>5, <2>6, <2>7, <2>8, <2>9, <2>10, <2>11 DEF ColdMove
<1> QED
  BY <1>4, <1>5

\* The samples are counted: none is left to take exactly at the end.
Counted ==
  /\ Len(samples) \in 0 .. Anchors
  /\ anchor.pc = "end" <=> Len(samples) = Anchors

\* A step of the anchor keeps the count of its samples.
LEMMA CountedStep ==
  ASSUME AnchorTypeOK, Counted, AnchorHost \/ UNCHANGED <<anchor, samples>>
  PROVE  Counted'
<1>1. CASE UNCHANGED <<anchor, samples>>
  BY <1>1 DEF Counted
<1>2. /\ Anchors \in Nat /\ Len(samples) \in 0 .. Anchors
      /\ anchor.pc = "end" <=> Len(samples) = Anchors
  BY AnchorAssumption DEF Counted
<1>3. CASE AnchorHost /\ anchor'.pc # "end" /\ anchor.pc # "end" /\ samples' = samples
  BY <1>2, <1>3 DEF Counted
<1>4. CASE ReadHighAgain
  <2>1. CASE /\ anchor' = [anchor EXCEPT !.pc = "high", !.try = @ + 1]
             /\ UNCHANGED samples
    BY <1>2, <1>4, <2>1 DEF ReadHighAgain, AnchorTypeOK, Counted
  <2>2. CASE \E s : samples' = Append(samples, s)
    <3>1. Len(samples') = Len(samples) + 1
      <4>1. PICK s : samples' = Append(samples, s)
        BY <2>2
      <4>2. samples \in Seq([raw: Words, after: 0 .. High, at: Words])
        BY DEF AnchorTypeOK
      <4> QED
        BY <4>1, <4>2
    <3>2. anchor.pc = "again"
          /\ anchor'.pc = IF Len(samples) + 1 = Anchors THEN "end" ELSE "high"
      <4>1. samples' # samples
        BY <1>2, <3>1
      <4> QED
        BY <1>4, <4>1 DEF ReadHighAgain, AnchorTypeOK
    <3> QED
      BY <1>2, <3>1, <3>2 DEF Counted
  <2> QED
    BY <1>4, <2>1, <2>2 DEF ReadHighAgain
<1>5. CASE AnchorHost /\ ~ReadHighAgain
  BY <1>3, <1>5 DEF AnchorHost, ReadHigh, ReadLow, AnchorTypeOK
<1> QED
  BY <1>1, <1>4, <1>5

\* read_time_anchor: three reads a try, Tries tries a sample.
LEMMA AnchorShortens ==
  ASSUME AnchorTypeOK, Counted
  PROVE  /\ AnchorLeft \in 0 .. Reads(Anchors)
         /\ AnchorHost => AnchorLeft' < AnchorLeft
<1> DEFINE R == Reads(Anchors - Len(samples) - 1)
           T == Reads(Anchors)
<1>0. /\ anchor.pc \in {"high", "low", "again", "end"} /\ anchor.try \in 1 .. Tries
      /\ Tries \in Nat
  BY AnchorAssumption DEF AnchorTypeOK
<1>1. /\ Anchors \in Nat /\ Len(samples) \in 0 .. Anchors
      /\ anchor.pc # "end" => Len(samples) < Anchors
      /\ samples \in Seq([raw: Words, after: 0 .. High, at: Words])
  BY AnchorAssumption DEF AnchorTypeOK, Counted
<1>2. T \in Nat /\ (anchor.pc # "end" => R \in Nat /\ R + 3 * Tries <= T)
  <2>1. anchor.pc # "end" => /\ Anchors - Len(samples) - 1 \in 0 .. Anchors - 1
                             /\ Anchors - Len(samples) - 1 \in Nat
    BY <1>1
  <2> QED
    BY <1>0, <1>1, <2>1, ReadsAdd
<1>3. /\ anchor.pc = "end" => AnchorLeft = 0
      /\ anchor.pc # "end" =>
           AnchorLeft = R + 3 * (Tries - anchor.try) + AnchorPlace[anchor.pc]
  BY DEF AnchorLeft
<1>4. AnchorLeft \in 0 .. T
  <2> HIDE DEF R, T
  <2> QED
    BY <1>0, <1>2, <1>3 DEF AnchorPlace
<1>5. ASSUME AnchorHost PROVE AnchorLeft' < AnchorLeft
  <2>1. CASE /\ \/ anchor.pc = "high" /\ anchor'.pc = "low"
                \/ anchor.pc = "low" /\ anchor'.pc = "again"
             /\ anchor'.try = anchor.try /\ samples' = samples
    <3>1. AnchorLeft' = R + 3 * (Tries - anchor.try) + AnchorPlace[anchor'.pc]
      BY <2>1 DEF AnchorLeft
    <3> HIDE DEF R, T
    <3> QED
      BY <1>0, <1>2, <1>3, <2>1, <3>1 DEF AnchorPlace
  <2>2. CASE /\ anchor.pc = "again" /\ anchor'.pc = "high" /\ samples' = samples
             /\ anchor.try # Tries /\ anchor'.try = anchor.try + 1
    <3>1. AnchorLeft' = R + 3 * (Tries - (anchor.try + 1)) + 3
      BY <2>2 DEF AnchorLeft, AnchorPlace
    <3> HIDE DEF R, T
    <3> QED
      BY <1>0, <1>2, <1>3, <2>2, <3>1 DEF AnchorPlace
  <2>3. CASE /\ anchor.pc = "again" /\ Len(samples') = Len(samples) + 1
             /\ IF Len(samples) + 1 = Anchors THEN anchor'.pc = "end"
                ELSE anchor'.pc = "high" /\ anchor'.try = 1
    <3>0. anchor.pc = "again"
      BY <2>3
    <3>1. AnchorLeft >= R + 1 /\ R \in Nat
      <4> HIDE DEF R, T
      <4> QED
        BY <1>0, <1>2, <1>3, <3>0 DEF AnchorPlace
    <3>2. CASE anchor'.pc = "end"
      <4>1. AnchorLeft' = 0
        BY <3>2 DEF AnchorLeft
      <4> HIDE DEF R, T
      <4> QED
        BY <1>4, <1>2, <3>1, <4>1
    <3>3. CASE Len(samples) + 1 # Anchors
      <4> DEFINE Rest == Reads(Anchors - Len(samples) - 2)
      <4>1. /\ Anchors - Len(samples) - 2 \in Nat
            /\ Anchors - (Len(samples) + 1) - 1 = Anchors - Len(samples) - 2
            /\ Anchors - Len(samples) - 1 = (Anchors - Len(samples) - 2) + 1
        <5>1. ASSUME NEW n \in Nat, n < Anchors, n + 1 # Anchors
              PROVE  /\ Anchors - n - 2 \in Nat
                     /\ Anchors - (n + 1) - 1 = Anchors - n - 2
                     /\ Anchors - n - 1 = (Anchors - n - 2) + 1
          BY <1>1, <5>1
        <5> QED
          BY <1>1, <2>3, <3>3, <5>1
      <4>2. Rest \in Nat /\ R = Rest + 3 * Tries
        BY <4>1, ReadsAdd
      <4>3. AnchorLeft' = Rest + 3 * (Tries - 1) + 3
        BY <2>3, <3>3, <4>1 DEF AnchorLeft, AnchorPlace
      <4> HIDE DEF R, T, Rest
      <4> QED
        BY <1>0, <1>4, <3>1, <4>2, <4>3
    <3> QED
      BY <2>3, <3>2, <3>3
  <2>4. CASE ReadHighAgain
    <3>1. CASE /\ anchor' = [anchor EXCEPT !.pc = "high", !.try = @ + 1]
               /\ UNCHANGED samples /\ anchor.try # Tries
      BY <2>2, <2>4, <3>1 DEF ReadHighAgain, AnchorTypeOK
    <3>2. CASE \E s : /\ samples' = Append(samples, s)
                      /\ anchor' = [anchor EXCEPT !.try = 1,
                           !.pc = IF Len(samples) + 1 = Anchors THEN "end" ELSE "high"]
      <4>1. Len(samples') = Len(samples) + 1
        BY <1>1, <3>2
      <4> QED
        BY <2>3, <2>4, <3>2, <4>1 DEF ReadHighAgain, AnchorTypeOK
    <3> QED
      BY <2>4, <3>1, <3>2 DEF ReadHighAgain
  <2>5. CASE ReadHigh \/ ReadLow
    BY <2>1, <2>5 DEF ReadHigh, ReadLow, AnchorTypeOK
  <2> QED
    BY <1>5, <2>4, <2>5 DEF AnchorHost
<1> QED
  BY <1>4, <1>5

\* What the whole invariant counts: the samples, whatever the stage.
LEMMA CountedAlways == Spec => []Counted
<1>1. Init => Counted
  BY AnchorAssumption DEF Init, AnchorInit, Counted
<1>2. Inv /\ Counted /\ [Next]_vars => Counted'
  <2> SUFFICES ASSUME Inv, Counted, [Next]_vars PROVE Counted'
    OBVIOUS
  <2>1. AnchorTypeOK
    BY DEF Inv, AnchorInv
  <2>2. AnchorHost \/ UNCHANGED <<anchor, samples>>
    BY DEF Next, Host, Observe, ByKind, Firmware, Decide, ReadAnchor, Counter,
       AnchorFirmware, Micro, LinkDown, anchorVars, vars
  <2> QED
    BY <2>1, <2>2, CountedStep
<1> QED
  BY <1>1, <1>2, Invariance, PTL DEF Spec

\* What the stages add up.
Parts == ObserverLeft \in Nat /\ AnchorLeft \in 0 .. Reads(Anchors)

\* The bound, observer by observer.
LEMMA DecisionRange ==
  ASSUME Inv, Counted
  PROVE  Parts /\ StepsLeft \in 0 .. Longest /\ (StepsLeft = 0 <=> stage \in Over)
<1>1. /\ FinalLeft \in 0 .. FinalPolls + 4 /\ ClockLeft \in 0 .. 4 * AckPolls + 5
      /\ DogLeft \in 0 .. 3 * DogPolls + 8
      /\ ColdLeft \in 0 .. 3 * ColdPolls + Sweeps(Samples) + 3
      /\ AnchorLeft \in 0 .. Reads(Anchors)
  BY FinalShortens, ClockShortens, DogShortens, ColdShortens, AnchorShortens
     DEF Inv, FinalInv, ClockInv, DogInv, AnchorInv
<1>2. /\ FinalPolls \in Nat /\ AckPolls \in Nat /\ DogPolls \in Nat /\ ColdPolls \in Nat
      /\ Sweeps(Samples) \in Nat /\ Reads(Anchors) \in Nat
  BY FinalAssumption, ClockAssumption, DogAssumption, ColdAssumption,
     AnchorAssumption, SweepsAdd, ReadsAdd
<1>3. stage \in Over \cup {"observe", "anchor"}
      /\ (kind \in ColdKinds \/ kind \in {"final", "clock", "watchdog"})
  BY DEF Inv, Kinds
<1>4. /\ "final" \notin ColdKinds /\ "clock" \notin ColdKinds /\ "watchdog" \notin ColdKinds
  BY DEF ColdKinds
<1>5. PICK m \in Nat : ObserverLeft \in 0 .. m /\ Longest = Reads(Anchors) + 2 + m
  <2>1. CASE kind \in ColdKinds
    <3>1. ObserverLeft = ColdLeft
          /\ Longest = Reads(Anchors) + 2 + (3 * ColdPolls + Sweeps(Samples) + 3)
      BY <2>1, <1>4 DEF ObserverLeft, Longest
    <3>2. 3 * ColdPolls + Sweeps(Samples) + 3 \in Nat
      BY <1>2
    <3> QED
      BY <1>1, <3>1, <3>2
  <2>2. CASE kind = "final"
    <3>1. ObserverLeft = FinalLeft /\ Longest = Reads(Anchors) + 2 + (FinalPolls + 4)
      BY <2>2, <1>4 DEF ObserverLeft, Longest
    <3>2. FinalPolls + 4 \in Nat
      BY <1>2
    <3> QED
      BY <1>1, <3>1, <3>2
  <2>3. CASE kind = "clock"
    <3>1. ObserverLeft = ClockLeft /\ Longest = Reads(Anchors) + 2 + (4 * AckPolls + 5)
      BY <2>3, <1>4 DEF ObserverLeft, Longest
    <3>2. 4 * AckPolls + 5 \in Nat
      BY <1>2
    <3> QED
      BY <1>1, <3>1, <3>2
  <2>4. CASE kind = "watchdog"
    <3>1. ObserverLeft = DogLeft /\ Longest = Reads(Anchors) + 2 + (3 * DogPolls + 8)
      BY <2>4, <1>4 DEF ObserverLeft, Longest
    <3>2. 3 * DogPolls + 8 \in Nat
      BY <1>2
    <3> QED
      BY <1>1, <3>1, <3>2
  <2> QED
    BY <1>3, <2>1, <2>2, <2>3, <2>4
<1>6. Parts
  BY <1>1, <1>5 DEF Parts
<1>7. CASE stage \in Over
  BY <1>2, <1>5, <1>6, <1>7 DEF StepsLeft
<1>8. CASE stage = "anchor"
  BY <1>1, <1>2, <1>5, <1>6, <1>8 DEF StepsLeft, Over
<1>9. CASE stage = "observe"
  BY <1>2, <1>5, <1>6, <1>9 DEF StepsLeft, Over
<1> QED
  BY <1>3, <1>7, <1>8, <1>9

\* Every access of the host and each of its decisions is one fewer to come,
\* and nothing else is.
LEMMA DecisionNears ==
  ASSUME Inv, Counted, Parts, Parts', Next
  PROVE  /\ Host => StepsLeft' < StepsLeft
         /\ Firmware \/ Counter => StepsLeft' = StepsLeft
<1> DEFINE T == Reads(Anchors)
<1>1. /\ T \in Nat /\ ObserverLeft \in Nat /\ AnchorLeft \in 0 .. T
      /\ ObserverLeft' \in Nat /\ AnchorLeft' \in 0 .. T
  <2>1. Anchors \in Nat
    BY AnchorAssumption
  <2> QED
    BY <2>1, ReadsAdd DEF Parts
<1>2. /\ stage' \in Over => StepsLeft' = 0
      /\ stage' = "anchor" => StepsLeft' = AnchorLeft' + 1
      /\ stage' = "observe" => StepsLeft' = ObserverLeft' + T + 2
      /\ stage = "anchor" => StepsLeft = AnchorLeft + 1
      /\ stage = "observe" => StepsLeft = ObserverLeft + T + 2
  BY DEF StepsLeft, Over
<1>3. /\ "final" \notin ColdKinds /\ "clock" \notin ColdKinds /\ "watchdog" \notin ColdKinds
  BY DEF ColdKinds
<1>4. ASSUME Observe PROVE StepsLeft' < StepsLeft
  <2>1. stage = "observe" /\ stage' = "observe" /\ kind' = kind
    BY <1>4 DEF Observe, ByKind
  <2>2. ObserverLeft' < ObserverLeft
    <3>1. CASE kind \in ColdKinds /\ ColdStep
      <4>1. ObserverLeft = ColdLeft /\ ObserverLeft' = ColdLeft'
        BY <1>3, <2>1, <3>1 DEF ObserverLeft
      <4> QED
        BY <3>1, <4>1, ColdShortens DEF Inv
    <3>2. CASE kind = "final" /\ FinalHost
      <4>1. ObserverLeft = FinalLeft /\ ObserverLeft' = FinalLeft'
        BY <1>3, <2>1, <3>2 DEF ObserverLeft
      <4> QED
        BY <3>2, <4>1, FinalShortens DEF Inv, FinalInv
    <3>3. CASE kind = "clock" /\ ClockHost
      <4>1. ObserverLeft = ClockLeft /\ ObserverLeft' = ClockLeft'
        BY <1>3, <2>1, <3>3 DEF ObserverLeft
      <4> QED
        BY <3>3, <4>1, ClockShortens DEF Inv, ClockInv
    <3>4. CASE kind = "watchdog" /\ DogHost
      <4>1. ObserverLeft = DogLeft /\ ObserverLeft' = DogLeft'
        BY <1>3, <2>1, <3>4 DEF ObserverLeft
      <4> QED
        BY <3>4, <4>1, DogShortens DEF Inv, DogInv
    <3> QED
      BY <1>4, <3>1, <3>2, <3>3, <3>4 DEF Observe, ByKind
  <2>3. \A a, b, c \in Nat : a < b => a + c + 2 < b + c + 2
    OBVIOUS
  <2> HIDE DEF T
  <2> QED
    BY <1>1, <1>2, <2>1, <2>2, <2>3
<1>5. ASSUME Decide PROVE StepsLeft' < StepsLeft
  <2>1. stage = "observe" /\ stage' \in Over \cup {"anchor"}
    BY <1>5 DEF Decide, Over
  <2> HIDE DEF T
  <2> QED
    BY <1>1, <1>2, <2>1
<1>6. ASSUME ReadAnchor PROVE StepsLeft' < StepsLeft
  <2>1. stage = "anchor" /\ (stage' \in Over \/ (stage' = "anchor" /\ AnchorHost))
    BY <1>6 DEF ReadAnchor, Over
  <2>2. AnchorHost => AnchorLeft' < AnchorLeft
    BY AnchorShortens DEF Inv, AnchorInv
  <2> HIDE DEF T
  <2> QED
    BY <1>1, <1>2, <2>1, <2>2
<1>7. ASSUME Firmware PROVE StepsLeft' = StepsLeft
  <2>1. UNCHANGED <<kind, stage, anchorVars, cold, final, clock, dog>>
    BY <1>7 DEF Firmware, ByKind, ColdFirmware, FinalFirmware, ClockFirmware,
       DogFirmware, coldVars, finalVars, clockVars, dogVars
  <2> QED
    BY <2>1 DEF StepsLeft, ObserverLeft, ColdLeft, FinalLeft, ClockLeft, DogLeft,
       AnchorLeft, anchorVars
<1>8. ASSUME Counter PROVE StepsLeft' = StepsLeft
  <2>1. UNCHANGED <<kind, stage, anchor, samples, cold, final, clock, dog>>
    BY <1>8 DEF Counter, AnchorFirmware, Micro, LinkDown, coldVars, finalVars,
       clockVars, dogVars
  <2> QED
    BY <2>1 DEF StepsLeft, ObserverLeft, ColdLeft, FinalLeft, ClockLeft, DogLeft,
       AnchorLeft
<1> QED
  BY <1>4, <1>5, <1>6, <1>7, <1>8 DEF Host

(* The host comes to its decision within Longest accesses, for every bound on
   polls, samples and attempts; that it keeps running is fairness.           *)
THEOREM DecisionIsBounded == Spec => DecisionBounded
<1>1. Inv /\ Counted =>
        Parts /\ (StepsLeft \in 0 .. Longest /\ (StepsLeft = 0 <=> stage \in Over))
  BY DecisionRange
<1>2. ASSUME Inv, Counted, Parts, Parts', [Next]_vars
      PROVE  [/\ Host => StepsLeft' < StepsLeft
              /\ Firmware \/ Counter => StepsLeft' = StepsLeft]_vars
  BY <1>2, DecisionNears
<1>3. Spec => []Parts
  BY <1>1, Invariance, CountedAlways, PTL
<1>4. Spec => [](StepsLeft \in 0 .. Longest /\ (StepsLeft = 0 <=> stage \in Over))
  BY <1>1, Invariance, CountedAlways, PTL
<1>5. Spec => [][/\ Host => StepsLeft' < StepsLeft
                 /\ Firmware \/ Counter => StepsLeft' = StepsLeft]_vars
  BY <1>2, <1>3, Invariance, CountedAlways, PTL DEF Spec
<1> QED
  BY <1>4, <1>5 DEF DecisionBounded


-----------------------------------------------------------------------------
(* The observation is a step of the boot path.                             *)

\* An observer at work, and firmware that runs, are nothing the boot path sees.
LEMMA ObservingIsQuiet ==
  ASSUME UNCHANGED <<kind, stage>>, stage = "observe"
  PROVE  UNCHANGED Boot!vars
  BY DEF Boot!vars, NetBuild, NetPost, NetPc, NetSeen

\* Nor are the samples of the anchor, which the admission has preceded.
LEMMA AnchorIsQuiet ==
  ASSUME UNCHANGED <<kind, coldVars>>, stage = "anchor", stage' \in {"anchor", "linux"}
  PROVE  UNCHANGED Boot!vars
  BY DEF Boot!vars, NetBuild, NetPost, NetPc, NetSeen, coldVars

\* The decision is the one the boot path expects of this build.
LEMMA DecisionMaps ==
  ASSUME kind \in Kinds, Decide
  PROVE  Boot!Observe
<1>1. /\ stage = "observe" /\ UNCHANGED <<kind, cold>>
      /\ stage' \in IF kind \notin {"linux", "proc1"} THEN {"halt"}
                    ELSE IF cold.ok THEN {"anchor", "linux"} ELSE {"fatal"}
  BY DEF Decide, coldVars
<1>2. NetBuild.post = NetPost
  BY DEF NetBuild
<1>3. UNCHANGED NetBuild
  BY <1>1 DEF NetBuild, NetPost
<1>4. NetPc = "observe"
  BY <1>1 DEF NetPc
<1>5. Boot!OnBar2
  <2>1. CASE kind \in {"linux", "proc1"} /\ cold.ok
    <3>1. NetPost = "scmi" /\ NetPost' = "scmi"
      BY <1>1, <2>1 DEF NetPost
    <3>2. NetSeen' = "admitted" /\ NetPc' = "patch"
      BY <1>1, <2>1, <3>1 DEF NetSeen, NetPc
    <3> QED
      BY <1>2, <3>1, <3>2 DEF Boot!OnBar2
  <2>2. CASE kind \in {"linux", "proc1"} /\ ~cold.ok
    <3>1. NetPost = "scmi" /\ NetPost' = "scmi"
      BY <1>1, <2>2 DEF NetPost
    <3>2. NetSeen' = "post" /\ NetPc' = "fatal"
      BY <1>1, <2>2, <3>1 DEF NetSeen, NetPc
    <3> QED
      BY <1>2, <3>1, <3>2 DEF Boot!OnBar2
  <2>3. CASE kind \notin {"linux", "proc1"}
    <3>1. NetPost \in {"proof", "record"} /\ NetPost' \in {"proof", "record"}
      BY <1>1, <2>3 DEF NetPost, Kinds, ColdKinds
    <3>2. NetSeen' = "post" /\ NetPc' = "halted"
      BY <1>1, <2>3, <3>1 DEF NetSeen, NetPc
    <3> QED
      BY <1>2, <3>1, <3>2 DEF Boot!OnBar2
  <2> QED
    BY <2>1, <2>2, <2>3
<1> QED
  BY <1>1, <1>3, <1>4, <1>5
  DEF Boot!Observe, Boot!PcieOk, Boot!req, Boot!out

\* What NetBoot leaves open in its observer the observers fill in as it says
\* (maybe_bootstrap_rp1_before_linux), for every bound on polls, samples and
\* attempts: an admission and Linux, or a refusal and the end of the boot.
THEOREM ObserverImplements == Spec => ImplementsObserver
<1>1. kind \in Kinds /\ [Next]_vars => [Boot!Observe]_(Boot!vars)
  <2> SUFFICES ASSUME kind \in Kinds, [Next]_vars
               PROVE  Boot!Observe \/ UNCHANGED Boot!vars
    OBVIOUS
  <2>1. CASE Observe \/ Firmware
    BY <2>1, ObservingIsQuiet DEF Observe, Firmware, ByKind
  <2>2. CASE Decide
    BY <2>2, DecisionMaps
  <2>3. CASE ReadAnchor \/ Counter
    BY <2>3, AnchorIsQuiet DEF ReadAnchor, Counter
  <2>4. CASE UNCHANGED vars
    BY <2>4 DEF vars, Boot!vars, NetBuild, NetPost, NetPc, NetSeen, coldVars
  <2> QED
    BY <2>1, <2>2, <2>3, <2>4 DEF Next, Host
<1>2. TypeOK => kind \in Kinds
  BY DEF TypeOK
<1> QED
  BY <1>1, <1>2, PostReloadTypes, PTL DEF Spec, ImplementsObserver
=============================================================================
