--------------------------- MODULE ClockIndependence ---------------------------
(***************************************************************************)
(* run_after_full_init (rp1_clock_independence.rs): the host waits until   *)
(* the firmware asks to go, writes GO, leaves the RP1 alone for 3.5 s,     *)
(* reads the record once, word by word, and judges it.  No record is ever  *)
(* locked, and one of an earlier boot, waiting or done, may still be there *)
(* with the sequence number this boot will use.  The firmware publishes    *)
(* the completion word last.  A 32-bit checksum may match by chance.       *)
(***************************************************************************)
EXTENDS Naturals

CONSTANT AckPolls   \* of wait_for_ack: 4000
ASSUME ClockAssumption == AckPolls \in Nat \ {0}

VARIABLES
  page,     \* the record: seq, ack, go, phase, done, and two words of the result
  proof,    \* the firmware's place
  clock     \* the host's place, the words it read and its verdict

clockVars == <<page, proof, clock>>

Numbers == {0, 1}     \* 0 and this firmware's sequence number
Phases == {"none", "wait", "busy", "done"}
Origins == {"old", "new"}

Retained ==
  { [seq |-> 0, ack |-> 0, go |-> 0, phase |-> "none", done |-> FALSE, p |-> "old", q |-> "old"],
    [seq |-> 1, ack |-> 1, go |-> 0, phase |-> "wait", done |-> FALSE, p |-> "old", q |-> "old"],
    [seq |-> 1, ack |-> 1, go |-> 1, phase |-> "done", done |-> TRUE, p |-> "old", q |-> "old"] }

ClockInit ==
  /\ page \in Retained
  /\ proof = "clear"
  /\ clock = [pc |-> "seq", poll |-> 1, seq |-> 0, ok |-> TRUE, p |-> "old", q |-> "old",
              result |-> "none"]

-----------------------------------------------------------------------------

ProofClear ==
  /\ proof = "clear"
  /\ page' = [page EXCEPT !.seq = 0, !.ack = 0, !.go = 0, !.phase = "none", !.done = FALSE]
  /\ proof' = "announce"

\* It takes the sequence number, acknowledges it, then says that it waits.
ProofAnnounce ==
  /\ proof = "announce"
  /\ page' = [page EXCEPT !.seq = 1]
  /\ proof' = "ack"

ProofAck ==
  /\ proof = "ack"
  /\ page' = [page EXCEPT !.ack = 1]
  /\ proof' = "wait"

ProofWait ==
  /\ proof = "wait"
  /\ page' = [page EXCEPT !.phase = "wait"]
  /\ proof' = "go"

ProofGo ==
  /\ proof = "go" /\ page.go = page.seq
  /\ page' = [page EXCEPT !.phase = "busy"]
  /\ proof' = "p"

ProofWord(word, from, to) ==
  /\ proof = from
  /\ page' = [page EXCEPT ![word] = "new"]
  /\ proof' = to

ProofPhase ==
  /\ proof = "phase"
  /\ page' = [page EXCEPT !.phase = "done"]
  /\ proof' = "complete"

ProofComplete ==
  /\ proof = "complete"
  /\ page' = [page EXCEPT !.done = TRUE]
  /\ proof' = "end"

ClockFirmware ==
  /\ clock.pc # "end"
  /\ \/ ProofClear \/ ProofAnnounce \/ ProofAck \/ ProofWait \/ ProofGo
     \/ ProofWord("p", "p", "q") \/ ProofWord("q", "q", "phase")
     \/ ProofPhase \/ ProofComplete
  /\ UNCHANGED clock

-----------------------------------------------------------------------------
(* wait_for_ack: seven words in index order, all of which must be right. *)

PollSeq ==
  /\ clock.pc = "seq"
  /\ clock' = [clock EXCEPT !.pc = "ack", !.seq = page.seq, !.ok = page.seq # 0]

PollWord(from, to, right) ==
  /\ clock.pc = from
  /\ clock' = [clock EXCEPT !.pc = to, !.ok = @ /\ right]

PollPhase ==
  /\ clock.pc = "phase"
  /\ clock' =
       IF clock.ok /\ page.phase = "wait" THEN [clock EXCEPT !.pc = "writego"]
       ELSE IF clock.poll = AckPolls THEN [clock EXCEPT !.pc = "end", !.result = "ack-timeout"]
       ELSE [clock EXCEPT !.pc = "seq", !.poll = @ + 1]

WaitForAck ==
  /\ \/ PollSeq
     \/ PollWord("ack", "go", page.ack = clock.seq) \/ PollWord("go", "phase", page.go = 0)
     \/ PollPhase
  /\ UNCHANGED page

WriteGo ==
  /\ clock.pc = "writego"
  /\ page' = [page EXCEPT !.go = clock.seq]
  /\ clock' = [clock EXCEPT !.pc = "header"]

\* Variant: the words that say that the run is over are not looked at.
AnyPhase == TRUE

RunComplete == page.phase = "done" /\ page.done

\* read_record_once, after the silence: the header words come first.
ReadHeader ==
  /\ clock.pc = "header"
  /\ clock' = [clock EXCEPT !.pc = "p",
       !.ok = page.seq = clock.seq /\ page.ack = clock.seq /\ page.go = clock.seq /\ RunComplete]

ReadWord(word, from, to) ==
  /\ clock.pc = from
  /\ clock' = [clock EXCEPT !.pc = to, ![word] = page[word]]

\* log_and_validate: a result may be good or bad, a torn one look good.
Validate ==
  /\ clock.pc = "validate"
  /\ \E good \in BOOLEAN :
       clock' = [clock EXCEPT !.pc = "end", !.result = IF clock.ok /\ good THEN "pass" ELSE "fail"]

ReadRecordOnce ==
  /\ ReadHeader \/ ReadWord("p", "p", "q") \/ ReadWord("q", "q", "validate") \/ Validate
  /\ UNCHANGED page

\* The BAR is missing or elsewhere.
BarRefused ==
  /\ clock.pc = "seq" /\ clock.poll = 1
  /\ clock' = [clock EXCEPT !.pc = "end", !.result = "fail"]
  /\ UNCHANGED page

ClockHost == (WaitForAck \/ WriteGo \/ ReadRecordOnce \/ BarRefused) /\ UNCHANGED proof

-----------------------------------------------------------------------------

ClockTypeOK ==
  /\ page \in [seq: Numbers, ack: Numbers, go: Numbers, phase: Phases, done: BOOLEAN,
               p: Origins, q: Origins]
  /\ proof \in {"clear", "announce", "ack", "wait", "go", "p", "q", "phase", "complete", "end"}
  /\ clock \in [pc: {"seq", "ack", "go", "phase", "writego", "header", "p", "q",
                     "validate", "end"},
                poll: 1 .. AckPolls, seq: Numbers, ok: BOOLEAN, p: Origins, q: Origins,
                result: {"none", "pass", "fail", "ack-timeout"}]

(* A pass is about this boot: every word judged was written by the run that
   the host's GO of this boot set off, and none was read while it ran.      *)
PassIsThisRun ==
  clock.result = "pass" => proof = "end" /\ clock.p = "new" /\ clock.q = "new"

=============================================================================
