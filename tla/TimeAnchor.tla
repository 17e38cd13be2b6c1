------------------------------ MODULE TimeAnchor ------------------------------
(***************************************************************************)
(* rp1_time_anchor.rs: the host reads a running 64-bit counter of the RP1  *)
(* over the link, high word, low word, high word, at most Tries times per  *)
(* sample, and keeps the samples; their validity is judged afterwards.     *)
(*                                                                         *)
(* The counter is a pair <<high, low>>, its low word below Radix.  Once    *)
(* the link is down every read returns all ones, and it stays down until   *)
(* the samples are taken.  The host's own clocks and a timer out of range  *)
(* are left out: their errors only make fewer samples valid.               *)
(***************************************************************************)
EXTENDS Naturals, Sequences

CONSTANTS
  Tries,    \* MAX_ATTEMPTS: 4
  Anchors,  \* SAMPLES: 16
  Radix,    \* 2^32
  High      \* all ones in the high word, which the counter never reaches

ASSUME AnchorAssumption ==
  /\ Tries \in Nat \ {0} /\ Anchors \in Nat \ {0}
  /\ Radix \in Nat \ {0} /\ High \in Nat \ {0}

VARIABLES
  counter,   \* the RP1's microsecond counter
  link,      \* the link is up
  anchor,    \* the host's place and the words of the sample being read
  samples    \* the samples taken; "at" is history: the counter at the low read

anchorVars == <<counter, link, anchor, samples>>

Words == (0 .. High) \X (0 .. Radix - 1)

AnchorInit ==
  /\ counter = <<0, 0>>
  /\ link = TRUE
  /\ anchor = [pc |-> "high", try |-> 1, before |-> 0, low |-> 0, at |-> <<0, 0>>]
  /\ samples = <<>>

-----------------------------------------------------------------------------

Micro ==
  /\ IF counter[2] + 1 < Radix
     THEN counter' = <<counter[1], counter[2] + 1>>
     ELSE counter[1] + 1 < High /\ counter' = <<counter[1] + 1, 0>>
  /\ UNCHANGED <<link, anchor, samples>>

LinkDown ==
  /\ link
  /\ link' = FALSE
  /\ UNCHANGED <<counter, anchor, samples>>

AnchorFirmware == anchor.pc # "end" /\ (Micro \/ LinkDown)

-----------------------------------------------------------------------------

HighWord == IF link THEN counter[1] ELSE High
LowWord == IF link THEN counter[2] ELSE Radix - 1

ReadHigh ==
  /\ anchor.pc = "high"
  /\ anchor' = [anchor EXCEPT !.pc = "low", !.before = HighWord]
  /\ UNCHANGED samples

ReadLow ==
  /\ anchor.pc = "low"
  /\ anchor' = [anchor EXCEPT !.pc = "again", !.low = LowWord, !.at = counter]
  /\ UNCHANGED samples

\* Equal high words, or the last try: this sample is taken as it is.
ReadHighAgain ==
  /\ anchor.pc = "again"
  /\ LET after == HighWord IN
     IF anchor.before = after \/ anchor.try = Tries
     THEN /\ samples' = Append(samples,
               [raw |-> <<anchor.before, anchor.low>>, after |-> after, at |-> anchor.at])
          /\ anchor' = [anchor EXCEPT !.try = 1,
               !.pc = IF Len(samples) + 1 = Anchors THEN "end" ELSE "high"]
     ELSE /\ anchor' = [anchor EXCEPT !.pc = "high", !.try = @ + 1]
          /\ UNCHANGED samples

AnchorHost == (ReadHigh \/ ReadLow \/ ReadHighAgain) /\ UNCHANGED <<counter, link>>

AnchorNext == AnchorHost \/ AnchorFirmware
AnchorSpec == AnchorInit /\ [][AnchorNext]_anchorVars

-----------------------------------------------------------------------------
(* Sample::error, in its order. *)

Less(a, b) == a[1] < b[1] \/ (a[1] = b[1] /\ a[2] < b[2])

\* Variant: the last try counts, equal high words or not.
AnyHigh(s) == s.raw # <<High, Radix - 1>>

\* error(None) = "none"
Sound(s) == s.raw[1] = s.after /\ s.raw # <<High, Radix - 1>>

\* error(previous) = "none"
Valid(i) ==
  /\ Sound(samples[i])
  /\ i = 1 \/ ~Sound(samples[i - 1]) \/ ~Less(samples[i].raw, samples[i - 1].raw)

-----------------------------------------------------------------------------

AnchorTypeOK ==
  /\ counter \in (0 .. High - 1) \X (0 .. Radix - 1)
  /\ link \in BOOLEAN
  /\ anchor \in [pc: {"high", "low", "again", "end"}, try: 1 .. Tries,
                 before: 0 .. High, low: 0 .. Radix - 1, at: Words]
  /\ samples \in Seq([raw: Words, after: 0 .. High, at: Words])

(* A sample judged valid is what the counter was when its low word was read:
   a carry between the reads, or a link lost between them, never yields a
   valid sample of a moment that was not.                                   *)
AnchorIsExact == \A i \in DOMAIN samples : Valid(i) => samples[i].raw = samples[i].at

=============================================================================
