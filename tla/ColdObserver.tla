----------------------------- MODULE ColdObserver -----------------------------
(***************************************************************************)
(* Rp1PcieTransport::log_rtos_samples of the sealed builds                 *)
(* (rp1_debug_stub.rs) with the admission it feeds                         *)
(* (scmi_linux_admission.rs and its siblings for the service and proc1     *)
(* builds, which differ in the words they expect).  The firmware has just  *)
(* been started; the host decides, by reading alone, whether it is healthy *)
(* and has served no SCMI request.  A no is remembered, the samples go on. *)
(*                                                                         *)
(* The RTOS record is swept without a lock, so its head and its counters   *)
(* are seen at different moments.  The SCMI record is under a sequence     *)
(* counter.  A host action is one access, or several no one can tell       *)
(* apart.                                                                  *)
(***************************************************************************)
EXTENDS Naturals

CONSTANTS
  ColdPolls,  \* of wait_scmi_cold_ready: 100
  Samples,    \* 31
  Light,      \* samples before this one are judged lightly: 3
  Attempts,   \* of log_scmi_cold_sample: 4
  MaxSeq      \* bound on the SCMI sequence counter

ASSUME ColdAssumption ==
  /\ ColdPolls \in Nat \ {0} /\ Attempts \in Nat \ {0}
  /\ Samples \in Nat \ {0} /\ Light \in 0 .. Samples - 1
  /\ MaxSeq \in Nat

VARIABLES
  kind,     \* the build: "cold", "linux" or "proc1" run this observer
  scmi,     \* the SCMI record: its counter, and whether two other words are as expected
  rtos,     \* the RTOS record: phase, and whether its counters moved since last read
  cold,     \* the host's place, locals and scmi_admitted
  wrong     \* history: a look of an observation still good so far found a fault

coldVars == <<scmi, rtos, cold, wrong>>

ColdKinds == {"cold", "linux", "proc1"}

ColdInit ==
  /\ scmi = [seq |-> 0, p |-> FALSE, q |-> FALSE]
  /\ rtos = [phase |-> "boot", moved |-> FALSE]
  /\ cold = [pc |-> "ready", poll |-> 1, n |-> 0, try |-> 1, ok |-> TRUE,
             seq |-> 0, good |-> TRUE, whole |-> FALSE]
  /\ wrong = FALSE

-----------------------------------------------------------------------------
(* The firmware: it starts, runs, may fault, and writes versions of its SCMI
   record, the counter odd while words change: a version is a request served. *)

FwStart ==
  /\ rtos.phase = "boot"
  /\ rtos' = [rtos EXCEPT !.phase = "run"]
  /\ UNCHANGED <<scmi, wrong>>

FwMove ==
  /\ rtos.phase = "run" /\ ~rtos.moved
  /\ rtos' = [rtos EXCEPT !.moved = TRUE]
  /\ UNCHANGED <<scmi, wrong>>

FwFault ==
  /\ rtos.phase = "run"
  /\ rtos' = [rtos EXCEPT !.phase = "fault"]
  /\ UNCHANGED <<scmi, wrong>>

FwBegin ==
  /\ rtos.phase = "run" /\ scmi.seq % 2 = 0 /\ scmi.seq < MaxSeq
  /\ scmi' = [scmi EXCEPT !.seq = @ + 1]
  /\ wrong' = (wrong \/ (cold.ok /\ cold.n \in 1 .. Samples - 1))
  /\ UNCHANGED rtos

FwWord ==
  /\ rtos.phase = "run" /\ scmi.seq % 2 = 1
  /\ \E w \in BOOLEAN :
       scmi' \in {[scmi EXCEPT !.p = w], [scmi EXCEPT !.q = w]}
  /\ UNCHANGED <<rtos, wrong>>

FwEnd ==
  /\ rtos.phase = "run" /\ scmi.seq % 2 = 1
  /\ scmi' = [scmi EXCEPT !.seq = @ + 1]
  /\ UNCHANGED <<rtos, wrong>>

ColdFirmware ==
  /\ cold.pc # "end"
  /\ FwStart \/ FwMove \/ FwFault \/ FwBegin \/ FwWord \/ FwEnd
  /\ UNCHANGED cold

-----------------------------------------------------------------------------
(* The host. *)

At(place) == cold.pc = place

\* What this look found is kept as long as the observation is a good one.
Found(fault) == wrong' = (cold'.ok /\ (wrong \/ fault))

\* Variant: the last look decides.
LastLook(ok, good) == good

\* scmi_admitted &= ..., and a sample's no stays the admission's.
EveryLook(ok, good) == ok /\ good

\* wait_scmi_cold_ready: the sequence, the other words, the sequence again.
ReadReadySeq ==
  /\ At("ready")
  /\ cold' = [cold EXCEPT !.pc = "readywords", !.seq = scmi.seq]
  /\ Found(FALSE)

ReadReadyWords ==
  /\ At("readywords")
  /\ cold' = [cold EXCEPT !.pc = "readyagain",
                          !.good = cold.seq = 2 /\ rtos.phase = "run" /\ rtos.moved]
  /\ Found(FALSE)

ReadReadyAgain ==
  /\ At("readyagain")
  /\ LET ready == cold.good /\ scmi.seq = cold.seq
         over == ready \/ cold.poll = ColdPolls
     IN cold' = [cold EXCEPT
          !.pc = IF over THEN "clocks" ELSE "ready",
          !.poll = IF over THEN 1 ELSE @ + 1,
          !.ok = ready \/ ~over, !.good = TRUE, !.seq = 0]
  /\ Found(FALSE)

\* log_rp1_clock_host_alias_snapshot: known, and the same when read again?
ReadClocks(from, to) ==
  /\ At(from)
  /\ \E known \in BOOLEAN :
       /\ cold' = [cold EXCEPT !.pc = to, !.ok = EveryLook(@, known)]
       /\ Found(~known)

\* The head of the sweep, with the fault words; the cold build only logs it.
ReadHead ==
  /\ At("head")
  /\ cold' = [cold EXCEPT !.pc = "counters", !.good = kind = "cold" \/
       IF cold.n < Light THEN rtos.phase # "fault" ELSE rtos.phase = "run"]
  /\ Found(kind # "cold" /\ rtos.phase = "fault")

\* The counters, later in the sweep; the admission judges the sample.
ReadCounters ==
  /\ At("counters")
  /\ LET moving == kind = "cold" \/ cold.n <= Light \/ rtos.moved IN
     cold' = [cold EXCEPT !.ok = EveryLook(@, cold.good /\ moving), !.good = TRUE,
                          !.pc = IF kind = "proc1" THEN "held" ELSE "before"]
  /\ rtos' = [rtos EXCEPT !.moved = FALSE]
  /\ Found(FALSE)

\* AmpProc1Admission::sample: is proc1 held, its status block untouched?
ReadHeld ==
  /\ At("held")
  /\ \E held \in BOOLEAN :
       /\ cold' = [cold EXCEPT !.pc = "before", !.ok = EveryLook(@, held)]
       /\ Found(~held)

NextSample(good) ==
  [cold EXCEPT !.ok = EveryLook(@, good), !.n = @ + 1, !.try = 1,
               !.seq = 0, !.good = TRUE, !.whole = FALSE,
               !.pc = IF cold.n + 1 = Samples THEN "complete" ELSE "head"]

\* Variant: an odd counter is waited out.
UntilStable ==
  [cold EXCEPT !.pc = "before", !.seq = 0, !.good = TRUE, !.whole = FALSE]

NextTry ==
  IF cold.try = Attempts THEN NextSample(FALSE)
  ELSE [cold EXCEPT !.try = @ + 1, !.pc = "before",
                    !.seq = 0, !.good = TRUE, !.whole = FALSE]

ReadBefore ==
  /\ At("before")
  /\ cold' = IF scmi.seq % 2 = 1 THEN NextTry
             ELSE [cold EXCEPT !.seq = scmi.seq, !.pc = "p"]
  /\ Found(FALSE)

\* The 27 words, of which the counter is one, in index order.
ReadP ==
  /\ At("p")
  /\ cold' = IF scmi.seq # cold.seq THEN [cold EXCEPT !.pc = "moved"]
             ELSE [cold EXCEPT !.good = scmi.p, !.whole = scmi.p /\ scmi.q, !.pc = "q"]
  /\ Found(FALSE)

\* words[2] differs from the counter read before: whatever the rest is.
CounterMoved ==
  /\ At("moved")
  /\ cold' = NextTry
  /\ Found(FALSE)

ReadQ ==
  /\ At("q")
  /\ cold' = [cold EXCEPT !.good = @ /\ scmi.q, !.pc = "after"]
  /\ Found(FALSE)

\* Variant: the counter is not read again after the words.
TrustsBefore(after) == TRUE

Stable(after) == after = cold.seq

ReadAfter ==
  /\ At("after")
  /\ LET taken == cold.seq = 2 /\ cold.good IN
     /\ cold' = IF Stable(scmi.seq) THEN NextSample(taken) ELSE NextTry
     /\ Found(Stable(scmi.seq) /\ taken /\ ~cold.whole)

\* complete(): are the ticks in step with the clock?
Complete ==
  /\ At("complete")
  /\ \E instep \in BOOLEAN :
       cold' = [cold EXCEPT !.pc = "clocksafter",
                            !.ok = EveryLook(@, kind = "cold" \/ instep)]
  /\ Found(FALSE)

ColdHost ==
  /\ \/ ReadReadySeq \/ ReadReadyWords \/ ReadReadyAgain
     \/ ReadClocks("clocks", "head") \/ ReadHead \/ ReadHeld
     \/ ReadBefore \/ ReadP \/ CounterMoved \/ ReadQ \/ ReadAfter
     \/ Complete \/ ReadClocks("clocksafter", "end")
  /\ UNCHANGED <<scmi, rtos>>

ColdStep == ColdHost \/ (ReadCounters /\ UNCHANGED scmi)

-----------------------------------------------------------------------------

ColdLocals ==
  [pc: {"ready", "readywords", "readyagain", "clocks", "head", "counters", "held",
        "before", "p", "moved", "q", "after", "complete", "clocksafter", "end"},
   poll: 1 .. ColdPolls, n: 0 .. Samples, try: 1 .. Attempts, ok: BOOLEAN,
   seq: 0 .. MaxSeq + 1, good: BOOLEAN, whole: BOOLEAN]

ColdTypeOK ==
  /\ scmi \in [seq: 0 .. MaxSeq + 1, p: BOOLEAN, q: BOOLEAN]
  /\ rtos \in [phase: {"boot", "run", "fault"}, moved: BOOLEAN]
  /\ cold \in ColdLocals
  /\ wrong \in BOOLEAN

(* Firmware is admitted only if nothing was wrong at any look: every sample
   of the SCMI record was whole in memory, no request was served between the
   first sample and the last, no fault was up at the head of a sample the
   build judges, proc1 was held and the clocks were known each time.         *)
AdmissionIsEarned == cold.pc = "end" /\ cold.ok => ~wrong

=============================================================================
