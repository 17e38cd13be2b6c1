------------------------------ MODULE PostReload ------------------------------
(***************************************************************************)
(* What the bootloader does with RP1 firmware it has just reloaded, by     *)
(* build (main.rs, maybe_bootstrap_rp1_before_linux): the cold, final,     *)
(* clock and watchdog builds observe it and halt; the linux and proc1      *)
(* builds start Linux if the firmware is admitted, reading the time anchor *)
(* first when they are built to, and otherwise fail the boot.  The build   *)
(* that runs the inbound monitor here is module InboundMonitor.  The host  *)
(* and the firmware run concurrently and share nothing but RP1 memory.     *)
(***************************************************************************)
EXTENDS ColdObserver, TimeAnchor, FinalRecord, ClockIndependence, WatchdogQuiescence

VARIABLE stage   \* of the boot

vars == <<kind, stage, coldVars, anchorVars, finalVars, clockVars, dogVars>>

Kinds == ColdKinds \cup {"final", "clock", "watchdog"}
Over == {"linux", "fatal", "halt"}

Init ==
  /\ kind \in Kinds
  /\ stage = "observe"
  /\ ColdInit /\ AnchorInit
  /\ FinalInit /\ (kind # "final" => record = Blank)
  /\ ClockInit /\ (kind # "clock" => page.phase = "none")
  /\ DogInit /\ (kind # "watchdog" => receipt.state = "none" /\ receipt.p = "none")

-----------------------------------------------------------------------------

\* One observer is built in; the others' variables stand still.
ByKind(coldstep, finalstep, clockstep, dogstep) ==
  /\ \/ kind \in ColdKinds /\ coldstep /\ UNCHANGED <<finalVars, clockVars, dogVars>>
     \/ kind = "final" /\ finalstep /\ UNCHANGED <<coldVars, clockVars, dogVars>>
     \/ kind = "clock" /\ clockstep /\ UNCHANGED <<coldVars, finalVars, dogVars>>
     \/ kind = "watchdog" /\ dogstep /\ UNCHANGED <<coldVars, finalVars, clockVars>>
  /\ UNCHANGED <<kind, stage, anchorVars>>

Observe ==
  /\ stage = "observe"
  /\ ByKind(ColdStep, FinalHost, ClockHost, DogHost)

Firmware ==
  /\ stage = "observe"
  /\ ByKind(ColdFirmware, FinalFirmware, ClockFirmware, DogFirmware)

Observed ==
  CASE kind \in ColdKinds -> cold.pc = "end" [] kind = "final" -> final.pc = "end"
    [] kind = "clock" -> clock.pc = "end" [] kind = "watchdog" -> dog.pc = "end"

\* Variant: a refused admission is reported, and the boot goes on.
DecideAnyway ==
  /\ stage = "observe" /\ Observed
  /\ stage' \in IF kind \notin {"linux", "proc1"} THEN {"halt"} ELSE {"anchor", "linux"}
  /\ UNCHANGED <<kind, coldVars, anchorVars, finalVars, clockVars, dogVars>>

\* Whether the anchor is read is part of the build, and asked only here.
Decide ==
  /\ stage = "observe" /\ Observed
  /\ stage' \in IF kind \notin {"linux", "proc1"} THEN {"halt"}
                ELSE IF cold.ok THEN {"anchor", "linux"} ELSE {"fatal"}
  /\ UNCHANGED <<kind, coldVars, anchorVars, finalVars, clockVars, dogVars>>

ReadAnchor ==
  /\ stage = "anchor"
  /\ IF anchor.pc = "end" THEN stage' = "linux" /\ UNCHANGED anchorVars
     ELSE AnchorHost /\ UNCHANGED stage
  /\ UNCHANGED <<kind, coldVars, finalVars, clockVars, dogVars>>

Counter ==
  /\ stage = "anchor" /\ AnchorFirmware
  /\ UNCHANGED <<kind, stage, coldVars, finalVars, clockVars, dogVars>>

Host == Observe \/ Decide \/ ReadAnchor
Next == Host \/ Firmware \/ Counter

(* Only the host keeps running: firmware and link may stop anywhere. *)
Spec == Init /\ [][Next]_vars /\ WF_vars(Host)

-----------------------------------------------------------------------------

TypeOK ==
  /\ kind \in Kinds /\ stage \in Over \cup {"observe", "anchor"}
  /\ ColdTypeOK /\ AnchorTypeOK /\ FinalTypeOK /\ ClockTypeOK /\ DogTypeOK

(* Whatever the host reports of memory that the firmware writes meanwhile is
   of one boot and one moment: the final record it accepts, the clock proof it
   passes, and each time sample it calls valid.                               *)
VerdictIsWhole == FinalIsWhole /\ PassIsThisRun /\ AnchorIsExact

(* Whatever the firmware does, and wherever it stops, the host comes to a
   decision: no record can keep it reading for ever.                        *)
Ends == <>(stage \in Over)

-----------------------------------------------------------------------------
(* The observation is one attempt of NetBoot's post-reload phase that      *)
(* reached the shared SRAM: NetBoot sees it at once, with the decision.    *)

NetPost ==
  CASE kind \in {"linux", "proc1"} -> "scmi"
    [] kind = "final" -> "record"
    [] kind \in {"cold", "clock", "watchdog"} -> "proof"

NetBuild ==
  [tftp |-> TRUE, skip |-> FALSE, cont |-> FALSE, initrd |-> TRUE, post |-> NetPost]

NetBuilds ==
  [tftp : {TRUE}, skip : {FALSE}, cont : {FALSE}, initrd : {TRUE},
   post : {"scmi", "record", "proof"}]

NetPc ==
  CASE stage \in {"observe", "fatal"} -> stage
    [] stage \in {"anchor", "linux"} -> "patch"
    [] stage = "halt" -> "halted"

NetSeen ==
  IF stage = "observe" THEN "pre"
  ELSE IF NetPost = "scmi" /\ cold.ok THEN "admitted" ELSE "post"

Boot == INSTANCE NetBoot WITH
  Builds <- NetBuilds, FirstPort <- 1, LastPort <- 7,
  build <- NetBuild, pc <- NetPc, seen <- NetSeen,
  link <- IF stage = "observe" THEN "down" ELSE "up",
  attempt <- IF stage = "observe" THEN 0 ELSE 1,
  rp1 <- [proc |-> "started", image |-> "whole", scratch |-> "set",
          owed |-> "none"],
  gem <- "released", port <- 1, rrqs <- <<>>, art <- <<>>,
  policy <- "note", tree <- FALSE, coherent <- TRUE

(* What the boot path takes for granted of its observer is what the observers
   do, access by access: Linux only after an admission, a refusal is fatal, the
   proofs halt, and nothing the firmware does is a step of the boot.         *)
ImplementsObserver == [][Boot!Observe]_(Boot!vars)

=============================================================================
