---------------------------- MODULE Rp1Bootstrap ----------------------------
(***************************************************************************)
(* The reload of the RP1 over its I2C boot port, write by write: the RUN   *)
(* pin, the reset-clear write with its retries, the chip-id probe, the     *)
(* image in chunks, the three scratch words, the control and command       *)
(* words that release proc0.  A write the driver reports as failed may     *)
(* have landed in part or whole, and as nothing stops the controller, the  *)
(* rest of it may land until the next write begins (I2cWrite).             *)
(***************************************************************************)
EXTENDS Naturals

CONSTANTS
    PayloadLen,     \* bytes of image.payload
    ChunkSize,      \* RP1_CHUNK_SIZE
    ClearTries,     \* attempts at the reset-clear write
    ProbeTries      \* attempts at the chip-id probe

ASSUME SizesAssumption ==
    {PayloadLen, ChunkSize, ClearTries, ProbeTries} \subseteq Nat \ {0}

Payload == 0..(PayloadLen - 1)
ScratchWords == {"magic", "entry", "stack"}
Words == ScratchWords \cup {"ctrl"}

VARIABLES
    build,      \* [gdb, cont]: rp1-gdb-debug-stub, continue after a failure
    pc,         \* the next call, or how the reload returned
    off,        \* load_image's offset
    tries,      \* failed attempts of the current retry loop
    mem,        \* SRAM at the load address: byte by byte "old" or "new"
    reg,        \* the boot words: "old" or "new"
    proc,       \* "factory", "held", "bootrom" or "started"
    owed        \* what of the last write, given up, the controller still holds

vars == <<build, pc, off, tries, mem, reg, proc, owed>>

Nothing == [mem |-> {}, reg |-> {}, command |-> FALSE]

ResetPhase   == {"low", "high", "clear", "probe"}
ScratchPhase == ScratchWords
StartPhase   == {"ctrl", "command"}

\* "ok": the caller goes on after the start.  "skipped": it goes on without
\* a load.  "fatal": handle_rp1_bootstrap_failure returned the error.
Returned == {"ok", "skipped", "fatal"}

TypeOK ==
    /\ build \in [gdb : BOOLEAN, cont : BOOLEAN]
    /\ pc \in ResetPhase \cup {"load"} \cup ScratchPhase \cup StartPhase
              \cup Returned
    /\ off \in 0..PayloadLen
    /\ tries \in 0..(IF pc = "clear" THEN ClearTries - 1
                    ELSE IF pc = "probe" THEN ProbeTries - 1 ELSE 0)
    /\ mem \in [Payload -> {"old", "new"}]
    /\ reg \in [Words -> {"old", "new"}]
    /\ proc \in {"factory", "held", "bootrom", "started"}
    /\ owed \in [mem : SUBSET Payload, reg : SUBSET Words, command : BOOLEAN]

Init ==
    /\ build \in [gdb : BOOLEAN, cont : BOOLEAN]
    /\ pc = "low"
    /\ off = 0
    /\ tries = 0
    /\ mem = [i \in Payload |-> "old"]
    /\ reg = [w \in Words |-> "old"]
    /\ proc = "factory"
    /\ owed = Nothing

-----------------------------------------------------------------------------
(* reset_into_bootrom                                                      *)

RunLow ==
    /\ pc = "low"
    /\ proc' = "held"
    /\ mem' = [i \in Payload |-> "old"]
    /\ reg' = [w \in Words |-> "old"]
    /\ pc' = "high"
    /\ UNCHANGED <<build, off, tries, owed>>

RunHigh ==
    /\ pc = "high"
    /\ proc' = "bootrom"
    /\ pc' = "clear"
    /\ UNCHANGED <<build, off, tries, mem, reg, owed>>

\* Variant: the attempts of one loop are not reset for the next.
KeptTries(n) == n

\* Each loop counts its own attempts.
FreshTries(n) == 0


\* One attempt of a retry loop; the last failure returns the error.  What of
\* these calls lands late changes nothing that is modelled.
Attempt(here, limit, next) ==
    /\ pc = here
    /\ \/ tries' = FreshTries(tries) /\ pc' = next
       \/ tries + 1 < limit /\ tries' = tries + 1 /\ UNCHANGED pc
       \/ /\ tries + 1 >= limit
          /\ tries' = 0
          /\ pc' = IF build.cont THEN "skipped" ELSE "fatal"
    /\ UNCHANGED <<build, off, mem, reg, proc, owed>>

ClearResets == Attempt("clear", ClearTries, "probe")
ProbeChipId == Attempt("probe", ProbeTries, "load")

-----------------------------------------------------------------------------
(* The phases after it.                                                    *)

\* Variant: an error is logged, and the next phase follows in every build.
NextPhase(next) == pc' = next

\* Variant: a debug build gives up after the first phase that fails, too.
FirstErrorOnly(next) == pc' = IF build.cont THEN "ok" ELSE "fatal"

\* A debug build handles each phase's failure and runs the next one;
\* load_and_start returns at the first failure.
OnError(next) ==
    pc' = IF ~build.cont THEN "fatal" ELSE IF build.gdb THEN next ELSE "ok"

\* Variant: C_CLEAR left out of the start of a write.
KeptOwed(o) == o

\* A write begins with C_CLEAR: what an earlier one still owed is gone.
ClearOwed(o) == Nothing

\* The bytes from offset o to o + n of the payload.
Part(o, n) == {i \in Payload : o <= i /\ i < o + n}

\* They land in SRAM.
Landed(o, n) == [i \in Payload |-> IF i \in Part(o, n) THEN "new" ELSE mem[i]]

\* What is left, at most one chunk.
NextChunk(o) ==
    IF PayloadLen - o < ChunkSize THEN PayloadLen - o ELSE ChunkSize

\* One write_mem of load_image; the first failure ends the load.
LoadChunk ==
    /\ pc = "load"
    /\ LET n == NextChunk(off)
       IN  \/ /\ mem' = Landed(off, n)
              /\ off' = off + n
              /\ pc' = IF off' < PayloadLen THEN "load" ELSE "magic"
              /\ owed' = ClearOwed(owed)
           \/ /\ \E k \in 0..n :
                    /\ mem' = Landed(off, k)
                    /\ owed' = [ClearOwed(owed) EXCEPT
                                   !.mem = @ \cup Part(off + k, n - k)]
              /\ OnError("magic")
              /\ UNCHANGED off
    /\ UNCHANGED <<build, tries, reg, proc>>

WriteWord(w, next, phase) ==
    /\ pc = w
    /\ \/ /\ reg' = [reg EXCEPT ![w] = "new"]
          /\ owed' = ClearOwed(owed)
          /\ pc' = next \/ OnError(phase)
       \/ /\ owed' = [ClearOwed(owed) EXCEPT !.reg = @ \cup {w}]
          /\ OnError(phase)
          /\ UNCHANGED reg
    /\ UNCHANGED <<build, off, tries, mem, proc>>

ProgramScratch ==
    \/ WriteWord("magic", "entry", "ctrl")
    \/ WriteWord("entry", "stack", "ctrl")
    \/ WriteWord("stack", "ctrl", "ctrl")

\* start(): the control word, then the command that releases proc0.
WriteCtrl == WriteWord("ctrl", "command", "ok")

\* Variant: an error of the command write sends start() back to the load.
LoadAgain ==
    /\ pc = "command"
    /\ proc' = "started"
    /\ pc' \in {"ok", "load"}
    /\ off' = 0
    /\ UNCHANGED <<build, tries, mem, reg, owed>>

WriteCommand ==
    /\ pc = "command"
    /\ \/ /\ proc' = "started"
          /\ owed' = ClearOwed(owed)
          /\ pc' = "ok" \/ OnError("ok")
       \/ /\ owed' = [ClearOwed(owed) EXCEPT !.command = TRUE]
          /\ OnError("ok")
          /\ UNCHANGED proc
    /\ UNCHANGED <<build, off, tries, mem, reg>>

\* The controller lands a byte, a word or the command of a write that was given
\* up (external); the bytes of a chunk in order.
LateLanding ==
    /\ \/ \E i \in owed.mem :
             /\ \A j \in owed.mem : i <= j
             /\ mem' = [mem EXCEPT ![i] = "new"]
             /\ owed' = [owed EXCEPT !.mem = @ \ {i}]
             /\ UNCHANGED <<reg, proc>>
       \/ \E w \in owed.reg :
             /\ reg' = [reg EXCEPT ![w] = "new"]
             /\ owed' = [owed EXCEPT !.reg = @ \ {w}]
             /\ UNCHANGED <<mem, proc>>
       \/ /\ owed.command
          /\ proc' = "started"
          /\ owed' = [owed EXCEPT !.command = FALSE]
          /\ UNCHANGED <<mem, reg>>
    /\ UNCHANGED <<build, pc, off, tries>>

Finished == pc \in Returned /\ UNCHANGED vars

Step ==
    \/ RunLow \/ RunHigh \/ ClearResets \/ ProbeChipId \/ LoadChunk
    \/ ProgramScratch \/ WriteCtrl \/ WriteCommand

Next == Step \/ LateLanding \/ Finished

\* The loader is alone on the core; every I2C call returns.  Nothing makes the
\* controller land what is left.
Spec == Init /\ [][Next]_vars /\ WF_vars(Step)

-----------------------------------------------------------------------------
Whole == \A i \in Payload : mem[i] = "new"
ScratchSet == \A w \in ScratchWords : reg[w] = "new"

\* proc0 is released on every byte of the image and on all three scratch
\* words, for any length of the last chunk and also by a command that lands
\* after its write was given up; only a debug build told to
\* continue after a failure may release it on less.
StartsWhole ==
    proc = "started" =>
        (Whole /\ ScratchSet) \/ (build.gdb /\ build.cont)

\* No write of the loader reaches the image or a boot word of a running proc0,
\* whatever failed before and whatever the build; nor does the rest of a write
\* that was given up, which the controller may land at any later time.
HandsOffProc0 ==
    [][proc = "started" => UNCHANGED <<mem, reg>>]_vars

\* The reload returns, after at most ClearTries and ProbeTries attempts.
Returns == <>(pc \in Returned)

-----------------------------------------------------------------------------
(* Every write of the reload is a part of one step of NetBoot's reload, or *)
(* a stutter of it: NetBoot sees the RP1 change at the end of each phase,  *)
(* and by what lands after it.                                             *)

BeforeReset == pc \in ResetPhase
Loading == BeforeReset \/ pc = "load"

NetBuild ==
    [tftp |-> TRUE, skip |-> FALSE, cont |-> build.cont, initrd |-> FALSE,
     post |-> IF build.gdb THEN "serve" ELSE "none"]

NetPc ==
    CASE pc \in ResetPhase -> "reset"
      [] pc \in ScratchPhase -> "scratch"
      [] pc \in StartPhase -> "start"
      [] pc = "ok" -> IF build.gdb THEN "observe" ELSE "repcie"
      [] pc = "skipped" -> "repcie"
      [] pc \in {"load", "fatal"} -> pc

NetRp1 ==
    [proc |-> IF BeforeReset THEN "factory"
              ELSE IF proc = "started" THEN "started" ELSE "bootrom",
     image |-> IF Loading \/ \A i \in Payload : mem[i] = "old" THEN "none"
               ELSE IF Whole THEN "whole" ELSE "partial",
     scratch |-> IF pc \notin ScratchPhase /\ ScratchSet THEN "set" ELSE "unset",
     owed |-> IF owed.command THEN "command"
              ELSE IF owed.reg \cap ScratchWords # {} THEN "scratch"
              ELSE IF owed.mem # {} THEN "image" ELSE "none"]

NetBuilds ==
    [tftp : {TRUE}, skip : {FALSE}, cont : BOOLEAN, initrd : {FALSE},
     post : {"serve", "none"}]

Boot == INSTANCE NetBoot WITH
    Builds <- NetBuilds, FirstPort <- 1, LastPort <- 7,
    build <- NetBuild, pc <- NetPc, rp1 <- NetRp1,
    link <- IF BeforeReset THEN "up" ELSE "down",
    gem <- "released", port <- 1, rrqs <- <<>>, art <- <<>>,
    policy <- "note", tree <- FALSE, coherent <- FALSE,
    seen <- "none", attempt <- 0

\* The write-level reload implements the reload of the boot path.
ImplementsReload ==
    [][\/ Boot!ResetIntoBootrom \/ Boot!LoadImage
       \/ Boot!ProgramScratch \/ Boot!StartProc0 \/ Boot!LateLanding]_(Boot!vars)
=============================================================================
