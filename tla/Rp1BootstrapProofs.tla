------------------------- MODULE Rp1BootstrapProofs -------------------------
(* The reload over I2C, for an image and a chunk of any size and any       *)
(* number of attempts: type correctness, that proc0 is only released on    *)
(* everything it needs, and that the loader keeps its hands off it then.   *)
EXTENDS Rp1Bootstrap, TLAPS

\* The build whose phases follow one another in spite of errors.
Reckless == build.gdb /\ build.cont

AfterLoad  == ScratchPhase \cup StartPhase
AfterMagic == {"entry", "stack"} \cup StartPhase

\* What the controller may still hold: a part of the write that failed last,
\* and none of it once proc0 runs.
OwedInv ==
    /\ pc \in ResetPhase \cup {"load"} => owed = Nothing
    /\ pc \in ScratchPhase => owed.reg = {}
    /\ \A v, w \in owed.reg : v = w
    /\ owed.mem = {} \/ owed.reg = {}
    /\ owed.command \/ proc = "started" => owed.mem = {} /\ owed.reg = {}
    /\ owed.command => pc \in {"ok", "fatal"}
    /\ owed.command /\ ~Reckless => Whole /\ ScratchSet

\* What each place of the reload may rely on.
ReloadInv ==
    /\ TypeOK
    /\ OwedInv
    /\ pc = "load" => off < PayloadLen
    /\ pc \in ResetPhase => off = 0
    /\ proc = "started" => pc \in {"ok", "fatal"}
    /\ pc \in {"load"} \cup AfterLoad =>
           \A i \in Payload : i < off => mem[i] = "new"
    /\ ~Reckless =>
        /\ pc \in AfterLoad => Whole
        /\ pc \in AfterMagic => reg["magic"] = "new"
        /\ pc \in {"stack"} \cup StartPhase => reg["entry"] = "new"
        /\ pc \in StartPhase => reg["stack"] = "new"
        /\ proc = "started" => Whole /\ ScratchSet

-----------------------------------------------------------------------------
\* A chunk ends inside the payload and is never empty.
LEMMA ChunkFits ==
    ASSUME NEW o \in 0..PayloadLen, o < PayloadLen
    PROVE  /\ NextChunk(o) \in Nat \ {0}
           /\ o + NextChunk(o) \in 0..PayloadLen
  BY SizesAssumption DEF NextChunk

\* Bytes that landed stay, and a chunk adds its own.
LEMMA LandedBytes ==
    ASSUME TypeOK, NEW o \in Nat, NEW k \in Nat
    PROVE  /\ Landed(o, k) \in [Payload -> {"old", "new"}]
           /\ \A i \in Payload : mem[i] = "new" => Landed(o, k)[i] = "new"
           /\ (\A i \in Payload : i < o => mem[i] = "new")
              => \A i \in Payload : i < o + k => Landed(o, k)[i] = "new"
  BY DEF Landed, Part, TypeOK, Payload

\* What a write leaves owed, by what it was writing and whether it failed.
LEMMA OwedAfter ==
    /\ /\ ClearOwed(owed).mem = {} /\ ClearOwed(owed).reg = {}
       /\ ClearOwed(owed).command = FALSE
       /\ ClearOwed(owed) \in [mem : SUBSET Payload, reg : SUBSET Words, command : BOOLEAN]
    /\ LET o == [ClearOwed(owed) EXCEPT !.command = TRUE]
       IN  /\ o.mem = {} /\ o.reg = {} /\ o.command = TRUE
           /\ o \in [mem : SUBSET Payload, reg : SUBSET Words, command : BOOLEAN]
    /\ \A S \in SUBSET Payload :
         LET o == [ClearOwed(owed) EXCEPT !.mem = @ \cup S]
         IN  /\ o.mem = S /\ o.reg = {} /\ o.command = FALSE
             /\ o \in [mem : SUBSET Payload, reg : SUBSET Words, command : BOOLEAN]
    /\ \A w \in Words :
         LET o == [ClearOwed(owed) EXCEPT !.reg = @ \cup {w}]
         IN  /\ o.mem = {} /\ o.reg = {w} /\ o.command = FALSE
             /\ o \in [mem : SUBSET Payload, reg : SUBSET Words, command : BOOLEAN]
  BY DEF ClearOwed, Nothing

\* The reload starts in its invariant.
LEMMA ReloadInit == Init => ReloadInv
  BY SizesAssumption DEF Init, ReloadInv, OwedInv, Nothing, TypeOK, ResetPhase, AfterLoad,
     AfterMagic, ScratchPhase, ScratchWords, StartPhase, Words, Payload

\* One attempt of a retry loop keeps the invariant.
LEMMA AttemptKeeps ==
    ASSUME ReloadInv,
           \/ Attempt("clear", ClearTries, "probe")
           \/ Attempt("probe", ProbeTries, "load")
    PROVE  ReloadInv'
<1>1. CASE Attempt("clear", ClearTries, "probe")
  BY <1>1, SizesAssumption DEF ReloadInv, OwedInv, Nothing, TypeOK, Attempt, FreshTries,
     ResetPhase, AfterLoad, AfterMagic, ScratchPhase, ScratchWords, StartPhase,
     Returned, Reckless, Whole, ScratchSet, Words
<1>2. CASE Attempt("probe", ProbeTries, "load")
  BY <1>2, SizesAssumption DEF ReloadInv, OwedInv, Nothing, TypeOK, Attempt, FreshTries,
     ResetPhase, AfterLoad, AfterMagic, ScratchPhase, ScratchWords, StartPhase,
     Returned, Reckless, Whole, ScratchSet, Words, Payload
<1> QED
  BY <1>1, <1>2

\* A chunk, landed whole or in part, keeps the invariant.
LEMMA ChunkKeeps == ASSUME ReloadInv, LoadChunk PROVE ReloadInv'
<1> DEFINE n == NextChunk(off)
<1>1. /\ off \in 0..PayloadLen /\ off < PayloadLen /\ TypeOK
      /\ \A i \in Payload : i < off => mem[i] = "new"
  BY DEF ReloadInv, LoadChunk, TypeOK
<1>2. n \in Nat \ {0} /\ off + n \in 0..PayloadLen
  BY <1>1, ChunkFits
<1> HIDE DEF n
<1>3. CASE /\ mem' = Landed(off, n) /\ off' = off + n
           /\ pc' = IF off' < PayloadLen THEN "load" ELSE "magic"
           /\ owed' = ClearOwed(owed)
  <2>1. /\ mem' \in [Payload -> {"old", "new"}]
        /\ \A i \in Payload : i < off' => mem'[i] = "new"
    BY <1>1, <1>2, <1>3, LandedBytes
  <2>2. pc' = "magic" => Whole'
    BY <1>2, <1>3, <2>1, SizesAssumption DEF Whole, Payload
  <2>3. OwedInv' /\ owed' \in [mem : SUBSET Payload, reg : SUBSET Words, command : BOOLEAN]
    BY <1>1, <1>3, <2>2 DEF OwedInv, ClearOwed, Nothing, ResetPhase, ScratchPhase,
       ScratchWords
  <2> QED
    BY <1>1, <1>2, <1>3, <2>1, <2>2, <2>3, SizesAssumption DEF ReloadInv, LoadChunk,
       TypeOK, ResetPhase, AfterLoad, AfterMagic, ScratchPhase, ScratchWords,
       StartPhase, Returned, Reckless
<1>4. CASE /\ \E k \in 0..n :
                 /\ mem' = Landed(off, k)
                 /\ owed' = [ClearOwed(owed) EXCEPT !.mem = @ \cup Part(off + k, n - k)]
           /\ OnError("magic") /\ off' = off
  <2>1. PICK k \in 0..n :
          /\ mem' = Landed(off, k)
          /\ owed' = [ClearOwed(owed) EXCEPT !.mem = @ \cup Part(off + k, n - k)]
    BY <1>4
  <2>2. /\ mem' \in [Payload -> {"old", "new"}]
        /\ \A i \in Payload : i < off' => mem'[i] = "new"
    BY <1>1, <1>2, <1>4, <2>1, LandedBytes DEF Payload
  <2>3. /\ owed' \in [mem : SUBSET Payload, reg : SUBSET Words, command : BOOLEAN]
        /\ owed'.reg = {} /\ owed'.command = FALSE
    <3>1. Part(off + k, n - k) \in SUBSET Payload
      BY DEF Part
    <3> QED
      BY <2>1, <3>1, OwedAfter
  <2>4. OwedInv'
    <3>1. pc' \in {"magic", "ok", "fatal"} /\ proc' # "started"
      BY <1>4 DEF OnError, LoadChunk, ReloadInv
    <3> QED
      BY <2>3, <3>1 DEF OwedInv, ResetPhase
  <2> QED
    BY <1>1, <1>4, <2>2, <2>3, <2>4, SizesAssumption DEF ReloadInv, LoadChunk, OnError,
       TypeOK, ResetPhase, AfterLoad, AfterMagic, ScratchPhase, ScratchWords,
       StartPhase, Returned, Reckless
<1> QED
  BY <1>3, <1>4 DEF LoadChunk, n

\* A boot word, written or not, owes at most itself.
LEMMA WordOwes ==
    ASSUME ReloadInv, NEW w \in Words, NEW next, NEW phase,
           WriteWord(w, next, phase),
           next \in {"entry", "stack", "ctrl", "command"}, phase \in {"ctrl", "ok"}
    PROVE  /\ reg' = reg \/ reg' = [reg EXCEPT ![w] = "new"]
           /\ owed' \in [mem : SUBSET Payload, reg : SUBSET Words, command : BOOLEAN]
           /\ OwedInv'
<1>1. reg' = reg \/ reg' = [reg EXCEPT ![w] = "new"]
  BY DEF WriteWord
<1>2. PICK R \in {{}, {w}} :
        /\ owed' \in [mem : SUBSET Payload, reg : SUBSET Words, command : BOOLEAN]
        /\ owed'.mem = {} /\ owed'.reg = R /\ owed'.command = FALSE
        /\ R = {} \/ OnError(phase)
  <2>1. CASE owed' = ClearOwed(owed)
    BY <2>1, OwedAfter
  <2>2. CASE owed' = [ClearOwed(owed) EXCEPT !.reg = @ \cup {w}] /\ OnError(phase)
    BY <2>2, OwedAfter
  <2> QED
    BY <2>1, <2>2 DEF WriteWord
<1>3. /\ owed' \in [mem : SUBSET Payload, reg : SUBSET Words, command : BOOLEAN]
      /\ owed'.mem = {} /\ owed'.reg = R /\ owed'.command = FALSE
  BY <1>2
<1>4. pc = w /\ pc \notin {"ok", "fatal"} /\ proc' # "started"
  BY DEF WriteWord, ReloadInv, Words, ScratchWords
<1>5. pc' \in {"entry", "stack", "ctrl", "command", "ok", "fatal"}
  BY DEF WriteWord, OnError
<1>6. pc' \in ScratchPhase => R = {}
  BY <1>2 DEF OnError, ScratchPhase, ScratchWords
<1> QED
  BY <1>1, <1>3, <1>4, <1>5, <1>6 DEF OwedInv, ResetPhase

\* A boot word, written or not, keeps the invariant.
LEMMA WordKeeps ==
    ASSUME ReloadInv, ProgramScratch \/ WriteCtrl PROVE ReloadInv'
<1>0. {"magic", "entry", "stack", "ctrl"} \subseteq Words
  BY DEF Words, ScratchWords
<1>1. CASE WriteWord("magic", "entry", "ctrl")
  <2>1. /\ reg' = reg \/ reg' = [reg EXCEPT !["magic"] = "new"]
        /\ owed' \in [mem : SUBSET Payload, reg : SUBSET Words, command : BOOLEAN]
        /\ OwedInv'
    BY <1>0, <1>1, WordOwes
  <2> QED
    BY <1>1, <2>1 DEF ReloadInv, TypeOK, WriteWord, OnError, ResetPhase, AfterLoad,
       AfterMagic, ScratchPhase, ScratchWords, StartPhase, Words, Returned,
       Reckless, Whole, ScratchSet
<1>2. CASE WriteWord("entry", "stack", "ctrl")
  <2>1. /\ reg' = reg \/ reg' = [reg EXCEPT !["entry"] = "new"]
        /\ owed' \in [mem : SUBSET Payload, reg : SUBSET Words, command : BOOLEAN]
        /\ OwedInv'
    BY <1>0, <1>2, WordOwes
  <2> QED
    BY <1>2, <2>1 DEF ReloadInv, TypeOK, WriteWord, OnError, ResetPhase, AfterLoad,
       AfterMagic, ScratchPhase, ScratchWords, StartPhase, Words, Returned,
       Reckless, Whole, ScratchSet
<1>3. CASE WriteWord("stack", "ctrl", "ctrl")
  <2>1. /\ reg' = reg \/ reg' = [reg EXCEPT !["stack"] = "new"]
        /\ owed' \in [mem : SUBSET Payload, reg : SUBSET Words, command : BOOLEAN]
        /\ OwedInv'
    BY <1>0, <1>3, WordOwes
  <2> QED
    BY <1>3, <2>1 DEF ReloadInv, TypeOK, WriteWord, OnError, ResetPhase, AfterLoad,
       AfterMagic, ScratchPhase, ScratchWords, StartPhase, Words, Returned,
       Reckless, Whole, ScratchSet
<1>4. CASE WriteWord("ctrl", "command", "ok")
  <2>1. /\ reg' = reg \/ reg' = [reg EXCEPT !["ctrl"] = "new"]
        /\ owed' \in [mem : SUBSET Payload, reg : SUBSET Words, command : BOOLEAN]
        /\ OwedInv'
    BY <1>0, <1>4, WordOwes
  <2> QED
    BY <1>4, <2>1 DEF ReloadInv, TypeOK, WriteWord, OnError, ResetPhase, AfterLoad,
       AfterMagic, ScratchPhase, ScratchWords, StartPhase, Words, Returned,
       Reckless, Whole, ScratchSet
<1> QED
  BY <1>1, <1>2, <1>3, <1>4 DEF ProgramScratch, WriteCtrl

\* The command, sent or not, keeps the invariant.
LEMMA CommandKeeps == ASSUME ReloadInv, WriteCommand PROVE ReloadInv'
<1>2. /\ owed' \in [mem : SUBSET Payload, reg : SUBSET Words, command : BOOLEAN]
      /\ owed'.mem = {} /\ owed'.reg = {}
      /\ owed'.command => proc' = proc
  BY OwedAfter DEF WriteCommand
<1>3. /\ pc = "command" /\ pc' \in {"ok", "fatal"}
      /\ UNCHANGED <<build, off, tries, mem, reg>>
      /\ proc' = proc \/ proc' = "started"
  BY DEF WriteCommand, OnError
<1>4. Whole' = Whole /\ ScratchSet' = ScratchSet /\ Reckless' = Reckless
  BY <1>3 DEF Whole, ScratchSet, Reckless
<1>5. ~Reckless => Whole /\ ScratchSet
  BY <1>3 DEF ReloadInv, AfterLoad, AfterMagic, StartPhase, ScratchSet, ScratchWords
<1>6. OwedInv'
  BY <1>2, <1>3, <1>4, <1>5 DEF OwedInv, ResetPhase, ScratchPhase, ScratchWords
<1>7. TypeOK'
  BY <1>2, <1>3 DEF ReloadInv, TypeOK, Returned
<1> QED
  BY <1>3, <1>4, <1>5, <1>6, <1>7 DEF ReloadInv, ResetPhase, AfterLoad, AfterMagic,
     ScratchPhase, ScratchWords, StartPhase

\* What lands late is of the write that failed, and adds to what has landed.
LEMMA LateLands ==
    ASSUME ReloadInv, LateLanding
    PROVE  /\ UNCHANGED <<build, pc, off, tries>>
           /\ mem' \in [Payload -> {"old", "new"}] /\ reg' \in [Words -> {"old", "new"}]
           /\ \A i \in Payload : mem[i] = "new" => mem'[i] = "new"
           /\ \A w \in Words : reg[w] = "new" => reg'[w] = "new"
           /\ owed' \in [mem : SUBSET Payload, reg : SUBSET Words, command : BOOLEAN]
           /\ owed'.mem \subseteq owed.mem /\ owed'.reg \subseteq owed.reg
           /\ ~owed'.command \/ (owed.command /\ UNCHANGED proc)
           /\ proc' = proc \/ (owed.command /\ proc' = "started")
           /\ mem' = mem \/ owed.mem # {}
           /\ reg' = reg \/ owed.reg # {}
<1>1. UNCHANGED <<build, pc, off, tries>>
  BY DEF LateLanding
<1>2. CASE \E i \in owed.mem :
             /\ mem' = [mem EXCEPT ![i] = "new"]
             /\ owed' = [owed EXCEPT !.mem = @ \ {i}]
             /\ UNCHANGED <<reg, proc>>
  BY <1>1, <1>2 DEF ReloadInv, TypeOK
<1>3. CASE \E w \in owed.reg :
             /\ reg' = [reg EXCEPT ![w] = "new"]
             /\ owed' = [owed EXCEPT !.reg = @ \ {w}]
             /\ UNCHANGED <<mem, proc>>
  BY <1>1, <1>3 DEF ReloadInv, TypeOK
<1>4. CASE /\ owed.command /\ proc' = "started"
           /\ owed' = [owed EXCEPT !.command = FALSE]
           /\ UNCHANGED <<mem, reg>>
  BY <1>1, <1>4 DEF ReloadInv, TypeOK
<1> QED
  BY <1>2, <1>3, <1>4 DEF LateLanding

\* What lands late keeps the invariant.
LEMMA LateKeeps == ASSUME ReloadInv, LateLanding PROVE ReloadInv'
<1>1. /\ UNCHANGED <<build, pc, off, tries>>
      /\ mem' \in [Payload -> {"old", "new"}] /\ reg' \in [Words -> {"old", "new"}]
      /\ \A i \in Payload : mem[i] = "new" => mem'[i] = "new"
      /\ \A w \in Words : reg[w] = "new" => reg'[w] = "new"
      /\ owed' \in [mem : SUBSET Payload, reg : SUBSET Words, command : BOOLEAN]
      /\ owed'.mem \subseteq owed.mem /\ owed'.reg \subseteq owed.reg
      /\ ~owed'.command \/ (owed.command /\ UNCHANGED proc)
      /\ proc' = proc \/ (owed.command /\ proc' = "started")
  BY LateLands
<1>2. (Whole => Whole') /\ (ScratchSet => ScratchSet') /\ Reckless' = Reckless
  BY <1>1 DEF Whole, ScratchSet, Words, Reckless
<1>3. pc \notin ResetPhase \cup {"load"}
  BY DEF LateLanding, ReloadInv, OwedInv, Nothing
<1>4. TypeOK'
  <2>1. proc' \in {"factory", "held", "bootrom", "started"}
    BY <1>1 DEF ReloadInv, TypeOK
  <2> QED
    BY <1>1, <2>1 DEF ReloadInv, TypeOK
<1>5. OwedInv'
  BY <1>1, <1>2, <1>3 DEF ReloadInv, OwedInv
<1>6. proc' = "started" => pc' \in {"ok", "fatal"} /\ (~Reckless' => Whole' /\ ScratchSet')
  BY <1>1, <1>2 DEF ReloadInv, OwedInv
<1>7. pc' \in AfterLoad => \A i \in Payload : i < off' => mem'[i] = "new"
  BY <1>1 DEF ReloadInv
<1>8. ~Reckless' =>
        /\ pc' \in AfterLoad => Whole'
        /\ pc' \in AfterMagic => reg'["magic"] = "new"
        /\ pc' \in {"stack"} \cup StartPhase => reg'["entry"] = "new"
        /\ pc' \in StartPhase => reg'["stack"] = "new"
  BY <1>1, <1>2 DEF ReloadInv, Words, ScratchWords
<1> QED
  BY <1>1, <1>3, <1>4, <1>5, <1>6, <1>7, <1>8 DEF ReloadInv

\* Every step of the reload keeps the invariant.
LEMMA ReloadStep == ReloadInv /\ [Next]_vars => ReloadInv'
<1> SUFFICES ASSUME ReloadInv, [Next]_vars PROVE ReloadInv'
  OBVIOUS
<1>1. CASE RunLow
  BY <1>1, SizesAssumption DEF ReloadInv, OwedInv, Nothing, TypeOK, RunLow, ResetPhase, AfterLoad,
     AfterMagic, ScratchPhase, ScratchWords, StartPhase, Words, Reckless, Payload
<1>2. CASE RunHigh
  BY <1>2, SizesAssumption DEF ReloadInv, OwedInv, Nothing, TypeOK, RunHigh, ResetPhase, AfterLoad,
     AfterMagic, ScratchPhase, ScratchWords, StartPhase, Reckless
<1>3. CASE ClearResets \/ ProbeChipId
  BY <1>3, AttemptKeeps DEF ClearResets, ProbeChipId
<1>4. CASE LoadChunk
  BY <1>4, ChunkKeeps
<1>5. CASE ProgramScratch \/ WriteCtrl
  BY <1>5, WordKeeps
<1>6. CASE WriteCommand
  BY <1>6, CommandKeeps
<1>7. CASE LateLanding
  BY <1>7, LateKeeps
<1>8. CASE UNCHANGED vars
  BY <1>8 DEF ReloadInv, OwedInv, TypeOK, vars, Reckless, Whole, ScratchSet
<1> QED
  BY <1>1, <1>2, <1>3, <1>4, <1>5, <1>6, <1>7, <1>8 DEF Next, Step, Finished

\* What every place of the reload may rely on, it may rely on.
THEOREM ReloadInvariance == Spec => []ReloadInv
  BY ReloadInit, ReloadStep, PTL DEF Spec

\* The reload is well typed; in particular no loop exceeds its attempts.
THEOREM ReloadTypes == Spec => []TypeOK
<1>1. ReloadInv => TypeOK
  BY DEF ReloadInv
<1> QED
  BY <1>1, ReloadInvariance, PTL

\* proc0 runs only on a complete image and complete boot words, whatever the
\* length of the payload and however its last chunk falls.
THEOREM ReloadStartsWhole == Spec => []StartsWhole
<1>1. ReloadInv => StartsWhole
  BY DEF ReloadInv, StartsWhole, Reckless
<1> QED
  BY <1>1, ReloadInvariance, PTL

\* Nothing is written under a running proc0, and nothing lands under it.
THEOREM ReloadHandsOff == Spec => HandsOffProc0
<1>1. ReloadInv /\ [Next]_vars =>
          [proc = "started" => UNCHANGED <<mem, reg>>]_vars
  BY DEF ReloadInv, OwedInv, Next, Step, LateLanding, Finished, RunLow, RunHigh,
     ClearResets, ProbeChipId, Attempt, LoadChunk, ProgramScratch, WriteWord,
     WriteCtrl, WriteCommand, vars
<1> QED
  BY <1>1, ReloadInvariance, PTL DEF Spec, HandsOffProc0

-----------------------------------------------------------------------------
(* The refinement: the writes of the reload, seen from the boot path.      *)

\* What the mapping relies on besides: the RP1 waits in its boot ROM, and
\* nothing has been written to it before its phase.
FreshInv ==
    /\ ReloadInv
    /\ pc \in {"clear", "probe", "load"} \cup AfterLoad => proc = "bootrom"
    /\ pc \in {"high", "clear", "probe"} => \A i \in Payload : mem[i] = "old"
    /\ pc \in ResetPhase \cup {"load", "magic"} =>
           \A w \in ScratchWords : reg[w] = "old"
    /\ pc \in {"entry", "stack"} => reg["magic"] = "new"
    /\ pc = "stack" => reg["entry"] = "new"

\* The mapping may be used from the start.
LEMMA FreshInit == Init => FreshInv
  BY ReloadInit DEF Init, FreshInv, AfterLoad, ScratchPhase, ScratchWords,
     StartPhase, Words, ResetPhase

\* And in every step.
LEMMA FreshStep == FreshInv /\ [Next]_vars => FreshInv'
<1> SUFFICES ASSUME FreshInv, [Next]_vars PROVE FreshInv'
  OBVIOUS
<1>0. ReloadInv'
  BY ReloadStep DEF FreshInv
<1>1. CASE RunLow \/ RunHigh
  BY <1>0, <1>1 DEF FreshInv, RunLow, RunHigh, AfterLoad, ScratchPhase,
     ScratchWords, StartPhase, Words, ReloadInv, TypeOK,
     ResetPhase
<1>2. CASE ClearResets \/ ProbeChipId
  BY <1>0, <1>2 DEF FreshInv, ClearResets, ProbeChipId, Attempt, AfterLoad,
     ScratchPhase, ScratchWords, StartPhase, ResetPhase
<1>3. CASE LoadChunk
  BY <1>0, <1>3 DEF FreshInv, LoadChunk, OnError, AfterLoad, ScratchPhase,
     ScratchWords, StartPhase, ResetPhase
<1>4. CASE ProgramScratch \/ WriteCtrl
  BY <1>0, <1>4 DEF FreshInv, ProgramScratch, WriteCtrl, WriteWord, OnError,
     AfterLoad, ScratchPhase, ScratchWords, StartPhase, ResetPhase, ReloadInv,
     TypeOK, Words
<1>5. CASE WriteCommand
  BY <1>0, <1>5 DEF FreshInv, WriteCommand, OnError, AfterLoad, ScratchPhase,
     ScratchWords, StartPhase, ResetPhase
<1>6. CASE LateLanding
  <2>1. /\ UNCHANGED pc
        /\ \A w \in Words : reg[w] = "new" => reg'[w] = "new"
        /\ proc' = proc \/ owed.command
        /\ mem' = mem \/ owed.mem # {}
        /\ reg' = reg \/ owed.reg # {}
    BY <1>6, LateLands DEF FreshInv
  <2>2. /\ pc \in ResetPhase \cup {"load"} => owed.mem = {} /\ owed.reg = {}
        /\ pc \in ScratchPhase => owed.reg = {}
        /\ owed.command => pc \in {"ok", "fatal"}
    BY DEF FreshInv, ReloadInv, OwedInv, Nothing
  <2> QED
    BY <1>0, <2>1, <2>2 DEF FreshInv, AfterLoad, ScratchPhase, ScratchWords,
       StartPhase, ResetPhase, Words
<1>7. CASE UNCHANGED vars
  BY <1>0, <1>7 DEF FreshInv, vars
<1> QED
  BY <1>1, <1>2, <1>3, <1>4, <1>5, <1>6, <1>7 DEF Next, Step, Finished

\* A failure of the reload is one of the boot path: the next phase, the end
\* of the reload, or the end of the boot.
LEMMA FailureMaps ==
    ASSUME TypeOK, UNCHANGED build
    PROVE  /\ UNCHANGED NetBuild
           /\ Boot!Continues(NetBuild) = build.cont
           /\ Boot!Gdb(NetBuild) = build.gdb
           /\ Boot!ReturnPc(NetBuild) = "repcie"
           /\ Boot!AfterStart(NetBuild) = IF build.gdb THEN "observe" ELSE "repcie"
  BY DEF TypeOK, NetBuild, Boot!Continues, Boot!Gdb, Boot!ReturnPc,
     Boot!AfterStart, Boot!Preload

\* The step of the boot path that a step of the reload is.
BootStep ==
    \/ Boot!ResetIntoBootrom \/ Boot!LoadImage
    \/ Boot!ProgramScratch \/ Boot!StartProc0 \/ Boot!LateLanding

\* The parts of the boot path's state the reload has no hand in.
LEMMA ElsewhereMaps ==
    ASSUME TypeOK, UNCHANGED build
    PROVE  /\ (UNCHANGED <<NetPc, NetRp1, BeforeReset>> => UNCHANGED Boot!vars)
           /\ UNCHANGED NetBuild
  BY FailureMaps DEF Boot!vars

\* The RP1 as the boot path sees it, before and after a step.
Rp1Type == [proc : {"factory", "bootrom", "started"},
            image : {"none", "partial", "whole"}, scratch : {"unset", "set"},
            owed : {"none", "image", "scratch", "command"}]

\* A step that leaves the other fields alone replaces one field and what is owed.
LEMMA Rp1Fields ==
    /\ NetRp1'.proc = NetRp1.proc /\ NetRp1'.scratch = NetRp1.scratch =>
         NetRp1' = [NetRp1 EXCEPT !.image = NetRp1'.image, !.owed = NetRp1'.owed]
    /\ NetRp1'.proc = NetRp1.proc /\ NetRp1'.image = NetRp1.image =>
         NetRp1' = [NetRp1 EXCEPT !.scratch = NetRp1'.scratch, !.owed = NetRp1'.owed]
    /\ NetRp1'.image = NetRp1.image /\ NetRp1'.scratch = NetRp1.scratch =>
         NetRp1' = [NetRp1 EXCEPT !.proc = NetRp1'.proc, !.owed = NetRp1'.owed]
    /\ NetRp1'.proc = NetRp1.proc /\ NetRp1'.image = NetRp1.image /\ NetRp1'.scratch = NetRp1.scratch =>
         NetRp1' = [NetRp1 EXCEPT !.owed = NetRp1'.owed]
<1>1. NetRp1 \in Rp1Type
  BY DEF NetRp1, Rp1Type
<1>2. NetRp1' \in Rp1Type
  BY DEF NetRp1, Rp1Type
<1>3. NetRp1'.proc = NetRp1.proc /\ NetRp1'.scratch = NetRp1.scratch =>
          NetRp1' = [NetRp1 EXCEPT !.image = NetRp1'.image, !.owed = NetRp1'.owed]
  BY <1>1, <1>2 DEF Rp1Type
<1>4. NetRp1'.proc = NetRp1.proc /\ NetRp1'.image = NetRp1.image =>
          NetRp1' = [NetRp1 EXCEPT !.scratch = NetRp1'.scratch, !.owed = NetRp1'.owed]
  BY <1>1, <1>2 DEF Rp1Type
<1>5. NetRp1'.image = NetRp1.image /\ NetRp1'.scratch = NetRp1.scratch =>
          NetRp1' = [NetRp1 EXCEPT !.proc = NetRp1'.proc, !.owed = NetRp1'.owed]
  BY <1>1, <1>2 DEF Rp1Type
<1>6. NetRp1'.proc = NetRp1.proc /\ NetRp1'.image = NetRp1.image /\ NetRp1'.scratch = NetRp1.scratch =>
          NetRp1' = [NetRp1 EXCEPT !.owed = NetRp1'.owed]
  BY <1>1, <1>2 DEF Rp1Type
<1> QED
  BY <1>3, <1>4, <1>5, <1>6

\* The writes of the reset are stutters; its end is the boot path's reset.
LEMMA ResetMaps ==
    ASSUME FreshInv, FreshInv', RunLow \/ RunHigh \/ ClearResets \/ ProbeChipId
    PROVE  BootStep \/ UNCHANGED Boot!vars
<1> USE DEF ResetPhase, ScratchPhase, ScratchWords, StartPhase, Returned
<1>1. TypeOK /\ UNCHANGED build
  BY DEF FreshInv, ReloadInv, RunLow, RunHigh, ClearResets, ProbeChipId, Attempt
<1>2. pc \in ResetPhase
  BY DEF RunLow, RunHigh, ClearResets, ProbeChipId, Attempt
<1>3. /\ NetPc = "reset" /\ BeforeReset
      /\ NetRp1 = [proc |-> "factory", image |-> "none", scratch |-> "unset",
                   owed |-> "none"]
  BY <1>2 DEF NetPc, BeforeReset, NetRp1, Loading, FreshInv, ScratchSet, ReloadInv,
              OwedInv, Nothing
<1>4. CASE pc' \in ResetPhase
  <2>1. /\ NetPc' = "reset" /\ BeforeReset'
        /\ NetRp1' = [proc |-> "factory", image |-> "none", scratch |-> "unset",
                      owed |-> "none"]
    BY <1>4 DEF NetPc, BeforeReset, NetRp1, Loading, FreshInv, ScratchSet, ReloadInv,
                OwedInv, Nothing
  <2> QED
    BY <1>1, <1>3, <2>1, ElsewhereMaps
<1>5. CASE pc' \notin ResetPhase
  <2>1. /\ pc \in {"clear", "probe"} /\ UNCHANGED <<mem, reg, proc, owed>>
        /\ \/ pc' = "load"
           \/ pc' = IF build.cont THEN "skipped" ELSE "fatal"
    BY <1>5 DEF RunLow, RunHigh, ClearResets, ProbeChipId, Attempt
  <2>2. /\ ~BeforeReset'
        /\ NetRp1' = [proc |-> "bootrom", image |-> "none", scratch |-> "unset",
                      owed |-> "none"]
    BY <1>5, <2>1 DEF NetRp1, BeforeReset, Loading, FreshInv, ScratchSet, ReloadInv,
                      OwedInv, Nothing
  <2>3. \/ NetPc' = "load"
        \/ NetPc' = IF build.cont THEN "repcie" ELSE "fatal"
    BY <2>1 DEF NetPc
  <2> QED
    BY <1>1, <1>3, <2>2, <2>3, FailureMaps DEF BootStep, Boot!ResetIntoBootrom,
       Boot!OnFailure, Boot!req, Boot!out, Boot!dbg
<1> QED
  BY <1>4, <1>5

\* A chunk is a stutter until the last one, or one that fails, ends the load.
LEMMA LoadMaps ==
    ASSUME FreshInv, FreshInv', LoadChunk
    PROVE  BootStep \/ UNCHANGED Boot!vars
<1> USE DEF ResetPhase, ScratchPhase, ScratchWords, StartPhase, Returned
<1>1. TypeOK /\ pc = "load" /\ UNCHANGED build /\ UNCHANGED <<reg, proc>>
  BY DEF FreshInv, ReloadInv, LoadChunk
<1>2. /\ NetPc = "load" /\ ~BeforeReset
      /\ NetRp1 = [proc |-> "bootrom", image |-> "none", scratch |-> "unset",
                   owed |-> "none"]
  BY <1>1 DEF NetPc, BeforeReset, NetRp1, Loading, FreshInv, ScratchSet, ReloadInv,
              OwedInv, Nothing
<1>3. ~BeforeReset' /\ ~ScratchSet'
  BY <1>1 DEF LoadChunk, OnError, BeforeReset, FreshInv, ScratchSet
<1>4. CASE pc' = "load"
  <2>1. /\ NetPc' = "load"
        /\ NetRp1' = [proc |-> "bootrom", image |-> "none", scratch |-> "unset",
                      owed |-> "none"]
    BY <1>1, <1>3, <1>4 DEF NetPc, BeforeReset, NetRp1, Loading, FreshInv, ReloadInv,
                            OwedInv, Nothing
  <2> QED
    BY <1>1, <1>2, <1>4, <2>1, ElsewhereMaps DEF BeforeReset
<1>5. CASE pc' # "load"
  <2>0. pc' \in {"magic", "ok", "fatal"} /\ proc' = "bootrom" /\ ~Loading'
    BY <1>1, <1>3, <1>5 DEF LoadChunk, OnError, Loading, FreshInv, ReloadInv, AfterLoad
  <2>1. PICK im \in {"none", "partial", "whole"}, ow \in {"none", "image"} :
          NetRp1' = [proc |-> "bootrom", image |-> im, scratch |-> "unset", owed |-> ow]
    <3>0. NetRp1'.owed \in {"none", "image"}
      <4>1. owed'.reg = {} /\ owed'.command = FALSE
        BY OwedAfter DEF LoadChunk, ClearOwed, Nothing
      <4> QED
        BY <4>1 DEF NetRp1
    <3>1. CASE \A i \in Payload : mem'[i] = "old"
      BY <1>3, <2>0, <3>0, <3>1 DEF NetRp1
    <3>2. CASE ~(\A i \in Payload : mem'[i] = "old") /\ Whole'
      BY <1>3, <2>0, <3>0, <3>2 DEF NetRp1
    <3>3. CASE ~(\A i \in Payload : mem'[i] = "old") /\ ~Whole'
      BY <1>3, <2>0, <3>0, <3>3 DEF NetRp1
    <3> QED
      BY <3>1, <3>2, <3>3
  <2>4. NetRp1' = [NetRp1 EXCEPT !.image = im, !.owed = ow]
    BY <1>2, <2>1, Rp1Fields
  <2>2. CASE OnError("magic")
    <3>1. NetPc' = IF ~build.cont THEN "fatal"
                   ELSE IF build.gdb THEN "scratch" ELSE "repcie"
      BY <1>1, <2>2 DEF NetPc, OnError
    <3> QED
      BY <1>1, <1>2, <1>3, <2>4, <3>1, FailureMaps DEF BootStep, Boot!LoadImage,
         Boot!OnPhaseFailure, Boot!OnFailure, Boot!net, Boot!req, Boot!out, Boot!dbg
  <2>3. CASE pc' = "magic" /\ off' >= PayloadLen /\ owed' = ClearOwed(owed)
    <3>1. Whole' /\ Payload # {}
      BY <1>1, <2>3, SizesAssumption DEF FreshInv, ReloadInv, AfterLoad, Whole,
         Payload, TypeOK
    <3>2. NetRp1'.image = "whole" /\ NetPc' = "scratch" /\ NetRp1'.owed = "none"
      BY <1>3, <2>3, <3>1 DEF NetRp1, NetPc, Loading, BeforeReset, Whole, ClearOwed,
                              Nothing
    <3>3. NetRp1' = [NetRp1 EXCEPT !.image = "whole", !.owed = "none"]
      BY <2>1, <2>4, <3>2
    <3> QED
      BY <1>1, <1>2, <1>3, <3>2, <3>3, FailureMaps DEF BootStep, Boot!LoadImage,
         Boot!net, Boot!req, Boot!out, Boot!dbg
  <2> QED
    BY <1>5, <2>2, <2>3, SizesAssumption DEF LoadChunk, FreshInv, ReloadInv, TypeOK
<1> QED
  BY <1>4, <1>5

\* A scratch word is a stutter unless it ends the programming.
LEMMA ScratchMaps ==
    ASSUME FreshInv, FreshInv', ProgramScratch
    PROVE  BootStep \/ UNCHANGED Boot!vars
<1> USE DEF ResetPhase, ScratchPhase, ScratchWords, StartPhase, Returned
<1>1. /\ TypeOK /\ pc \in ScratchPhase /\ proc = "bootrom"
      /\ UNCHANGED build /\ UNCHANGED <<mem, proc>>
  BY DEF FreshInv, ReloadInv, ProgramScratch, WriteWord, AfterLoad
<1>2. NetPc = "scratch" /\ ~BeforeReset /\ ~BeforeReset'
  BY <1>1 DEF NetPc, BeforeReset, ProgramScratch, WriteWord, OnError
<1>3. ~Loading /\ ~Loading' /\ (Whole' <=> Whole) /\ Payload = Payload'
  BY <1>1 DEF Loading, BeforeReset, ProgramScratch, WriteWord, OnError, Whole, Payload
<1>4. PICK im, ow : NetRp1 = [proc |-> "bootrom", image |-> im, scratch |-> "unset",
                              owed |-> ow]
  BY <1>1, <1>2 DEF NetRp1
<1>5. NetRp1.image = im
  BY <1>4
<1>0. PICK R \in SUBSET ScratchWords :
        /\ owed'.mem = {} /\ owed'.reg = R /\ owed'.command = FALSE
        /\ R = {} \/ OnError("ctrl")
        /\ owed' = ClearOwed(owed) => R = {}
  BY OwedAfter DEF ProgramScratch, WriteWord, Words
<1>6. PICK left \in {"none", "scratch"} :
        /\ NetRp1' = [proc |-> "bootrom", image |-> im,
                      scratch |-> IF pc' \notin ScratchPhase /\ ScratchSet'
                                  THEN "set" ELSE "unset",
                      owed |-> left]
        /\ R = {} => left = "none"
  BY <1>0, <1>1, <1>2, <1>3, <1>4, <1>5 DEF NetRp1
<1>7. CASE pc' \in ScratchPhase
  <2>1. NetPc' = "scratch" /\ NetRp1'.scratch = "unset"
    BY <1>6, <1>7 DEF NetPc
  <2>2. R = {}
    BY <1>0, <1>7 DEF OnError
  <2>3. NetRp1' = [proc |-> "bootrom", image |-> im, scratch |-> "unset",
                   owed |-> "none"]
    BY <1>6, <1>7, <2>2
  <2>4. NetRp1' = [NetRp1 EXCEPT !.owed = "none"]
    BY <1>4, <2>3, Rp1Fields
  <2>5. CASE ow = "none"
    <3>1. NetRp1' = NetRp1
      BY <1>4, <2>3, <2>5
    <3> QED
      BY <1>1, <1>2, <2>1, <3>1, ElsewhereMaps DEF BeforeReset
  <2>6. CASE ow # "none"
    BY <1>1, <1>2, <1>4, <2>1, <2>4, <2>6, FailureMaps DEF BootStep, Boot!LateLanding,
       Boot!net, Boot!req, Boot!out, Boot!dbg
  <2> QED
    BY <2>5, <2>6
<1>8. CASE OnError("ctrl")
  <2>1. NetPc' = IF ~build.cont THEN "fatal"
                 ELSE IF build.gdb THEN "start" ELSE "repcie"
    BY <1>1, <1>8 DEF NetPc, OnError
  <2>2. PICK sc \in {"unset", "set"} : NetRp1' = [NetRp1 EXCEPT !.scratch = sc, !.owed = left]
    BY <1>4, <1>6, Rp1Fields
  <2> QED
    BY <1>1, <1>2, <2>1, <2>2, FailureMaps DEF BootStep, Boot!ProgramScratch,
       Boot!OnPhaseFailure, Boot!OnFailure, Boot!net, Boot!req, Boot!out, Boot!dbg
<1>9. CASE /\ pc = "stack" /\ reg' = [reg EXCEPT !["stack"] = "new"] /\ pc' = "ctrl"
           /\ owed' = ClearOwed(owed)
  <2>0. R = {}
    BY <1>0, <1>9
  <2>1. ScratchSet'
    BY <1>1, <1>9 DEF FreshInv, ScratchSet, TypeOK, Words
  <2>2. /\ NetPc' = "start"
        /\ NetRp1' = [proc |-> "bootrom", image |-> im, scratch |-> "set",
                      owed |-> "none"]
    BY <1>6, <1>9, <2>0, <2>1 DEF NetPc
  <2>3. NetRp1' = [NetRp1 EXCEPT !.scratch = "set", !.owed = "none"]
    BY <1>4, <2>2, Rp1Fields
  <2> QED
    BY <1>1, <1>2, <2>2, <2>3, FailureMaps DEF BootStep, Boot!ProgramScratch,
       Boot!OnPhaseFailure, Boot!OnFailure, Boot!net, Boot!req, Boot!out, Boot!dbg
<1> QED
  BY <1>7, <1>8, <1>9 DEF ProgramScratch, WriteWord

\* The control word is a stutter unless it fails; the command releases proc0.
LEMMA StartMaps ==
    ASSUME FreshInv, FreshInv', WriteCtrl \/ WriteCommand
    PROVE  BootStep \/ UNCHANGED Boot!vars
<1> USE DEF ResetPhase, ScratchPhase, ScratchWords, StartPhase, Returned
<1>1. /\ TypeOK /\ pc \in StartPhase /\ proc = "bootrom"
      /\ UNCHANGED build /\ UNCHANGED mem
      /\ \A w \in ScratchWords : reg'[w] = reg[w]
  BY DEF FreshInv, ReloadInv, WriteCtrl, WriteCommand, WriteWord, AfterLoad,
     TypeOK, Words
<1>2. NetPc = "start" /\ ~BeforeReset /\ ~BeforeReset'
  BY <1>1 DEF NetPc, BeforeReset, WriteCtrl, WriteCommand, WriteWord, OnError
<1>3. /\ ~Loading /\ ~Loading' /\ (Whole' <=> Whole) /\ Payload = Payload'
      /\ pc' \notin ScratchPhase /\ (ScratchSet' <=> ScratchSet)
  BY <1>1 DEF Loading, BeforeReset, WriteCtrl, WriteCommand, WriteWord, OnError,
     Whole, Payload, ScratchSet
<1>4. PICK im, sc, ow : NetRp1 = [proc |-> "bootrom", image |-> im, scratch |-> sc,
                                  owed |-> ow]
  BY <1>1, <1>2 DEF NetRp1
<1>5. NetRp1.image = im /\ NetRp1.scratch = sc
  BY <1>4
<1>0. PICK c \in BOOLEAN :
        /\ NetRp1'.owed = IF c THEN "command" ELSE "none"
        /\ c => UNCHANGED proc /\ OnError("ok")
  <2>1. /\ owed'.mem = {} /\ owed'.reg \in SUBSET {"ctrl"} /\ owed'.command \in BOOLEAN
        /\ owed'.command => UNCHANGED proc /\ OnError("ok")
    <3>1. CASE owed' = ClearOwed(owed)
      BY <3>1, OwedAfter
    <3>2. CASE owed' = [ClearOwed(owed) EXCEPT !.reg = @ \cup {"ctrl"}]
      BY <3>2, OwedAfter DEF Words
    <3>3. CASE owed' = [ClearOwed(owed) EXCEPT !.command = TRUE] /\ UNCHANGED proc
               /\ OnError("ok")
      BY <3>3, OwedAfter
    <3> QED
      BY <3>1, <3>2, <3>3 DEF WriteCtrl, WriteCommand, WriteWord
  <2> QED
    BY <2>1 DEF NetRp1
<1>6. NetRp1' = [proc |-> IF proc' = "started" THEN "started" ELSE "bootrom",
                 image |-> im, scratch |-> sc,
                 owed |-> IF c THEN "command" ELSE "none"]
  BY <1>0, <1>1, <1>2, <1>3, <1>4, <1>5 DEF NetRp1
<1>7. CASE WriteCtrl /\ pc' = "command"
  <2>1. NetPc' = "start" /\ proc' = "bootrom" /\ ~c
    BY <1>0, <1>1, <1>7 DEF NetPc, WriteCtrl, WriteWord, OnError
  <2>2. NetRp1' = [proc |-> "bootrom", image |-> im, scratch |-> sc, owed |-> "none"]
    BY <1>6, <2>1
  <2>3. NetRp1' = [NetRp1 EXCEPT !.owed = "none"]
    BY <1>4, <2>2, Rp1Fields
  <2>4. CASE ow = "none"
    <3>1. NetRp1' = NetRp1
      BY <1>4, <2>2, <2>4
    <3> QED
      BY <1>1, <1>2, <2>1, <3>1, ElsewhereMaps DEF BeforeReset
  <2>5. CASE ow # "none"
    BY <1>1, <1>2, <1>4, <2>1, <2>3, <2>5, FailureMaps DEF BootStep, Boot!LateLanding,
       Boot!net, Boot!req, Boot!out, Boot!dbg
  <2> QED
    BY <2>4, <2>5
<1>8. CASE OnError("ok") /\ proc' \in {proc, "started"}
  <2>1. NetPc' = IF ~build.cont THEN "fatal"
                 ELSE IF build.gdb THEN "observe" ELSE "repcie"
    BY <1>1, <1>8 DEF NetPc, OnError
  <2>2. \/ NetRp1' = [NetRp1 EXCEPT !.proc = "started", !.owed = "none"]
        \/ \E rest \in {"none", "command"} : NetRp1' = [NetRp1 EXCEPT !.owed = rest]
    <3>1. CASE proc' = "started"
      <4>1. ~c
        BY <1>0, <1>1, <3>1
      <4>2. NetRp1' = [proc |-> "started", image |-> im, scratch |-> sc, owed |-> "none"]
        BY <1>6, <3>1, <4>1
      <4> QED
        BY <1>4, <4>2, Rp1Fields
    <3>2. CASE proc' # "started"
      <4>1. PICK rest \in {"none", "command"} :
              NetRp1' = [proc |-> "bootrom", image |-> im, scratch |-> sc, owed |-> rest]
        BY <1>6, <3>2
      <4> QED
        BY <1>4, <4>1, Rp1Fields
    <3> QED
      BY <3>1, <3>2
  <2> QED
    BY <1>1, <1>2, <2>1, <2>2, FailureMaps DEF BootStep, Boot!StartProc0,
       Boot!OnPhaseFailure, Boot!OnFailure, Boot!net, Boot!req, Boot!out, Boot!dbg
<1>9. CASE proc' = "started" /\ pc' = "ok"
  <2>1. NetPc' = IF build.gdb THEN "observe" ELSE "repcie"
    BY <1>1, <1>9 DEF NetPc
  <2>2. ~c
    BY <1>0, <1>1, <1>9
  <2>3. NetRp1' = [NetRp1 EXCEPT !.proc = "started", !.owed = "none"]
    BY <1>4, <1>6, <1>9, <2>2, Rp1Fields
  <2> QED
    BY <1>1, <1>2, <2>1, <2>3, FailureMaps DEF BootStep, Boot!StartProc0, Boot!net,
       Boot!req, Boot!out, Boot!dbg
<1> QED
  BY <1>7, <1>8, <1>9 DEF WriteCtrl, WriteCommand, WriteWord

\* What lands late is a late landing of the boot path, or a stutter of it.
LEMMA LateMaps ==
    ASSUME FreshInv, FreshInv', LateLanding
    PROVE  BootStep \/ UNCHANGED Boot!vars
<1> USE DEF ResetPhase, ScratchPhase, ScratchWords, StartPhase, Returned
<1>1. /\ TypeOK /\ OwedInv /\ UNCHANGED <<build, pc>>
      /\ pc \notin ResetPhase \cup {"load"} /\ Payload' = Payload
  BY DEF FreshInv, ReloadInv, OwedInv, LateLanding, Nothing, Payload
<1>2. ~BeforeReset /\ ~Loading /\ ~BeforeReset' /\ ~Loading' /\ NetPc' = NetPc
  BY <1>1 DEF BeforeReset, Loading, NetPc
<1>3. ASSUME NetRp1.owed # "none",
             \/ NetRp1' = [NetRp1 EXCEPT !.owed = "none"]
             \/ /\ NetRp1.owed = "image" /\ NetRp1.image # "whole"
                /\ \E im \in {"partial", "whole"}, rest \in {"none", "image"} :
                       NetRp1' = [NetRp1 EXCEPT !.image = im, !.owed = rest]
             \/ /\ NetRp1.owed = "scratch"
                /\ NetRp1' = [NetRp1 EXCEPT !.scratch = "set", !.owed = "none"]
             \/ /\ NetRp1.owed = "command"
                /\ NetRp1' = [NetRp1 EXCEPT !.proc = "started", !.owed = "none"]
      PROVE  BootStep
  <2>1. /\ NetBuild' = NetBuild /\ NetPc' = NetPc
        /\ (IF BeforeReset THEN "up" ELSE "down")' = IF BeforeReset THEN "up" ELSE "down"
    BY <1>1, <1>2, FailureMaps
  <2>2. Boot!LateLanding
    BY <1>3, <2>1, Zenon DEF Boot!LateLanding, Boot!net, Boot!req, Boot!out, Boot!dbg
  <2> QED
    BY <2>2 DEF BootStep
<1>4. NetRp1' = NetRp1 => UNCHANGED Boot!vars
  <2>1. UNCHANGED BeforeReset
    BY <1>1 DEF BeforeReset
  <2> QED
    BY <1>1, <1>2, <2>1, ElsewhereMaps
<1>5. CASE \E i \in owed.mem :
             /\ mem' = [mem EXCEPT ![i] = "new"]
             /\ owed' = [owed EXCEPT !.mem = @ \ {i}]
             /\ UNCHANGED <<reg, proc>>
  <2>1. PICK i \in owed.mem :
             /\ mem' = [mem EXCEPT ![i] = "new"]
             /\ owed' = [owed EXCEPT !.mem = @ \ {i}]
             /\ UNCHANGED <<reg, proc>>
    BY <1>5
  <2>2. /\ owed.reg = {} /\ ~owed.command /\ owed'.reg = {} /\ ~owed'.command
        /\ i \in Payload /\ mem'[i] = "new" /\ (Whole => Whole')
        /\ ScratchSet' = ScratchSet
    BY <1>1, <2>1 DEF OwedInv, TypeOK, Whole, ScratchSet
  <2>3. PICK sc, up : /\ NetRp1 = [proc |-> up, image |-> NetRp1.image, scratch |-> sc,
                                   owed |-> "image"]
                      /\ NetRp1' = [proc |-> up, image |-> NetRp1'.image, scratch |-> sc,
                                    owed |-> NetRp1'.owed]
    BY <1>1, <1>2, <2>1, <2>2 DEF NetRp1
  <2>4. /\ NetRp1'.image \in {"partial", "whole"} /\ NetRp1'.owed \in {"none", "image"}
        /\ NetRp1.image = "whole" => NetRp1'.image = "whole"
    BY <1>2, <2>2 DEF NetRp1, Whole
  <2>5. CASE NetRp1.image = "whole"
    BY <1>3, <1>4, <2>3, <2>4, <2>5
  <2>6. CASE NetRp1.image # "whole"
    <3>1. NetRp1' = [NetRp1 EXCEPT !.image = NetRp1'.image, !.owed = NetRp1'.owed]
      BY <2>3, Rp1Fields
    <3>2. NetRp1.owed = "image"
      BY <2>3
    <3> QED
      BY <1>3, <2>4, <2>6, <3>1, <3>2
  <2> QED
    BY <2>5, <2>6
<1>6. CASE \E w \in owed.reg :
             /\ reg' = [reg EXCEPT ![w] = "new"]
             /\ owed' = [owed EXCEPT !.reg = @ \ {w}]
             /\ UNCHANGED <<mem, proc>>
  <2>1. PICK w \in owed.reg :
             /\ reg' = [reg EXCEPT ![w] = "new"]
             /\ owed' = [owed EXCEPT !.reg = @ \ {w}]
             /\ UNCHANGED <<mem, proc>>
    BY <1>6
  <2>2. /\ owed.mem = {} /\ ~owed.command /\ owed.reg = {w} /\ w \in Words
        /\ owed'.mem = {} /\ owed'.reg = {} /\ ~owed'.command
        /\ pc \notin ScratchPhase /\ (ScratchSet => ScratchSet') /\ Whole' = Whole
        /\ w \notin ScratchWords => ScratchSet' = ScratchSet
    BY <1>1, <2>1 DEF OwedInv, TypeOK, Whole, ScratchSet, Words
  <2>3. PICK im, up : /\ NetRp1 = [proc |-> up, image |-> im, scratch |-> NetRp1.scratch,
                                   owed |-> NetRp1.owed]
                      /\ NetRp1' = [proc |-> up, image |-> im, scratch |-> NetRp1'.scratch,
                                    owed |-> "none"]
    BY <1>1, <1>2, <2>1, <2>2 DEF NetRp1
  <2>4. /\ NetRp1.owed = IF w \in ScratchWords THEN "scratch" ELSE "none"
        /\ NetRp1.scratch = IF ScratchSet THEN "set" ELSE "unset"
        /\ NetRp1'.scratch = IF ScratchSet' THEN "set" ELSE "unset"
    BY <1>1, <2>2 DEF NetRp1
  <2>5. CASE NetRp1'.scratch = NetRp1.scratch
    BY <1>3, <1>4, <2>3, <2>5
  <2>6. CASE NetRp1'.scratch # NetRp1.scratch
    <3>1. NetRp1'.scratch = "set" /\ NetRp1.owed = "scratch"
      BY <2>2, <2>4, <2>6
    <3>2. NetRp1' = [NetRp1 EXCEPT !.scratch = "set", !.owed = "none"]
      <4>1. /\ NetRp1'.proc = NetRp1.proc /\ NetRp1'.image = NetRp1.image
            /\ NetRp1'.owed = "none"
        BY <2>3
      <4> QED
        BY <3>1, <4>1, Rp1Fields
    <3> QED
      BY <1>3, <3>1, <3>2
  <2> QED
    BY <2>5, <2>6
<1>7. CASE /\ owed.command /\ proc' = "started"
           /\ owed' = [owed EXCEPT !.command = FALSE]
           /\ UNCHANGED <<mem, reg>>
  <2>1. /\ owed.mem = {} /\ owed.reg = {}
        /\ owed'.mem = {} /\ owed'.reg = {} /\ ~owed'.command
        /\ Whole' = Whole /\ ScratchSet' = ScratchSet
    BY <1>1, <1>7 DEF OwedInv, TypeOK, Whole, ScratchSet
  <2>2. PICK im, sc : /\ NetRp1 = [proc |-> NetRp1.proc, image |-> im, scratch |-> sc,
                                   owed |-> "command"]
                      /\ NetRp1' = [proc |-> "started", image |-> im, scratch |-> sc,
                                    owed |-> "none"]
    BY <1>1, <1>2, <1>7, <2>1 DEF NetRp1
  <2>3. NetRp1' = [NetRp1 EXCEPT !.proc = "started", !.owed = "none"]
    <3>1. /\ NetRp1'.scratch = NetRp1.scratch /\ NetRp1'.image = NetRp1.image
          /\ NetRp1'.proc = "started" /\ NetRp1'.owed = "none"
      BY <2>2
    <3> QED
      BY <3>1, Rp1Fields
  <2>4. NetRp1.owed = "command"
    BY <2>2
  <2> QED
    BY <1>3, <2>3, <2>4
<1> QED
  BY <1>5, <1>6, <1>7 DEF LateLanding

\* The write-level reload implements the reload phase of the boot path: for
\* every image and every number of attempts, each write is a stutter of the
\* boot path or the end of one of its four reload steps, failures included, and
\* what lands late is a late landing there.
THEOREM ReloadImplements == Spec => ImplementsReload
<1>1. FreshInv /\ FreshInv' /\ [Next]_vars => [BootStep]_(Boot!vars)
  <2> SUFFICES ASSUME FreshInv, FreshInv', [Next]_vars
               PROVE  BootStep \/ UNCHANGED Boot!vars
    OBVIOUS
  <2>1. CASE UNCHANGED vars
    <3>1. UNCHANGED <<NetPc, NetRp1, BeforeReset>>
      BY <2>1 DEF vars, NetPc, NetRp1, BeforeReset, Loading, Whole, ScratchSet,
         ResetPhase, ScratchPhase, StartPhase, Payload
    <3>2. TypeOK /\ UNCHANGED build
      BY <2>1 DEF FreshInv, ReloadInv, vars
    <3> QED
      BY <3>1, <3>2, ElsewhereMaps
  <2> QED
    BY <2>1, ResetMaps, LoadMaps, ScratchMaps, StartMaps, LateMaps
       DEF Next, Step, Finished
<1> QED
  BY <1>1, FreshInit, FreshStep, PTL DEF Spec, ImplementsReload, BootStep
-----------------------------------------------------------------------------
(* How long a reload can take.                                             *)

\* The calls of the reload that are left, at most: two for the RUN pin, the
\* attempts of both loops, a write for each byte of the payload and five words.
Most == 7 + ClearTries + ProbeTries + PayloadLen

CallsLeft ==
    CASE pc = "low"   -> Most
      [] pc = "high"  -> Most - 1
      [] pc = "clear" -> 5 + PayloadLen + ProbeTries + (ClearTries - tries)
      [] pc = "probe" -> 5 + PayloadLen + (ProbeTries - tries)
      [] pc = "load"  -> 5 + (PayloadLen - off)
      [] pc = "magic" -> 5
      [] pc = "entry" -> 4
      [] pc = "stack" -> 3
      [] pc = "ctrl"  -> 2
      [] pc = "command" -> 1
      [] OTHER -> 0

\* A reload makes no more than Most calls whatever fails on the way, and has
\* none left exactly when it has returned: no error handler of a debug build
\* leads back to an earlier phase (handle_rp1_bootstrap_failure).  What the
\* controller lands late is no call.
CallsBounded ==
    /\ [](CallsLeft \in 0..Most /\ (CallsLeft = 0 <=> pc \in Returned))
    /\ [][CallsLeft' < CallsLeft \/ (LateLanding /\ CallsLeft' = CallsLeft)]_vars

\* Numbers of calls are counted from these.
LEMMA CallsTypes ==
    ASSUME ReloadInv
    PROVE  /\ PayloadLen \in Nat \ {0} /\ ClearTries \in Nat \ {0}
           /\ ProbeTries \in Nat \ {0} /\ off \in 0..PayloadLen /\ tries \in Nat
           /\ (pc = "clear" => tries < ClearTries)
           /\ (pc = "probe" => tries < ProbeTries)
           /\ (pc = "load" => off < PayloadLen)
           /\ pc \in {"low", "high", "clear", "probe", "load", "magic", "entry",
                      "stack", "ctrl", "command"} \cup Returned
<1>1. /\ PayloadLen \in Nat \ {0} /\ ClearTries \in Nat \ {0}
      /\ ProbeTries \in Nat \ {0}
  BY SizesAssumption
<1>2. TypeOK /\ (pc = "load" => off < PayloadLen)
  BY DEF ReloadInv
<1>3. tries \in 0..(IF pc = "clear" THEN ClearTries - 1
                    ELSE IF pc = "probe" THEN ProbeTries - 1 ELSE 0)
  BY <1>2 DEF TypeOK
<1>4. /\ tries \in Nat /\ (pc = "clear" => tries < ClearTries)
      /\ (pc = "probe" => tries < ProbeTries)
  BY <1>1, <1>3
<1>5. off \in 0..PayloadLen /\ pc \in {"low", "high", "clear", "probe", "load",
        "magic", "entry", "stack", "ctrl", "command"} \cup Returned
  BY <1>2 DEF TypeOK, ResetPhase, ScratchPhase, ScratchWords, StartPhase
<1> QED
  BY <1>1, <1>2, <1>4, <1>5

\* What is left is a number, and zero once the reload has returned.
LEMMA CallsRange ==
    ASSUME ReloadInv
    PROVE  CallsLeft \in 0..Most /\ (CallsLeft = 0 <=> pc \in Returned)
  BY CallsTypes DEF CallsLeft, Most, Returned

\* A phase that fails goes to a later one, or ends the reload.
LEMMA OnErrorForward ==
    ASSUME NEW next, OnError(next)
    PROVE  pc' \in {next} \cup Returned
  BY DEF OnError, Returned

\* Each call leaves fewer.
LEMMA CallShortens ==
    ASSUME ReloadInv, ReloadInv', Step
    PROVE  CallsLeft' < CallsLeft
<1>1. /\ PayloadLen \in Nat \ {0} /\ ClearTries \in Nat \ {0}
      /\ ProbeTries \in Nat \ {0} /\ off \in 0..PayloadLen /\ tries \in Nat
      /\ (pc = "clear" => tries < ClearTries)
      /\ (pc = "probe" => tries < ProbeTries)
      /\ (pc = "load" => off < PayloadLen)
  BY CallsTypes
<1>2. off' \in 0..PayloadLen /\ tries' \in Nat
  BY <1>1 DEF ReloadInv, TypeOK
<1>3. CallsLeft \in Nat /\ (CallsLeft = 0 <=> pc \in Returned)
  BY <1>1, CallsRange DEF Most
<1>4. pc' \in Returned => CallsLeft' = 0
  BY DEF CallsLeft, Returned
<1>5. CASE RunLow
  BY <1>1, <1>5 DEF RunLow, CallsLeft, Most
<1>6. CASE RunHigh
  BY <1>1, <1>2, <1>6 DEF RunHigh, CallsLeft, Most
<1>7. CASE ClearResets
  <2>1. pc = "clear"
    BY <1>7 DEF ClearResets, Attempt
  <2>2. CASE pc' = "probe"
    BY <1>1, <1>2, <2>1, <2>2 DEF CallsLeft
  <2>3. CASE tries' = tries + 1 /\ pc' = "clear"
    BY <1>1, <2>1, <2>3 DEF CallsLeft
  <2>4. CASE pc' \in Returned
    BY <1>3, <1>4, <2>1, <2>4 DEF Returned
  <2> QED
    BY <1>7, <2>1, <2>2, <2>3, <2>4 DEF ClearResets, Attempt, Returned
<1>8. CASE ProbeChipId
  <2>1. pc = "probe" /\ off' = off
    BY <1>8 DEF ProbeChipId, Attempt
  <2>2. CASE pc' = "load"
    BY <1>1, <2>1, <2>2 DEF CallsLeft
  <2>3. CASE tries' = tries + 1 /\ pc' = "probe"
    BY <1>1, <2>1, <2>3 DEF CallsLeft
  <2>4. CASE pc' \in Returned
    BY <1>3, <1>4, <2>1, <2>4 DEF Returned
  <2> QED
    BY <1>8, <2>1, <2>2, <2>3, <2>4 DEF ProbeChipId, Attempt, Returned
<1>9. CASE LoadChunk
  <2>1. pc = "load" /\ CallsLeft = 5 + (PayloadLen - off)
    BY <1>9 DEF LoadChunk, CallsLeft
  <2>2. NextChunk(off) \in Nat \ {0}
    BY <1>1, <2>1, ChunkFits
  <2>3. CASE off' = off + NextChunk(off) /\ pc' = "load"
    <3>1. CallsLeft' = 5 + (PayloadLen - off')
      BY <2>3 DEF CallsLeft
    <3> QED
      BY <1>1, <2>1, <2>2, <2>3, <3>1
  <2>4. CASE pc' = "magic"
    <3>1. CallsLeft' = 5
      BY <2>4 DEF CallsLeft
    <3> QED
      BY <1>1, <2>1, <3>1
  <2>5. CASE pc' \in Returned
    BY <1>3, <1>4, <2>1, <2>5 DEF Returned
  <2> QED
    BY <1>9, <2>3, <2>4, <2>5, OnErrorForward DEF LoadChunk
<1>10. CASE ProgramScratch \/ WriteCtrl
  <2>1. /\ pc = "magic" => pc' \in {"entry", "ctrl"} \cup Returned
        /\ pc = "entry" => pc' \in {"stack", "ctrl"} \cup Returned
        /\ pc = "stack" => pc' \in {"ctrl"} \cup Returned
        /\ pc = "ctrl" => pc' \in {"command", "ok"} \cup Returned
        /\ pc \in {"magic", "entry", "stack", "ctrl"}
    BY <1>10, OnErrorForward DEF ProgramScratch, WriteCtrl, WriteWord
  <2>2. CASE pc' \in Returned
    BY <1>3, <1>4, <2>1, <2>2 DEF Returned
  <2>3. CASE pc' \notin Returned
    BY <2>1, <2>3 DEF CallsLeft, Returned
  <2> QED
    BY <2>2, <2>3
<1>11. CASE WriteCommand
  <2>1. pc = "command" /\ pc' \in Returned
    BY <1>11, OnErrorForward DEF WriteCommand, Returned
  <2> QED
    BY <1>3, <1>4, <2>1 DEF Returned
<1> QED
  BY <1>5, <1>6, <1>7, <1>8, <1>9, <1>10, <1>11 DEF Step

\* The reload returns within Most calls, for an image and a chunk of any size
\* and any number of attempts; that the next call is made is fairness.
THEOREM ReloadIsBounded == Spec => CallsBounded
<1>1. ReloadInv => CallsLeft \in 0..Most /\ (CallsLeft = 0 <=> pc \in Returned)
  BY CallsRange
<1>2. ASSUME ReloadInv, ReloadInv', [Next]_vars
      PROVE  [CallsLeft' < CallsLeft \/ (LateLanding /\ CallsLeft' = CallsLeft)]_vars
  <2>1. LateLanding => CallsLeft' = CallsLeft
    BY DEF LateLanding, CallsLeft
  <2> QED
    BY <1>2, <2>1, CallShortens DEF Next, Finished
<1> QED
  BY <1>1, <1>2, ReloadInvariance, PTL DEF Spec, CallsBounded

-----------------------------------------------------------------------------
(* Every write of the reload is one transfer of module I2cWrite, and what  *)
(* is landed after a write was given up is the rest of its transfer.       *)

Port == INSTANCE I2cWrite WITH Packet <- <<>>, sent <- <<>>, result <- "none"

\* A packet opens with the four bytes of the address it is for.
AddressLen == 4
Data(o) == IF o.landed < AddressLen THEN 0 ELSE o.landed - AddressLen

\* What load_image makes of a chunk's outcome.
ChunkDone(o) ==
    /\ mem' = Landed(off, Data(o))
    /\ IF o.ok
       THEN /\ off' = off + NextChunk(off)
            /\ pc' = IF off' < PayloadLen THEN "load" ELSE "magic"
       ELSE OnError("magic") /\ UNCHANGED off
    /\ owed' = IF o.ok THEN Nothing
               ELSE [Nothing EXCEPT
                        !.mem = @ \cup Part(off + Data(o), NextChunk(off) - Data(o))]
    /\ UNCHANGED <<build, tries, reg, proc>>

\* What program_scratch and start make of a boot word's outcome: the word is
\* the new one once its four bytes have landed, whatever was reported.
WordDone(w, next, phase, o) ==
    /\ reg' = IF Data(o) = 4 THEN [reg EXCEPT ![w] = "new"] ELSE reg
    /\ IF o.ok THEN pc' = next ELSE OnError(phase)
    /\ owed' = IF Data(o) = 4 THEN Nothing ELSE [Nothing EXCEPT !.reg = @ \cup {w}]
    /\ UNCHANGED <<build, off, tries, mem, proc>>

\* What start makes of the command word's outcome.
CommandDone(o) ==
    /\ proc' = IF Data(o) = 4 THEN "started" ELSE proc
    /\ IF o.ok THEN pc' = "ok" ELSE OnError("ok")
    /\ owed' = IF Data(o) = 4 THEN Nothing ELSE [Nothing EXCEPT !.command = TRUE]
    /\ UNCHANGED <<build, off, tries, mem, reg>>

\* The writes of the reload, as transfers: a chunk, a boot word, the command.
ChunkTransfer ==
    /\ pc = "load"
    /\ \E o \in Port!Outcomes(AddressLen + NextChunk(off)) : ChunkDone(o)

WordTransfer(w, next, phase) ==
    /\ pc = w
    /\ \E o \in Port!Outcomes(AddressLen + 4) : WordDone(w, next, phase, o)

CommandTransfer ==
    /\ pc = "command"
    /\ \E o \in Port!Outcomes(AddressLen + 4) : CommandDone(o)

Transfer ==
    \/ ChunkTransfer
    \/ WordTransfer("magic", "entry", "ctrl")
    \/ WordTransfer("entry", "stack", "ctrl")
    \/ WordTransfer("stack", "ctrl", "ctrl")
    \/ WordTransfer("ctrl", "command", "ok")
    \/ CommandTransfer

\* The data of an outcome: all of it on Ok, any number of bytes on an error.
LEMMA OutcomeData ==
  ASSUME NEW n \in Nat
  PROVE  /\ \A o \in Port!Outcomes(AddressLen + n) :
              /\ o.ok \in BOOLEAN
              /\ Data(o) \in 0 .. n
              /\ o.ok => Data(o) = n
         /\ \E o \in Port!Outcomes(AddressLen + n) : o.ok
         /\ \A k \in 0 .. n : \E o \in Port!Outcomes(AddressLen + n) :
              ~o.ok /\ Data(o) = k
<1>1. ASSUME NEW o \in Port!Outcomes(AddressLen + n)
      PROVE  o.ok \in BOOLEAN /\ Data(o) \in 0 .. n /\ (o.ok => Data(o) = n)
  <2>1. \A l \in 0 .. (4 + n) : (IF l < 4 THEN 0 ELSE l - 4) \in 0 .. n
    OBVIOUS
  <2>2. CASE o = [landed |-> AddressLen + n, ok |-> TRUE]
    <3>1. o.ok = TRUE /\ o.landed = 4 + n
      BY <2>2 DEF AddressLen
    <3>2. ~(4 + n < 4) /\ (4 + n) - 4 = n /\ n \in 0 .. n
      OBVIOUS
    <3> QED
      BY <3>1, <3>2 DEF Data, AddressLen
  <2>3. CASE o \in [landed : 0 .. (AddressLen + n), ok : {FALSE}]
    <3>1. o.ok = FALSE /\ o.landed \in 0 .. (4 + n)
      BY <2>3 DEF AddressLen
    <3> QED
      BY <2>1, <3>1 DEF Data, AddressLen
  <2> QED
    BY <1>1, <2>2, <2>3 DEF Port!Outcomes
<1>2. [landed |-> AddressLen + n, ok |-> TRUE] \in Port!Outcomes(AddressLen + n)
  BY DEF Port!Outcomes
<1>3. ASSUME NEW k \in 0 .. n
      PROVE  \E o \in Port!Outcomes(AddressLen + n) : ~o.ok /\ Data(o) = k
  <2> DEFINE o == [landed |-> AddressLen + k, ok |-> FALSE]
  <2>1. o \in Port!Outcomes(AddressLen + n) /\ ~o.ok /\ Data(o) = k
    BY DEF Port!Outcomes, AddressLen, Data
  <2> QED
    BY <2>1
<1> QED
  BY <1>1, <1>2, <1>3

\* A chunk of the image goes through one transfer, and whatever that transfer
\* may report is a step of load_image.
LEMMA ChunkIsTransfer ==
  ASSUME TypeOK
  PROVE  LoadChunk <=> ChunkTransfer
<1> DEFINE n == NextChunk(off)
           Out == Port!Outcomes(AddressLen + n)
<1>1. n \in Nat
  BY SizesAssumption DEF TypeOK, NextChunk
<1>2. /\ \A o \in Out : o.ok \in BOOLEAN /\ Data(o) \in 0 .. n /\ (o.ok => Data(o) = n)
      /\ \E o \in Out : o.ok
      /\ \A k \in 0 .. n : \E o \in Out : ~o.ok /\ Data(o) = k
  BY <1>1, OutcomeData
<1> HIDE DEF n, Out
<1>3. ASSUME LoadChunk
      PROVE  pc = "load" /\ \E o \in Out : ChunkDone(o)
  <2>1. CASE /\ mem' = Landed(off, n) /\ off' = off + n
             /\ pc' = IF off' < PayloadLen THEN "load" ELSE "magic"
             /\ owed' = Nothing
    BY <1>2, <1>3, <2>1 DEF LoadChunk, ChunkDone, n
  <2>2. CASE /\ \E k \in 0 .. n :
                   /\ mem' = Landed(off, k)
                   /\ owed' = [Nothing EXCEPT !.mem = @ \cup Part(off + k, n - k)]
             /\ OnError("magic") /\ UNCHANGED off
    <3>1. PICK k \in 0 .. n :
            /\ mem' = Landed(off, k)
            /\ owed' = [Nothing EXCEPT !.mem = @ \cup Part(off + k, n - k)]
      BY <2>2
    <3>2. PICK o \in Out : ~o.ok /\ Data(o) = k
      BY <1>2, <3>1
    <3>3. /\ mem' = Landed(off, Data(o))
          /\ owed' = [Nothing EXCEPT !.mem = @ \cup Part(off + Data(o), n - Data(o))]
      BY <3>1, <3>2
    <3> QED
      BY <1>3, <2>2, <3>2, <3>3 DEF LoadChunk, ChunkDone, n
  <2> QED
    BY <1>3, <2>1, <2>2 DEF LoadChunk, ClearOwed, n
<1>4. ASSUME pc = "load", NEW o \in Out, ChunkDone(o)
      PROVE  LoadChunk
  <2>1. CASE o.ok
    BY <1>2, <1>4, <2>1 DEF LoadChunk, ChunkDone, ClearOwed, n
  <2>2. CASE ~o.ok
    <3>1. Data(o) \in 0 .. n
      BY <1>2
    <3>2. /\ mem' = Landed(off, Data(o))
          /\ owed' = [Nothing EXCEPT !.mem = @ \cup Part(off + Data(o), n - Data(o))]
      BY <1>4, <2>2 DEF ChunkDone, n
    <3>3. OnError("magic") /\ UNCHANGED off /\ UNCHANGED <<build, tries, reg, proc>>
      BY <1>4, <2>2 DEF ChunkDone
    <3> QED
      BY <1>4, <3>1, <3>2, <3>3 DEF LoadChunk, ClearOwed, n
  <2> QED
    BY <2>1, <2>2
<1> QED
  BY <1>3, <1>4 DEF n, Out, ChunkTransfer

\* A boot word, too.
LEMMA WordIsTransfer ==
  ASSUME NEW w, NEW next, NEW phase
  PROVE  WriteWord(w, next, phase) <=> WordTransfer(w, next, phase)
<1> DEFINE Out == Port!Outcomes(AddressLen + 4)
<1>1. /\ \A o \in Out : o.ok \in BOOLEAN /\ (o.ok => Data(o) = 4)
      /\ \E o \in Out : o.ok
      /\ \E o \in Out : ~o.ok /\ Data(o) = 4
      /\ \E o \in Out : ~o.ok /\ Data(o) = 0
  BY OutcomeData
<1> HIDE DEF Out
<1>2. WriteWord(w, next, phase) => pc = w /\ \E o \in Out : WordDone(w, next, phase, o)
  BY <1>1 DEF WriteWord, WordDone, ClearOwed
<1>3. (pc = w /\ \E o \in Out : WordDone(w, next, phase, o)) => WriteWord(w, next, phase)
  BY <1>1 DEF WriteWord, WordDone, ClearOwed
<1> QED
  BY <1>2, <1>3 DEF Out, WordTransfer

\* And the command that releases proc0.
LEMMA CommandIsTransfer == WriteCommand <=> CommandTransfer
<1> DEFINE Out == Port!Outcomes(AddressLen + 4)
<1>1. /\ \A o \in Out : o.ok \in BOOLEAN /\ (o.ok => Data(o) = 4)
      /\ \E o \in Out : o.ok
      /\ \E o \in Out : ~o.ok /\ Data(o) = 4
      /\ \E o \in Out : ~o.ok /\ Data(o) = 0
  BY OutcomeData
<1> HIDE DEF Out
<1>2. WriteCommand => pc = "command" /\ \E o \in Out : CommandDone(o)
  BY <1>1 DEF WriteCommand, CommandDone, ClearOwed
<1>3. (pc = "command" /\ \E o \in Out : CommandDone(o)) => WriteCommand
  BY <1>1 DEF WriteCommand, CommandDone, ClearOwed
<1> QED
  BY <1>2, <1>3 DEF Out, CommandTransfer

\* The phases whose steps are writes without a retry.
Writing == pc \in {"load"} \cup ScratchPhase \cup StartPhase

\* From the load on, a step of the reload is one transfer with an outcome that
\* I2cWrite allows, or lands the rest of one that was given up, and every such
\* outcome is a step: the reload neither trusts the driver with more than it
\* promises nor leaves out a failure.
WritesAreTransfers == [][Writing => Transfer \/ LateLanding]_vars

\* Every write of the reload is one transfer, and every outcome of a transfer is
\* a step of the reload, for every size of the image and of a chunk.
THEOREM WritesOneByOne ==
  /\ Spec => WritesAreTransfers
  /\ Spec => [][Transfer => Step]_vars
<1>1. ASSUME TypeOK
      PROVE  Transfer <=> LoadChunk \/ ProgramScratch \/ WriteCtrl \/ WriteCommand
  BY <1>1, ChunkIsTransfer, WordIsTransfer, CommandIsTransfer DEF Transfer,
     ProgramScratch, WriteCtrl
<1>2. TypeOK /\ [Next]_vars => [Writing => Transfer \/ LateLanding]_vars
  <2>1. ASSUME TypeOK, Next, Writing
        PROVE  Transfer \/ LateLanding
    <3>1. LoadChunk \/ ProgramScratch \/ WriteCtrl \/ WriteCommand \/ LateLanding
      BY <2>1 DEF Next, Step, RunLow, RunHigh, ClearResets, ProbeChipId, Attempt,
         Finished, Returned, ScratchPhase, ScratchWords, StartPhase, Writing
    <3> QED
      BY <1>1, <2>1, <3>1
  <2> QED
    BY <2>1
<1>3. TypeOK => [Transfer => Step]_vars
  BY <1>1 DEF Step
<1>4. Spec => []TypeOK
  BY ReloadTypes
<1>5. Spec => WritesAreTransfers
  BY <1>2, <1>4, PTL DEF Spec, WritesAreTransfers
<1>6. Spec => [][Transfer => Step]_vars
  BY <1>3, <1>4, PTL DEF Spec
<1> QED
  BY <1>5, <1>6
=============================================================================
