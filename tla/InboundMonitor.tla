--------------------------- MODULE InboundMonitor ---------------------------
(***************************************************************************)
(* The inbound monitor proof: the host drives the RP1 through a list of    *)
(* modes over a record in shared SRAM and, for the modes that take a part  *)
(* of BAR1 away, reads BAR1 all the while under an abort vector of its     *)
(* own.  Neither side waits for the other without a timeout, so an answer  *)
(* can be late and the part of BAR1 can go at any moment of the host's     *)
(* loop.  The RP1 program is not part of this code: it is modelled as far  *)
(* as the host's protocol tells, and may stop at any point.                *)
(***************************************************************************)
EXTENDS Integers, Sequences

CONSTANTS
    Builds,     \* subset of AllBuilds: the proof features compiled in
    Ops,        \* bound: probes of one mode (TRAFFIC_OPS)
    Polls       \* bound: polls of ACK or COMPLETION_SEQ before the timeout

AllBuilds == {"block", "protect4k", "hole64k", "interior", "iatu", "focused"}

ASSUME MonitorAssumption ==
    Builds \subseteq AllBuilds /\ {Ops, Polls} \subseteq Nat \ {0}

VARIABLES
    pc,         \* the host's next step; "end" or "parked" when it is over
    build, todo,            \* the modes still to run
    mode, seq,              \* the mode being run, and its number
    polls, ops,
    stop, forced,           \* DONE without a wait; rejected by the host
    seen, got,  \* BLOCK_PHASE as last read, and the value read under it
    during,     \* values read while BLOCK_PHASE was stable at DISABLED
    ok,         \* what wait_rp1_done returned
    vector, armed,          \* VBAR_EL2 is ours; aborts are expected
    rec,        \* the words of the record
    fw,         \* the RP1: [at, seq, mode, effect]
    window,     \* what the RP1 makes of the target part of BAR1
    acked, ran, \* history: <<mode, seq>> acknowledged; those run to the
                \* end, each with whether the window had changed
    taken, late,            \* history: the ACK last accepted; an ACK timed out
    proven      \* history: <<mode, seq>> the host gave a positive verdict

control == <<build, todo, mode, seq, stop>>
probe   == <<ops, seen, got, during>>
guard   == <<vector, armed>>
rp1     == <<fw, window, acked, ran>>
notes   == <<taken, late, proven>>
vars == <<pc, control, polls, forced, probe, ok, guard, rec, rp1, notes>>

-----------------------------------------------------------------------------
Traffic == <<"IDLE", "BAR2_READ", "BAR2_WRITE", "BAR1_READ">>

Plan(b) ==
    CASE b = "block" -> Traffic \o <<"BLOCK">>
      [] b = "protect4k" -> Traffic \o <<"REDIRECT", "HOLE">>
      [] b = "hole64k" -> Traffic \o <<"HOLE">>
      [] b = "interior" -> <<"INTERIOR">>
      [] b = "iatu" -> <<"IATU">>
      [] b = "focused" -> Traffic

IsTraffic(m) == \E i \in 1..Len(Traffic) : Traffic[i] = m
Guarded == {"BLOCK", "HOLE", "INTERIOR"}
Moves   == Guarded \cup {"REDIRECT"}    \* modes in which the window changes
Modes   == Moves \cup {Traffic[i] : i \in 1..Len(Traffic)} \cup {"IATU", "DONE"}
MaxSeq  == Len(Traffic) + 4

\* BLOCK_PHASE
Idle == 0  Checked == 1  Refused == 2  Disabled == 3  Restored == 4  Restoring == 5

TypeOK ==
    /\ pc \in {"entry", "next", "install", "precheck", "send", "seq", "ack",
               "acked", "loop", "probe", "after", "wait", "post", "postprobe",
               "verdict", "end", "parked"}
    /\ build \in AllBuilds /\ todo \in Seq(Modes)
    /\ mode \in Modes /\ seq \in 0..MaxSeq
    /\ polls \in 0..(Polls - 1) /\ ops \in 0..(Ops - 1)
    /\ stop \in BOOLEAN /\ forced \in BOOLEAN /\ ok \in BOOLEAN
    /\ seen \in 0..5
    /\ got \in {"chip", "dummy", "ff", "abort", "none"}
    /\ during \subseteq {"chip", "dummy", "ff", "abort"}
    /\ vector \in BOOLEAN /\ armed \in BOOLEAN
    /\ rec \in [seq : 0..MaxSeq, mode : Modes \cup {"none"}, go : 0..MaxSeq,
                ack : 0..MaxSeq, phase : 0..5, doneSeq : 0..MaxSeq,
                done : {"none", "done", "rejected", "rounded"}]
    /\ fw \in [at : {"idle", "ack", "go", "run", "checked", "announced", "shut",
                     "moved", "open", "publish"},
               seq : 0..MaxSeq, mode : Modes \cup {"none"}, effect : BOOLEAN]
    /\ window \in {"open", "closed", "dummy"}
    /\ acked \subseteq Modes \X (0..MaxSeq)
    /\ ran \subseteq Modes \X (0..MaxSeq) \X BOOLEAN
    /\ taken \in (Modes \cup {"none"}) \X (0..MaxSeq)
    /\ late \in BOOLEAN
    /\ proven \subseteq Modes \X (0..MaxSeq)

\* The RP1 has been started and has laid the record out; SEQ 0 is in it.
Init ==
    /\ pc = "entry" /\ build \in Builds /\ todo = Plan(build)
    /\ mode = "DONE" /\ seq = 0 /\ polls = 0 /\ ops = 0
    /\ stop = FALSE /\ forced = FALSE /\ ok = FALSE
    /\ seen = Idle /\ got = "none" /\ during = {}
    /\ vector = FALSE /\ armed = FALSE
    /\ rec = [seq |-> 0, mode |-> "none", go |-> 0, ack |-> 0, phase |-> Idle,
              doneSeq |-> 0, done |-> "none"]
    /\ fw = [at |-> "idle", seq |-> 0, mode |-> "none", effect |-> FALSE]
    /\ window = "open"
    /\ acked = {} /\ ran = {}
    /\ taken = <<"none", 0>> /\ late = FALSE /\ proven = {}

-----------------------------------------------------------------------------
(* The host.                                                               *)

Entry ==
    /\ pc = "entry"
    /\ \/ pc' = "end" /\ seq' = seq     \* a BAR, the chip, EL or the record
       \/ pc' = "next" /\ seq' = rec.seq + 1
    /\ UNCHANGED <<build, todo, mode, stop, polls, forced, probe, ok, guard,
                   rec, rp1, notes>>

\* monitor_health_allows_block(): before the first mode that moves the window.
Gated(m) == m \in {"BLOCK", "REDIRECT"} \/ (m = "HOLE" /\ build = "hole64k")

Begin(m) == IF m \in Guarded THEN "install"
            ELSE IF m = "REDIRECT" THEN "precheck" ELSE "send"

NextMode ==
    /\ pc = "next"
    /\ IF todo = << >>
       THEN mode' = "DONE" /\ seq' = seq + 1 /\ todo' = todo /\ pc' = "send"
       ELSE \/ /\ mode' = Head(todo) /\ todo' = Tail(todo) /\ seq' = seq
               /\ pc' = Begin(Head(todo))
            \/ /\ Gated(Head(todo))
               /\ todo' = << >> /\ UNCHANGED <<mode, seq, pc>>
    /\ forced' = FALSE
    /\ UNCHANGED <<build, stop, polls, probe, ok, guard, rec, rp1, notes>>

\* The mode is given up before or after it ran: run_..._mode returns, DONE is next.
GiveUp == pc' = "next" /\ todo' = << >>
Release == vector' = FALSE /\ armed' = FALSE

Install ==
    /\ pc = "install"
    /\ \/ /\ vector' = TRUE /\ todo' = todo
          /\ pc' = IF mode = "INTERIOR" THEN "send" ELSE "precheck"
       \/ GiveUp /\ vector' = vector    \* exceptions not masked
    /\ UNCHANGED <<build, mode, seq, stop, polls, forced, probe, ok, armed, rec,
                   rp1, notes>>

\* A read of the target: all ones or an abort when the window is closed.
Reads == CASE window = "open" -> {"chip"}
           [] window = "dummy" -> {"dummy"}
           [] window = "closed" -> {"ff", "abort"}

\* __rp1_bar1_sync_current_spx: the abort of an armed probe at DISABLED is
\* skipped over, any other one leaves the core in its wfe loop.
Survives(v) == v = "abort" => vector /\ armed /\ seen = Disabled

Precheck ==
    /\ pc = "precheck"
    /\ \E v \in Reads :
          \/ ~Survives(v) /\ pc' = "parked" /\ UNCHANGED <<todo, guard>>
          \/ v = "chip" /\ pc' = "send" /\ UNCHANGED <<todo, guard>>
          \/ Survives(v) /\ GiveUp /\ Release     \* also: control, canary
    /\ UNCHANGED <<build, mode, seq, stop, polls, forced, probe, ok, rec, rp1,
                   notes>>

\* send_mode_and_wait_ack
SendMode ==
    /\ pc = "send" /\ pc' = "seq"
    /\ rec' = [rec EXCEPT !.go = 0, !.mode = mode]
    /\ UNCHANGED <<control, polls, forced, probe, ok, guard, rp1, notes>>

SendSeq ==
    /\ pc = "seq" /\ pc' = "ack"
    /\ rec' = [rec EXCEPT !.seq = seq]
    /\ polls' = 0
    /\ UNCHANGED <<control, forced, probe, ok, guard, rp1, notes>>

\* Mutant: any acknowledgement will do.
AnyAck == rec.ack # 0

AckSeen == rec.ack = seq

\* Mutant: one poll too many.
LastPollLate == polls = Polls

LastPoll == polls + 1 = Polls

\* Mutant: the early return forgets restore_abort_vector.
AckTimeoutKeepsVector ==
    CASE IsTraffic(mode) ->
            pc' = "send" /\ mode' = "DONE" /\ stop' = TRUE
            /\ UNCHANGED <<todo, guard>>
      [] mode = "DONE" -> pc' = "end" /\ UNCHANGED <<mode, stop, todo, guard>>
      [] OTHER -> GiveUp /\ UNCHANGED <<mode, stop, guard>>

\* A traffic mode that is not acknowledged ends the list: DONE is sent under
\* the number that has just timed out.  Any other mode only returns.
AckTimeout ==
    CASE IsTraffic(mode) ->
            pc' = "send" /\ mode' = "DONE" /\ stop' = TRUE
            /\ UNCHANGED <<todo, guard>>
      [] mode = "DONE" -> pc' = "end" /\ UNCHANGED <<mode, stop, todo, guard>>
      [] OTHER -> GiveUp /\ Release /\ UNCHANGED <<mode, stop>>

PollAck ==
    /\ pc = "ack"
    /\ \/ /\ AckSeen
          /\ pc' = "acked" /\ taken' = <<mode, seq>>
          /\ UNCHANGED <<mode, stop, todo, guard, polls, late>>
       \/ /\ ~AckSeen /\ ~LastPoll
          /\ polls' = polls + 1
          /\ UNCHANGED <<pc, mode, stop, todo, guard, taken, late>>
       \/ /\ ~AckSeen /\ LastPoll
          /\ AckTimeout /\ late' = TRUE /\ polls' = 0 /\ UNCHANGED taken
    /\ UNCHANGED <<build, seq, forced, probe, ok, rec, rp1, proven>>

\* validate_dummy_page_from_bar2() failed: MODE 0, so that the RP1 refuses.
ForceReject ==
    /\ pc = "acked" /\ mode \in {"REDIRECT", "HOLE"}
    /\ rec' = [rec EXCEPT !.mode = "none", !.go = seq]
    /\ forced' = TRUE /\ polls' = 0 /\ pc' = "wait"
    /\ UNCHANGED <<control, probe, ok, guard, rp1, notes>>

AfterGo == IF mode \in Moves THEN "loop"
           ELSE IF mode = "DONE" /\ stop THEN "end" ELSE "wait"

Go ==
    /\ pc = "acked"
    /\ rec' = [rec EXCEPT !.go = seq]
    /\ armed' = (mode \in Guarded)
    /\ seen' = Idle /\ got' = "none" /\ during' = {} /\ ops' = 0
    /\ polls' = 0 /\ pc' = AfterGo
    /\ UNCHANGED <<control, forced, ok, vector, rp1, notes>>

\* The interior mode reads its anchors before GO and may not like them.
Unstable ==
    /\ pc = "acked" /\ mode = "INTERIOR"
    /\ GiveUp /\ Release
    /\ UNCHANGED <<build, mode, seq, stop, polls, forced, probe, ok, rec, rp1,
                   notes>>

\* One turn of the TRAFFIC_OPS loop: BLOCK_PHASE, the target, BLOCK_PHASE.
ReadPhase ==
    /\ pc = "loop" /\ pc' = "probe"
    /\ seen' = rec.phase
    /\ UNCHANGED <<control, polls, forced, ops, got, during, ok, guard, rec,
                   rp1, notes>>

\* Mutant: the target is read in every phase.
ProbesAlways(m, phase) == TRUE

ProbesIn(m, phase) == m = "HOLE" => phase = Disabled

Probe ==
    /\ pc = "probe"
    /\ IF ProbesIn(mode, seen)
       THEN \E v \in Reads :
               IF Survives(v) THEN got' = v /\ pc' = "after"
                              ELSE got' = got /\ pc' = "parked"
       ELSE got' = "none" /\ pc' = "after"
    /\ UNCHANGED <<control, polls, forced, ops, seen, during, ok, guard, rec,
                   rp1, notes>>

CountProbe ==
    /\ pc = "after"
    /\ during' = IF seen = Disabled /\ rec.phase = seen /\ got # "none"
                 THEN during \cup {got} ELSE during
    /\ IF ops + 1 = Ops THEN ops' = 0 /\ pc' = "wait"
                        ELSE ops' = ops + 1 /\ pc' = "loop"
    /\ UNCHANGED <<control, polls, forced, seen, got, ok, guard, rec, rp1, notes>>

\* Mutant: COMPLETION is looked at without its number.
AnyCompletion == rec.done # "none"

\* wait_rp1_done
DoneSeen == rec.doneSeq = seq

\* Mutant: the wait has no timeout.
PollDoneForever ==
    /\ pc = "wait"
    /\ IF DoneSeen THEN ok' = (rec.done = "done") /\ pc' = "post" ELSE UNCHANGED <<pc, ok>>
    /\ UNCHANGED <<control, polls, forced, probe, guard, rec, rp1, notes>>

PollDone ==
    /\ pc = "wait"
    /\ \/ DoneSeen /\ ok' = (rec.done = "done") /\ pc' = "post" /\ polls' = 0
       \/ ~DoneSeen /\ LastPoll /\ ok' = FALSE /\ pc' = "post" /\ polls' = 0
       \/ ~DoneSeen /\ ~LastPoll /\ polls' = polls + 1 /\ UNCHANGED <<pc, ok>>
    /\ UNCHANGED <<control, forced, probe, guard, rec, rp1, notes>>

AfterTraffic ==
    /\ pc = "post" /\ IsTraffic(mode)
    /\ seq' = seq + 1
    /\ IF ok THEN pc' = "next" /\ UNCHANGED <<mode, stop>>
             ELSE pc' = "send" /\ mode' = "DONE" /\ stop' = TRUE
    /\ UNCHANGED <<build, todo, polls, forced, probe, ok, guard, rec, rp1, notes>>

AfterDone ==
    /\ pc = "post" /\ mode = "DONE"
    /\ pc' = "end"
    /\ UNCHANGED <<control, polls, forced, probe, ok, guard, rec, rp1, notes>>

AfterReject ==
    /\ pc = "post" /\ forced
    /\ GiveUp /\ Release /\ seq' = seq + 1
    /\ UNCHANGED <<build, mode, stop, polls, forced, probe, ok, rec, rp1, notes>>

\* After the wait a hole is probed again only when the RP1 says it is mended.
PostPhase ==
    /\ pc = "post" /\ mode \in Moves \cup {"IATU"} /\ ~forced
    /\ seen' = rec.phase
    /\ IF mode = "HOLE" /\ rec.phase # Restored
       THEN got' = "abort" /\ pc' = "verdict"
       ELSE got' = got /\ pc' = "postprobe"
    /\ UNCHANGED <<control, polls, forced, ops, during, ok, guard, rec, rp1, notes>>

PostProbe ==
    /\ pc = "postprobe"
    /\ \E v \in Reads : IF Survives(v) THEN got' = v /\ pc' = "verdict"
                                       ELSE got' = got /\ pc' = "parked"
    /\ UNCHANGED <<control, polls, forced, ops, seen, during, ok, guard, rec,
                   rp1, notes>>

-----------------------------------------------------------------------------
(* The verdicts.                                                           *)

\* Mutant: the restore gate does not ask for the completion.
RestoreGateNoWait == rec.phase = Restored /\ got = "chip"

\* protection_restore_gate
RestoreGate == ok /\ rec.phase = Restored /\ got = "chip"

\* the record gates of the interior and iatu modes
RecordGate ==
    /\ rec.ack = seq /\ rec.go = seq /\ rec.mode = mode /\ rec.doneSeq = seq
    /\ rec.done = "done" /\ rec.phase = Restored

\* redirect_program_granularity_rejected_clean
RoundedGate ==
    /\ ~ok /\ got = "chip" /\ rec.phase = Refused /\ rec.done = "rounded"
    /\ rec.ack = seq /\ rec.go = seq /\ rec.mode = mode /\ rec.doneSeq = seq

Proves ==
    CASE mode = "BLOCK" -> ok /\ got = "chip"
      [] mode = "REDIRECT" -> RestoreGate /\ during = {"dummy"}
      [] mode = "HOLE" -> RestoreGate /\ during # {} /\ during \subseteq {"ff", "abort"}
      [] mode = "INTERIOR" -> ok /\ RecordGate /\ got = "chip" /\ during = {"ff"}
      [] mode = "IATU" -> ok /\ RecordGate /\ got = "chip"

\* Only a redirect without effect, or refused by the hardware, and undone
\* either way, is followed by the hole.
FallsBack == mode = "REDIRECT" /\ (RoundedGate \/ (RestoreGate /\ during = {"chip"}))

\* The iATU snapshots, flags and control reads a verdict also asks for may
\* still refuse it; run_block_mode asks for nothing else.
Verdict ==
    /\ pc = "verdict" /\ pc' = "next"
    /\ Release
    /\ \/ /\ proven' = IF Proves THEN proven \cup {<<mode, seq>>} ELSE proven
          /\ todo' = IF FallsBack THEN todo ELSE << >>
       \/ mode # "BLOCK" /\ proven' = proven /\ todo' = << >>
    /\ seq' = seq + 1
    /\ UNCHANGED <<build, mode, stop, polls, forced, probe, ok, rec, rp1, taken,
                   late>>

Host ==
    \/ Entry \/ NextMode \/ Install \/ Precheck \/ SendMode \/ SendSeq \/ PollAck
    \/ ForceReject \/ Go \/ Unstable \/ ReadPhase \/ Probe \/ CountProbe
    \/ PollDone \/ AfterTraffic \/ AfterDone \/ AfterReject \/ PostPhase
    \/ PostProbe \/ Verdict

-----------------------------------------------------------------------------
(* The RP1 program.                                                        *)

FwAt(a, b) == fw.at = a /\ fw' = [fw EXCEPT !.at = b]
Silent == UNCHANGED <<pc, control, polls, forced, probe, ok, guard, notes>>

FwLatch ==
    /\ fw.at \in {"idle", "go"} /\ rec.seq # fw.seq
    /\ fw' = [at |-> "ack", seq |-> rec.seq, mode |-> rec.mode, effect |-> FALSE]
    /\ Silent /\ UNCHANGED <<rec, window, acked, ran>>

FwAck ==
    /\ FwAt("ack", "go")
    /\ rec' = [rec EXCEPT !.ack = fw.seq, !.phase = Idle]
    /\ acked' = acked \cup {<<fw.mode, fw.seq>>}
    /\ Silent /\ UNCHANGED <<window, ran>>

FwGo ==
    /\ fw.at = "go" /\ rec.go = fw.seq
    /\ IF rec.mode = fw.mode
       THEN fw' = [fw EXCEPT !.at = "run"] /\ rec' = rec
       ELSE fw' = [fw EXCEPT !.at = "publish"]
            /\ rec' = [rec EXCEPT !.phase = Refused, !.done = "rejected"]
    /\ Silent /\ UNCHANGED <<window, acked, ran>>

FwRun ==
    /\ fw.at = "run"
    /\ \/ /\ fw.mode \notin Moves
          /\ fw' = [fw EXCEPT !.at = "publish"]
          /\ rec' = [rec EXCEPT !.done = "done",
                        !.phase = IF fw.mode = "IATU" THEN Restored ELSE @]
       \/ /\ fw.mode \in Moves
          /\ fw' = [fw EXCEPT !.at = "checked"]
          /\ rec' = [rec EXCEPT !.phase = Checked]
       \/ /\ fw.mode \in Moves
          /\ fw' = [fw EXCEPT !.at = "publish"]
          /\ \E d \in {"rejected", "rounded"} :
                rec' = [rec EXCEPT !.phase = Refused, !.done = d]
    /\ Silent /\ UNCHANGED <<window, acked, ran>>

\* The window moves and DISABLED is published, in either order.
FwAnnounce ==
    /\ FwAt("checked", "announced") \/ FwAt("shut", "moved")
    /\ rec' = [rec EXCEPT !.phase = Disabled]
    /\ Silent /\ UNCHANGED <<window, acked, ran>>

FwMove ==
    /\ fw.at \in {"checked", "announced"}
    /\ \E e \in BOOLEAN :
          /\ fw' = [fw EXCEPT !.at = IF @ = "checked" THEN "shut" ELSE "moved",
                              !.effect = e]
          /\ window' = IF ~e THEN "open"
                       ELSE IF fw.mode = "REDIRECT" THEN "dummy" ELSE "closed"
    /\ Silent /\ UNCHANGED <<rec, acked, ran>>

\* The window is mended before RESTORED is published.
FwMend ==
    /\ FwAt("moved", "open") /\ window' = "open"
    /\ rec' = [rec EXCEPT !.phase = IF fw.mode = "INTERIOR" THEN Restoring ELSE @]
    /\ Silent /\ UNCHANGED <<acked, ran>>

FwRestored ==
    /\ FwAt("open", "publish")
    /\ rec' = [rec EXCEPT !.phase = Restored, !.done = "done"]
    /\ Silent /\ UNCHANGED <<window, acked, ran>>

FwPublish ==
    /\ FwAt("publish", "idle")
    /\ rec' = [rec EXCEPT !.doneSeq = fw.seq]
    /\ ran' = IF rec.done = "done" THEN ran \cup {<<fw.mode, fw.seq, fw.effect>>}
                                   ELSE ran
    /\ Silent /\ UNCHANGED <<window, acked>>

Rp1 == FwLatch \/ FwAck \/ FwGo \/ FwRun \/ FwAnnounce \/ FwMove \/ FwMend
       \/ FwRestored \/ FwPublish

Over == pc \in {"end", "parked"} /\ UNCHANGED vars

Next == Host \/ Rp1 \/ Over

\* The host runs; nothing is assumed of the RP1.
Spec == Init /\ [][Next]_vars /\ WF_vars(Host)

-----------------------------------------------------------------------------
(* Properties.                                                             *)

\* Whatever way a mode ends (vector refused, precondition, ACK timeout, dummy
\* page, unstable anchors, a normal end), the old vector is back and aborts are
\* no longer expected before the next mode begins or the proof ends.
NoGuardLeft ==
    pc \in {"entry", "next", "end"} \/ mode \notin Guarded => ~vector /\ ~armed

\* The hole modes never park the core, however late the RP1 is and whenever the
\* hole opens and closes: they read the target only under DISABLED as last
\* read, or RESTORED after the wait.  BLOCK and INTERIOR read it in every phase
\* and can be caught by a window that closes after the phase was read.
OnlyRacyModesPark == pc = "parked" => mode \in {"BLOCK", "INTERIOR"}

\* A positive verdict is about a run that took place: the RP1 ran that mode
\* under that number to its end, and where the verdict says the window moved,
\* it had moved.  A completion left by an earlier mode is never taken for it.
VerdictIsReal ==
    \A p \in proven :
        \E e \in BOOLEAN :
            /\ <<p[1], p[2], e>> \in ran
            /\ p[1] \in {"REDIRECT", "HOLE", "INTERIOR"} => e

\* An ACK the host accepts is the RP1's ACK of that very mode, with one
\* exception: DONE after a traffic mode that was not acknowledged in time, for
\* it is sent under the same number and the late ACK of the mode answers it.
AckIsItsOwn ==
    \/ taken[1] = "none"
    \/ taken \in acked
    \/ /\ taken[1] = "DONE" /\ late /\ stop
       /\ \E i \in 1..Len(Traffic) : <<Traffic[i], taken[2]>> \in acked

\* The hole is tried after the redirect only when the RP1 has finished with the
\* redirect and has undone it: a wait that timed out is never taken for an end.
FallbackIsClean ==
    mode = "HOLE" /\ pc \in {"install", "precheck", "send", "seq"} =>
        fw.at = "idle" /\ window = "open"

\* The proof ends or parks the core, whatever the RP1 does or stops doing.
Ends == <>(pc \in {"end", "parked"})

=============================================================================
