----------------------------- MODULE FinalRecord ------------------------------
(***************************************************************************)
(* wait_spi_peer_final (rp1_debug_stub.rs) and its caller: the host polls  *)
(* the head of a record in RP1 memory, and once it carries the tag copies  *)
(* the record and reads the head again; head, copy and second head must    *)
(* agree.  The firmware clears the tag when it starts, writes the words    *)
(* and publishes the tag last; a record of an earlier boot may still be    *)
(* there.  A run of the firmware takes longer than a copy of the host's.   *)
(***************************************************************************)
EXTENDS Naturals

CONSTANT FinalPolls   \* 2000
ASSUME FinalAssumption == FinalPolls \in Nat \ {0}

VARIABLES
  record,   \* the head: tag and a word of it, and two words of the body
  run,      \* the firmware's place, and whether its run began during a copy
  final     \* the host's place, the heads and words it read, and its verdict

finalVars == <<record, run, final>>

Ages == {"old", "new"}
Blank == [tag |-> FALSE, head |-> "old", p |-> "old", q |-> "old"]
NoHead == [tag |-> FALSE, head |-> "old"]

FinalInit ==
  /\ record \in {Blank, [Blank EXCEPT !.tag = TRUE]}
  /\ run = [pc |-> "clear", during |-> FALSE]
  /\ final = [pc |-> "poll", poll |-> 1, seen |-> NoHead, copy |-> NoHead,
              p |-> "old", q |-> "old", result |-> "none"]

-----------------------------------------------------------------------------

Copying == final.pc \notin {"poll", "end"}

RunClear ==
  /\ run.pc = "clear"
  /\ record' = [record EXCEPT !.tag = FALSE]
  /\ run' = [pc |-> "head", during |-> Copying]

RunWord(word, from, to) ==
  /\ run.pc = from
  /\ record' = [record EXCEPT ![word] = "new"]
  /\ run' = [run EXCEPT !.pc = to]

RunPublish ==
  /\ run.pc = "publish" /\ ~run.during
  /\ record' = [record EXCEPT !.tag = TRUE]
  /\ run' = [run EXCEPT !.pc = "done"]

FinalFirmware ==
  /\ final.pc # "end"
  /\ \/ RunClear
     \/ RunWord("head", "head", "p") \/ RunWord("p", "p", "q") \/ RunWord("q", "q", "publish")
     \/ RunPublish
  /\ UNCHANGED final

-----------------------------------------------------------------------------

HeadWords == [tag |-> record.tag, head |-> record.head]

FinishFinal(result) == final' = [final EXCEPT !.pc = "end", !.result = result]

\* Variant: one poll more.
OnePollMore == final.poll > FinalPolls

PollsDone == final.poll = FinalPolls

\* The head; without the tag a delay and another poll.
PollHead ==
  /\ final.pc = "poll"
  /\ IF HeadWords.tag THEN final' = [final EXCEPT !.pc = "copyhead", !.seen = HeadWords]
     ELSE IF PollsDone THEN FinishFinal("final-tag-timeout")
     ELSE final' = [final EXCEPT !.poll = @ + 1]

CopyHead ==
  /\ final.pc = "copyhead"
  /\ final' = [final EXCEPT !.pc = "copyp", !.copy = HeadWords]

CopyWord(word, from, to) ==
  /\ final.pc = from
  /\ final' = [final EXCEPT !.pc = to, ![word] = record[word]]

\* Variant: the heads are not compared.
AnyHeads(after) == TRUE

SameHeads(after) == final.copy = final.seen /\ after = final.seen

HeadAfter ==
  /\ final.pc = "after"
  /\ FinishFinal(IF SameHeads(HeadWords) THEN "record" ELSE "header-changed")

\* read_mem refuses its range: header-read, record-read, post-header-read.
ReadRefused ==
  /\ final.pc \in {"poll", "copyhead", "after"}
  /\ FinishFinal("read")

FinalHost ==
  /\ \/ PollHead \/ CopyHead
     \/ CopyWord("p", "copyp", "copyq") \/ CopyWord("q", "copyq", "after")
     \/ HeadAfter \/ ReadRefused
  /\ UNCHANGED <<record, run>>

-----------------------------------------------------------------------------

FinalTypeOK ==
  /\ record \in [tag: BOOLEAN, head: Ages, p: Ages, q: Ages]
  /\ run \in [pc: {"clear", "head", "p", "q", "publish", "done"}, during: BOOLEAN]
  /\ final \in [pc: {"poll", "copyhead", "copyp", "copyq", "after", "end"},
                poll: 1 .. FinalPolls, seen: [tag: BOOLEAN, head: Ages],
                copy: [tag: BOOLEAN, head: Ages], p: Ages, q: Ages,
                result: {"none", "record", "read", "header-changed", "final-tag-timeout"}]

(* A record the host accepts is of one boot: the words of an earlier boot's
   record are never mixed with this boot's.                                 *)
FinalIsWhole ==
  final.result = "record" => final.p = final.seen.head /\ final.q = final.seen.head

=============================================================================
