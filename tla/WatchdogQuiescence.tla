-------------------------- MODULE WatchdogQuiescence --------------------------
(***************************************************************************)
(* log_watchdog_quiescence (rp1_debug_stub.rs): one region of RP1 memory   *)
(* carries the host's request to disable a watchdog and later, over the    *)
(* same words, the host's last word, an acknowledgement that it will not   *)
(* touch the RP1 again.  Payload first, token last, each written once.     *)
(* Each look of the host is a sweep of the record in index order: errors   *)
(* and tag, state, receipt, region.  A record of an earlier boot may still *)
(* be there when the host begins.                                          *)
(***************************************************************************)
EXTENDS Naturals

CONSTANT DogPolls   \* 240
ASSUME DogAssumption == DogPolls \in Nat \ {0}

VARIABLES
  region,   \* a token and two words of payload
  receipt,  \* the firmware's record: state, error, and two words of receipt
  m3,       \* the firmware: its place and whether it has disabled the watchdog
  dog,      \* the host's place and locals
  stopped   \* history: the host saw the GEM stopped

dogVars == <<region, receipt, m3, dog, stopped>>

Tokens == {"none", "WQ03", "QA03"}
Payloads == {"none", "request", "ack"}
States == {"none", "ready", "disabled"}   \* w[98]: none, 1 and 4

Request == [token |-> "WQ03", p |-> "request", q |-> "request"]

DogInit ==
  /\ region = [token |-> "none", p |-> "none", q |-> "none"]
  /\ receipt \in {[state |-> s, error |-> FALSE, p |-> w, q |-> w] : s \in States, w \in {"none", "old"}}
  /\ m3 = [pc |-> "clear", disabled |-> FALSE]
  /\ dog = [pc |-> "state", poll |-> 1, requested |-> FALSE, state |-> "none",
            good |-> TRUE, result |-> "none"]
  /\ stopped = FALSE

-----------------------------------------------------------------------------
(* The firmware. *)

M3Clear ==
  /\ m3.pc = "clear"
  /\ receipt' = [state |-> "none", error |-> FALSE, p |-> "none", q |-> "none"]
  /\ m3' = [m3 EXCEPT !.pc = "ready"]

M3Ready ==
  /\ m3.pc = "ready"
  /\ receipt' = [receipt EXCEPT !.state = "ready"]
  /\ m3' = [m3 EXCEPT !.pc = "request"]

\* The token is there: the request is taken if its payload is right.
M3Take ==
  /\ m3.pc = "request" /\ region.token = "WQ03"
  /\ IF region = Request
     THEN m3' = [pc |-> "p", disabled |-> TRUE] /\ UNCHANGED receipt
     ELSE m3' = [m3 EXCEPT !.pc = "failed"] /\ receipt' = [receipt EXCEPT !.error = TRUE]

M3Receipt(word, from, to) ==
  /\ m3.pc = from
  /\ receipt' = [receipt EXCEPT ![word] = "new"]
  /\ m3' = [m3 EXCEPT !.pc = to]

M3Disabled ==
  /\ m3.pc = "state"
  /\ receipt' = [receipt EXCEPT !.state = "disabled"]
  /\ m3' = [m3 EXCEPT !.pc = "ack"]

M3Fail ==
  /\ m3.pc \in {"ready", "request", "p", "q", "state"}
  /\ receipt' = [receipt EXCEPT !.error = TRUE]
  /\ m3' = [m3 EXCEPT !.pc = "failed"]

DogFirmware ==
  /\ dog.pc # "end"
  /\ \/ M3Clear \/ M3Ready \/ M3Take
     \/ M3Receipt("p", "p", "q") \/ M3Receipt("q", "q", "state")
     \/ M3Disabled \/ M3Fail
  /\ UNCHANGED <<region, dog, stopped>>

-----------------------------------------------------------------------------
(* The host. *)

DogEnd(result) == dog' = [dog EXCEPT !.pc = "end", !.result = result]

NextLook(requested) ==
  IF dog.poll = DogPolls THEN DogEnd("bounded-wait")
  ELSE dog' = [dog EXCEPT !.pc = "state", !.poll = @ + 1, !.requested = requested,
                          !.state = "none", !.good = TRUE]

\* The sweep; the error words lie before the state and after it.
SweepState ==
  /\ dog.pc = "state"
  /\ dog' = [dog EXCEPT !.pc = "receipt", !.state = receipt.state, !.good = ~receipt.error]
  /\ UNCHANGED <<region, stopped>>

SweepReceipt ==
  /\ dog.pc = "receipt"
  /\ IF ~dog.good \/ receipt.error THEN DogEnd("firmware-error")
     ELSE dog' = [dog EXCEPT !.pc = "region", !.good = receipt.p # "none" /\ receipt.q # "none"]
  /\ UNCHANGED <<region, stopped>>

Answered == dog.requested /\ dog.state = "disabled"

\* The region last; the receipt's measurements may be out of range.
SweepRegion ==
  /\ dog.pc = "region"
  /\ IF ~dog.requested /\ dog.state = "ready" THEN dog' = [dog EXCEPT !.pc = "p"]
     ELSE IF ~Answered THEN NextLook(dog.requested)
     ELSE \/ dog.good /\ region = Request /\ dog' = [dog EXCEPT !.pc = "gem"]
          \/ DogEnd("disabled-receipt")
  /\ UNCHANGED <<region, stopped>>

\* Variant: the token goes first.
TokenFirst(token, payload) ==
  \/ dog.pc \in {"p", "ackp"} /\ region' = [region EXCEPT !.token = token]
  \/ dog.pc \in {"q", "ackq"} /\ region' = [region EXCEPT !.p = payload]
  \/ dog.pc \in {"token", "acktoken"} /\ region' = [region EXCEPT !.q = payload]

\* Words 1 to 7, then word 0; the barrier keeps them in order.
TokenLast(token, payload) ==
  \/ dog.pc \in {"p", "ackp"} /\ region' = [region EXCEPT !.p = payload]
  \/ dog.pc \in {"q", "ackq"} /\ region' = [region EXCEPT !.q = payload]
  \/ dog.pc \in {"token", "acktoken"} /\ region' = [region EXCEPT !.token = token]

After(pc) ==
  CASE pc = "p" -> "q" [] pc = "q" -> "token" [] pc = "token" -> "readback"
    [] pc = "ackp" -> "ackq" [] pc = "ackq" -> "acktoken"

WriteRequest ==
  /\ dog.pc \in {"p", "q", "token"}
  /\ TokenLast("WQ03", "request")
  /\ dog' = [dog EXCEPT !.pc = After(@)]
  /\ UNCHANGED stopped

\* A readback that differs ends it, with the request standing.
ReadBack ==
  /\ dog.pc = "readback"
  /\ NextLook(TRUE) \/ DogEnd("request-readback")
  /\ UNCHANGED <<region, stopped>>

\* verify_stopped_from_rp1_config: a failure leaves the receipt unanswered.
VerifyGem ==
  /\ dog.pc = "gem"
  /\ \/ dog' = [dog EXCEPT !.pc = "ackp"] /\ stopped' = TRUE
     \/ DogEnd("pre-ack-gem-stop") /\ UNCHANGED stopped
  /\ UNCHANGED region

\* The last write is the last access of all.
WriteAck ==
  /\ dog.pc \in {"ackp", "ackq", "acktoken"}
  /\ TokenLast("QA03", "ack")
  /\ IF dog.pc = "acktoken" THEN DogEnd("quiesced") ELSE dog' = [dog EXCEPT !.pc = After(@)]
  /\ UNCHANGED stopped

DogHost ==
  /\ \/ SweepState \/ SweepReceipt \/ SweepRegion
     \/ WriteRequest \/ ReadBack \/ VerifyGem \/ WriteAck
  /\ UNCHANGED <<receipt, m3>>

-----------------------------------------------------------------------------

Looks ==
  [pc: {"state", "receipt", "region", "p", "q", "token", "readback", "gem",
          "ackp", "ackq", "acktoken", "end"},
     poll: 1 .. DogPolls, requested: BOOLEAN, state: States, good: BOOLEAN,
     result: {"none", "bounded-wait", "firmware-error", "disabled-receipt",
              "request-readback", "pre-ack-gem-stop", "quiesced"}]

DogTypeOK ==
  /\ region \in [token: Tokens, p: Payloads, q: Payloads]
  /\ receipt \in [state: States, error: BOOLEAN, p: {"none", "old", "new"}, q: {"none", "old", "new"}]
  /\ m3 \in [pc: {"clear", "ready", "request", "p", "q", "state", "ack", "failed"}, disabled: BOOLEAN]
  /\ dog \in Looks
  /\ stopped \in BOOLEAN

(* An acknowledgement stands in RP1 memory only with its payload behind it,
   after this boot's firmware took the request, disabled the watchdog and
   completed its receipt, and with the GEM seen stopped; and firmware that is
   looking for a request never sees the token of one without its payload.    *)
AckIsEarned ==
  /\ region.token = "QA03" =>
       /\ region.p = "ack" /\ region.q = "ack"
       /\ m3.disabled /\ m3.pc = "ack" /\ receipt.p = "new" /\ receipt.q = "new"
       /\ stopped
  /\ m3.pc \in {"clear", "ready", "request"} /\ region.token = "WQ03" => region = Request

=============================================================================
