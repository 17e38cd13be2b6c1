------------------------------ MODULE I2cWrite ------------------------------
(***************************************************************************)
(* What a write to the RP1's I2C boot port promises its caller, without    *)
(* saying how: the bytes of the packet land one at a time and in order,    *)
(* nothing else ever lands, and Ok is returned of a whole packet only.  An *)
(* error says nothing of how much has landed, the whole packet included,   *)
(* and the rest may still land after it, until the next write begins.      *)
(***************************************************************************)
EXTENDS Naturals, Sequences

CONSTANT Packet         \* the bytes of the write, in order

VARIABLES
    sent,               \* the bytes that have landed
    result              \* "none" until the call returns

vars == <<sent, result>>

Init ==
    /\ sent = <<>>
    /\ result = "none"

\* A byte lands, also after an error: nothing has stopped the controller.
Land ==
    /\ result # "Ok"
    /\ Len(sent) < Len(Packet)
    /\ sent' = Append(sent, Packet[Len(sent) + 1])
    /\ UNCHANGED result

Succeed ==
    /\ result = "none"
    /\ sent = Packet
    /\ result' = "Ok"
    /\ UNCHANGED sent

Fail ==
    /\ result = "none"
    /\ result' \in {"I2cNack", "I2cTimeout"}
    /\ UNCHANGED sent

Next == Land \/ Succeed \/ Fail

Spec == Init /\ [][Next]_vars

-----------------------------------------------------------------------------
\* What the caller of a write of n bytes may find when it returns and later.
Outcomes(n) ==
    {[landed |-> n, ok |-> TRUE]} \cup [landed : 0..n, ok : {FALSE}]
=============================================================================
