------------------------------ MODULE DhcpBoot ------------------------------
(***************************************************************************)
(* dhcp_acquire(): one DISCOVER/OFFER and one REQUEST/ACK exchange by      *)
(* polling, each with its retransmissions, against any number of servers   *)
(* on a network that delays, reorders and loses frames.  The transaction   *)
(* id is a function of the MAC address, so what was sent to a boot before  *)
(* a power cycle still passes for a reply to this one.                     *)
(***************************************************************************)
EXTENDS Naturals

CONSTANTS
    Servers,        \* the DHCP servers on the segment
    Addresses,      \* the addresses they hand out
    MaxRetries,     \* DHCP_MAX_RETRIES
    MaxBoots        \* bound: boots of this board that are looked at

None == "none"      \* no address, no server identifier

ASSUME BoundsAssumption ==
    MaxRetries \in Nat /\ MaxBoots \in Nat \ {0} /\ None \notin Servers

VARIABLES
    names,      \* the servers that put their identifier into an OFFER
    boot,       \* the number of this boot
    pc,         \* the next call, the wait, or how dhcp_acquire ended
    retry,      \* retransmissions of the current wait
    expired,    \* DHCP_TIMEOUT_US have passed since the last transmission
    offer,      \* the OFFER that was taken
    lease,      \* the ACK that was taken
    frames,     \* BOOTREPLY frames under way
    bound,      \* [Servers -> address]: what a server keeps for this MAC
    commits     \* [Servers -> set of leases]: what a server leased to this MAC

vars == <<names, boot, pc, retry, expired, offer, lease, frames, bound,
          commits>>

Waits == {"offer", "ack"}
Ended == {"leased", "fatal"}

\* A reply as the client's filter sees it.  mine: the transaction id and the
\* MAC are this board's.  boot is the boot it was sent to, which no field of
\* the frame tells.
Frames ==
    [type : {"OFFER", "ACK", "NAK"}, mine : BOOLEAN,
     server : Servers \cup {None}, yiaddr : Addresses \cup {None},
     sid : BOOLEAN, boot : 1..MaxBoots]

\* What a server leased, and the boot that requested it.
Leases == [boot : 1..MaxBoots, yiaddr : Addresses \cup {None}]

\* An ACK to another client.
OtherReply ==
    [type |-> "ACK", mine |-> FALSE, server |-> None, yiaddr |-> None,
     sid |-> FALSE, boot |-> 1]

NoReply == [type |-> None]

TypeOK ==
    /\ names \subseteq Servers
    /\ boot \in 1..MaxBoots
    /\ pc \in {"discover", "request"} \cup Waits \cup Ended
    /\ retry \in 0..MaxRetries
    /\ expired \in BOOLEAN
    /\ offer \in Frames \cup {NoReply}
    /\ lease \in Frames \cup {NoReply}
    /\ frames \subseteq Frames
    /\ bound \in [Servers -> Addresses \cup {None}]
    /\ commits \in [Servers -> SUBSET Leases]

Init ==
    /\ names \in SUBSET Servers
    /\ boot = 1
    /\ pc = "discover"
    /\ retry = 0
    /\ expired = FALSE
    /\ offer = NoReply
    /\ lease = NoReply
    /\ frames = {}
    /\ bound = [s \in Servers |-> None]
    /\ commits = [s \in Servers |-> {}]

net == <<names, frames, bound, commits>>

-----------------------------------------------------------------------------
(* The servers (external).  A server handles a message when it is sent or  *)
(* never; what it answers may be under way for any time.                   *)

Reply(type, m, s, addr) ==
    [type |-> type, mine |-> TRUE, server |-> s, yiaddr |-> addr,
     sid |-> s \in names, boot |-> m.boot]

\* Uncoordinated servers may offer the same address; asked again, a server
\* offers the one it keeps for the board.
Offers(m, S) ==
    /\ \E pick \in [S -> Addresses] :
        bound' = [s \in Servers |->
            IF s \in S /\ bound[s] = None THEN pick[s] ELSE bound[s]]
    /\ frames' = frames \cup {Reply("OFFER", m, s, bound'[s]) : s \in S}
    /\ UNCHANGED commits

\* A server that is named, or finds nobody named, confirms the address it
\* keeps; named, it refuses another; not chosen, it gives up what it kept.
Answers(m, S) ==
    LET confirm == {s \in S : m.sid \in {s, None} /\ bound[s] = m.yiaddr}
        refuse  == {s \in S : m.sid = s /\ bound[s] # m.yiaddr}
        leased  == [boot |-> m.boot, yiaddr |-> m.yiaddr]
    IN  /\ frames' = frames \cup {Reply("ACK", m, s, m.yiaddr) : s \in confirm}
                            \cup {Reply("NAK", m, s, None) : s \in refuse}
        /\ commits' = [s \in Servers |->
               IF s \in confirm THEN commits[s] \cup {leased} ELSE commits[s]]
        /\ bound' = [s \in Servers |->
               IF s \in S \ (confirm \cup refuse) THEN None ELSE bound[s]]

\* The broadcast reaches some of the servers.
Serve(m) ==
    \E S \in SUBSET Servers :
        IF m.type = "DISCOVER" THEN Offers(m, S) ELSE Answers(m, S)

\* A lease runs out, or the server loses its table.
Forget ==
    /\ pc = "ack"
    /\ \E s \in Servers : bound' = [bound EXCEPT ![s] = None]
    /\ UNCHANGED <<names, boot, pc, retry, expired, offer, lease, frames, commits>>

-----------------------------------------------------------------------------
(* The client.                                                             *)

\* Variant: the server of the OFFER is not named in the REQUEST.
RequestToAll(o) ==
    [type |-> "REQUEST", yiaddr |-> o.yiaddr, sid |-> None, boot |-> boot]

\* encode_dhcp_message: the server identifier only if the OFFER had one.
Request(o) ==
    [type |-> "REQUEST", yiaddr |-> o.yiaddr,
     sid |-> IF o.sid THEN o.server ELSE None, boot |-> boot]

Discover == [type |-> "DISCOVER", boot |-> boot]

\* send_dhcp_packet: the broadcast, or a transmit error.
Send(m, wait) ==
    \/ Serve(m) /\ pc' = wait
    \/ UNCHANGED <<frames, bound, commits>> /\ pc' = "fatal"

SendDiscover ==
    /\ pc = "discover"
    /\ Send(Discover, "offer")
    /\ UNCHANGED <<names, boot, retry, expired, offer, lease>>

SendRequest ==
    /\ pc = "request"
    /\ Send(Request(offer), "ack")
    /\ UNCHANGED <<names, boot, retry, expired, offer, lease>>

\* Variant: a reply for another client's MAC is taken.
AnyMac(f, type) == f.type = type

\* parse_dhcp_reply and the expected message type; anything else is dropped
\* and the wait goes on, a NAK included.
Accepts(f, type) == f.mine /\ f.type = type

Drop(f) ==
    /\ frames' = frames \ {f}
    /\ UNCHANGED <<names, bound, commits, boot>>

\* select_network_boot_lease: an ACK that names no server at all may leave no
\* address to load from, and ends the boot.
Selected(f) == IF f.sid THEN {"leased"} ELSE {"leased", "fatal"}

\* The wait reads the clock before it polls for a frame.
Receive ==
    /\ pc \in Waits /\ ~expired
    /\ \E f \in frames :
        /\ Drop(f)
        /\ \/ /\ pc = "offer" /\ Accepts(f, "OFFER")
              /\ offer' = f /\ pc' = "request" /\ retry' = 0
              /\ UNCHANGED lease
           \/ /\ pc = "ack" /\ Accepts(f, "ACK")
              /\ lease' = f /\ pc' \in Selected(f) /\ retry' = 0
              /\ UNCHANGED offer
           \/ /\ pc = "offer" => ~Accepts(f, "OFFER")
              /\ pc = "ack" => ~Accepts(f, "ACK")
              /\ UNCHANGED <<offer, lease, pc, retry>>
    /\ UNCHANGED expired

Expire ==
    /\ pc \in Waits /\ ~expired
    /\ expired' = TRUE
    /\ UNCHANGED <<net, boot, pc, retry, offer, lease>>

\* Variant: the retransmissions are not counted.
CountNothing(n) == n

\* Variant: two at a time.
CountDouble(n) == n + 2

CountRetry(n) == n + 1

\* The packet of the wait goes out again, or the wait was the last.
Retransmit ==
    /\ pc \in Waits /\ expired
    /\ \/ /\ retry < MaxRetries
          /\ retry' = CountRetry(retry)
          /\ Send(IF pc = "offer" THEN Discover ELSE Request(offer), pc)
       \/ retry = MaxRetries /\ pc' = "fatal" /\ UNCHANGED <<retry, frames, bound, commits>>
    /\ expired' = FALSE
    /\ UNCHANGED <<names, boot, offer, lease>>

Client == SendDiscover \/ SendRequest \/ Receive \/ Retransmit

\* The board is power cycled and runs dhcp_acquire again.
PowerCycle ==
    /\ boot < MaxBoots
    /\ boot' = boot + 1
    /\ pc' = "discover" /\ retry' = 0 /\ expired' = FALSE
    /\ offer' = NoReply /\ lease' = NoReply
    /\ UNCHANGED net

-----------------------------------------------------------------------------
(* The rest of the segment (external).                                     *)

\* A reply to another client of the segment is under way.
Foreign ==
    /\ pc \in Waits
    /\ frames' = frames \cup {OtherReply}
    /\ UNCHANGED <<names, boot, pc, retry, expired, offer, lease, bound,
                   commits>>

Finished == pc \in Ended /\ UNCHANGED vars

Next == Client \/ Expire \/ PowerCycle \/ Forget \/ Foreign \/ Finished

\* The client polls, and its clock advances; nothing is asked of the network.
Spec == Init /\ [][Next]_vars /\ WF_vars(Client) /\ WF_vars(Expire)

-----------------------------------------------------------------------------
Leased == pc = "leased"

\* The address the boot goes on with was leased to this board: the server of
\* the ACK committed it to the boot that ACK answers.  Nothing in the frame
\* tells a late ACK to an earlier boot from one to this boot; of one to this
\* boot the address is that of the OFFER taken, and so is the server, when the
\* OFFER named it.
LeaseIsOffered ==
    Leased =>
        /\ lease.mine
        /\ [boot |-> lease.boot, yiaddr |-> lease.yiaddr] \in commits[lease.server]
        /\ lease.boot = boot =>
               /\ lease.yiaddr = offer.yiaddr
               /\ offer.sid => lease.server = offer.server

\* Whatever is retransmitted, lost or reordered, and whatever earlier boots
\* left behind, a server leases nothing to this boot but the address of the
\* OFFER it took: every server it reaches that keeps this address, when the
\* OFFER named none, and only the one it named otherwise.
OneServerCommits ==
    \A s \in Servers : \A l \in commits[s] :
        l.boot = boot =>
            /\ offer # NoReply
            /\ l.yiaddr = offer.yiaddr
            /\ offer.sid => s = offer.server

\* dhcp_acquire returns, whatever the servers and the network do.
Returns == []<>(pc \in Ended)
=============================================================================
