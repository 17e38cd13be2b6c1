--------------------------- MODULE DhcpBootProofs ---------------------------
(***************************************************************************)
(* The DHCP client against any set of servers, for every number of         *)
(* retransmissions and power cycles.                                       *)
(***************************************************************************)
EXTENDS DhcpBoot, TLAPS

Taken == offer # NoReply

\* What an ACK to this boot has to agree with.
FitsOffer(f) ==
  Taken /\ f.yiaddr = offer.yiaddr /\ (offer.sid => f.server = offer.server)

\* The lease an ACK confirms, and that its server really granted it.
LeaseOf(f) == [boot |-> f.boot, yiaddr |-> f.yiaddr]
Granted(f) == f.server \in Servers /\ LeaseOf(f) \in commits[f.server]

\* The OFFER is taken once per boot, and before the first REQUEST.
PlaceInv ==
  /\ pc \in {"discover", "offer"} => ~Taken
  /\ pc \in {"request", "ack", "leased"} => Taken
  /\ Taken /\ offer.sid => offer.server \in Servers

\* What is under way comes from this boot or an earlier one; the ACKs confirm
\* what their server granted, and those to this boot answer a REQUEST for the
\* OFFER it took.
FrameInv ==
  \A f \in frames :
    /\ f.boot <= boot
    /\ f.sid => f.server \in Servers
    /\ f.mine /\ f.type = "ACK" => Granted(f)
    /\ f.boot = boot /\ f.mine /\ f.type = "ACK" => FitsOffer(f)

LeaseInv ==
  pc = "leased" =>
    /\ lease.mine
    /\ Granted(lease)
    /\ lease.boot = boot => FitsOffer(lease)

\* The servers that leased to this boot have seen a REQUEST of it.
CommitInv ==
  \A s \in Servers : \A l \in commits[s] :
    /\ l.boot <= boot
    /\ l.boot = boot =>
         Taken /\ l.yiaddr = offer.yiaddr /\ (offer.sid => s = offer.server)

ClientInv == TypeOK /\ PlaceInv /\ FrameInv /\ LeaseInv /\ CommitInv

-----------------------------------------------------------------------------
\* The placeholder is not a frame.
LEMMA NoReplyIsNone == NoReply \notin Frames
<1>1. NoReply.type = "none"
  BY DEF NoReply, None
<1> QED
  BY <1>1 DEF Frames

\* Every variable has its type at the start, and nothing is under way.
LEMMA ClientInit == Init => ClientInv
<1> SUFFICES ASSUME Init PROVE ClientInv
  OBVIOUS
<1>1. 1 \in 1 .. MaxBoots /\ 0 \in 0 .. MaxRetries
  BY BoundsAssumption
<1>2. TypeOK
  BY <1>1 DEF Init, TypeOK
<1> QED
  BY <1>2 DEF Init, ClientInv, PlaceInv, FrameInv, LeaseInv, CommitInv, Taken

\* The server identifier of a REQUEST stands for one server, or for none.
LEMMA RequestNames ==
  ASSUME ClientInv, Taken, NEW s \in Servers, Request(offer).sid \in {s, None}
  PROVE  offer.sid => s = offer.server
  BY BoundsAssumption DEF Request, ClientInv, PlaceInv

\* A broadcast of the client, whatever servers it reaches.
LEMMA ServeKeeps ==
  ASSUME ClientInv, NEW m, Serve(m),
         \/ m = Discover
         \/ Taken /\ m = Request(offer),
         UNCHANGED <<names, boot, offer>>
  PROVE  /\ frames' \subseteq Frames /\ FrameInv'
         /\ bound' \in [Servers -> Addresses \cup {None}]
         /\ commits' \in [Servers -> SUBSET Leases] /\ CommitInv'
<1>0. TypeOK /\ PlaceInv /\ FrameInv /\ CommitInv /\ boot \in 1 .. MaxBoots
  BY DEF ClientInv, TypeOK
<1>1. PICK S \in SUBSET Servers : IF m.type = "DISCOVER" THEN Offers(m, S) ELSE Answers(m, S)
  BY DEF Serve
<1>2. CASE m = Discover
  <2>0. m.type = "DISCOVER" /\ m.boot = boot
    BY <1>2 DEF Discover
  <2>1. Offers(m, S)
    BY <1>1, <2>0
  <2>2. /\ bound' \in [Servers -> Addresses \cup {None}]
        /\ frames' = frames \cup {Reply("OFFER", m, s, bound'[s]) : s \in S}
        /\ commits' = commits
    BY <1>0, <2>1 DEF Offers, TypeOK
  <2>3. ASSUME NEW s \in S
        PROVE  LET f == Reply("OFFER", m, s, bound'[s])
               IN  f \in Frames /\ f.type = "OFFER" /\ f.boot = boot /\ f.server \in Servers
    BY <1>0, <2>0, <2>2 DEF Reply, Frames
  <2>4. frames' \subseteq Frames
    BY <1>0, <2>2, <2>3 DEF TypeOK
  <2>5. FrameInv'
    BY <1>0, <2>2, <2>3 DEF FrameInv, FitsOffer, Taken, Granted
  <2> QED
    BY <1>0, <2>2, <2>4, <2>5 DEF TypeOK, CommitInv, Taken
<1>3. CASE Taken /\ m = Request(offer)
  <2>0. m.type = "REQUEST" /\ m.boot = boot /\ m.yiaddr = offer.yiaddr
    BY <1>3 DEF Request
  <2>1. Answers(m, S)
    BY <1>1, <2>0
  <2> DEFINE confirm == {s \in S : m.sid \in {s, None} /\ bound[s] = m.yiaddr}
             refuse  == {s \in S : m.sid = s /\ bound[s] # m.yiaddr}
             leased  == [boot |-> m.boot, yiaddr |-> m.yiaddr]
  <2>2. /\ frames' = frames \cup {Reply("ACK", m, s, m.yiaddr) : s \in confirm}
                            \cup {Reply("NAK", m, s, None) : s \in refuse}
        /\ commits' = [s \in Servers |->
               IF s \in confirm THEN commits[s] \cup {leased} ELSE commits[s]]
        /\ bound' = [s \in Servers |->
               IF s \in S \ (confirm \cup refuse) THEN None ELSE bound[s]]
    BY <2>1 DEF Answers
  <2>3. ASSUME NEW s \in confirm
        PROVE  /\ s \in Servers /\ m.yiaddr \in Addresses \cup {None}
               /\ offer.sid => s = offer.server
    BY <1>0, <1>3, RequestNames DEF TypeOK
  <2>4. \A s \in confirm : leased \in Leases /\ leased.boot = boot /\ leased.yiaddr = offer.yiaddr
    BY <1>0, <2>0, <2>3 DEF Leases
  <2>5. \A s \in confirm : LeaseOf(Reply("ACK", m, s, m.yiaddr)) = leased
    BY DEF LeaseOf, Reply
  <2> HIDE DEF confirm, refuse, leased
  <2>6. commits \in [Servers -> SUBSET Leases] /\ confirm \subseteq Servers
    BY <1>0, <2>3 DEF TypeOK
  <2>7. /\ \A s \in Servers : commits[s] \subseteq commits'[s]
        /\ \A s \in confirm : leased \in commits'[s]
    BY <2>2, <2>6
  <2>8. ASSUME NEW s \in confirm
        PROVE  LET f == Reply("ACK", m, s, m.yiaddr)
               IN  /\ f \in Frames /\ f.boot = boot /\ f.server = s /\ s \in Servers
                   /\ FitsOffer(f) /\ LeaseOf(f) \in commits'[f.server]
    BY <1>0, <1>3, <2>0, <2>3, <2>5, <2>7 DEF Reply, Frames, FitsOffer
  <2>9. ASSUME NEW s \in refuse
        PROVE  LET f == Reply("NAK", m, s, None)
               IN  f \in Frames /\ f.type = "NAK" /\ f.boot = boot /\ f.server \in Servers
    BY <1>0, <2>0 DEF Reply, Frames, refuse
  <2>10. frames' \subseteq Frames
    BY <1>0, <2>2, <2>8, <2>9 DEF TypeOK
  <2>11. FrameInv'
    <3> SUFFICES ASSUME NEW f \in frames'
                 PROVE  /\ f.boot <= boot
                        /\ f.sid => f.server \in Servers
                        /\ f.mine /\ f.type = "ACK" =>
                             f.server \in Servers /\ LeaseOf(f) \in commits'[f.server]
                        /\ f.boot = boot /\ f.mine /\ f.type = "ACK" => FitsOffer(f)
      BY DEF FrameInv, FitsOffer, Taken, Granted
    <3>1. CASE f \in frames
      BY <1>0, <2>7, <3>1 DEF FrameInv, Granted
    <3>2. CASE \E s \in confirm : f = Reply("ACK", m, s, m.yiaddr)
      BY <1>0, <2>8, <3>2
    <3>3. CASE \E s \in refuse : f = Reply("NAK", m, s, None)
      BY <1>0, <2>9, <3>3
    <3> QED
      BY <2>2, <3>1, <3>2, <3>3
  <2>12. bound' \in [Servers -> Addresses \cup {None}]
    BY <1>0, <2>2 DEF TypeOK
  <2>13. commits' \in [Servers -> SUBSET Leases] /\ CommitInv'
    <3>1. ASSUME NEW s \in Servers, NEW l \in commits'[s]
          PROVE  /\ l \in Leases /\ l.boot <= boot
                 /\ l.boot = boot =>
                      Taken /\ l.yiaddr = offer.yiaddr /\ (offer.sid => s = offer.server)
      <4>1. CASE l \in commits[s]
        BY <1>0, <2>6, <4>1 DEF CommitInv
      <4>2. CASE s \in confirm /\ l = leased
        BY <1>0, <1>3, <2>3, <2>4, <4>2
      <4> QED
        BY <2>2, <2>6, <4>1, <4>2
    <3>2. commits' \in [Servers -> SUBSET Leases]
      BY <2>2, <3>1
    <3> QED
      BY <3>1, <3>2 DEF CommitInv, Taken
  <2> QED
    BY <2>10, <2>11, <2>12, <2>13
<1> QED
  BY <1>2, <1>3

\* A send that succeeds or fails.
LEMMA SendKeeps ==
  ASSUME ClientInv, NEW m, NEW wait, Send(m, wait),
         \/ m = Discover
         \/ Taken /\ m = Request(offer),
         UNCHANGED <<names, boot, offer>>
  PROVE  /\ frames' \subseteq Frames /\ FrameInv'
         /\ bound' \in [Servers -> Addresses \cup {None}]
         /\ commits' \in [Servers -> SUBSET Leases] /\ CommitInv'
         /\ pc' \in {wait, "fatal"}
<1>1. CASE Serve(m) /\ pc' = wait
  BY <1>1, ServeKeeps
<1>2. CASE UNCHANGED <<frames, bound, commits>> /\ pc' = "fatal"
  BY <1>2 DEF ClientInv, TypeOK, FrameInv, CommitInv, FitsOffer, Taken, Granted
<1> QED
  BY <1>1, <1>2 DEF Send

\* Each step of the client keeps the invariant.
LEMMA ClientKeeps == ClientInv /\ Client => ClientInv'
<1> SUFFICES ASSUME ClientInv, Client PROVE ClientInv'
  OBVIOUS
<1>0. TypeOK /\ PlaceInv /\ FrameInv /\ LeaseInv /\ CommitInv
  BY DEF ClientInv
<1>1. CASE SendDiscover
  <2>1. /\ pc = "discover" /\ Send(Discover, "offer")
        /\ UNCHANGED <<names, boot, retry, expired, offer, lease>>
    BY <1>1 DEF SendDiscover
  <2>2. /\ frames' \subseteq Frames /\ FrameInv' /\ CommitInv'
        /\ bound' \in [Servers -> Addresses \cup {None}]
        /\ commits' \in [Servers -> SUBSET Leases]
        /\ pc' \in {"offer", "fatal"}
    BY <2>1, SendKeeps
  <2>3. TypeOK'
    BY <1>0, <2>1, <2>2 DEF TypeOK, Waits, Ended
  <2> QED
    BY <1>0, <2>1, <2>2, <2>3 DEF ClientInv, PlaceInv, LeaseInv, Taken
<1>2. CASE SendRequest
  <2>1. /\ pc = "request" /\ Send(Request(offer), "ack") /\ Taken
        /\ UNCHANGED <<names, boot, retry, expired, offer, lease>>
    BY <1>0, <1>2 DEF SendRequest, PlaceInv
  <2>2. /\ frames' \subseteq Frames /\ FrameInv' /\ CommitInv'
        /\ bound' \in [Servers -> Addresses \cup {None}]
        /\ commits' \in [Servers -> SUBSET Leases]
        /\ pc' \in {"ack", "fatal"}
    BY <2>1, SendKeeps
  <2>3. TypeOK'
    BY <1>0, <2>1, <2>2 DEF TypeOK, Waits, Ended
  <2> QED
    BY <1>0, <2>1, <2>2, <2>3 DEF ClientInv, PlaceInv, LeaseInv, Taken
<1>3. CASE Receive
  <2>1. PICK f \in frames :
          /\ Drop(f)
          /\ \/ /\ pc = "offer" /\ Accepts(f, "OFFER")
                /\ offer' = f /\ pc' = "request" /\ retry' = 0
                /\ UNCHANGED lease
             \/ /\ pc = "ack" /\ Accepts(f, "ACK")
                /\ lease' = f /\ pc' \in Ended /\ retry' = 0
                /\ UNCHANGED offer
             \/ UNCHANGED <<offer, lease, pc, retry>>
    BY <1>3 DEF Receive, Selected, Ended
  <2>2. /\ f \in Frames /\ frames' \subseteq frames /\ frames' \subseteq Frames
        /\ UNCHANGED <<names, bound, commits, boot, expired>> /\ 0 \in 0 .. MaxRetries
    BY <1>0, <1>3, <2>1, BoundsAssumption DEF Drop, TypeOK, Receive
  <2>3. CASE pc = "offer" /\ offer' = f /\ pc' = "request" /\ retry' = 0 /\ UNCHANGED lease
    <3>1. ~Taken /\ Taken' /\ (f.sid => f.server \in Servers)
      BY <1>0, <2>2, <2>3, NoReplyIsNone DEF PlaceInv, FrameInv, Taken
    <3>2. TypeOK'
      BY <1>0, <2>2, <2>3 DEF TypeOK
    <3>3. FrameInv'
      BY <1>0, <2>2, <2>3, <3>1 DEF FrameInv, FitsOffer, Taken, Granted
    <3>4. CommitInv'
      BY <1>0, <2>2, <2>3, <3>1 DEF CommitInv, Taken
    <3> QED
      BY <2>3, <3>1, <3>2, <3>3, <3>4 DEF ClientInv, PlaceInv, LeaseInv
  <2>4. CASE /\ pc = "ack" /\ Accepts(f, "ACK")
             /\ lease' = f /\ pc' \in Ended /\ retry' = 0 /\ UNCHANGED offer
    <3>1. TypeOK'
      BY <1>0, <2>2, <2>4 DEF TypeOK, Ended
    <3>2. LeaseInv'
      BY <1>0, <2>1, <2>2, <2>4
      DEF LeaseInv, FrameInv, Accepts, FitsOffer, Taken, Granted, LeaseOf
    <3>3. PlaceInv'
      BY <1>0, <2>2, <2>4 DEF PlaceInv, Ended, Taken
    <3> QED
      BY <1>0, <2>2, <2>4, <3>1, <3>2, <3>3
      DEF ClientInv, FrameInv, CommitInv, FitsOffer, Taken, Granted, LeaseOf
  <2>5. CASE UNCHANGED <<offer, lease, pc, retry>>
    <3>1. TypeOK'
      BY <1>0, <2>2, <2>5 DEF TypeOK
    <3> QED
      BY <1>0, <2>2, <2>5, <3>1
      DEF ClientInv, PlaceInv, FrameInv, LeaseInv, CommitInv, FitsOffer, Taken,
          Granted, LeaseOf
  <2> QED
    BY <2>1, <2>3, <2>4, <2>5
<1>4. CASE Retransmit
  <2>1. /\ pc \in Waits /\ expired' = FALSE /\ UNCHANGED <<names, boot, offer, lease>>
    BY <1>4 DEF Retransmit
  <2>2. CASE /\ retry < MaxRetries /\ retry' = retry + 1
             /\ Send(IF pc = "offer" THEN Discover ELSE Request(offer), pc)
    <3>1. pc = "offer" \/ (pc = "ack" /\ Taken)
      BY <1>0, <2>1 DEF PlaceInv, Waits
    <3>2. /\ frames' \subseteq Frames /\ FrameInv' /\ CommitInv'
          /\ bound' \in [Servers -> Addresses \cup {None}]
          /\ commits' \in [Servers -> SUBSET Leases]
          /\ pc' \in {pc, "fatal"}
      <4>1. CASE pc = "offer"
        BY <2>1, <2>2, <4>1, SendKeeps
      <4>2. CASE pc = "ack" /\ Taken
        BY <2>1, <2>2, <4>2, SendKeeps
      <4> QED
        BY <3>1, <4>1, <4>2
    <3>3. retry' \in 0 .. MaxRetries
      BY <1>0, <2>2, BoundsAssumption DEF TypeOK
    <3>4. TypeOK'
      BY <1>0, <2>1, <3>2, <3>3 DEF TypeOK, Waits, Ended
    <3> QED
      BY <1>0, <2>1, <3>1, <3>2, <3>4 DEF ClientInv, PlaceInv, LeaseInv, Taken
  <2>3. CASE pc' = "fatal" /\ UNCHANGED <<retry, frames, bound, commits>>
    <3>1. TypeOK'
      BY <1>0, <2>1, <2>3 DEF TypeOK, Ended
    <3> QED
      BY <1>0, <2>1, <2>3, <3>1
      DEF ClientInv, PlaceInv, FrameInv, LeaseInv, CommitInv, FitsOffer, Taken,
          Granted, LeaseOf
  <2> QED
    BY <1>4, <2>2, <2>3 DEF Retransmit, CountRetry
<1> QED
  BY <1>1, <1>2, <1>3, <1>4 DEF Client

\* The clock, the rest of the segment and a server that forgets.
LEMMA SegmentKeeps == ClientInv /\ (Expire \/ Forget \/ Foreign \/ UNCHANGED vars) => ClientInv'
<1> SUFFICES ASSUME ClientInv, Expire \/ Forget \/ Foreign \/ UNCHANGED vars
             PROVE  ClientInv'
  OBVIOUS
<1>0. TypeOK /\ PlaceInv /\ FrameInv /\ LeaseInv /\ CommitInv
  BY DEF ClientInv
<1>1. /\ UNCHANGED <<names, boot, pc, retry, offer, lease, commits>>
      /\ bound' \in [Servers -> Addresses \cup {None}] /\ expired' \in BOOLEAN
  <2>1. CASE Forget
    BY <1>0, <2>1 DEF Forget, TypeOK
  <2> QED
    BY <1>0, <2>1 DEF Expire, Foreign, vars, net, TypeOK
<1>2. /\ OtherReply \in Frames /\ OtherReply.mine = FALSE /\ OtherReply.boot = 1
      /\ OtherReply.sid = FALSE
  BY BoundsAssumption DEF OtherReply, Frames
<1>3. frames' = frames \/ frames' = frames \cup {OtherReply}
  BY DEF Expire, Forget, Foreign, vars, net
<1>4. frames' \subseteq Frames
  BY <1>0, <1>2, <1>3 DEF TypeOK
<1>5. FrameInv'
  BY <1>0, <1>1, <1>2, <1>3 DEF FrameInv, FitsOffer, Taken, TypeOK, Granted
<1>6. TypeOK'
  BY <1>0, <1>1, <1>4 DEF TypeOK
<1> QED
  BY <1>0, <1>1, <1>5, <1>6
  DEF ClientInv, PlaceInv, LeaseInv, CommitInv, FitsOffer, Taken, Granted, LeaseOf

\* After a power cycle everything that is under way is of an earlier boot.
LEMMA PowerCycleKeeps == ClientInv /\ PowerCycle => ClientInv'
<1> SUFFICES ASSUME ClientInv, PowerCycle PROVE ClientInv'
  OBVIOUS
<1>0. TypeOK /\ FrameInv /\ CommitInv
  BY DEF ClientInv
<1>1. /\ boot' = boot + 1 /\ boot' \in 1 .. MaxBoots /\ boot \in Nat
      /\ pc' = "discover" /\ retry' = 0 /\ 0 \in 0 .. MaxRetries /\ expired' = FALSE
      /\ offer' = NoReply /\ lease' = NoReply
      /\ UNCHANGED <<names, frames, bound, commits>>
  BY <1>0, BoundsAssumption DEF PowerCycle, net, TypeOK
<1>2. TypeOK'
  BY <1>0, <1>1 DEF TypeOK
<1>3. FrameInv'
  <2>1. \A f \in frames : f.boot \in Nat /\ f.boot <= boot
    BY <1>0 DEF FrameInv, TypeOK, Frames
  <2> QED
    BY <1>0, <1>1, <2>1 DEF FrameInv, Granted
<1>4. CommitInv'
  <2>1. \A s \in Servers : \A l \in commits[s] : l.boot \in Nat /\ l.boot <= boot
    BY <1>0 DEF CommitInv, TypeOK, Leases
  <2> QED
    BY <1>1, <2>1 DEF CommitInv
<1> QED
  BY <1>1, <1>2, <1>3, <1>4 DEF ClientInv, PlaceInv, LeaseInv, Taken

-----------------------------------------------------------------------------
\* The invariant holds in every reachable state.
THEOREM ClientInvariance == Spec => []ClientInv
<1>1. ClientInv /\ [Next]_vars => ClientInv'
  BY ClientKeeps, SegmentKeeps, PowerCycleKeeps DEF Next, Finished
<1> QED
  BY <1>1, ClientInit, PTL DEF Spec

\* Every variable of the DHCP client and its network keeps its type
\* (dhcp_boot.rs).
THEOREM DhcpTypes == Spec => []TypeOK
<1>1. ClientInv => TypeOK
  BY DEF ClientInv
<1> QED
  BY <1>1, ClientInvariance, PTL

\* The address a boot goes on with (dhcp_acquire) was granted to this board by
\* the server whose ACK it took, also when that ACK is a late one of an earlier
\* boot; one of this boot confirms the OFFER it took.  For every set of servers.
THEOREM LeaseWasOffered == Spec => []LeaseIsOffered
<1>1. ClientInv => LeaseIsOffered
  BY DEF ClientInv, LeaseInv, FitsOffer, LeaseIsOffered, Leased, Granted, LeaseOf
<1> QED
  BY <1>1, ClientInvariance, PTL

\* No server leases to this boot before it took an OFFER, none another address
\* than that of the OFFER, and, when the OFFER named its server, no other server
\* (encode_dhcp_message names it in every REQUEST).
THEOREM OnlyTheChosenCommits == Spec => []OneServerCommits
<1>1. ClientInv => OneServerCommits
  BY DEF ClientInv, CommitInv, OneServerCommits, Taken
<1> QED
  BY <1>1, ClientInvariance, PTL
-----------------------------------------------------------------------------
(* How long one boot can take.                                             *)

\* A wait takes a timeout and a packet for each retransmission left, and the
\* timeout that ends it.
WaitLeft == 2 * (MaxRetries - retry) + (IF expired THEN 1 ELSE 2)
Longest == 4 * MaxRetries + 6

\* The transmissions and timeouts this boot has left, at most.
TurnsLeft ==
  CASE pc = "discover" -> Longest
    [] pc = "offer"    -> 2 * MaxRetries + 3 + WaitLeft
    [] pc = "request"  -> 2 * MaxRetries + 3
    [] pc = "ack"      -> WaitLeft
    [] OTHER -> 0

\* A boot transmits and times out no more than Longest times, whatever frames
\* it is sent meanwhile: each packet and each timeout leaves fewer, none adds
\* any, and none are left exactly when dhcp_acquire has returned (wait_for_dhcp).
TurnsBounded ==
  /\ [](TurnsLeft \in 0 .. Longest /\ (TurnsLeft = 0 <=> pc \in Ended))
  /\ [][boot' = boot =>
          /\ TurnsLeft' <= TurnsLeft
          /\ SendDiscover \/ SendRequest \/ Expire \/ Retransmit
             => TurnsLeft' < TurnsLeft]_vars

\* What is left is a number, and zero once dhcp_acquire has returned.
LEMMA TurnsRange ==
  ASSUME TypeOK
  PROVE  TurnsLeft \in 0 .. Longest /\ (TurnsLeft = 0 <=> pc \in Ended)
<1>1. MaxRetries \in Nat /\ retry \in 0 .. MaxRetries
  BY BoundsAssumption DEF TypeOK
<1>2. WaitLeft \in 1 .. 2 * MaxRetries + 2
  BY <1>1 DEF WaitLeft
<1>3. pc \in {"discover", "offer", "request", "ack"} \cup Ended
  BY DEF TypeOK, Waits
<1> HIDE DEF WaitLeft
<1> QED
  BY <1>1, <1>2, <1>3 DEF TurnsLeft, Longest, Ended

\* A packet or a timeout leaves fewer, a frame none more.
LEMMA TurnShortens ==
  ASSUME TypeOK, TypeOK', boot' = boot, Next
  PROVE  /\ TurnsLeft' <= TurnsLeft
         /\ SendDiscover \/ SendRequest \/ Expire \/ Retransmit
            => TurnsLeft' < TurnsLeft
<1>1. /\ MaxRetries \in Nat /\ retry \in 0 .. MaxRetries
      /\ retry' \in 0 .. MaxRetries
  BY BoundsAssumption DEF TypeOK
<1>2. WaitLeft \in 1 .. 2 * MaxRetries + 2 /\ WaitLeft' \in 1 .. 2 * MaxRetries + 2
  <2>1. \A n \in 0 .. MaxRetries : /\ 2 * (MaxRetries - n) + 1 \in 1 .. 2 * MaxRetries + 2
                                  /\ 2 * (MaxRetries - n) + 2 \in 1 .. 2 * MaxRetries + 2
    BY <1>1
  <2> QED
    BY <1>1, <2>1 DEF WaitLeft
<1>3. TurnsLeft \in Nat /\ (TurnsLeft = 0 <=> pc \in Ended)
  BY <1>1, TurnsRange DEF Longest
<1>4. pc' \in Ended => TurnsLeft' = 0
  BY DEF TurnsLeft, Ended
<1>5. /\ pc = "discover" => TurnsLeft = 4 * MaxRetries + 6
      /\ pc = "offer" => TurnsLeft = 2 * MaxRetries + 3 + WaitLeft
      /\ pc = "request" => TurnsLeft = 2 * MaxRetries + 3
      /\ pc = "ack" => TurnsLeft = WaitLeft
  BY DEF TurnsLeft, Longest
<1>6. /\ pc' = "offer" => TurnsLeft' = 2 * MaxRetries + 3 + WaitLeft'
      /\ pc' = "request" => TurnsLeft' = 2 * MaxRetries + 3
      /\ pc' = "ack" => TurnsLeft' = WaitLeft'
  BY DEF TurnsLeft
<1>7. CASE SendDiscover
  <2>1. pc = "discover" /\ pc' \in {"offer", "fatal"}
    BY <1>7 DEF SendDiscover, Send
  <2> QED
    BY <1>1, <1>2, <1>4, <1>5, <1>6, <2>1 DEF Ended
<1>8. CASE SendRequest
  <2>1. pc = "request" /\ pc' \in {"ack", "fatal"}
    BY <1>8 DEF SendRequest, Send
  <2> QED
    BY <1>1, <1>2, <1>4, <1>5, <1>6, <2>1 DEF Ended
<1>9. CASE Retransmit
  <2>1. pc \in Waits /\ expired /\ expired' = FALSE
    BY <1>9 DEF Retransmit
  <2>2. CASE pc' = "fatal"
    BY <1>3, <1>4, <2>1, <2>2 DEF Ended, Waits
  <2>3. CASE retry' = CountRetry(retry) /\ pc' = pc
    <3>1. WaitLeft' < WaitLeft
      BY <1>1, <2>1, <2>3 DEF WaitLeft, CountRetry
    <3> QED
      BY <1>1, <1>2, <1>5, <1>6, <2>1, <2>3, <3>1 DEF Waits
  <2> QED
    BY <1>9, <2>2, <2>3 DEF Retransmit, Send
<1>10. CASE Expire
  <2>1. pc \in Waits /\ pc' = pc
    BY <1>10 DEF Expire
  <2>2. WaitLeft' < WaitLeft
    BY <1>1, <1>10 DEF Expire, WaitLeft
  <2> QED
    BY <1>1, <1>2, <1>5, <1>6, <2>1, <2>2 DEF Waits
<1>11. CASE Receive
  <2>1. /\ ~SendDiscover /\ ~SendRequest /\ ~Retransmit /\ ~Expire
        \/ TurnsLeft' < TurnsLeft
    BY <1>7, <1>8, <1>9, <1>10
  <2>2. CASE pc = "offer" /\ pc' = "request"
    BY <1>1, <1>2, <1>5, <1>6, <2>1, <2>2
  <2>3. CASE pc = "ack" /\ pc' \in Ended
    BY <1>1, <1>2, <1>3, <1>4, <2>1, <2>3 DEF Ended
  <2>4. CASE UNCHANGED <<pc, retry, expired>>
    BY <1>3, <2>1, <2>4 DEF TurnsLeft, WaitLeft
  <2> QED
    BY <1>11, <2>2, <2>3, <2>4 DEF Receive, Selected, Ended
<1>12. CASE Forget \/ Foreign \/ Finished
  <2>1. /\ ~SendDiscover /\ ~SendRequest /\ ~Retransmit /\ ~Expire
        \/ TurnsLeft' < TurnsLeft
    BY <1>7, <1>8, <1>9, <1>10
  <2>2. UNCHANGED <<pc, retry, expired>>
    BY <1>12 DEF Forget, Foreign, Finished, vars
  <2> QED
    BY <1>3, <2>1, <2>2 DEF TurnsLeft, WaitLeft
<1>13. CASE PowerCycle
  BY <1>13, BoundsAssumption DEF PowerCycle, TypeOK
<1> QED
  BY <1>7, <1>8, <1>9, <1>10, <1>11, <1>12, <1>13 DEF Next, Client

\* dhcp_acquire ends within Longest packets and timeouts, for any servers and
\* any number of retransmissions; that its clock advances is fairness.
THEOREM AcquireIsBounded == Spec => TurnsBounded
<1>1. TypeOK => TurnsLeft \in 0 .. Longest /\ (TurnsLeft = 0 <=> pc \in Ended)
  BY TurnsRange
<1>2. ASSUME TypeOK, TypeOK', [Next]_vars
      PROVE  [boot' = boot =>
                /\ TurnsLeft' <= TurnsLeft
                /\ SendDiscover \/ SendRequest \/ Expire \/ Retransmit
                   => TurnsLeft' < TurnsLeft]_vars
  BY <1>2, TurnShortens
<1> QED
  BY <1>1, <1>2, DhcpTypes, PTL DEF Spec, TurnsBounded
=============================================================================
