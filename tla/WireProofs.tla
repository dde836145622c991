----------------------------- MODULE WireProofs -----------------------------
(***************************************************************************)
(* WireSpec for every width of the numbers and every isn: the number that  *)
(* unwrap makes of one that arrives is the closest to the checkpoint       *)
(* (Closest), and an adapter that has found its peer keeps it (LockedOn),  *)
(* whatever arrives, is damaged or dropped.  The bytes on the wire are     *)
(* whatever they are: neither argument looks into them.                    *)
(***************************************************************************)
EXTENDS WireSpec, TLAPS

NP == INSTANCE NumberProofs

Kinds == {"udp", "tun", "tap"}

\* An object of one of the adapter classes: a record with their members.
Members == {"kind", "source", "destination", "listen", "interface", "next_hop"}
IsAdapter(a) == a = [m \in Members |-> a[m]] /\ a.kind \in Kinds

\* b has the kind, the addresses and the flag of a.
SamePeer(a, b) ==
    /\ b.kind = a.kind /\ b.listen = a.listen
    /\ b.source = a.source /\ b.destination = a.destination

Inv ==
    /\ IsAdapter(server)
    /\ isn \in Isns
    /\ checkpoint \in 0..MaxAbs

\* Whatever its NetworkInterface does, an adapter keeps the rest.
LEMMA KeepsPeer ==
    ASSUME NEW a, IsAdapter(a), NEW v, NEW b, b = [a EXCEPT !.interface = v]
    PROVE  IsAdapter(b) /\ SamePeer(a, b)
  BY DEF IsAdapter, Members, SamePeer

\* Locking on changes the addresses and ends the listening.
LEMMA LocksOn ==
    ASSUME NEW a, IsAdapter(a), NEW ours, NEW theirs, NEW b, b = LockOn(a, ours, theirs)
    PROVE  IsAdapter(b)
  BY DEF IsAdapter, Members, LockOn

\* Sending does not change the peer of a locked adapter.
LEMMA SentKeepsPeer ==
    ASSUME NEW a, IsAdapter(a)
    PROVE  IsAdapter(Sent(a)) /\ SamePeer(a, Sent(a))
  <1>1. Sent(a) = [a EXCEPT !.interface = [a.interface EXCEPT !.frames_out = <<>>]]
    BY DEF Sent
  <1> QED
    BY <1>1, KeepsPeer

\* unwrap_tcp_in_ip makes an adapter lock on only while it listens.
LEMMA FilterKeepsPeer ==
    ASSUME NEW a, IsAdapter(a), NEW d
    PROVE  LET b == unwrap_tcp_in_ip(a, d).adapter
           IN  IsAdapter(b) /\ (~a.listen => SamePeer(a, b))
  <1> DEFINE b == unwrap_tcp_in_ip(a, d).adapter
  <1>1. \/ b = a
        \/ listening(a) /\ \E ours, theirs : b = LockOn(a, ours, theirs)
    BY DEF unwrap_tcp_in_ip, Filtered, Got
  <1>2. CASE b = a
    BY <1>2 DEF SamePeer
  <1>3. CASE listening(a) /\ \E ours, theirs : b = LockOn(a, ours, theirs)
    BY <1>3, LocksOn DEF listening
  <1> QED
    BY <1>1, <1>2, <1>3

\* ... and so does read, of every kind of adapter.
LEMMA ReadKeepsPeer ==
    ASSUME NEW a, IsAdapter(a), NEW packet
    PROVE  LET b == Read(a, packet).adapter
           IN  IsAdapter(b) /\ (~a.listen => SamePeer(a, b))
  <1> DEFINE b == Read(a, packet).adapter
  <1>1. a.kind \in Kinds
    BY DEF IsAdapter
  <1>2. CASE a.kind = "udp"
    <2>1. Read(a, packet) = ReadUdp(a, packet.from, TCPParse(packet.bytes, 0))
      BY <1>2 DEF Read
    <2>2. \/ b = a
          \/ listening(a) /\ b = LockOn(a, a.source, packet.from)
      BY <2>1 DEF ReadUdp, Got
    <2> HIDE DEF b
    <2> QED
      BY <2>2, LocksOn DEF listening, SamePeer, b
  <1>3. CASE a.kind = "tun"
    <2>1. Read(a, packet) = ReadTun(a, IPv4Parse(packet.bytes))
      BY <1>3 DEF Read
    <2>2. \/ b = a
          \/ b = unwrap_tcp_in_ip(a, IPv4Parse(packet.bytes)).adapter
      BY <2>1 DEF ReadTun, Got
    <2> HIDE DEF b
    <2> QED
      BY <2>2, FilterKeepsPeer DEF SamePeer, b
  <1>4. CASE a.kind = "tap"
    <2> DEFINE frame == Understood(FrameParse(packet.bytes))
               told == [a EXCEPT !.interface = NI!recv_frame(@, frame)]
    <2>1. Read(a, packet) = ReadTap(a, frame)
      BY <1>4 DEF Read
    <2>2. \/ b = told
          \/ b = unwrap_tcp_in_ip(told, frame.dgram).adapter
      BY <2>1 DEF ReadTap, Got
    <2>3. IsAdapter(told) /\ SamePeer(a, told)
      BY KeepsPeer
    <2> HIDE DEF b, told, frame
    <2> QED
      BY <2>2, <2>3, FilterKeepsPeer DEF SamePeer, b
  <1> QED
    BY <1>1, <1>2, <1>3, <1>4 DEF Kinds

\* The initial state.
LEMMA InitInv == Init => Inv
  <1> SUFFICES ASSUME Init
               PROVE  Inv
    OBVIOUS
  <1>1. PICK kind \in Kinds :
            /\ isn \in Isns /\ checkpoint = 0
            /\ server \in {Listening(kind), Serving(kind)}
    BY DEF Init, Kinds
  <1>2. \E source, destination, listen, mac, ip, next_hop :
            server = NewAdapter(kind, source, destination, listen, mac, ip, next_hop)
    BY <1>1 DEF Listening, Serving
  <1>3. IsAdapter(server)
    BY <1>2 DEF NewAdapter, IsAdapter, Members
  <1> QED
    BY <1>1, <1>3, WireAssumption DEF Inv

\* What arrives, damaged or not, and is read, leaves a locked adapter locked.
LEMMA TakesKeepsPeer ==
    ASSUME Inv, NEW packet, NEW got, NEW intact, Takes(got, intact),
           got.adapter = Read(server, packet).adapter
    PROVE  Inv' /\ (~server.listen => SamePeer(server, server'))
  <1> DEFINE b == got.adapter
  <1>1. IsAdapter(server)
    BY DEF Inv
  <1>2. IsAdapter(b) /\ (~server.listen => SamePeer(server, b))
    BY <1>1, ReadKeepsPeer
  <1>3. server' = Sent(b) /\ isn' = isn /\ checkpoint' = checkpoint
    BY DEF Takes
  <1> HIDE DEF b
  <1>4. IsAdapter(server') /\ SamePeer(b, server')
    BY <1>2, <1>3, SentKeepsPeer
  <1>5. Inv'
    BY <1>3, <1>4 DEF Inv, IsAdapter
  <1>6. ~server.listen => SamePeer(server, server')
    BY <1>2, <1>4 DEF SamePeer
  <1> QED
    BY <1>5, <1>6

\* Every step keeps Inv, and no step turns a locked adapter to somebody else.
LEMMA NextInv ==
    ASSUME Inv, [Next]_vars
    PROVE  Inv' /\ (~server.listen => SamePeer(server, server'))
  <1>1. CASE UNCHANGED <<isn, server, checkpoint>>
    BY <1>1 DEF Inv, IsAdapter, SamePeer
  <1>2. CASE ServerReads
    BY <1>2, TakesKeepsPeer DEF ServerReads
  <1>3. CASE ServerReadsDamaged
    BY <1>3, TakesKeepsPeer DEF ServerReadsDamaged
  <1>4. CASE ServerDrops
    <2>1. Dropped(Read(server, Head(up))).adapter = Read(server, Head(up)).adapter
      BY DEF Dropped, Got
    <2> QED
      BY <1>4, <2>1, TakesKeepsPeer DEF ServerDrops
  <1>5. CASE Advance
    <2>1. checkpoint' \in 0..MaxAbs /\ isn' = isn /\ server' = server
      BY <1>5, WireAssumption DEF Advance, Inv
    <2> QED
      BY <2>1 DEF Inv, IsAdapter, SamePeer
  <1>6. CASE TimePasses
    <2>1. IsAdapter(server) /\ isn' = isn /\ checkpoint' = checkpoint
          /\ server' = [server EXCEPT !.interface = NI!tick(server.interface, CacheTtl)]
      BY <1>6 DEF TimePasses, Inv, tick
    <2>2. IsAdapter(server') /\ SamePeer(server, server')
      BY <2>1, KeepsPeer
    <2> QED
      BY <2>1, <2>2 DEF Inv, IsAdapter
  <1>7. CASE \E kind \in DOMAIN Flags, k \in 0..MaxAbs : ClientWrites(kind, k)
    BY <1>1, <1>7 DEF ClientWrites
  <1>8. CASE \E from \in From, to \in To, kind \in DOMAIN Flags : StrangerWrites(from, to, kind)
    BY <1>1, <1>8 DEF StrangerWrites
  <1>9. CASE ClientReads
    BY <1>1, <1>9 DEF ClientReads
  <1>10. CASE WireLoses
    BY <1>1, <1>10 DEF WireLoses
  <1>11. CASE UNCHANGED vars
    BY <1>1, <1>11 DEF vars
  <1> QED
    BY <1>2, <1>3, <1>4, <1>5, <1>6, <1>7, <1>8, <1>9, <1>10, <1>11 DEF Next

\* The inductive invariant.
LEMMA InvHolds == Spec => []Inv
  BY InitInv, NextInv, PTL DEF Spec

\* 2^32 is even.
LEMMA EvenWidth == Mod32 \in Nat \ {0} /\ Mod32 = 2 * (Mod32 \div 2)
  <1>1. Mod32 \in Nat \ {0}
    BY WireAssumption
  <1>2. Mod32 % 2 = 0
    BY WireAssumption
  <1> QED
    BY <1>1, <1>2

\* fd_adapter.cc, tcp_over_ip.cc, tuntap_adapter.cc: an adapter of any kind that has
\* locked on to a peer talks to that peer for ever, whatever segments, damaged
\* packets, ARP messages and losses come.
THEOREM StaysLockedOn == Spec => LockedOn
  <1>1. Inv /\ [Next]_vars => [~server.listen => /\ ~server'.listen
                                                /\ server'.destination = server.destination
                                                /\ server'.source = server.source]_vars
    BY NextInv DEF SamePeer
  <1> QED
    BY InvHolds, <1>1, PTL DEF Spec, LockedOn

\* wrapping_integers.cc, for every width, isn and checkpoint: of the numbers that wrap
\* to the one that arrived, unwrap finds the one closest to the checkpoint.
THEOREM HeardIsClosest == Spec => []Closest
  <1>1. Inv => Closest
    <2> SUFFICES ASSUME Inv, NEW x \in 0..MaxAbs + Mod32,
                        W!wrap(x, isn) = Number(heard.seg[1].header.seqno)
                 PROVE  Distance(Received, checkpoint) <= Distance(x, checkpoint)
      BY DEF Closest
    <2> DEFINE n == Number(heard.seg[1].header.seqno)
    <2>1. /\ Mod32 \in Nat \ {0} /\ Mod64 \in Nat \ {0} /\ Mod32 = 2 * (Mod32 \div 2)
          /\ MaxAbs \in Nat /\ MaxAbs + Mod32 < Mod64 \div 2
      <3>1. Mod64 \in Nat /\ MaxAbs \in Nat /\ MaxAbs + Mod32 < Mod64 \div 2
        BY WireAssumption
      <3>2. Mod64 # 0
        BY <3>1, EvenWidth
      <3> QED
        BY <3>1, <3>2, EvenWidth
    <2>2. isn \in Int
      <3>1. Isns \subseteq 0..Mod32 - 1
        BY WireAssumption
      <3> QED
        BY <2>1, <3>1 DEF Inv
    <2>3. checkpoint \in Nat /\ checkpoint <= MaxAbs /\ x \in Nat
      BY <2>1 DEF Inv
    <2>4. NP!Widths /\ NP!InRange(checkpoint)
      BY <2>1, <2>3 DEF NP!Widths, NP!InRange
    <2>5. NP!wrap(x, isn) = n
      BY DEF NP!wrap, W!wrap
    <2> HIDE DEF n
    <2>6. NP!Distance(NP!unwrap(n, isn, checkpoint), checkpoint) <= NP!Distance(x, checkpoint)
      BY <2>1, <2>2, <2>3, <2>4, <2>5, NP!UnwrapIsClosest
    <2>7. NP!unwrap(n, isn, checkpoint) = Received
      BY DEF NP!unwrap, NP!difference, NP!AsSigned, NP!wrap,
             W!unwrap, W!difference, W!AsSigned, W!wrap, Received, n
    <2> QED
      BY <2>6, <2>7 DEF NP!Distance, Distance
  <1> QED
    BY InvHolds, <1>1, PTL
=============================================================================
