----------------------- MODULE NetworkInterfaceProofs -----------------------
(***************************************************************************)
(* NetworkInterfaceSpec for any hosts, Ethernet addresses, timeouts and    *)
(* number of datagrams: the invariants HeldOnlyIfUnknown, CacheIsNews,     *)
(* HeldWasAsked and LeavesOnce, which the run network_interface checks for *)
(* two hosts.  CacheIsNews is not inductive: an entry expires by its own   *)
(* clock, not by the age of the announcement, so Inv says what the whole   *)
(* cache is, entry by entry, clocks included.  LeavesOnce needs to know    *)
(* where every datagram is, which Placed says.                             *)
(***************************************************************************)
EXTENDS NetworkInterfaceSpec, FiniteSetTheorems, SequenceTheorems, TLAPS

\* An object of the class, with our addresses.
Object(frames, cache, lists) ==
    [ethernet_address |-> OurMac, ip_address |-> OurIp, frames_out |-> frames,
     cache |-> cache, Queuing_List_Map |-> lists]
IsInterface(x) == x = Object(x.frames_out, x.cache, x.Queuing_List_Map)

\* The cache that should follow from what was heard, and when.
News == [h \in {g \in DOMAIN heard : age[g] < CacheTtl} |->
            [time_caching |-> age[h], MAC_address |-> heard[h]]]

Inv ==
    /\ IsInterface(n)
    /\ DOMAIN age = DOMAIN heard
    /\ \A h \in DOMAIN age : age[h] \in Nat
    /\ n.cache = News
    /\ HeldOnlyIfUnknown
    /\ HeldWasAsked

\* Assigning a member of an object leaves the other members as they are.
LEMMA Members ==
    ASSUME NEW x, IsInterface(x), NEW v
    PROVE  /\ x.ethernet_address = OurMac /\ x.ip_address = OurIp
           /\ [x EXCEPT !.frames_out = v] = Object(v, x.cache, x.Queuing_List_Map)
           /\ [x EXCEPT !.cache = v] = Object(x.frames_out, v, x.Queuing_List_Map)
           /\ [x EXCEPT !.Queuing_List_Map = v] = Object(x.frames_out, x.cache, v)
  <1>1. PICK f, c, q : x = Object(f, c, q)
    BY DEF IsInterface
  <1> QED
    BY <1>1 DEF Object

\* The members of an object are what it was made of.
LEMMA ObjectMembers ==
    ASSUME NEW f, NEW c, NEW q, NEW x, x = Object(f, c, q)
    PROVE  /\ IsInterface(x)
           /\ x.frames_out = f /\ x.cache = c /\ x.Queuing_List_Map = q
  BY DEF Object, IsInterface

\* What send_datagram does to an interface with an empty frames_out: the cache is
\* untouched, and a next hop is new in the map of lists only if it is not cached
\* and is asked about.
LEMMA SendEffect ==
    ASSUME NEW x, IsInterface(x), x.frames_out = <<>>, NEW d, NEW h
    PROVE  LET y == NI!send_datagram(x, d, h)
           IN  /\ IsInterface(y)
               /\ y.cache = x.cache
               /\ \A g \in DOMAIN y.Queuing_List_Map \ DOMAIN x.Queuing_List_Map :
                      g = h /\ h \notin DOMAIN x.cache /\ h \in Requested(y.frames_out)
  <1> DEFINE y == NI!send_datagram(x, d, h)
  <1>1. CASE h \in DOMAIN x.cache
    <2> DEFINE frames == Append(x.frames_out,
                            NI!Ipv4Frame(x.ethernet_address, x.cache[h].MAC_address, d))
    <2>1. y = [x EXCEPT !.frames_out = frames]
      BY <1>1 DEF NI!send_datagram, NI!send_datagram_handler
    <2>2. y = Object(frames, x.cache, x.Queuing_List_Map)
      BY <2>1, Members
    <2> HIDE DEF y, frames
    <2>3. IsInterface(y) /\ y.cache = x.cache /\ y.Queuing_List_Map = x.Queuing_List_Map
      BY <2>2, ObjectMembers
    <2> QED
      BY <2>3 DEF y
  <1>2. CASE h \notin DOMAIN x.cache /\ h \in DOMAIN x.Queuing_List_Map
    <2> DEFINE frames == Append(x.frames_out, NI!ArpFrame(OurMac, Broadcast, "REQUEST", OurIp, h))
    <2>1. \/ y = x
          \/ y = NI!RequestFor(x, h)
      BY <1>2 DEF NI!send_datagram
    <2>2. NI!RequestFor(x, h) = Object(frames, x.cache, x.Queuing_List_Map)
      BY Members DEF NI!RequestFor, NI!send_ARP
    <2> HIDE DEF y, frames
    <2>3. IsInterface(y) /\ y.cache = x.cache /\ y.Queuing_List_Map = x.Queuing_List_Map
      BY <2>1, <2>2, ObjectMembers
    <2> QED
      BY <2>3 DEF y
  <1>3. CASE h \notin DOMAIN x.cache /\ h \notin DOMAIN x.Queuing_List_Map
    <2> DEFINE map == NI!Put(x.Queuing_List_Map, h,
                             [time_since_last_ARP_req |-> 0, queuing_datagrams |-> <<d>>])
               frame == NI!ArpFrame(OurMac, Broadcast, "REQUEST", OurIp, h)
               listed == [x EXCEPT !.Queuing_List_Map = map]
    <2>1. y = NI!RequestFor(listed, h)
      BY <1>3 DEF NI!send_datagram
    <2> HIDE DEF y, map, frame
    <2>2. listed = Object(x.frames_out, x.cache, map)
      BY Members
    <2> HIDE DEF listed
    <2>3. IsInterface(listed) /\ listed.frames_out = <<>> /\ listed.cache = x.cache
          /\ listed.Queuing_List_Map = map
      BY <2>2, ObjectMembers
    <2>4. NI!RequestFor(listed, h) = Object(Append(<<>>, frame), x.cache, map)
      BY <2>3, Members DEF NI!RequestFor, NI!send_ARP, frame
    <2>5. /\ IsInterface(y) /\ y.cache = x.cache /\ y.Queuing_List_Map = map
          /\ y.frames_out = Append(<<>>, frame)
      BY <2>1, <2>4, ObjectMembers
    <2>6. DOMAIN map = DOMAIN x.Queuing_List_Map \union {h}
      BY DEF NI!Put, map
    <2>7. h \in Requested(<<frame>>)
      BY DEF Requested, NI!ArpFrame, frame
    <2>8. y.frames_out = <<frame>>
      BY <2>5
    <2> QED
      BY <1>3, <2>5, <2>6, <2>7, <2>8 DEF y
  <1> QED
    BY <1>1, <1>2, <1>3

\* What recv_frame does with an ARP message for us: the mapping is in the cache, new,
\* and nothing is held for the sender any more.
LEMMA RecvEffect ==
    ASSUME NEW x, IsInterface(x), NEW mac, NEW dst \in {OurMac, Broadcast}, NEW opcode,
           NEW h, NEW target
    PROVE  LET y == NI!recv_frame(x, NI!ArpFrame(mac, dst, opcode, h, target))
           IN  /\ IsInterface(y)
               /\ y.cache = NI!Put(x.cache, h, [time_caching |-> 0, MAC_address |-> mac])
               /\ DOMAIN y.Queuing_List_Map = DOMAIN x.Queuing_List_Map \ {h}
  <1> DEFINE frame == NI!ArpFrame(mac, dst, opcode, h, target)
             learnt == NI!Learn(x, h, mac)
             flushed == NI!Flush(learnt, h, mac)
             y == NI!recv_frame(x, frame)
  <1>1. frame.sender_ip = h /\ frame.sender_mac = mac /\ frame.dst = dst /\ frame.type = "ARP"
    BY DEF NI!ArpFrame
  <1>2. y = NI!Reply(flushed, frame)
    <2> HIDE DEF frame
    <2>1. NI!ForUs(x, frame)
      BY <1>1, Members DEF NI!ForUs
    <2> QED
      BY <1>1, <2>1 DEF NI!recv_frame
  <1>3. /\ IsInterface(learnt)
        /\ learnt.cache = NI!Put(x.cache, h, [time_caching |-> 0, MAC_address |-> mac])
        /\ learnt.Queuing_List_Map = x.Queuing_List_Map
    <2> DEFINE cache == NI!Put(x.cache, h, [time_caching |-> 0, MAC_address |-> mac])
    <2>1. learnt = Object(x.frames_out, cache, x.Queuing_List_Map)
      BY Members DEF NI!Learn
    <2> HIDE DEF learnt, cache
    <2>2. IsInterface(learnt) /\ learnt.cache = cache /\ learnt.Queuing_List_Map = x.Queuing_List_Map
      BY <2>1, ObjectMembers
    <2> QED
      BY <2>2 DEF cache
  <1> HIDE DEF learnt
  <1>4. /\ IsInterface(flushed)
        /\ flushed.cache = learnt.cache
        /\ DOMAIN flushed.Queuing_List_Map = DOMAIN learnt.Queuing_List_Map \ {h}
    <2>1. CASE h \notin DOMAIN learnt.Queuing_List_Map
      BY <1>3, <2>1 DEF NI!Flush
    <2>2. CASE h \in DOMAIN learnt.Queuing_List_Map
      <3> DEFINE held == learnt.Queuing_List_Map[h].queuing_datagrams
                 out == learnt.frames_out \o
                            [i \in DOMAIN held |->
                                NI!Ipv4Frame(learnt.ethernet_address, mac, held[i])]
                 lists == NI!Erase(learnt.Queuing_List_Map, {h})
      <3>1. flushed = [learnt EXCEPT !.frames_out = out, !.Queuing_List_Map = lists]
        BY <2>2 DEF NI!Flush
      <3> HIDE DEF flushed, out, lists
      <3>2. flushed = Object(out, learnt.cache, lists)
        <4>1. PICK f, c, q : learnt = Object(f, c, q)
          BY <1>3 DEF IsInterface
        <4> QED
          BY <3>1, <4>1 DEF Object
      <3>3. IsInterface(flushed) /\ flushed.cache = learnt.cache /\ flushed.Queuing_List_Map = lists
        BY <3>2, ObjectMembers
      <3>4. DOMAIN lists = DOMAIN learnt.Queuing_List_Map \ {h}
        BY DEF lists, NI!Erase
      <3> QED
        BY <3>3, <3>4 DEF flushed
    <2> QED
      BY <2>1, <2>2
  <1> HIDE DEF flushed
  <1>5. /\ IsInterface(y) /\ y.cache = flushed.cache
        /\ y.Queuing_List_Map = flushed.Queuing_List_Map
    <2>1. CASE y = flushed
      BY <1>4, <2>1
    <2>2. CASE y # flushed
      <3> DEFINE out == Append(flushed.frames_out,
                            NI!ArpFrame(flushed.ethernet_address, frame.sender_mac, "REPLY",
                                        flushed.ip_address, frame.sender_ip))
      <3>1. y = [flushed EXCEPT !.frames_out = out]
        BY <1>2, <2>2 DEF NI!Reply, NI!send_ARP
      <3> HIDE DEF y, out
      <3>2. y = Object(out, flushed.cache, flushed.Queuing_List_Map)
        BY <3>1, <1>4, Members
      <3> QED
        BY <3>2, ObjectMembers
    <2> QED
      BY <2>1, <2>2
  <1> QED
    BY <1>3, <1>4, <1>5


\* Between two calls the owner empties frames_out and touches nothing else.
LEMMA DrainEffect ==
    ASSUME IsInterface(n)
    PROVE  /\ IsInterface(Drained) /\ Drained.frames_out = <<>>
           /\ Drained.cache = n.cache /\ Drained.Queuing_List_Map = n.Queuing_List_Map
  <1>1. Drained = Object(<<>>, n.cache, n.Queuing_List_Map)
    BY Members DEF Drained
  <1> QED
    BY <1>1, ObjectMembers

\* A new interface satisfies Inv.
LEMMA InitInv == Init => Inv
  <1> SUFFICES ASSUME Init PROVE Inv
    OBVIOUS
  <1>1. n = Object(<<>>, NI!EmptyMap, NI!EmptyMap)
    BY DEF Init, NI!New, Object
  <1>2. IsInterface(n) /\ n.cache = NI!EmptyMap /\ n.Queuing_List_Map = NI!EmptyMap
    BY <1>1, ObjectMembers
  <1>3. heard = NI!EmptyMap /\ age = NI!EmptyMap /\ DOMAIN NI!EmptyMap = {}
    BY DEF Init, NI!EmptyMap
  <1>4. n.cache = News
    BY <1>2, <1>3 DEF News, NI!EmptyMap
  <1> QED
    BY <1>2, <1>3, <1>4 DEF Inv, HeldOnlyIfUnknown, HeldWasAsked, Held

\* send_datagram keeps Inv: it holds a datagram only where the cache has nothing, and
\* asks in the same call.
LEMMA SendInv ==
    ASSUME Inv, NEW h \in Host, SendDatagram(h)
    PROVE  Inv'
  <1> DEFINE d == Len(hop) + 1
  <1>1. IsInterface(n) /\ n' = NI!send_datagram(Drained, d, h)
    BY DEF Inv, SendDatagram
  <1> HIDE DEF d
  <1>2. /\ IsInterface(n') /\ n'.cache = n.cache
        /\ \A g \in DOMAIN n'.Queuing_List_Map \ DOMAIN n.Queuing_List_Map :
               g = h /\ h \notin DOMAIN n.cache /\ h \in Requested(n'.frames_out)
    BY <1>1, DrainEffect, SendEffect
  <1>3. heard' = heard /\ age' = age /\ asked' = asked \union Requested(n'.frames_out)
    BY DEF SendDatagram
  <1>4. n'.cache = News'
    BY <1>2, <1>3 DEF Inv, News
  <1>5. IsInterface(n)'
    BY <1>2 DEF IsInterface, Object
  <1>6. HeldOnlyIfUnknown' /\ HeldWasAsked'
    BY <1>2, <1>3 DEF Inv, HeldOnlyIfUnknown, HeldWasAsked, Held
  <1> QED
    BY <1>3, <1>4, <1>5, <1>6 DEF Inv

\* An ARP message either is for somebody else and changes nothing, or is news to the
\* cache and to `heard` at once.
LEMMA ArpInv ==
    ASSUME Inv, NEW h \in Host, NEW mac \in Mac, NEW dst \in {OurMac, Broadcast, mac},
           NEW opcode, NEW target, ArpArrives(h, mac, dst, opcode, target)
    PROVE  Inv'
  <1> DEFINE frame == NI!ArpFrame(mac, dst, opcode, h, target)
  <1>1. IsInterface(n) /\ n' = NI!recv_frame(Drained, frame)
    BY DEF Inv, ArpArrives
  <1>2. CASE dst = mac
    <2>1. frame.dst = mac
      BY <1>2 DEF NI!ArpFrame
    <2>2. mac # OurMac /\ mac # Broadcast
      BY LinkAssumption
    <2>3. ~NI!ForUs(Drained, frame)
      BY <1>1, <2>1, <2>2, DrainEffect, Members DEF NI!ForUs
    <2>4. n' = Drained
      BY <1>1, <2>3 DEF NI!recv_frame
    <2>5. heard' = heard /\ age' = age /\ asked' = asked
      BY <1>2, <2>2 DEF ArpArrives
    <2>6. IsInterface(n') /\ n'.cache = n.cache /\ n'.Queuing_List_Map = n.Queuing_List_Map
      BY <1>1, <2>4, DrainEffect
    <2>7. IsInterface(n)'
      BY <2>6 DEF IsInterface, Object
    <2>8. n'.cache = News'
      BY <2>5, <2>6 DEF Inv, News
    <2> QED
      BY <2>5, <2>6, <2>7, <2>8 DEF Inv, HeldOnlyIfUnknown, HeldWasAsked, Held
  <1>3. CASE dst \in {OurMac, Broadcast}
    <2>1. /\ IsInterface(n')
          /\ n'.cache = NI!Put(n.cache, h, [time_caching |-> 0, MAC_address |-> mac])
          /\ DOMAIN n'.Queuing_List_Map = DOMAIN n.Queuing_List_Map \ {h}
      BY <1>1, <1>3, DrainEffect, RecvEffect
    <2>2. /\ heard' = NI!Put(heard, h, mac) /\ age' = NI!Put(age, h, 0)
          /\ asked \ {h} \subseteq asked'
      BY <1>3, LinkAssumption DEF ArpArrives
    <2>3. /\ DOMAIN heard' = DOMAIN heard \union {h} /\ DOMAIN age' = DOMAIN heard'
          /\ \A g \in DOMAIN heard' : /\ heard'[g] = IF g = h THEN mac ELSE heard[g]
                                      /\ age'[g] = IF g = h THEN 0 ELSE age[g]
      BY <2>2 DEF NI!Put, Inv
    <2>4. \A g \in DOMAIN age' : age'[g] \in Nat
      BY <2>3 DEF Inv
    <2>5. n'.cache = News'
      <3> DEFINE Young == {g \in DOMAIN heard : age[g] < CacheTtl}
                 Young2 == {g \in DOMAIN heard' : age'[g] < CacheTtl}
                 Fresh == [time_caching |-> 0, MAC_address |-> mac]
      <3>1. DOMAIN n.cache = Young
            /\ \A g \in Young : n.cache[g] = [time_caching |-> age[g], MAC_address |-> heard[g]]
        BY DEF Inv, News
      <3>2. Young2 = Young \union {h}
        BY <2>3, LinkAssumption
      <3>3. n'.cache = [g \in Young \union {h} |-> IF g = h THEN Fresh ELSE n.cache[g]]
        BY <2>1, <3>1 DEF NI!Put
      <3>4. ASSUME NEW g \in Young \union {h}
            PROVE  (IF g = h THEN Fresh ELSE n.cache[g])
                       = [time_caching |-> age'[g], MAC_address |-> heard'[g]]
        <4>1. CASE g = h
          BY <2>3, <4>1
        <4>2. CASE g # h
          BY <2>3, <3>1, <4>2
        <4> QED
          BY <4>1, <4>2
      <3>5. News' = [g \in Young2 |-> [time_caching |-> age'[g], MAC_address |-> heard'[g]]]
        BY DEF News
      <3> HIDE DEF Young, Young2, Fresh
      <3> QED
        BY <3>2, <3>3, <3>4, <3>5
    <2>6. IsInterface(n)'
      BY <2>1 DEF IsInterface, Object
    <2>7. DOMAIN n'.cache = DOMAIN n.cache \union {h}
      BY <2>1 DEF NI!Put
    <2>8. HeldOnlyIfUnknown' /\ HeldWasAsked'
      BY <2>1, <2>2, <2>7 DEF Inv, HeldOnlyIfUnknown, HeldWasAsked, Held
    <2> QED
      BY <2>3, <2>4, <2>5, <2>6, <2>8 DEF Inv
  <1> QED
    BY <1>2, <1>3

\* An entry expires when the announcement behind it does.
LEMMA TickInv ==
    ASSUME Inv, Tick
    PROVE  Inv'
  <1> DEFINE old == {h \in DOMAIN n.cache : NI!Expired(n.cache[h], 1)}
             cache == [h \in DOMAIN n.cache \ old |-> NI!Older(n.cache[h], 1)]
             lists == [h \in DOMAIN n.Queuing_List_Map |->
                          NI!Later(n.Queuing_List_Map[h], 1)]
             Young == {g \in DOMAIN heard : age[g] < CacheTtl}
             Young2 == {g \in DOMAIN heard' : age'[g] < CacheTtl}
  <1>1. n' = Object(<<>>, cache, lists)
    <2>1. n' = NI!tick(Drained, 1) /\ IsInterface(n)
      BY DEF Tick, Inv
    <2>2. Drained = Object(<<>>, n.cache, n.Queuing_List_Map)
      BY <2>1, DrainEffect DEF IsInterface
    <2>3. Drained.cache = n.cache /\ Drained.Queuing_List_Map = n.Queuing_List_Map
      BY <2>1, DrainEffect
    <2>4. n' = [Drained EXCEPT !.cache = cache, !.Queuing_List_Map = lists]
      BY <2>1, <2>3 DEF NI!tick
    <2> HIDE DEF cache, lists
    <2> QED
      BY <2>2, <2>4 DEF Object
  <1>2. IsInterface(n') /\ n'.cache = cache /\ n'.Queuing_List_Map = lists
    <2> HIDE DEF cache, lists
    <2> QED
      BY <1>1, ObjectMembers
  <1>3. heard' = heard /\ asked' = asked
        /\ age' = [h \in DOMAIN age |-> AtMost(age[h] + 1, CacheTtl)]
    BY DEF Tick
  <1>4. DOMAIN age' = DOMAIN heard'
        /\ \A h \in DOMAIN age' :
               /\ age'[h] \in Nat
               /\ age'[h] < CacheTtl <=> age[h] + 1 < CacheTtl
               /\ age'[h] < CacheTtl => age'[h] = age[h] + 1
    BY <1>3, LinkAssumption DEF Inv, AtMost
  <1>5. DOMAIN n.cache = Young
        /\ \A g \in Young : n.cache[g] = [time_caching |-> age[g], MAC_address |-> heard[g]]
    BY DEF Inv, News
  <1>6. Young \ old = Young2
    <2>1. ASSUME NEW g \in Young
          PROVE  NI!Expired(n.cache[g], 1) <=> age[g] + 1 >= CacheTtl
      <3> HIDE DEF Young
      <3>1. n.cache[g] = [time_caching |-> age[g], MAC_address |-> heard[g]]
        BY <1>5
      <3> QED
        BY <3>1 DEF NI!Expired
    <2>2. \A g \in DOMAIN heard : age[g] \in Nat
      BY DEF Inv
    <2>3. old = {g \in Young : age[g] + 1 >= CacheTtl}
      BY <1>5, <2>1
    <2>4. Young2 = {g \in DOMAIN heard : age[g] + 1 < CacheTtl}
      BY <1>3, <1>4
    <2> HIDE DEF old, Young2
    <2> QED
      BY <2>2, <2>3, <2>4, LinkAssumption
  <1>7. cache = News'
    <2>1. News' = [g \in Young2 |-> [time_caching |-> age'[g], MAC_address |-> heard'[g]]]
      BY DEF News
    <2>2. cache = [g \in Young2 |-> NI!Older(n.cache[g], 1)]
      BY <1>5, <1>6
    <2>3. ASSUME NEW g \in Young2
          PROVE  NI!Older(n.cache[g], 1)
                     = [time_caching |-> age'[g], MAC_address |-> heard'[g]]
      <3>1. g \in Young /\ age'[g] = age[g] + 1 /\ heard'[g] = heard[g]
        BY <1>3, <1>4, <1>6
      <3>2. n.cache[g] = [time_caching |-> age[g], MAC_address |-> heard[g]]
        BY <1>5, <3>1
      <3> QED
        BY <3>1, <3>2 DEF NI!Older
    <2> HIDE DEF cache, Young2
    <2> QED
      BY <2>1, <2>2, <2>3
  <1>8. IsInterface(n)'
    BY <1>2 DEF IsInterface, Object
  <1>9. DOMAIN n'.cache \subseteq DOMAIN n.cache
        /\ DOMAIN n'.Queuing_List_Map = DOMAIN n.Queuing_List_Map
    BY <1>2
  <1>10. HeldOnlyIfUnknown' /\ HeldWasAsked'
    <2> HIDE DEF cache, lists
    <2> QED
      BY <1>3, <1>9 DEF Inv, HeldOnlyIfUnknown, HeldWasAsked, Held
  <1> QED
    BY <1>2, <1>4, <1>7, <1>8, <1>10 DEF Inv

\* Every call, and every step in between, keeps Inv.
LEMMA NextInv == Inv /\ [Next]_vars => Inv'
  <1> SUFFICES ASSUME Inv, [Next]_vars
               PROVE  Inv'
    OBVIOUS
  <1>1. CASE \E h \in Host : SendDatagram(h)
    BY <1>1, SendInv
  <1>2. ASSUME NEW h \in Host, NEW mac \in Mac, Answer(h, mac)
        PROVE  Inv'
    BY <1>2, ArpInv DEF Answer
  <1>3. ASSUME NEW h \in Host, NEW mac \in Mac, Ask(h, mac)
        PROVE  Inv'
    BY <1>3, ArpInv DEF Ask
  <1>4. ASSUME NEW h \in Host, NEW mac \in Mac, Overhear(h, mac)
        PROVE  Inv'
    BY <1>4, ArpInv DEF Overhear
  <1>5. CASE Tick
    BY <1>5, TickInv
  <1>6. CASE UNCHANGED vars
    BY <1>6 DEF vars, Inv, IsInterface, Object, News, HeldOnlyIfUnknown, HeldWasAsked, Held
  <1> QED
    BY <1>1, <1>2, <1>3, <1>4, <1>5, <1>6 DEF Next

\* Inv holds in every reachable state.
LEMMA InvHolds == Spec => []Inv
  BY InitInv, NextInv, PTL DEF Spec

\* network_interface.cc holds a datagram only for a next hop it has no mapping for:
\* recv_frame releases a list in the step that learns the mapping.
THEOREM NothingHeldForKnown == Spec => []HeldOnlyIfUnknown
  <1>1. Inv => HeldOnlyIfUnknown
    BY DEF Inv
  <1> QED
    BY InvHolds, <1>1, PTL

\* Whatever is held waits for a host that was asked and has not answered.
THEOREM NothingHeldUnasked == Spec => []HeldWasAsked
  <1>1. Inv => HeldWasAsked
    BY DEF Inv
  <1> QED
    BY InvHolds, <1>1, PTL

\* The cache is exactly the announcements of the last CacheTtl, the newest of each
\* host: recv_frame and tick keep no stale mapping and forget none early.
THEOREM CacheHoldsTheNews == Spec => []CacheIsNews
  <1>1. Inv => CacheIsNews
    BY DEF Inv, News, CacheIsNews
  <1> QED
    BY InvHolds, <1>1, PTL

-----------------------------------------------------------------------------

\* LeavesOnce is not inductive either: that a datagram is held at most once, and that
\* one that leaves had not left before, needs where each datagram is.  Every list
\* holds exactly the one datagram it was made for.
List(time, d) == [time_since_last_ARP_req |-> time, queuing_datagrams |-> <<d>>]
Placed ==
    /\ hop \in Seq(Host) /\ left \in Seq({0, 1}) /\ Len(left) = Len(hop)
    /\ \A h \in DOMAIN Held : \E d \in 1..Len(hop) :
           /\ Held[h] = List(Held[h].time_since_last_ARP_req, d)
           /\ left[d] = 0 /\ hop[d] = h

\* How often a datagram is in some frames.
Count(frames, d) ==
    Cardinality({i \in DOMAIN frames : frames[i].type = "IPv4" /\ frames[i].dgram = d})

\* What a frame is to the owner: it carries a datagram, or it is an ARP message.
Carries(f, d) == f.type = "IPv4" /\ f.dgram = d
IsArp(a) == a.type = "ARP"

\* The frames of one call: there may be none,
LEMMA CountNone ==
    ASSUME NEW d
    PROVE  Count(<<>>, d) = 0
  <1>1. {i \in DOMAIN <<>> : <<>>[i].type = "IPv4" /\ <<>>[i].dgram = d} = {}
    OBVIOUS
  <1> QED
    BY <1>1, FS_EmptySet DEF Count

\* an ARP message,
LEMMA CountArp ==
    ASSUME NEW d, NEW a, IsArp(a)
    PROVE  Count(<<a>>, d) = 0
  <1>1. {i \in DOMAIN <<a>> : <<a>>[i].type = "IPv4" /\ <<a>>[i].dgram = d} = {}
    BY DEF IsArp
  <1> QED
    BY <1>1, FS_EmptySet DEF Count

\* a datagram,
LEMMA CountData ==
    ASSUME NEW d, NEW e, NEW f, Carries(f, e)
    PROVE  Count(<<f>>, d) = IF d = e THEN 1 ELSE 0
  <1> DEFINE S == {i \in DOMAIN <<f>> : <<f>>[i].type = "IPv4" /\ <<f>>[i].dgram = d}
  <1>1. S = IF d = e THEN {1} ELSE {}
    BY DEF Carries
  <1>2. Count(<<f>>, d) = Cardinality(S)
    BY DEF Count
  <1> HIDE DEF S
  <1> QED
    BY <1>1, <1>2, FS_EmptySet, FS_Singleton

\* or a datagram and the answer to a request.
LEMMA CountDataArp ==
    ASSUME NEW d, NEW e, NEW f, Carries(f, e), NEW a, IsArp(a)
    PROVE  Count(<<f, a>>, d) = IF d = e THEN 1 ELSE 0
  <1> DEFINE S == {i \in DOMAIN <<f, a>> : <<f, a>>[i].type = "IPv4" /\ <<f, a>>[i].dgram = d}
  <1>1. S = IF d = e THEN {1} ELSE {}
    BY DEF Carries, IsArp
  <1>2. Count(<<f, a>>, d) = Cardinality(S)
    BY DEF Count
  <1> HIDE DEF S
  <1> QED
    BY <1>1, <1>2, FS_EmptySet, FS_Singleton

\* What send_datagram does with the datagram: it leaves at once, or is dropped, or is
\* held in a list of its own.
LEMMA SendPlaces ==
    ASSUME NEW x, IsInterface(x), x.frames_out = <<>>, NEW d, NEW h,
           NEW y, y = NI!send_datagram(x, d, h)
    PROVE  \/ /\ y.Queuing_List_Map = x.Queuing_List_Map
              /\ \E mac : y.frames_out = <<NI!Ipv4Frame(OurMac, mac, d)>>
           \/ /\ y.Queuing_List_Map = x.Queuing_List_Map
              /\ \/ y.frames_out = <<>>
                 \/ y.frames_out = <<NI!ArpFrame(OurMac, Broadcast, "REQUEST", OurIp, h)>>
           \/ /\ h \notin DOMAIN x.Queuing_List_Map
              /\ y.Queuing_List_Map = NI!Put(x.Queuing_List_Map, h,
                     [time_since_last_ARP_req |-> 0, queuing_datagrams |-> <<d>>])
              /\ y.frames_out = <<NI!ArpFrame(OurMac, Broadcast, "REQUEST", OurIp, h)>>
  <1> DEFINE arp == NI!ArpFrame(OurMac, Broadcast, "REQUEST", OurIp, h)
             list == [time_since_last_ARP_req |-> 0, queuing_datagrams |-> <<d>>]
  <1>1. \A z : IsInterface(z) /\ z.frames_out = <<>> =>
            /\ NI!RequestFor(z, h).frames_out = <<arp>>
            /\ NI!RequestFor(z, h).Queuing_List_Map = z.Queuing_List_Map
    <2> SUFFICES ASSUME NEW z, IsInterface(z), z.frames_out = <<>>
                 PROVE  /\ NI!RequestFor(z, h).frames_out = <<arp>>
                        /\ NI!RequestFor(z, h).Queuing_List_Map = z.Queuing_List_Map
      OBVIOUS
    <2>1. NI!RequestFor(z, h) = [z EXCEPT !.frames_out = Append(z.frames_out, arp)]
      BY Members DEF NI!RequestFor, NI!send_ARP
    <2>2. Append(z.frames_out, arp) = <<arp>>
      OBVIOUS
    <2> HIDE DEF arp
    <2>3. NI!RequestFor(z, h) = Object(<<arp>>, z.cache, z.Queuing_List_Map)
      BY <2>1, <2>2, Members
    <2> QED
      BY <2>3, ObjectMembers
  <1>2. CASE h \in DOMAIN x.cache
    <2> DEFINE f == NI!Ipv4Frame(OurMac, x.cache[h].MAC_address, d)
    <2>1. y = [x EXCEPT !.frames_out = Append(x.frames_out, f)]
      BY <1>2, Members DEF NI!send_datagram, NI!send_datagram_handler
    <2>2. Append(x.frames_out, f) = <<f>>
      OBVIOUS
    <2> HIDE DEF f
    <2>3. y = Object(<<f>>, x.cache, x.Queuing_List_Map)
      BY <2>1, <2>2, Members
    <2>4. y.frames_out = <<f>> /\ y.Queuing_List_Map = x.Queuing_List_Map
      BY <2>3, ObjectMembers
    <2> QED
      BY <2>4 DEF f
  <1>3. CASE h \notin DOMAIN x.cache /\ h \in DOMAIN x.Queuing_List_Map
    <2>1. y = x \/ y = NI!RequestFor(x, h)
      BY <1>3 DEF NI!send_datagram
    <2> QED
      BY <2>1, <1>1
  <1>4. CASE h \notin DOMAIN x.cache /\ h \notin DOMAIN x.Queuing_List_Map
    <2> DEFINE map == NI!Put(x.Queuing_List_Map, h, list)
               z == [x EXCEPT !.Queuing_List_Map = map]
    <2>1. y = NI!RequestFor(z, h)
      BY <1>4 DEF NI!send_datagram
    <2> HIDE DEF map
    <2>2. z = Object(x.frames_out, x.cache, map)
      BY Members
    <2> HIDE DEF z
    <2>3. IsInterface(z) /\ z.frames_out = <<>> /\ z.Queuing_List_Map = map
      BY <2>2, ObjectMembers
    <2>4. y.frames_out = <<arp>> /\ y.Queuing_List_Map = map
      BY <1>1, <2>1, <2>3
    <2> QED
      BY <1>4, <2>4 DEF map
  <1> QED
    BY <1>2, <1>3, <1>4

\* Appending to the short sequences of frames.
LEMMA ShortAppend ==
    ASSUME NEW a, NEW f
    PROVE  Append(<<>>, a) = <<a>> /\ Append(<<f>>, a) = <<f, a>>
  <1> DEFINE g == <<f, a>>
  <1>1. Append(<<>>, a) = <<a>>
    OBVIOUS
  <1>2. <<f>> \in Seq({f, a}) /\ Len(<<f>>) = 1 /\ g \in Seq({f, a}) /\ Len(g) = 2
    OBVIOUS
  <1>3. /\ Append(<<f>>, a) \in Seq({f, a}) /\ Len(Append(<<f>>, a)) = 2
        /\ Append(<<f>>, a)[1] = f /\ Append(<<f>>, a)[2] = a
    BY <1>2
  <1>4. \A i \in 1..2 : Append(<<f>>, a)[i] = g[i]
    BY <1>3
  <1> DEFINE s == Append(<<f>>, a)
             S == {f, a}
  <1> HIDE DEF g, s, S
  <1>5. s = g
    BY <1>2, <1>3, <1>4, SeqEqual DEF s, S
  <1> QED
    BY <1>1, <1>5 DEF s, g

OnlyFor(lists, h, d) == h \in DOMAIN lists => lists[h].queuing_datagrams = <<d>>
Released(x, y, h, f, a) ==
    /\ \/ y.Queuing_List_Map = NI!Erase(x.Queuing_List_Map, {h})
       \/ /\ h \notin DOMAIN x.Queuing_List_Map
          /\ y.Queuing_List_Map = x.Queuing_List_Map
    /\ IF h \in DOMAIN x.Queuing_List_Map
       THEN y.frames_out = <<f>> \/ y.frames_out = <<f, a>>
       ELSE y.frames_out = <<>> \/ y.frames_out = <<a>>

\* What recv_frame does with an ARP message for us: the one datagram that waits for
\* the sender leaves, if there is one, an answer may follow, and the other lists stay.
LEMMA RecvPlaces ==
    ASSUME NEW x, IsInterface(x), x.frames_out = <<>>,
           NEW mac, NEW dst \in {OurMac, Broadcast}, NEW opcode, NEW h, NEW target,
           NEW d, OnlyFor(x.Queuing_List_Map, h, d),
           NEW y, y = NI!recv_frame(x, NI!ArpFrame(mac, dst, opcode, h, target))
    PROVE  Released(x, y, h, NI!Ipv4Frame(OurMac, mac, d),
                    NI!ArpFrame(OurMac, mac, "REPLY", OurIp, h))
  <1> DEFINE frame == NI!ArpFrame(mac, dst, opcode, h, target)
             learnt == NI!Learn(x, h, mac)
             flushed == NI!Flush(learnt, h, mac)
             f == NI!Ipv4Frame(OurMac, mac, d)
             a == NI!ArpFrame(OurMac, mac, "REPLY", OurIp, h)
             lists == NI!Erase(x.Queuing_List_Map, {h})
             sent == IF h \in DOMAIN x.Queuing_List_Map THEN <<f>> ELSE <<>>
  <1>1. frame.sender_ip = h /\ frame.sender_mac = mac /\ frame.dst = dst /\ frame.type = "ARP"
    BY DEF NI!ArpFrame
  <1>2. y = NI!Reply(flushed, frame)
    <2> HIDE DEF frame
    <2>1. NI!ForUs(x, frame)
      BY <1>1, Members DEF NI!ForUs
    <2> QED
      BY <1>1, <2>1 DEF NI!recv_frame, frame
  <1>3. /\ IsInterface(learnt) /\ learnt.frames_out = <<>>
        /\ learnt.Queuing_List_Map = x.Queuing_List_Map
    <2> DEFINE cache == NI!Put(x.cache, h, [time_caching |-> 0, MAC_address |-> mac])
    <2>1. learnt = Object(x.frames_out, cache, x.Queuing_List_Map)
      BY Members DEF NI!Learn
    <2> HIDE DEF learnt, cache
    <2> QED
      BY <2>1, ObjectMembers
  <1> HIDE DEF learnt
  <1>4. /\ IsInterface(flushed) /\ flushed.frames_out = sent
        /\ flushed.Queuing_List_Map = lists \/
               (h \notin DOMAIN x.Queuing_List_Map
                /\ flushed.Queuing_List_Map = x.Queuing_List_Map)
    <2>1. CASE h \notin DOMAIN x.Queuing_List_Map
      BY <1>3, <2>1 DEF NI!Flush
    <2>2. CASE h \in DOMAIN x.Queuing_List_Map
      <3> DEFINE held == x.Queuing_List_Map[h].queuing_datagrams
                 out == learnt.frames_out \o
                            [i \in DOMAIN held |-> NI!Ipv4Frame(OurMac, mac, held[i])]
      <3>1. flushed = [learnt EXCEPT !.frames_out = out, !.Queuing_List_Map = lists]
        <4>1. learnt.ethernet_address = OurMac
          BY <1>3, Members
        <4> QED
          BY <1>3, <2>2, <4>1 DEF NI!Flush
      <3>2. held = <<d>>
        BY <2>2 DEF OnlyFor
      <3>3. out = <<f>>
        <4>1. [i \in DOMAIN held |-> NI!Ipv4Frame(OurMac, mac, held[i])] = <<f>>
          BY <3>2
        <4> HIDE DEF f
        <4> QED
          BY <1>3, <4>1
      <3> HIDE DEF flushed, out, lists, f
      <3>4. flushed = Object(<<f>>, learnt.cache, lists)
        <4>1. PICK g, c, q : learnt = Object(g, c, q)
          BY <1>3 DEF IsInterface
        <4> QED
          BY <3>1, <3>3, <4>1 DEF Object
      <3>5. IsInterface(flushed) /\ flushed.frames_out = <<f>> /\ flushed.Queuing_List_Map = lists
        BY <3>4, ObjectMembers
      <3> QED
        BY <2>2, <3>5
    <2> QED
      BY <2>1, <2>2
  <1> HIDE DEF flushed
  <1>5. /\ y.frames_out = sent \/ y.frames_out = Append(sent, a)
        /\ y.Queuing_List_Map = flushed.Queuing_List_Map
    <2>1. CASE y = flushed
      BY <1>4, <2>1
    <2>2. CASE y # flushed
      <3> DEFINE out == Append(sent, a)
      <3>1. y = [flushed EXCEPT !.frames_out = out]
        <4>1. flushed.ethernet_address = OurMac /\ flushed.ip_address = OurIp
          BY <1>4, Members
        <4> HIDE DEF frame
        <4>2. y = NI!send_ARP(flushed, "REPLY", mac, h)
          BY <1>1, <1>2, <2>2 DEF NI!Reply
        <4> QED
          BY <1>4, <4>1, <4>2 DEF NI!send_ARP
      <3> HIDE DEF out
      <3>2. y = Object(out, flushed.cache, flushed.Queuing_List_Map)
        BY <3>1, <1>4, Members
      <3>3. y.frames_out = out /\ y.Queuing_List_Map = flushed.Queuing_List_Map
        BY <3>2, ObjectMembers
      <3> QED
        BY <3>3 DEF out
    <2> QED
      BY <2>1, <2>2
  <1>6. Append(<<>>, a) = <<a>> /\ Append(<<f>>, a) = <<f, a>>
    BY ShortAppend
  <1> HIDE DEF a, f, lists
  <1>7. IF h \in DOMAIN x.Queuing_List_Map
        THEN y.frames_out = <<f>> \/ y.frames_out = <<f, a>>
        ELSE y.frames_out = <<>> \/ y.frames_out = <<a>>
    BY <1>5, <1>6
  <1> QED
    BY <1>4, <1>5, <1>7 DEF a, f, lists, Released

\* What the owner sees of a step is a count for every datagram handed over so far.
LEMMA Observed ==
    ASSUME NEW sofar \in Seq({0, 1}), Observe(sofar),
           \A d \in 1..Len(sofar) : sofar[d] + Count(n'.frames_out, d) \in {0, 1}
    PROVE  /\ left' \in Seq({0, 1}) /\ Len(left') = Len(sofar)
           /\ \A d \in 1..Len(sofar) : left'[d] = sofar[d] + Count(n'.frames_out, d)
  <1>1. left' = [d \in 1..Len(sofar) |-> sofar[d] + Count(n'.frames_out, d)]
    BY DEF Observe, Count
  <1>2. Len(sofar) \in Nat
    OBVIOUS
  <1> QED
    BY <1>1, <1>2

\* Nothing was handed over yet.
LEMMA InitPlaced == Init => Placed
  <1> SUFFICES ASSUME Init PROVE Placed
    OBVIOUS
  <1>1. hop = <<>> /\ left = <<>>
    BY DEF Init
  <1>2. DOMAIN Held = {}
    <2>1. n.Queuing_List_Map = NI!EmptyMap
      BY DEF Init, NI!New
    <2> QED
      BY <2>1 DEF Held, NI!EmptyMap
  <1> QED
    BY <1>1, <1>2 DEF Placed

\* A datagram that is handed over leaves, waits alone, or is dropped.
LEMMA SendPlaced ==
    ASSUME Inv, Placed, NEW h \in Host, SendDatagram(h)
    PROVE  Placed'
  <1> DEFINE k == Len(hop) + 1
             sofar == Append(left, 0)
             arp == NI!ArpFrame(OurMac, Broadcast, "REQUEST", OurIp, h)
             lists == n.Queuing_List_Map
             lists2 == n'.Queuing_List_Map
  <1>1. IsInterface(n) /\ n' = NI!send_datagram(Drained, k, h)
    BY DEF Inv, SendDatagram
  <1>2. /\ hop' = Append(hop, h) /\ Observe(sofar)
        /\ hop \in Seq(Host) /\ left \in Seq({0, 1}) /\ Len(left) = Len(hop)
    BY DEF SendDatagram, Placed
  <1>3. /\ hop' \in Seq(Host) /\ Len(hop') = k /\ hop'[k] = h /\ k \in Nat
        /\ \A d \in 1..Len(hop) : hop'[d] = hop[d]
        /\ sofar \in Seq({0, 1}) /\ Len(sofar) = k /\ sofar[k] = 0
        /\ \A d \in 1..Len(hop) : sofar[d] = left[d]
    BY <1>2
  <1>4. IsArp(arp) /\ \A mac : Carries(NI!Ipv4Frame(OurMac, mac, k), k)
    BY DEF IsArp, Carries, NI!ArpFrame, NI!Ipv4Frame
  <1> HIDE DEF k, sofar, arp
  <1>5. \/ /\ lists2 = lists
           /\ \E mac : n'.frames_out = <<NI!Ipv4Frame(OurMac, mac, k)>>
        \/ /\ lists2 = lists
           /\ n'.frames_out = <<>> \/ n'.frames_out = <<arp>>
        \/ /\ h \notin DOMAIN lists /\ lists2 = NI!Put(lists, h, List(0, k))
           /\ n'.frames_out = <<arp>>
    BY <1>1, DrainEffect, SendPlaces DEF arp, List
  <1>6. \/ \A d : Count(n'.frames_out, d) = 0
        \/ /\ lists2 = lists
           /\ \A d : Count(n'.frames_out, d) = IF d = k THEN 1 ELSE 0
    <2>1. ASSUME NEW d, NEW mac
          PROVE  /\ Count(<<>>, d) = 0 /\ Count(<<arp>>, d) = 0
                 /\ Count(<<NI!Ipv4Frame(OurMac, mac, k)>>, d) = IF d = k THEN 1 ELSE 0
      BY <1>4, CountNone, CountArp, CountData
    <2> QED
      BY <1>5, <2>1
  <1>7. \A d \in 1..k : sofar[d] + Count(n'.frames_out, d) \in {0, 1}
    <2>1. \A d \in 1..k : d = k \/ d \in 1..Len(hop)
      BY <1>2 DEF k
    <2>2. \A d \in 1..k : sofar[d] \in {0, 1}
      BY <1>3
    <2> QED
      BY <1>3, <1>6, <2>1, <2>2
  <1>8. /\ left' \in Seq({0, 1}) /\ Len(left') = k
        /\ \A d \in 1..k : left'[d] = sofar[d] + Count(n'.frames_out, d)
    BY <1>2, <1>3, <1>7, Observed
  <1>9. 1..Len(hop) \subseteq 1..k /\ k \in 1..k /\ k \notin 1..Len(hop)
    BY <1>2 DEF k
  <1>10. \A d \in 1..Len(hop) : left'[d] = left[d]
    <2>1. \A d \in 1..Len(hop) : left[d] \in {0, 1}
      BY <1>2
    <2> QED
      BY <1>3, <1>6, <1>8, <1>9, <2>1
  <1>11. ASSUME NEW g \in DOMAIN lists
         PROVE  \E d \in 1..k : /\ lists[g] = List(lists[g].time_since_last_ARP_req, d)
                                /\ left'[d] = 0 /\ hop'[d] = g
    <2>1. PICK d \in 1..Len(hop) : /\ lists[g] = List(lists[g].time_since_last_ARP_req, d)
                                   /\ left[d] = 0 /\ hop[d] = g
      BY DEF Placed, Held
    <2> QED
      BY <1>3, <1>9, <1>10, <2>1
  <1>12. ASSUME NEW g \in DOMAIN lists2
         PROVE  \E d \in 1..k : /\ lists2[g] = List(lists2[g].time_since_last_ARP_req, d)
                                /\ left'[d] = 0 /\ hop'[d] = g
    <2>1. CASE lists2 = lists
      BY <1>11, <2>1
    <2>2. CASE lists2 # lists
      <3>1. lists2 = NI!Put(lists, h, List(0, k)) /\ left'[k] = 0
        BY <1>3, <1>5, <1>6, <1>8, <1>9, <2>2
      <3>2. CASE g = h
        <4>1. lists2[g] = List(0, k)
          BY <3>1, <3>2 DEF NI!Put
        <4>2. List(0, k).time_since_last_ARP_req = 0
          BY DEF List
        <4> QED
          BY <1>3, <1>9, <3>1, <3>2, <4>1, <4>2
      <3>3. CASE g # h
        <4>1. g \in DOMAIN lists /\ lists2[g] = lists[g]
          BY <3>1, <3>3 DEF NI!Put
        <4> HIDE DEF lists, lists2
        <4> QED
          BY <1>11, <4>1
      <3> QED
        BY <3>2, <3>3
    <2> QED
      BY <2>1, <2>2
  <1> QED
    BY <1>3, <1>8, <1>12 DEF Placed, Held

\* An announcement releases the one datagram that waits for its sender, which has
\* not left before, and no other.
LEMMA ArpPlaced ==
    ASSUME Inv, Placed, NEW h \in Host, NEW mac \in Mac, NEW dst \in {OurMac, Broadcast, mac},
           NEW opcode, NEW target, ArpArrives(h, mac, dst, opcode, target)
    PROVE  Placed'
  <1> DEFINE frame == NI!ArpFrame(mac, dst, opcode, h, target)
             lists == n.Queuing_List_Map
             lists2 == n'.Queuing_List_Map
  <1>1. IsInterface(n) /\ n' = NI!recv_frame(Drained, frame) /\ hop' = hop /\ Observe(left)
    BY DEF Inv, ArpArrives
  <1>2. hop \in Seq(Host) /\ left \in Seq({0, 1}) /\ Len(left) = Len(hop)
        /\ \A d \in 1..Len(hop) : left[d] \in {0, 1}
    BY DEF Placed
  <1>3. \A g \in DOMAIN lists : \E d \in 1..Len(hop) :
            /\ lists[g] = List(lists[g].time_since_last_ARP_req, d)
            /\ left[d] = 0 /\ hop[d] = g
    BY DEF Placed, Held
  <1>4. SUFFICES ASSUME NEW d, h \in DOMAIN lists
                            => d \in 1..Len(hop) /\ left[d] = 0 /\ hop[d] = h,
                        \/ /\ \A e \in 1..Len(hop) : Count(n'.frames_out, e) = 0
                           /\ lists2 = lists
                        \/ /\ \A e \in 1..Len(hop) : Count(n'.frames_out, e) =
                                  IF h \in DOMAIN lists /\ e = d THEN 1 ELSE 0
                           /\ \/ lists2 = NI!Erase(lists, {h})
                              \/ h \notin DOMAIN lists /\ lists2 = lists
                 PROVE  Placed'
    <2>1. CASE dst = mac
      <3>1. frame.dst = mac
        BY <2>1 DEF NI!ArpFrame
      <3>2. mac # OurMac /\ mac # Broadcast
        BY LinkAssumption
      <3>3. ~NI!ForUs(Drained, frame)
        BY <1>1, <3>1, <3>2, DrainEffect, Members DEF NI!ForUs
      <3>4. n' = Drained
        BY <1>1, <3>3 DEF NI!recv_frame
      <3>5. n'.frames_out = <<>> /\ lists2 = lists
        BY <1>1, <3>4, DrainEffect
      <3>6. \A e : Count(<<>>, e) = 0
        BY FS_EmptySet DEF Count
      <3>7. PICK d : h \in DOMAIN lists => d \in 1..Len(hop) /\ left[d] = 0 /\ hop[d] = h
        BY <1>3
      <3> QED
        BY <1>4, <3>5, <3>6, <3>7
    <2>2. CASE dst \in {OurMac, Broadcast}
      <3>1. PICK d : h \in DOMAIN lists =>
                        /\ d \in 1..Len(hop) /\ left[d] = 0 /\ hop[d] = h
                        /\ lists[h].queuing_datagrams = <<d>>
        <4>1. \A t, d : List(t, d).queuing_datagrams = <<d>>
          BY DEF List
        <4> QED
          BY <1>3, <4>1
      <3> DEFINE f == NI!Ipv4Frame(OurMac, mac, d)
                 a == NI!ArpFrame(OurMac, mac, "REPLY", OurIp, h)
      <3>2. /\ lists2 = NI!Erase(lists, {h}) \/ (h \notin DOMAIN lists /\ lists2 = lists)
            /\ IF h \in DOMAIN lists
               THEN n'.frames_out = <<f>> \/ n'.frames_out = <<f, a>>
               ELSE n'.frames_out = <<>> \/ n'.frames_out = <<a>>
        <4>1. /\ IsInterface(Drained) /\ Drained.frames_out = <<>>
              /\ Drained.Queuing_List_Map = lists
          BY <1>1, DrainEffect
        <4>2. OnlyFor(Drained.Queuing_List_Map, h, d)
          BY <3>1, <4>1 DEF OnlyFor
        <4>3. n' = NI!recv_frame(Drained, NI!ArpFrame(mac, dst, opcode, h, target))
          BY <1>1
        <4>4. Released(Drained, n', h, f, a)
          BY <2>2, <4>1, <4>2, <4>3, RecvPlaces
        <4> QED
          BY <4>1, <4>4 DEF Released
      <3>3. Carries(f, d) /\ IsArp(a)
        BY DEF Carries, IsArp, NI!Ipv4Frame, NI!ArpFrame
      <3> HIDE DEF f, a
      <3>4. \A e : Count(n'.frames_out, e) = IF h \in DOMAIN lists /\ e = d THEN 1 ELSE 0
        <4>1. ASSUME NEW e
              PROVE  /\ Count(<<>>, e) = 0 /\ Count(<<a>>, e) = 0
                     /\ Count(<<f>>, e) = IF e = d THEN 1 ELSE 0
                     /\ Count(<<f, a>>, e) = IF e = d THEN 1 ELSE 0
          BY <3>3, CountNone, CountArp, CountData, CountDataArp
        <4> QED
          BY <3>2, <4>1
      <3> QED
        BY <1>4, <3>1, <3>2, <3>4
    <2> QED
      BY <2>1, <2>2
  <1> HIDE DEF lists, lists2
  <1>5. \A e \in 1..Len(left) : left[e] + Count(n'.frames_out, e) \in {0, 1}
    BY <1>2, <1>4
  <1>6. /\ left' \in Seq({0, 1}) /\ Len(left') = Len(hop)
        /\ \A e \in 1..Len(hop) : left'[e] = left[e] + Count(n'.frames_out, e)
    BY <1>1, <1>2, <1>5, Observed
  <1>7. ASSUME NEW g \in DOMAIN lists2
        PROVE  \E e \in 1..Len(hop) : /\ lists2[g] = List(lists2[g].time_since_last_ARP_req, e)
                                      /\ left'[e] = 0 /\ hop[e] = g
    <2>1. g \in DOMAIN lists /\ lists2[g] = lists[g]
      BY <1>4 DEF NI!Erase
    <2>2. (\A e \in 1..Len(hop) : Count(n'.frames_out, e) = 0) \/ (h \in DOMAIN lists => g # h)
      BY <1>4 DEF NI!Erase
    <2>3. PICK e \in 1..Len(hop) : /\ lists[g] = List(lists[g].time_since_last_ARP_req, e)
                                   /\ left[e] = 0 /\ hop[e] = g
      BY <1>3, <2>1
    <2>4. Count(n'.frames_out, e) = 0
      BY <1>4, <2>1, <2>2, <2>3
    <2> QED
      BY <1>6, <2>1, <2>3, <2>4
  <1> QED
    BY <1>1, <1>2, <1>6, <1>7 DEF Placed, Held, lists2

\* Time changes the clocks of the lists and not what they hold.
LEMMA TickPlaced ==
    ASSUME Inv, Placed, Tick
    PROVE  Placed'
  <1> DEFINE lists == n.Queuing_List_Map
             lists2 == [h \in DOMAIN lists |-> NI!Later(lists[h], 1)]
  <1>1. n'.Queuing_List_Map = lists2
    <2> DEFINE old == {h \in DOMAIN n.cache : NI!Expired(n.cache[h], 1)}
               cache == [h \in DOMAIN n.cache \ old |-> NI!Older(n.cache[h], 1)]
    <2>1. n' = NI!tick(Drained, 1) /\ IsInterface(n)
      BY DEF Tick, Inv
    <2>2. Drained = Object(<<>>, n.cache, n.Queuing_List_Map)
      BY <2>1, DrainEffect DEF IsInterface
    <2>3. Drained.cache = n.cache /\ Drained.Queuing_List_Map = n.Queuing_List_Map
      BY <2>1, DrainEffect
    <2>4. n' = [Drained EXCEPT !.cache = cache, !.Queuing_List_Map = lists2]
      BY <2>1, <2>3 DEF NI!tick
    <2> HIDE DEF cache, lists2
    <2> QED
      BY <2>2, <2>4 DEF Object
  <1>2. hop' = hop /\ left' = left
    BY DEF Tick
  <1>3. ASSUME NEW h \in DOMAIN lists
        PROVE  \E d \in 1..Len(hop) : /\ lists2[h] = List(lists2[h].time_since_last_ARP_req, d)
                                      /\ left[d] = 0 /\ hop[d] = h
    <2>1. PICK d \in 1..Len(hop) : /\ lists[h] = List(lists[h].time_since_last_ARP_req, d)
                                   /\ left[d] = 0 /\ hop[d] = h
      BY DEF Placed, Held
    <2>2. ASSUME NEW t
          PROVE  \E u : NI!Later(List(t, d), 1) = List(u, d)
      <3>1. \A u : [List(t, d) EXCEPT !.time_since_last_ARP_req = u] = List(u, d)
        BY DEF List
      <3> QED
        BY <3>1 DEF NI!Later
    <2>3. \A u : List(u, d).time_since_last_ARP_req = u
      BY DEF List
    <2>4. lists2[h] = NI!Later(lists[h], 1)
      OBVIOUS
    <2> HIDE DEF lists, lists2
    <2>5. lists2[h] = List(lists2[h].time_since_last_ARP_req, d)
      BY <2>1, <2>2, <2>3, <2>4
    <2> QED
      BY <2>1, <2>5
  <1>4. DOMAIN lists2 = DOMAIN lists
    OBVIOUS
  <1> HIDE DEF lists, lists2
  <1> QED
    BY <1>1, <1>2, <1>3, <1>4 DEF Placed, Held

\* Every step keeps every datagram in its place.
LEMMA NextPlaced == Inv /\ Placed /\ [Next]_vars => Placed'
  <1> SUFFICES ASSUME Inv, Placed, [Next]_vars
               PROVE  Placed'
    OBVIOUS
  <1>1. CASE \E h \in Host : SendDatagram(h)
    BY <1>1, SendPlaced
  <1>2. ASSUME NEW h \in Host, NEW mac \in Mac, Answer(h, mac)
        PROVE  Placed'
    BY <1>2, ArpPlaced DEF Answer
  <1>3. ASSUME NEW h \in Host, NEW mac \in Mac, Ask(h, mac)
        PROVE  Placed'
    BY <1>3, ArpPlaced DEF Ask
  <1>4. ASSUME NEW h \in Host, NEW mac \in Mac, Overhear(h, mac)
        PROVE  Placed'
    BY <1>4, ArpPlaced DEF Overhear
  <1>5. CASE Tick
    BY <1>5, TickPlaced
  <1>6. CASE UNCHANGED vars
    BY <1>6 DEF vars, Placed, Held
  <1> QED
    BY <1>1, <1>2, <1>3, <1>4, <1>5, <1>6 DEF Next

\* send_datagram and recv_frame never send a datagram twice, and what they hold has
\* not left: erasing a list after sending what is in it is what makes it so.
THEOREM DatagramLeavesOnce == Spec => []LeavesOnce
  <1>1. Placed => LeavesOnce
    <2> SUFFICES ASSUME Placed PROVE LeavesOnce
      OBVIOUS
    <2>1. \A d \in DOMAIN left : left[d] <= 1
      BY DEF Placed
    <2>2. ASSUME NEW h \in DOMAIN Held
          PROVE  \A i \in DOMAIN HeldFor(h) :
                     left[HeldFor(h)[i]] = 0 /\ hop[HeldFor(h)[i]] = h
      <3>1. PICK d \in 1..Len(hop) : /\ Held[h] = List(Held[h].time_since_last_ARP_req, d)
                                     /\ left[d] = 0 /\ hop[d] = h
        BY DEF Placed
      <3>2. \A t : List(t, d).queuing_datagrams = <<d>>
        BY DEF List
      <3>3. HeldFor(h) = <<d>>
        BY <3>1, <3>2 DEF HeldFor
      <3> QED
        BY <3>1, <3>3
    <2> QED
      BY <2>1, <2>2 DEF LeavesOnce
  <1> QED
    BY InvHolds, InitPlaced, NextPlaced, <1>1, PTL DEF Spec
=============================================================================
