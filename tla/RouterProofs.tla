---------------------------- MODULE RouterProofs ----------------------------
(***************************************************************************)
(* Theorems about RouterNetwork, for any hosts, routers, links, routes and *)
(* traffic: what route_one_datagram finds in the routing table, what is    *)
(* true of every datagram wherever it is, and that it is in one place.     *)
(***************************************************************************)
EXTENDS RouterNetwork, SequenceTheorems, TLAPS

NP == INSTANCE NumberProofs WITH Mod32 <- AddrBits, Mod64 <- AddrBits

-----------------------------------------------------------------------------
\* Loops.  The recursive functions of the model are the successive states of a loop.

\* A loop whose body is a function from K to K, one for each iteration, has a run.
Run(g, st, n, F) == g = [k \in 0..n |-> IF k = 0 THEN st ELSE F[k][g[k - 1]]]

\* By induction on the number of iterations.
LEMMA RunExists ==
    ASSUME NEW n \in Nat, NEW K, NEW st \in K, NEW F \in [1..n -> [K -> K]]
    PROVE  \E g \in [0..n -> K] : Run(g, st, n, F)
  <1> DEFINE T == {m \in Nat : m <= n => \E g \in [0..m -> K] : Run(g, st, m, F)}
  <1>1. 0 \in T
    <2> DEFINE g == [k \in 0..0 |-> st]
    <2>1. Run(g, st, 0, F) /\ g \in [0..0 -> K]
      BY DEF Run
    <2> QED
      BY <2>1
  <1>2. ASSUME NEW m \in Nat, m \in T
        PROVE  m + 1 \in T
    <2> SUFFICES ASSUME m + 1 <= n
                 PROVE  \E g \in [0..m + 1 -> K] : Run(g, st, m + 1, F)
      OBVIOUS
    <2>1. PICK g \in [0..m -> K] : Run(g, st, m, F)
      BY <1>2
    <2> DEFINE h == [k \in 0..m + 1 |-> IF k = m + 1 THEN F[m + 1][g[m]] ELSE g[k]]
    <2>2. ASSUME NEW k \in 0..m + 1
          PROVE  h[k] = (IF k = 0 THEN st ELSE F[k][h[k - 1]]) /\ h[k] \in K
      <3>1. CASE k = 0
        <4>1. h[0] = g[0] /\ g[0] = st
          BY <2>1 DEF Run
        <4> QED
          BY <3>1, <4>1
      <3>2. CASE k # 0 /\ k # m + 1
        <4>1. k \in 0..m /\ k - 1 \in 0..m
          BY <3>2
        <4>2. h[k] = g[k] /\ h[k - 1] = g[k - 1] /\ g[k] \in K
          BY <2>1, <4>1
        <4>3. g[k] = F[k][g[k - 1]]
          BY <2>1, <3>2, <4>1 DEF Run
        <4> QED
          BY <3>2, <4>2, <4>3, Zenon
      <3>3. CASE k = m + 1
        <4>1. k # 0 /\ k - 1 = m /\ m \in 0..m /\ m \in 0..m + 1 /\ m # m + 1 /\ k \in 1..n
          BY <3>3
        <4>2. h[k] = F[k][g[m]] /\ h[m] = g[m] /\ g[m] \in K /\ F[k] \in [K -> K]
          BY <2>1, <3>3, <4>1
        <4>3. F[k][g[m]] \in K
          BY <4>2
        <4> QED
          BY <4>1, <4>2, <4>3, Zenon
      <3> QED
        BY <3>1, <3>2, <3>3
    <2>3. Run(h, st, m + 1, F) /\ h \in [0..m + 1 -> K]
      <3>1. h \in [0..m + 1 -> K]
        BY <2>2
      <3>2. Run(h, st, m + 1, F)
        BY <2>2 DEF Run
      <3> QED
        BY <3>1, <3>2
    <2> QED
      BY <2>3
  <1>3. Nat \subseteq T
    BY <1>1, <1>2, NP!Induction
  <1> QED
    BY <1>3

\* What each iteration keeps holds at the end.
LEMMA StaysIn ==
    ASSUME NEW n \in Nat, NEW K, NEW g, g[0] \in K,
           \A k \in 1..n : g[k - 1] \in K => g[k] \in K
    PROVE  \A k \in 0..n : g[k] \in K
  <1> DEFINE T == {k \in Nat : k <= n => g[k] \in K}
  <1>1. 0 \in T
    OBVIOUS
  <1>2. ASSUME NEW k \in Nat, k \in T
        PROVE  k + 1 \in T
    <2> SUFFICES ASSUME k + 1 <= n
                 PROVE  g[k + 1] \in K
      OBVIOUS
    <2>1. k + 1 \in 1..n /\ (k + 1) - 1 = k /\ g[k] \in K
      BY <1>2
    <2> QED
      BY <2>1
  <1>3. Nat \subseteq T
    <2> HIDE DEF T
    <2> QED
      BY <1>1, <1>2, NP!Induction
  <1> QED
    BY <1>3

-----------------------------------------------------------------------------
\* Prefixes.

\* Block[n] is a positive number.
LEMMA BlockPositive == \A n \in 0..AddrBits : R!Block[n] \in Nat \ {0}
  <1> DEFINE K == Nat \ {0}
             F == [k \in 1..AddrBits |-> [x \in K |-> 2 * x]]
             Is(g) == g = [n \in 0..AddrBits |-> IF n = 0 THEN 1 ELSE 2 * g[n - 1]]
  <1>1. AddrBits \in Nat
    BY NetworkAssumption
  <1>2. PICK g \in [0..AddrBits -> K] : Run(g, 1, AddrBits, F)
    <2>1. 1 \in K /\ F \in [1..AddrBits -> [K -> K]]
      OBVIOUS
    <2> HIDE DEF K, F
    <2> QED
      BY <1>1, <2>1, RunExists
  <1>3. Is(g)
    <2>1. ASSUME NEW n \in 0..AddrBits
          PROVE  g[n] = IF n = 0 THEN 1 ELSE 2 * g[n - 1]
      <3>1. CASE n # 0
        <4>1. n \in 1..AddrBits /\ n - 1 \in 0..AddrBits
          BY <1>1, <3>1
        <4>2. g[n] = F[n][g[n - 1]] /\ g[n - 1] \in K
          BY <1>2, <3>1, <4>1 DEF Run
        <4> QED
          BY <3>1, <4>1, <4>2
      <3>2. CASE n = 0
        BY <1>2, <3>2 DEF Run
      <3> QED
        BY <3>1, <3>2
    <2> QED
      BY <1>2, <2>1
  <1>4. R!Block = CHOOSE f : Is(f)
    BY DEF R!Block
  <1>5. Is(R!Block)
    <2> HIDE DEF Is
    <2> QED
      BY <1>3, <1>4
  <1>6. R!Block[0] \in K
    BY <1>1, <1>5
  <1>7. ASSUME NEW n \in 1..AddrBits, R!Block[n - 1] \in K
        PROVE  R!Block[n] \in K
    <2>1. n \in 0..AddrBits /\ n # 0
      BY <1>1
    <2>2. R!Block[n] = 2 * R!Block[n - 1]
      BY <1>5, <2>1
    <2> QED
      BY <1>7, <2>2
  <1> QED
    BY <1>1, <1>6, <1>7, StaysIn

\* Two numbers, one a multiple of the block, have the same quotient exactly if the
\* multiple is where the other's block begins.
LEMMA SameBlock ==
    ASSUME NEW b \in Nat \ {0}, NEW x \in Nat, NEW p \in Nat
    PROVE  (x \div b) * b = p <=> (x \div b = p \div b /\ p % b = 0)
  <1> DEFINE q == x \div b
             q2 == p \div b
             rest == p % b
  <1>1. q \in Int /\ q2 \in Int /\ rest \in 0..b - 1 /\ p = b * q2 + rest
    BY NP!DivMod
  <1>2. ASSUME q * b = p
        PROVE  q = q2 /\ rest = 0
    <2>1. p - 0 = b * q /\ 0 \in 0..b - 1
      BY <1>1, <1>2
    <2>2. rest = 0
      BY <1>1, <2>1, NP!ModUnique
    <2> HIDE DEF q, q2, rest
    <2>3. b * (q - q2) = 0
      BY <1>1, <1>2, <2>2
    <2>4. q - q2 = 0
      BY <1>1, <2>3, NP!SmallMultiple
    <2> QED
      BY <1>1, <2>2, <2>4
  <1>3. ASSUME q = q2, rest = 0
        PROVE  q * b = p
    <2> HIDE DEF q, q2, rest
    <2> QED
      BY <1>1, <1>3
  <1> QED
    BY <1>2, <1>3

\* Matches is IsFor, if the prefix of the entry has no bit set beyond its length.
LEMMA MatchesIsFor ==
    ASSUME NEW e, e.prefix_length \in 0..AddrBits, e.route_prefix \in Nat, NEW dst \in Nat,
           Proper(e)
    PROVE  R!Matches(e, dst) <=> IsFor(e, dst)
  <1> DEFINE block == R!Block[AddrBits - e.prefix_length]
  <1>1. AddrBits - e.prefix_length \in 0..AddrBits
    BY NetworkAssumption
  <1>2. block \in Nat \ {0}
    BY <1>1, BlockPositive
  <1>3. /\ R!Matches(e, dst) <=> (dst \div block) * block = e.route_prefix
        /\ IsFor(e, dst) <=> dst \div block = e.route_prefix \div block
        /\ e.route_prefix % block = 0
    BY DEF R!Matches, IsFor, Proper
  <1> HIDE DEF block
  <1> QED
    BY <1>2, <1>3, SameBlock

\* What the loop over the routing table has found after n entries.
Found(m, n, table, dst) ==
    /\ m \in 0..n
    /\ m = 0 => \A i \in 1..n : ~R!Matches(table[i], dst)
    /\ m # 0 => /\ R!Matches(table[m], dst)
                /\ \A i \in 1..n : R!Matches(table[i], dst)
                                     => table[i].prefix_length <= table[m].prefix_length

\* One iteration of the loop.
Better(m, i, table, dst) ==
    IF /\ R!Matches(table[i], dst)
       /\ m = 0 \/ R!Longer(table[i], table[m])
    THEN i ELSE m

\* An iteration looks at one more entry.
LEMMA BetterFound ==
    ASSUME NEW table, NEW dst, NEW n \in Nat, NEW m, Found(m, n, table, dst),
           \A i \in 1..n + 1 : table[i].prefix_length \in Nat
    PROVE  Found(Better(m, n + 1, table, dst), n + 1, table, dst)
  <1> DEFINE b == Better(m, n + 1, table, dst)
  <1>1. m \in 0..n /\ n + 1 # 0 /\ 0..n \subseteq 0..n + 1 /\ n + 1 \in 0..n + 1
        /\ \A i \in 1..n + 1 : i \in 1..n \/ i = n + 1
    BY DEF Found
  <1>2. CASE R!Matches(table[n + 1], dst) /\ m = 0
    <2>1. b = n + 1
      BY <1>2 DEF Better
    <2>2. \A i \in 1..n + 1 : R!Matches(table[i], dst) => i = n + 1
      BY <1>1, <1>2 DEF Found
    <2>3. table[n + 1].prefix_length <= table[n + 1].prefix_length
      OBVIOUS
    <2> QED
      BY <1>1, <1>2, <2>1, <2>2, <2>3 DEF Found
  <1>3. CASE R!Matches(table[n + 1], dst) /\ m # 0 /\ R!Longer(table[n + 1], table[m])
    <2>1. b = n + 1
      BY <1>3 DEF Better
    <2>2. table[m].prefix_length < table[n + 1].prefix_length /\ m \in 1..n + 1
      BY <1>1, <1>3 DEF R!Longer
    <2>3. \A i \in 1..n + 1 : R!Matches(table[i], dst)
                 => table[i].prefix_length <= table[n + 1].prefix_length
      BY <1>1, <1>3, <2>2 DEF Found
    <2> QED
      BY <1>1, <1>3, <2>1, <2>3 DEF Found
  <1>4. CASE R!Matches(table[n + 1], dst) /\ m # 0 /\ ~R!Longer(table[n + 1], table[m])
    <2>1. b = m
      BY <1>4 DEF Better
    <2>2. table[n + 1].prefix_length <= table[m].prefix_length /\ m \in 1..n + 1
      BY <1>1, <1>4 DEF R!Longer
    <2> QED
      BY <1>1, <1>4, <2>1, <2>2 DEF Found
  <1>5. CASE ~R!Matches(table[n + 1], dst)
    <2>1. b = m
      BY <1>5 DEF Better
    <2> QED
      BY <1>1, <1>5, <2>1 DEF Found
  <1> QED
    BY <1>2, <1>3, <1>4, <1>5

\* match_num, the whole loop.
LEMMA MatchFound ==
    ASSUME NEW table, Len(table) \in Nat, NEW dst,
           \A i \in 1..Len(table) : table[i].prefix_length \in Nat
    PROVE  Found(R!match_num(table, dst), Len(table), table, dst)
  <1> DEFINE n == Len(table)
             K == 0..n
             F == [k \in 1..n |-> [x \in K |-> Better(x, k, table, dst)]]
             Is(g) == g = [i \in 0..n |->
                              IF i = 0 THEN 0
                              ELSE IF /\ R!Matches(table[i], dst)
                                      /\ g[i - 1] = 0 \/ R!Longer(table[i], table[g[i - 1]])
                              THEN i ELSE g[i - 1]]
             best == CHOOSE g : Is(g)
  <1>1. n \in Nat
    OBVIOUS
  <1>2. PICK g \in [0..n -> K] : Run(g, 0, n, F)
    <2>1. 0 \in K /\ F \in [1..n -> [K -> K]]
      <3>1. ASSUME NEW k \in 1..n, NEW x \in K
            PROVE  Better(x, k, table, dst) \in K
        BY <1>1 DEF Better
      <3> QED
        BY <1>1, <3>1
    <2> HIDE DEF n, K, F
    <2> QED
      BY <1>1, <2>1, RunExists
  <1>3. Is(g)
    <2>1. ASSUME NEW i \in 0..n
          PROVE  g[i] = IF i = 0 THEN 0 ELSE Better(g[i - 1], i, table, dst)
      <3> HIDE DEF n
      <3>1. CASE i # 0
        <4>1. i \in 1..n /\ i - 1 \in 0..n
          BY <1>1, <3>1
        <4>2. g[i] = F[i][g[i - 1]] /\ g[i - 1] \in K
          BY <1>2, <3>1, <4>1 DEF Run
        <4> QED
          BY <3>1, <4>1, <4>2
      <3>2. CASE i = 0
        BY <1>1, <1>2, <3>2 DEF Run
      <3> QED
        BY <3>1, <3>2
    <2> QED
      BY <1>2, <2>1 DEF Better
  <1>4. R!match_num(table, dst) = best[n]
    BY DEF R!match_num
  <1>5. Is(best)
    <2> HIDE DEF Is
    <2> QED
      BY <1>3
  <1> HIDE DEF best
  <1>6. best[0] = 0 /\ \A i \in 1..n : best[i] = Better(best[i - 1], i, table, dst)
    <2> HIDE DEF n
    <2>1. \A i \in 0..n : best[i] = IF i = 0 THEN 0 ELSE Better(best[i - 1], i, table, dst)
      BY <1>5 DEF Better
    <2>2. 0 \in 0..n /\ \A i \in 1..n : i \in 0..n /\ i # 0
      BY <1>1
    <2> QED
      BY <2>1, <2>2
  <1> DEFINE T == {i \in Nat : i <= n => Found(best[i], i, table, dst)}
  <1>7. 0 \in T
    BY <1>6 DEF Found
  <1>8. ASSUME NEW i \in Nat, i \in T
        PROVE  i + 1 \in T
    <2> SUFFICES ASSUME i + 1 <= n
                 PROVE  Found(best[i + 1], i + 1, table, dst)
      OBVIOUS
    <2>1. i + 1 \in 1..n /\ (i + 1) - 1 = i /\ Found(best[i], i, table, dst)
      BY <1>1, <1>8
    <2>2. best[i + 1] = Better(best[i], i + 1, table, dst)
      BY <1>6, <2>1
    <2> QED
      BY <2>1, <2>2, BetterFound
  <1>9. Nat \subseteq T
    <2> HIDE DEF T
    <2> QED
      BY <1>7, <1>8, NP!Induction
  <1>10. Found(best[n], n, table, dst)
    BY <1>1, <1>9
  <1> QED
    BY <1>4, <1>10

-----------------------------------------------------------------------------
\* Where datagrams may be.

\* The IP address of an interface.
IpOf == [m \in Mac |-> IF m.node \in Host THEN HostIp[m.node] ELSE RouterIps[m.node][m.num]]

\* The datagrams that were sent (s is the history of them) and may be under way, ...
Alive(s) ==
    {d \in [id : 1..Len(s), dst : Addr, ttl : Nat] :
        d.ttl <= s[d.id].ttl /\ (d.ttl = 0 => s[d.id].ttl = 0)}

\* ... the ones that may go to the address ip, ...
For(ip, s) == {d \in Alive(s) : ip \in {d.dst} \union NextHops}

\* ... and the ones that may go there from the interface m: a router's are older than
\* they were when they were sent, and not spent.
From(m, ip, s) ==
    {d \in For(ip, s) : m.node \in Routers => d.ttl \in 1..s[d.id].ttl - 1}

\* A frame with a datagram goes to an interface whose address the datagram may go to;
\* an ARP message tells the truth.
DataFrames(s) ==
    {f \in [type : {"IPv4"}, src : Mac, dst : Mac, dgram : Alive(s)] :
        f.dgram \in From(f.src, IpOf[f.dst], s)}
ArpFrames ==
    {f \in [type : {"ARP"}, src : Mac, dst : Mac \union {Broadcast}, opcode : {"REQUEST", "REPLY"},
            sender_ip : Addr, sender_mac : Mac, target_ip : Addr] :
        f.sender_ip = IpOf[f.sender_mac]}
FrameSet(s) == DataFrames(s) \union ArpFrames

\* A cache maps addresses to the interfaces that have them; the list of an address
\* holds datagrams that may go there from this interface.
Maps(T) == UNION {[D -> T] : D \in SUBSET Addr}
Entry == [time_caching : Nat, MAC_address : Mac]
List(s) == [time_since_last_ARP_req : Nat, queuing_datagrams : Seq(Alive(s))]
CacheSet ==
    {c \in Maps(Entry) :
        \A ip \in DOMAIN c : IpOf[c[ip].MAC_address] = ip}
ListSet(m, s) ==
    {q \in Maps(List(s)) :
        \A ip \in DOMAIN q : q[ip].queuing_datagrams \in Seq(From(m, ip, s))}

\* The interface m.
NiSet(m, s) ==
    [ethernet_address : {m}, ip_address : {IpOf[m]}, frames_out : Seq(FrameSet(s)),
     cache : CacheSet, Queuing_List_Map : ListSet(m, s)]
InterfaceSet(m, s) == [ni : NiSet(m, s), datagrams_out : Seq(For(IpOf[m], s))]

\* Addresses of interfaces are addresses.
LEMMA IpOfType == IpOf \in [Mac -> Addr]
  <1> SUFFICES ASSUME NEW m \in Mac
               PROVE  IpOf[m] \in Addr
    BY DEF IpOf
  <1>1. CASE \E h \in Host : m = Port(h, 1)
    BY <1>1, NetworkAssumption DEF IpOf, Port
  <1>2. ASSUME NEW r \in Routers, NEW i \in DOMAIN RouterIps[r], m = Port(r, i)
        PROVE  IpOf[m] \in Addr
    <2>1. m.node = r /\ m.num = i /\ r \notin Host
      BY <1>2, NetworkAssumption DEF Port
    <2>2. RouterIps[r] \in Seq(Addr)
      BY NetworkAssumption
    <2>3. RouterIps[r][i] \in Addr
      BY <1>2, <2>2, ElementOfSeq, LenProperties
    <2> QED
      BY <2>1, <2>3 DEF IpOf
  <1> QED
    BY <1>1, <1>2 DEF Mac

\* new is a map like the map old, with a value put at a key, ...
IsPut(new, old, key, value, T) ==
    /\ new \in Maps(T) /\ DOMAIN new = DOMAIN old \union {key}
    /\ new[key] = value /\ \A k \in DOMAIN old \ {key} : new[k] = old[k]
\* ... or without a key.
IsErased(new, old, key, T) ==
    /\ new \in Maps(T) /\ DOMAIN new = DOMAIN old \ {key}
    /\ \A k \in DOMAIN new : new[k] = old[k]

\* Putting a value into a map.
LEMMA PutType ==
    ASSUME NEW T, NEW map \in Maps(T), NEW key \in Addr, NEW value \in T
    PROVE  IsPut(R!NI!Put(map, key, value), map, key, value, T)
  <1> DEFINE new == R!NI!Put(map, key, value)
             D == DOMAIN map \union {key}
  <1>1. D \in SUBSET Addr /\ \A k \in DOMAIN map : map[k] \in T
    BY DEF Maps
  <1>2. new = [k \in D |-> IF k = key THEN value ELSE map[k]]
    BY DEF R!NI!Put
  <1>3. new \in [D -> T]
    BY <1>1, <1>2
  <1>4. new \in Maps(T)
    BY <1>1, <1>3 DEF Maps
  <1> QED
    BY <1>2, <1>4 DEF IsPut

\* Erasing a key of a map.
LEMMA EraseType ==
    ASSUME NEW T, NEW map \in Maps(T), NEW key
    PROVE  IsErased(R!NI!Erase(map, {key}), map, key, T)
  <1> DEFINE new == R!NI!Erase(map, {key})
             D == DOMAIN map \ {key}
  <1>1. D \in SUBSET Addr /\ \A k \in DOMAIN map : map[k] \in T
    BY DEF Maps
  <1>2. new = [k \in D |-> map[k]]
    BY DEF R!NI!Erase
  <1>3. new \in [D -> T]
    BY <1>1, <1>2
  <1>4. new \in Maps(T)
    BY <1>1, <1>3 DEF Maps
  <1> QED
    BY <1>2, <1>4 DEF IsErased

\* Sending appends to the frames; the members of an interface one by one.
LEMMA NiMembers ==
    ASSUME NEW s, NEW m \in Mac, NEW n \in NiSet(m, s)
    PROVE  /\ n.ethernet_address = m /\ n.ip_address = IpOf[m]
           /\ n.frames_out \in Seq(FrameSet(s)) /\ n.cache \in CacheSet
           /\ n.Queuing_List_Map \in ListSet(m, s)
           /\ \A v \in Seq(FrameSet(s)) : [n EXCEPT !.frames_out = v] \in NiSet(m, s)
           /\ \A v \in CacheSet : [n EXCEPT !.cache = v] \in NiSet(m, s)
           /\ \A v \in ListSet(m, s) : [n EXCEPT !.Queuing_List_Map = v] \in NiSet(m, s)
  <1>1. /\ n.ethernet_address = m /\ n.ip_address = IpOf[m]
        /\ n.frames_out \in Seq(FrameSet(s)) /\ n.cache \in CacheSet
        /\ n.Queuing_List_Map \in ListSet(m, s)
    BY DEF NiSet
  <1>2. ASSUME NEW v \in Seq(FrameSet(s)) PROVE [n EXCEPT !.frames_out = v] \in NiSet(m, s)
    BY DEF NiSet
  <1>3. ASSUME NEW v \in CacheSet PROVE [n EXCEPT !.cache = v] \in NiSet(m, s)
    BY DEF NiSet
  <1>4. ASSUME NEW v \in ListSet(m, s) PROVE [n EXCEPT !.Queuing_List_Map = v] \in NiSet(m, s)
    BY DEF NiSet
  <1> QED
    BY <1>1, <1>2, <1>3, <1>4

\* The frames an interface makes.
LEMMA DataFrameType ==
    ASSUME NEW s, NEW m \in Mac, NEW mac \in Mac, NEW d \in From(m, IpOf[mac], s)
    PROVE  R!NI!Ipv4Frame(m, mac, d) \in FrameSet(s)
  BY DEF R!NI!Ipv4Frame, FrameSet, DataFrames, From, For

\* Its ARP messages.
LEMMA ArpFrameType ==
    ASSUME NEW s, NEW m \in Mac, NEW mac \in Mac \union {Broadcast},
           NEW opcode \in {"REQUEST", "REPLY"}, NEW ip \in Addr
    PROVE  R!NI!ArpFrame(m, mac, opcode, IpOf[m], ip) \in FrameSet(s)
  BY IpOfType DEF R!NI!ArpFrame, FrameSet, ArpFrames

\* send_ARP
LEMMA SendArpKeeps ==
    ASSUME NEW s, NEW m \in Mac, NEW n \in NiSet(m, s), NEW mac \in Mac \union {Broadcast},
           NEW opcode \in {"REQUEST", "REPLY"}, NEW ip \in Addr
    PROVE  R!NI!send_ARP(n, opcode, mac, ip) \in NiSet(m, s)
  <1> DEFINE frame == R!NI!ArpFrame(m, mac, opcode, IpOf[m], ip)
             frames == Append(n.frames_out, frame)
  <1>1. frame \in FrameSet(s)
    BY ArpFrameType
  <1>2. frames \in Seq(FrameSet(s))
    <2> HIDE DEF frame
    <2> QED
      BY <1>1, NiMembers
  <1>3. R!NI!send_ARP(n, opcode, mac, ip) = [n EXCEPT !.frames_out = frames]
    BY NiMembers DEF R!NI!send_ARP
  <1> HIDE DEF frames
  <1> QED
    BY <1>2, <1>3, NiMembers

\* send_datagram
LEMMA SendKeeps ==
    ASSUME NEW s, NEW m \in Mac, NEW n \in NiSet(m, s), NEW ip \in Addr,
           NEW d \in From(m, ip, s)
    PROVE  R!NI!send_datagram(n, d, ip) \in NiSet(m, s)
  <1>1. CASE ip \in DOMAIN n.cache
    <2> DEFINE mac == n.cache[ip].MAC_address
               frame == R!NI!Ipv4Frame(m, mac, d)
               frames == Append(n.frames_out, frame)
    <2>1. n.cache \in CacheSet
      BY NiMembers
    <2>2. mac \in Mac /\ IpOf[mac] = ip
      BY <1>1, <2>1 DEF CacheSet, Maps, Entry
    <2>3. R!NI!send_datagram(n, d, ip) = [n EXCEPT !.frames_out = frames]
      BY <1>1, NiMembers DEF R!NI!send_datagram, R!NI!send_datagram_handler
    <2> HIDE DEF mac
    <2>4. frame \in FrameSet(s)
      BY <2>2, DataFrameType
    <2> HIDE DEF frame
    <2>5. frames \in Seq(FrameSet(s))
      BY <2>4, NiMembers
    <2> HIDE DEF frames
    <2> QED
      BY <2>3, <2>5, NiMembers
  <1>2. CASE ip \notin DOMAIN n.cache /\ ip \in DOMAIN n.Queuing_List_Map
    <2>1. R!NI!RequestFor(n, ip) \in NiSet(m, s)
      BY SendArpKeeps DEF R!NI!RequestFor
    <2> QED
      BY <1>2, <2>1 DEF R!NI!send_datagram
  <1>3. CASE ip \notin DOMAIN n.cache /\ ip \notin DOMAIN n.Queuing_List_Map
    <2> DEFINE list == [time_since_last_ARP_req |-> 0, queuing_datagrams |-> <<d>>]
               lists == R!NI!Put(n.Queuing_List_Map, ip, list)
               asking == [n EXCEPT !.Queuing_List_Map = lists]
    <2>1. R!NI!send_datagram(n, d, ip) = R!NI!RequestFor(asking, ip)
      BY <1>3 DEF R!NI!send_datagram
    <2>2. list \in List(s) /\ list.queuing_datagrams \in Seq(From(m, ip, s))
      BY DEF From, For, List
    <2> HIDE DEF list
    <2>3. n.Queuing_List_Map \in ListSet(m, s)
      BY NiMembers
    <2>4. lists \in ListSet(m, s)
      <3>1. IsPut(lists, n.Queuing_List_Map, ip, list, List(s))
        <4>1. n.Queuing_List_Map \in Maps(List(s))
          BY <2>3 DEF ListSet
        <4> QED
          BY <2>2, <4>1, PutType
      <3> HIDE DEF lists
      <3>2. ASSUME NEW k \in DOMAIN lists
            PROVE  lists[k].queuing_datagrams \in Seq(From(m, k, s))
        <4>1. CASE k = ip
          BY <2>2, <3>1, <4>1 DEF IsPut
        <4>2. CASE k # ip
          BY <2>3, <3>1, <4>2 DEF ListSet, IsPut
        <4> QED
          BY <4>1, <4>2
      <3> QED
        BY <3>1, <3>2 DEF ListSet, IsPut
    <2> HIDE DEF lists
    <2>5. asking \in NiSet(m, s)
      BY <2>4, NiMembers
    <2> HIDE DEF asking
    <2> QED
      BY <2>1, <2>5, SendArpKeeps DEF R!NI!RequestFor
  <1> QED
    BY <1>1, <1>2, <1>3

\* What an interface learns is true, and what it lets go goes to the address it was
\* held for.
LEMMA LearnFlushKeep ==
    ASSUME NEW s, NEW m \in Mac, NEW n \in NiSet(m, s), NEW ip \in Addr, NEW mac \in Mac,
           IpOf[mac] = ip
    PROVE  /\ R!NI!Learn(n, ip, mac) \in NiSet(m, s)
           /\ R!NI!Flush(R!NI!Learn(n, ip, mac), ip, mac) \in NiSet(m, s)
  <1> DEFINE entry == [time_caching |-> 0, MAC_address |-> mac]
             cache == R!NI!Put(n.cache, ip, entry)
             learnt == R!NI!Learn(n, ip, mac)
             flushed == R!NI!Flush(learnt, ip, mac)
  <1>1. ip \in Addr /\ mac \in Mac /\ IpOf[mac] = ip
    OBVIOUS
  <1>2. learnt \in NiSet(m, s)
    <2>1. cache \in CacheSet
      <3>1. entry \in Entry /\ entry.MAC_address = mac
        BY <1>1 DEF Entry
      <3> HIDE DEF entry
      <3>2. n.cache \in CacheSet
        BY NiMembers
      <3>3. IsPut(cache, n.cache, ip, entry, Entry)
        <4>1. n.cache \in Maps(Entry)
          BY <3>2 DEF CacheSet
        <4> QED
          BY <1>1, <3>1, <4>1, PutType
      <3> HIDE DEF cache
      <3>4. ASSUME NEW k \in DOMAIN cache
            PROVE  IpOf[cache[k].MAC_address] = k
        <4>1. CASE k = ip
          BY <1>1, <3>1, <3>3, <4>1 DEF IsPut
        <4>2. CASE k # ip
          BY <3>2, <3>3, <4>2 DEF CacheSet, IsPut
        <4> QED
          BY <4>1, <4>2
      <3> QED
        BY <3>3, <3>4 DEF CacheSet, IsPut
    <2>2. learnt = [n EXCEPT !.cache = cache]
      BY DEF R!NI!Learn
    <2> HIDE DEF cache, learnt
    <2> QED
      BY <2>1, <2>2, NiMembers
  <1> HIDE DEF learnt
  <1>3. flushed \in NiSet(m, s)
    <2>1. CASE ip \notin DOMAIN learnt.Queuing_List_Map
      BY <1>2, <2>1 DEF R!NI!Flush
    <2>2. CASE ip \in DOMAIN learnt.Queuing_List_Map
      <3> DEFINE held == learnt.Queuing_List_Map[ip].queuing_datagrams
                 out == [i \in DOMAIN held |-> R!NI!Ipv4Frame(m, mac, held[i])]
                 frames == learnt.frames_out \o out
                 lists == R!NI!Erase(learnt.Queuing_List_Map, {ip})
      <3>1. learnt.Queuing_List_Map \in ListSet(m, s) /\ learnt.frames_out \in Seq(FrameSet(s))
        BY <1>2, NiMembers
      <3>2. held \in Seq(From(m, IpOf[mac], s))
        BY <1>1, <2>2, <3>1 DEF ListSet
      <3>3. flushed = [learnt EXCEPT !.frames_out = frames, !.Queuing_List_Map = lists]
        <4>1. learnt.ethernet_address = m
          BY <1>2, NiMembers
        <4> QED
          BY <2>2, <4>1 DEF R!NI!Flush
      <3>4. lists \in ListSet(m, s)
        <4> DEFINE old == learnt.Queuing_List_Map
        <4>1. IsErased(lists, old, ip, List(s))
          <5>1. old \in Maps(List(s))
            BY <3>1 DEF ListSet
          <5> QED
            BY <5>1, EraseType
        <4>2. \A k \in DOMAIN old : old[k].queuing_datagrams \in Seq(From(m, k, s))
          BY <3>1 DEF ListSet
        <4> HIDE DEF lists, old
        <4> QED
          BY <4>1, <4>2 DEF ListSet, IsErased
      <3> HIDE DEF held
      <3>5. out \in Seq(FrameSet(s))
        <4>1. ASSUME NEW i \in DOMAIN held
              PROVE  R!NI!Ipv4Frame(m, mac, held[i]) \in FrameSet(s)
          <5>1. held[i] \in From(m, IpOf[mac], s)
            BY <3>2, <4>1, ElementOfSeq, LenProperties
          <5> QED
            BY <1>1, <5>1, DataFrameType
        <4>2. DOMAIN held = 1..Len(held) /\ Len(held) \in Nat
          BY <3>2, LenProperties
        <4>3. out \in [1..Len(held) -> FrameSet(s)]
          BY <4>1, <4>2
        <4> HIDE DEF out
        <4> QED
          BY <4>2, <4>3
      <3> HIDE DEF out
      <3>6. frames \in Seq(FrameSet(s))
        BY <3>1, <3>5
      <3> HIDE DEF frames, lists
      <3>7. [learnt EXCEPT !.frames_out = frames, !.Queuing_List_Map = lists] \in NiSet(m, s)
        BY <1>2, <3>4, <3>6 DEF NiSet
      <3> QED
        BY <3>3, <3>7
    <2> QED
      BY <2>1, <2>2
  <1> QED
    BY <1>2, <1>3 DEF learnt

\* recv_frame of NetworkInterface
LEMMA RecvKeeps ==
    ASSUME NEW s, NEW m \in Mac, NEW n \in NiSet(m, s), NEW frame \in FrameSet(s)
    PROVE  R!NI!recv_frame(n, frame) \in NiSet(m, s)
  <1>1. CASE ~R!NI!ForUs(n, frame) \/ frame.type # "ARP"
    BY <1>1 DEF R!NI!recv_frame
  <1>2. CASE R!NI!ForUs(n, frame) /\ frame.type = "ARP"
    <2> DEFINE ip == frame.sender_ip
               mac == frame.sender_mac
               flushed == R!NI!Flush(R!NI!Learn(n, ip, mac), ip, mac)
    <2>1. /\ ip \in Addr /\ mac \in Mac /\ IpOf[mac] = ip
          /\ frame.opcode \in {"REQUEST", "REPLY"}
      BY <1>2 DEF FrameSet, DataFrames, ArpFrames
    <2>2. R!NI!recv_frame(n, frame) = R!NI!Reply(flushed, frame)
      BY <1>2 DEF R!NI!recv_frame
    <2> HIDE DEF ip, mac
    <2>3. flushed \in NiSet(m, s)
      BY <2>1, LearnFlushKeep
    <2> HIDE DEF flushed
    <2>4. R!NI!Reply(flushed, frame) \in NiSet(m, s)
      BY <2>1, <2>3, SendArpKeeps DEF R!NI!Reply, ip, mac
    <2> QED
      BY <2>2, <2>4
  <1> QED
    BY <1>1, <1>2

\* recv_frame of AsyncNetworkInterface: a datagram it queues came in a frame for this
\* interface alone.
LEMMA InterfaceRecvKeeps ==
    ASSUME NEW s, NEW m \in Mac, NEW i \in InterfaceSet(m, s), NEW frame \in FrameSet(s)
    PROVE  R!recv_frame(i, frame) \in InterfaceSet(m, s)
  <1> DEFINE ni == R!NI!recv_frame(i.ni, frame)
             out == IF R!NI!ForUs(i.ni, frame) /\ frame.type = "IPv4"
                    THEN Append(i.datagrams_out, frame.dgram) ELSE i.datagrams_out
  <1>1. i.ni \in NiSet(m, s) /\ i.datagrams_out \in Seq(For(IpOf[m], s))
    BY DEF InterfaceSet
  <1>2. ni \in NiSet(m, s)
    BY <1>1, RecvKeeps
  <1>3. out \in Seq(For(IpOf[m], s))
    <2>1. CASE R!NI!ForUs(i.ni, frame) /\ frame.type = "IPv4"
      <3>1. frame \in DataFrames(s)
        BY <2>1 DEF FrameSet, ArpFrames
      <3>2. frame.dst \in {m, Broadcast}
        BY <1>1, <2>1, NiMembers DEF R!NI!ForUs
      <3>3. frame.dst = m
        BY <3>1, <3>2, NetworkAssumption DEF DataFrames
      <3>4. frame.dgram \in For(IpOf[m], s)
        BY <3>1, <3>3 DEF DataFrames, From
      <3> QED
        BY <1>1, <2>1, <3>4
    <2>2. CASE ~(R!NI!ForUs(i.ni, frame) /\ frame.type = "IPv4")
      BY <1>1, <2>2
    <2> QED
      BY <2>1, <2>2
  <1>4. R!recv_frame(i, frame) = [ni |-> ni, datagrams_out |-> out]
    BY DEF R!recv_frame
  <1> HIDE DEF ni, out
  <1> QED
    BY <1>2, <1>3, <1>4 DEF InterfaceSet

\* The successive states of an interface that is delivered frames.
LEMMA DeliverRuns ==
    ASSUME NEW s, NEW m \in Mac, NEW i \in InterfaceSet(m, s), NEW frames \in Seq(FrameSet(s))
    PROVE  \E g \in [0..Len(frames) -> InterfaceSet(m, s)] :
               /\ g[0] = i /\ deliver(frames, i) = g[Len(frames)]
               /\ \A k \in 1..Len(frames) : g[k] = R!recv_frame(g[k - 1], frames[k])
  <1> DEFINE n == Len(frames)
             K == InterfaceSet(m, s)
             F == [k \in 1..n |-> [x \in K |-> R!recv_frame(x, frames[k])]]
             Is(g) == g = [k \in 0..n |->
                              IF k = 0 THEN i ELSE R!recv_frame(g[k - 1], frames[k])]
             after == CHOOSE g : Is(g)
  <1>1. n \in Nat /\ \A k \in 1..n : frames[k] \in FrameSet(s)
    BY LenProperties, ElementOfSeq
  <1>2. \A k \in 1..n, x \in K : R!recv_frame(x, frames[k]) \in K
    BY <1>1, InterfaceRecvKeeps
  <1>3. deliver(frames, i) = after[n]
    BY DEF deliver
  <1> HIDE DEF n, K
  <1>4. PICK g \in [0..n -> K] : Run(g, i, n, F)
    <2>1. i \in K /\ F \in [1..n -> [K -> K]]
      BY <1>2 DEF K
    <2> HIDE DEF F
    <2> QED
      BY <1>1, <2>1, RunExists
  <1>5. Is(g)
    <2>1. ASSUME NEW k \in 0..n
          PROVE  g[k] = IF k = 0 THEN i ELSE R!recv_frame(g[k - 1], frames[k])
      <3>1. CASE k # 0
        <4>1. k \in 1..n /\ k - 1 \in 0..n
          BY <1>1, <3>1
        <4>2. g[k] = F[k][g[k - 1]] /\ g[k - 1] \in K
          BY <1>4, <3>1, <4>1 DEF Run
        <4> QED
          BY <3>1, <4>1, <4>2
      <3>2. CASE k = 0
        BY <1>1, <1>4, <3>2 DEF Run
      <3> QED
        BY <3>1, <3>2
    <2> QED
      BY <1>4, <2>1
  <1>6. Is(after)
    <2> HIDE DEF Is
    <2> QED
      BY <1>5
  <1> HIDE DEF after
  <1>7. /\ after[0] = i /\ i \in K
        /\ \A k \in 1..n : after[k] = R!recv_frame(after[k - 1], frames[k])
    BY <1>1, <1>6 DEF K
  <1>8. \A k \in 0..n : after[k] \in K
    BY <1>1, <1>2, <1>7, StaysIn
  <1>9. after \in [0..n -> K]
    BY <1>6, <1>8
  <1> HIDE DEF Is
  <1> QED
    BY <1>3, <1>7, <1>9 DEF K, n

\* deliver
LEMMA DeliverKeeps ==
    ASSUME NEW s, NEW m \in Mac, NEW i \in InterfaceSet(m, s), NEW frames \in Seq(FrameSet(s))
    PROVE  deliver(frames, i) \in InterfaceSet(m, s)
  <1>1. Len(frames) \in 0..Len(frames)
    BY LenProperties
  <1> QED
    BY <1>1, DeliverRuns

-----------------------------------------------------------------------------
\* Routers.

\* The interface number i of the router r.
PortSet(r, s) == UNION {InterfaceSet(Port(r, i), s) : i \in DOMAIN RouterIps[r]}
PortsOf(r, s) ==
    {f \in [DOMAIN RouterIps[r] -> PortSet(r, s)] :
        \A i \in DOMAIN RouterIps[r] : f[i] \in InterfaceSet(Port(r, i), s)}

\* A router.
RouterSet(r, s) == [interfaces : PortsOf(r, s), routing_table : Seq(Routes[r])]

\* The interfaces of a router are interfaces.
LEMMA PortIsMac ==
    ASSUME NEW r \in Routers, NEW i \in DOMAIN RouterIps[r]
    PROVE  Port(r, i) \in Mac /\ IpOf[Port(r, i)] = RouterIps[r][i]
  <1>1. Port(r, i) \in Mac
    BY DEF Mac
  <1>2. Port(r, i).node = r /\ Port(r, i).num = i /\ r \notin Host
    BY NetworkAssumption DEF Port
  <1> QED
    BY <1>1, <1>2 DEF IpOf

\* Hosts have one interface.
LEMMA HostIsMac ==
    ASSUME NEW h \in Host
    PROVE  Port(h, 1) \in Mac /\ IpOf[Port(h, 1)] = HostIp[h]
  <1>1. Port(h, 1) \in Mac
    BY DEF Mac
  <1>2. Port(h, 1).node = h
    BY DEF Port
  <1> QED
    BY <1>1, <1>2 DEF IpOf

\* Changing one interface of a router.
LEMMA PortChange ==
    ASSUME NEW s, NEW r \in Routers, NEW f \in PortsOf(r, s), NEW i \in DOMAIN RouterIps[r],
           NEW v \in InterfaceSet(Port(r, i), s)
    PROVE  [f EXCEPT ![i] = v] \in PortsOf(r, s)
  <1> DEFINE g == [f EXCEPT ![i] = v]
  <1>1. v \in PortSet(r, s)
    BY DEF PortSet
  <1>2. f \in [DOMAIN RouterIps[r] -> PortSet(r, s)]
        /\ \A k \in DOMAIN RouterIps[r] : f[k] \in InterfaceSet(Port(r, k), s)
    BY DEF PortsOf
  <1>3. g \in [DOMAIN RouterIps[r] -> PortSet(r, s)]
    BY <1>1, <1>2
  <1>4. \A k \in DOMAIN RouterIps[r] : g[k] \in InterfaceSet(Port(r, k), s)
    BY <1>2
  <1> QED
    BY <1>3, <1>4 DEF PortsOf

\* send_datagram of AsyncNetworkInterface
LEMMA InterfaceSendKeeps ==
    ASSUME NEW s, NEW m \in Mac, NEW i \in InterfaceSet(m, s), NEW ip \in Addr,
           NEW d \in From(m, ip, s)
    PROVE  R!send_datagram(i, d, ip) \in InterfaceSet(m, s)
  <1> DEFINE ni == R!NI!send_datagram(i.ni, d, ip)
  <1>1. i.ni \in NiSet(m, s)
    BY DEF InterfaceSet
  <1>2. ni \in NiSet(m, s)
    BY <1>1, SendKeeps
  <1>3. R!send_datagram(i, d, ip) = [i EXCEPT !.ni = ni]
    BY DEF R!send_datagram
  <1> HIDE DEF ni
  <1> QED
    BY <1>2, <1>3 DEF InterfaceSet

\* What a route says.
LEMMA RouteFields ==
    ASSUME NEW r \in Routers, NEW e \in Routes[r]
    PROVE  /\ e.prefix_length \in Nat /\ e.interface_num \in DOMAIN RouterIps[r]
           /\ e.next_hop \in Addr \union {R!Direct}
  <1>1. e \in [route_prefix : Addr, prefix_length : 0..AddrBits,
               next_hop : Addr \union {R!Direct}, interface_num : DOMAIN RouterIps[r]]
    BY NetworkAssumption
  <1> QED
    BY <1>1

\* The router x sends the datagram d from its interface num to hop, as y.
Sends(x, y, num, d, hop) ==
    y = [x EXCEPT !.interfaces =
            [x.interfaces EXCEPT ![num] = R!send_datagram(x.interfaces[num], d, hop)]]

\* Every ttl sent is a byte.
ByteTtl(s) == \A k \in 1..Len(s) : s[k].ttl \in 0..255

\* A byte that is not spent, decremented.
LEMMA OneLess ==
    ASSUME NEW a \in Nat, NEW b \in 0..255, a <= b, ~(a <= 1)
    PROVE  /\ a - 1 \in 1..b - 1 /\ a - 1 \in Nat /\ a - 1 # 0 /\ a - 1 <= b
           /\ (a - 1) % 256 = a - 1
  OBVIOUS

\* route_one_datagram: the copy that leaves has lived one hop less, and goes to its
\* destination or to the next hop of a route.
LEMMA RouteOneSends ==
    ASSUME NEW s, NEW r \in Routers, NEW x \in RouterSet(r, s), NEW d \in Alive(s),
           ByteTtl(s)
    PROVE  \/ R!route_one_datagram(x, d) = x
           \/ \E num \in DOMAIN RouterIps[r], hop \in Addr : \E e \in From(Port(r, num), hop, s) :
                  e.id = d.id /\ Sends(x, R!route_one_datagram(x, d), num, e, hop)
  <1> DEFINE table == x.routing_table
             m == R!match_num(table, d.dst)
             entry == table[m]
             hop == IF entry.next_hop = R!Direct THEN d.dst ELSE entry.next_hop
             aged == R!Aged(d)
             num == entry.interface_num
  <1>1. CASE R!Expires(d) \/ m = 0
    BY <1>1 DEF R!route_one_datagram
  <1>2. CASE ~(R!Expires(d) \/ m = 0)
    <2>1. table \in Seq(Routes[r]) /\ Len(table) \in Nat /\ x.interfaces \in PortsOf(r, s)
      BY LenProperties DEF RouterSet
    <2>2. \A k \in 1..Len(table) : table[k] \in Routes[r]
      BY <2>1, ElementOfSeq
    <2>3. \A k \in 1..Len(table) : table[k].prefix_length \in Nat
      BY <2>2, RouteFields
    <2>4. Found(m, Len(table), table, d.dst)
      BY <2>1, <2>3, MatchFound
    <2>5. entry \in Routes[r]
      BY <1>2, <2>1, <2>2, <2>4 DEF Found
    <2>6. num \in DOMAIN RouterIps[r] /\ entry.next_hop \in Addr \union {R!Direct}
      BY <2>5, RouteFields
    <2>7. Sends(x, R!route_one_datagram(x, d), num, aged, hop)
      BY <1>2 DEF R!route_one_datagram, Sends
    <2> HIDE DEF m, entry
    <2>8. /\ aged \in Alive(s) /\ aged.id = d.id /\ aged.dst = d.dst /\ d.dst \in Addr
          /\ aged.ttl \in 1..s[aged.id].ttl - 1
      <3>1. /\ d \in [id : 1..Len(s), dst : Addr, ttl : Nat] /\ d.ttl <= s[d.id].ttl
            /\ s[d.id].ttl \in 0..255 /\ ~(d.ttl <= 1)
        BY <1>2 DEF Alive, R!Expires, ByteTtl
      <3> DEFINE was == d.ttl
                 most == s[d.id].ttl
      <3>2. was \in Nat /\ most \in 0..255 /\ was <= most /\ ~(was <= 1)
        BY <3>1
      <3>3. aged = [d EXCEPT !.ttl = (was - 1) % 256]
        BY DEF R!Aged
      <3> HIDE DEF aged, was, most
      <3>4. /\ was - 1 \in 1..most - 1 /\ was - 1 \in Nat /\ was - 1 # 0 /\ was - 1 <= most
            /\ (was - 1) % 256 = was - 1
        BY <3>2, OneLess
      <3>5. aged \in [id : 1..Len(s), dst : Addr, ttl : Nat] /\ aged.id = d.id
            /\ aged.dst = d.dst /\ aged.ttl = was - 1 /\ s[aged.id].ttl = most
        BY <3>1, <3>3, <3>4 DEF most
      <3> QED
        BY <3>1, <3>4, <3>5 DEF Alive
    <2> HIDE DEF aged
    <2>9. hop \in Addr /\ aged \in From(Port(r, num), hop, s)
      <3>1. CASE entry.next_hop = R!Direct
        BY <2>8, <3>1 DEF For, From
      <3>2. CASE entry.next_hop # R!Direct
        <4>1. entry.next_hop \in NextHops
          BY <2>5 DEF NextHops
        <4> QED
          BY <2>6, <2>8, <3>2, <4>1 DEF For, From
      <3> QED
        BY <3>1, <3>2
    <2> HIDE DEF hop, num
    <2> QED
      BY <2>6, <2>7, <2>8, <2>9
  <1> QED
    BY <1>1, <1>2

\* So route_one_datagram leaves a router a router.
LEMMA RouteOneKeeps ==
    ASSUME NEW s, NEW r \in Routers, NEW x \in RouterSet(r, s), NEW d \in Alive(s),
           ByteTtl(s)
    PROVE  R!route_one_datagram(x, d) \in RouterSet(r, s)
  <1> DEFINE y == R!route_one_datagram(x, d)
  <1>1. CASE y = x
    BY <1>1
  <1>2. ASSUME NEW num \in DOMAIN RouterIps[r], NEW hop \in Addr,
               NEW e \in From(Port(r, num), hop, s), Sends(x, y, num, e, hop)
        PROVE  y \in RouterSet(r, s)
    <2> HIDE DEF y
    <2> DEFINE v == R!send_datagram(x.interfaces[num], e, hop)
               f == [x.interfaces EXCEPT ![num] = v]
    <2>1. /\ x.interfaces \in PortsOf(r, s)
          /\ x.interfaces[num] \in InterfaceSet(Port(r, num), s) /\ Port(r, num) \in Mac
      BY PortIsMac DEF RouterSet, PortsOf
    <2>2. v \in InterfaceSet(Port(r, num), s)
      BY <2>1, InterfaceSendKeeps
    <2>3. y = [x EXCEPT !.interfaces = f]
      BY <1>2 DEF Sends
    <2> HIDE DEF v
    <2>4. f \in PortsOf(r, s)
      BY <2>1, <2>2, PortChange
    <2> HIDE DEF f
    <2> QED
      BY <2>3, <2>4 DEF RouterSet
  <1>3. \/ y = x
        \/ \E num \in DOMAIN RouterIps[r], hop \in Addr : \E e \in From(Port(r, num), hop, s) :
               Sends(x, y, num, e, hop)
    BY RouteOneSends
  <1> QED
    BY <1>1, <1>2, <1>3

\* Emptying the queue of an interface.
LEMMA EmptyQueue ==
    ASSUME NEW s, NEW r \in Routers, NEW x \in RouterSet(r, s), NEW num \in DOMAIN RouterIps[r]
    PROVE  [x EXCEPT !.interfaces[num].datagrams_out = <<>>] \in RouterSet(r, s)
  <1> DEFINE v == [x.interfaces[num] EXCEPT !.datagrams_out = <<>>]
             f == [x.interfaces EXCEPT ![num] = v]
  <1>1. x.interfaces \in PortsOf(r, s) /\ x.interfaces[num] \in InterfaceSet(Port(r, num), s)
    BY DEF RouterSet, PortsOf
  <1>2. v \in InterfaceSet(Port(r, num), s)
    <2>1. <<>> \in Seq(For(IpOf[Port(r, num)], s))
      OBVIOUS
    <2> QED
      BY <1>1, <2>1 DEF InterfaceSet
  <1>3. [x EXCEPT !.interfaces[num].datagrams_out = <<>>] = [x EXCEPT !.interfaces = f]
    OBVIOUS
  <1> HIDE DEF v
  <1>4. f \in PortsOf(r, s)
    BY <1>1, <1>2, PortChange
  <1> HIDE DEF f
  <1> QED
    BY <1>3, <1>4 DEF RouterSet

\* The queue of an interface, and the run of the inner loop of route over it.
Queue(x, num) == x.interfaces[num].datagrams_out
QueueRun(g, x, num, s) ==
    LET queue == Queue(x, num)
    IN  /\ g[0] = [x EXCEPT !.interfaces[num].datagrams_out = <<>>]
        /\ R!route_queue(x, num) = g[Len(queue)]
        /\ \A k \in 1..Len(queue) :
               queue[k] \in Alive(s) /\ g[k] = R!route_one_datagram(g[k - 1], queue[k])

\* The inner loop of route: the states of a router that empties the queue of an
\* interface and then routes the datagrams that were in it.
LEMMA RouteQueueRuns ==
    ASSUME NEW s, NEW r \in Routers, NEW x \in RouterSet(r, s), NEW num \in DOMAIN RouterIps[r],
           ByteTtl(s)
    PROVE  /\ Len(Queue(x, num)) \in Nat
           /\ \E g \in [0..Len(Queue(x, num)) -> RouterSet(r, s)] : QueueRun(g, x, num, s)
  <1> DEFINE queue == Queue(x, num)
             n == Len(queue)
             st == [x EXCEPT !.interfaces[num].datagrams_out = <<>>]
             K == RouterSet(r, s)
             F == [k \in 1..n |-> [y \in K |-> R!route_one_datagram(y, queue[k])]]
             Is(g) == g = [k \in 0..n |->
                              IF k = 0 THEN st ELSE R!route_one_datagram(g[k - 1], queue[k])]
             routed == CHOOSE g : Is(g)
  <1>1. n \in Nat /\ \A k \in 1..n : queue[k] \in Alive(s)
    <2>1. queue \in Seq(For(IpOf[Port(r, num)], s))
      BY DEF RouterSet, PortsOf, InterfaceSet, Queue
    <2>2. \A k \in 1..n : queue[k] \in For(IpOf[Port(r, num)], s)
      BY <2>1, ElementOfSeq
    <2> QED
      BY <2>1, <2>2, LenProperties DEF For
  <1>2. \A k \in 1..n, y \in K : R!route_one_datagram(y, queue[k]) \in K
    BY <1>1, RouteOneKeeps
  <1>3. R!route_queue(x, num) = routed[n]
    BY DEF R!route_queue, Queue
  <1>4. st \in K
    BY EmptyQueue
  <1> HIDE DEF n, K, st, queue
  <1>5. PICK g \in [0..n -> K] : Run(g, st, n, F)
    <2>1. F \in [1..n -> [K -> K]]
      BY <1>2
    <2> HIDE DEF F
    <2> QED
      BY <1>1, <1>4, <2>1, RunExists
  <1>6. Is(g)
    <2>1. ASSUME NEW k \in 0..n
          PROVE  g[k] = IF k = 0 THEN st ELSE R!route_one_datagram(g[k - 1], queue[k])
      <3>1. CASE k # 0
        <4>1. k \in 1..n /\ k - 1 \in 0..n
          BY <1>1, <3>1
        <4>2. g[k] = F[k][g[k - 1]] /\ g[k - 1] \in K
          BY <1>5, <3>1, <4>1 DEF Run
        <4> QED
          BY <3>1, <4>1, <4>2
      <3>2. CASE k = 0
        BY <1>1, <1>5, <3>2 DEF Run
      <3> QED
        BY <3>1, <3>2
    <2> QED
      BY <1>5, <2>1
  <1>7. Is(routed)
    <2> HIDE DEF Is
    <2> QED
      BY <1>6
  <1> HIDE DEF routed
  <1>8. /\ routed[0] = st
        /\ \A k \in 1..n : routed[k] = R!route_one_datagram(routed[k - 1], queue[k])
    BY <1>1, <1>7
  <1>9. \A k \in 0..n : routed[k] \in K
    BY <1>1, <1>2, <1>4, <1>8, StaysIn
  <1>10. routed \in [0..n -> K]
    BY <1>7, <1>9
  <1> HIDE DEF Is
  <1>11. QueueRun(routed, x, num, s)
    BY <1>1, <1>3, <1>8 DEF n, st, queue, QueueRun
  <1> QED
    BY <1>1, <1>10, <1>11 DEF K, n, queue

\* What the inner loop keeps.
LEMMA RouteQueueKeeps ==
    ASSUME NEW s, NEW r \in Routers, NEW x \in RouterSet(r, s), NEW num \in DOMAIN RouterIps[r],
           ByteTtl(s)
    PROVE  R!route_queue(x, num) \in RouterSet(r, s)
  <1>1. PICK g \in [0..Len(Queue(x, num)) -> RouterSet(r, s)] : QueueRun(g, x, num, s)
    BY RouteQueueRuns
  <1>2. R!route_queue(x, num) = g[Len(Queue(x, num))]
    BY <1>1 DEF QueueRun
  <1> QED
    BY <1>1, <1>2, RouteQueueRuns

\* g runs through the queues of the router x, of which there are n.
RouteRun(g, x, r, n) ==
    /\ 1..n = DOMAIN RouterIps[r] /\ g[0] = x /\ R!route(x) = g[n]
    /\ \A k \in 1..n : g[k] = R!route_queue(g[k - 1], k)

\* The outer loop of route has such a run, ...
LEMMA RouteRuns ==
    ASSUME NEW s, NEW r \in Routers, NEW x \in RouterSet(r, s),
           ByteTtl(s)
    PROVE  \E n \in Nat : \E g \in [0..n -> RouterSet(r, s)] : RouteRun(g, x, r, n)
  <1> DEFINE n == Len(x.interfaces)
             K == RouterSet(r, s)
             F == [k \in 1..n |-> [y \in K |-> R!route_queue(y, k)]]
             Is(g) == g = [k \in 0..n |-> IF k = 0 THEN x ELSE R!route_queue(g[k - 1], k)]
             routed == CHOOSE g : Is(g)
  <1>1. n \in Nat /\ 1..n = DOMAIN RouterIps[r]
    <2>1. RouterIps[r] \in Seq(Addr) /\ x.interfaces \in [DOMAIN RouterIps[r] -> PortSet(r, s)]
      BY NetworkAssumption DEF RouterSet, PortsOf
    <2>2. DOMAIN RouterIps[r] = 1..Len(RouterIps[r]) /\ Len(RouterIps[r]) \in Nat
      BY <2>1, LenProperties
    <2>3. x.interfaces \in Seq(PortSet(r, s)) /\ DOMAIN x.interfaces = DOMAIN RouterIps[r]
      BY <2>1, <2>2
    <2> QED
      BY <2>3, LenProperties
  <1>2. \A k \in 1..n, y \in K : R!route_queue(y, k) \in K
    BY <1>1, RouteQueueKeeps
  <1>3. R!route(x) = routed[n]
    BY DEF R!route
  <1>4. x \in K
    OBVIOUS
  <1> HIDE DEF n, K
  <1>5. PICK g \in [0..n -> K] : Run(g, x, n, F)
    <2>1. F \in [1..n -> [K -> K]]
      BY <1>2
    <2> HIDE DEF F
    <2> QED
      BY <1>1, <1>4, <2>1, RunExists
  <1>6. Is(g)
    <2>1. ASSUME NEW k \in 0..n
          PROVE  g[k] = IF k = 0 THEN x ELSE R!route_queue(g[k - 1], k)
      <3>1. CASE k # 0
        <4>1. k \in 1..n /\ k - 1 \in 0..n
          BY <1>1, <3>1
        <4>2. g[k] = F[k][g[k - 1]] /\ g[k - 1] \in K
          BY <1>5, <3>1, <4>1 DEF Run
        <4> QED
          BY <3>1, <4>1, <4>2
      <3>2. CASE k = 0
        BY <1>1, <1>5, <3>2 DEF Run
      <3> QED
        BY <3>1, <3>2
    <2> QED
      BY <1>5, <2>1
  <1>7. Is(routed)
    <2> HIDE DEF Is
    <2> QED
      BY <1>6
  <1> HIDE DEF routed
  <1>8. routed[0] = x /\ \A k \in 1..n : routed[k] = R!route_queue(routed[k - 1], k)
    BY <1>1, <1>7
  <1>9. \A k \in 0..n : routed[k] \in K
    BY <1>1, <1>2, <1>4, <1>8, StaysIn
  <1>10. routed \in [0..n -> K]
    BY <1>7, <1>9
  <1> HIDE DEF Is
  <1>11. RouteRun(routed, x, r, n)
    BY <1>1, <1>3, <1>8 DEF RouteRun
  <1> QED
    BY <1>1, <1>10, <1>11 DEF K

\* ... so that what route works on stays such a router.
LEMMA RouteKeeps ==
    ASSUME NEW s, NEW r \in Routers, NEW x \in RouterSet(r, s),
           ByteTtl(s)
    PROVE  R!route(x) \in RouterSet(r, s)
  <1>1. PICK n \in Nat : \E g \in [0..n -> RouterSet(r, s)] : RouteRun(g, x, r, n)
    BY RouteRuns
  <1> QED
    BY <1>1 DEF RouteRun

-----------------------------------------------------------------------------
\* The network.

\* The invariant: every interface, router and host has only what it may have.
Sound(s) ==
    /\ s \in Seq([dst : Addr, ttl : 0..255])
    /\ DOMAIN host = Host /\ \A h \in Host : host[h] \in InterfaceSet(Port(h, 1), s)
    /\ DOMAIN router = Routers /\ \A r \in Routers : router[r] \in RouterSet(r, s)
    /\ got \in Seq([dgram : Alive(s), by : Host])
    /\ \A i \in DOMAIN got : got[i].dgram \in For(HostIp[got[i].by], s)
Inv == Sound(sent)

\* A port of a link belongs to a host or to a router.
LEMMA InterfaceType ==
    ASSUME Inv, NEW p \in Mac
    PROVE  Interface(p) \in InterfaceSet(p, sent)
  <1>1. CASE \E h \in Host : p = Port(h, 1)
    <2>1. PICK h \in Host : p = Port(h, 1)
      BY <1>1
    <2>2. p.node = h
      BY <2>1 DEF Port
    <2> QED
      BY <2>1, <2>2 DEF Inv, Sound, Interface
  <1>2. ASSUME NEW r \in Routers, NEW i \in DOMAIN RouterIps[r], p = Port(r, i)
        PROVE  Interface(p) \in InterfaceSet(p, sent)
    <2>1. p.node = r /\ p.num = i /\ r \notin Host
      BY <1>2, NetworkAssumption DEF Port
    <2>2. Interface(p) = router[r].interfaces[i]
      BY <2>1 DEF Interface
    <2>3. router[r] \in RouterSet(r, sent)
      BY DEF Inv, Sound
    <2> QED
      BY <1>2, <2>2, <2>3 DEF RouterSet, PortsOf
  <1> QED
    BY <1>1, <1>2 DEF Mac

\* What a port p does with the frames of the k-th port of a link.
Given(y, p, link, k) == IF link[k] = p THEN y ELSE deliver(Frames(link[k]), y)

\* The successive states of a port in exchange_frames.
LEMMA ExchangedRuns ==
    ASSUME Inv, NEW p \in Mac, NEW link \in Link
    PROVE  \E g \in [0..Len(link) -> InterfaceSet(p, sent)] :
               /\ g[0] = Interface(p)
               /\ Exchanged(p, link) = [g[Len(link)] EXCEPT
                      !.ni.frames_out = SubSeq(@, Len(Frames(p)) + 1, Len(@))]
               /\ \A k \in 1..Len(link) : g[k] = Given(g[k - 1], p, link, k)
  <1> DEFINE n == Len(link)
             st == Interface(p)
             K == InterfaceSet(p, sent)
             Step(y, k) == Given(y, p, link, k)
             F == [k \in 1..n |-> [y \in K |-> Step(y, k)]]
             Is(g) == g = [k \in 0..n |->
                              IF k = 0 THEN st
                              ELSE IF link[k] = p THEN g[k - 1]
                              ELSE deliver(Frames(link[k]), g[k - 1])]
             after == CHOOSE g : Is(g)
  <1>1. n \in Nat /\ \A k \in 1..n : link[k] \in Mac
    <2>1. link \in Seq(Mac)
      BY NetworkAssumption
    <2> QED
      BY <2>1, LenProperties, ElementOfSeq
  <1>2. \A k \in 1..n, y \in K : Step(y, k) \in K
    <2> SUFFICES ASSUME NEW k \in 1..n, NEW y \in K
                 PROVE  deliver(Frames(link[k]), y) \in K
      BY DEF Given
    <2>1. Interface(link[k]) \in InterfaceSet(link[k], sent)
      BY <1>1, InterfaceType
    <2>2. Frames(link[k]) \in Seq(FrameSet(sent))
      BY <2>1 DEF Frames, InterfaceSet, NiSet
    <2> QED
      BY <2>2, DeliverKeeps
  <1>3. st \in K
    BY InterfaceType
  <1>4. Exchanged(p, link) = [after[n] EXCEPT !.ni.frames_out = SubSeq(@, Len(Frames(p)) + 1, Len(@))]
    BY DEF Exchanged
  <1> HIDE DEF n, K, st
  <1>5. PICK g \in [0..n -> K] : Run(g, st, n, F)
    <2>1. F \in [1..n -> [K -> K]]
      BY <1>2
    <2> HIDE DEF F
    <2> QED
      BY <1>1, <1>3, <2>1, RunExists
  <1>6. Is(g)
    <2>1. ASSUME NEW k \in 0..n
          PROVE  g[k] = IF k = 0 THEN st ELSE Step(g[k - 1], k)
      <3>1. CASE k # 0
        <4>1. k \in 1..n /\ k - 1 \in 0..n
          BY <1>1, <3>1
        <4>2. g[k] = F[k][g[k - 1]] /\ g[k - 1] \in K
          BY <1>5, <3>1, <4>1 DEF Run
        <4> QED
          BY <3>1, <4>1, <4>2
      <3>2. CASE k = 0
        BY <1>1, <1>5, <3>2 DEF Run
      <3> QED
        BY <3>1, <3>2
    <2> QED
      BY <1>5, <2>1 DEF Given
  <1>7. Is(after)
    <2> HIDE DEF Is
    <2> QED
      BY <1>6
  <1> HIDE DEF after
  <1>8. after[0] = st /\ \A k \in 1..n : after[k] = Step(after[k - 1], k)
    BY <1>1, <1>7 DEF Given
  <1> HIDE DEF Step
  <1>9. \A k \in 0..n : after[k] \in K
    BY <1>1, <1>2, <1>3, <1>8, StaysIn
  <1>10. after \in [0..n -> K]
    BY <1>7, <1>9
  <1> HIDE DEF Is
  <1> QED
    BY <1>4, <1>8, <1>10 DEF K, n, st, Step

\* exchange_frames, for one port
LEMMA ExchangedKeeps ==
    ASSUME Inv, NEW p \in Mac, NEW link \in Link
    PROVE  Exchanged(p, link) \in InterfaceSet(p, sent)
  <1>1. PICK g \in [0..Len(link) -> InterfaceSet(p, sent)] :
            Exchanged(p, link) = [g[Len(link)] EXCEPT
                !.ni.frames_out = SubSeq(@, Len(Frames(p)) + 1, Len(@))]
    BY ExchangedRuns
  <1>2. Len(link) \in 0..Len(link)
    <2>1. link \in Seq(Mac)
      BY NetworkAssumption
    <2> QED
      BY <2>1, LenProperties
  <1> DEFINE a == g[Len(link)]
             old == a.ni.frames_out
             frames == SubSeq(old, Len(Frames(p)) + 1, Len(old))
  <1>3. a \in InterfaceSet(p, sent)
    BY <1>1, <1>2
  <1>4. Exchanged(p, link) = [a EXCEPT !.ni.frames_out = frames]
    BY <1>1
  <1> HIDE DEF a
  <1>5. old \in Seq(FrameSet(sent)) /\ Len(Frames(p)) \in Nat
    <2>1. Frames(p) \in Seq(FrameSet(sent))
      BY InterfaceType DEF Frames, InterfaceSet, NiSet
    <2> QED
      BY <1>3, <2>1, LenProperties DEF InterfaceSet, NiSet
  <1>6. frames \in Seq(FrameSet(sent))
    <2> HIDE DEF old
    <2>1. Len(old) \in Nat /\ \A k \in 1..Len(old) : old[k] \in FrameSet(sent)
      BY <1>5, LenProperties, ElementOfSeq
    <2>2. Len(Frames(p)) + 1 \in 1..Len(old) + 1 \/ Len(Frames(p)) + 1 > Len(old)
      BY <1>5, <2>1
    <2> QED
      BY <1>5, <2>1, <2>2, SubSeqProperties
  <1> HIDE DEF frames
  <1> QED
    BY <1>3, <1>4, <1>6 DEF InterfaceSet, NiSet

\* What may be under way may still be after another datagram was sent.
LEMMA Monotone ==
    ASSUME NEW T, NEW s \in Seq(T), NEW e \in T, NEW z, z = Append(s, e)
    PROVE  /\ Alive(s) \subseteq Alive(z)
           /\ \A ip : For(ip, s) \subseteq For(ip, z)
           /\ \A m \in Mac : InterfaceSet(m, s) \subseteq InterfaceSet(m, z)
           /\ \A r \in Routers : RouterSet(r, s) \subseteq RouterSet(r, z)
  <1>1. Len(s) \in Nat /\ Len(z) = Len(s) + 1 /\ \A k \in 1..Len(s) : z[k] = s[k]
    BY AppendProperties, LenProperties
  <1>2. Alive(s) \subseteq Alive(z)
    <2> SUFFICES ASSUME NEW d \in Alive(s)
                 PROVE  d \in Alive(z)
      OBVIOUS
    <2>1. d \in [id : 1..Len(s), dst : Addr, ttl : Nat]
          /\ d.ttl <= s[d.id].ttl /\ (d.ttl = 0 => s[d.id].ttl = 0)
      BY DEF Alive
    <2>2. d.id \in 1..Len(s) /\ d.id \in 1..Len(z) /\ z[d.id] = s[d.id]
      BY <1>1, <2>1
    <2>3. d \in [id : 1..Len(z), dst : Addr, ttl : Nat]
      BY <2>1, <2>2
    <2> QED
      BY <2>1, <2>2, <2>3 DEF Alive
  <1>3. \A ip : For(ip, s) \subseteq For(ip, z)
    BY <1>2 DEF For
  <1>3a. \A m, ip : From(m, ip, s) \subseteq From(m, ip, z)
    <2> SUFFICES ASSUME NEW m, NEW ip, NEW d \in From(m, ip, s)
                 PROVE  d \in From(m, ip, z)
      OBVIOUS
    <2>1. d \in For(ip, z) /\ d.id \in 1..Len(s)
      BY <1>3 DEF From, For, Alive
    <2> QED
      BY <1>1, <2>1 DEF From
  <1>4. FrameSet(s) \subseteq FrameSet(z)
    <2> SUFFICES ASSUME NEW f \in DataFrames(s)
                 PROVE  f \in DataFrames(z)
      BY DEF FrameSet
    <2>1. f \in [type : {"IPv4"}, src : Mac, dst : Mac, dgram : Alive(s)]
          /\ f.dgram \in From(f.src, IpOf[f.dst], s)
      BY DEF DataFrames
    <2>2. f \in [type : {"IPv4"}, src : Mac, dst : Mac, dgram : Alive(z)]
      BY <1>2, <2>1
    <2> QED
      BY <1>3a, <2>1, <2>2 DEF DataFrames
  <1>5. \A m : ListSet(m, s) \subseteq ListSet(m, z)
    <2> SUFFICES ASSUME NEW m, NEW q \in ListSet(m, s)
                 PROVE  q \in ListSet(m, z)
      OBVIOUS
    <2>1. PICK D \in SUBSET Addr : q \in [D -> List(s)]
      BY DEF ListSet, Maps
    <2>2. List(s) \subseteq List(z)
      BY <1>2 DEF List
    <2>3. q \in [D -> List(z)]
      BY <2>1, <2>2
    <2>4. q \in Maps(List(z))
      BY <2>1, <2>3 DEF Maps
    <2>5. \A ip \in DOMAIN q : q[ip].queuing_datagrams \in Seq(From(m, ip, s))
      BY DEF ListSet
    <2>6. \A ip \in DOMAIN q : q[ip].queuing_datagrams \in Seq(From(m, ip, z))
      BY <1>3a, <2>5
    <2> QED
      BY <2>4, <2>6 DEF ListSet
  <1>6. Seq(FrameSet(s)) \subseteq Seq(FrameSet(z))
    BY <1>4
  <1>7. \A m : NiSet(m, s) \subseteq NiSet(m, z)
    BY <1>5, <1>6 DEF NiSet
  <1>8. \A ip : Seq(For(ip, s)) \subseteq Seq(For(ip, z))
    BY <1>3
  <1>9. \A m : InterfaceSet(m, s) \subseteq InterfaceSet(m, z)
    BY <1>7, <1>8 DEF InterfaceSet
  <1>10. ASSUME NEW r \in Routers
         PROVE  RouterSet(r, s) \subseteq RouterSet(r, z)
    <2>1. PortSet(r, s) \subseteq PortSet(r, z)
      BY <1>9 DEF PortSet
    <2>2. PortsOf(r, s) \subseteq PortsOf(r, z)
      BY <1>9, <2>1 DEF PortsOf
    <2> QED
      BY <2>2 DEF RouterSet
  <1> QED
    BY <1>2, <1>3, <1>9, <1>10

\* New interfaces are empty.
LEMMA NewInterfaceType ==
    ASSUME NEW s, NEW m \in Mac
    PROVE  R!NewInterface(m, IpOf[m]) \in InterfaceSet(m, s)
  <1> DEFINE empty == R!NI!EmptyMap
  <1>1. DOMAIN empty = {} /\ \A T : empty \in [{} -> T]
    BY DEF R!NI!EmptyMap
  <1>2. \A T : empty \in Maps(T)
    <2>1. {} \in SUBSET Addr
      OBVIOUS
    <2> QED
      BY <1>1, <2>1 DEF Maps
  <1> HIDE DEF empty
  <1>3. empty \in CacheSet /\ empty \in ListSet(m, s)
    BY <1>1, <1>2 DEF CacheSet, ListSet
  <1>4. <<>> \in Seq(FrameSet(s)) /\ <<>> \in Seq(For(IpOf[m], s))
    OBVIOUS
  <1>5. R!NI!New(m, IpOf[m]) \in NiSet(m, s)
    BY <1>3, <1>4 DEF R!NI!New, NiSet, empty
  <1> QED
    BY <1>4, <1>5 DEF R!NewInterface, InterfaceSet

\* The invariant holds initially.
LEMMA InitInv == Init => Inv
  <1> SUFFICES ASSUME Init PROVE Inv
    OBVIOUS
  <1>1. sent = <<>> /\ got = <<>>
    BY DEF Init
  <1>2. ASSUME NEW h \in Host
        PROVE  host[h] \in InterfaceSet(Port(h, 1), sent) /\ Port(h, 1) \in Mac
    BY HostIsMac, NewInterfaceType DEF Init
  <1>3. DOMAIN host = Host /\ DOMAIN router = Routers
    BY DEF Init
  <1>4. ASSUME NEW r \in Routers
        PROVE  router[r] \in RouterSet(r, sent)
    <2> DEFINE ports == [i \in DOMAIN RouterIps[r] |->
                            R!NewInterface(Port(r, i), RouterIps[r][i])]
    <2>1. router[r] = [interfaces |-> ports, routing_table |-> <<>>]
      BY DEF Init, R!New
    <2>2. ASSUME NEW i \in DOMAIN RouterIps[r]
          PROVE  ports[i] \in InterfaceSet(Port(r, i), sent)
      BY PortIsMac, NewInterfaceType
    <2>3. \A i \in DOMAIN RouterIps[r] : ports[i] \in PortSet(r, sent)
      BY <2>2 DEF PortSet
    <2>4. ports \in [DOMAIN RouterIps[r] -> PortSet(r, sent)]
      BY <2>3
    <2>5. ports \in PortsOf(r, sent)
      BY <2>2, <2>4 DEF PortsOf
    <2>6. <<>> \in Seq(Routes[r])
      OBVIOUS
    <2> HIDE DEF ports
    <2> QED
      BY <2>1, <2>5, <2>6 DEF RouterSet
  <1>5. /\ sent \in Seq([dst : Addr, ttl : 0..255]) /\ got \in Seq([dgram : Alive(sent), by : Host])
        /\ DOMAIN got = {}
    BY <1>1
  <1> QED
    BY <1>2, <1>3, <1>4, <1>5 DEF Inv, Sound

\* AddRoute
LEMMA AddRouteInv ==
    ASSUME Inv, NEW r \in Routers, AddRoute(r)
    PROVE  Inv'
  <1>1. PICK e \in Routes[r] : router' = [router EXCEPT ![r] = R!add_route(router[r], e)]
    BY DEF AddRoute
  <1>2. router[r] \in RouterSet(r, sent) /\ DOMAIN router = Routers
    BY DEF Inv, Sound
  <1> DEFINE x == R!add_route(router[r], e)
  <1>3. x \in RouterSet(r, sent)
    <2>1. Append(router[r].routing_table, e) \in Seq(Routes[r])
      BY <1>2 DEF RouterSet
    <2> QED
      BY <1>2, <2>1 DEF RouterSet, R!add_route
  <1> HIDE DEF x
  <1>4. DOMAIN router' = Routers /\ \A q \in Routers : router'[q] \in RouterSet(q, sent)
    BY <1>1, <1>2, <1>3 DEF Inv, Sound, x
  <1> QED
    BY <1>4 DEF AddRoute, Inv, Sound

\* A ttl is a number of one byte.
LEMMA SentTtl ==
    ASSUME Inv, NEW k \in 1..Len(sent)
    PROVE  sent[k].ttl \in 0..255
  <1>1. sent \in Seq([dst : Addr, ttl : 0..255])
    BY DEF Inv, Sound
  <1>2. sent[k] \in [dst : Addr, ttl : 0..255]
    BY <1>1, ElementOfSeq
  <1> QED
    BY <1>2

\* Route
LEMMA RouteInv ==
    ASSUME Inv, NEW r \in Routers, Route(r)
    PROVE  Inv'
  <1> DEFINE x == R!route(router[r])
  <1>1. router' = [router EXCEPT ![r] = x]
    BY DEF Route
  <1>2. router[r] \in RouterSet(r, sent) /\ DOMAIN router = Routers
    BY DEF Inv, Sound
  <1>3. ByteTtl(sent)
    BY SentTtl DEF ByteTtl
  <1>4. x \in RouterSet(r, sent)
    BY <1>2, <1>3, RouteKeeps
  <1> HIDE DEF x
  <1>5. DOMAIN router' = Routers /\ \A q \in Routers : router'[q] \in RouterSet(q, sent)
    BY <1>1, <1>2, <1>4 DEF Inv, Sound
  <1> QED
    BY <1>5 DEF Route, Inv, Sound

\* SendTo: a new datagram has the ttl it was sent with, and a number of its own.
LEMMA SendToSends ==
    ASSUME Inv, NEW t \in Traffic, SendTo(t)
    PROVE  /\ t.src \in Host /\ router' = router /\ got' = got
           /\ sent' \in Seq([dst : Addr, ttl : 0..255])
           /\ Alive(sent) \subseteq Alive(sent') /\ \A a : For(a, sent) \subseteq For(a, sent')
           /\ \A m \in Mac : InterfaceSet(m, sent) \subseteq InterfaceSet(m, sent')
           /\ \A r \in Routers : RouterSet(r, sent) \subseteq RouterSet(r, sent')
           /\ \E ip \in Addr : \E d \in From(Port(t.src, 1), ip, sent') :
                  /\ d.id = Len(sent) + 1
                  /\ host' = [host EXCEPT ![t.src] = R!send_datagram(host[t.src], d, ip)]
  <1> DEFINE E == [dst : Addr, ttl : 0..255]
             e == [dst |-> t.dst, ttl |-> t.ttl]
             d == R!Datagram(Len(sent) + 1, t.dst, t.ttl)
             ip == Gateway[t.src]
             x == R!send_datagram(host[t.src], d, ip)
             z == sent'
  <1>1. t \in [src : Host, dst : Addr, ttl : 0..255] /\ sent \in Seq(E)
    BY NetworkAssumption DEF Inv, Sound
  <1>2. /\ e \in E /\ z = Append(sent, e) /\ host' = [host EXCEPT ![t.src] = x]
        /\ router' = router /\ got' = got
    BY <1>1 DEF SendTo
  <1>3. t.src \in Host /\ ip \in Addr /\ ip \in NextHops
    BY <1>1, NetworkAssumption DEF NextHops
  <1>4. Len(sent) \in Nat /\ Len(z) = Len(sent) + 1 /\ z[Len(sent) + 1] = e /\ z \in Seq(E)
    BY <1>1, <1>2, AppendProperties, LenProperties
  <1>5. d \in From(Port(t.src, 1), ip, z) /\ d.id = Len(sent) + 1
    <2>1. d.id = Len(sent) + 1 /\ d.dst = t.dst /\ d.ttl = t.ttl
          /\ d = [id |-> d.id, dst |-> d.dst, ttl |-> d.ttl]
      BY DEF R!Datagram
    <2>2. d.id \in 1..Len(z) /\ d.ttl \in Nat /\ d.dst \in Addr /\ z[d.id].ttl = t.ttl
          /\ d.ttl = t.ttl
      <3>1. t.dst \in Addr /\ t.ttl \in Nat /\ e.ttl = t.ttl
        <4>1. t.dst \in Addr /\ t.ttl \in 0..255 /\ e.ttl = t.ttl
          BY <1>1
        <4> HIDE DEF e
        <4> QED
          BY <4>1
      <3> HIDE DEF d, e
      <3> QED
        BY <1>4, <2>1, <3>1
    <2> HIDE DEF d
    <2>3. d \in [id : 1..Len(z), dst : Addr, ttl : Nat]
      BY <2>1, <2>2
    <2>4. Port(t.src, 1).node \notin Routers
      BY <1>3, NetworkAssumption DEF Port
    <2> QED
      BY <1>3, <2>1, <2>2, <2>3, <2>4 DEF For, Alive, From
  <1> HIDE DEF E, e, d, ip, z
  <1>6. /\ Alive(sent) \subseteq Alive(z) /\ \A a : For(a, sent) \subseteq For(a, z)
        /\ \A m \in Mac : InterfaceSet(m, sent) \subseteq InterfaceSet(m, z)
        /\ \A r \in Routers : RouterSet(r, sent) \subseteq RouterSet(r, z)
    BY <1>1, <1>2, Monotone
  <1> QED
    BY <1>2, <1>3, <1>4, <1>5, <1>6 DEF z, E

\* It is sent soundly.
LEMMA SendToInv ==
    ASSUME Inv, NEW t \in Traffic, SendTo(t)
    PROVE  Inv'
  <1> DEFINE z == sent'
  <1>1. PICK ip \in Addr : \E d \in From(Port(t.src, 1), ip, z) :
            host' = [host EXCEPT ![t.src] = R!send_datagram(host[t.src], d, ip)]
    BY SendToSends
  <1>2. PICK d \in From(Port(t.src, 1), ip, z) :
            host' = [host EXCEPT ![t.src] = R!send_datagram(host[t.src], d, ip)]
    BY <1>1
  <1>3. /\ t.src \in Host /\ router' = router /\ got' = got
        /\ z \in Seq([dst : Addr, ttl : 0..255])
    BY SendToSends
  <1>4. /\ Alive(sent) \subseteq Alive(z) /\ \A a : For(a, sent) \subseteq For(a, z)
        /\ \A m \in Mac : InterfaceSet(m, sent) \subseteq InterfaceSet(m, z)
        /\ \A r \in Routers : RouterSet(r, sent) \subseteq RouterSet(r, z)
    BY SendToSends
  <1> HIDE DEF z
  <1> DEFINE x == R!send_datagram(host[t.src], d, ip)
  <1>5. \A h \in Host : host[h] \in InterfaceSet(Port(h, 1), z)
    BY <1>4, HostIsMac DEF Inv, Sound
  <1>6. x \in InterfaceSet(Port(t.src, 1), z)
    BY <1>2, <1>3, <1>5, HostIsMac, InterfaceSendKeeps
  <1>7. host' = [host EXCEPT ![t.src] = x]
    BY <1>2
  <1> HIDE DEF x
  <1>8. DOMAIN host' = Host /\ \A h \in Host : host'[h] \in InterfaceSet(Port(h, 1), z)
    BY <1>3, <1>5, <1>6, <1>7 DEF Inv, Sound
  <1>9. DOMAIN router' = Routers /\ \A r \in Routers : router'[r] \in RouterSet(r, z)
    BY <1>3, <1>4 DEF Inv, Sound
  <1>10. got' \in Seq([dgram : Alive(z), by : Host])
         /\ \A i \in DOMAIN got' : got'[i].dgram \in For(HostIp[got'[i].by], z)
    <2> DEFINE S == [dgram : Alive(sent), by : Host]
               T == [dgram : Alive(z), by : Host]
    <2>1. S \subseteq T
      BY <1>4
    <2>2. got \in Seq(S) /\ \A i \in DOMAIN got : got[i].dgram \in For(HostIp[got[i].by], sent)
      BY DEF Inv, Sound
    <2> HIDE DEF S, T
    <2>3. got \in Seq(T)
      BY <2>1, <2>2
    <2> QED
      BY <1>3, <1>4, <2>2, <2>3 DEF T
  <1> QED
    BY <1>3, <1>8, <1>9, <1>10 DEF Inv, Sound, z

\* Check: a host takes what its interface has queued.
LEMMA CheckInv ==
    ASSUME Inv, NEW h \in Host, Check(h)
    PROVE  Inv'
  <1> DEFINE queue == host[h].datagrams_out
             T == [dgram : Alive(sent), by : Host]
             new == [i \in DOMAIN queue |-> [dgram |-> queue[i], by |-> h]]
             x == [host[h] EXCEPT !.datagrams_out = <<>>]
  <1>1. host[h] \in InterfaceSet(Port(h, 1), sent) /\ DOMAIN host = Host
    BY DEF Inv, Sound
  <1>2. queue \in Seq(For(HostIp[h], sent))
    BY <1>1, HostIsMac DEF InterfaceSet
  <1>3. Len(queue) \in Nat /\ DOMAIN queue = 1..Len(queue)
        /\ \A i \in 1..Len(queue) : queue[i] \in For(HostIp[h], sent)
    BY <1>2, LenProperties, ElementOfSeq
  <1>4. host' = [host EXCEPT ![h] = x] /\ got' = got \o new /\ router' = router /\ sent' = sent
    BY DEF Check
  <1>5. x \in InterfaceSet(Port(h, 1), sent)
    <2>1. <<>> \in Seq(For(IpOf[Port(h, 1)], sent))
      OBVIOUS
    <2> QED
      BY <1>1, <2>1 DEF InterfaceSet
  <1> HIDE DEF queue
  <1>6. new \in Seq(T) /\ Len(new) = Len(queue)
        /\ \A i \in 1..Len(new) : new[i].by = h /\ new[i].dgram = queue[i]
    <2>1. new \in [1..Len(queue) -> T]
      BY <1>3 DEF For
    <2>2. new \in Seq(T) /\ Len(new) = Len(queue)
      BY <1>3, <2>1
    <2> QED
      BY <1>3, <2>2
  <1> HIDE DEF new, x
  <1>7. got \in Seq(T) /\ Len(got) \in Nat /\ DOMAIN got = 1..Len(got)
        /\ \A i \in 1..Len(got) : got[i].dgram \in For(HostIp[got[i].by], sent)
    BY LenProperties DEF Inv, Sound
  <1>8. Len(new) \in Nat
    BY <1>6, LenProperties
  <1>9. got' \in Seq(T) /\ Len(got') = Len(got) + Len(new) /\ DOMAIN got' = 1..Len(got) + Len(new)
        /\ \A i \in 1..Len(got) + Len(new) :
               got'[i] = IF i <= Len(got) THEN got[i] ELSE new[i - Len(got)]
    <2> HIDE DEF T
    <2>1. got' \in Seq(T) /\ Len(got') = Len(got) + Len(new)
      BY <1>4, <1>6, <1>7, ConcatProperties
    <2>2. DOMAIN got' = 1..Len(got) + Len(new)
      BY <2>1, LenProperties
    <2>3. \A i \in 1..Len(got) + Len(new) :
             got'[i] = IF i <= Len(got) THEN got[i] ELSE new[i - Len(got)]
      BY <1>4, <1>6, <1>7, ConcatProperties
    <2> QED
      BY <2>1, <2>2, <2>3
  <1>10. ASSUME NEW i \in DOMAIN got'
         PROVE  got'[i].dgram \in For(HostIp[got'[i].by], sent)
    <2>1. CASE i <= Len(got)
      BY <1>7, <1>9, <2>1
    <2>2. CASE ~(i <= Len(got))
      <3>1. i - Len(got) \in 1..Len(new) /\ got'[i] = new[i - Len(got)]
        BY <1>7, <1>8, <1>9, <2>2
      <3> QED
        BY <1>3, <1>6, <3>1
    <2> QED
      BY <2>1, <2>2
  <1>11. DOMAIN host' = Host /\ \A g \in Host : host'[g] \in InterfaceSet(Port(g, 1), sent)
    BY <1>1, <1>4, <1>5 DEF Inv, Sound
  <1> QED
    BY <1>4, <1>9, <1>10, <1>11 DEF Inv, Sound

\* Exchange
LEMMA ExchangeInv ==
    ASSUME Inv, NEW link \in Link, Exchange(link)
    PROVE  Inv'
  <1> DEFINE On(p) == p \in ToSet(link)
  <1>1. /\ host' = [h \in Host |->
                       IF On(Port(h, 1)) THEN Exchanged(Port(h, 1), link) ELSE host[h]]
        /\ router' = [r \in Routers |-> [router[r] EXCEPT !.interfaces =
                         [i \in DOMAIN router[r].interfaces |->
                             IF On(Port(r, i)) THEN Exchanged(Port(r, i), link)
                             ELSE router[r].interfaces[i]]]]
        /\ sent' = sent /\ got' = got
    BY DEF Exchange
  <1> HIDE DEF On
  <1>2. DOMAIN host' = Host /\ \A h \in Host : host'[h] \in InterfaceSet(Port(h, 1), sent)
    <2>1. ASSUME NEW h \in Host
          PROVE  host'[h] \in InterfaceSet(Port(h, 1), sent)
      <3>1. Exchanged(Port(h, 1), link) \in InterfaceSet(Port(h, 1), sent)
        BY HostIsMac, ExchangedKeeps
      <3> QED
        BY <1>1, <3>1 DEF Inv, Sound
    <2> QED
      BY <1>1, <2>1
  <1>3. ASSUME NEW r \in Routers
        PROVE  router'[r] \in RouterSet(r, sent)
    <2> DEFINE old == router[r].interfaces
               new == [i \in DOMAIN old |->
                         IF On(Port(r, i)) THEN Exchanged(Port(r, i), link) ELSE old[i]]
    <2>1. router[r] \in RouterSet(r, sent)
      BY DEF Inv, Sound
    <2>2. old \in PortsOf(r, sent) /\ DOMAIN old = DOMAIN RouterIps[r]
      BY <2>1 DEF RouterSet, PortsOf
    <2>3. router'[r] = [router[r] EXCEPT !.interfaces = new]
      BY <1>1
    <2>4. ASSUME NEW i \in DOMAIN RouterIps[r]
          PROVE  new[i] \in InterfaceSet(Port(r, i), sent)
      <3>1. Exchanged(Port(r, i), link) \in InterfaceSet(Port(r, i), sent)
        BY PortIsMac, ExchangedKeeps
      <3>2. old[i] \in InterfaceSet(Port(r, i), sent)
        BY <2>2 DEF PortsOf
      <3> QED
        BY <2>2, <3>1, <3>2
    <2>5. \A i \in DOMAIN RouterIps[r] : new[i] \in PortSet(r, sent)
      BY <2>4 DEF PortSet
    <2>6. new \in [DOMAIN RouterIps[r] -> PortSet(r, sent)]
      BY <2>2, <2>5
    <2> HIDE DEF new
    <2>7. new \in PortsOf(r, sent)
      BY <2>4, <2>6 DEF PortsOf
    <2> QED
      BY <2>1, <2>3, <2>7 DEF RouterSet
  <1>4. DOMAIN router' = Routers
    BY <1>1
  <1> QED
    BY <1>1, <1>2, <1>3, <1>4 DEF Inv, Sound

\* Every step preserves the invariant.
LEMMA NextInv == Inv /\ [Next]_vars => Inv'
  <1> SUFFICES ASSUME Inv, [Next]_vars PROVE Inv'
    OBVIOUS
  <1>1. CASE Next
    BY <1>1, AddRouteInv, RouteInv, SendToInv, CheckInv, ExchangeInv DEF Next
  <1>2. CASE UNCHANGED vars
    BY <1>2 DEF vars, Inv, Sound
  <1> QED
    BY <1>1, <1>2

\* The invariant holds.
LEMMA InvHolds == Spec => []Inv
  BY InitInv, NextInv, PTL DEF Spec

\* In a table of routes match_num finds a longest entry.
LEMMA TableSearched ==
    ASSUME ProperRoutes, NEW r \in Routers, NEW table \in Seq(Routes[r]), NEW dst \in Addr
    PROVE  FindsLongest(table, dst)
  <1> DEFINE fitting == {i \in DOMAIN table : IsFor(table[i], dst)}
             m == R!match_num(table, dst)
  <1>1. Len(table) \in Nat /\ DOMAIN table = 1..Len(table)
        /\ \A i \in 1..Len(table) : table[i] \in Routes[r]
    BY LenProperties, ElementOfSeq
  <1>2. \A a \in Addr : a \in Nat
    <2>1. R!Block[AddrBits] \in Nat \ {0}
      BY BlockPositive, NetworkAssumption
    <2> QED
      BY <2>1 DEF Addr
  <1>3. ASSUME NEW i \in 1..Len(table)
        PROVE  /\ table[i].prefix_length \in 0..AddrBits /\ table[i].prefix_length \in Nat
               /\ table[i].route_prefix \in Nat
    <2>1. table[i] \in [route_prefix : Addr, prefix_length : 0..AddrBits,
                        next_hop : Addr \union {R!Direct}, interface_num : DOMAIN RouterIps[r]]
      BY <1>1, NetworkAssumption
    <2>2. table[i].prefix_length \in 0..AddrBits /\ table[i].route_prefix \in Addr
      BY <2>1
    <2> QED
      BY <1>2, <2>2, NetworkAssumption
  <1>4. \A i \in 1..Len(table) : R!Matches(table[i], dst) <=> IsFor(table[i], dst)
    BY <1>1, <1>2, <1>3, MatchesIsFor DEF ProperRoutes
  <1>5. Found(m, Len(table), table, dst)
    BY <1>1, <1>3, MatchFound
  <1>6. FindsLongest(table, dst) <=>
            IF fitting = {} THEN m = 0
            ELSE m \in fitting /\ \A i \in fitting : table[i].prefix_length <= table[m].prefix_length
    BY DEF FindsLongest
  <1> HIDE DEF m
  <1>7. CASE m = 0
    <2>1. fitting = {}
      BY <1>1, <1>4, <1>5, <1>7 DEF Found
    <2> QED
      BY <1>6, <1>7, <2>1
  <1>8. CASE m # 0
    <2>1. m \in fitting
      BY <1>1, <1>4, <1>5, <1>8 DEF Found
    <2>2. \A i \in fitting : table[i].prefix_length <= table[m].prefix_length
      BY <1>1, <1>4, <1>5, <1>8 DEF Found
    <2> HIDE DEF fitting
    <2> QED
      BY <1>6, <2>1, <2>2
  <1> QED
    BY <1>7, <1>8

\* route_one_datagram, whatever proper routes were added and in whatever order, picks a
\* longest entry for the destination, and drops the datagram only if there is none.
THEOREM PicksLongest == ProperRoutes => (Spec => []LongestPrefix)
  <1> SUFFICES ASSUME ProperRoutes PROVE Spec => []LongestPrefix
    OBVIOUS
  <1>1. Inv => LongestPrefix
    <2>1. Inv => \A r \in Routers : router[r].routing_table \in Seq(Routes[r])
      BY DEF Inv, Sound, RouterSet
    <2> QED
      BY <2>1, TableSearched DEF LongestPrefix
  <1> QED
    BY <1>1, InvHolds, PTL

\* Whatever ttl datagrams are sent with, zero included: no datagram anywhere has a ttl
\* above that, or of zero unless it was sent so; and what a router has put into a frame
\* or holds has a ttl of at least one and less than that.
THEOREM DatagramsAlive == Spec => []NeverSpent
  <1>1. ASSUME Inv
        PROVE  NeverSpent
    <2> SUFFICES ASSUME NEW p \in Mac
                 PROVE  LivesIn(p)
      BY DEF NeverSpent
    <2> DEFINE i == Interface(p)
    <2>1. i \in InterfaceSet(p, sent)
      BY <1>1, InterfaceType
    <2> HIDE DEF i
    <2>2. /\ i.datagrams_out \in Seq(For(IpOf[p], sent)) /\ i.ni.frames_out \in Seq(FrameSet(sent))
          /\ i.ni.Queuing_List_Map \in ListSet(p, sent)
      BY <2>1 DEF InterfaceSet, NiSet
    <2>3. ToSet(i.datagrams_out) \subseteq Alive(sent)
      BY <2>2, LenProperties, ElementOfSeq DEF ToSet, For
    <2>4. ToSet(i.ni.frames_out) \subseteq FrameSet(sent)
      BY <2>2, LenProperties, ElementOfSeq DEF ToSet
    <2>5. \A f \in Framing(i) :
             f.dgram \in Alive(sent) /\ (f.src.node \in Routers => Aging(f.dgram))
      BY <2>4 DEF Framing, FrameSet, DataFrames, ArpFrames, From, For, Aging
    <2>6. \A d \in Holding(i) : d \in Alive(sent) /\ (p.node \in Routers => Aging(d))
      <3>1. ASSUME NEW ip \in DOMAIN i.ni.Queuing_List_Map
            PROVE  ToSet(i.ni.Queuing_List_Map[ip].queuing_datagrams) \subseteq From(p, ip, sent)
        <4>1. i.ni.Queuing_List_Map[ip].queuing_datagrams \in Seq(From(p, ip, sent))
          BY <2>2 DEF ListSet
        <4> QED
          BY <4>1, LenProperties, ElementOfSeq DEF ToSet
      <3> QED
        BY <3>1 DEF Holding, From, For, Aging
    <2>7. \A d \in Alive(sent) : Living(d)
      BY DEF Alive, Living
    <2>8. \A d \in Moving(i) \union Holding(i) : d \in Alive(sent)
      BY <2>3, <2>5, <2>6 DEF Moving
    <2> QED
      BY <2>5, <2>6, <2>7, <2>8 DEF LivesIn, i
  <1> QED
    BY <1>1, InvHolds, PTL

\* A host takes datagrams for its own address only, unless others use it as a next hop:
\* ARP caches hold no mapping that is not true, and a list of held datagrams is sent to
\* the host it was kept for.
THEOREM HandedToRightHost == Spec => []RightHost
  <1>1. Inv => RightHost
    BY DEF Inv, Sound, RightHost, For
  <1> QED
    BY <1>1, InvHolds, PTL

-----------------------------------------------------------------------------
\* Copies.  The interface x holds the datagram d in its queue, in a frame (of those
\* after the first m) or in a list.

\* The places in a queue, or list, in frames and in the lists of all addresses.
At(queue, d) == {k \in DOMAIN queue : queue[k].id = d}
Framed(frames, m, d) ==
    {k \in DOMAIN frames : k > m /\ frames[k].type = "IPv4" /\ frames[k].dgram.id = d}
Held(map, ip, d) == At(map[ip].queuing_datagrams, d)

\* At most one place, and at most one of two kinds of places.
One(S) == \A a, b \in S : a = b
Either(S, T) == S = {} \/ T = {}

\* No list, and at most one place of all lists, holds d.
ListsNone(map, d) == \A ip \in DOMAIN map : Held(map, ip, d) = {}
ListsOne(map, d) ==
    \A ip, jp \in DOMAIN map :
        One(Held(map, ip, d)) /\ (ip # jp => Either(Held(map, ip, d), Held(map, jp, d)))

\* The same for a NetworkInterface ...
NiNone(n, m, d) == Framed(n.frames_out, m, d) = {} /\ ListsNone(n.Queuing_List_Map, d)
NiOne(n, m, d) ==
    /\ One(Framed(n.frames_out, m, d)) /\ ListsOne(n.Queuing_List_Map, d)
    /\ Framed(n.frames_out, m, d) = {} \/ ListsNone(n.Queuing_List_Map, d)

\* ... and for an AsyncNetworkInterface.
None(x, m, d) == At(x.datagrams_out, d) = {} /\ NiNone(x.ni, m, d)
Single(x, m, d) ==
    /\ One(At(x.datagrams_out, d)) /\ NiOne(x.ni, m, d)
    /\ At(x.datagrams_out, d) = {} \/ NiNone(x.ni, m, d)

\* No copy is at most one copy.
LEMMA NoneSingle ==
    ASSUME NEW x, NEW m, NEW d, None(x, m, d)
    PROVE  Single(x, m, d)
  BY DEF None, Single, NiNone, NiOne, ListsNone, ListsOne, One, Either

\* A datagram is queued.
LEMMA QueueOne ==
    ASSUME NEW T, NEW queue \in Seq(T), NEW e \in T, NEW d
    PROVE  /\ e.id # d => At(Append(queue, e), d) = At(queue, d)
           /\ At(queue, d) = {} => One(At(Append(queue, e), d))
  <1> DEFINE new == Append(queue, e)
  <1>1. /\ Len(queue) \in Nat /\ DOMAIN queue = 1..Len(queue) /\ DOMAIN new = 1..Len(queue) + 1
        /\ new[Len(queue) + 1] = e /\ \A k \in 1..Len(queue) : new[k] = queue[k]
    BY AppendProperties, LenProperties
  <1> HIDE DEF new
  <1>2. ASSUME e.id # d PROVE At(new, d) = At(queue, d)
    BY <1>1, <1>2 DEF At
  <1>3. ASSUME At(queue, d) = {} PROVE One(At(new, d))
    <2>1. \A k \in At(new, d) : k = Len(queue) + 1
      BY <1>1, <1>3 DEF At
    <2> QED
      BY <2>1 DEF One
  <1> QED
    BY <1>2, <1>3 DEF new

\* A frame is queued.
LEMMA FrameOne ==
    ASSUME NEW T, NEW frames \in Seq(T), NEW e \in T, NEW m, NEW d
    PROVE  /\ e.type # "IPv4" \/ e.dgram.id # d
                 => Framed(Append(frames, e), m, d) = Framed(frames, m, d)
           /\ Framed(frames, m, d) = {} => One(Framed(Append(frames, e), m, d))
  <1> DEFINE new == Append(frames, e)
  <1>1. /\ Len(frames) \in Nat /\ DOMAIN frames = 1..Len(frames) /\ DOMAIN new = 1..Len(frames) + 1
        /\ new[Len(frames) + 1] = e /\ \A k \in 1..Len(frames) : new[k] = frames[k]
    BY AppendProperties, LenProperties
  <1> HIDE DEF new
  <1>2. ASSUME e.type # "IPv4" \/ e.dgram.id # d
        PROVE  Framed(new, m, d) = Framed(frames, m, d)
    BY <1>1, <1>2 DEF Framed
  <1>3. ASSUME Framed(frames, m, d) = {} PROVE One(Framed(new, m, d))
    <2>1. \A k \in Framed(new, m, d) : k = Len(frames) + 1
      BY <1>1, <1>3 DEF Framed
    <2> QED
      BY <2>1 DEF One
  <1> QED
    BY <1>2, <1>3 DEF new

\* The datagrams of a list are queued in frames.
LEMMA FramesOne ==
    ASSUME NEW T, NEW U, NEW frames \in Seq(T), NEW held \in Seq(U), NEW out \in Seq(T),
           Len(out) = Len(held), NEW m, NEW d,
           \A k \in 1..Len(held) : out[k].dgram = held[k]
    PROVE  /\ At(held, d) = {} => Framed(frames \o out, m, d) = Framed(frames, m, d)
           /\ Framed(frames, m, d) = {} /\ One(At(held, d)) => One(Framed(frames \o out, m, d))
  <1> DEFINE new == frames \o out
             n == Len(frames)
  <1>1. /\ n \in Nat /\ DOMAIN frames = 1..n /\ Len(held) \in Nat /\ DOMAIN held = 1..Len(held)
        /\ DOMAIN new = 1..n + Len(held)
        /\ \A k \in 1..n : new[k] = frames[k]
        /\ \A k \in (n + 1)..(n + Len(held)) : k - n \in 1..Len(held) /\ new[k] = out[k - n]
    <2>1. n \in Nat /\ DOMAIN frames = 1..n /\ Len(held) \in Nat /\ DOMAIN held = 1..Len(held)
      BY LenProperties
    <2>2. new \in Seq(T) /\ Len(new) = n + Len(out)
      BY ConcatProperties
    <2>3. \A k \in 1..n + Len(out) : new[k] = IF k <= n THEN frames[k] ELSE out[k - n]
      BY ConcatProperties
    <2>4. DOMAIN new = 1..n + Len(held)
      BY <2>2, LenProperties
    <2> HIDE DEF new, n
    <2>5. \A k \in 1..n : k \in 1..n + Len(held) /\ k <= n
      BY <2>1
    <2>6. \A k \in (n + 1)..(n + Len(held)) :
              k \in 1..n + Len(held) /\ ~(k <= n) /\ k - n \in 1..Len(held)
      BY <2>1
    <2> QED
      BY <2>1, <2>3, <2>4, <2>5, <2>6
  <1> HIDE DEF new, n
  <1>2. \A k \in Framed(new, m, d) : k > n => k - n \in At(held, d)
    BY <1>1 DEF Framed, At
  <1>3. \A k \in DOMAIN new : k <= n => (k \in Framed(new, m, d) <=> k \in Framed(frames, m, d))
    BY <1>1 DEF Framed
  <1>4. Framed(new, m, d) \subseteq DOMAIN new /\ Framed(frames, m, d) \subseteq 1..n
    BY <1>1 DEF Framed
  <1>5. ASSUME At(held, d) = {} PROVE Framed(new, m, d) = Framed(frames, m, d)
    <2>1. \A k \in Framed(new, m, d) : k <= n
      BY <1>1, <1>2, <1>4, <1>5
    <2>2. Framed(new, m, d) \subseteq Framed(frames, m, d)
      BY <1>3, <1>4, <2>1
    <2>3. \A k \in 1..n : k \in DOMAIN new /\ k <= n
      BY <1>1
    <2> QED
      BY <1>3, <1>4, <2>2, <2>3
  <1>6. ASSUME Framed(frames, m, d) = {}, One(At(held, d)) PROVE One(Framed(new, m, d))
    <2>1. \A k \in Framed(new, m, d) : k > n /\ k \in Nat
      BY <1>1, <1>3, <1>4, <1>6
    <2>2. \A j, k \in Framed(new, m, d) : j - n = k - n
      BY <1>2, <1>6, <2>1 DEF One
    <2>3. \A j, k \in Framed(new, m, d) : j = k
      BY <1>1, <2>1, <2>2
    <2> QED
      BY <2>3 DEF One
  <1> QED
    BY <1>5, <1>6 DEF new

\* A call that makes no copy of d, and one that makes at most one.
NiKeeps(n, x, m, d) == (NiNone(n, m, d) => NiNone(x, m, d)) /\ (NiOne(n, m, d) => NiOne(x, m, d))
NiAdds(n, x, m, d) == NiNone(n, m, d) => NiOne(x, m, d)

\* The first is also the second.
LEMMA KeepsAdds ==
    ASSUME NEW n, NEW x, NEW m, NEW d, NiKeeps(n, x, m, d)
    PROVE  NiAdds(n, x, m, d)
  BY DEF NiKeeps, NiAdds, NiNone, NiOne, ListsNone, ListsOne, One, Either

\* send_ARP makes no copy of a datagram.
LEMMA ArpCopies ==
    ASSUME NEW s, NEW p \in Mac, NEW n \in NiSet(p, s), NEW mac, NEW opcode, NEW ip, NEW m, NEW d
    PROVE  NiKeeps(n, R!NI!send_ARP(n, opcode, mac, ip), m, d)
  <1> DEFINE f == R!NI!ArpFrame(n.ethernet_address, mac, opcode, n.ip_address, ip)
             frames == n.frames_out
             x == [n EXCEPT !.frames_out = Append(frames, f)]
             T == FrameSet(s) \union {f}
  <1>1. R!NI!send_ARP(n, opcode, mac, ip) = x
    BY DEF R!NI!send_ARP
  <1>2. f.type = "ARP"
    BY DEF R!NI!ArpFrame
  <1>3. x.frames_out = Append(frames, f) /\ x.Queuing_List_Map = n.Queuing_List_Map
    BY DEF NiSet
  <1>4. frames \in Seq(T)
    <2>1. frames \in Seq(FrameSet(s))
      BY NiMembers
    <2> HIDE DEF f, frames
    <2> QED
      BY <2>1
  <1> HIDE DEF f, x
  <1>5. f \in T
    OBVIOUS
  <1> HIDE DEF T, frames
  <1>6. Framed(Append(frames, f), m, d) = Framed(frames, m, d)
    BY <1>2, <1>4, <1>5, FrameOne
  <1> QED
    BY <1>1, <1>3, <1>6 DEF NiKeeps, NiNone, NiOne, frames

\* send_datagram makes one copy of the datagram: a frame, or a list of its own.
LEMMA SendCopies ==
    ASSUME NEW s, NEW p \in Mac, NEW n \in NiSet(p, s), NEW ip \in Addr, NEW e \in For(ip, s),
           NEW m, NEW d
    PROVE  /\ e.id # d => NiKeeps(n, R!NI!send_datagram(n, e, ip), m, d)
           /\ NiAdds(n, R!NI!send_datagram(n, e, ip), m, d)
  <1> DEFINE frames == n.frames_out
             map == n.Queuing_List_Map
             x == R!NI!send_datagram(n, e, ip)
  <1>1. frames \in Seq(FrameSet(s)) /\ map \in Maps(List(s)) /\ n.ethernet_address = p
    BY NiMembers DEF ListSet
  <1>2. CASE ip \in DOMAIN n.cache
    <2> DEFINE f == R!NI!Ipv4Frame(p, n.cache[ip].MAC_address, e)
               T == FrameSet(s) \union {f}
    <2>1. x = [n EXCEPT !.frames_out = Append(frames, f)]
      BY <1>1, <1>2 DEF R!NI!send_datagram, R!NI!send_datagram_handler
    <2>2. f.dgram = e
      BY DEF R!NI!Ipv4Frame
    <2> HIDE DEF f, x
    <2>3. x.frames_out = Append(frames, f) /\ x.Queuing_List_Map = map
      BY <2>1 DEF NiSet
    <2> HIDE DEF frames, map
    <2>4. frames \in Seq(T) /\ f \in T
      BY <1>1
    <2> HIDE DEF T
    <2>5. /\ e.id # d => Framed(Append(frames, f), m, d) = Framed(frames, m, d)
          /\ Framed(frames, m, d) = {} => One(Framed(Append(frames, f), m, d))
      BY <2>2, <2>4, FrameOne
    <2>6. e.id # d => NiKeeps(n, x, m, d)
      BY <2>3, <2>5 DEF NiKeeps, NiNone, NiOne, frames, map
    <2>7. NiAdds(n, x, m, d)
      BY <2>3, <2>5 DEF NiAdds, NiNone, NiOne, ListsNone, ListsOne, One, Either, frames, map
    <2> QED
      BY <2>6, <2>7 DEF x
  <1>3. CASE ip \notin DOMAIN n.cache /\ ip \in DOMAIN map
    <2>1. x = n \/ x = R!NI!send_ARP(n, "REQUEST", Broadcast, ip)
      BY <1>3 DEF R!NI!send_datagram, R!NI!RequestFor
    <2>2. NiKeeps(n, n, m, d)
      BY DEF NiKeeps
    <2> HIDE DEF x
    <2>3. NiKeeps(n, x, m, d)
      BY <2>1, <2>2, ArpCopies
    <2> QED
      BY <2>3, KeepsAdds DEF x
  <1>4. CASE ip \notin DOMAIN n.cache /\ ip \notin DOMAIN map
    <2> DEFINE list == [time_since_last_ARP_req |-> 0, queuing_datagrams |-> <<e>>]
               lists == R!NI!Put(map, ip, list)
               y == [n EXCEPT !.Queuing_List_Map = lists]
               f == R!NI!ArpFrame(n.ethernet_address, Broadcast, "REQUEST", n.ip_address, ip)
               T == FrameSet(s) \union {f}
    <2>1. x = R!NI!send_ARP(y, "REQUEST", Broadcast, ip)
      BY <1>4 DEF R!NI!send_datagram, R!NI!RequestFor
    <2>2. y.frames_out = frames /\ y.Queuing_List_Map = lists
      BY DEF NiSet
    <2>3. x.frames_out = Append(frames, f) /\ x.Queuing_List_Map = lists
      <3>1. y.ethernet_address = n.ethernet_address /\ y.ip_address = n.ip_address
            /\ x = [y EXCEPT !.frames_out = Append(frames, f)]
        BY <2>1, <2>2 DEF NiSet, R!NI!send_ARP
      <3>2. DOMAIN y = {"ethernet_address", "ip_address", "frames_out", "cache", "Queuing_List_Map"}
        BY DEF NiSet
      <3> HIDE DEF y, x, lists, f
      <3> QED
        BY <2>2, <3>1, <3>2
    <2>4. f.type = "ARP"
      BY DEF R!NI!ArpFrame
    <2> HIDE DEF f, y, x
    <2>5. list.queuing_datagrams = <<e>> /\ list \in List(s)
      BY DEF For, List
    <2> HIDE DEF list
    <2>6. IsPut(lists, map, ip, list, List(s))
      BY <1>1, <2>5, PutType
    <2> HIDE DEF lists
    <2>7. DOMAIN lists = DOMAIN map \union {ip} /\ \A k \in DOMAIN map : Held(lists, k, d) = Held(map, k, d)
      BY <1>4, <2>6 DEF IsPut, Held
    <2>8. Held(lists, ip, d) = At(<<e>>, d)
      BY <2>5, <2>6 DEF IsPut, Held
    <2>9. (e.id # d => At(<<e>>, d) = {}) /\ One(At(<<e>>, d))
      BY DEF At, One
    <2>10. Framed(Append(frames, f), m, d) = Framed(frames, m, d)
      <3>1. frames \in Seq(T) /\ f \in T
        <4> HIDE DEF frames
        <4> QED
          BY <1>1
      <3> HIDE DEF T, frames
      <3> QED
        BY <2>4, <3>1, FrameOne
    <2> HIDE DEF frames, map
    <2>11. ListsNone(map, d) => ListsOne(lists, d)
      BY <2>7, <2>8, <2>9 DEF ListsNone, ListsOne, Either, One
    <2>12. e.id # d => /\ ListsNone(map, d) => ListsNone(lists, d)
                       /\ ListsOne(map, d) => ListsOne(lists, d)
      BY <2>7, <2>8, <2>9 DEF ListsNone, ListsOne, Either
    <2>13. e.id # d => NiKeeps(n, x, m, d)
      BY <2>3, <2>10, <2>12 DEF NiKeeps, NiNone, NiOne, frames, map
    <2>14. NiAdds(n, x, m, d)
      BY <2>3, <2>10, <2>11 DEF NiAdds, NiNone, NiOne, One, frames, map
    <2> QED
      BY <2>13, <2>14 DEF x
  <1> QED
    BY <1>2, <1>3, <1>4

\* What makes no copy twice makes none.
LEMMA KeepsTrans ==
    ASSUME NEW n, NEW x, NEW y, NEW m, NEW d, NiKeeps(n, x, m, d), NiKeeps(x, y, m, d)
    PROVE  NiKeeps(n, y, m, d)
  BY DEF NiKeeps

\* Flush: the datagrams of a list are moved to frames, and the list is erased.
LEMMA FlushCopies ==
    ASSUME NEW s, NEW p \in Mac, NEW n \in NiSet(p, s), NEW ip, NEW mac, NEW m, NEW d
    PROVE  NiKeeps(n, R!NI!Flush(n, ip, mac), m, d)
  <1> DEFINE frames == n.frames_out
             map == n.Queuing_List_Map
             x == R!NI!Flush(n, ip, mac)
  <1>1. frames \in Seq(FrameSet(s)) /\ map \in Maps(List(s))
    BY NiMembers DEF ListSet
  <1>2. CASE ip \notin DOMAIN map
    BY <1>2 DEF R!NI!Flush, NiKeeps
  <1>3. CASE ip \in DOMAIN map
    <2> DEFINE held == map[ip].queuing_datagrams
               Frame(e) == R!NI!Ipv4Frame(n.ethernet_address, mac, e)
               out == [i \in DOMAIN held |-> Frame(held[i])]
               lists == R!NI!Erase(map, {ip})
               T == FrameSet(s) \union {Frame(e) : e \in Alive(s)}
    <2>1. x.frames_out = frames \o out /\ x.Queuing_List_Map = lists
      BY <1>3 DEF R!NI!Flush, NiSet
    <2>2. held \in Seq(Alive(s))
      BY <1>1, <1>3 DEF Maps, List
    <2>3. IsErased(lists, map, ip, List(s))
      BY <1>1, EraseType
    <2>4. \A e : Frame(e).dgram = e
      BY DEF R!NI!Ipv4Frame
    <2>5. At(held, d) = Held(map, ip, d)
      BY DEF Held
    <2> HIDE DEF held, lists, x, frames, Frame
    <2>6. Len(held) \in Nat /\ DOMAIN held = 1..Len(held) /\ \A i \in 1..Len(held) : held[i] \in Alive(s)
      BY <2>2, LenProperties, ElementOfSeq
    <2>7. out \in [1..Len(held) -> T]
      BY <2>6
    <2>8. \A k \in 1..Len(held) : out[k].dgram = held[k]
      BY <2>4, <2>6
    <2> HIDE DEF out
    <2>9. out \in Seq(T) /\ Len(out) = Len(held)
      <3> HIDE DEF T
      <3> QED
        BY <2>6, <2>7
    <2>10. frames \in Seq(T)
      BY <1>1
    <2> HIDE DEF T
    <2>11. /\ At(held, d) = {} => Framed(frames \o out, m, d) = Framed(frames, m, d)
           /\ Framed(frames, m, d) = {} /\ One(At(held, d)) => One(Framed(frames \o out, m, d))
      BY <2>2, <2>8, <2>9, <2>10, FramesOne
    <2>12. /\ DOMAIN lists = DOMAIN map \ {ip}
           /\ \A k \in DOMAIN lists : Held(lists, k, d) = Held(map, k, d)
      BY <2>3 DEF IsErased, Held
    <2> HIDE DEF map
    <2>13. ASSUME NiNone(n, m, d) PROVE NiNone(x, m, d)
      <3>1. Framed(frames, m, d) = {} /\ ListsNone(map, d)
        BY <2>13 DEF NiNone, frames, map
      <3>2. ListsNone(lists, d) /\ At(held, d) = {}
        BY <1>3, <2>5, <2>12, <3>1 DEF ListsNone
      <3> QED
        BY <2>1, <2>11, <3>1, <3>2 DEF NiNone
    <2>14. ASSUME NiOne(n, m, d) PROVE NiOne(x, m, d)
      <3>1. /\ One(Framed(frames, m, d)) /\ ListsOne(map, d)
            /\ Framed(frames, m, d) = {} \/ ListsNone(map, d)
        BY <2>14 DEF NiOne, frames, map
      <3>2. ListsOne(lists, d) /\ One(At(held, d)) /\ (ListsNone(map, d) => ListsNone(lists, d))
        BY <1>3, <2>5, <2>12, <3>1 DEF ListsOne, ListsNone
      <3>3. CASE At(held, d) = {}
        BY <2>1, <2>11, <3>1, <3>2, <3>3 DEF NiOne
      <3>4. CASE At(held, d) # {}
        <4>1. Framed(frames, m, d) = {} /\ ListsNone(lists, d)
          BY <1>3, <2>5, <2>12, <3>1, <3>4 DEF ListsOne, ListsNone, Either
        <4> QED
          BY <2>1, <2>11, <3>2, <4>1 DEF NiOne
      <3> QED
        BY <3>3, <3>4
    <2> QED
      BY <2>13, <2>14 DEF NiKeeps, x
  <1> QED
    BY <1>2, <1>3

\* recv_frame of NetworkInterface makes no copy.
LEMMA RecvCopies ==
    ASSUME NEW s, NEW p \in Mac, NEW n \in NiSet(p, s), NEW f \in FrameSet(s), NEW m, NEW d
    PROVE  NiKeeps(n, R!NI!recv_frame(n, f), m, d)
  <1>1. NiKeeps(n, n, m, d)
    BY DEF NiKeeps
  <1>2. CASE ~R!NI!ForUs(n, f) \/ f.type # "ARP"
    BY <1>1, <1>2 DEF R!NI!recv_frame
  <1>3. CASE R!NI!ForUs(n, f) /\ f.type = "ARP"
    <2> DEFINE ip == f.sender_ip
               mac == f.sender_mac
               learnt == R!NI!Learn(n, ip, mac)
               flushed == R!NI!Flush(learnt, ip, mac)
    <2>1. R!NI!recv_frame(n, f) = R!NI!Reply(flushed, f)
      BY <1>3 DEF R!NI!recv_frame
    <2>2. learnt \in NiSet(p, s) /\ flushed \in NiSet(p, s)
      <3>1. ip \in Addr /\ mac \in Mac /\ IpOf[mac] = ip
        BY <1>3 DEF FrameSet, DataFrames, ArpFrames
      <3> HIDE DEF ip, mac
      <3> QED
        BY <3>1, LearnFlushKeep
    <2>3. NiKeeps(n, learnt, m, d)
      <3>1. learnt.frames_out = n.frames_out /\ learnt.Queuing_List_Map = n.Queuing_List_Map
        BY DEF R!NI!Learn, NiSet
      <3> QED
        BY <3>1 DEF NiKeeps, NiNone, NiOne
    <2> HIDE DEF learnt
    <2>4. NiKeeps(learnt, flushed, m, d)
      BY <2>2, FlushCopies
    <2> HIDE DEF flushed
    <2>5. NiKeeps(flushed, R!NI!Reply(flushed, f), m, d)
      <3>1. NiKeeps(flushed, flushed, m, d)
        BY DEF NiKeeps
      <3> QED
        BY <2>2, <3>1, ArpCopies DEF R!NI!Reply
    <2> QED
      BY <2>1, <2>3, <2>4, <2>5, KeepsTrans
  <1> QED
    BY <1>2, <1>3

\* A frame that hands the datagram d up to the interface p.
Hands(f, p, d) == f.type = "IPv4" /\ f.dst = p /\ f.dgram.id = d

\* A call of an AsyncNetworkInterface that makes no copy of d, and one that makes one.
Keeps(x, y, m, d) == (None(x, m, d) => None(y, m, d)) /\ (Single(x, m, d) => Single(y, m, d))
Adds(x, y, m, d) == None(x, m, d) => Single(y, m, d)

\* recv_frame of AsyncNetworkInterface makes a copy of the datagram handed up only.
LEMMA InterfaceRecvCopies ==
    ASSUME NEW s, NEW p \in Mac, NEW x \in InterfaceSet(p, s), NEW f \in FrameSet(s), NEW m, NEW d
    PROVE  /\ ~Hands(f, p, d) => Keeps(x, R!recv_frame(x, f), m, d)
           /\ Adds(x, R!recv_frame(x, f), m, d)
  <1> DEFINE y == R!recv_frame(x, f)
             queue == x.datagrams_out
             T == For(IpOf[p], s) \union {f.dgram}
  <1>1. x.ni \in NiSet(p, s) /\ queue \in Seq(For(IpOf[p], s)) /\ x.ni.ethernet_address = p
    BY NiMembers DEF InterfaceSet
  <1>2. y.ni = R!NI!recv_frame(x.ni, f)
    BY DEF R!recv_frame
  <1>3. NiKeeps(x.ni, y.ni, m, d)
    BY <1>1, <1>2, RecvCopies
  <1>4. CASE R!NI!ForUs(x.ni, f) /\ f.type = "IPv4"
    <2>1. y.datagrams_out = Append(queue, f.dgram)
      BY <1>4 DEF R!recv_frame
    <2>2. f.dst = p
      <3>1. f \in DataFrames(s)
        BY <1>4 DEF FrameSet, ArpFrames
      <3> QED
        BY <1>1, <1>4, <3>1, NetworkAssumption DEF DataFrames, R!NI!ForUs
    <2>3. y.ni = x.ni
      BY <1>2, <1>4 DEF R!NI!recv_frame
    <2> HIDE DEF y, queue
    <2>4. queue \in Seq(T) /\ f.dgram \in T
      BY <1>1
    <2> HIDE DEF T
    <2>5. /\ f.dgram.id # d => At(y.datagrams_out, d) = At(queue, d)
          /\ At(queue, d) = {} => One(At(y.datagrams_out, d))
      BY <2>1, <2>4, QueueOne
    <2>6. ~Hands(f, p, d) => Keeps(x, y, m, d)
      BY <1>4, <2>2, <2>3, <2>5 DEF Hands, Keeps, None, Single, queue
    <2>7. Adds(x, y, m, d)
      BY <2>3, <2>5, NoneSingle DEF Adds, None, Single, queue
    <2> QED
      BY <2>6, <2>7 DEF y
  <1>5. CASE ~(R!NI!ForUs(x.ni, f) /\ f.type = "IPv4")
    <2>1. y.datagrams_out = queue
      BY <1>5 DEF R!recv_frame
    <2> HIDE DEF y
    <2>2. Keeps(x, y, m, d)
      BY <1>3, <2>1 DEF Keeps, None, Single, NiKeeps
    <2>3. Adds(x, y, m, d)
      BY <2>2, NoneSingle DEF Adds, Keeps
    <2> QED
      BY <2>2, <2>3 DEF y
  <1> QED
    BY <1>4, <1>5

\* Induction up to a number.
LEMMA UpTo ==
    ASSUME NEW n \in Nat, NEW T, 0 \in T, \A k \in 1..n : k - 1 \in T => k \in T
    PROVE  n \in T
  <1> DEFINE g == [k \in 0..n |-> k]
  <1>1. g[0] \in T /\ \A k \in 1..n : g[k - 1] \in T => g[k] \in T
    OBVIOUS
  <1> HIDE DEF g
  <1>2. \A k \in 0..n : g[k] \in T
    BY <1>1, StaysIn
  <1> QED
    BY <1>2 DEF g

\* deliver makes a copy of a datagram that one of the frames hands up only.
LEMMA DeliverCopies ==
    ASSUME NEW s, NEW p \in Mac, NEW x \in InterfaceSet(p, s), NEW frames \in Seq(FrameSet(s)),
           NEW m, NEW d
    PROVE  /\ (\A k \in 1..Len(frames) : ~Hands(frames[k], p, d))
                  => Keeps(x, deliver(frames, x), m, d)
           /\ (\A j, k \in 1..Len(frames) : Hands(frames[j], p, d) /\ Hands(frames[k], p, d) => j = k)
                  => Adds(x, deliver(frames, x), m, d)
  <1> DEFINE n == Len(frames)
             Hit(k) == Hands(frames[k], p, d)
  <1>1. PICK g \in [0..n -> InterfaceSet(p, s)] :
               /\ g[0] = x /\ deliver(frames, x) = g[n]
               /\ \A k \in 1..n : g[k] = R!recv_frame(g[k - 1], frames[k])
    BY DeliverRuns
  <1>2. n \in Nat /\ \A k \in 1..n : frames[k] \in FrameSet(s)
    BY LenProperties, ElementOfSeq
  <1>3. ASSUME NEW k \in 1..n
        PROVE  (~Hit(k) => Keeps(g[k - 1], g[k], m, d)) /\ Adds(g[k - 1], g[k], m, d)
    <2>1. k - 1 \in 0..n
      BY <1>2
    <2>2. g[k - 1] \in InterfaceSet(p, s) /\ frames[k] \in FrameSet(s)
      BY <1>2, <2>1
    <2> QED
      BY <1>1, <2>2, InterfaceRecvCopies
  <1> HIDE DEF n, Hit
  <1>4. ASSUME \A k \in 1..n : ~Hit(k)
        PROVE  Keeps(x, g[n], m, d)
    <2> DEFINE T == {k \in Nat : Keeps(x, g[k], m, d)}
    <2>1. 0 \in T
      BY <1>1 DEF Keeps
    <2>2. ASSUME NEW k \in 1..n, k - 1 \in T PROVE k \in T
      BY <1>3, <1>4, <2>2 DEF Keeps
    <2> HIDE DEF T
    <2>3. n \in T
      BY <1>2, <2>1, <2>2, UpTo
    <2> QED
      BY <2>3 DEF T
  <1>5. ASSUME \A j, k \in 1..n : Hit(j) /\ Hit(k) => j = k, None(x, m, d)
        PROVE  Single(g[n], m, d)
    <2> DEFINE T == {k \in Nat : /\ Single(g[k], m, d)
                                 /\ (\A j \in 1..k : ~Hit(j)) => None(g[k], m, d)}
    <2>1. 0 \in T
      BY <1>1, <1>5, NoneSingle
    <2>2. ASSUME NEW k \in 1..n, k - 1 \in T PROVE k \in T
      <3>1. k \in Nat /\ k - 1 \in Nat /\ 1..(k - 1) \subseteq 1..n
            /\ k \notin 1..(k - 1) /\ 1..k = 1..(k - 1) \union {k}
        BY <1>2
      <3>2. CASE Hit(k)
        <4>1. \A j \in 1..(k - 1) : ~Hit(j)
          BY <1>5, <3>1, <3>2
        <4>2. Single(g[k], m, d)
          BY <1>3, <2>2, <4>1 DEF Adds
        <4> QED
          BY <3>1, <3>2, <4>2
      <3>3. CASE ~Hit(k)
        <4>1. Keeps(g[k - 1], g[k], m, d)
          BY <1>3, <3>3
        <4> QED
          BY <2>2, <3>1, <4>1 DEF Keeps
      <3> QED
        BY <3>2, <3>3
    <2> HIDE DEF T
    <2>3. n \in T
      BY <1>2, <2>1, <2>2, UpTo
    <2> QED
      BY <2>3 DEF T
  <1> QED
    BY <1>1, <1>4, <1>5 DEF Adds, n, Hit

\* The frames of the k-th port of a link that hand the datagram d up to the port p.
Handing(p, link, k, d) ==
    {i \in DOMAIN Frames(link[k]) : link[k] # p /\ Hands(Frames(link[k])[i], p, d)}

\* What a port is given makes a copy of a datagram that a frame of another hands up only.
LEMMA GivenCopies ==
    ASSUME Inv, NEW p \in Mac, NEW link \in Link, NEW k \in 1..Len(link),
           NEW y \in InterfaceSet(p, sent), NEW m, NEW d
    PROVE  /\ Handing(p, link, k, d) = {} => Keeps(y, Given(y, p, link, k), m, d)
           /\ One(Handing(p, link, k, d)) => Adds(y, Given(y, p, link, k), m, d)
  <1> DEFINE frames == Frames(link[k])
  <1>1. CASE link[k] = p
    <2>1. Given(y, p, link, k) = y
      BY <1>1 DEF Given
    <2> QED
      BY <2>1, NoneSingle DEF Keeps, Adds
  <1>2. CASE link[k] # p
    <2>1. Given(y, p, link, k) = deliver(frames, y)
      BY <1>2 DEF Given
    <2>2. frames \in Seq(FrameSet(sent))
      <3>1. link[k] \in Mac
        BY NetworkAssumption, ElementOfSeq
      <3>2. Interface(link[k]) \in InterfaceSet(link[k], sent)
        BY <3>1, InterfaceType
      <3> QED
        BY <3>2 DEF Frames, InterfaceSet, NiSet
    <2>3. DOMAIN frames = 1..Len(frames)
      BY <2>2, LenProperties
    <2>4. Handing(p, link, k, d) = {i \in 1..Len(frames) : Hands(frames[i], p, d)}
      BY <1>2, <2>3 DEF Handing
    <2> HIDE DEF frames
    <2> QED
      BY <2>1, <2>2, <2>4, DeliverCopies DEF One
  <1> QED
    BY <1>1, <1>2

\* The frames that were queued before the exchange are removed.
LEMMA CutCopies ==
    ASSUME NEW s, NEW p \in Mac, NEW a \in InterfaceSet(p, s), NEW m \in Nat, NEW y, NEW d,
           y = [a EXCEPT !.ni.frames_out = SubSeq(@, m + 1, Len(@))]
    PROVE  (None(a, m, d) => None(y, 0, d)) /\ (Single(a, m, d) => Single(y, 0, d))
  <1> DEFINE old == a.ni.frames_out
             new == SubSeq(old, m + 1, Len(old))
  <1>1. a.ni \in NiSet(p, s) /\ old \in Seq(FrameSet(s))
    BY DEF InterfaceSet, NiSet
  <1>2. /\ y.datagrams_out = a.datagrams_out /\ y.ni.Queuing_List_Map = a.ni.Queuing_List_Map
        /\ y.ni.frames_out = new
    BY DEF InterfaceSet, NiSet
  <1> HIDE DEF old
  <1>3. Len(old) \in Nat /\ DOMAIN old = 1..Len(old)
        /\ \A k \in 1..Len(old) : old[k] \in FrameSet(s)
    BY <1>1, LenProperties, ElementOfSeq
  <1>4. \A k \in DOMAIN new : k \in Nat /\ k + m \in DOMAIN old /\ k + m > m /\ new[k] = old[k + m]
    <2>1. CASE m <= Len(old)
      BY <1>3, <2>1
    <2>2. CASE ~(m <= Len(old))
      BY <1>3, <2>2
    <2> QED
      BY <2>1, <2>2
  <1> HIDE DEF new
  <1>5. \A k \in Framed(new, 0, d) : k + m \in Framed(old, m, d) /\ k \in Nat
    BY <1>4 DEF Framed
  <1>6. Framed(old, m, d) = {} => Framed(new, 0, d) = {}
    BY <1>5
  <1>7. ASSUME One(Framed(old, m, d)) PROVE One(Framed(new, 0, d))
    <2>1. \A j, k \in Framed(new, 0, d) : j + m = k + m
      BY <1>5, <1>7 DEF One
    <2>2. \A j, k \in Framed(new, 0, d) : j = k
      BY <1>5, <2>1
    <2> QED
      BY <2>2 DEF One
  <1> QED
    BY <1>2, <1>6, <1>7 DEF None, Single, NiNone, NiOne, old

\* At most one frame of the other ports of a link hands d up to p.
OneHanded(p, link, d) ==
    /\ \A k \in 1..Len(link) : One(Handing(p, link, k, d))
    /\ \A j, k \in 1..Len(link) :
           j # k => Either(Handing(p, link, j, d), Handing(p, link, k, d))

\* exchange_frames, for one port: it keeps its queue and lists, and has a copy more only
\* of a datagram that a frame of another port hands up.
LEMMA ExchangedCopies ==
    ASSUME Inv, NEW p \in Mac, NEW link \in Link, NEW d, NEW m, m = Len(Frames(p)),
           NEW y, y = Exchanged(p, link)
    PROVE  /\ (\A k \in 1..Len(link) : Handing(p, link, k, d) = {})
                  => /\ None(Interface(p), m, d) => None(y, 0, d)
                     /\ Single(Interface(p), m, d) => Single(y, 0, d)
           /\ OneHanded(p, link, d) /\ None(Interface(p), m, d) => Single(y, 0, d)
  <1> DEFINE n == Len(link)
             x == Interface(p)
             Hit(k) == Handing(p, link, k, d) # {}
  <1>1. PICK g \in [0..n -> InterfaceSet(p, sent)] :
               /\ g[0] = x
               /\ y = [g[n] EXCEPT !.ni.frames_out = SubSeq(@, m + 1, Len(@))]
               /\ \A k \in 1..n : g[k] = Given(g[k - 1], p, link, k)
    BY ExchangedRuns
  <1>2. n \in Nat /\ m \in Nat
    <2>1. link \in Seq(Mac) /\ Frames(p) \in Seq(FrameSet(sent))
      BY NetworkAssumption, InterfaceType DEF Frames, InterfaceSet, NiSet
    <2> QED
      BY <2>1, LenProperties
  <1>3. (None(g[n], m, d) => None(y, 0, d)) /\ (Single(g[n], m, d) => Single(y, 0, d))
    <2>1. g[n] \in InterfaceSet(p, sent)
      BY <1>1, <1>2
    <2> QED
      BY <1>1, <1>2, <2>1, CutCopies
  <1>4. ASSUME NEW k \in 1..n
        PROVE  /\ ~Hit(k) => Keeps(g[k - 1], g[k], m, d)
               /\ One(Handing(p, link, k, d)) => Adds(g[k - 1], g[k], m, d)
    <2>1. k - 1 \in 0..n
      BY <1>2
    <2>2. g[k - 1] \in InterfaceSet(p, sent)
      BY <2>1
    <2> QED
      BY <1>1, <2>2, GivenCopies
  <1> HIDE DEF n, x
  <1>5. ASSUME \A k \in 1..n : ~Hit(k)
        PROVE  Keeps(x, g[n], m, d)
    <2> HIDE DEF Hit
    <2> DEFINE T == {k \in Nat : Keeps(x, g[k], m, d)}
    <2>1. 0 \in T
      BY <1>1 DEF Keeps
    <2>2. ASSUME NEW k \in 1..n, k - 1 \in T PROVE k \in T
      BY <1>4, <1>5, <2>2 DEF Keeps
    <2> HIDE DEF T
    <2>3. n \in T
      BY <1>2, <2>1, <2>2, UpTo
    <2> QED
      BY <2>3 DEF T
  <1>6. ASSUME \A k \in 1..n : One(Handing(p, link, k, d)),
               \A j, k \in 1..n : Hit(j) /\ Hit(k) => j = k, None(x, m, d)
        PROVE  Single(g[n], m, d)
    <2> HIDE DEF Hit
    <2> DEFINE T == {k \in Nat : /\ Single(g[k], m, d)
                                 /\ (\A j \in 1..k : ~Hit(j)) => None(g[k], m, d)}
    <2>1. 0 \in T
      BY <1>1, <1>6, NoneSingle
    <2>2. ASSUME NEW k \in 1..n, k - 1 \in T PROVE k \in T
      <3>1. k \in Nat /\ k - 1 \in Nat /\ 1..(k - 1) \subseteq 1..n
            /\ k \notin 1..(k - 1) /\ 1..k = 1..(k - 1) \union {k}
        BY <1>2
      <3>2. CASE Hit(k)
        <4>1. \A j \in 1..(k - 1) : ~Hit(j)
          BY <1>6, <3>1, <3>2
        <4>2. Single(g[k], m, d)
          BY <1>4, <1>6, <2>2, <4>1 DEF Adds
        <4> QED
          BY <3>1, <3>2, <4>2
      <3>3. CASE ~Hit(k)
        <4>1. Keeps(g[k - 1], g[k], m, d)
          BY <1>4, <3>3
        <4> QED
          BY <2>2, <3>1, <4>1 DEF Keeps
      <3> QED
        BY <3>2, <3>3
    <2> HIDE DEF T
    <2>3. n \in T
      BY <1>2, <2>1, <2>2, UpTo
    <2> QED
      BY <2>3 DEF T
  <1>7. OneHanded(p, link, d) <=> /\ \A k \in 1..n : One(Handing(p, link, k, d))
                                  /\ \A j, k \in 1..n : Hit(j) /\ Hit(k) => j = k
    BY DEF Either, OneHanded, n
  <1>8. (\A k \in 1..n : Handing(p, link, k, d) = {}) <=> \A k \in 1..n : ~Hit(k)
    OBVIOUS
  <1> HIDE DEF Hit
  <1>9. (\A k \in 1..n : ~Hit(k)) => Keeps(x, g[n], m, d)
    BY <1>5
  <1> QED
    BY <1>3, <1>6, <1>7, <1>8, <1>9 DEF Keeps, n, x

\* send_datagram of AsyncNetworkInterface
LEMMA InterfaceSendCopies ==
    ASSUME NEW s, NEW p \in Mac, NEW x \in InterfaceSet(p, s), NEW ip \in Addr, NEW e \in For(ip, s),
           NEW m, NEW d
    PROVE  /\ e.id # d => Keeps(x, R!send_datagram(x, e, ip), m, d)
           /\ Adds(x, R!send_datagram(x, e, ip), m, d)
  <1> DEFINE ni == R!NI!send_datagram(x.ni, e, ip)
             y == R!send_datagram(x, e, ip)
  <1>1. x.ni \in NiSet(p, s)
    BY DEF InterfaceSet
  <1>2. y.ni = ni /\ y.datagrams_out = x.datagrams_out
    BY DEF R!send_datagram, InterfaceSet
  <1>3. (e.id # d => NiKeeps(x.ni, ni, m, d)) /\ NiAdds(x.ni, ni, m, d)
    BY <1>1, SendCopies
  <1> HIDE DEF ni, y
  <1>4. e.id # d => Keeps(x, y, m, d)
    BY <1>2, <1>3 DEF NiKeeps, Keeps, None, Single
  <1>5. Adds(x, y, m, d)
    BY <1>2, <1>3 DEF NiAdds, Adds, None, Single, One
  <1> QED
    BY <1>4, <1>5 DEF y

\* No interface of a router, and at most one place of all, holds d.
RouterNone(x, d) == \A i \in DOMAIN x.interfaces : None(x.interfaces[i], 0, d)
RouterOne(x, d) ==
    \A i, j \in DOMAIN x.interfaces :
        /\ Single(x.interfaces[i], 0, d)
        /\ i # j => None(x.interfaces[i], 0, d) \/ None(x.interfaces[j], 0, d)

\* A step of a router that makes no copy of d, and one that makes at most one.
RouterKeeps(x, y, d) ==
    (RouterNone(x, d) => RouterNone(y, d)) /\ (RouterOne(x, d) => RouterOne(y, d))
RouterAdds(x, y, d) == RouterNone(x, d) => RouterOne(y, d)

\* No copy is at most one copy.
LEMMA RouterNoneOne ==
    ASSUME NEW x, NEW d, RouterNone(x, d)
    PROVE  RouterOne(x, d)
  BY NoneSingle DEF RouterNone, RouterOne

\* A step of one interface.
LEMMA PortCopies ==
    ASSUME NEW s, NEW r \in Routers, NEW x \in RouterSet(r, s), NEW num \in DOMAIN RouterIps[r],
           NEW v, NEW y, y = [x EXCEPT !.interfaces = [x.interfaces EXCEPT ![num] = v]], NEW d
    PROVE  /\ Keeps(x.interfaces[num], v, 0, d) => RouterKeeps(x, y, d)
           /\ Adds(x.interfaces[num], v, 0, d) => RouterAdds(x, y, d)
  <1>1. DOMAIN x.interfaces = DOMAIN RouterIps[r]
    BY DEF RouterSet, PortsOf
  <1>2. /\ DOMAIN y.interfaces = DOMAIN x.interfaces /\ y.interfaces[num] = v
        /\ \A i \in DOMAIN x.interfaces : i # num => y.interfaces[i] = x.interfaces[i]
    BY <1>1 DEF RouterSet
  <1>3. ASSUME Keeps(x.interfaces[num], v, 0, d) PROVE RouterKeeps(x, y, d)
    <2>1. RouterNone(x, d) => RouterNone(y, d)
      BY <1>1, <1>2, <1>3 DEF Keeps, RouterNone
    <2>2. RouterOne(x, d) => RouterOne(y, d)
      BY <1>1, <1>2, <1>3 DEF Keeps, RouterOne
    <2> QED
      BY <2>1, <2>2 DEF RouterKeeps
  <1>4. ASSUME Adds(x.interfaces[num], v, 0, d) PROVE RouterAdds(x, y, d)
    BY <1>1, <1>2, <1>4, NoneSingle DEF Adds, RouterAdds, RouterNone, RouterOne
  <1> QED
    BY <1>3, <1>4

\* route_one_datagram makes at most one copy of the datagram.
LEMMA RouteOneCopies ==
    ASSUME NEW s, NEW r \in Routers, NEW x \in RouterSet(r, s), NEW e \in Alive(s), NEW d,
           ByteTtl(s)
    PROVE  /\ e.id # d => RouterKeeps(x, R!route_one_datagram(x, e), d)
           /\ RouterAdds(x, R!route_one_datagram(x, e), d)
  <1> DEFINE y == R!route_one_datagram(x, e)
  <1>1. ASSUME y = x
        PROVE  (e.id # d => RouterKeeps(x, y, d)) /\ RouterAdds(x, y, d)
    <2> HIDE DEF y
    <2> QED
      BY <1>1, RouterNoneOne DEF RouterKeeps, RouterAdds
  <1>2. ASSUME NEW num \in DOMAIN RouterIps[r], NEW hop \in Addr,
               NEW a \in From(Port(r, num), hop, s),
               a.id = e.id, Sends(x, y, num, a, hop)
        PROVE  (e.id # d => RouterKeeps(x, y, d)) /\ RouterAdds(x, y, d)
    <2> HIDE DEF y
    <2> DEFINE u == x.interfaces[num]
               v == R!send_datagram(u, a, hop)
    <2>1. u \in InterfaceSet(Port(r, num), s) /\ Port(r, num) \in Mac
      BY PortIsMac DEF RouterSet, PortsOf
    <2>2. (a.id # d => Keeps(u, v, 0, d)) /\ Adds(u, v, 0, d)
      BY <2>1, InterfaceSendCopies DEF From
    <2>3. y = [x EXCEPT !.interfaces = [x.interfaces EXCEPT ![num] = v]]
      BY <1>2 DEF Sends
    <2> HIDE DEF v
    <2> QED
      BY <1>2, <2>2, <2>3, PortCopies
  <1>3. \/ y = x
        \/ \E num \in DOMAIN RouterIps[r], hop \in Addr : \E a \in From(Port(r, num), hop, s) :
               a.id = e.id /\ Sends(x, y, num, a, hop)
    BY RouteOneSends
  <1> HIDE DEF y
  <1>4. (e.id # d => RouterKeeps(x, y, d)) /\ RouterAdds(x, y, d)
    BY <1>1, <1>2, <1>3
  <1> QED
    BY <1>4 DEF y

\* Emptying a queue takes what is in it.
LEMMA EmptyCopies ==
    ASSUME NEW s, NEW r \in Routers, NEW x \in RouterSet(r, s), NEW num \in DOMAIN RouterIps[r],
           NEW y, y = [x EXCEPT !.interfaces[num].datagrams_out = <<>>], NEW d
    PROVE  /\ RouterKeeps(x, y, d)
           /\ RouterOne(x, d) /\ At(Queue(x, num), d) # {} => RouterNone(y, d)
           /\ RouterOne(x, d) => One(At(Queue(x, num), d))
           /\ RouterNone(x, d) => At(Queue(x, num), d) = {}
  <1> DEFINE u == x.interfaces[num]
             v == [u EXCEPT !.datagrams_out = <<>>]
  <1>1. u \in InterfaceSet(Port(r, num), s) /\ num \in DOMAIN x.interfaces
    BY DEF RouterSet, PortsOf
  <1>2. v.datagrams_out = <<>> /\ v.ni = u.ni
    BY <1>1 DEF InterfaceSet
  <1>3. y = [x EXCEPT !.interfaces = [x.interfaces EXCEPT ![num] = v]]
    OBVIOUS
  <1>4. At(v.datagrams_out, d) = {}
    BY <1>2 DEF At
  <1>5. Queue(x, num) = u.datagrams_out
    BY DEF Queue
  <1> HIDE DEF v
  <1>6. Keeps(u, v, 0, d)
    BY <1>2, <1>4 DEF Keeps, None, Single, One
  <1>7. RouterKeeps(x, y, d)
    BY <1>3, <1>6, PortCopies
  <1>8. ASSUME RouterOne(x, d), At(Queue(x, num), d) # {} PROVE RouterNone(y, d)
    <2>1. None(v, 0, d)
      BY <1>1, <1>2, <1>4, <1>5, <1>8 DEF RouterOne, Single, None
    <2>2. \A i \in DOMAIN x.interfaces : i # num => None(x.interfaces[i], 0, d)
      BY <1>1, <1>5, <1>8 DEF RouterOne, None
    <2>3. /\ DOMAIN y.interfaces = DOMAIN x.interfaces /\ y.interfaces[num] = v
          /\ \A i \in DOMAIN x.interfaces : i # num => y.interfaces[i] = x.interfaces[i]
      BY <1>1, <1>3 DEF RouterSet
    <2> QED
      BY <2>1, <2>2, <2>3 DEF RouterNone
  <1>9. RouterOne(x, d) => One(At(Queue(x, num), d))
    BY <1>1, <1>5 DEF RouterOne, Single
  <1>10. RouterNone(x, d) => At(Queue(x, num), d) = {}
    BY <1>1, <1>5 DEF RouterNone, None
  <1> QED
    BY <1>7, <1>8, <1>9, <1>10

\* The inner loop of route takes the datagrams of a queue and makes at most one copy of
\* each ...
LEMMA RouteQueueCopies ==
    ASSUME NEW s, NEW r \in Routers, NEW x \in RouterSet(r, s), NEW num \in DOMAIN RouterIps[r],
           NEW d, ByteTtl(s)
    PROVE  RouterKeeps(x, R!route_queue(x, num), d)
  <1> DEFINE queue == Queue(x, num)
             n == Len(queue)
             st == [x EXCEPT !.interfaces[num].datagrams_out = <<>>]
  <1>1. n \in Nat /\ DOMAIN queue = 1..n
    <2>1. queue \in Seq(For(IpOf[Port(r, num)], s))
      BY DEF RouterSet, PortsOf, InterfaceSet, Queue
    <2> QED
      BY <2>1, LenProperties
  <1>2. PICK g \in [0..n -> RouterSet(r, s)] : QueueRun(g, x, num, s)
    BY RouteQueueRuns
  <1>3. /\ g[0] = st /\ R!route_queue(x, num) = g[n]
        /\ \A k \in 1..n : queue[k] \in Alive(s) /\ g[k] = R!route_one_datagram(g[k - 1], queue[k])
    BY <1>2 DEF QueueRun
  <1>4. /\ RouterKeeps(x, st, d)
        /\ RouterOne(x, d) /\ At(queue, d) # {} => RouterNone(st, d)
        /\ RouterOne(x, d) => One(At(queue, d))
        /\ RouterNone(x, d) => At(queue, d) = {}
    BY EmptyCopies
  <1> HIDE DEF queue, n, st
  <1>5. \A k \in 1..n : k \in At(queue, d) <=> queue[k].id = d
    BY <1>1 DEF At
  <1>6. ASSUME NEW k \in 1..n
        PROVE  /\ k \notin At(queue, d) => RouterKeeps(g[k - 1], g[k], d)
               /\ RouterAdds(g[k - 1], g[k], d)
    <2>1. k - 1 \in 0..n
      BY <1>1
    <2>2. g[k - 1] \in RouterSet(r, s) /\ queue[k] \in Alive(s)
      BY <1>3, <2>1
    <2> QED
      BY <1>3, <1>5, <2>2, RouteOneCopies
  <1>7. ASSUME At(queue, d) = {}
        PROVE  RouterKeeps(x, g[n], d)
    <2> DEFINE T == {k \in Nat : RouterKeeps(x, g[k], d)}
    <2>1. 0 \in T
      BY <1>3, <1>4
    <2>2. ASSUME NEW k \in 1..n, k - 1 \in T PROVE k \in T
      BY <1>6, <1>7, <2>2 DEF RouterKeeps
    <2> HIDE DEF T
    <2>3. n \in T
      BY <1>1, <2>1, <2>2, UpTo
    <2> QED
      BY <2>3 DEF T
  <1>8. ASSUME One(At(queue, d)), RouterNone(st, d)
        PROVE  RouterOne(g[n], d)
    <2> DEFINE T == {k \in Nat : /\ RouterOne(g[k], d)
                                 /\ (\A j \in 1..k : j \notin At(queue, d)) => RouterNone(g[k], d)}
    <2>1. 0 \in T
      BY <1>3, <1>8, RouterNoneOne
    <2>2. ASSUME NEW k \in 1..n, k - 1 \in T PROVE k \in T
      <3>1. k \in Nat /\ k - 1 \in Nat /\ k \notin 1..(k - 1) /\ 1..k = 1..(k - 1) \union {k}
        BY <1>1
      <3>2. CASE k \in At(queue, d)
        <4>1. \A j \in 1..(k - 1) : j \notin At(queue, d)
          BY <1>8, <3>1, <3>2 DEF One
        <4>2. RouterOne(g[k], d)
          BY <1>6, <2>2, <4>1 DEF RouterAdds
        <4> QED
          BY <3>1, <3>2, <4>2
      <3>3. CASE k \notin At(queue, d)
        <4>1. RouterKeeps(g[k - 1], g[k], d)
          BY <1>6, <3>3
        <4> QED
          BY <2>2, <3>1, <4>1 DEF RouterKeeps
      <3> QED
        BY <3>2, <3>3
    <2> HIDE DEF T
    <2>3. n \in T
      BY <1>1, <2>1, <2>2, UpTo
    <2> QED
      BY <2>3 DEF T
  <1> QED
    BY <1>3, <1>4, <1>7, <1>8 DEF RouterKeeps

\* ... and so does the outer one for all queues.
LEMMA RouteCopies ==
    ASSUME NEW s, NEW r \in Routers, NEW x \in RouterSet(r, s), NEW d,
           ByteTtl(s)
    PROVE  RouterKeeps(x, R!route(x), d)
  <1>1. PICK n \in Nat : \E g \in [0..n -> RouterSet(r, s)] : RouteRun(g, x, r, n)
    BY RouteRuns
  <1>2. PICK g \in [0..n -> RouterSet(r, s)] :
               /\ 1..n = DOMAIN RouterIps[r] /\ g[0] = x /\ R!route(x) = g[n]
               /\ \A k \in 1..n : g[k] = R!route_queue(g[k - 1], k)
    BY <1>1 DEF RouteRun
  <1>3. ASSUME NEW k \in 1..n
        PROVE  RouterKeeps(g[k - 1], g[k], d)
    <2>1. k - 1 \in 0..n /\ k \in DOMAIN RouterIps[r]
      BY <1>2
    <2>2. g[k - 1] \in RouterSet(r, s)
      BY <2>1
    <2> QED
      BY <1>2, <2>1, <2>2, RouteQueueCopies
  <1> DEFINE T == {k \in Nat : RouterKeeps(x, g[k], d)}
  <1>4. 0 \in T
    BY <1>2 DEF RouterKeeps
  <1>5. ASSUME NEW k \in 1..n, k - 1 \in T PROVE k \in T
    BY <1>3, <1>5 DEF RouterKeeps
  <1> HIDE DEF T
  <1>6. n \in T
    BY <1>4, <1>5, UpTo
  <1> QED
    BY <1>2, <1>6 DEF T

-----------------------------------------------------------------------------
\* One copy in the whole network.

\* The datagrams the hosts have taken.
Taken(d) == {i \in DOMAIN got : got[i].dgram.id = d}

\* All places of all interfaces and of the hosts hold d at most once.
Alone(d) ==
    /\ \A p \in Mac : Single(Interface(p), 0, d)
    /\ \A p, q \in Mac : p # q => None(Interface(p), 0, d) \/ None(Interface(q), 0, d)
    /\ One(Taken(d))
    /\ Taken(d) = {} \/ \A p \in Mac : None(Interface(p), 0, d)

\* The invariant, beside Inv.
CopyInv == \A d \in Nat : Alone(d)

\* The interfaces of hosts and routers, before and after a step.
LEMMA Ports ==
    /\ \A h \in Host : Port(h, 1) \in Mac /\ Interface(Port(h, 1)) = host[h]
                       /\ Interface(Port(h, 1))' = host'[h]
    /\ \A r \in Routers : \A i \in DOMAIN RouterIps[r] :
           /\ Port(r, i) \in Mac /\ Interface(Port(r, i)) = router[r].interfaces[i]
           /\ Interface(Port(r, i))' = router'[r].interfaces[i]
    /\ \A p \in Mac : \/ \E h \in Host : p = Port(h, 1)
                      \/ \E r \in Routers : \E i \in DOMAIN RouterIps[r] : p = Port(r, i)
    /\ \A h \in Host, r \in Routers : \A i, j : Port(h, j) # Port(r, i)
    /\ \A a, b, i, j : Port(a, i) = Port(b, j) => a = b /\ i = j
  <1>1. \A a, i : Port(a, i).node = a /\ Port(a, i).num = i
    BY DEF Port
  <1>2. ASSUME NEW a, NEW b, NEW i, NEW j, Port(a, i) = Port(b, j)
        PROVE  a = b /\ i = j
    <2>1. Port(a, i).node = Port(b, j).node /\ Port(a, i).num = Port(b, j).num
      BY <1>2
    <2> QED
      BY <1>1, <2>1
  <1>3. \A h \in Host, r \in Routers : h # r
    BY NetworkAssumption
  <1>4. \A h \in Host, r \in Routers : \A i, j : Port(h, j) # Port(r, i)
    BY <1>2, <1>3
  <1>5. ASSUME NEW h \in Host
        PROVE  /\ Port(h, 1) \in Mac /\ Interface(Port(h, 1)) = host[h]
               /\ Interface(Port(h, 1))' = host'[h]
    BY <1>1, HostIsMac DEF Interface
  <1>6. ASSUME NEW r \in Routers, NEW i \in DOMAIN RouterIps[r]
        PROVE  /\ Port(r, i) \in Mac /\ Interface(Port(r, i)) = router[r].interfaces[i]
               /\ Interface(Port(r, i))' = router'[r].interfaces[i]
    <2>1. r \notin Host
      BY <1>3
    <2> QED
      BY <1>1, <2>1, PortIsMac DEF Interface
  <1>7. \A p \in Mac : \/ \E h \in Host : p = Port(h, 1)
                       \/ \E r \in Routers : \E i \in DOMAIN RouterIps[r] : p = Port(r, i)
    BY DEF Mac
  <1> QED
    BY <1>2, <1>4, <1>5, <1>6, <1>7

\* A step that makes no copy at any interface.
LEMMA KeptAlone ==
    ASSUME NEW d, Alone(d), \A p \in Mac : Keeps(Interface(p), Interface(p)', 0, d),
           Taken(d)' = Taken(d)
    PROVE  Alone(d)'
  <1>1. \A p \in Mac : Single(Interface(p)', 0, d)
    BY DEF Alone, Keeps
  <1>2. \A p, q \in Mac : p # q => None(Interface(p)', 0, d) \/ None(Interface(q)', 0, d)
    BY DEF Alone, Keeps
  <1>3. Taken(d)' = {} \/ \A p \in Mac : None(Interface(p)', 0, d)
    BY DEF Alone, Keeps
  <1>4. One(Taken(d)')
    BY DEF Alone
  <1> QED
    BY <1>1, <1>2, <1>3, <1>4 DEF Alone

\* A step after which one interface at most has a copy, and no host.
LEMMA OneAlone ==
    ASSUME NEW d, NEW q, Taken(d)' = {}, \A p \in Mac : Single(Interface(p)', 0, d),
           \A p \in Mac : p # q => None(Interface(p)', 0, d)
    PROVE  Alone(d)'
  <1>1. One(Taken(d)')
    BY DEF One
  <1>2. \A p, r \in Mac : p # r => None(Interface(p)', 0, d) \/ None(Interface(r)', 0, d)
    OBVIOUS
  <1> QED
    BY <1>1, <1>2 DEF Alone

\* A number that has not been used is nowhere.
LEMMA Fresh ==
    ASSUME Inv, NEW d, d \notin 1..Len(sent)
    PROVE  Taken(d) = {} /\ \A p \in Mac : None(Interface(p), 0, d)
  <1>1. \A e \in Alive(sent) : e.id # d
    BY DEF Alive
  <1>2. Taken(d) = {}
    <2>1. got \in Seq([dgram : Alive(sent), by : Host])
      BY DEF Inv, Sound
    <2>2. \A i \in DOMAIN got : got[i] \in [dgram : Alive(sent), by : Host]
      <3> DEFINE T == [dgram : Alive(sent), by : Host]
      <3> HIDE DEF T
      <3>1. got \in Seq(T)
        BY <2>1 DEF T
      <3>2. \A i \in DOMAIN got : got[i] \in T
        BY <3>1, LenProperties, ElementOfSeq
      <3> QED
        BY <3>2 DEF T
    <2>3. \A i \in DOMAIN got : got[i].dgram \in Alive(sent)
      BY <2>2
    <2> QED
      BY <1>1, <2>3 DEF Taken
  <1>3. ASSUME NEW p \in Mac
        PROVE  None(Interface(p), 0, d)
    <2> DEFINE x == Interface(p)
               map == x.ni.Queuing_List_Map
    <2>1. x \in InterfaceSet(p, sent)
      BY InterfaceType
    <2> HIDE DEF x
    <2>2. /\ x.datagrams_out \in Seq(For(IpOf[p], sent)) /\ x.ni.frames_out \in Seq(FrameSet(sent))
          /\ map \in Maps(List(sent))
      BY <2>1 DEF InterfaceSet, NiSet, ListSet
    <2> HIDE DEF map
    <2>3. At(x.datagrams_out, d) = {}
      BY <1>1, <2>2, LenProperties, ElementOfSeq DEF At, For
    <2>4. Framed(x.ni.frames_out, 0, d) = {}
      <3>1. \A f \in FrameSet(sent) : f.type = "IPv4" => f.dgram \in Alive(sent)
        BY DEF FrameSet, DataFrames, ArpFrames
      <3>2. \A k \in DOMAIN x.ni.frames_out : x.ni.frames_out[k] \in FrameSet(sent)
        BY <2>2, LenProperties, ElementOfSeq
      <3> QED
        BY <1>1, <3>1, <3>2 DEF Framed
    <2>5. ListsNone(map, d)
      <3>1. ASSUME NEW ip \in DOMAIN map
            PROVE  Held(map, ip, d) = {}
        <4>1. map[ip].queuing_datagrams \in Seq(Alive(sent))
          BY <2>2 DEF Maps, List
        <4> QED
          BY <1>1, <4>1, LenProperties, ElementOfSeq DEF Held, At
      <3> QED
        BY <3>1 DEF ListsNone
    <2> QED
      BY <2>3, <2>4, <2>5 DEF None, NiNone, x, map
  <1> QED
    BY <1>2, <1>3

\* Nothing is anywhere initially.
LEMMA InitCopyInv == Init => CopyInv
  <1> SUFFICES ASSUME Init, NEW d \in Nat
               PROVE  Alone(d)
    BY DEF CopyInv
  <1>1. Inv
    BY InitInv
  <1>2. d \notin 1..Len(sent)
    <2>1. sent = <<>>
      BY DEF Init
    <2> QED
      BY <2>1
  <1>3. Taken(d) = {} /\ \A p \in Mac : None(Interface(p), 0, d)
    BY <1>1, <1>2, Fresh
  <1> QED
    BY <1>3, NoneSingle DEF Alone, One

\* AddRoute
LEMMA AddRouteCopyInv ==
    ASSUME Inv, CopyInv, NEW r \in Routers, AddRoute(r)
    PROVE  CopyInv'
  <1> SUFFICES ASSUME NEW d \in Nat
               PROVE  Alone(d)'
    BY DEF CopyInv
  <1>1. PICK e \in Routes[r] : router' = [router EXCEPT ![r] = R!add_route(router[r], e)]
    BY DEF AddRoute
  <1>2. host' = host /\ got' = got
    BY DEF AddRoute
  <1>3. \A q \in Routers : router'[q].interfaces = router[q].interfaces
    <2>1. router[r] \in RouterSet(r, sent) /\ DOMAIN router = Routers
      BY DEF Inv, Sound
    <2>2. R!add_route(router[r], e).interfaces = router[r].interfaces
      BY <2>1 DEF RouterSet, R!add_route
    <2> QED
      BY <1>1, <2>1, <2>2
  <1>4. ASSUME NEW p \in Mac PROVE Interface(p)' = Interface(p)
    BY <1>2, <1>3, Ports
  <1>5. \A p \in Mac : Keeps(Interface(p), Interface(p)', 0, d)
    BY <1>4 DEF Keeps
  <1>6. Taken(d)' = Taken(d) /\ Alone(d)
    BY <1>2 DEF Taken, CopyInv
  <1> QED
    BY <1>5, <1>6, KeptAlone

\* SendTo
LEMMA SendToCopyInv ==
    ASSUME Inv, CopyInv, NEW t \in Traffic, SendTo(t)
    PROVE  CopyInv'
  <1> SUFFICES ASSUME NEW d \in Nat
               PROVE  Alone(d)'
    BY DEF CopyInv
  <1> DEFINE h == t.src
             q == Port(h, 1)
             z == sent'
  <1>1. PICK ip \in Addr : \E e \in From(q, ip, z) :
            e.id = Len(sent) + 1 /\ host' = [host EXCEPT ![h] = R!send_datagram(host[h], e, ip)]
    BY SendToSends
  <1>2. PICK e \in From(q, ip, z) :
            e.id = Len(sent) + 1 /\ host' = [host EXCEPT ![h] = R!send_datagram(host[h], e, ip)]
    BY <1>1
  <1>3. /\ h \in Host /\ router' = router /\ got' = got
        /\ \A m \in Mac : InterfaceSet(m, sent) \subseteq InterfaceSet(m, z)
    BY SendToSends
  <1> HIDE DEF z, h
  <1>4. /\ q \in Mac /\ Interface(q) = host[h] /\ host[h] \in InterfaceSet(q, z)
        /\ DOMAIN host = Host
    BY <1>3, Ports DEF Inv, Sound
  <1>5. Interface(q)' = R!send_datagram(host[h], e, ip)
    BY <1>2, <1>3, <1>4, Ports
  <1>6. ASSUME NEW p \in Mac, p # q PROVE Interface(p)' = Interface(p)
    <2>1. CASE \E g \in Host : p = Port(g, 1)
      BY <1>2, <1>4, <1>6, <2>1, Ports
    <2>2. CASE \E r \in Routers : \E i \in DOMAIN RouterIps[r] : p = Port(r, i)
      BY <1>3, <2>2, Ports
    <2> QED
      BY <2>1, <2>2, Ports
  <1>7. /\ e.id # d => Keeps(Interface(q), Interface(q)', 0, d)
        /\ Adds(Interface(q), Interface(q)', 0, d)
    BY <1>4, <1>5, InterfaceSendCopies DEF From
  <1>8. Taken(d)' = Taken(d) /\ Alone(d)
    BY <1>3 DEF Taken, CopyInv
  <1> HIDE DEF q
  <1>9. CASE e.id # d
    <2>1. \A p \in Mac : Keeps(Interface(p), Interface(p)', 0, d)
      BY <1>6, <1>7, <1>9 DEF Keeps
    <2> QED
      BY <1>8, <2>1, KeptAlone
  <1>10. CASE e.id = d
    <2>1. d \notin 1..Len(sent)
      <3>1. Len(sent) \in Nat
        BY LenProperties DEF Inv, Sound
      <3> QED
        BY <1>2, <1>10, <3>1
    <2>2. Taken(d) = {} /\ \A p \in Mac : None(Interface(p), 0, d)
      BY <2>1, Fresh
    <2>3. \A p \in Mac : p # q => None(Interface(p)', 0, d)
      BY <1>6, <2>2
    <2>4. \A p \in Mac : Single(Interface(p)', 0, d)
      BY <1>4, <1>7, <2>2, <2>3, NoneSingle DEF Adds
    <2> QED
      BY <1>8, <2>2, <2>3, <2>4, OneAlone
  <1> QED
    BY <1>9, <1>10

\* Check moves what is in the queue of a host.
LEMMA CheckCopyInv ==
    ASSUME Inv, CopyInv, NEW h \in Host, Check(h)
    PROVE  CopyInv'
  <1> SUFFICES ASSUME NEW d \in Nat
               PROVE  Alone(d)'
    BY DEF CopyInv
  <1> DEFINE q == Port(h, 1)
             x == host[h]
             y == [x EXCEPT !.datagrams_out = <<>>]
             queue == x.datagrams_out
             new == [i \in DOMAIN queue |-> [dgram |-> queue[i], by |-> h]]
             n == Len(got)
  <1>1. x \in InterfaceSet(q, sent) /\ DOMAIN host = Host
    BY DEF Inv, Sound
  <1>2. host' = [host EXCEPT ![h] = y] /\ got' = got \o new /\ router' = router
    BY DEF Check
  <1>3. y.datagrams_out = <<>> /\ y.ni = x.ni
    BY <1>1 DEF InterfaceSet
  <1>4. queue \in Seq(For(HostIp[h], sent))
    BY <1>1, HostIsMac DEF InterfaceSet
  <1> HIDE DEF x, y
  <1>5. q \in Mac /\ Interface(q) = x /\ Interface(q)' = y
    BY <1>1, <1>2, Ports DEF x
  <1>6. ASSUME NEW p \in Mac, p # q PROVE Interface(p)' = Interface(p)
    <2>1. CASE \E g \in Host : p = Port(g, 1)
      BY <1>1, <1>2, <1>6, <2>1, Ports
    <2>2. CASE \E r \in Routers : \E i \in DOMAIN RouterIps[r] : p = Port(r, i)
      BY <1>2, <2>2, Ports
    <2> QED
      BY <2>1, <2>2, Ports
  <1>7. Alone(d)
    BY DEF CopyInv
  <1> HIDE DEF q
  <1>8. /\ \A i \in Taken(d)' : i \in Taken(d) \/ (i \in Nat /\ i - n \in At(queue, d))
        /\ Taken(d) \subseteq Taken(d)' /\ n \in Nat
    <2> HIDE DEF queue
    <2> DEFINE T == [dgram : Alive(sent), by : Host]
    <2>1. Len(queue) \in Nat /\ DOMAIN queue = 1..Len(queue)
          /\ \A i \in 1..Len(queue) : queue[i] \in Alive(sent)
      BY <1>4, LenProperties, ElementOfSeq DEF For
    <2>2. new \in [1..Len(queue) -> T] /\ \A i \in 1..Len(queue) : new[i].dgram = queue[i]
      BY <2>1
    <2>3. got \in Seq(T)
      BY DEF Inv, Sound
    <2> HIDE DEF new, T
    <2>4. new \in Seq(T) /\ Len(new) = Len(queue)
      BY <2>1, <2>2
    <2>5. n \in Nat /\ DOMAIN got = 1..n
      BY <2>3, LenProperties
    <2>6. /\ got' \in Seq(T) /\ Len(got') = n + Len(new)
          /\ \A i \in 1..n + Len(new) : got'[i] = IF i <= n THEN got[i] ELSE new[i - n]
      BY <1>2, <2>3, <2>4, ConcatProperties
    <2>7. DOMAIN got' = 1..n + Len(queue)
      BY <2>4, <2>6, LenProperties
    <2> HIDE DEF n
    <2>8. ASSUME NEW i \in DOMAIN got', got'[i].dgram.id = d
          PROVE  i \in Taken(d) \/ (i \in Nat /\ i - n \in At(queue, d))
      <3>1. CASE i <= n
        BY <2>4, <2>5, <2>6, <2>7, <2>8, <3>1 DEF Taken
      <3>2. CASE ~(i <= n)
        <4>1. i \in Nat /\ i - n \in 1..Len(queue) /\ got'[i] = new[i - n]
          BY <2>1, <2>4, <2>5, <2>6, <2>7, <3>2
        <4> QED
          BY <2>1, <2>2, <2>8, <4>1 DEF At
      <3> QED
        BY <3>1, <3>2
    <2>9. \A i \in DOMAIN got : i \in DOMAIN got' /\ got'[i] = got[i]
      BY <2>1, <2>4, <2>5, <2>6, <2>7
    <2> QED
      BY <2>5, <2>8, <2>9 DEF Taken
  <1>9. At(y.datagrams_out, d) = {}
    BY <1>3 DEF At
  <1>10. CASE At(queue, d) = {}
    <2>1. Taken(d)' = Taken(d)
      BY <1>8, <1>10
    <2>2. Keeps(x, y, 0, d)
      BY <1>3, <1>9, <1>10 DEF Keeps, None, Single
    <2>3. \A p \in Mac : Keeps(Interface(p), Interface(p)', 0, d)
      BY <1>5, <1>6, <2>2 DEF Keeps
    <2> QED
      BY <1>7, <2>1, <2>3, KeptAlone
  <1>11. CASE At(queue, d) # {}
    <2>1. ~None(x, 0, d) /\ Single(x, 0, d)
      BY <1>5, <1>7, <1>11 DEF None, Alone
    <2>2. Taken(d) = {} /\ \A p \in Mac : p # q => None(Interface(p), 0, d)
      BY <1>5, <1>7, <2>1 DEF Alone
    <2>3. One(At(queue, d)) /\ None(y, 0, d)
      BY <1>3, <1>9, <1>11, <2>1 DEF Single, None
    <2>4. \A p \in Mac : None(Interface(p)', 0, d)
      BY <1>5, <1>6, <2>2, <2>3
    <2>5. One(Taken(d)')
      <3>1. \A i, j \in Taken(d)' : i \in Nat /\ j \in Nat /\ i - n = j - n
        BY <1>8, <2>2, <2>3 DEF One
      <3> HIDE DEF n
      <3>2. \A i, j \in Taken(d)' : i = j
        BY <1>8, <3>1
      <3> QED
        BY <3>2 DEF One
    <2>6. \A p \in Mac : Single(Interface(p)', 0, d)
      BY <2>4, NoneSingle
    <2> QED
      BY <2>4, <2>5, <2>6 DEF Alone
  <1> QED
    BY <1>10, <1>11

\* Route
LEMMA RouteCopyInv ==
    ASSUME Inv, CopyInv, NEW r \in Routers, Route(r)
    PROVE  CopyInv'
  <1> SUFFICES ASSUME NEW d \in Nat
               PROVE  Alone(d)'
    BY DEF CopyInv
  <1> DEFINE x == router[r]
             y == R!route(x)
             I == DOMAIN RouterIps[r]
  <1>1. router' = [router EXCEPT ![r] = y] /\ host' = host /\ got' = got
    BY DEF Route
  <1>2. x \in RouterSet(r, sent) /\ DOMAIN router = Routers
    BY DEF Inv, Sound
  <1>3. ByteTtl(sent)
    BY SentTtl DEF ByteTtl
  <1>4. RouterKeeps(x, y, d) /\ y \in RouterSet(r, sent)
    BY <1>2, <1>3, RouteCopies, RouteKeeps
  <1> HIDE DEF x, y
  <1>5. DOMAIN x.interfaces = I /\ DOMAIN y.interfaces = I
    BY <1>2, <1>4 DEF RouterSet, PortsOf
  <1>6. \A i \in I : /\ Port(r, i) \in Mac /\ Interface(Port(r, i)) = x.interfaces[i]
                     /\ Interface(Port(r, i))' = y.interfaces[i]
    BY <1>1, <1>2, Ports DEF x
  <1>7. ASSUME NEW p \in Mac, \A i \in I : p # Port(r, i)
        PROVE  Interface(p)' = Interface(p)
    <2>1. CASE \E g \in Host : p = Port(g, 1)
      BY <1>1, <2>1, Ports
    <2>2. CASE \E a \in Routers : \E i \in DOMAIN RouterIps[a] : p = Port(a, i)
      <3>1. PICK a \in Routers : \E i \in DOMAIN RouterIps[a] : p = Port(a, i)
        BY <2>2
      <3>2. a # r
        BY <1>7, <3>1
      <3>3. router'[a] = router[a]
        BY <1>1, <1>2, <3>2
      <3> QED
        BY <3>1, <3>3, Ports
    <2> QED
      BY <2>1, <2>2, Ports
  <1>8. Taken(d)' = Taken(d) /\ Alone(d)
    BY <1>1 DEF Taken, CopyInv
  <1>9. CASE RouterNone(x, d)
    <2>1. \A i \in I : None(y.interfaces[i], 0, d)
      BY <1>4, <1>5, <1>9 DEF RouterKeeps, RouterNone
    <2>2. ASSUME NEW p \in Mac PROVE Keeps(Interface(p), Interface(p)', 0, d)
      <3>1. CASE \E i \in I : p = Port(r, i)
        <4>1. None(Interface(p)', 0, d)
          BY <1>6, <2>1, <3>1
        <4> QED
          BY <4>1, NoneSingle DEF Keeps
      <3>2. CASE \A i \in I : p # Port(r, i)
        BY <1>7, <3>2 DEF Keeps
      <3> QED
        BY <3>1, <3>2
    <2> QED
      BY <1>8, <2>2, KeptAlone
  <1>10. CASE ~RouterNone(x, d)
    <2>1. RouterOne(x, d)
      <3>1. \A i, j \in I : i # j => Port(r, i) # Port(r, j)
        BY Ports
      <3>2. \A i \in I : Single(x.interfaces[i], 0, d)
        BY <1>6, <1>8 DEF Alone
      <3>3. \A i, j \in I : i # j => None(x.interfaces[i], 0, d) \/ None(x.interfaces[j], 0, d)
        BY <1>6, <1>8, <3>1 DEF Alone
      <3> QED
        BY <1>5, <3>2, <3>3 DEF RouterOne
    <2>2. RouterOne(y, d)
      BY <1>4, <2>1 DEF RouterKeeps
    <2>3. PICK k \in I : ~None(Interface(Port(r, k)), 0, d)
      BY <1>5, <1>6, <1>10 DEF RouterNone
    <2>4. Taken(d)' = {}
      BY <1>6, <1>8, <2>3 DEF Alone
    <2>5. \A p \in Mac : (\A i \in I : p # Port(r, i)) => None(Interface(p)', 0, d)
      BY <1>6, <1>7, <1>8, <2>3 DEF Alone
    <2>6. \A i \in I : Single(Interface(Port(r, i))', 0, d)
      BY <1>5, <1>6, <2>2 DEF RouterOne
    <2>7. \A p \in Mac : Single(Interface(p)', 0, d)
      BY <2>5, <2>6, NoneSingle
    <2>8. CASE RouterNone(y, d)
      <3>1. \A p \in Mac : None(Interface(p)', 0, d)
        BY <1>5, <1>6, <2>5, <2>8 DEF RouterNone
      <3> QED
        BY <2>4, <2>7, <3>1, OneAlone
    <2>9. CASE ~RouterNone(y, d)
      <3>1. PICK j \in I : ~None(y.interfaces[j], 0, d)
        BY <1>5, <2>9 DEF RouterNone
      <3>2. \A i \in I : i # j => None(Interface(Port(r, i))', 0, d)
        BY <1>5, <1>6, <2>2, <3>1 DEF RouterOne
      <3>3. \A p \in Mac : p # Port(r, j) => None(Interface(p)', 0, d)
        BY <2>5, <3>2
      <3> QED
        BY <2>4, <2>7, <3>3, OneAlone
    <2> QED
      BY <2>8, <2>9
  <1> QED
    BY <1>9, <1>10

\* Fewer frames have no more places.
LEMMA FewerFrames ==
    ASSUME NEW s, NEW p, NEW x \in InterfaceSet(p, s), NEW m \in Nat, NEW d
    PROVE  (None(x, 0, d) => None(x, m, d)) /\ (Single(x, 0, d) => Single(x, m, d))
  <1>1. Framed(x.ni.frames_out, m, d) \subseteq Framed(x.ni.frames_out, 0, d)
    <2>1. x.ni.frames_out \in Seq(FrameSet(s))
      BY DEF InterfaceSet, NiSet
    <2>2. DOMAIN x.ni.frames_out \subseteq Nat
      BY <2>1, LenProperties
    <2>3. \A k \in Nat : k > m => k > 0
      OBVIOUS
    <2> QED
      BY <2>2, <2>3 DEF Framed
  <1> QED
    BY <1>1 DEF None, Single, NiNone, NiOne, One

\* Exchange: the frame that has a datagram is shown to all other ports of the link,
\* taken by the one it is for, and removed.
LEMMA ExchangeCopyInv ==
    ASSUME Inv, CopyInv, NEW link \in Link, Exchange(link)
    PROVE  CopyInv'
  <1> SUFFICES ASSUME NEW d \in Nat
               PROVE  Alone(d)'
    BY DEF CopyInv
  <1> DEFINE On(p) == p \in ToSet(link)
             n == Len(link)
             m(p) == Len(Frames(p))
             H(p, k) == Handing(p, link, k, d)
  <1>1. /\ host' = [h \in Host |->
                       IF On(Port(h, 1)) THEN Exchanged(Port(h, 1), link) ELSE host[h]]
        /\ router' = [r \in Routers |-> [router[r] EXCEPT !.interfaces =
                         [i \in DOMAIN router[r].interfaces |->
                             IF On(Port(r, i)) THEN Exchanged(Port(r, i), link)
                             ELSE router[r].interfaces[i]]]]
        /\ got' = got
    BY DEF Exchange
  <1>2. n \in Nat /\ ToSet(link) = {link[k] : k \in 1..n} /\ \A k \in 1..n : link[k] \in Mac
    <2>1. link \in Seq(Mac)
      BY NetworkAssumption
    <2> QED
      BY <2>1, LenProperties, ElementOfSeq DEF ToSet
  <1> HIDE DEF On
  <1>3. ASSUME NEW p \in Mac
        PROVE  Interface(p)' = IF On(p) THEN Exchanged(p, link) ELSE Interface(p)
    <2>1. CASE \E h \in Host : p = Port(h, 1)
      BY <1>1, <2>1, Ports
    <2>2. CASE \E r \in Routers : \E i \in DOMAIN RouterIps[r] : p = Port(r, i)
      <3>1. PICK r \in Routers : \E i \in DOMAIN RouterIps[r] : p = Port(r, i)
        BY <2>2
      <3>2. PICK i \in DOMAIN RouterIps[r] : p = Port(r, i)
        BY <3>1
      <3>3. router[r] \in RouterSet(r, sent)
        BY DEF Inv, Sound
      <3>4. DOMAIN router[r].interfaces = DOMAIN RouterIps[r]
        BY <3>3 DEF RouterSet, PortsOf
      <3>5. router'[r].interfaces = [k \in DOMAIN router[r].interfaces |->
                             IF On(Port(r, k)) THEN Exchanged(Port(r, k), link)
                             ELSE router[r].interfaces[k]]
        BY <1>1, <3>3 DEF RouterSet
      <3> QED
        BY <3>2, <3>4, <3>5, Ports
    <2> QED
      BY <2>1, <2>2, Ports
  <1>4. Taken(d)' = Taken(d) /\ Alone(d)
    BY <1>1 DEF Taken, CopyInv
  <1>5. ASSUME NEW p \in Mac
        PROVE  m(p) \in Nat /\ Framed(Frames(p), m(p), d) = {} /\ DOMAIN Frames(p) = 1..m(p)
    <2>1. Frames(p) \in Seq(FrameSet(sent))
      BY InterfaceType DEF Frames, InterfaceSet, NiSet
    <2>2. m(p) \in Nat /\ DOMAIN Frames(p) = 1..m(p)
      BY <2>1, LenProperties
    <2> QED
      BY <2>2 DEF Framed
  <1>6. ASSUME NEW p \in Mac, NEW k \in 1..n
        PROVE  H(p, k) \subseteq Framed(Frames(link[k]), 0, d)
    <2>1. DOMAIN Frames(link[k]) = 1..m(link[k]) /\ m(link[k]) \in Nat
      BY <1>2, <1>5
    <2> QED
      BY <2>1 DEF Handing, Framed, Hands
  <1>7. ASSUME NEW p \in Mac
        PROVE  /\ None(Interface(p), 0, d) => Framed(Frames(p), 0, d) = {}
               /\ One(Framed(Frames(p), 0, d))
    BY <1>4 DEF Alone, None, NiNone, Single, NiOne, Frames
  <1>8. ASSUME NEW p \in Mac
        PROVE  OneHanded(p, link, d)
    <2>1. \A k \in 1..n : One(H(p, k))
      BY <1>2, <1>6, <1>7 DEF One
    <2>2. ASSUME NEW j \in 1..n, NEW k \in 1..n, j # k
          PROVE  Either(H(p, j), H(p, k))
      <3>1. link[j] # link[k]
        <4>1. IsInjective(link) /\ link \in Seq(Mac)
          BY NetworkAssumption
        <4>2. DOMAIN link = 1..n
          BY <4>1, LenProperties
        <4> QED
          BY <2>2, <4>1, <4>2 DEF IsInjective
      <3>2. None(Interface(link[j]), 0, d) \/ None(Interface(link[k]), 0, d)
        BY <1>2, <1>4, <3>1 DEF Alone
      <3> QED
        BY <1>2, <1>6, <1>7, <3>2 DEF Either
    <2> QED
      BY <2>1, <2>2 DEF OneHanded
  <1>9. ASSUME NEW p \in Mac, On(p)
        PROVE  /\ (\A k \in 1..n : H(p, k) = {})
                      => /\ None(Interface(p), m(p), d) => None(Interface(p)', 0, d)
                         /\ Single(Interface(p), m(p), d) => Single(Interface(p)', 0, d)
               /\ None(Interface(p), m(p), d) => Single(Interface(p)', 0, d)
    BY <1>3, <1>8, <1>9, ExchangedCopies
  <1> HIDE DEF n
  <1>10. CASE \A p \in Mac, k \in 1..n : H(p, k) = {}
    <2> HIDE DEF H
    <2>1. ASSUME NEW p \in Mac PROVE Keeps(Interface(p), Interface(p)', 0, d)
      <3>1. CASE On(p)
        <4>1. (None(Interface(p), 0, d) => None(Interface(p), m(p), d))
              /\ (Single(Interface(p), 0, d) => Single(Interface(p), m(p), d))
          BY <1>5, InterfaceType, FewerFrames
        <4> QED
          BY <1>9, <1>10, <3>1, <4>1 DEF Keeps
      <3>2. CASE ~On(p)
        BY <1>3, <3>2 DEF Keeps
      <3> QED
        BY <3>1, <3>2
    <2> QED
      BY <1>4, <2>1, KeptAlone
  <1>11. ASSUME NEW to \in Mac, NEW j \in 1..n, NEW i \in H(to, j)
         PROVE  Alone(d)'
    <2> DEFINE from == link[j]
    <2>1. /\ from \in Mac /\ On(from) /\ i \in Framed(Frames(from), 0, d)
          /\ Hands(Frames(from)[i], to, d)
      BY <1>2, <1>6 DEF On, Handing
    <2>2. ~None(Interface(from), 0, d)
      BY <1>7, <2>1
    <2>3. Taken(d) = {} /\ \A p \in Mac : p # from => None(Interface(p), 0, d)
      BY <1>4, <2>1, <2>2 DEF Alone
    <2>4. None(Interface(from), m(from), d)
      <3>1. Single(Interface(from), 0, d)
        BY <1>4, <2>1 DEF Alone
      <3>2. Framed(Frames(from), m(from), d) = {}
        BY <1>5, <2>1
      <3> QED
        BY <2>1, <3>1, <3>2 DEF Single, None, NiNone, NiOne, Frames
    <2>5. \A p \in Mac : None(Interface(p), m(p), d)
      BY <1>5, <2>3, <2>4, InterfaceType, FewerFrames
    <2>6. ASSUME NEW p \in Mac, p # to, NEW k \in 1..n
          PROVE  H(p, k) = {}
      <3> SUFFICES ASSUME NEW l \in H(p, k) PROVE FALSE
        OBVIOUS
      <3>1. link[k] \in Mac /\ l \in Framed(Frames(link[k]), 0, d)
            /\ Hands(Frames(link[k])[l], p, d)
        BY <1>2, <1>6 DEF Handing
      <3>2. link[k] = from
        BY <1>7, <2>3, <3>1
      <3>3. l = i
        BY <1>7, <2>1, <3>1, <3>2 DEF One
      <3> QED
        BY <2>1, <2>6, <3>1, <3>2, <3>3 DEF Hands
    <2> HIDE DEF H, from
    <2>7. ASSUME NEW p \in Mac, p # to PROVE None(Interface(p)', 0, d)
      <3>1. CASE On(p)
        BY <1>9, <2>5, <2>6, <2>7, <3>1
      <3>2. CASE ~On(p)
        <4>1. p # from
          BY <2>1, <3>2
        <4> QED
          BY <1>3, <2>3, <3>2, <4>1
      <3> QED
        BY <3>1, <3>2
    <2>8. Single(Interface(to)', 0, d)
      <3>1. CASE On(to)
        BY <1>9, <2>5, <3>1
      <3>2. CASE ~On(to)
        <4>1. to # from
          BY <2>1, <3>2
        <4> QED
          BY <1>3, <2>3, <3>2, <4>1, NoneSingle
      <3> QED
        BY <3>1, <3>2
    <2>9. \A p \in Mac : Single(Interface(p)', 0, d)
      BY <2>7, <2>8, NoneSingle
    <2> QED
      BY <1>4, <2>3, <2>7, <2>9, OneAlone
  <1> QED
    BY <1>10, <1>11

\* Every step preserves the invariant.
LEMMA NextCopyInv == Inv /\ CopyInv /\ [Next]_vars => CopyInv'
  <1> SUFFICES ASSUME Inv, CopyInv, [Next]_vars PROVE CopyInv'
    OBVIOUS
  <1>1. CASE Next
    BY <1>1, AddRouteCopyInv, RouteCopyInv, SendToCopyInv, CheckCopyInv, ExchangeCopyInv DEF Next
  <1>2. CASE UNCHANGED vars
    BY <1>2 DEF vars, CopyInv, Alone, Taken, Interface
  <1> QED
    BY <1>1, <1>2

\* A place where d is.
LEMMA PlaceOf ==
    ASSUME Inv, NEW d, NEW x \in Places(d)
    PROVE  \/ \E p \in Mac : \E k \in At(Interface(p).datagrams_out, d) : x = <<p, "queue", k>>
           \/ \E p \in Mac : \E k \in Framed(Interface(p).ni.frames_out, 0, d) : x = <<p, "frame", k>>
           \/ \E p \in Mac : \E ip \in DOMAIN Interface(p).ni.Queuing_List_Map :
                  \E k \in Held(Interface(p).ni.Queuing_List_Map, ip, d) : x = <<p, "held", <<ip, k>>>>
           \/ \E i \in Taken(d) : x = <<Port(got[i].by, 1), "taken", i>>
  <1>1. ASSUME NEW p \in Mac, NEW k \in DOMAIN Frames(p) PROVE k > 0
    <2>1. Frames(p) \in Seq(FrameSet(sent))
      BY InterfaceType DEF Frames, InterfaceSet, NiSet
    <2>2. DOMAIN Frames(p) = 1..Len(Frames(p)) /\ Len(Frames(p)) \in Nat
      BY <2>1, LenProperties
    <2> QED
      BY <2>2
  <1>2. ASSUME NEW p \in Mac
        PROVE  Framed(Frames(p), 0, d) = {k \in DOMAIN Frames(p) :
                   Frames(p)[k].type = "IPv4" /\ Frames(p)[k].dgram.id = d}
    BY <1>1 DEF Framed
  <1> DEFINE queued == UNION {{<<p, "queue", k>> : k \in At(Interface(p).datagrams_out, d)} :
                                 p \in Mac}
             frames == UNION {{<<p, "frame", k>> : k \in {k \in DOMAIN Frames(p) :
                                 Frames(p)[k].type = "IPv4" /\ Frames(p)[k].dgram.id = d}} :
                                 p \in Mac}
             held == UNION {UNION {{<<p, "held", <<ip, k>>>> :
                                 k \in Held(Interface(p).ni.Queuing_List_Map, ip, d)} :
                                 ip \in DOMAIN Interface(p).ni.Queuing_List_Map} : p \in Mac}
             taken == {<<Port(got[i].by, 1), "taken", i>> : i \in Taken(d)}
  <1>3. Places(d) = queued \union frames \union held \union taken
    BY Zenon DEF Places, At, Held, Taken
  <1>4. CASE x \in queued
    BY <1>4
  <1>5. CASE x \in frames
    <2>1. PICK p \in Mac : x \in {<<p, "frame", k>> : k \in {k \in DOMAIN Frames(p) :
                  Frames(p)[k].type = "IPv4" /\ Frames(p)[k].dgram.id = d}}
      BY <1>5
    <2>2. \E k \in Framed(Frames(p), 0, d) : x = <<p, "frame", k>>
      BY <1>2, <2>1
    <2> QED
      BY <2>2 DEF Frames
  <1>6. CASE x \in held
    BY <1>6
  <1>7. CASE x \in taken
    BY <1>7
  <1> HIDE DEF queued, frames, held, taken
  <1> QED
    BY <1>3, <1>4, <1>5, <1>6, <1>7

\* exchange_frames shows a frame to every port of a link and an ARP reply lets whole lists
\* go, but wherever a datagram is under way, held or taken, it is there once and nowhere
\* else.
THEOREM NeverCopied == Spec => []OneCopy
  <1>1. ASSUME Inv, CopyInv
        PROVE  OneCopy
    <2> SUFFICES ASSUME NEW d \in DOMAIN sent, NEW x \in Places(d), NEW y \in Places(d)
                 PROVE  x = y
      BY DEF OneCopy
    <2>1. Alone(d)
      <3>1. sent \in Seq([dst : Addr, ttl : 0..255])
        BY <1>1 DEF Inv, Sound
      <3>2. d \in Nat
        BY <3>1, LenProperties
      <3> QED
        BY <1>1, <3>2 DEF CopyInv
    <2> DEFINE Queued(z, p) == \E k \in At(Interface(p).datagrams_out, d) : z = <<p, "queue", k>>
               Sent(z, p) == \E k \in Framed(Interface(p).ni.frames_out, 0, d) : z = <<p, "frame", k>>
               Kept(z, p) == \E ip \in DOMAIN Interface(p).ni.Queuing_List_Map :
                  \E k \in Held(Interface(p).ni.Queuing_List_Map, ip, d) : z = <<p, "held", <<ip, k>>>>
               At1(z, p) == Queued(z, p) \/ Sent(z, p) \/ Kept(z, p)
               Got(z) == \E i \in Taken(d) : z = <<Port(got[i].by, 1), "taken", i>>
    <2>2. \A z \in Places(d) : Got(z) \/ \E p \in Mac : At1(z, p)
      BY <1>1, PlaceOf
    <2>3. ASSUME NEW z, NEW p \in Mac, At1(z, p) PROVE ~None(Interface(p), 0, d)
      BY <2>3 DEF None, NiNone, ListsNone
    <2>4. ASSUME NEW p \in Mac, At1(x, p), At1(y, p) PROVE x = y
      <3>1. Single(Interface(p), 0, d)
        BY <2>1 DEF Alone
      <3>2. CASE Queued(x, p)
        BY <2>4, <3>1, <3>2 DEF Single, NiNone, ListsNone, One
      <3>3. CASE Sent(x, p)
        BY <2>4, <3>1, <3>3 DEF Single, NiNone, NiOne, ListsNone, One
      <3>4. CASE Kept(x, p)
        BY <2>4, <3>1, <3>4 DEF Single, NiNone, NiOne, ListsNone, ListsOne, Either, One
      <3> QED
        BY <2>4, <3>2, <3>3, <3>4
    <2> HIDE DEF At1
    <2>5. CASE Got(x) /\ Got(y)
      BY <2>1, <2>5 DEF Alone, One
    <2>6. CASE ~(Got(x) /\ Got(y))
      <3>1. Taken(d) = {}
        BY <2>1, <2>2, <2>3, <2>6 DEF Alone
      <3>2. ~Got(x) /\ ~Got(y)
        BY <3>1
      <3>3. PICK p \in Mac : At1(x, p)
        BY <2>2, <3>2
      <3>4. PICK q \in Mac : At1(y, q)
        BY <2>2, <3>2
      <3>5. p = q
        BY <2>1, <2>3, <3>3, <3>4 DEF Alone
      <3> QED
        BY <2>4, <3>3, <3>4, <3>5
    <2> QED
      BY <2>5, <2>6
  <1> QED
    BY <1>1, InitInv, NextInv, InitCopyInv, NextCopyInv, PTL DEF Spec
=============================================================================
