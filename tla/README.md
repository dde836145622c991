# A TLA+ development of the sponge TCP/IP stack

`src/src/sponge` is a user-space TCP/IP stack in C++ (the CS144 "sponge" labs): a
bounded byte stream, a reassembler, a TCP receiver and sender, the connection that
joins them, an ARP network interface and a router, with sockets, adapters and
applications around them. This directory models the library classes under
`libsponge/` and the programs that drive them in TLA+, checks them with TLC on small instances and proves theorems
about them with TLAPS. Paths below are relative to `src/src/sponge`.

`PROJECT.json` maps every definition to the lines it models and lists the runs, the
mutants that show each property can fail, the hazards and the theorems.

## 1. Inventory

| Component | State | Operations | Talks to |
|---|---|---|---|
| `ByteStream` | buffer, bytes written and read, end flag, error flag | `write`, `read`/`pop_output`, `end_input`, `set_error` | used by reassembler and sender |
| `wrap`/`unwrap` | none | conversion between 32-bit and 64-bit sequence numbers | receiver, sender |
| `StreamReassembler` | set of non-adjacent substrings, index of the next byte, index of the end, count of unassembled bytes | `push_substring` | writes an output `ByteStream` |
| `TCPReceiver` | SYN/FIN flags, isn, next expected number | `segment_received`, `ackno`, `window_size` | calls the reassembler |
| `TCPSender` | outbound `ByteStream`, outstanding segments, timer, retransmission count, window | `fill_window`, `ack_received`, `tick`, `send_empty_segment` | queues segments for the connection |
| `TCPConnection` | sender, receiver, active and linger flags, time since last segment | `connect`, `write`, `end_input_stream`, `segment_received`, `tick`, destructor | the socket's event loop |
| `NetworkInterface` | ARP cache, lists of held datagrams, two kinds of clocks | `send_datagram`, `recv_frame`, `tick` | frames on a link |
| `Router`, `AsyncNetworkInterface` | interfaces, routing table, queues of datagrams received | `add_interface`, `add_route`, `route` | its interfaces |
| `EventLoop` | a list of rules (descriptor, direction, callback, interest, cancel) | `add_rule`, `wait_next_event` | the owner's functions, `poll` |
| `TCPSpongeSocket` | the connection, two threads, a socket pair, `_abort`, two shutdown flags | `connect`, `listen_and_accept`, the four rules, `_tcp_main`, `wait_until_closed`, destructor | owner's thread, adapter |
| `bidirectional_stream_copy`, `webget` | two byte streams, two shutdown flags, the standard streams | four rules; or write, read to the end, shutdown | the socket |
| adapters (UDP, TUN, TAP, lossy) | two addresses, the listening flag, an ARP interface | `read`, `write`, `tick` | the device, the connection |
| TCP, IPv4, ARP, Ethernet formats, `NetParser`, `InternetChecksum` | header fields | `parse`, `serialize` | adapters, `NetworkInterface` |
| `FileDescriptor`, `Socket` | eof and closed flags, service counts | `read`, `write`, `shutdown` | the kernel |
| `Address`, `Buffer`, `TunFD`, other applications | - | system calls, formatting | - |

How the parts interact. The application writes to a socket; the TCP thread's event
loop moves bytes into the connection (rule 2), delivers segments to it (rule 1),
takes bytes from it (rule 3) and sends what it has queued (rule 4), and calls `tick`.
Most applications run an event loop of their own on the other end of the socket pair,
between it and their standard streams. An adapter puts segments into UDP payloads, IPv4
datagrams or Ethernet frames and decides which of those it reads are the connection's.
The connection passes a segment first to the receiver, then its ackno and window to
the sender, and stamps every segment that leaves with the receiver's ackno and
window. Below, a datagram goes to a `NetworkInterface`, which may have to hold it
until ARP answers, and through `Router`s.

What is hard here, and a unit test hardly reaches:

- Segments are lost, repeated and overtake each other, in the handshake, the data
  and the close, while the timers of both ends run.
- Bookkeeping kept by increments over long sequences of calls: the reassembler's
  nodes and count, the sender's outstanding queue, timer and back-off.
- Sequence numbers wrap; members are narrower than what is stored in them.
- The end of a connection is decided from indirect evidence (`eof()` and
  `bytes_in_flight()`), and one of the ends lingers.
- Early returns (a window update that acknowledges nothing does not send) must not
  leave a sender with data and no timer.
- ARP answers race with datagrams, and mappings expire while they are used.
- Frames are shown to every port of a link and routes may form loops.
- Two threads share a socket pair with bounded buffers; each acts on what its last
  `poll` saw, and either may shut the pair down first, fail or be told to abort.
- Callbacks write a part of what they were given; `EventLoop` throws at a callback that
  serves nothing and stays interested.
- What arrives may be damaged, cut short or somebody else's, and several `parse` results
  are ignored on the way up.

What makes each component correct:

- ByteStream: no byte lost, repeated or reordered; capacity respected; counters exact.
- wrap/unwrap: the closest number, and the one that was sent within half the space.
- StreamReassembler: the reader gets exactly the longest known prefix; the stream
  ends when, and only when, it is complete.
- TCPSender: the timer runs exactly while something is outstanding, what is
  outstanding is what is unacknowledged, payloads respect the window, it never stalls.
- TCPConnection: the streams delivered are prefixes of those sent; a clean close
  means both FINs were exchanged; connections end.
- NetworkInterface: the cache is the news of the last 30 s; a held datagram leaves
  once, when its host answers.
- Router: longest prefix, one copy, right host, no eternal loops, delivery.
- TCPSpongeSocket, EventLoop and the programs on them: no byte lost or repeated between
  the connection and the standard streams, no exception, both threads end.
- Adapters and formats: what the peer sent gets through, nothing else does, and a
  listening adapter belongs to its first SYN.

## 2. Modules

A component is a module of operators named after its methods: each takes the object,
a record whose fields are the members (without the leading underscore), and returns
the object after the call. A `...Spec` module puts one object in the environment that
drives it, one action per call; `TCPPair`, `RouterNetwork`, `SocketApp` and `WireSpec`
compose several.

| Module | Models |
|---|---|
| `ByteStream`, `ByteStreamSpec` | `byte_stream.*`; any sequence of calls on one stream |
| `ByteStreamProofs` | the theorems about `ByteStreamSpec` |
| `WrappingIntegers` | `wrapping_integers.*` |
| `NumberProofs` | the theorems about `WrappingIntegers`, and induction for the other proofs |
| `StreamReassembler`, `ReassemblerSpec` | `stream_reassembler.*`; substrings of one stream in any order |
| `ReassemblerAbstract` | what a reassembler promises: a set of known positions |
| `ReassemblerProofs` | the theorems about `ReassemblerSpec`, the refinement included |
| `TCPSegment`, `TCPReceiver` | the header fields that matter; `tcp_receiver.*` |
| `TCPSender`, `TCPSenderSpec` | `tcp_sender.*`; one sender and any peer that only advances |
| `TCPSenderProofs` | the theorems about `TCPSenderSpec` |
| `TCPConnection` | `tcp_connection.*`, the destructor included |
| `TCPState` | `tcp_helpers/tcp_state.*`: the RFC 793 state a connection looks like |
| `TCPPair`, `MCTCPPair` | two connections, their applications and the network |
| `TCPPairProofs` | the theorems about `TCPPair` |
| `NetworkInterface`, `NetworkInterfaceSpec` | `network_interface.*`; one interface and the hosts of its link |
| `NetworkInterfaceProofs` | the theorems about `NetworkInterfaceSpec` |
| `Router`, `RouterNetwork`, `MCRouterNetwork` | `router.*` and the network of `apps/network_simulator.cc` |
| `RouterProofs` | the theorems about `RouterNetwork` |
| `EventLoop` | `util/eventloop.*`: the two passes of `wait_next_event` |
| `SocketPair` | `socketpair(2)` and the calls of `util/file_descriptor.cc` and `socket.cc` that reach it |
| `TCPSpongeSocket` | `tcp_helpers/tcp_sponge_socket.*`: the TCP thread and its four rules |
| `StreamCopy` | `apps/bidirectional_stream_copy.cc`: the owner's four rules |
| `SocketApp` | a program: both threads, the socket pair, the network and the standard streams |
| `NetParser` | `util/parser.*` and the checksum of `util/util.cc` |
| `IPv4Datagram`, `TCPWire`, `EthernetFrame` | the formats: `ipv4_*`, `tcp_header.cc` and `tcp_segment.cc`, `ethernet_*` and `arp_message.*` |
| `FdAdapters` | `fd_adapter.*`, `tcp_over_ip.*`, `tuntap_adapter.*`, `lossy_fd_adapter.hh` |
| `WireSpec` | a segment's way from one program to another, over any of the adapters |
| `WireProofs` | the theorems about `WireSpec` |

Conventions and abstractions.

- Bytes are numbered by their place in the stream, so that a misplaced byte shows.
  Other payloads and addresses are model values or small numbers.
- Integer widths are constants (`Mod16`, `Mod32`, `Mod64`): the code's truncations
  and unsigned wrap-arounds are kept, with small moduli.
- The code's two set-erasing loops of `push_substring`, the loop of `fill_window` and
  the others are folds or recursive functions with the code's order of steps.
- A call and the draining of the queue it fills is one step. That is how the owner
  works: `tcp_sponge_socket.cc` sends everything in `segments_out()` before the next
  event; the same holds for `frames_out()`.
- Time is in units of one tick. Clocks that are only compared with a limit stop there.
- Logging, `to_string` and `summary` are left out. Formats and checksums are left out
  of the modules about connections, interfaces and routers, where a segment or frame is
  a record; `TCPWire`, `IPv4Datagram` and `EthernetFrame` have them byte for byte.
- In `SocketApp` a step of a thread is what it does between two system calls the other
  thread may see: one `poll`, one callback, or the end of a turn of `_tcp_loop` with the
  first pass of the next `wait_next_event`. What a `poll` saw is kept and acted upon
  later. The connection is what the thread sees of it: the handshake, the two streams,
  whether something is in flight, and the ways it ends. `TCPPair` has the rest; there the
  network does what here the peer (`Speak`) may do.
- So `segment_received` of `TCPSpongeSocket` is a reduction of `tcp_connection.cc:23-82`. The
  peer's bytes come in order and once, which is how the reassembler hands on what has come
  out of order or twice. Its first FIN, without payload, comes at any time, also ahead of
  bytes, which then come late or never: beyond the window it is remembered until the bytes
  have come up to it, within the window it ends the inbound stream at once
  (`stream_reassembler.cc:109`), and later bytes are written to the stream all the same. Left
  out are crossing SYNs (`:50`), repeated segments and our own retransmissions, which at
  this level are one more segment to send. `InTransit`, `DiesOnlyByFault` and
  `PeerStreamCopied` are about this reduced connection. The last two moreover set a FIN that
  ended the stream too early apart, as one of the `faults`; the deviations in section 3
  say what happens then.
- In `WireSpec` numbers are the first `Mod32` of the 32-bit field, 4 in the run, any even
  number up to the program's 2^32 in the proof; everything else in a packet has the
  program's width. The checkpoint of `unwrap` is `cur_idx` of a reassembler, which moves up
  to the end of what was heard or, if something before it is missing, stays
  (`tcp_receiver.cc:38-41`). A packet over UDP is not damaged, since the kernel checks it.
  The formats are kept byte for byte, although most properties need only fields: that
  single damages are caught depends on which bytes each checksum covers, and `PeerIsHeard`
  on lengths and offsets that four `parse` functions read off each other's bytes.
- In `TCPPair` the owner of a connection is the event loop of `TCPSpongeSocket`:
  `Connect`, `Write`, `EndInput`, `Read`, `Deliver` and `Tick` are its rules, `Quit`
  is the destruction of a live connection after an abort (`_tcp.reset()`), whose RST
  is destroyed with the queue it is in.
- In `RouterNetwork` routes are all given before traffic starts, as in the constructor
  of `Network`; routing, exchanges and checks then come in any order.

## 3. Runs

Passing runs:

- `byte_stream`: `TypeOK`, `Conservation`, `FIFO`. Capacity 3, writes of up to 4
  bytes (more than fits), 8 bytes in all.
- `reassembler`: `CountedOnce` (the count of unassembled bytes is the number of positions
  buffered), `NodesApart`, `EndedOnceComplete` and the refinement `Implements` of `ReassemblerAbstract`. A stream of 8 bytes through a
  window of 5: three separate nodes can be buffered at once and merged from either side,
  and substrings reach beyond the window.
- `sender`: the sender with up to two acknowledgments still to arrive in either order
  and any number of times, windows 0 to 2, three bytes in segments of up to two, a
  sequence number that wraps during the connection, and one back-off before the limit.
- `pair_one_loss`, in two plans. In one both peers may open (so simultaneous open
  happens), each sends a byte and any one segment is lost. In the other the client opens
  and sends a byte, nothing is lost, but three times a clock moves on while segments
  are in flight: originals and retransmissions cross, and an end may give up while the
  answer is on its way. `Terminates`: both ends come to an end. `ClosesCleanly`: if
  nothing was lost or late they end without error and every byte was read.
  `AckedIsReceived`: no end believes more of its stream acknowledged than its peer has
  assembled. `InOfficialState` and `FollowsDiagram`: read off by `TCPState`, each
  connection is in exactly one state of RFC 793 and moves along the arrows of its
  diagram, or along two where one segment does two things. (Once a SYN is lost the other
  end's ACK can establish a sender whose receiver still waits for the SYN, a combination
  with no name; so can reordering.)
- `pair_lossy`: two losses, any order of delivery, an application that aborts.
  `DeliversPrefix`, `CleanCloseSaidFin`.
- `network_interface`: two hosts, two Ethernet addresses they may swap, two datagrams,
  a cache time of 3 and a request wait of 2: expiry, re-learning, requests to others
  and messages not for us all interleave.
- `router`: two routers whose default routes point at each other, three hosts on two
  networks, one of them shared by a router and two hosts, one host the next hop of a route,
  two datagrams out of seven kinds (delivered, looping, for an absent host, for the network
  behind the host, sent with a ttl of zero). All orders of adding routes, whose prefixes have
  no bit set beyond their length. `LongestPrefix` (the search finds a longest entry of which
  the leading bits match), `NeverSpent` (a datagram never has more ttl than it was sent with,
  is never down to zero unless sent so, and has lost some once a router has framed it),
  `OneCopy`, `RightHost`, `Settles`, `SomeArrive`.
- `socket`: the program that copies its standard streams, as client and as server, and
  `webget`, each with its two threads. The receiver's buffer holds two bytes, every other
  one, and the peer says three, so that each is full at times, writes are partial, and a FIN
  may come ahead of bytes within the window and beyond it. Segments for somebody else come at
  any time, and one fault: a reset, a connection given up, a standard output that breaks, or
  a FIN that overtakes bytes and ends the peer's stream without them. `InTransit`: the
  buffers between the input and the network, and between the network and the output, hold
  together exactly the bytes in between, in order, also when bytes come after the end.
  `DiesOnlyByFault`: no callback throws, none is caught in a busy wait, and without a fault
  no thread writes to a pipe that was shut down. `PeerStreamCopied`: a program that ends
  without a fault has printed what the peer said. Both hold only as long as the FIN does not
  end the stream ahead of its bytes. `Terminates` holds with faults, too. A segment that
  comes while the thread serves its rules is seen by its next `poll` at the earliest, so
  the model lets segments come only before a `poll`.
- `wire`: a client and strangers (another host, another program of the client's host, a
  wrong port, a wrong address) send SYNs, resets and data over UDP, TUN or TAP to a server
  that listens or is connected; any byte of an IPv4 datagram or of the frame around it is
  set to 0 or 255 or incremented, or the end is cut off anywhere; the lossy adapter drops
  what it has read; ARP requests and replies cross the wire as frames and mappings expire.
  `EndToEnd`: what gets through is the peer's segment, unchanged, and `unwrap` finds its
  number if it is less than half the space away. `PeerIsHeard`: what the peer sent and
  nothing harmed gets through. `LockedOn`: a listening adapter locks on once. `Closest`:
  `unwrap` returns a closest number, also near zero. A number space of 4 and absolute
  numbers up to 6 wrap around twice.

In `TCPPair` the numbers space is 16 and the two isns are 14 and 13, so that the
client's numbers wrap in its handshake and the server's in its data; the retransmission
limit is 1 (the paths "below", "at" and "above" the limit all exist), payloads are one
byte, the linger time two ticks. A run's `Plans` say what each peer sends, who opens,
how many segments are lost (`max_lost`) and how many ticks come early (`max_early`), with
segments in flight; `NetBound` stops the clock
while that many segments are in flight to the peer: it bounds how many copies of one
segment can pile up. Two losses are enough to lose a segment and its retransmission.
`CHECK_DEADLOCK FALSE` appears only where the system stops when its work is done.

Violation runs, each a disagreement between the code and its own documents:

- `pair_lost_data` (`EofIsComplete`): `stream_reassembler.cc:109` ends the output on
  `eof && empty()`. An empty FIN that arrives when a data segment was lost finds
  nothing buffered, so the inbound stream ends without the data, and the FIN is
  acknowledged. `stream_reassembler.hh:48` makes the end the last byte of the substring
  that carries eof. The same happens when a full window cuts the last substring to
  nothing.
- `pair_quit` (`AbortIsHeard`): the destructor queues a RST that nobody sends
  (`tcp_connection.cc:180`; `tcp_connection.hh:96` says it "sends a RST"). A peer with
  nothing in flight then waits for ever.
- `network_interface_drop` (`NoneDropped`): the second datagram for a next hop that is
  being asked about is pushed on a copy of the list (`network_interface.cc:81`);
  `reports/lab6.md:92` wants it queued.

### Fairness

`ClosesCleanly`, `Terminates` and `AbortIsHeard` assume that each peer's loop is not
starved: `_tcp_loop` polls all its rules and calls `tick` on every pass as long as the
connection is active. A segment that was not lost is delivered in the end. Fairness of
an action that calls a connection, a router or an interface is written as
`<>[]guard => []<><<A>>_vars`, which is weak fairness with the guard written out (an action whose guard holds is possible and changes the state); TLC
evaluates that much faster than `ENABLED` of these actions. `Lose` and `Quit` are not
fair. `HeldLeaves` assumes that a host that was asked answers. `Settles` and
`SomeArrive` assume that `simulate()` goes on routing, exchanging and checking.

`Terminates` of `socket` assumes that both threads are scheduled; that the peer goes on
with what it has to say and acknowledges what it is sent, and that segments for somebody
else do not keep it out for ever (strong fairness: the adapter may hold one of them in
between; it is not owed bytes that a FIN has overtaken); that time passes, so that the
linger time is over at the end of some turn of `_tcp_loop` if it keeps being awaited
(strong fairness: the thread polls in between); and that somebody ends the standard input.
The last is needed, see the deviations. Nothing is assumed of faults.

### Known deviations that no run shows

The models keep these; the properties are stated so as not to claim otherwise.

- `ByteStream::write` accepts bytes after `end_input` (`byte_stream.cc:14` against
  `byte_stream.hh:12-13`). The reassembler does that when bytes come after a FIN that has
  overtaken them, see below.
- `_input_end_idx` starts as `INT32_MAX` (`stream_reassembler.hh:29`): a stream of that
  many bytes ends without an eof. `Int32Max` is out of reach in the runs.
- A late acknowledgment overwrites the window (`tcp_sender.cc:81`); with a right edge
  behind the next number the unsigned free space (`:56`) underflows and data leaves the
  window (`tests/send_extra.cc:364` wants it respected). `PayloadInWindow` is claimed
  until an acknowledgment has arrived late.
- The FIN is added when the segment is shorter than the whole window, not than what is
  left of it (`tcp_sender.cc:62` against `tests/send_extra.cc:236`): it may stick out by
  one.
- `end_of_front` and `_rcv_base` are 32 bits wide (`tcp_sender.cc:91`): after 2^32
  numbers the sender no longer tells what is acknowledged.
- `segment_received` uses ackno without the ack flag (`tcp_connection.cc:70`): for isn
  2^32-1 the default 0 acknowledges the SYN.
- After five seconds each datagram sends a request, since a request does not restart
  the list's clock (`network_interface.cc:82`).
- A route prefix with bits set beyond its length matches nothing, since the masked
  destination is compared with the whole prefix (`router.cc:44`). `router.cc:22` says that the
  leading `prefix_length` bits "will need to match"; `network_simulator.cc:232` adds such a
  route, 128.30.76.255/16. `LongestPrefix` says what the comment says (`IsFor`), and is false
  of such a table; the run's routes have none, and the theorem assumes it (`ProperRoutes`).
- A host whose address is somebody's next hop (as `default_router` in
  `network_simulator.cc`) is handed datagrams that are not for it, and `RightHost` lets it.
- A RST is sent once and there is no keepalive: with early ticks and a lost RST a peer
  may stay half-open, which is why the plan with early ticks loses nothing.
- `AckedIsReceived` is claimed only for a network that loses nothing and keeps the order:
  otherwise the FIN of `pair_lost_data` acknowledges data nobody has.
- `IPv4Datagram::parse` ignores what `IPv4Header::parse` returns (`ipv4_datagram.cc:13`),
  so a datagram with a wrong version, header checksum or length goes on (`ipv4_header.cc:14-22`
  lists the results it should give); `TCPSegment::parse` goes on after a header that is
  too short, and `EthernetFrame::parse` takes a frame shorter than its header for one with
  a header of zeros. The wire run shows that the TCP checksum over the pseudo-header
  catches all single damages that matter. It does not tell 0x0000 from 0xffff in a 16-bit
  word, which no single byte can turn into each other.
- Over UDP the ports of the segment are not looked at, only the source address of the
  datagram (`fd_adapter.cc:25`; the comment at `:12-14` says the ports are checked).
- After the peer's stream has ended and is printed, rule 1 of `bidirectional_stream_copy`
  is no longer interested (`:38`, since closing the output cancels rule 4 with an error,
  `:83`), so what is typed is never sent. If the end of the peer's stream was seen while the
  loop was already waiting for the input, it waits for the user (`:87`, no timeout).
  `bidirectional_stream_copy.hh:6` promises to copy "until finished".
- A FIN without payload that overtakes bytes of the peer's ends the inbound stream
  (`stream_reassembler.cc:109`, the cause of `pair_lost_data`). If the bytes never come, the
  program ends without an error and has printed less than the peer said (`webget.cc:16-18`
  wants "everything the server sends back"). If they come late, rule 3 has shut the pipe
  down (`tcp_sponge_socket.cc:137`), they are written to the ended stream and make it
  interested again (`:149`), and its write (`:133`) raises SIGPIPE, against the "reliable data
  stream" of `tcp_sponge_socket.hh:109`. Both are behaviours of `SocketApp`, with
  "overtaken" in `faults`: `DiesOnlyByFault` and `PeerStreamCopied` assume that the FIN does
  not end the stream ahead of its bytes.
- After a reset rule 3 shuts the pipe down although a partial write may have left bytes
  in the inbound stream (`tcp_sponge_socket.cc:136`); it stays interested, and its next
  write raises SIGPIPE. So does an owner that writes after the connection has failed, and
  a standard output nobody reads. `DiesOnlyByFault` excludes this only without a fault.
- `connect` returns, and `main` goes on to copy, also if the connection was refused or
  given up (`tcp_sponge_socket.cc:225`).
- A rule without interest still reports hangups (`eventloop.cc:86`), so a loop with a
  descriptor that hung up turns without waiting until its other rules are done; and
  `_tcp_main` shuts down the owner's descriptor from the other thread (`:261`), which
  counts a read and a write there without a lock.

## 4. Proofs

Each section names the theorems, what they assume of the constants, and the inductive
invariant. Where the model uses a recursive function, the proof first shows that the function
exists (the definition is a `CHOOSE`) and then what it computes, both by induction on
naturals: `NumberProofs` derives from the well-foundedness of `<` that a nonempty set of
naturals has a least member (`LeastNatural`), and from that induction for a property given as
a set (`Induction`).

`ByteStreamProofs` proves, for every capacity and every sequence of calls,
`Spec => []TypeOK` (`TypeCorrect`), `Spec => []Conservation` (`BytesConserved`) and
`Spec => []FIFO` (`ReadsInOrder`), from `CapacityAssumption` only.

The argument. None of the last two is inductive alone: that a write keeps the order
needs to know that the buffer ends at `write_bytes`, which is `Conservation`, and
that needs the buffer's type. The inductive invariant `Inv` is the conjunction of the
three. `InvIsRun` restates it: the buffer is the run of the numbers that follow
`read_bytes` up to `write_bytes`. `RunAppend` (a run followed by the next run is a run)
gives `write`, `RunSplit` (both parts of a run cut in two are runs) gives `pop_output`,
and `AtMostBounds` bounds what each takes. The other actions do not touch the buffer.

`NumberProofs` proves, for any `Mod32`, isn and checkpoint (with `checkpoint + Mod32` at most
half of `Mod64`, so that the 64-bit arithmetic of `unwrap` does not overflow):
`UnwrapOfWrap`, `unwrap` undoes `wrap` for numbers less than half the space from the
checkpoint; and `UnwrapIsClosest`, what it returns is congruent to what it was given and no
natural number that is, is closer. Both rest on uniqueness of the remainder (`ModUnique`) and
on numbers that differ by a multiple being equal or a whole space apart (`Apart`).

`WireProofs` proves the action property `LockedOn` (`StaysLockedOn`) by the case split of the adapters' `read`, and `Spec => []Closest`
(`HeardIsClosest`) from `UnwrapIsClosest`, for any even `Mod32` up to 2^32. The invariant is that
the checkpoint stays within `MaxAbs`, so that `unwrap` does not overflow 64 bits.

`NetworkInterfaceProofs` proves, for any hosts, Ethernet addresses, timeouts and number
of datagrams, `Spec => []HeldOnlyIfUnknown` (`NothingHeldForKnown`),
`Spec => []HeldWasAsked` (`NothingHeldUnasked`), `Spec => []CacheIsNews`
(`CacheHoldsTheNews`) and `Spec => []LeavesOnce` (`DatagramLeavesOnce`), from
`LinkAssumption`: the timeouts are positive and our addresses are nobody else's.

The argument. `CacheIsNews` compares the cache with the ages of the announcements, but
`tick` erases by the entry's own clock. `Inv` therefore says that the cache is exactly
the function `News`, each entry with the age of its announcement as clock. `SendEffect`
and `RecvEffect` say what the two handlers do to the members of any object: sending
leaves the cache alone and starts a list only for an address that is not cached and is
asked about in the same call; an ARP message for us makes the entry new and leaves no
list for its sender. `TickInv` is the arithmetic of the two clocks. `LeavesOnce` needs an
invariant of its own: where each datagram is. Every list holds exactly the datagram it was
made for, and what is held has not left.

`TCPSenderProofs` proves for every stream, window, payload size, timeout and isn all seven
invariants of the `sender` run: `TimerWhileOutstanding`, `BackoffIsDoubling`,
`FlightIsOutstanding`, `PayloadIsStream`, `FinIsLast`, `SomethingInFlight` and
`WindowRespected`. It assumes `SenderAssumption` (positive sizes) and `ShortStream`: the stream
and one window fit into half of the number space. The code does not work beyond that: it keeps
absolute numbers in `unsigned int` members (`_rcv_base`, `end_of_front`), see the deviations.

The argument. The seven hold together or not at all: which segments an acknowledgment
removes depends on their numbers, the numbers on what was sent before, the timer on whether
something is left. The invariant (`Good`, `Moving`, `Within`) says that there is a sequence of
edges such that segment `i` of the outstanding queue occupies the numbers from edge `i` up to
edge `i + 1`, the first edge is at most, and the next greater than, what is acknowledged, and the
last one is `next_seqno`; that each segment carries the bytes of its numbers; that the timer and
the back-off match; and that acknowledgments still to arrive are for something sent. `fill_window`
extends the edges by a run of segments (`Chunked`, `Extended`), `ack_received` drops a prefix
of them (`TakesOff`), and `tick` leaves them alone. `TotalLength`, the sum of the lengths, is
shown to be the difference of the edges by induction.

`ReassemblerProofs` proves for every stream, capacity and order of substrings:
`UnassembledCounted`, `BufferStaysMerged`, `EndsWithLastByte`, and `ImplementsPositions`: that
`ReassemblerSpec` implements `ReassemblerAbstract`. It assumes `ReassemblerAssumption`: indices do
not overflow 64 bits, and `Int32Max` is positive.

The argument. Every node is an interval of positions with the bytes that belong there (`Piece`).
The invariant `Sound` says that the buffer is a set of intervals, pairwise apart, between
`cur_idx` and the end of the window, that the count is the number of their positions, and that the
output is the prefix up to `cur_idx`; `Ended` is the property about the end. A push cuts the
substring to the window (`TrimmedIs`), then merges it: the loop invariant `Loop` says that the
nodes left, which are old ones, and the block cover together what the old nodes and the substring
covered, and that the count is the number of positions of those nodes and of the block.
`SuccEnds` and `PrevEnds` show that each loop has stopped after as many iterations as there are
nodes, at a block that touches none behind it, or before it. The refinement maps the known positions to those
below `cur_idx` and those of the nodes: `PushKeeps` shows that a push adds exactly the positions of
the substring that are inside the window, `ReadKeeps` that a read adds none.

`TCPPairProofs` proves for two whole connections, any capacities, payload size, timeout, isns,
number of retransmissions and plans, and any loss, reordering and delay,
`Spec => []DeliversPrefix` (`DeliversPeersBytes`) and `Spec => []CleanCloseSaidFin`
(`ClosesAfterBothFins`). Besides `PairAssumption` and `WidthAssumption` (positive sizes) it
assumes `ShortStreams`: a stream has at most `Longest` bytes, so that its numbers, a window and
both flags fit into half of the number space. Since the network may keep a segment for as long
as it likes, one from further back would be taken for a new one; that is a limit of 32-bit
numbers (two gigabytes here), not of this code. The other bounds of `ShortStreams` say that
`unwrap` does not overflow 64 bits and that no index reaches `INT32_MAX`, the reassembler's
"no end yet".

The argument. The invariant `Inv` says of each peer that its connection is `Live` and that
every segment on its way to it belongs to the other's stream (`Wire`): there is an absolute
number, at most two beyond the bytes written, that its `seqno` is the wrapping of, and the
payload has the bytes of these numbers. `Live` has five parts. The sender is `Talking`: the
invariant of `TCPSenderProofs`, there proved for one object and any acknowledgment in the
number space, so that nothing need be known of the `ackno`s in flight; in particular the
default `ackno` of a segment without the ack flag, which `segment_received` passes on, does no
harm. The receiver is `Listening`: its reassembler is `Sound` (`ReassemblerProofs`) and knows
only positions below what the peer has written; here `UnwrapOfWrap` puts each payload in its
place. A connection that has heard a SYN has sent its own. The retransmission count of an active
connection is within the limit. And an inactive one has failed, or has had its FIN acknowledged
and heard the other (`Parted`).

The last part is where `clean_shutdown` needs an argument (`Closes`): it looks at the ends of the
two streams and at `bytes_in_flight()`. An inbound stream only ends after a FIN (`Open`), a FIN
is only noted after a SYN, so our SYN has been sent; with nothing in flight nothing is
outstanding; and a sender with nothing outstanding and an ended, empty stream has sent its FIN
(`Moving`). `unclean_shutdown` takes the front of the sender's queue without looking: `Ticks`,
`Exchanges` and `Destroys` show that there is one in each of its three callers. Since the peer
goes on writing, the two streams are not constants: `SaysMore`, `ListensMore` and `LiveMore`
say that everything holds of a longer stream that holds of a shorter one.

The module instantiates the two others. The operators of `TCPSender` and `StreamReassembler`
that `TCPConnection` uses are a second instance of theirs, and a prover does not know the two
to be the same, so the lemmas named `Same...` state it for each.

`RouterProofs` proves, for any hosts, routers, links, routes and traffic,
`ProperRoutes => (Spec => []LongestPrefix)` (`PicksLongest`), `Spec => []NeverSpent` (`DatagramsAlive`),
`Spec => []RightHost` (`HandedToRightHost`) and `Spec => []OneCopy` (`NeverCopied`), from
`NetworkAssumption`: addresses, routes and links refer to interfaces that exist, a link joins
different ports (as in every call of `exchange_frames`), hosts are no routers, the broadcast
address is nobody's, and a ttl is a byte, zero included. `ProperRoutes` (no prefix has a bit set
beyond its length) is needed, see the deviations in section 3.

The argument. For the first, `Found` is the loop invariant of the search, and `SameBlock` is the
arithmetic that makes comparing with the mask the same as comparing leading bits. The others are
not inductive: what a host is handed was put into a frame by somebody else's cache, after an ARP
exchange across the link, possibly by letting go what was held. The invariant `Inv` says of every
place at once what may be in it: caches map an address only to the interface that has it, ARP
messages tell the truth, a frame goes to an interface whose address its datagram may go to (its
destination, or a next hop), a list held for an address has datagrams that may go there, and
what is framed or held by a router's port has a ttl between one and one less than it was sent
with, anything else at most that (`From`): a host sends on what it was given, and a router's test
of the ttl comes before its decrement, which therefore never wraps around. One lemma per handler
shows that it keeps these sets, one per loop that the loop does.

`OneCopy` has an invariant of its own beside `Inv`: `CopyInv` says of each datagram's number that
an interface has it in at most one place, that at most one interface has it, and that none has
once a host has taken it (`Alone`). A handler either leaves the places of a datagram as they were
(`Keeps`) or makes one where there was none (`Adds`); the loops of `deliver` and `route` are
shown by induction, as handing over each frame or datagram at most once. The step that needs the
argument is the exchange on a link, where every frame is shown to all the other ports. By `Inv`
the frame of a datagram is never broadcast and goes to one interface; the ports of a link are
different, so one delivery of the exchange accepts it; and `clear` takes it away from its
sender before the exchange ends. A datagram that sets out has a number nobody used (`Fresh`).

Only model-checked:

- liveness: `HeldLeaves`, `Terminates`, `ClosesCleanly`, `Settles`, `SomeArrive`; liveness under
  fairness is out of the prover's reach;
- `AckedIsReceived` and `InOfficialState` of `TCPPair`, both about behaviours in which nothing
  is lost, with the action property `FollowsDiagram`. They are not true of every initial number:
  with an isn of 2^32 - 1 the ackno 0 of a segment without the ack flag acknowledges the SYN
  (section 3), so a theorem would need an assumption on `Isn` that the code does not make;
- the invariants of `SocketApp` (`InTransit`, `DiesOnlyByFault`, `PeerStreamCopied`), and
  `EndToEnd` and `PeerIsHeard` of `WireSpec`, which depend on every byte of the formats.

## 5. Not modelled

- `udp_tcpdump`, `tcp_benchmark`, `tcp_native`, `tun` and the command lines of the other
  applications: printing, measuring and parsing of options. What `tcp_ipv4`, `tcp_udp`,
  `tcp_ip_ethernet` and `webget` do with a socket is in `SocketApp`.
- `Address` (name resolution), `TunFD`, `TCPSocket` and the rest of `socket.cc`: one system
  call each. `Buffer` and `BufferList`: sequences of bytes held by reference count;
  sequences here. `hexdump`, `to_string`, `summary`.
- A `poll` interrupted by a signal, which makes `wait_next_event` return `Exit`; other
  system calls that fail; the dummy frame the TAP adapter sends when it is made.
- Damage to ARP messages, which have no checksum.
- The whole `TCPConnection` inside `SocketApp`: the two threads have no access to it but
  through the rules, and its own behaviour is checked in `TCPPair`; together they are out
  of TLC's reach. The properties of `SocketApp` are therefore about the reduced
  connection of section 2, and `DiesOnlyByFault` and `PeerStreamCopied` about streams whose
  FIN does not end them ahead of their bytes.

## 6. Plan

Done, in this order: the byte stream with its proofs, sequence numbers, the
reassembler with its abstract specification, the sender, the receiver and connection
in pairs with the state diagram, the network interface with its proofs, the router, the
event loop with the sockets and programs on it, the adapters and the formats.

The proofs followed the same order from the bottom up: byte stream, interface, numbers,
adapters, sender, reassembler, router, and the pair of connections.

Next, proofs:

1. `InTransit` for `SocketApp`, from the effect of `read` and `write` of `SocketPair` on the
   two ends.
2. `AckedIsReceived`, for initial numbers other than 2^32 - 1: the acknowledgments in flight
   have to be added to the invariant of `TCPPairProofs`, and what it means that nothing was
   lost.
