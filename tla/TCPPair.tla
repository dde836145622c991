------------------------------ MODULE TCPPair ------------------------------
(***************************************************************************)
(* Two TCPConnections, their applications and the network between them, as *)
(* two TCPSpongeSockets over an IP network.  A call of a connection is one *)
(* step: the owner's event loop makes it and then moves every segment of   *)
(* segments_out() to the network (tcp_sponge_socket.cc, _tcp_loop).  The   *)
(* network loses up to MaxLost segments and, where Reorder is TRUE,        *)
(* delivers in any order.  Retransmissions may come while the original is  *)
(* still in flight, so that segments also arrive twice.                    *)
(*                                                                         *)
(* The bytes of each stream are numbered from 1.                           *)
(***************************************************************************)
EXTENDS Integers, Sequences, SequencesExt

CONSTANTS
    Mod16, Mod32, Mod64, Int32Max, MAX_PAYLOAD_SIZE, MAX_RETX_ATTEMPTS,
    RtTimeout, RecvCapacity, SendCapacity, LingerFactor,
    Client, Server,     \* the two peers
    Isn,                \* the initial sequence number of each
    Quitters,           \* the peers whose application may destroy a live connection
    Reorder,            \* does the network reorder?
    NetBound,           \* bound: no tick while this many are in flight to the peer
    Plans               \* what may happen: one of these is chosen at the beginning

Peer == {Client, Server}
Other(p) == IF p = Client THEN Server ELSE Client

ASSUME PairAssumption ==
    /\ Client # Server /\ Quitters \subseteq Peer /\ Reorder \in BOOLEAN
    /\ Isn \in [Peer -> 0..Mod32 - 1]
    /\ \A choice \in Plans :
          /\ choice.send \in [Peer -> Nat]
          /\ choice.openers \in (SUBSET Peer) \ {{}}
          /\ choice.max_lost \in Nat /\ choice.max_early \in Nat

ASSUME WidthAssumption ==
    /\ Mod16 \in Nat \ {0} /\ Mod32 \in Nat \ {0} /\ Mod64 \in Nat \ {0}
    /\ MAX_PAYLOAD_SIZE \in Nat \ {0} /\ RtTimeout \in Nat \ {0}
    /\ MAX_RETX_ATTEMPTS \in Nat /\ RecvCapacity \in Nat /\ SendCapacity \in Nat
    /\ LingerFactor \in Nat /\ Int32Max \in Nat

\* A stream of up to Longest bytes: sequence numbers wrap around, but any two that are
\* in use at a time differ by less than half of them, since a segment may arrive when
\* everything after it has been received.  Every stream is that short.
Longest == (Mod32 \div 2) - RecvCapacity - 3
ASSUME ShortStreams ==
    /\ Longest \in Nat
    /\ \A choice \in Plans : \A p \in Peer : choice.send[p] <= Longest
    /\ Longest + 2 + Mod32 <= Mod64 \div 2 /\ Longest + 1 < Int32Max

C == INSTANCE TCPConnection
S == INSTANCE TCPSender
R == INSTANCE TCPReceiver
BS == INSTANCE ByteStream
TS == INSTANCE TCPState

VARIABLES
    conn,   \* the TCPConnection of each peer
    net,    \* the segments in flight to each peer, oldest first
    lost,   \* the number of segments lost
    gone,   \* the peers whose connection has been destroyed
    early,  \* the number of ticks that came while a segment was in flight
    plan    \* the member of Plans this behaviour follows
vars == <<conn, net, lost, gone, early, plan>>

ToSend == plan.send          \* the number of bytes each application sends
Openers == plan.openers      \* the peers whose application calls connect
MaxLost == plan.max_lost     \* bound: segments the network may lose
MaxEarly == plan.max_early   \* bound: ticks of a timer while a segment is in flight

Init ==
    /\ conn = [p \in Peer |-> C!New(Isn[p])]
    /\ net = [p \in Peer |-> <<>>]
    /\ lost = 0
    /\ gone = {}
    /\ early = 0
    /\ plan \in Plans

sender(p) == conn[p].sender
outbound(p) == conn[p].sender.stream
inbound(p) == R!stream_out(conn[p].receiver)
Failed(p) == inbound(p).error

\* Peer p's connection becomes c, and what c has queued goes to the network, of
\* which `rest` has not been delivered.
Moves(p, c, rest) ==
    /\ conn' = [conn EXCEPT ![p] = [c EXCEPT !.segments_out = <<>>]]
    /\ net' = [rest EXCEPT ![Other(p)] = @ \o c.segments_out]
    /\ UNCHANGED <<lost, gone, plan>>
Becomes(p, c, rest) == Moves(p, c, rest) /\ UNCHANGED early

CanConnect(p) == p \in Openers /\ sender(p).next_seqno = 0
Connect(p) == CanConnect(p) /\ Becomes(p, C!connect(conn[p]), net)

\* Rule 2 of the event loop: bytes of the application, as many as the outbound
\* stream has room for, once the connection has begun.
Outgoing(p) == conn[p].active /\ sender(p).next_seqno > 0 /\ ~BS!input_ended(outbound(p))
CanWrite(p, n) ==
    /\ Outgoing(p)
    /\ outbound(p).write_bytes + n <= ToSend[p]
    /\ n <= BS!remaining_capacity(outbound(p))
Write(p, n) ==
    /\ CanWrite(p, n)
    /\ Becomes(p, C!write(conn[p], [i \in 1..n |-> outbound(p).write_bytes + i]), net)

\* ... and the end of the application's stream.
CanEnd(p) ==
    /\ Outgoing(p)
    /\ outbound(p).write_bytes = ToSend[p]
EndInput(p) == CanEnd(p) /\ Becomes(p, C!end_input_stream(conn[p]), net)

\* Rule 3: the application takes a byte from the inbound stream.
CanRead(p) == p \notin gone /\ ~BS!buffer_empty(inbound(p))
Read(p) ==
    /\ CanRead(p)
    /\ conn' = [conn EXCEPT ![p].receiver = R!read(@, 1)]
    /\ UNCHANGED <<net, lost, gone, early, plan>>

\* The owner destroys a connection that is still active.  The RST the destructor
\* queues goes with the queue it is in.
Quit(p) ==
    /\ p \in Quitters /\ conn[p].active /\ sender(p).next_seqno > 0
    /\ conn' = [conn EXCEPT ![p] = [C!destroy(@) EXCEPT !.segments_out = <<>>]]
    /\ gone' = gone \union {p}
    /\ UNCHANGED <<net, lost, early, plan>>

\* Rule 1: a segment comes from the network.
Deliver(p, i) ==
    /\ i = 1 \/ Reorder
    /\ Becomes(p, C!segment_received(conn[p], net[p][i]),
               [net EXCEPT ![p] = RemoveAt(@, i)])

Lose(p, i) ==
    /\ lost < MaxLost
    /\ i = 1 \/ Reorder
    /\ net' = [net EXCEPT ![p] = RemoveAt(@, i)]
    /\ lost' = lost + 1
    /\ UNCHANGED <<conn, gone, early, plan>>

\* The clock of an active connection moves on.  A tick that changes nothing (no
\* timer runs and the linger time is over) is no step.
Silence == net = [p \in Peer |-> <<>>]
CanTick(p) ==
    /\ conn[p].active
    /\ Silence \/ early < MaxEarly
    /\ C!tick(conn[p], 1) # conn[p]
    /\ Len(net[Other(p)]) < NetBound
Tick(p) ==
    /\ CanTick(p)
    /\ Moves(p, C!tick(conn[p], 1), net)
    /\ early' = IF Silence THEN early ELSE early + 1

Next ==
    \E p \in Peer :
        \/ Connect(p)
        \/ \E n \in 1..SendCapacity : Write(p, n)
        \/ EndInput(p)
        \/ Read(p)
        \/ \E i \in DOMAIN net[p] : Deliver(p, i)
        \/ \E i \in DOMAIN net[p] : Lose(p, i)
        \/ Tick(p)
        \/ Quit(p)

Spec == Init /\ [][Next]_vars

\* The event loop always runs: it polls the network, the application's socket and
\* the clock (every TCP_TICK_MS) and serves each that is ready; the applications
\* write, end and read whenever they can.  Each conjunct is the weak fairness of
\* an action; in the ones that would need ENABLED of a call of the connection, which
\* TLC is slow to evaluate, the action's guard stands in its place: the two are
\* equivalent, since an action whose guard holds is possible and changes vars.
Fairness ==
    \A p \in Peer :
        /\ <>[]CanConnect(p) => []<><<Connect(p)>>_vars
        /\ <>[](\E n \in 1..SendCapacity : CanWrite(p, n))
              => []<><<\E n \in 1..SendCapacity : Write(p, n)>>_vars
        /\ <>[]CanEnd(p) => []<><<EndInput(p)>>_vars
        /\ WF_vars(Read(p))
        /\ <>[](net[p] # <<>>)
              => []<><<\E i \in DOMAIN net[p] : Deliver(p, i)>>_vars
        /\ <>[]CanTick(p) => []<><<Tick(p)>>_vars

FairSpec == Spec /\ Fairness

-----------------------------------------------------------------------------

\* What an application can read is its peer's stream: the bytes the peer wrote, in
\* order, none skipped, invented or repeated, through losses, duplicates, reordering,
\* retransmission and the wrap-around of the sequence numbers.
DeliversPrefix ==
    \A p \in Peer :
        /\ inbound(p).write_bytes <= outbound(Other(p)).write_bytes
        /\ \A i \in 1..Len(inbound(p).buffer) :
               inbound(p).buffer[i] = inbound(p).read_bytes + i

\* A connection that closes without an error has had its FIN sent and acknowledged
\* and has heard its peer's FIN: the three prerequisites of tcp_connection.cc, which
\* looks at the stream and at bytes_in_flight() but never at the FIN itself.
CleanCloseSaidFin ==
    \A p \in Peer : ~conn[p].active /\ ~Failed(p)
        => /\ sender(p).fin_sent /\ sender(p).outstanding_segments = <<>>
           /\ conn[p].receiver.fin

\* tcp_receiver.hh: the ackno is "the sequence number of the first byte in the
\* stream that the receiver hasn't received".  No peer believes more of its stream
\* to be acknowledged than the other has assembled, its SYN and FIN included, as
\* long as the network has lost nothing.
AckedIsReceived ==
    lost = 0 => \A p \in Peer :
        LET rcv == conn[Other(p)].receiver
        IN  sender(p).rcv_base <=
                (IF rcv.syn THEN 1 ELSE 0) + rcv.reassembler.cur_idx
                + (IF rcv.fin /\ rcv.reassembler.cur_idx = ToSend[p] THEN 1 ELSE 0)

\* stream_reassembler.hh: eof says that "the last byte of `data` will be the last
\* byte in the entire stream".  The end of the inbound stream is the end of the
\* peer's stream, so that an application never takes a part for the whole.
EofIsComplete ==
    \A p \in Peer : BS!input_ended(inbound(p)) => inbound(p).write_bytes = ToSend[Other(p)]

\* The states of RFC 793 that a connection is in, by TCPState.
StatesOf(c) == {name \in DOMAIN TS!State : TS!state(c) = TS!State[name]}

\* tcp_state.hh compares "the official states with Sponge's sender/receiver states".
\* A connection, which keeps no state of that kind, is always in exactly one, as long
\* as nothing is lost (if a SYN is, the other end's next segment acknowledges a
\* stream whose peer has not been heard).
InOfficialState ==
    lost = 0 => \A p \in Peer : \E name \in DOMAIN TS!State : StatesOf(conn[p]) = {name}

\* The state diagram of RFC 793; every state may also be reset.
Diagram ==
    {<<"LISTEN", "SYN_RCVD">>, <<"LISTEN", "SYN_SENT">>, <<"SYN_SENT", "SYN_RCVD">>,
     <<"SYN_SENT", "ESTABLISHED">>, <<"SYN_RCVD", "ESTABLISHED">>,
     <<"SYN_RCVD", "FIN_WAIT_1">>, <<"ESTABLISHED", "FIN_WAIT_1">>,
     <<"ESTABLISHED", "CLOSE_WAIT">>, <<"CLOSE_WAIT", "LAST_ACK">>,
     <<"LAST_ACK", "CLOSED">>, <<"FIN_WAIT_1", "FIN_WAIT_2">>, <<"FIN_WAIT_1", "CLOSING">>,
     <<"FIN_WAIT_2", "TIME_WAIT">>, <<"CLOSING", "TIME_WAIT">>, <<"TIME_WAIT", "CLOSED">>}

\* Two arrows in one step: a segment acknowledges our SYN, or FIN, and lets our FIN
\* go out or brings the peer's, or both of these.
TwoArrows ==
    {<<"SYN_SENT", "FIN_WAIT_1">>, <<"SYN_RCVD", "CLOSE_WAIT">>,
     <<"FIN_WAIT_1", "TIME_WAIT">>, <<"SYN_RCVD", "CLOSING">>,
     <<"ESTABLISHED", "CLOSING">>}
Legal(x, y) ==
    x = y \/ <<x, y>> \in Diagram \union TwoArrows \/ (y = "RESET" /\ x # "CLOSED")

\* The states of a connection follow the diagram: it never skips the wait for an
\* acknowledgment or the linger time, and never goes back.
FollowsDiagram ==
    [][\A p \in Peer : \A x \in StatesOf(conn[p]), y \in StatesOf(conn'[p]) :
           Legal(x, y)]_vars

Closed(p) == ~conn[p].active

\* Both connections come to an end, cleanly or not.
Terminates == <>[](\A p \in Peer : Closed(p))

\* tcp_connection.hh: "destructor sends a RST if the connection is still open".  On
\* a network that loses nothing the peer of a connection that has failed hears of
\* it and ends too.
AbortIsHeard == \A p \in Peer : Failed(p) ~> Closed(Other(p))

\* If the network loses nothing and answers before a timer expires, both connections
\* close without an error, with every byte delivered and read.
ClosesCleanly ==
    [](lost = 0 /\ early = 0) =>
        <>[](\A p \in Peer : /\ Closed(p) /\ ~Failed(p)
                             /\ inbound(p).read_bytes = ToSend[Other(p)])
=============================================================================
