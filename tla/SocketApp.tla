------------------------------ MODULE SocketApp ------------------------------
(***************************************************************************)
(* A whole program: the TCP thread of a TCPSpongeSocket, the thread that   *)
(* owns the socket, the socket pair between them, the network on one side  *)
(* and the standard streams on the other.  Two programs are modelled:      *)
(*                                                                         *)
(*   "copy"    connect or listen_and_accept, bidirectional_stream_copy,    *)
(*             wait_until_closed (tcp_ipv4, tcp_udp, tcp_ip_ethernet);     *)
(*   "webget"  connect, one write, reads up to the end, and the destructor.*)
(*                                                                         *)
(* A step of a thread is what it does between two system calls the other   *)
(* may see: one poll, one callback, or the end of a turn of its loop       *)
(* together with the preparation of the next.  What a poll saw is kept in  *)
(* the loop's todo list and acted upon later, when it may be out of date.  *)
(* The bytes of each direction are numbered from 1.                        *)
(***************************************************************************)
EXTENDS Integers, Sequences, SequencesExt, FiniteSets, TLC

CONSTANTS
    SockCap, SendCapacity, RecvCapacity, CopyCapacity,
    InputBytes,   \* what is to be read from standard input, or the request
    PeerBytes,    \* what the peer has to say
    MaxFaults     \* resets, connections given up, standard outputs that break, and
                  \* FINs that come before bytes the peer said earlier

ASSUME SocketAssumption ==
    /\ {SockCap, SendCapacity, RecvCapacity, CopyCapacity} \subseteq Nat \ {0}
    /\ {InputBytes, PeerBytes, MaxFaults} \subseteq Nat

BS == INSTANCE ByteStream
SP == INSTANCE SocketPair
T == INSTANCE TCPSpongeSocket
C == INSTANCE StreamCopy
TLoop == INSTANCE EventLoop
    WITH Eof <- T!Eof, Closed <- T!Closed, Interest <- T!Interest, Cancel <- T!Cancel
CLoop == INSTANCE EventLoop
    WITH Eof <- C!Eof, Closed <- C!Closed, Interest <- C!Interest, Cancel <- C!Cancel

VARIABLES
    tcp,     \* the TCP thread: its state s and its loop (pc, rules, asked, todo)
    own,     \* the owner's thread: the same, and the program it runs
    ends,    \* the socket pair
    net,     \* the news of the segment that waits in the adapter, or "none"
    std,     \* standard input and output
    fate,    \* of the process
    abort,   \* _abort
    faults   \* what went wrong outside the program: a reset, a connection given up,
             \* an output that broke, or a FIN that overtook bytes and ended the
             \* peer's stream without them

vars == <<tcp, own, ends, net, std, fate, abort, faults>>

Numbers(m, n) == [i \in 1..(n - m) |-> m + i]

\* The top of the loop: the first pass of wait_next_event.
ThreadPass(s, rules) == TLoop!Prepared(rules, s)
OwnerPass(s, rules) == CLoop!Prepared(rules, s)
Turned(loop, pass, exit) ==
    [loop EXCEPT !.s = pass.s, !.rules = pass.rules, !.asked = pass.asked, !.todo = <<>>,
                 !.pc = IF pass.asked = {} THEN exit ELSE "poll"]

Loop(s, rules, pc) == [s |-> s, rules |-> rules, asked |-> {}, todo |-> <<>>, pc |-> pc]

Request == [C!New EXCEPT !.outbound.buffer = Numbers(0, InputBytes),
                         !.outbound.write_bytes = InputBytes]

Init ==
    \E program \in {"copy", "webget"}, role \in {"connect", "accept"} :
        /\ program = "webget" => role = "connect"
        /\ tcp = LET s == T!New(role)
                 IN  Turned(Loop(s, T!Rules, "poll"), ThreadPass(s, T!Rules), "closing")
        /\ own = [program |-> program]
                  @@ Loop(IF program = "copy" THEN C!New ELSE Request, C!Rules, "opening")
        /\ ends = SP!Connected
        /\ net = "none"
        /\ std = [typed |-> 0, input |-> "open", output |-> "open", printed |-> <<>>]
        /\ fate = "runs" /\ abort = FALSE /\ faults = {}

-----------------------------------------------------------------------------
\* What a thread sees when it looks at its descriptors.
ThreadSees ==
    [thread |-> SP!Revents(ends, "thread"),
     adapter |-> {"Out"} \union {x \in {"In"} : net # "none"}]

Unread == std.typed - own.s.outbound.write_bytes
OwnerSees ==
    [owner |-> SP!Revents(ends, "owner"),
     stdin |-> {x \in {"In", "Hup"} : \/ x = "In" /\ (Unread > 0 \/ std.input = "eof")
                                      \/ x = "Hup" /\ std.input = "hup"},
     stdout |-> IF std.output = "open" THEN {"Out"} ELSE {"Err"}]

\* A rule whose descriptor hung up with nothing to be had is given up.
GivenUp(loop, r, s) ==
    [loop EXCEPT !.s = s, !.rules = SelectSeq(@, LAMBDA x : x # r), !.todo = Tail(@)]

\* The end of a callback: an exception ends the TCP thread and with it the process.
Fate(out, interested) ==
    IF out.fate # "runs" THEN out.fate
    ELSE IF TLoop!BusyWait(out.served, interested) THEN "busy wait" ELSE "runs"

-----------------------------------------------------------------------------
\* The TCP thread, which is the owner's own thread until the connection is open.

\* poll(2) returns after TCP_TICK_MS even if there is nothing to do.
ThreadPoll ==
    /\ fate = "runs" /\ tcp.pc = "poll"
    /\ tcp' = [tcp EXCEPT !.pc = "serve", !.asked = {},
                          !.todo = TLoop!ToServe(tcp.rules, tcp.asked, ThreadSees)]
    /\ UNCHANGED <<own, ends, net, std, fate, abort, faults>>

ThreadOutcome(r) ==
    CASE r = T!FromNet -> T!OnFromNet(tcp.s, ends, net)
      [] r = T!FromOwner -> T!OnFromOwner(tcp.s, ends)
      [] r = T!ToOwner -> T!OnToOwner(tcp.s, ends)
      [] r = T!ToNet -> T!OnToNet(tcp.s, ends)

ThreadServe ==
    /\ fate = "runs" /\ tcp.pc = "serve" /\ tcp.todo # <<>>
    /\ LET r == Head(tcp.todo).rule
           out == ThreadOutcome(r)
       IN  \/ /\ Head(tcp.todo).verdict = "defunct"
              /\ tcp' = GivenUp(tcp, r, T!Cancel(tcp.s, r))
              /\ UNCHANGED <<ends, net, fate, faults>>
           \/ /\ Head(tcp.todo).verdict = "ready"
              /\ tcp' = [tcp EXCEPT !.s = out.s, !.todo = Tail(@)]
              /\ ends' = out.ends
              /\ net' = IF r = T!FromNet THEN "none" ELSE net
              /\ fate' = Fate(out, T!Interest(out.s, r))
              /\ faults' = faults \union
                    {x \in {"overtaken"} : r = T!FromNet /\ T!EndsShort(tcp.s.conn, net)}
    /\ UNCHANGED <<own, std, abort>>

\* The end of a turn: _abort is looked at, the time is told, and the next turn is
\* prepared.  When the handshake is over the loop moves to a thread of its own.
\* Mutant: _abort is not looked at.
Deaf == FALSE
Aborted == abort
ThreadTurn(event) ==
    /\ fate = "runs" /\ tcp.pc = "serve" /\ tcp.todo = <<>>
    /\ LET ticked == [tcp.s EXCEPT !.conn = T!tick(@, event)]
       IN  \/ /\ Aborted /\ event = "none"
              /\ tcp' = [tcp EXCEPT !.pc = "closing"]
              /\ UNCHANGED own
           \/ /\ ~Aborted /\ T!MayTick(tcp.s.conn, event)
              /\ tcp' = Turned(tcp, ThreadPass(ticked, tcp.rules), "closing")
              /\ own' = IF own.pc # "opening" \/ T!Handshaking(ticked.conn) THEN own
                        ELSE IF own.program = "webget" THEN [own EXCEPT !.pc = "request"]
                        ELSE Turned(own, OwnerPass(own.s, own.rules), "leaving")
    /\ faults' = faults \union {x \in {event} : x = "gives up"}
    /\ UNCHANGED <<ends, net, std, fate, abort>>

\* The rest of _tcp_main.
ThreadClose ==
    /\ fate = "runs" /\ tcp.pc = "closing"
    /\ ends' = SP!shutdown(ends, "owner", "RDWR")
    /\ tcp' = [tcp EXCEPT !.pc = "done"]
    /\ UNCHANGED <<own, net, std, fate, abort, faults>>

ThreadStep == ThreadPoll \/ ThreadServe \/ ThreadClose \/ ThreadTurn("none")

-----------------------------------------------------------------------------
\* The owner's thread in bidirectional_stream_copy.

\* This poll(2) has no timeout: it returns when one of the descriptors has what it
\* was asked for, an error or a hangup.
Reported ==
    \E i \in DOMAIN own.rules :
        LET r == own.rules[i]
            seen == OwnerSees[r.fd]
        IN  seen \intersect {"Err", "Hup"} # {} \/ (r \in own.asked /\ r.direction \in seen)
OwnerPoll ==
    /\ fate = "runs" /\ own.pc = "poll" /\ Reported
    /\ own' = [own EXCEPT !.pc = "serve", !.asked = {},
                          !.todo = CLoop!ToServe(own.rules, own.asked, OwnerSees)]
    /\ UNCHANGED <<tcp, ends, net, std, fate, abort, faults>>

InputData == LET taken == own.s.outbound.write_bytes
             IN  Numbers(taken, taken + BS!AtMost(Unread, BS!remaining_capacity(own.s.outbound)))

OwnerReady(r, count) ==
    CASE r = C!FromInput -> C!OnFromInput(own.s, ends, InputData)
      [] r = C!ToSocket -> C!OnToSocket(own.s, ends)
      [] r = C!FromSocket -> C!OnFromSocket(own.s, ends)
      [] r = C!ToOutput -> IF std.output = "err" /\ own.s.inbound.buffer # <<>>
                           THEN C!Outcome(own.s, ends, "sigpipe")
                           ELSE C!OnToOutput(own.s, ends, count)

\* A full pipe takes a part of what is written to it, but something.
MayPrint(count) ==
    count <= Len(own.s.inbound.buffer) /\ (count = 0 => own.s.inbound.buffer = <<>>)

OwnerServe ==
    /\ fate = "runs" /\ own.pc = "serve" /\ own.todo # <<>>
    /\ LET r == Head(own.todo).rule
       IN  \/ /\ Head(own.todo).verdict = "error"
              /\ own' = [own EXCEPT !.pc = "aborting", !.todo = <<>>]
              /\ UNCHANGED <<ends, std, fate>>
           \/ /\ Head(own.todo).verdict = "defunct"
              /\ own' = GivenUp(own, r, C!Cancel(own.s, r))
              /\ UNCHANGED <<ends, std, fate>>
           \/ /\ Head(own.todo).verdict = "ready"
              /\ \E count \in 0..CopyCapacity :
                    LET out == OwnerReady(r, count)
                        printed == SubSeq(own.s.inbound.buffer, 1, count)
                    IN  /\ IF r = C!ToOutput THEN MayPrint(count) ELSE count = 0
                        /\ own' = [own EXCEPT !.s = out.s, !.todo = Tail(@)]
                        /\ ends' = out.ends
                        /\ fate' = Fate(out, C!Interest(out.s, r))
                        /\ std' = IF out.fate = "runs"
                                  THEN [std EXCEPT !.printed = @ \o printed] ELSE std
    /\ UNCHANGED <<tcp, net, abort, faults>>

OwnerTurn ==
    /\ fate = "runs" /\ own.pc = "serve" /\ own.todo = <<>>
    /\ own' = Turned(own, OwnerPass(own.s, own.rules), "leaving")
    /\ UNCHANGED <<tcp, ends, net, std, fate, abort, faults>>

\* wait_until_closed.
OwnerLeave ==
    /\ fate = "runs" /\ own.pc = "leaving"
    /\ ends' = SP!shutdown(ends, "owner", "RDWR")
    /\ own' = [own EXCEPT !.pc = "joining"]
    /\ UNCHANGED <<tcp, net, std, fate, abort, faults>>

\* ~TCPSpongeSocket, after an exception or at the end of get_URL.
OwnerAbort ==
    /\ fate = "runs" /\ own.pc = "aborting"
    /\ abort' = TRUE
    /\ own' = [own EXCEPT !.pc = "joining"]
    /\ UNCHANGED <<tcp, ends, net, std, fate, faults>>

OwnerJoin ==
    /\ fate = "runs" /\ own.pc = "joining" /\ tcp.pc = "done"
    /\ fate' = "done"
    /\ UNCHANGED <<tcp, own, ends, net, std, abort, faults>>

-----------------------------------------------------------------------------
\* The owner's thread in get_URL.  Its end of the socket pair is a blocking one.

WebgetWrite ==
    /\ fate = "runs" /\ own.pc = "request"
    /\ LET data == own.s.outbound.buffer
           left == BS!pop_output(own.s.outbound, SP!Written(ends, "owner", data))
       IN  \/ /\ SP!BrokenPipe(ends, "owner", data)
              /\ fate' = "sigpipe"
              /\ UNCHANGED <<own, ends>>
           \/ /\ ~SP!BrokenPipe(ends, "owner", data)
              /\ data = <<>> \/ SP!Room(ends, "owner") > 0
              /\ ends' = SP!write(ends, "owner", data)
              /\ own' = [own EXCEPT !.s.outbound = left,
                                    !.pc = IF left.buffer = <<>> THEN "reading" ELSE @]
              /\ UNCHANGED fate
    /\ UNCHANGED <<tcp, net, std, abort, faults>>

WebgetRead ==
    /\ fate = "runs" /\ own.pc = "reading" /\ SP!Readable(ends, "owner")
    /\ LET data == SP!ReadData(ends, "owner", SockCap)
           eof == SP!ReadEof(ends, "owner", SockCap)
       IN  /\ fate' = IF data # <<>> /\ std.output = "err" THEN "sigpipe" ELSE "runs"
           /\ std' = [std EXCEPT !.printed = @ \o data]
           /\ own' = [own EXCEPT !.s.socket_eof = eof, !.pc = IF eof THEN "finishing" ELSE @]
    /\ ends' = SP!read(ends, "owner", SockCap)
    /\ UNCHANGED <<tcp, net, abort, faults>>

WebgetShutdown ==
    /\ fate = "runs" /\ own.pc = "finishing"
    /\ ends' = SP!shutdown(ends, "owner", "WR")
    /\ own' = [own EXCEPT !.pc = "aborting"]
    /\ UNCHANGED <<tcp, net, std, fate, abort, faults>>

OwnerStep ==
    \/ OwnerPoll \/ OwnerServe \/ OwnerTurn \/ OwnerLeave \/ OwnerAbort \/ OwnerJoin
    \/ WebgetWrite \/ WebgetRead \/ WebgetShutdown

-----------------------------------------------------------------------------
\* The world.

\* What comes while the thread serves its rules is seen by its next poll at the
\* earliest, and may as well come just before it.
Useful == {"syn", "data", "fin", "ack"}
Overtakes(news) == news = "fin" /\ T!Missing(tcp.s.conn) > 0
Speak(news) ==
    /\ fate = "runs" /\ net = "none" /\ tcp.pc = "poll"
    /\ T!Possible(tcp.s.conn, news)
    /\ news = "rst" \/ Overtakes(news) => Cardinality(faults) < MaxFaults
    /\ net' = news
    /\ faults' = faults \union {x \in {news} : x = "rst"}
    /\ UNCHANGED <<tcp, own, ends, std, fate, abort>>

GiveUp == Cardinality(faults) < MaxFaults /\ ThreadTurn("gives up")
LingerOver == ThreadTurn("over")

Type ==
    /\ fate = "runs" /\ own.program = "copy" /\ std.input = "open"
    /\ std.typed < InputBytes
    /\ std' = [std EXCEPT !.typed = @ + 1]
    /\ UNCHANGED <<tcp, own, ends, net, fate, abort, faults>>
EndInput ==
    /\ fate = "runs" /\ own.program = "copy" /\ std.input = "open"
    /\ \E how \in {"eof", "hup"} : std' = [std EXCEPT !.input = how]
    /\ UNCHANGED <<tcp, own, ends, net, fate, abort, faults>>
OutputBreaks ==
    /\ fate = "runs" /\ std.output = "open" /\ Cardinality(faults) < MaxFaults
    /\ ~own.s.output_closed
    /\ std' = [std EXCEPT !.output = "err"]
    /\ faults' = faults \union {"output"}
    /\ UNCHANGED <<tcp, own, ends, net, fate, abort>>

Next ==
    \/ ThreadStep \/ GiveUp \/ LingerOver \/ OwnerStep
    \/ \E news \in Useful \union {"rst", "noise"} : Speak(news)
    \/ Type \/ EndInput \/ OutputBreaks

\* When a thread can take a step, and when the peer has something to say.
ThreadRuns == fate = "runs" /\ tcp.pc # "done"
OwnerRuns ==
    /\ fate = "runs"
    /\ CASE own.pc = "opening" -> FALSE
         [] own.pc = "poll" -> Reported
         [] own.pc = "request" -> SP!Room(ends, "owner") > 0 \/ ends["owner"].snd_shut
                                  \/ own.s.outbound.buffer = <<>>
         [] own.pc = "reading" -> SP!Readable(ends, "owner")
         [] own.pc = "joining" -> tcp.pc = "done"
         [] OTHER -> TRUE
\* Bytes a FIN has overtaken may be lost, and a FIN need not overtake any.
PeerWaits ==
    /\ fate = "runs" /\ net = "none" /\ tcp.pc = "poll"
    /\ \E news \in Useful :
        /\ T!Possible(tcp.s.conn, news) /\ ~Overtakes(news)
        /\ news = "data" => ~BS!input_ended(tcp.s.conn.in)
LingerMayEnd ==
    /\ fate = "runs" /\ tcp.pc = "serve" /\ tcp.todo = <<>> /\ ~abort
    /\ T!MayTick(tcp.s.conn, "over")

\* Both threads are scheduled, the peer says what it has to say, time passes and
\* somebody ends the input.  (All but one are weak and strong fairness with the
\* enabling conditions written out, which TLC evaluates faster.)
Fairness ==
    /\ WF_vars(EndInput)
    /\ <>[]ThreadRuns => []<><<ThreadStep>>_vars
    /\ <>[]OwnerRuns => []<><<OwnerStep>>_vars
    /\ []<>PeerWaits => []<><<\E news \in Useful : Speak(news)>>_vars
    /\ []<>LingerMayEnd => []<><<LingerOver>>_vars

Spec == Init /\ [][Next]_vars /\ Fairness

-----------------------------------------------------------------------------
\* Every byte taken from the input is, once and in order, in one of the places
\* between there and the network, and every byte of the peer's in one of the places
\* between the connection and the output, whatever partial writes, errors and
\* threads that end do (the pops of rules 2 and 3 of both loops).
InTransit ==
    LET conn == tcp.s.conn
    IN  /\ Numbers(0, conn.out.read_bytes) \o conn.out.buffer \o ends["thread"].rx
              \o own.s.outbound.buffer = Numbers(0, own.s.outbound.write_bytes)
        /\ std.printed \o own.s.inbound.buffer \o ends["owner"].rx \o conn.in.buffer
              = Numbers(0, conn.in.write_bytes)

\* No callback throws, none leaves its descriptor alone and stays interested
\* (eventloop.cc:55), and no thread dies of a broken pipe unless the connection or the
\* output failed, or the peer's FIN ended its stream before its bytes had come: as long
\* as they come in order, a clean close leaves nobody with bytes for a pipe that is
\* shut down, in whatever order the two ends close.
DiesOnlyByFault ==
    /\ fate \notin {"throws", "busy wait"}
    /\ fate = "sigpipe" => faults # {}

\* If no FIN ended the peer's stream before its bytes had come, a program that ends
\* without a fault has printed all the peer said (bidirectional_stream_copy.cc:61,
\* webget.cc:25), also when the FIN came ahead of bytes the window had no room for.
PeerStreamCopied ==
    fate = "done" /\ faults = {} => std.printed = Numbers(0, PeerBytes)

\* No order of the two threads' closing leaves them waiting for each other: when both
\* sides have said all they have to say, or something broke, the program comes to an
\* end (tcp_sponge_socket.cc:182, :194, :261).
Terminates == <>(fate # "runs")
=============================================================================
