----------------------------- MODULE SocketPair -----------------------------
(***************************************************************************)
(* The pair of connected stream sockets between the owner of a             *)
(* TCPSpongeSocket and its TCP thread, as socketpair(2), poll(2) and       *)
(* shutdown(2) behave on Linux, and the calls of FileDescriptor and Socket *)
(* (libsponge/util/file_descriptor.cc, socket.cc) that reach them.  Each   *)
(* end holds the bytes that wait for it (rx) and whether reading from it   *)
(* and writing to it has been shut down.                                   *)
(***************************************************************************)
EXTENDS Integers, Sequences

CONSTANT SockCap   \* how many unread bytes an end takes

BS == INSTANCE ByteStream

End == {"owner", "thread"}
Other(e) == IF e = "owner" THEN "thread" ELSE "owner"

Connected == [e \in End |-> [rx |-> <<>>, rcv_shut |-> FALSE, snd_shut |-> FALSE]]

Room(ends, e) == SockCap - Len(ends[Other(e)].rx)

\* A write to an end that was shut down raises SIGPIPE, but of no bytes it does
\* nothing; poll(2) reports such an end as writable all the same.
Revents(ends, e) ==
    {x \in {"In", "Out", "Hup"} :
        \/ x = "In" /\ (ends[e].rx # <<>> \/ ends[e].rcv_shut)
        \/ x = "Out" /\ Room(ends, e) > 0
        \/ x = "Hup" /\ ends[e].rcv_shut /\ ends[e].snd_shut}
BrokenPipe(ends, e, data) == ends[e].snd_shut /\ data # <<>>

\* Socket::shutdown: what one end no longer writes the other no longer reads.
shutdown(ends, e, how) ==
    [ends EXCEPT
        ![e].snd_shut = TRUE, ![Other(e)].rcv_shut = TRUE,
        ![e].rcv_shut = @ \/ how = "RDWR", ![Other(e)].snd_shut = @ \/ how = "RDWR"]

\* FileDescriptor::read: up to limit bytes; nothing to read from an end that is shut
\* down is the end of the file, and from one that is not must be waited for.
Readable(ends, e) == ends[e].rx # <<>> \/ ends[e].rcv_shut
ReadData(ends, e, limit) == SubSeq(ends[e].rx, 1, BS!AtMost(limit, Len(ends[e].rx)))
ReadEof(ends, e, limit) == limit > 0 /\ ends[e].rx = <<>>
read(ends, e, limit) ==
    [ends EXCEPT ![e].rx = SubSeq(@, Len(ReadData(ends, e, limit)) + 1, Len(@))]

\* FileDescriptor::write with write_all false: as many bytes as there is room for.
Written(ends, e, data) == BS!AtMost(Len(data), Room(ends, e))
write(ends, e, data) ==
    [ends EXCEPT ![Other(e)].rx = @ \o SubSeq(data, 1, Written(ends, e, data))]
=============================================================================
