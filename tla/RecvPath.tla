------------------------------ MODULE RecvPath ------------------------------
(***************************************************************************)
(* How messages come in on one connection: the network cuts the stream as  *)
(* it likes, the epoll thread (zEpollRecvThread::run, zSocket::RecvData)   *)
(* puts it together again in m_RecvBuffer and hands whole packets to       *)
(* _rcv_queue, from which the thread that owns the task takes them         *)
(* (zSocket::WaitRecv, zTCPTask::ListeningRecv, zSocket::recvToCmd).       *)
(*                                                                         *)
(* Both buffers are ByteBuffers, and are used here as what ByteBuffer is   *)
(* shown to implement: queues of bytes. A byte is <<i, k>>, the k-th byte  *)
(* of the i-th packet, header included.                                    *)
(***************************************************************************)
EXTENDS Integers, Sequences

CONSTANTS
    Lens,       \* lengths of what a peer may send in one packet
    MaxData,    \* MAX_DATASIZE
    MaxFrames   \* the peer sends at most this many packets

\* sendCmd refuses an empty message.
ASSUME LensAssumption == Lens \subseteq Nat \ {0}
ASSUME SizesAssumption == MaxData \in Nat /\ MaxFrames \in Nat

PACKHEADSIZE == 4

VARIABLES
    frames,        \* the packets sent: the length, and if the magic is right
    flight,        \* bytes sent that have not arrived
    wire,          \* bytes in the kernel's receive buffer of the socket
    peer,          \* "open", "closed" or "reset"
    sockError,     \* a reset the socket has not reported yet
    errno,         \* errno of the epoll thread
    sock,          \* FALSE: INVALID_SOCKET
    m_RecvBuffer,  \* what has been read of a packet
    rcv_queue,     \* whole packets, for the owner of the task
    reader,        \* the owner: "poll", "parse" (in ListeningRecv), "gone"
    delivered      \* the messages given to msgParse

peerVars == <<frames, peer>>
vars == <<frames, flight, wire, peer, sockError, errno, sock, m_RecvBuffer,
          rcv_queue, reader, delivered>>

-----------------------------------------------------------------------------
(* The peer and the network.                                               *)

Packet(i, len) == [k \in 1..(PACKHEADSIZE + len) |-> <<i, k>>]

\* packetAppend and send at the other end; a peer that does not speak the
\* protocol sends something else than the magic.
Send(len, magic) ==
    /\ peer = "open" /\ Len(frames) < MaxFrames
    /\ frames' = Append(frames, [len |-> len, magic |-> magic])
    /\ flight' = flight \o Packet(Len(frames) + 1, len)
    /\ UNCHANGED <<wire, peer, sockError, errno, sock, m_RecvBuffer, rcv_queue,
                   reader, delivered>>

Arrive(n) ==
    /\ n <= Len(flight)
    /\ wire' = wire \o SubSeq(flight, 1, n)
    /\ flight' = SubSeq(flight, n + 1, Len(flight))
    /\ UNCHANGED <<frames, peer, sockError, errno, sock, m_RecvBuffer, rcv_queue,
                   reader, delivered>>

PeerClose ==
    /\ peer = "open" /\ peer' = "closed"
    /\ UNCHANGED <<frames, flight, wire, sockError, errno, sock, m_RecvBuffer,
                   rcv_queue, reader, delivered>>

\* What is under way is lost; what has arrived can still be read.
PeerReset ==
    /\ peer = "open" /\ peer' = "reset"
    /\ flight' = <<>> /\ sockError' = TRUE
    /\ UNCHANGED <<frames, wire, errno, sock, m_RecvBuffer, rcv_queue, reader,
                   delivered>>

-----------------------------------------------------------------------------
(* The epoll thread: RecvData and what run does with its result.           *)

\* The two magic bytes are where they should be; a byte of a message is taken
\* never to look like them.
HeadRight(bytes) ==
    bytes[1][2] = 1 /\ bytes[2][2] = 2 /\ frames[bytes[1][1]].magic

\* The length field of the header the bytes begin with.
LenField(bytes) == frames[bytes[1][1]].len

\* Mutant: the header of the packet is not flipped away.
Keep_headLeft(bytes, nLen) ==
    IF Len(bytes) > PACKHEADSIZE /\ Len(bytes) = nLen + PACKHEADSIZE
    THEN /\ rcv_queue' = rcv_queue \o bytes
         /\ m_RecvBuffer' = SubSeq(bytes, nLen + 1, Len(bytes))
    ELSE m_RecvBuffer' = bytes /\ UNCHANGED rcv_queue

\* A whole packet goes to the queue, anything less stays.
Keep(bytes, nLen) ==
    IF Len(bytes) > PACKHEADSIZE /\ Len(bytes) = nLen + PACKHEADSIZE
    THEN rcv_queue' = rcv_queue \o bytes /\ m_RecvBuffer' = <<>>
    ELSE m_RecvBuffer' = bytes /\ UNCHANGED rcv_queue

\* Mutant: the thread modifies the registration instead of adding it again.
Registered_mod == UNCHANGED errno

\* epoll->add of a socket that is registered already.
Registered == errno' = "EEXIST"

\* RecvByte(size) and the rest of RecvData and run; kept is what the buffer
\* holds, nLen the local variable.
RecvByte(kept, size, nLen) ==
    \/ /\ wire # <<>>
       /\ LET n == IF size < Len(wire) THEN size ELSE Len(wire)
          IN  /\ Keep(kept \o SubSeq(wire, 1, n), nLen)
              /\ wire' = SubSeq(wire, n + 1, Len(wire))
       /\ Registered
       /\ UNCHANGED <<sock, sockError>>
    \/ /\ wire = <<>> /\ sockError
       /\ m_RecvBuffer' = kept
       /\ sockError' = FALSE /\ errno' = "ECONNRESET"
       /\ UNCHANGED <<wire, sock, rcv_queue>>
    \/ /\ wire = <<>> /\ ~sockError /\ peer # "open" /\ flight = <<>>
       /\ m_RecvBuffer' = kept
       /\ IF errno = "EAGAIN" THEN Registered /\ UNCHANGED sock
                              ELSE sock' = FALSE /\ UNCHANGED errno
       /\ UNCHANGED <<wire, sockError, rcv_queue>>

RecvHead ==
    /\ Len(m_RecvBuffer) < PACKHEADSIZE
    /\ RecvByte(m_RecvBuffer, PACKHEADSIZE - Len(m_RecvBuffer), 0)

RecvBody ==
    /\ Len(m_RecvBuffer) = PACKHEADSIZE
    /\ IF HeadRight(m_RecvBuffer)
       THEN RecvByte(m_RecvBuffer, LenField(m_RecvBuffer), LenField(m_RecvBuffer))
       ELSE /\ sock' = FALSE
            /\ UNCHANGED <<wire, sockError, errno, m_RecvBuffer, rcv_queue>>

\* Mutants: the largest message is refused; what has been read is asked for again.
RecvRest_tooLong ==
    /\ Len(m_RecvBuffer) > PACKHEADSIZE
    /\ LET nLen == LenField(m_RecvBuffer)
       IN  IF nLen >= MaxData
           THEN RecvByte(<<>>, PACKHEADSIZE, nLen)
           ELSE RecvByte(m_RecvBuffer, PACKHEADSIZE + nLen - Len(m_RecvBuffer), nLen)
RecvRest_again ==
    /\ Len(m_RecvBuffer) > PACKHEADSIZE
    /\ LET nLen == LenField(m_RecvBuffer)
       IN  IF nLen > MaxData
           THEN RecvByte(<<>>, PACKHEADSIZE, nLen)
           ELSE RecvByte(m_RecvBuffer, PACKHEADSIZE + nLen, nLen)

\* The rest of a packet; of one that is too long what has been read is forgotten.
RecvRest ==
    /\ Len(m_RecvBuffer) > PACKHEADSIZE
    /\ LET nLen == LenField(m_RecvBuffer)
       IN  IF nLen > MaxData
           THEN RecvByte(<<>>, PACKHEADSIZE, nLen)
           ELSE RecvByte(m_RecvBuffer, PACKHEADSIZE + nLen - Len(m_RecvBuffer), nLen)

\* What makes epoll_wait report EPOLLIN.
Readable == wire # <<>> \/ sockError \/ (peer # "open" /\ flight = <<>>)

RecvData ==
    /\ sock /\ Readable
    /\ RecvHead \/ RecvBody \/ RecvRest
    /\ UNCHANGED <<frames, flight, peer, reader, delivered>>

-----------------------------------------------------------------------------
(* The thread that owns the task.                                          *)

\* WaitRecv(false) = -1: the task is terminated.
ReaderGone ==
    /\ reader = "poll" /\ ~sock
    /\ reader' = "gone"
    /\ UNCHANGED <<frames, flight, wire, peer, sockError, errno, sock,
                   m_RecvBuffer, rcv_queue, delivered>>

ReaderPoll ==
    /\ reader = "poll" /\ sock /\ rcv_queue # <<>>
    /\ reader' = "parse"
    /\ UNCHANGED <<frames, flight, wire, peer, sockError, errno, sock,
                   m_RecvBuffer, rcv_queue, delivered>>

\* recvToCmd finds a packet and ListeningRecv gives it to msgParse.
CanTake == /\ sock
           /\ Len(rcv_queue) > PACKHEADSIZE
           /\ Len(rcv_queue) > LenField(rcv_queue)

Flip(n) == rcv_queue' = SubSeq(rcv_queue, n + 1, Len(rcv_queue))

\* Mutant: the header is not flipped away.
recvToCmd_headLeft ==
    /\ reader = "parse" /\ CanTake
    /\ LET nRecordLen == LenField(rcv_queue)
       IN  /\ delivered' = Append(delivered,
                  SubSeq(rcv_queue, PACKHEADSIZE + 1, PACKHEADSIZE + nRecordLen))
           /\ Flip(nRecordLen)
    /\ UNCHANGED <<frames, flight, wire, peer, sockError, errno, sock,
                   m_RecvBuffer, reader>>

recvToCmd ==
    /\ reader = "parse" /\ CanTake
    /\ LET nRecordLen == LenField(rcv_queue)
       IN  /\ delivered' = Append(delivered,
                  SubSeq(rcv_queue, PACKHEADSIZE + 1, PACKHEADSIZE + nRecordLen))
           /\ Flip(nRecordLen + PACKHEADSIZE)
    /\ UNCHANGED <<frames, flight, wire, peer, sockError, errno, sock,
                   m_RecvBuffer, reader>>

ReaderDone ==
    /\ reader = "parse" /\ ~CanTake
    /\ reader' = "poll"
    /\ UNCHANGED <<frames, flight, wire, peer, sockError, errno, sock,
                   m_RecvBuffer, rcv_queue, delivered>>

Reader == ReaderGone \/ ReaderPoll \/ recvToCmd \/ ReaderDone

-----------------------------------------------------------------------------
Init ==
    /\ frames = <<>> /\ flight = <<>> /\ wire = <<>>
    /\ peer = "open" /\ sockError = FALSE /\ errno \in {"EAGAIN", "other"}
    /\ sock = TRUE /\ m_RecvBuffer = <<>> /\ rcv_queue = <<>>
    /\ reader = "poll" /\ delivered = <<>>

Next ==
    \/ \E len \in Lens : \E magic \in BOOLEAN : Send(len, magic)
    \/ \E n \in 1..Len(flight) : Arrive(n)
    \/ PeerClose
    \/ PeerReset
    \/ RecvData
    \/ Reader

\* The network delivers what is under way and no thread stops running; the peer
\* may be silent for ever.
Fairness ==
    /\ WF_vars(\E n \in 1..Len(flight) : Arrive(n))
    /\ WF_vars(RecvData)
    /\ WF_vars(Reader)

Spec == Init /\ [][Next]_vars
FairSpec == Spec /\ Fairness

-----------------------------------------------------------------------------
Byte == (1..MaxFrames) \X Nat

TypeOK ==
    /\ frames \in Seq([len : Lens, magic : BOOLEAN]) /\ Len(frames) <= MaxFrames
    /\ flight \in Seq(Byte) /\ wire \in Seq(Byte)
    /\ m_RecvBuffer \in Seq(Byte) /\ rcv_queue \in Seq(Byte)
    /\ m_RecvBuffer # <<>> => \E len \in Lens : Len(m_RecvBuffer) < PACKHEADSIZE + len
    /\ peer \in {"open", "closed", "reset"}
    /\ errno \in {"EAGAIN", "EEXIST", "ECONNRESET", "other"}
    /\ sockError \in BOOLEAN /\ sock \in BOOLEAN
    /\ reader \in {"poll", "parse", "gone"}
    /\ delivered \in Seq(Seq(Byte))

Legal(i) == frames[i].magic /\ frames[i].len <= MaxData
AllLegal == \A i \in DOMAIN frames : Legal(i)

\* However the network cuts the stream, msgParse is given the messages that
\* were sent, whole, once each and in order.
InOrder ==
    /\ Len(delivered) <= Len(frames)
    /\ \A i \in DOMAIN delivered :
         /\ Len(delivered[i]) = frames[i].len
         /\ \A k \in DOMAIN delivered[i] : delivered[i][k] = <<i, PACKHEADSIZE + k>>

\* A connection is given up only when the peer has ended it or has sent what is
\* not allowed: no cut of the stream makes RecvData take a legal peer for a
\* bad one.
FaultCloses == ~sock => peer # "open" \/ ~AllLegal

\* Of a legal stream nothing is lost between the network and the owner: what
\* has not been delivered lies, without a gap, in the four places it passes.
Pending == rcv_queue \o m_RecvBuffer \o wire \o flight
Follows(a, b) ==
    IF a[2] < PACKHEADSIZE + frames[a[1]].len THEN b = <<a[1], a[2] + 1>>
                                              ELSE b = <<a[1] + 1, 1>>
NothingLost ==
    AllLegal =>
        /\ Pending # <<>> => Pending[1] = <<Len(delivered) + 1, 1>>
        /\ \A j \in 1..(Len(Pending) - 1) : Follows(Pending[j], Pending[j + 1])
        /\ peer # "reset" =>
              IF Pending = <<>> THEN Len(delivered) = Len(frames)
              ELSE Pending[Len(Pending)] =
                     <<Len(frames), PACKHEADSIZE + frames[Len(frames)].len>>

\* The queue holds whole packets only: the test rd_size > nRecordLen of
\* recvToCmd is too weak to find out.
QueueWhole ==
    rcv_queue # <<>> =>
        LET first == rcv_queue[1]
            last == rcv_queue[Len(rcv_queue)]
        IN  first[2] = 1 /\ last[2] = PACKHEADSIZE + frames[last[1]].len

\* A message of a legal stream reaches msgParse unless the connection ends.
Delivered ==
    \A i \in 1..MaxFrames :
        (i \in DOMAIN frames /\ AllLegal)
           ~> (Len(delivered) >= i \/ peer # "open" \/ ~AllLegal)

\* A connection the peer has closed or reset is given up in the end, although
\* the test of EPOLLERR & EPOLLHUP is never true and a stale EAGAIN hides the
\* end of the stream once.
CloseNoticed == (peer # "open") ~> (~sock /\ reader = "gone")
=============================================================================
