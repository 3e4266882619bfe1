------------------------------ MODULE RcvQueue ------------------------------
(***************************************************************************)
(* _rcv_queue between its two threads: the epoll thread puts whole packets *)
(* into it under the lock (end of zSocket::RecvData), the owner of the     *)
(* task looks at it and copies a packet out of it without the lock, and    *)
(* takes the lock only to flip the packet away (zSocket::recvToCmd).       *)
(*                                                                         *)
(* The queue is the ByteBuffer of module ByteBuffer; what is added here is *)
(* where its memory is: growing moves the block and frees the old one.     *)
(***************************************************************************)
EXTENDS Integers, Sequences

CONSTANTS
    Lens,        \* lengths of packets, header included
    MaxPackets,  \* at most this many are put
    Zero, Trunk, MaxPending,
    Epoll        \* the epoll thread, as a holder of the lock

ASSUME LensAssumption == Lens \subseteq Nat \ {0}
ASSUME PacketsAssumption == MaxPackets \in Nat
ASSUME SizesAssumption == Trunk \in Nat \ {0} /\ MaxPending \in Nat

Free == "free"
Junk == "junk"  \* what freed memory may hold

ASSUME EpollAssumption == Epoll # Free

Byte == (1..MaxPackets) \X (1..MaxPending)

VARIABLES
    maxSize, offPtr, currPtr, buffer,  \* _rcv_queue
    block,      \* which block of memory _buffer is: counts the moves
    m_lock,     \* _rcv_queue.m_lock: Free or its holder
    lens,       \* the packets put, the one under way included
    writer,     \* the epoll thread: "idle", "copy" or "advance"
    reader,     \* the owner: "idle", "copy" or "flip"
    seen,       \* where the owner found the packet: block, index and length
    out,        \* the packet it copied
    delivered   \* the packets recvToCmd has returned

queueVars == <<maxSize, offPtr, currPtr, buffer>>
vars == <<maxSize, offPtr, currPtr, buffer, block, m_lock, lens, writer, reader,
          seen, out, delivered>>

Queue == INSTANCE ByteBuffer WITH Bytes <- Byte \cup {Zero}

Packet(i) == [k \in 1..lens[i] |-> <<i, k>>]
Last == Len(lens)

-----------------------------------------------------------------------------
(* The epoll thread: lock, put, unlock.                                    *)

\* Mutant: put does not take the lock.
PutReserve_unlocked(len) ==
    /\ writer = "idle" /\ Last < MaxPackets
    /\ Queue!rd_size + len <= MaxPending
    /\ lens' = Append(lens, len)
    /\ maxSize' = Queue!wr_reserve(len)
    /\ buffer' = [k \in 0..(Queue!wr_reserve(len) - 1) |->
                     IF k < maxSize THEN buffer[k] ELSE Zero]
    /\ block' = IF Queue!wr_reserve(len) > maxSize THEN block + 1 ELSE block
    /\ writer' = "copy"
    /\ UNCHANGED <<offPtr, currPtr, m_lock, reader, seen, out, delivered>>

\* wr_reserve: resize moves the block when it has to grow.
PutReserve(len) ==
    /\ writer = "idle" /\ Last < MaxPackets
    /\ Queue!rd_size + len <= MaxPending
    /\ m_lock = Free /\ m_lock' = Epoll
    /\ lens' = Append(lens, len)
    /\ maxSize' = Queue!wr_reserve(len)
    /\ buffer' = [k \in 0..(Queue!wr_reserve(len) - 1) |->
                     IF k < maxSize THEN buffer[k] ELSE Zero]
    /\ block' = IF Queue!wr_reserve(len) > maxSize THEN block + 1 ELSE block
    /\ writer' = "copy"
    /\ UNCHANGED <<offPtr, currPtr, reader, seen, out, delivered>>

\* The packet is copied behind the others.
PutCopy ==
    /\ writer = "copy"
    /\ buffer' = [k \in DOMAIN buffer |->
                     IF k \in currPtr..(currPtr + lens[Last] - 1)
                     THEN <<Last, k - currPtr + 1>> ELSE buffer[k]]
    /\ writer' = "advance"
    /\ UNCHANGED <<maxSize, offPtr, currPtr, block, m_lock, lens, reader, seen,
                   out, delivered>>

\* currPtr moves, from now on the owner sees the packet; unlock.
PutAdvance ==
    /\ writer = "advance"
    /\ currPtr' = currPtr + lens[Last]
    /\ m_lock' = Free
    /\ writer' = "idle"
    /\ UNCHANGED <<maxSize, offPtr, buffer, block, lens, reader, seen, out,
                   delivered>>

-----------------------------------------------------------------------------
(* The owner: recvToCmd.                                                   *)

\* The length of the packet that begins at an index of the block.
LengthAt(at) == lens[buffer[at][1]]

\* A packet is there: rd_buf() is taken.
ReadBegin ==
    /\ reader = "idle" /\ Queue!rd_size > 0
    /\ seen' = [block |-> block, at |-> offPtr, len |-> LengthAt(offPtr)]
    /\ reader' = "copy"
    /\ UNCHANGED <<queueVars, block, m_lock, lens, writer, out, delivered>>

\* packetUnpack copies it, from wherever it was.
ReadCopy ==
    /\ reader = "copy"
    /\ out' = [k \in 1..seen.len |->
                  IF seen.block = block THEN buffer[seen.at + k - 1] ELSE Junk]
    /\ reader' = "flip"
    /\ UNCHANGED <<queueVars, block, m_lock, lens, writer, seen, delivered>>

\* rd_flip under the lock; the packet is returned.
ReadFlip ==
    /\ reader = "flip" /\ m_lock = Free
    /\ Queue!rd_flip(seen.len)
    /\ delivered' = Append(delivered, out)
    /\ reader' = "idle"
    /\ UNCHANGED <<block, m_lock, lens, writer, seen, out>>

-----------------------------------------------------------------------------
Init ==
    /\ Queue!Init
    /\ block = 0 /\ m_lock = Free /\ lens = <<>>
    /\ writer = "idle" /\ reader = "idle"
    /\ seen = [block |-> 0, at |-> 0, len |-> 0] /\ out = <<>> /\ delivered = <<>>

Next ==
    \/ \E len \in Lens : PutReserve(len)
    \/ PutCopy
    \/ PutAdvance
    \/ ReadBegin
    \/ ReadCopy
    \/ ReadFlip

Spec == Init /\ [][Next]_vars

-----------------------------------------------------------------------------
\* What a thread copies out without the lock is what the other has put in,
\* packet by packet.
PacketsRight ==
    /\ Len(delivered) <= Last
    /\ \A i \in DOMAIN delivered : delivered[i] = Packet(i)

\* While the owner copies, the epoll thread writes somewhere else in the same
\* block. engine.h says of the queue that both threads use it and that it must
\* therefore be locked.
ApartInBlock ==
    reader = "copy" =>
        /\ seen.block = block
        /\ seen.at = offPtr /\ seen.at + seen.len <= currPtr
=============================================================================
