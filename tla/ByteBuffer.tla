----------------------------- MODULE ByteBuffer -----------------------------
(***************************************************************************)
(* ByteBuffer<std::vector<BYTE>> (t_BufferCmdQueue, include/engine.h): one *)
(* block of memory that is written at currPtr, read at offPtr, grown in    *)
(* trunks when a write does not fit, and compacted when the consumed front *)
(* is at least as long as what is left.                                    *)
(*                                                                         *)
(* The lock m_lock is the callers' business; here every call is one step.  *)
(***************************************************************************)
EXTENDS Integers, Sequences

CONSTANTS
    Bytes,      \* the values of a byte
    Zero,       \* what vector::resize fills the new memory with
    Trunk,      \* trunkSize
    MaxPending  \* the callers never have more bytes than this waiting

ASSUME BytesAssumption == Zero \in Bytes
ASSUME TrunkAssumption == Trunk \in Nat \ {0} /\ MaxPending \in Nat

VARIABLES
    maxSize,    \* _maxSize
    offPtr,     \* _offPtr: the first byte not yet consumed
    currPtr,    \* _currPtr: where the next byte is written
    buffer      \* _buffer

vars == <<maxSize, offPtr, currPtr, buffer>>

rd_size == currPtr - offPtr
wr_size == maxSize - currPtr

trunkCount(size) == (size + Trunk - 1) \div Trunk

\* The capacity after wr_reserve.
wr_reserve(size) ==
    IF wr_size < size THEN maxSize + Trunk * trunkCount(size) ELSE maxSize

\* wr_reserve(size), data copied to wr_buf(), and currPtr moved past it.
Write(size, data) ==
    /\ maxSize' = wr_reserve(size)
    /\ buffer' = [k \in 0..(wr_reserve(size) - 1) |->
                     IF k \in currPtr..(currPtr + Len(data) - 1)
                     THEN data[k - currPtr + 1]
                     ELSE IF k < maxSize THEN buffer[k] ELSE Zero]
    /\ currPtr' = currPtr + Len(data)
    /\ UNCHANGED offPtr

put(data) ==
    /\ rd_size + Len(data) <= MaxPending
    /\ Write(Len(data), data)

\* zSocket::RecvByte: recv may bring less than was reserved, or nothing.
RecvByte(size, data) ==
    /\ rd_size + size <= MaxPending /\ Len(data) <= size
    /\ Write(size, data)

\* Mutants: the data is moved and the end left where it was; the indices of an
\* emptied buffer are not started again; nothing is ever moved.
rd_flip_keepsEnd(size) ==
    LET off == offPtr + size
        tmp == currPtr - off
    IN  /\ size > 0 /\ size <= rd_size
        /\ IF tmp > 0 /\ off >= tmp
           THEN /\ buffer' = [k \in 0..(maxSize - 1) |->
                                 IF k < tmp THEN buffer[off + k] ELSE buffer[k]]
                /\ offPtr' = 0 /\ currPtr' = currPtr
           ELSE IF tmp > 0 THEN offPtr' = off /\ UNCHANGED <<currPtr, buffer>>
           ELSE offPtr' = 0 /\ currPtr' = 0 /\ UNCHANGED buffer
        /\ UNCHANGED maxSize
rd_flip_never(size) ==
    /\ size > 0 /\ size <= rd_size
    /\ offPtr' = offPtr + size
    /\ UNCHANGED <<maxSize, currPtr, buffer>>
rd_flip_early(size) ==
    LET off == offPtr + size
        tmp == currPtr - off
    IN  /\ size > 0 /\ size <= rd_size
        /\ IF tmp > 0
           THEN /\ offPtr' = off /\ UNCHANGED <<currPtr, buffer>>
           ELSE /\ offPtr' = 0 /\ currPtr' = 0 /\ UNCHANGED buffer
        /\ UNCHANGED maxSize

\* size bytes have been used: what is left is moved to the front when it fits
\* into the consumed part, and an empty buffer starts again at 0.
rd_flip(size) ==
    LET off == offPtr + size
        tmp == currPtr - off
    IN  /\ size > 0 /\ size <= rd_size
        /\ \/ /\ tmp > 0 /\ off >= tmp
              /\ buffer' = [k \in 0..(maxSize - 1) |->
                               IF k < tmp THEN buffer[off + k] ELSE buffer[k]]
              /\ offPtr' = 0 /\ currPtr' = tmp
           \/ /\ tmp > off
              /\ offPtr' = off
              /\ UNCHANGED <<currPtr, buffer>>
           \/ /\ tmp = 0
              /\ offPtr' = 0 /\ currPtr' = 0
              /\ UNCHANGED buffer
        /\ UNCHANGED maxSize

reset ==
    /\ offPtr' = 0 /\ currPtr' = 0
    /\ UNCHANGED <<maxSize, buffer>>

-----------------------------------------------------------------------------
Init ==
    /\ maxSize = Trunk /\ offPtr = 0 /\ currPtr = 0
    /\ buffer = [k \in 0..(Trunk - 1) |-> Zero]

\* The data of one call.
Chunks == UNION {[1..n -> Bytes] : n \in 0..MaxPending}

Next ==
    \/ \E data \in Chunks : put(data)
    \/ \E size \in 0..MaxPending : \E data \in Chunks : RecvByte(size, data)
    \/ \E size \in 1..MaxPending : rd_flip(size)
    \/ reset

Spec == Init /\ [][Next]_vars

-----------------------------------------------------------------------------
TypeOK ==
    /\ maxSize \in Nat /\ offPtr \in Nat /\ currPtr \in Nat
    /\ buffer \in [0..(maxSize - 1) -> Bytes]

\* The three indices stay in order, so no access leaves the block: what has been
\* reserved fits, and what is read has been written.
Bounds == offPtr <= currPtr /\ currPtr <= maxSize

\* The consumed front is always shorter than the data behind it, or empty: the
\* condition under which rd_flip moves is exactly enough to bound the waste.
WasteBounded == offPtr = 0 \/ offPtr < rd_size

\* So a buffer whose users keep up never grows beyond twice what may be waiting
\* and one trunk, however long it is used.
PendingBounded == rd_size <= MaxPending
MemoryBounded == maxSize <= 2 * MaxPending + Trunk

BufferInv == TypeOK /\ Bounds /\ WasteBounded /\ PendingBounded /\ MemoryBounded

\* Through growing, moving and starting again the bytes come out as they went
\* in: ByteBuffer implements ByteFifo.
Content == [k \in 1..rd_size |-> buffer[offPtr + k - 1]]
Queue == INSTANCE ByteFifo WITH content <- Content, Chunks <- Chunks
FifoKept == Queue!Fifo
=============================================================================
