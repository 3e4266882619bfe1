-------------------------- MODULE ByteBuffer_proof --------------------------
(***************************************************************************)
(* The proofs about ByteBuffer.                                            *)
(***************************************************************************)
EXTENDS ByteBuffer, SequenceTheorems, TLAPS

\* The trunks taken for a write hold it, and less than one trunk is too much.
LEMMA TrunksEnough ==
    ASSUME NEW size \in Nat
    PROVE  /\ Trunk * trunkCount(size) \in Nat
           /\ Trunk * trunkCount(size) >= size
           /\ Trunk * trunkCount(size) <= size + Trunk - 1
  BY TrunkAssumption DEF trunkCount

\* What one call brings is a sequence of at most MaxPending bytes.
LEMMA ChunkData ==
    ASSUME NEW data \in Chunks
    PROVE  /\ Len(data) \in 0..MaxPending
           /\ data \in [1..Len(data) -> Bytes]
           /\ data \in Seq(Bytes)
  <1>1. PICK n \in 0..MaxPending : data \in [1..n -> Bytes]
    BY DEF Chunks
  <1>2. n \in Nat
    BY <1>1, TrunkAssumption
  <1>3. data \in Seq(Bytes) /\ Len(data) = n
    BY <1>1, <1>2
  <1> QED
    BY <1>1, <1>3

-----------------------------------------------------------------------------
(* The invariant.                                                          *)

\* What a write leaves: the room for it is there, and the block has grown only
\* when the end of the data was near.
LEMMA ReserveFits ==
    ASSUME TypeOK, Bounds, NEW size \in Nat
    PROVE  /\ wr_reserve(size) \in Nat
           /\ wr_reserve(size) >= maxSize
           /\ wr_reserve(size) >= currPtr + size
           /\ \/ wr_reserve(size) = maxSize
              \/ wr_reserve(size) <= currPtr + 2 * size + Trunk
  <1> DEFINE more == Trunk * trunkCount(size)
  <1>1. more \in Nat /\ more >= size /\ more <= size + Trunk - 1
    BY TrunksEnough
  <1>2. \/ wr_reserve(size) = maxSize /\ maxSize - currPtr >= size
        \/ wr_reserve(size) = maxSize + more /\ maxSize - currPtr < size
    BY DEF TypeOK, wr_reserve, wr_size
  <1> HIDE DEF more
  <1> QED
    BY <1>1, <1>2, TrunkAssumption DEF TypeOK, Bounds

\* A write keeps the invariant.
LEMMA WriteKeeps ==
    ASSUME BufferInv, NEW data \in Chunks, NEW size \in Nat,
           Len(data) <= size, rd_size + size <= MaxPending, Write(size, data)
    PROVE  BufferInv'
  <1>0. TypeOK /\ Bounds /\ WasteBounded /\ PendingBounded /\ MemoryBounded
    BY DEF BufferInv
  <1>1. /\ wr_reserve(size) \in Nat
        /\ wr_reserve(size) >= maxSize
        /\ wr_reserve(size) >= currPtr + size
        /\ \/ wr_reserve(size) = maxSize
           \/ wr_reserve(size) <= currPtr + 2 * size + Trunk
    BY <1>0, ReserveFits
  <1>2. Len(data) \in Nat /\ data \in [1..Len(data) -> Bytes]
    BY ChunkData, TrunkAssumption
  <1>3. /\ maxSize' = wr_reserve(size)
        /\ currPtr' = currPtr + Len(data)
        /\ offPtr' = offPtr
    BY DEF Write
  <1>4. buffer' \in [0..(wr_reserve(size) - 1) -> Bytes]
    <2>1. SUFFICES ASSUME NEW k \in 0..(wr_reserve(size) - 1)
                   PROVE  (IF k \in currPtr..(currPtr + Len(data) - 1)
                           THEN data[k - currPtr + 1]
                           ELSE IF k < maxSize THEN buffer[k] ELSE Zero) \in Bytes
      BY DEF Write
    <2>2. CASE k \in currPtr..(currPtr + Len(data) - 1)
      <3>1. k - currPtr + 1 \in 1..Len(data)
        BY <1>0, <1>1, <1>2, <2>2 DEF TypeOK
      <3> QED
        BY <1>2, <2>2, <3>1
    <2>3. CASE k \notin currPtr..(currPtr + Len(data) - 1)
      BY <1>0, <1>1, <2>3, BytesAssumption DEF TypeOK
    <2> QED
      BY <2>2, <2>3
  <1>5. TypeOK'
    BY <1>0, <1>1, <1>2, <1>3, <1>4 DEF TypeOK
  <1>6. Bounds' /\ WasteBounded' /\ PendingBounded'
    BY <1>0, <1>1, <1>2, <1>3, TrunkAssumption
    DEF TypeOK, Bounds, WasteBounded, PendingBounded, rd_size
  <1>7. MemoryBounded'
    BY <1>0, <1>1, <1>3, TrunkAssumption
    DEF TypeOK, Bounds, WasteBounded, MemoryBounded, rd_size
  <1> QED
    BY <1>5, <1>6, <1>7 DEF BufferInv

\* Consuming keeps the invariant.
LEMMA FlipKeeps ==
    ASSUME BufferInv, NEW size \in 1..MaxPending, rd_flip(size)
    PROVE  BufferInv'
  <1>0. TypeOK /\ Bounds /\ WasteBounded /\ PendingBounded /\ MemoryBounded
    BY DEF BufferInv
  <1>1. /\ size \in Nat /\ size > 0 /\ size <= currPtr - offPtr
        /\ maxSize' = maxSize
    BY TrunkAssumption DEF rd_flip, rd_size
  <1>2. CASE /\ currPtr - (offPtr + size) > 0
             /\ offPtr + size >= currPtr - (offPtr + size)
             /\ offPtr' = 0 /\ currPtr' = currPtr - (offPtr + size)
             /\ buffer' = [k \in 0..(maxSize - 1) |->
                              IF k < currPtr - (offPtr + size)
                              THEN buffer[offPtr + size + k] ELSE buffer[k]]
    <2>1. buffer' \in [0..(maxSize - 1) -> Bytes]
      <3>1. ASSUME NEW k \in 0..(maxSize - 1)
            PROVE  (IF k < currPtr - (offPtr + size)
                    THEN buffer[offPtr + size + k] ELSE buffer[k]) \in Bytes
        BY <1>0, <1>1 DEF TypeOK, Bounds
      <3> QED
        BY <1>2, <3>1
    <2> QED
      BY <1>0, <1>1, <1>2, <2>1, TrunkAssumption
      DEF BufferInv, TypeOK, Bounds, WasteBounded, PendingBounded,
          MemoryBounded, rd_size
  <1>3. CASE /\ currPtr - (offPtr + size) > offPtr + size
             /\ offPtr' = offPtr + size /\ currPtr' = currPtr /\ buffer' = buffer
    BY <1>0, <1>1, <1>3, TrunkAssumption
    DEF BufferInv, TypeOK, Bounds, WasteBounded, PendingBounded,
        MemoryBounded, rd_size
  <1>4. CASE offPtr' = 0 /\ currPtr' = 0 /\ buffer' = buffer
    BY <1>0, <1>1, <1>4, TrunkAssumption
    DEF BufferInv, TypeOK, Bounds, WasteBounded, PendingBounded,
        MemoryBounded, rd_size
  <1> QED
    BY <1>2, <1>3, <1>4 DEF rd_flip

\* BufferInv is inductive: it holds of every reachable state of a buffer, for
\* every trunk size and every amount of waiting data.
THEOREM BufferInvariant == Spec => []BufferInv
  <1>1. Init => BufferInv
    BY TrunkAssumption, BytesAssumption
    DEF Init, BufferInv, TypeOK, Bounds, WasteBounded, PendingBounded,
        MemoryBounded, rd_size
  <1>2. BufferInv /\ [Next]_vars => BufferInv'
    <2> SUFFICES ASSUME BufferInv, [Next]_vars
                 PROVE  BufferInv'
      OBVIOUS
    <2>1. ASSUME NEW data \in Chunks, put(data)
          PROVE  BufferInv'
      BY <2>1, ChunkData, WriteKeeps, TrunkAssumption DEF put
    <2>2. ASSUME NEW size \in 0..MaxPending, NEW data \in Chunks,
                 RecvByte(size, data)
          PROVE  BufferInv'
      BY <2>2, WriteKeeps, TrunkAssumption DEF RecvByte
    <2>3. ASSUME NEW size \in 1..MaxPending, rd_flip(size)
          PROVE  BufferInv'
      BY <2>3, FlipKeeps
    <2>4. CASE reset
      BY <2>4, TrunkAssumption
      DEF reset, BufferInv, TypeOK, Bounds, WasteBounded, PendingBounded,
          MemoryBounded, rd_size
    <2>5. CASE UNCHANGED vars
      BY <2>5
      DEF vars, BufferInv, TypeOK, Bounds, WasteBounded, PendingBounded,
          MemoryBounded, rd_size
    <2> QED
      BY <2>1, <2>2, <2>3, <2>4, <2>5 DEF Next
  <1> QED
    BY <1>1, <1>2, PTL DEF Spec

\* No access of a buffer leaves its block.
THEOREM BoundsKept == Spec => []Bounds
  BY BufferInvariant, PTL DEF BufferInv

\* A buffer whose users keep up stays small however long it is used.
THEOREM MemoryKept == Spec => []MemoryBounded
  BY BufferInvariant, PTL DEF BufferInv

-----------------------------------------------------------------------------
(* The bytes come out as they went in.                                     *)

\* The bytes between two indices of a block, as a sequence.
LEMMA BlockBytes ==
    ASSUME NEW max \in Nat, NEW off \in Nat, NEW curr \in Nat,
           off <= curr, curr <= max,
           NEW block \in [0..(max - 1) -> Bytes],
           NEW bytes, bytes = [k \in 1..(curr - off) |-> block[off + k - 1]]
    PROVE  /\ curr - off \in Nat
           /\ bytes \in Seq(Bytes)
           /\ Len(bytes) = curr - off
           /\ \A k \in 1..(curr - off) : bytes[k] = block[off + k - 1]
  <1>1. curr - off \in Nat
    OBVIOUS
  <1>2. ASSUME NEW k \in 1..(curr - off)
        PROVE  block[off + k - 1] \in Bytes
    OBVIOUS
  <1>3. bytes \in [1..(curr - off) -> Bytes]
    BY <1>2
  <1>4. bytes \in Seq(Bytes) /\ Len(bytes) = curr - off
    BY <1>1, <1>3
  <1> QED
    BY <1>1, <1>4

\* The content of a buffer, byte by byte, before and after a step.
LEMMA ContentBytes ==
    ASSUME BufferInv
    PROVE  /\ rd_size \in Nat
           /\ Content \in Seq(Bytes)
           /\ Len(Content) = rd_size
           /\ \A k \in 1..rd_size : Content[k] = buffer[offPtr + k - 1]
  BY BlockBytes DEF BufferInv, TypeOK, Bounds, Content, rd_size

LEMMA ContentBytesNext ==
    ASSUME BufferInv'
    PROVE  /\ rd_size' \in Nat
           /\ Content' \in Seq(Bytes)
           /\ Len(Content') = rd_size'
           /\ \A k \in 1..rd_size' : Content'[k] = buffer'[offPtr' + k - 1]
  BY BlockBytes DEF BufferInv, TypeOK, Bounds, Content, rd_size

\* A write adds its data at the end, whether or not the block has grown.
LEMMA WriteEnqueues ==
    ASSUME BufferInv, BufferInv', NEW data \in Chunks, NEW size \in Nat,
           Len(data) <= size, Write(size, data)
    PROVE  Queue!Enqueue(data)
  <1>1. /\ TypeOK /\ Bounds
        /\ rd_size \in Nat /\ Content \in Seq(Bytes) /\ Len(Content) = rd_size
        /\ \A k \in 1..rd_size : Content[k] = buffer[offPtr + k - 1]
    BY ContentBytes DEF BufferInv
  <1>2. /\ rd_size' \in Nat /\ Content' \in Seq(Bytes) /\ Len(Content') = rd_size'
        /\ \A k \in 1..rd_size' : Content'[k] = buffer'[offPtr' + k - 1]
    BY ContentBytesNext
  <1>3. Len(data) \in Nat /\ data \in Seq(Bytes)
    BY ChunkData, TrunkAssumption
  <1>4. rd_size' = rd_size + Len(data)
    BY <1>1, <1>3 DEF Write, rd_size, TypeOK
  <1>5. /\ wr_reserve(size) \in Nat
        /\ wr_reserve(size) >= maxSize
        /\ wr_reserve(size) >= currPtr + size
    BY <1>1, ReserveFits
  <1>6. /\ Content \o data \in Seq(Bytes)
        /\ Len(Content \o data) = rd_size + Len(data)
        /\ \A k \in 1..(rd_size + Len(data)) :
              (Content \o data)[k] =
                 IF k <= rd_size THEN Content[k] ELSE data[k - rd_size]
    BY <1>1, <1>3, ConcatProperties
  <1>7. ASSUME NEW k \in 1..(rd_size + Len(data))
        PROVE  Content'[k] = (Content \o data)[k]
    <2> DEFINE at == offPtr + k - 1
    <2>1. at \in 0..(wr_reserve(size) - 1)
      BY <1>1, <1>3, <1>5 DEF TypeOK, Bounds, rd_size
    <2>2. Content'[k] = buffer'[at]
      BY <1>2, <1>4 DEF Write
    <2>3. buffer'[at] = IF at \in currPtr..(currPtr + Len(data) - 1)
                        THEN data[at - currPtr + 1]
                        ELSE IF at < maxSize THEN buffer[at] ELSE Zero
      BY <2>1 DEF Write
    <2>4. CASE k <= rd_size
      <3>1. at \notin currPtr..(currPtr + Len(data) - 1) /\ at < maxSize
        BY <1>1, <2>4 DEF TypeOK, Bounds, rd_size
      <3>2. Content[k] = buffer[at]
        BY <1>1, <2>4
      <3> QED
        BY <1>6, <2>2, <2>3, <2>4, <3>1, <3>2
    <2>5. CASE ~(k <= rd_size)
      <3>1. /\ at \in currPtr..(currPtr + Len(data) - 1)
            /\ at - currPtr + 1 = k - rd_size
        BY <1>1, <1>3, <2>5 DEF TypeOK, rd_size
      <3> QED
        BY <1>6, <2>2, <2>3, <2>5, <3>1
    <2> QED
      BY <2>4, <2>5
  <1>8. Content' = Content \o data
    BY <1>2, <1>4, <1>6, <1>7, SeqEqual
  <1> QED
    BY <1>8 DEF Queue!Enqueue

\* Consuming takes the first bytes away, whether or not the rest is moved.
LEMMA FlipConsumes ==
    ASSUME BufferInv, BufferInv', NEW size \in 1..MaxPending, rd_flip(size)
    PROVE  size \in 1..Len(Content) /\ Queue!Consume(size)
  <1>1. /\ TypeOK /\ Bounds
        /\ rd_size \in Nat /\ Content \in Seq(Bytes) /\ Len(Content) = rd_size
        /\ \A k \in 1..rd_size : Content[k] = buffer[offPtr + k - 1]
    BY ContentBytes DEF BufferInv
  <1>2. /\ rd_size' \in Nat /\ Content' \in Seq(Bytes) /\ Len(Content') = rd_size'
        /\ \A k \in 1..rd_size' : Content'[k] = buffer'[offPtr' + k - 1]
    BY ContentBytesNext
  <1>3. size \in 1..rd_size
    BY <1>1, TrunkAssumption DEF rd_flip
  <1>4. rd_size' = rd_size - size
    BY <1>1, <1>3 DEF rd_flip, rd_size, TypeOK
  <1>5. /\ SubSeq(Content, size + 1, rd_size) \in Seq(Bytes)
        /\ Len(SubSeq(Content, size + 1, rd_size)) = rd_size - size
        /\ \A k \in 1..(rd_size - size) :
              SubSeq(Content, size + 1, rd_size)[k] = Content[size + k]
    <2> DEFINE rest == SubSeq(Content, size + 1, rd_size)
    <2>1. /\ size + 1 \in Int /\ rd_size \in Int
          /\ \A i \in (size + 1)..rd_size : Content[i] \in Bytes
      BY <1>1, <1>3, ElementOfSeq
    <2>2. /\ rest \in Seq(Bytes)
          /\ Len(rest) = IF size + 1 <= rd_size THEN rd_size - (size + 1) + 1 ELSE 0
          /\ \A k \in 1..(rd_size - (size + 1) + 1) :
                rest[k] = Content[(size + 1) + k - 1]
      BY <2>1, SubSeqProperties
    <2> HIDE DEF rest
    <2>3. rest \in Seq(Bytes) /\ Len(rest) = rd_size - size
      BY <1>1, <1>3, <2>2
    <2>4. ASSUME NEW k \in 1..(rd_size - size)
          PROVE  rest[k] = Content[size + k]
      <3>1. k \in 1..(rd_size - (size + 1) + 1) /\ (size + 1) + k - 1 = size + k
        BY <1>1, <1>3
      <3> QED
        BY <2>2, <3>1
    <2> QED
      BY <2>3, <2>4 DEF rest
  <1>6. ASSUME NEW k \in 1..(rd_size - size)
        PROVE  Content'[k] = Content[size + k]
    <2>1. Content'[k] = buffer'[offPtr' + k - 1] /\ k \in Nat
      BY <1>2, <1>4
    <2>2. size + k \in 1..rd_size
      BY <1>1, <1>3
    <2>3. Content[size + k] = buffer[offPtr + (size + k) - 1]
      BY <1>1, <2>2
    <2>4. CASE /\ currPtr - (offPtr + size) > 0
               /\ buffer' = [i \in 0..(maxSize - 1) |->
                                IF i < currPtr - (offPtr + size)
                                THEN buffer[offPtr + size + i] ELSE buffer[i]]
               /\ offPtr' = 0
      <3>1. /\ k - 1 \in 0..(maxSize - 1)
            /\ k - 1 < currPtr - (offPtr + size)
            /\ offPtr + size + (k - 1) = offPtr + (size + k) - 1
            /\ offPtr' + k - 1 = k - 1
        BY <1>1, <1>3, <2>4 DEF TypeOK, Bounds, rd_size
      <3>2. buffer'[k - 1] = buffer[offPtr + size + (k - 1)]
        BY <2>4, <3>1
      <3> QED
        BY <2>1, <2>3, <3>1, <3>2
    <2>5. CASE offPtr' = offPtr + size /\ buffer' = buffer
      BY <1>1, <1>3, <2>1, <2>3, <2>5 DEF TypeOK
    <2>6. CASE currPtr - (offPtr + size) = 0
      BY <1>1, <1>3, <2>6 DEF TypeOK, rd_size
    <2> QED
      BY <2>4, <2>5, <2>6 DEF rd_flip
  <1>7. Content' = SubSeq(Content, size + 1, rd_size)
    BY <1>2, <1>4, <1>5, <1>6, SeqEqual
  <1> QED
    BY <1>1, <1>3, <1>7 DEF Queue!Consume

\* Forgetting everything is consuming everything.
LEMMA ResetConsumes ==
    ASSUME BufferInv, BufferInv', reset
    PROVE  \/ Content' = Content
           \/ \E n \in 1..Len(Content) : Queue!Consume(n)
  <1>1. /\ rd_size \in Nat /\ Content \in Seq(Bytes) /\ Len(Content) = rd_size
    BY ContentBytes
  <1>2. Content' \in Seq(Bytes) /\ Len(Content') = 0
    BY ContentBytesNext DEF reset, rd_size
  <1>3. CASE rd_size = 0
    BY <1>1, <1>2, <1>3, SeqEqual
  <1>4. CASE rd_size > 0
    <2>1. /\ SubSeq(Content, Len(Content) + 1, Len(Content)) \in Seq(Bytes)
          /\ Len(SubSeq(Content, Len(Content) + 1, Len(Content))) = 0
      BY <1>1
    <2>2. Content' = SubSeq(Content, Len(Content) + 1, Len(Content))
      BY <1>2, <2>1, SeqEqual
    <2>3. Queue!Consume(Len(Content))
      BY <2>2 DEF Queue!Consume
    <2> QED
      BY <1>1, <1>4, <2>3
  <1> QED
    BY <1>1, <1>3, <1>4

\* ByteBuffer implements ByteFifo: growing, moving and starting again never
\* lose, repeat or reorder a byte.
THEOREM FifoRefined == Spec => FifoKept
  <1>1. Init => Queue!Init
    <2> SUFFICES ASSUME Init PROVE Content = << >>
      BY DEF Queue!Init
    <2>1. rd_size = 0
      BY DEF Init, rd_size
    <2> QED
      BY <2>1 DEF Content
  <1>2. BufferInv /\ BufferInv' /\ [Next]_vars => [Queue!Next]_Content
    <2> SUFFICES ASSUME BufferInv, BufferInv', [Next]_vars
                 PROVE  Queue!Next \/ Content' = Content
      OBVIOUS
    <2>1. ASSUME NEW data \in Chunks, put(data)
          PROVE  Queue!Enqueue(data)
      BY <2>1, ChunkData, WriteEnqueues, TrunkAssumption DEF put
    <2>2. ASSUME NEW size \in 0..MaxPending, NEW data \in Chunks,
                 RecvByte(size, data)
          PROVE  Queue!Enqueue(data)
      BY <2>2, WriteEnqueues, TrunkAssumption DEF RecvByte
    <2>3. ASSUME NEW size \in 1..MaxPending, rd_flip(size)
          PROVE  size \in 1..Len(Content) /\ Queue!Consume(size)
      BY <2>3, FlipConsumes
    <2>4. CASE reset
      BY <2>4, ResetConsumes DEF Queue!Next
    <2>5. CASE UNCHANGED vars
      BY <2>5 DEF vars, Content, rd_size
    <2> QED
      BY <2>1, <2>2, <2>3, <2>4, <2>5 DEF Next, Queue!Next
  <1> QED
    BY <1>1, <1>2, BufferInvariant, PTL DEF Spec, FifoKept, Queue!Fifo
=============================================================================
