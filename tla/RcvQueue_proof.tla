--------------------------- MODULE RcvQueue_proof ---------------------------
(***************************************************************************)
(* What is proved about RcvQueue, for every set of lengths, every number   *)
(* of packets and every size of a trunk. The queue may grow, and its block *)
(* move, as often as it likes: as long as that does not happen while the   *)
(* owner copies, what the owner copies without the lock is what the epoll  *)
(* thread has put in. Nothing in the code sees to it that it does not      *)
(* happen: that is the finding of the run rcvqueue_grow, and here the only *)
(* thing that can go wrong.                                                *)
(***************************************************************************)
EXTENDS RcvQueue, SequenceTheorems, TLAPS

\* No put moves the block between the owner's look at the queue and the end of its
\* copy.
NotMovedWhileCopied == [][reader = "copy" => block' = block]_vars

LEMMA ConstantsAre ==
    /\ Lens \subseteq Nat \ {0} /\ Trunk \in Nat \ {0} /\ MaxPending \in Nat
    /\ Epoll # Free
  BY LensAssumption, SizesAssumption, EpollAssumption

-----------------------------------------------------------------------------
(* Packets in a block of memory.                                           *)

\* From lo to before hi the memory b holds bytes of the packets 1..n, whose
\* lengths L tells, one behind the other. It is said of any two bytes, and not
\* only of neighbours, so that it can be used without counting.
Laid(b, lo, hi, n, L) ==
    /\ \A j \in lo..(hi - 1) : b[j][1] \in 1..n /\ b[j][2] \in 1..L[b[j][1]]
    /\ \A j, l \in lo..(hi - 1) : j <= l =>
          LET k == b[j][2] + (l - j)
          IN  /\ k <= L[b[j][1]] => b[l] = <<b[j][1], k>>
              /\ k = L[b[j][1]] + 1 => b[l] = <<b[j][1] + 1, 1>>

\* It begins with the packet behind the first d and ends with the n-th.
Whole(b, lo, hi, d, n, L) ==
    IF lo = hi THEN d = n ELSE b[lo] = <<d + 1, 1>> /\ b[hi - 1] = <<n, L[n]>>

\* The packet behind the first d is there whole, and behind it the next one.
Front(b, lo, hi, d, n, L) ==
    /\ d + 1 \in 1..n /\ L[d + 1] \in Nat \ {0}
    /\ lo + L[d + 1] <= hi
    /\ \A k \in 1..L[d + 1] : b[lo + k - 1] = <<d + 1, k>>
    /\ lo + L[d + 1] < hi => b[lo + L[d + 1]] = <<d + 2, 1>>
    /\ lo + L[d + 1] = hi => d + 1 = n

\* What is laid begins with such a packet.
LEMMA FirstPacket ==
    ASSUME NEW b, NEW lo \in Nat, NEW hi \in Nat, NEW d \in Nat, NEW n \in Nat,
           NEW L \in Seq(Lens), n <= Len(L), lo < hi,
           Laid(b, lo, hi, n, L), Whole(b, lo, hi, d, n, L)
    PROVE  Front(b, lo, hi, d, n, L)
<1> DEFINE i == d + 1
           z == L[i]
<1>1. lo \in lo..(hi - 1) /\ hi - 1 \in lo..(hi - 1) /\ lo # hi
  OBVIOUS
<1>2. b[lo] = <<i, 1>> /\ b[hi - 1] = <<n, L[n]>>
  BY <1>1 DEF Whole
<1>3. i \in 1..n
  BY <1>1, <1>2 DEF Laid
<1>4. z \in Nat \ {0}
  <2>1. i \in 1..Len(L) /\ Len(L) \in Nat
    BY <1>3, LenProperties
  <2>2. z \in Lens
    BY <2>1, ElementOfSeq
  <2> QED BY <2>2, ConstantsAre
<1>5. \A l \in lo..(hi - 1) : /\ 1 + (l - lo) <= z => b[l] = <<i, 1 + (l - lo)>>
                              /\ 1 + (l - lo) = z + 1 => b[l] = <<i + 1, 1>>
  <2> TAKE l \in lo..(hi - 1)
  <2>1. lo <= l
    OBVIOUS
  <2>2. LET k == b[lo][2] + (l - lo)
        IN  /\ k <= L[b[lo][1]] => b[l] = <<b[lo][1], k>>
            /\ k = L[b[lo][1]] + 1 => b[l] = <<b[lo][1] + 1, 1>>
    BY <1>1, <2>1 DEF Laid
  <2>3. b[lo][2] = 1 /\ b[lo][1] = i
    BY <1>2
  <2> QED BY <2>2, <2>3
<1> HIDE DEF z
<1>6. hi <= lo + z => hi = lo + z /\ i = n
  <2> SUFFICES ASSUME hi <= lo + z PROVE hi = lo + z /\ i = n
    OBVIOUS
  <2>1. 1 + (hi - 1 - lo) <= z
    BY <1>4
  <2>2. b[hi - 1] = <<i, 1 + (hi - 1 - lo)>>
    BY <1>1, <1>5, <2>1
  <2>3. i = n /\ 1 + (hi - 1 - lo) = L[n]
    BY <1>2, <2>2
  <2>4. L[n] = z
    BY <2>3 DEF z
  <2> QED BY <1>4, <2>3, <2>4
<1>7. lo + z <= hi
  BY <1>4, <1>6
<1>8. \A k \in 1..z : b[lo + k - 1] = <<i, k>>
  <2> TAKE k \in 1..z
  <2> DEFINE l == lo + k - 1
  <2>1. l \in lo..(hi - 1) /\ 1 + (l - lo) = k
    BY <1>4, <1>7
  <2> HIDE DEF l
  <2>2. b[l] = <<i, k>>
    BY <1>4, <1>5, <2>1
  <2> QED BY <2>2 DEF l
<1>9. lo + z < hi => b[lo + z] = <<d + 2, 1>>
  <2> SUFFICES ASSUME lo + z < hi PROVE b[lo + z] = <<d + 2, 1>>
    OBVIOUS
  <2> DEFINE l == lo + z
  <2>1. l \in lo..(hi - 1) /\ 1 + (l - lo) = z + 1
    BY <1>4
  <2> HIDE DEF l
  <2>2. b[l] = <<i + 1, 1>> /\ i + 1 = d + 2
    BY <1>5, <2>1
  <2> QED BY <2>2 DEF l
<1> QED BY <1>3, <1>4, <1>6, <1>7, <1>8, <1>9 DEF z, Front

\* What is left when the front goes, wherever it is moved to.
LEMMA LaidMoved ==
    ASSUME NEW b, NEW c, NEW lo \in Nat, NEW hi \in Nat, NEW off \in lo..hi, NEW to \in Nat,
           NEW n, NEW L, Laid(b, lo, hi, n, L),
           \A k \in 0..(hi - off - 1) : c[to + k] = b[off + k]
    PROVE  Laid(c, to, to + (hi - off), n, L)
<1>1. \A j \in to..(to + (hi - off) - 1) :
         /\ j - to \in 0..(hi - off - 1) /\ off + (j - to) \in lo..(hi - 1)
         /\ c[j] = b[off + (j - to)]
  <2> TAKE j \in to..(to + (hi - off) - 1)
  <2>1. j - to \in 0..(hi - off - 1) /\ off + (j - to) \in lo..(hi - 1) /\ to + (j - to) = j
    OBVIOUS
  <2>2. c[to + (j - to)] = b[off + (j - to)]
    BY <2>1
  <2> QED BY <2>1, <2>2
<1>2. \A j \in to..(to + (hi - off) - 1) : c[j][1] \in 1..n /\ c[j][2] \in 1..L[c[j][1]]
  BY <1>1 DEF Laid
<1>3. ASSUME NEW j \in to..(to + (hi - off) - 1), NEW l \in to..(to + (hi - off) - 1), j <= l
      PROVE  LET k == c[j][2] + (l - j)
             IN  /\ k <= L[c[j][1]] => c[l] = <<c[j][1], k>>
                 /\ k = L[c[j][1]] + 1 => c[l] = <<c[j][1] + 1, 1>>
  <2> DEFINE p == off + (j - to)
             q == off + (l - to)
  <2>1. p \in lo..(hi - 1) /\ q \in lo..(hi - 1) /\ c[j] = b[p] /\ c[l] = b[q]
    BY <1>1
  <2>2. p <= q /\ q - p = l - j
    BY <1>3
  <2> HIDE DEF p, q
  <2>3. LET k == b[p][2] + (q - p)
        IN  /\ k <= L[b[p][1]] => b[q] = <<b[p][1], k>>
            /\ k = L[b[p][1]] + 1 => b[q] = <<b[p][1] + 1, 1>>
    BY <2>1, <2>2 DEF Laid
  <2> QED BY <2>1, <2>2, <2>3
<1> QED BY <1>2, <1>3 DEF Laid

\* What is laid stays laid where its bytes stay.
LEMMA LaidStays ==
    ASSUME NEW b, NEW c, NEW lo \in Nat, NEW hi \in Nat, lo <= hi, NEW n, NEW L,
           Laid(b, lo, hi, n, L), \A k \in 0..(hi - lo - 1) : c[lo + k] = b[lo + k]
    PROVE  Laid(c, lo, hi, n, L)
<1>1. lo \in lo..hi /\ lo + (hi - lo) = hi
  OBVIOUS
<1>2. Laid(c, lo, lo + (hi - lo), n, L)
  BY <1>1, LaidMoved
<1> QED BY <1>1, <1>2
LEMMA WholeStays ==
    ASSUME NEW b, NEW c, NEW lo \in Nat, NEW hi \in Nat, lo <= hi, NEW d, NEW n, NEW L,
           Whole(b, lo, hi, d, n, L), \A k \in 0..(hi - lo - 1) : c[lo + k] = b[lo + k]
    PROVE  Whole(c, lo, hi, d, n, L)
<1>1. CASE lo = hi
  BY <1>1 DEF Whole
<1>2. CASE lo # hi
  <2>1. /\ 0 \in 0..(hi - lo - 1) /\ lo + 0 = lo
        /\ hi - 1 - lo \in 0..(hi - lo - 1) /\ lo + (hi - 1 - lo) = hi - 1
    BY <1>2
  <2>2. c[lo + 0] = b[lo + 0] /\ c[lo + (hi - 1 - lo)] = b[lo + (hi - 1 - lo)]
    BY <2>1
  <2>3. c[lo] = b[lo] /\ c[hi - 1] = b[hi - 1]
    BY <2>1, <2>2
  <2> QED BY <1>2, <2>3 DEF Whole
<1> QED BY <1>1, <1>2

\* Of packets that are there only the lengths matter.
LEMMA LaidKept ==
    ASSUME NEW b, NEW lo \in Nat, NEW hi \in Nat, lo <= hi, NEW d, NEW n, NEW L, NEW M,
           \A i \in 1..n : M[i] = L[i],
           Laid(b, lo, hi, n, L), Whole(b, lo, hi, d, n, L)
    PROVE  Laid(b, lo, hi, n, M) /\ Whole(b, lo, hi, d, n, M)
<1>1. \A j \in lo..(hi - 1) : b[j][1] \in 1..n /\ M[b[j][1]] = L[b[j][1]]
  BY DEF Laid
<1>2. Laid(b, lo, hi, n, M)
  <2>1. \A j \in lo..(hi - 1) : b[j][1] \in 1..n /\ b[j][2] \in 1..M[b[j][1]]
    BY <1>1 DEF Laid
  <2>2. ASSUME NEW j \in lo..(hi - 1), NEW l \in lo..(hi - 1), j <= l
        PROVE  LET k == b[j][2] + (l - j)
               IN  /\ k <= M[b[j][1]] => b[l] = <<b[j][1], k>>
                   /\ k = M[b[j][1]] + 1 => b[l] = <<b[j][1] + 1, 1>>
    <3>1. LET k == b[j][2] + (l - j)
          IN  /\ k <= L[b[j][1]] => b[l] = <<b[j][1], k>>
              /\ k = L[b[j][1]] + 1 => b[l] = <<b[j][1] + 1, 1>>
      BY <2>2 DEF Laid
    <3> QED BY <1>1, <3>1
  <2> QED BY <2>1, <2>2 DEF Laid
<1>3. CASE lo = hi
  BY <1>2, <1>3 DEF Whole
<1>4. CASE lo # hi
  <2>1. hi - 1 \in lo..(hi - 1)
    BY <1>4
  <2>2. b[lo] = <<d + 1, 1>> /\ b[hi - 1] = <<n, L[n]>>
    BY <1>4 DEF Whole
  <2>3. M[n] = L[n]
    BY <1>1, <2>1, <2>2
  <2> QED BY <1>2, <1>4, <2>2, <2>3 DEF Whole
<1> QED BY <1>3, <1>4

\* A packet is put behind the others.
LEMMA LaidMore ==
    ASSUME NEW b, NEW lo \in Nat, NEW hi \in Nat, lo <= hi, NEW d \in Nat, NEW n \in Nat,
           NEW L \in Seq(Lens), n + 1 <= Len(L),
           Laid(b, lo, hi, n, L), Whole(b, lo, hi, d, n, L),
           \A k \in 1..L[n + 1] : b[hi + k - 1] = <<n + 1, k>>
    PROVE  LET top == hi + L[n + 1]
           IN  /\ top \in Nat /\ hi < top
               /\ Laid(b, lo, top, n + 1, L) /\ Whole(b, lo, top, d, n + 1, L)
<1> DEFINE i == n + 1
           z == L[i]
           top == hi + z
<1>1. i \in 1..Len(L) /\ Len(L) \in Nat
  BY LenProperties
<1>2. z \in Nat \ {0} /\ \A m \in 1..n : L[m] \in Nat
  <2>1. \A m \in 1..Len(L) : L[m] \in Lens
    BY ElementOfSeq
  <2>2. \A m \in 1..n : m \in 1..Len(L)
    BY <1>1
  <2> QED BY <1>1, <2>1, <2>2, ConstantsAre
<1>3. \A k \in 1..z : b[hi + k - 1] = <<i, k>>
  OBVIOUS
<1> HIDE DEF z
<1>4. \A j \in lo..(top - 1) : j \notin lo..(hi - 1) =>
         (j - hi) + 1 \in 1..z /\ b[j] = <<i, (j - hi) + 1>>
  <2> SUFFICES ASSUME NEW j \in lo..(top - 1), j \notin lo..(hi - 1)
               PROVE  (j - hi) + 1 \in 1..z /\ b[j] = <<i, (j - hi) + 1>>
    OBVIOUS
  <2> DEFINE k == (j - hi) + 1
  <2>1. k \in 1..z /\ hi + k - 1 = j
    BY <1>2
  <2> HIDE DEF k
  <2>2. b[hi + k - 1] = <<i, k>>
    BY <1>3, <2>1
  <2> QED BY <2>1, <2>2 DEF k
<1>5. \A j \in lo..(top - 1) : b[j][1] \in 1..i /\ b[j][2] \in 1..L[b[j][1]]
  <2> TAKE j \in lo..(top - 1)
  <2>1. CASE j \in lo..(hi - 1)
    BY <2>1 DEF Laid
  <2>2. CASE j \notin lo..(hi - 1)
    <3>1. b[j][1] = i /\ b[j][2] \in 1..z
      BY <1>4, <2>2
    <3> QED BY <3>1 DEF z
  <2> QED BY <2>1, <2>2
<1>6. ASSUME NEW j \in lo..(top - 1), NEW l \in lo..(top - 1), j <= l
      PROVE  LET k == b[j][2] + (l - j)
             IN  /\ k <= L[b[j][1]] => b[l] = <<b[j][1], k>>
                 /\ k = L[b[j][1]] + 1 => b[l] = <<b[j][1] + 1, 1>>
  <2>1. CASE l \in lo..(hi - 1)
    <3>1. j \in lo..(hi - 1)
      BY <1>6, <2>1
    <3> QED BY <1>6, <2>1, <3>1 DEF Laid
  <2>2. CASE j \notin lo..(hi - 1)
    <3>1. l \notin lo..(hi - 1)
      BY <1>6, <2>2
    <3>2. /\ b[j] = <<i, (j - hi) + 1>> /\ b[l] = <<i, (l - hi) + 1>>
          /\ (l - hi) + 1 \in 1..z
      BY <1>4, <2>2, <3>1
    <3>3. ((j - hi) + 1) + (l - j) = (l - hi) + 1 /\ (l - hi) + 1 <= z
      BY <1>2, <3>2
    <3>4. b[j][1] = i /\ b[j][2] = (j - hi) + 1 /\ L[i] = z
      BY <3>2 DEF z
    <3> QED BY <1>2, <3>2, <3>3, <3>4
  <2>3. CASE j \in lo..(hi - 1) /\ l \notin lo..(hi - 1)
    <3> DEFINE m == b[j][1]
               a == b[j][2] + ((hi - 1) - j)
               e == (l - hi) + 1
    <3>1. e \in 1..z /\ b[l] = <<i, e>>
      BY <1>4, <2>3
    <3>2. m \in 1..n /\ b[j][2] \in 1..L[m] /\ L[m] \in Nat
      BY <1>2, <2>3 DEF Laid
    <3>3. hi - 1 \in lo..(hi - 1) /\ j <= hi - 1 /\ lo # hi
      BY <2>3
    <3>4. /\ a <= L[m] => b[hi - 1] = <<m, a>>
          /\ a = L[m] + 1 => b[hi - 1] = <<m + 1, 1>>
      BY <2>3, <3>3 DEF Laid
    <3>5. b[hi - 1] = <<n, L[n]>>
      BY <3>3 DEF Whole
    <3>6. b[j][2] \in Nat /\ b[j][2] + (l - j) = a + e
      <4> DEFINE y == b[j][2]
      <4>1. y \in Nat
        BY <3>2
      <4> HIDE DEF y
      <4>2. y + (l - j) = (y + ((hi - 1) - j)) + ((l - hi) + 1)
        BY <4>1
      <4> QED BY <4>1, <4>2 DEF y
    <3>7. a \in Nat
      <4>1. (hi - 1) - j \in Nat
        BY <3>3
      <4> DEFINE y == b[j][2]
      <4>2. y \in Nat
        BY <3>6
      <4> HIDE DEF y
      <4>3. y + ((hi - 1) - j) \in Nat
        BY <4>1, <4>2
      <4> QED BY <4>3 DEF y
    <3>8. e \in Nat /\ e >= 1
      BY <3>1, <1>2
    <3> HIDE DEF m, a, e
    <3>9. a <= L[m] => m = n /\ a = L[m]
      BY <3>4, <3>5
    <3>10. ~(a + e <= L[m]) /\ (a + e = L[m] + 1 => e = 1 /\ m + 1 = i)
      <4> DEFINE x == L[m]
      <4>1. x \in Nat /\ (a <= x => m + 1 = i /\ a = x)
        BY <3>2, <3>9
      <4> HIDE DEF x
      <4>2. ~(a + e <= x) /\ (a + e = x + 1 => e = 1 /\ a <= x)
        BY <3>7, <3>8, <4>1
      <4> QED BY <4>1, <4>2 DEF x
    <3> QED BY <3>1, <3>6, <3>10 DEF m
  <2> QED BY <2>1, <2>2, <2>3
<1>7. Laid(b, lo, top, i, L)
  BY <1>5, <1>6 DEF Laid
<1>8. top \in Nat /\ hi < top /\ lo # top
  BY <1>2
<1>9. b[top - 1] = <<i, z>>
  <2>1. z \in 1..z /\ hi + z - 1 = top - 1
    BY <1>2
  <2> QED BY <1>3, <2>1
<1>10. b[lo] = <<d + 1, 1>>
  <2>1. CASE lo = hi
    <3>1. d = n /\ 1 \in 1..z /\ hi + 1 - 1 = lo
      BY <1>2, <2>1 DEF Whole
    <3> QED BY <1>3, <3>1
  <2>2. CASE lo # hi
    BY <2>2 DEF Whole
  <2> QED BY <2>1, <2>2
<1>11. Whole(b, lo, top, d, i, L)
  BY <1>8, <1>9, <1>10 DEF Whole, z
<1> QED BY <1>7, <1>8, <1>11 DEF z

-----------------------------------------------------------------------------
(* The invariant.                                                          *)

\* The packets the owner can see: currPtr is past them.
Put == IF writer = "idle" THEN Last ELSE Last - 1

\* The packet the owner takes next.
Taking == Len(delivered) + 1

Types ==
    /\ lens \in Seq(Lens) /\ delivered \in Seq(Seq(Nat \X Nat))
    /\ maxSize \in Nat /\ buffer = [k \in 0..(maxSize - 1) |-> buffer[k]]
    /\ writer \in {"idle", "copy", "advance"} /\ reader \in {"idle", "copy", "flip"}

\* What waits lies in the block.
Indices ==
    offPtr \in Nat /\ currPtr \in Nat /\ offPtr <= currPtr /\ currPtr <= maxSize

\* The epoll thread has the lock while it puts, and has reserved the room.
WriterRight ==
    /\ m_lock = (IF writer = "idle" THEN Free ELSE Epoll)
    /\ writer # "idle" => Last >= 1 /\ currPtr + lens[Last] <= maxSize
    /\ writer = "advance" =>
          \A k \in 1..lens[Last] : buffer[currPtr + k - 1] = <<Last, k>>

\* The owner has found the next packet, whole, and it stays where it was.
ReaderRight ==
    /\ reader = "copy" => seen.block = block
    /\ reader # "idle" =>
          /\ seen.at = offPtr
          /\ Taking \in 1..Put /\ seen.len = lens[Taking]
          /\ offPtr + lens[Taking] <= currPtr
    /\ reader = "flip" => out = Packet(Taking)

QueueInv ==
    /\ Types /\ Indices /\ WriterRight /\ ReaderRight
    /\ Laid(buffer, offPtr, currPtr, Put, lens)
    /\ Whole(buffer, offPtr, currPtr, Len(delivered), Put, lens)
    /\ Len(delivered) <= Put
    /\ \A i \in DOMAIN delivered : delivered[i] = Packet(i)

LEMMA CountsAre ==
    ASSUME Types, WriterRight
    PROVE  /\ Last \in Nat /\ Len(delivered) \in Nat /\ Taking \in Nat
           /\ Put \in Nat /\ Put <= Last /\ DOMAIN delivered = 1..Len(delivered)
           /\ \A i \in 1..Last : lens[i] \in Nat \ {0}
<1>1. Last \in Nat /\ Len(delivered) \in Nat /\ DOMAIN delivered = 1..Len(delivered)
  BY LenProperties DEF Types, Last
<1>2. Put \in Nat /\ Put <= Last
  BY <1>1 DEF Put, WriterRight
<1>3. \A i \in 1..Last : lens[i] \in Nat \ {0}
  <2> TAKE i \in 1..Last
  <2>1. lens[i] \in Lens
    BY ElementOfSeq DEF Types, Last
  <2> QED BY <2>1, ConstantsAre
<1> QED BY <1>1, <1>2, <1>3 DEF Taking

LEMMA InitQueueInv == Init => QueueInv
<1> SUFFICES ASSUME Init PROVE QueueInv
  OBVIOUS
<1>1. \A S : <<>> \in Seq(S) /\ Len(<<>>) = 0 /\ DOMAIN <<>> = {}
  BY EmptySeq
<1>2. /\ maxSize = Trunk /\ offPtr = 0 /\ currPtr = 0
      /\ buffer = [k \in 0..(Trunk - 1) |-> Zero]
      /\ m_lock = Free /\ lens = <<>> /\ writer = "idle" /\ reader = "idle"
      /\ delivered = <<>>
  BY DEF Init, Queue!Init
<1>3. Types
  BY <1>1, <1>2, ConstantsAre DEF Types
<1>4. Indices
  BY <1>2, ConstantsAre DEF Indices
<1>5. WriterRight /\ ReaderRight
  BY <1>2 DEF WriterRight, ReaderRight
<1>6. Last = 0 /\ Put = 0 /\ Len(delivered) = 0
  BY <1>1, <1>2 DEF Last, Put
<1>7. Laid(buffer, offPtr, currPtr, Put, lens)
  BY <1>2 DEF Laid
<1>8. Whole(buffer, offPtr, currPtr, Len(delivered), Put, lens)
  BY <1>2, <1>6 DEF Whole
<1> QED BY <1>1, <1>2, <1>3, <1>4, <1>5, <1>6, <1>7, <1>8 DEF QueueInv

\* The trunks that are added are enough for what does not fit.
LEMMA ReserveFits ==
    ASSUME NEW len \in Nat, maxSize \in Nat, currPtr \in Nat, currPtr <= maxSize
    PROVE  /\ Queue!wr_reserve(len) \in Nat
           /\ Queue!wr_reserve(len) >= maxSize
           /\ Queue!wr_reserve(len) >= currPtr + len
<1>1. Trunk \in Nat \ {0}
  BY ConstantsAre
<1>2. Trunk * Queue!trunkCount(len) \in Nat /\ Trunk * Queue!trunkCount(len) >= len
  BY <1>1 DEF Queue!trunkCount
<1> QED BY <1>2 DEF Queue!wr_reserve, Queue!wr_size

\* What waits in a block lies in the grown one, too.
LEMMA InGrown ==
    ASSUME NEW lo \in Nat, NEW hi \in Nat, NEW max \in Nat, NEW more \in Nat,
           hi <= max, max <= more, NEW k \in 0..(hi - lo - 1)
    PROVE  lo + k \in 0..(more - 1) /\ lo + k < max
  OBVIOUS

\* A packet is put behind the others; the room for it is there, if need be in
\* another block, with what waits at the same place.
LEMMA ReserveStep ==
    ASSUME QueueInv, reader = "copy" => block' = block, NEW len \in Lens, PutReserve(len)
    PROVE  QueueInv'
<1>1. /\ Types /\ Indices /\ WriterRight /\ ReaderRight
      /\ Laid(buffer, offPtr, currPtr, Put, lens)
      /\ Whole(buffer, offPtr, currPtr, Len(delivered), Put, lens)
      /\ Len(delivered) <= Put /\ \A i \in DOMAIN delivered : delivered[i] = Packet(i)
  BY DEF QueueInv
<1>2. /\ Last \in Nat /\ Len(delivered) \in Nat /\ Taking \in Nat
      /\ Put \in Nat /\ DOMAIN delivered = 1..Len(delivered)
  BY <1>1, CountsAre
<1>3. /\ writer = "idle" /\ m_lock' = Epoll
      /\ lens' = Append(lens, len) /\ writer' = "copy"
      /\ UNCHANGED <<offPtr, currPtr, reader, seen, out, delivered>>
  BY DEF PutReserve
<1>4. len \in Nat \ {0}
  BY ConstantsAre
<1>5. /\ offPtr \in Nat /\ currPtr \in Nat /\ maxSize \in Nat
      /\ offPtr <= currPtr /\ currPtr <= maxSize
  BY <1>1 DEF Types, Indices
<1>6. /\ maxSize' \in Nat /\ maxSize <= maxSize' /\ maxSize' >= currPtr + len
      /\ buffer' = [k \in 0..(maxSize' - 1) |-> IF k < maxSize THEN buffer[k] ELSE Zero]
  <2>1. /\ maxSize' = Queue!wr_reserve(len)
        /\ buffer' = [k \in 0..(Queue!wr_reserve(len) - 1) |->
                         IF k < maxSize THEN buffer[k] ELSE Zero]
    BY DEF PutReserve
  <2> QED BY <1>4, <1>5, <2>1, ReserveFits
<1>7. /\ lens' \in Seq(Lens) /\ Last' = Last + 1 /\ lens'[Last + 1] = len
      /\ \A i \in 1..Last : lens'[i] = lens[i]
  BY <1>1, <1>3, AppendProperties DEF Types, Last
<1>8. Put' = Put /\ Put = Last
  BY <1>2, <1>3, <1>7 DEF Put
<1>9. Types'
  BY <1>1, <1>3, <1>6, <1>7 DEF Types
<1>10. Indices'
  BY <1>3, <1>5, <1>6 DEF Indices
<1>11. WriterRight'
  BY <1>2, <1>3, <1>6, <1>7 DEF WriterRight
<1>12. \A i \in 1..Last : [k \in 1..lens'[i] |-> <<i, k>>] = Packet(i)
  BY <1>7 DEF Packet
<1>13. ReaderRight'
  <2>1. Taking' = Taking
    BY <1>3 DEF Taking
  <2>2. CASE reader = "idle"
    BY <1>3, <2>2 DEF ReaderRight
  <2>3. CASE reader # "idle"
    <3>1. Taking \in 1..Last /\ Taking \in 1..Put
      BY <1>1, <1>8, <2>3 DEF ReaderRight
    <3>2. /\ lens'[Taking] = lens[Taking]
          /\ [k \in 1..lens'[Taking] |-> <<Taking, k>>] = Packet(Taking)
      <4> HIDE DEF Taking
      <4> QED BY <1>7, <1>12, <3>1
    <3>3. /\ seen'.at = offPtr' /\ Taking' \in 1..Put'
          /\ seen'.len = lens'[Taking'] /\ offPtr' + lens'[Taking'] <= currPtr'
      BY <1>1, <1>3, <1>8, <2>1, <2>3, <3>1, <3>2 DEF ReaderRight
    <3>4. reader' = "flip" => out' = [k \in 1..lens'[Taking'] |-> <<Taking', k>>]
      BY <1>1, <1>3, <2>1, <3>2 DEF ReaderRight
    <3>5. reader' = "copy" => seen'.block = block'
      BY <1>1, <1>3 DEF ReaderRight
    <3> QED BY <3>3, <3>4, <3>5 DEF ReaderRight, Packet
  <2> QED BY <2>2, <2>3
<1>14. \A k \in 0..(currPtr - offPtr - 1) : buffer'[offPtr + k] = buffer[offPtr + k]
  <2> TAKE k \in 0..(currPtr - offPtr - 1)
  <2>1. offPtr + k \in 0..(maxSize' - 1) /\ offPtr + k < maxSize
    BY <1>5, <1>6, InGrown
  <2> QED BY <1>6, <2>1
<1>15. /\ Laid(buffer, offPtr, currPtr, Put, lens')
       /\ Whole(buffer, offPtr, currPtr, Len(delivered), Put, lens')
  BY <1>1, <1>5, <1>7, <1>8, LaidKept
<1>16. Laid(buffer', offPtr, currPtr, Put, lens')
  BY <1>5, <1>14, <1>15, LaidStays
<1>17. Whole(buffer', offPtr, currPtr, Len(delivered), Put, lens')
  BY <1>5, <1>14, <1>15, WholeStays
<1>18. \A i \in DOMAIN delivered' : delivered'[i] = Packet(i)'
  <2>1. \A i \in DOMAIN delivered : i \in 1..Last
    BY <1>1, <1>2, <1>8
  <2>2. \A i \in DOMAIN delivered : delivered[i] = [k \in 1..lens'[i] |-> <<i, k>>]
    BY <1>1, <1>12, <2>1
  <2> QED BY <1>3, <2>2 DEF Packet
<1> QED BY <1>1, <1>3, <1>8, <1>9, <1>10, <1>11, <1>13, <1>16, <1>17, <1>18 DEF QueueInv

\* The packet that is put has a length.
LEMMA RoomIs ==
    ASSUME Types, WriterRight, writer # "idle"
    PROVE  lens[Last] \in Nat \ {0} /\ currPtr + lens[Last] <= maxSize
<1>1. Last >= 1 /\ currPtr + lens[Last] <= maxSize
  BY DEF WriterRight
<1>2. Last \in 1..Last
  BY <1>1, CountsAre
<1> QED BY <1>1, <1>2, CountsAre

\* The packet is copied to where nobody looks.
LEMMA CopyStep ==
    ASSUME QueueInv, PutCopy
    PROVE  QueueInv'
<1> DEFINE z == lens[Last]
<1>1. /\ Types /\ Indices /\ WriterRight /\ ReaderRight
      /\ Laid(buffer, offPtr, currPtr, Put, lens)
      /\ Whole(buffer, offPtr, currPtr, Len(delivered), Put, lens)
      /\ Len(delivered) <= Put /\ \A i \in DOMAIN delivered : delivered[i] = Packet(i)
      /\ offPtr \in Nat /\ currPtr \in Nat /\ offPtr <= currPtr
  BY DEF QueueInv, Indices
<1>2. /\ writer = "copy" /\ writer' = "advance"
      /\ UNCHANGED <<maxSize, offPtr, currPtr, block, m_lock, lens, reader, seen, out,
                     delivered>>
      /\ buffer' = [k \in DOMAIN buffer |->
                       IF k \in currPtr..(currPtr + z - 1)
                       THEN <<Last, k - currPtr + 1>> ELSE buffer[k]]
  BY DEF PutCopy
<1>3. z \in Nat \ {0} /\ currPtr + z <= maxSize /\ maxSize \in Nat
  BY <1>1, <1>2, RoomIs DEF Types
<1>4. DOMAIN buffer = 0..(maxSize - 1)
  BY <1>1 DEF Types
<1> HIDE DEF z
<1>5. \A k \in 1..z : buffer'[currPtr + k - 1] = <<Last, k>>
  <2> TAKE k \in 1..z
  <2>1. /\ currPtr + k - 1 \in 0..(maxSize - 1)
        /\ currPtr + k - 1 \in currPtr..(currPtr + z - 1)
        /\ (currPtr + k - 1) - currPtr + 1 = k
    BY <1>1, <1>3
  <2> QED BY <1>2, <1>4, <2>1
<1>6. \A k \in 0..(currPtr - offPtr - 1) : buffer'[offPtr + k] = buffer[offPtr + k]
  <2> TAKE k \in 0..(currPtr - offPtr - 1)
  <2>1. offPtr + k \in 0..(maxSize - 1) /\ offPtr + k \notin currPtr..(currPtr + z - 1)
    BY <1>1, <1>3
  <2> QED BY <1>2, <1>4, <2>1
<1>7. Put' = Put /\ Last' = Last
  BY <1>2 DEF Put, Last
<1>8. Laid(buffer', offPtr, currPtr, Put, lens)
  BY <1>1, <1>6, LaidStays
<1>9. Whole(buffer', offPtr, currPtr, Len(delivered), Put, lens)
  BY <1>1, <1>6, WholeStays
<1>10. Types'
  BY <1>1, <1>2, <1>4 DEF Types
<1>11. Indices'
  BY <1>1, <1>2 DEF Indices
<1>12. WriterRight'
  <2>1. m_lock' = Epoll /\ Last' >= 1 /\ currPtr' + lens'[Last'] <= maxSize'
    BY <1>1, <1>2, <1>7 DEF WriterRight
  <2> QED BY <1>2, <1>5, <1>7, <2>1 DEF WriterRight, z
<1>13. ReaderRight'
  BY <1>1, <1>2, <1>7 DEF ReaderRight, Taking, Packet
<1>14. \A i \in DOMAIN delivered' : delivered'[i] = Packet(i)'
  BY <1>1, <1>2 DEF Packet
<1> QED BY <1>1, <1>2, <1>7, <1>8, <1>9, <1>10, <1>11, <1>12, <1>13, <1>14 DEF QueueInv

\* The owner can see it.
LEMMA AdvanceStep ==
    ASSUME QueueInv, PutAdvance
    PROVE  QueueInv'
<1> DEFINE z == lens[Last]
<1>1. /\ Types /\ Indices /\ WriterRight /\ ReaderRight
      /\ Laid(buffer, offPtr, currPtr, Put, lens)
      /\ Whole(buffer, offPtr, currPtr, Len(delivered), Put, lens)
      /\ Len(delivered) <= Put /\ \A i \in DOMAIN delivered : delivered[i] = Packet(i)
      /\ offPtr \in Nat /\ currPtr \in Nat /\ offPtr <= currPtr /\ lens \in Seq(Lens)
  BY DEF QueueInv, Indices, Types
<1>2. /\ writer = "advance" /\ writer' = "idle" /\ m_lock' = Free
      /\ currPtr' = currPtr + z
      /\ UNCHANGED <<maxSize, offPtr, buffer, block, lens, reader, seen, out, delivered>>
  BY DEF PutAdvance
<1>3. z \in Nat \ {0} /\ currPtr + z <= maxSize
  BY <1>1, <1>2, RoomIs
<1>4. /\ Last \in Nat /\ Last >= 1 /\ Put = Last - 1 /\ Put + 1 = Last /\ Put \in Nat
      /\ Put + 1 <= Len(lens) /\ Len(delivered) \in Nat
  <2>1. Last >= 1
    BY <1>1, <1>2 DEF WriterRight
  <2>2. Last \in Nat /\ Len(delivered) \in Nat /\ Put = Last - 1
    BY <1>1, <1>2, CountsAre DEF Put
  <2> QED BY <2>1, <2>2 DEF Last
<1>5. Put' = Last /\ Last' = Last
  BY <1>2 DEF Put, Last
<1>6. \A k \in 1..z : buffer[currPtr + k - 1] = <<Last, k>>
  BY <1>1, <1>2 DEF WriterRight
<1>7. /\ currPtr' \in Nat /\ currPtr < currPtr'
      /\ Laid(buffer, offPtr, currPtr', Last, lens)
      /\ Whole(buffer, offPtr, currPtr', Len(delivered), Last, lens)
  <2> DEFINE n == Put
             top == currPtr + lens[n + 1]
  <2>1. /\ n \in Nat /\ n + 1 <= Len(lens) /\ n + 1 = Last
        /\ \A k \in 1..lens[n + 1] : buffer[currPtr + k - 1] = <<n + 1, k>>
    BY <1>4, <1>6
  <2>2. /\ Laid(buffer, offPtr, currPtr, n, lens)
        /\ Whole(buffer, offPtr, currPtr, Len(delivered), n, lens)
    BY <1>1
  <2> HIDE DEF n
  <2>3. /\ top \in Nat /\ currPtr < top
        /\ Laid(buffer, offPtr, top, n + 1, lens)
        /\ Whole(buffer, offPtr, top, Len(delivered), n + 1, lens)
    BY <1>1, <1>4, <2>1, <2>2, LaidMore
  <2>4. currPtr' = top
    BY <1>2, <2>1
  <2> QED BY <2>1, <2>3, <2>4
<1>8. Types'
  BY <1>1, <1>2 DEF Types
<1>9. Indices'
  <2>1. offPtr <= currPtr'
    BY <1>1, <1>7
  <2>2. currPtr' <= maxSize
    BY <1>2, <1>3
  <2> QED BY <1>1, <1>2, <1>7, <2>1, <2>2 DEF Indices
<1>10. WriterRight'
  BY <1>2 DEF WriterRight
<1>11. ReaderRight'
  <2>1. Taking' = Taking
    BY <1>2 DEF Taking
  <2>2. CASE reader = "idle"
    BY <1>2, <2>2 DEF ReaderRight
  <2>3. CASE reader # "idle"
    <3>1. /\ seen.at = offPtr
          /\ Taking \in 1..Put /\ seen.len = lens[Taking]
          /\ offPtr + lens[Taking] <= currPtr
      BY <1>1, <2>3 DEF ReaderRight
    <3>2. Taking \in 1..Last
      BY <1>4, <3>1
    <3>3. offPtr + lens[Taking] <= currPtr'
      <4>1. lens[Taking] \in Nat
        BY <1>1, <3>2, CountsAre
      <4> HIDE DEF z
      <4> QED BY <1>1, <1>7, <3>1, <4>1
    <3>4. reader' = "flip" => out' = Packet(Taking)'
      BY <1>1, <1>2, <2>1 DEF ReaderRight, Packet
    <3>5. reader' = "copy" => seen'.block = block'
      BY <1>1, <1>2 DEF ReaderRight
    <3> QED BY <1>2, <1>5, <2>1, <3>1, <3>2, <3>3, <3>4, <3>5 DEF ReaderRight
  <2> QED BY <2>2, <2>3
<1>12. \A i \in DOMAIN delivered' : delivered'[i] = Packet(i)'
  BY <1>1, <1>2 DEF Packet
<1>13. Len(delivered') <= Put'
  BY <1>1, <1>2, <1>4, <1>5
<1> QED BY <1>2, <1>5, <1>7, <1>8, <1>9, <1>10, <1>11, <1>12, <1>13 DEF QueueInv

\* The owner looks at the queue and finds the next packet.
LEMMA BeginStep ==
    ASSUME QueueInv, ReadBegin
    PROVE  QueueInv'
<1>1. /\ Types /\ Indices /\ WriterRight
      /\ Laid(buffer, offPtr, currPtr, Put, lens)
      /\ Whole(buffer, offPtr, currPtr, Len(delivered), Put, lens)
      /\ Len(delivered) <= Put /\ \A i \in DOMAIN delivered : delivered[i] = Packet(i)
      /\ offPtr \in Nat /\ currPtr \in Nat /\ lens \in Seq(Lens)
  BY DEF QueueInv, Indices, Types
<1>2. /\ reader' = "copy" /\ offPtr < currPtr
      /\ seen' = [block |-> block, at |-> offPtr, len |-> lens[buffer[offPtr][1]]]
      /\ UNCHANGED <<maxSize, offPtr, currPtr, buffer, block, m_lock, lens, writer, out,
                     delivered>>
  BY <1>1 DEF ReadBegin, Queue!rd_size, queueVars, LengthAt
<1>3. /\ Put \in Nat /\ Len(delivered) \in Nat /\ Put <= Len(lens)
  BY <1>1, CountsAre DEF Last
<1>4. Taking \in 1..Put /\ offPtr + lens[Taking] <= currPtr
  <2>1. Front(buffer, offPtr, currPtr, Len(delivered), Put, lens)
    BY <1>1, <1>2, <1>3, FirstPacket
  <2> QED BY <2>1 DEF Taking, Front
<1>5. buffer[offPtr][1] = Taking
  <2>1. offPtr # currPtr
    BY <1>1, <1>2
  <2> QED BY <1>1, <2>1 DEF Whole, Taking
<1>6. Put' = Put /\ Taking' = Taking
  BY <1>2 DEF Put, Taking, Last
<1>7. ReaderRight'
  BY <1>2, <1>4, <1>5, <1>6 DEF ReaderRight
<1>8. Types' /\ Indices' /\ WriterRight'
  BY <1>1, <1>2 DEF Types, Indices, WriterRight, Last
<1>9. \A i \in DOMAIN delivered' : delivered'[i] = Packet(i)'
  BY <1>1, <1>2 DEF Packet
<1> QED BY <1>1, <1>2, <1>6, <1>7, <1>8, <1>9 DEF QueueInv

\* It copies the packet, and it is the packet.
LEMMA ReadCopyStep ==
    ASSUME QueueInv, ReadCopy
    PROVE  QueueInv'
<1>1. /\ Types /\ Indices /\ WriterRight /\ ReaderRight
      /\ Laid(buffer, offPtr, currPtr, Put, lens)
      /\ Whole(buffer, offPtr, currPtr, Len(delivered), Put, lens)
      /\ Len(delivered) <= Put /\ \A i \in DOMAIN delivered : delivered[i] = Packet(i)
      /\ offPtr \in Nat /\ currPtr \in Nat /\ lens \in Seq(Lens)
  BY DEF QueueInv, Indices, Types
<1>2. /\ reader = "copy" /\ reader' = "flip"
      /\ out' = [k \in 1..seen.len |->
                    IF seen.block = block THEN buffer[seen.at + k - 1] ELSE Junk]
      /\ UNCHANGED <<maxSize, offPtr, currPtr, buffer, block, m_lock, lens, writer, seen,
                     delivered>>
  BY DEF ReadCopy, queueVars
<1>3. /\ seen.block = block /\ seen.at = offPtr
      /\ Taking \in 1..Put /\ seen.len = lens[Taking]
      /\ offPtr + lens[Taking] <= currPtr
  BY <1>1, <1>2 DEF ReaderRight
<1>4. Put \in Nat /\ Len(delivered) \in Nat /\ Put <= Len(lens) /\ lens[Taking] \in Nat \ {0}
  <2>1. Put \in Nat /\ Len(delivered) \in Nat /\ Put <= Last /\ Last \in Nat
    BY <1>1, CountsAre
  <2>2. Taking \in 1..Last
    BY <1>3, <2>1
  <2>3. lens[Taking] \in Nat \ {0}
    BY <1>1, <2>2, CountsAre
  <2> QED BY <2>1, <2>3 DEF Last
<1>5. offPtr < currPtr
  BY <1>1, <1>3, <1>4
<1>6. \A k \in 1..lens[Taking] : buffer[offPtr + k - 1] = <<Taking, k>>
  <2> DEFINE d == Len(delivered)
             n == Put
  <2>1. /\ d \in Nat /\ n \in Nat /\ n <= Len(lens) /\ offPtr < currPtr
        /\ offPtr \in Nat /\ currPtr \in Nat /\ lens \in Seq(Lens)
    BY <1>1, <1>4, <1>5
  <2>2. /\ Laid(buffer, offPtr, currPtr, n, lens)
        /\ Whole(buffer, offPtr, currPtr, d, n, lens)
    BY <1>1
  <2> HIDE DEF d, n
  <2>3. Front(buffer, offPtr, currPtr, d, n, lens)
    BY <2>1, <2>2, FirstPacket
  <2> QED BY <2>3 DEF Taking, d, Front
<1>7. out' = Packet(Taking)
  <2> HIDE DEF Taking
  <2> QED BY <1>2, <1>3, <1>6 DEF Packet
<1>8. Put' = Put /\ Taking' = Taking /\ out' = Packet(Taking)'
  BY <1>2, <1>7 DEF Put, Taking, Last, Packet
<1>9. ReaderRight'
  BY <1>2, <1>3, <1>8 DEF ReaderRight
<1>10. Types' /\ Indices' /\ WriterRight'
  BY <1>1, <1>2 DEF Types, Indices, WriterRight, Last
<1>11. \A i \in DOMAIN delivered' : delivered'[i] = Packet(i)'
  BY <1>1, <1>2 DEF Packet
<1> QED BY <1>1, <1>2, <1>8, <1>9, <1>10, <1>11 DEF QueueInv

\* What is left of the laid bytes is whole behind the packet that goes.
LEMMA WholeMoved ==
    ASSUME NEW b, NEW c, NEW lo \in Nat, NEW hi \in Nat, NEW d \in Nat, NEW n, NEW L,
           NEW off \in lo..hi, NEW to \in Nat, off < hi,
           b[off] = <<d + 2, 1>>, b[hi - 1] = <<n, L[n]>>,
           \A k \in 0..(hi - off - 1) : c[to + k] = b[off + k]
    PROVE  Whole(c, to, to + (hi - off), d + 1, n, L)
<1>1. /\ 0 \in 0..(hi - off - 1) /\ hi - off - 1 \in 0..(hi - off - 1)
      /\ to + 0 = to /\ off + 0 = off
      /\ to + (hi - off - 1) = (to + (hi - off)) - 1 /\ off + (hi - off - 1) = hi - 1
      /\ to # to + (hi - off) /\ (d + 1) + 1 = d + 2
  OBVIOUS
<1>2. c[to] = b[off]
  <2>1. c[to + 0] = b[off + 0]
    BY <1>1
  <2> QED BY <1>1, <2>1
<1>3. c[(to + (hi - off)) - 1] = b[hi - 1]
  <2>1. c[to + (hi - off - 1)] = b[off + (hi - off - 1)]
    BY <1>1
  <2> QED BY <1>1, <2>1
<1> QED BY <1>1, <1>2, <1>3 DEF Whole

\* The three ways rd_flip goes on, from the bytes that are laid: what waits is
\* laid and whole again behind the packet that has gone.
LEMMA FlipLeaves ==
    ASSUME Types, Indices, WriterRight, Put \in Nat, Len(delivered) \in Nat,
           Put <= Last, NEW z \in Nat \ {0}, z = lens[Taking],
           Laid(buffer, offPtr, currPtr, Put, lens),
           Whole(buffer, offPtr, currPtr, Len(delivered), Put, lens),
           offPtr + z <= currPtr, Queue!rd_flip(z)
    PROVE  /\ Laid(buffer', offPtr', currPtr', Put, lens)
           /\ Whole(buffer', offPtr', currPtr', Taking, Put, lens)
           /\ Taking <= Put
           /\ maxSize' = maxSize /\ buffer' = [k \in 0..(maxSize - 1) |-> buffer'[k]]
           /\ offPtr' \in Nat /\ currPtr' \in Nat
           /\ offPtr' <= currPtr' /\ currPtr' <= maxSize
<1> DEFINE d == Len(delivered)
           n == Put
           off == offPtr + z
           tmp == currPtr - off
<1>1. /\ offPtr \in Nat /\ currPtr \in Nat /\ offPtr <= currPtr /\ offPtr < currPtr
      /\ off \in Nat /\ tmp \in Nat /\ off \in offPtr..currPtr
      /\ maxSize \in Nat /\ currPtr <= maxSize
  <2>1. offPtr \in Nat /\ currPtr \in Nat /\ maxSize \in Nat /\ currPtr <= maxSize
    BY DEF Indices, Types
  <2>2. z \in Nat /\ z >= 1 /\ off = offPtr + z /\ off <= currPtr
    OBVIOUS
  <2> HIDE DEF off
  <2> QED BY <2>1, <2>2
<1>2. /\ d \in Nat /\ n \in Nat /\ n <= Len(lens) /\ lens \in Seq(Lens)
      /\ d + 1 = Taking
  BY DEF Last, Types, Taking
<1>3. /\ maxSize' = maxSize
      /\ buffer = [k \in 0..(maxSize - 1) |-> buffer[k]]
  BY DEF Types, Queue!rd_flip
<1>4. \/ /\ tmp > 0 /\ off >= tmp
         /\ buffer' = [k \in 0..(maxSize - 1) |->
                          IF k < tmp THEN buffer[off + k] ELSE buffer[k]]
         /\ offPtr' = 0 /\ currPtr' = tmp
      \/ tmp > off /\ offPtr' = off /\ currPtr' = currPtr /\ buffer' = buffer
      \/ tmp = 0 /\ offPtr' = 0 /\ currPtr' = 0 /\ buffer' = buffer
  BY DEF Queue!rd_flip
<1>5. Laid(buffer, offPtr, currPtr, n, lens) /\ Whole(buffer, offPtr, currPtr, d, n, lens)
  OBVIOUS
<1> HIDE DEF d, n
<1>7. Front(buffer, offPtr, currPtr, d, n, lens)
  BY <1>1, <1>2, <1>5, FirstPacket
<1>8. /\ off < currPtr => buffer[off] = <<d + 2, 1>>
      /\ off = currPtr => d + 1 = n
      /\ Taking <= n
  <2>1. lens[d + 1] = z /\ d + 1 \in 1..n
    BY <1>2, <1>7 DEF Front
  <2> QED BY <1>2, <1>7, <2>1 DEF Front
<1>9. buffer[currPtr - 1] = <<n, lens[n]>>
  <2>1. offPtr # currPtr
    BY <1>1
  <2> QED BY <1>5, <2>1 DEF Whole
<1>10. CASE tmp > 0 /\ off >= tmp
  <2>1. tmp = 0 + (currPtr - off) /\ off < currPtr /\ tmp <= maxSize
    <3>1. off \in Nat /\ currPtr \in Nat /\ maxSize \in Nat /\ currPtr <= maxSize
      BY <1>1
    <3> HIDE DEF off
    <3> QED BY <1>10, <3>1
  <2>2. off \in Nat /\ tmp \in Nat
    BY <1>1
  <2>3. /\ buffer' = [k \in 0..(maxSize - 1) |->
                         IF k < tmp THEN buffer[off + k] ELSE buffer[k]]
        /\ offPtr' = 0 /\ currPtr' = tmp
    <3> HIDE DEF off, tmp
    <3>1. ~(tmp > off) /\ tmp # 0
      BY <1>10, <2>2
    <3> QED BY <1>3, <1>4, <3>1
  <2>4. \A k \in 0..(tmp - 1) : buffer'[0 + k] = buffer[off + k]
    <3> HIDE DEF off, tmp
    <3> TAKE k \in 0..(tmp - 1)
    <3>1. 0 + k = k /\ k \in 0..(maxSize - 1) /\ k < tmp
      BY <1>1, <2>1, <2>2
    <3>2. buffer'[k] = buffer[off + k]
      BY <2>3, <3>1
    <3> QED BY <3>1, <3>2
  <2> DEFINE c == buffer'
  <2>5. \A k \in 0..(currPtr - off - 1) : c[0 + k] = buffer[off + k]
    BY <2>4
  <2> HIDE DEF off, tmp, c
  <2>6. Laid(c, 0, 0 + (currPtr - off), n, lens)
    BY <1>1, <1>5, <2>5, LaidMoved
  <2>7. Whole(c, 0, 0 + (currPtr - off), d + 1, n, lens)
    BY <1>1, <1>2, <1>8, <1>9, <2>1, <2>5, WholeMoved
  <2>8. buffer' = [k \in 0..(maxSize - 1) |-> buffer'[k]]
    BY <2>3
  <2>9. Laid(buffer', offPtr', currPtr', n, lens) /\ Whole(buffer', offPtr', currPtr', d + 1, n, lens)
    BY <2>1, <2>3, <2>6, <2>7 DEF c
  <2>10. currPtr' <= maxSize /\ offPtr' <= currPtr' /\ offPtr' \in Nat /\ currPtr' \in Nat
    BY <2>1, <2>2, <2>3
  <2> QED BY <1>2, <1>3, <1>8, <2>8, <2>9, <2>10 DEF n
<1>11. CASE tmp > off
  <2>1. off < currPtr /\ off + (currPtr - off) = currPtr
    BY <1>1, <1>11
  <2>2. buffer' = buffer /\ offPtr' = off /\ currPtr' = currPtr
    <3>1. off \in Nat /\ tmp \in Nat
      BY <1>1
    <3> HIDE DEF off, tmp
    <3>2. ~(off >= tmp) /\ tmp # 0
      BY <1>11, <3>1
    <3> QED BY <1>4, <3>2
  <2>3. \A k \in 0..(currPtr - off - 1) : buffer[off + k] = buffer[off + k]
    OBVIOUS
  <2>5. off <= currPtr /\ currPtr <= maxSize
    BY <1>1
  <2> HIDE DEF off, tmp
  <2>6. Laid(buffer, off, off + (currPtr - off), n, lens)
    BY <1>1, <1>5, <2>3, LaidMoved
  <2>7. Whole(buffer, off, off + (currPtr - off), d + 1, n, lens)
    BY <1>1, <1>2, <1>8, <1>9, <2>1, <2>3, WholeMoved
  <2> QED BY <1>1, <1>2, <1>3, <1>8, <2>1, <2>2, <2>5, <2>6, <2>7 DEF n
<1>12. CASE tmp = 0
  <2>1. buffer' = buffer /\ offPtr' = 0 /\ currPtr' = 0 /\ off = currPtr
    BY <1>1, <1>4, <1>12
  <2>2. Laid(buffer, 0, 0, n, lens) /\ Whole(buffer, 0, 0, d + 1, n, lens)
    BY <1>8, <2>1 DEF Laid, Whole
  <2> QED BY <1>1, <1>2, <1>3, <1>8, <2>1, <2>2 DEF n
<1> QED BY <1>4, <1>10, <1>11, <1>12

\* The packet goes, and is the next one delivered.
LEMMA FlipStep ==
    ASSUME QueueInv, ReadFlip
    PROVE  QueueInv'
<1>1. /\ Types /\ Indices /\ WriterRight /\ ReaderRight
      /\ Laid(buffer, offPtr, currPtr, Put, lens)
      /\ Whole(buffer, offPtr, currPtr, Len(delivered), Put, lens)
      /\ Len(delivered) <= Put /\ \A i \in DOMAIN delivered : delivered[i] = Packet(i)
  BY DEF QueueInv
<1>2. /\ reader = "flip" /\ reader' = "idle" /\ m_lock = Free
      /\ Queue!rd_flip(seen.len) /\ delivered' = Append(delivered, out)
      /\ UNCHANGED <<block, m_lock, lens, writer, seen, out>>
  BY DEF ReadFlip
<1>3. /\ Put \in Nat /\ Len(delivered) \in Nat /\ Last \in Nat /\ Put <= Last
      /\ DOMAIN delivered = 1..Len(delivered) /\ Taking = Len(delivered) + 1
  BY <1>1, CountsAre DEF Taking
<1>4. /\ seen.len = lens[Taking] /\ Taking \in 1..Put
      /\ offPtr + lens[Taking] <= currPtr /\ out = Packet(Taking)
  BY <1>1, <1>2 DEF ReaderRight
<1>5. lens[Taking] \in Nat \ {0}
  <2>1. Taking \in 1..Last
    BY <1>3, <1>4
  <2> QED BY <1>1, <2>1, CountsAre
<1>6. writer = "idle"
  BY <1>1, <1>2, ConstantsAre DEF WriterRight
<1>7. /\ Laid(buffer', offPtr', currPtr', Put, lens)
      /\ Whole(buffer', offPtr', currPtr', Taking, Put, lens)
      /\ Taking <= Put
      /\ maxSize' = maxSize /\ buffer' = [k \in 0..(maxSize - 1) |-> buffer'[k]]
      /\ offPtr' \in Nat /\ currPtr' \in Nat
      /\ offPtr' <= currPtr' /\ currPtr' <= maxSize
  <2> DEFINE z == lens[Taking]
  <2>1. z \in Nat \ {0} /\ z = lens[Taking] /\ offPtr + z <= currPtr /\ Queue!rd_flip(z)
    BY <1>2, <1>4, <1>5
  <2> HIDE DEF z
  <2> QED BY <1>1, <1>3, <2>1, FlipLeaves
<1>8. out \in Seq(Nat \X Nat)
  <2>1. Taking \in Nat /\ lens[Taking] \in Nat
    BY <1>4, <1>5
  <2>2. \A k \in 1..lens[Taking] : <<Taking, k>> \in Nat \X Nat
    BY <2>1
  <2> DEFINE m == lens[Taking]
  <2>3. m \in Nat /\ out = [k \in 1..m |-> <<Taking, k>>]
    BY <1>4, <2>1 DEF Packet
  <2> HIDE DEF m, Taking
  <2>4. out \in [1..m -> Nat \X Nat]
    BY <2>2, <2>3 DEF m
  <2> QED BY <2>3, <2>4, SeqDef
<1>9. /\ delivered' \in Seq(Seq(Nat \X Nat))
      /\ Len(delivered') = Taking
      /\ delivered'[Taking] = out
      /\ \A i \in 1..Len(delivered) : delivered'[i] = delivered[i]
  <2>1. delivered \in Seq(Seq(Nat \X Nat))
    BY <1>1 DEF Types
  <2> QED BY <1>2, <1>3, <1>8, <2>1, AppendProperties
<1>10. Put' = Put
  BY <1>2 DEF Put, Last
<1>11. Types'
  BY <1>1, <1>2, <1>7, <1>9 DEF Types
<1>12. Indices'
  BY <1>7 DEF Indices
<1>13. WriterRight' /\ ReaderRight'
  BY <1>1, <1>2, <1>6 DEF WriterRight, ReaderRight
<1>14. \A i \in DOMAIN delivered' : delivered'[i] = Packet(i)'
  <2>1. DOMAIN delivered' = 1..Taking
    <3>1. delivered' \in Seq(Seq(Nat \X Nat)) /\ Len(delivered') = Taking
      BY <1>9
    <3> QED BY <3>1, LenProperties
  <2>2. \A i \in 1..Taking : i \in 1..Len(delivered) \/ i = Taking
    BY <1>3
  <2>3. \A i \in 1..Taking : delivered'[i] = Packet(i)
    BY <1>1, <1>3, <1>4, <1>9, <2>2
  <2> QED BY <1>2, <2>1, <2>3 DEF Packet
<1> QED BY <1>2, <1>7, <1>9, <1>10, <1>11, <1>12, <1>13, <1>14 DEF QueueInv

\* Every step keeps the invariant.
LEMMA QueueInvStep ==
    ASSUME QueueInv, [Next]_vars, [reader = "copy" => block' = block]_vars
    PROVE  QueueInv'
<1>1. CASE UNCHANGED vars
  <2>1. UNCHANGED <<maxSize, offPtr, currPtr, buffer, block, m_lock, lens, writer, reader,
                    seen, out, delivered>>
    BY <1>1 DEF vars
  <2> QED BY <2>1 DEF QueueInv, Types, Indices, WriterRight, ReaderRight, Laid, Whole, Put,
                      Last, Taking, Packet
<1>2. ASSUME NEW len \in Lens, PutReserve(len) PROVE QueueInv'
  <2>1. CASE vars' = vars
    BY <1>1, <2>1
  <2>2. CASE reader = "copy" => block' = block
    BY <1>2, <2>2, ReserveStep
  <2> QED BY <2>1, <2>2
<1>3. CASE PutCopy
  BY <1>3, CopyStep
<1>4. CASE PutAdvance
  BY <1>4, AdvanceStep
<1>5. CASE ReadBegin
  BY <1>5, BeginStep
<1>6. CASE ReadCopy
  BY <1>6, ReadCopyStep
<1>7. CASE ReadFlip
  BY <1>7, FlipStep
<1> QED BY <1>1, <1>2, <1>3, <1>4, <1>5, <1>6, <1>7 DEF Next

-----------------------------------------------------------------------------
\* The queue between the epoll thread and the owner holds the packets that have
\* been put and not yet taken, whole and in order, at every step of either, also
\* when it has grown: unless it grows under a copy.
THEOREM QueueInvariant == Spec /\ NotMovedWhileCopied => []QueueInv
<1>1. Init => QueueInv
  BY InitQueueInv
<1>2. QueueInv /\ [Next]_vars /\ [reader = "copy" => block' = block]_vars => QueueInv'
  BY QueueInvStep
<1> QED BY <1>1, <1>2, PTL DEF Spec, NotMovedWhileCopied

\* recvToCmd returns the packets that RecvData has put in, each whole and in
\* order, although it looks at the queue and copies out of it without the lock,
\* unless a put moves the block under a copy.
THEOREM PacketsTaken == Spec /\ NotMovedWhileCopied => []PacketsRight
<1>1. QueueInv => PacketsRight
  <2> SUFFICES ASSUME QueueInv PROVE PacketsRight
    OBVIOUS
  <2>1. /\ Len(delivered) <= Put /\ \A i \in DOMAIN delivered : delivered[i] = Packet(i)
        /\ Types /\ WriterRight
    BY DEF QueueInv
  <2>2. Len(delivered) \in Nat /\ Put \in Nat /\ Put <= Last /\ Last \in Nat
    BY <2>1, CountsAre
  <2>3. Len(delivered) <= Last
    BY <2>1, <2>2
  <2> QED BY <2>1, <2>3 DEF PacketsRight
<1> QED BY <1>1, QueueInvariant, PTL

\* While the owner copies a packet out without the lock, the epoll thread writes
\* behind what is being copied, unless it moves the block.
THEOREM CopyIsApart == Spec /\ NotMovedWhileCopied => []ApartInBlock
<1>1. QueueInv => ApartInBlock
  BY DEF QueueInv, ReaderRight, ApartInBlock
<1> QED BY <1>1, QueueInvariant, PTL
=============================================================================
