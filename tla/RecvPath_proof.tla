--------------------------- MODULE RecvPath_proof ---------------------------
(***************************************************************************)
(* What is proved about RecvPath, for every set of lengths, every limit    *)
(* and every number of packets: however the network cuts the stream, the   *)
(* owner of the task is given the messages that were sent, whole and in    *)
(* order, none of a legal stream is lost on its way, and no legal peer is  *)
(* taken for a bad one.                                                    *)
(***************************************************************************)
EXTENDS RecvPath, SequenceTheorems, TLAPS

Frame == [len : Lens, magic : BOOLEAN]

\* The length of packet i of the packets f, header included.
Size(f, i) == PACKHEADSIZE + f[i].len

\* The bytes s are a piece of the stream that sending the packets f makes. It is
\* said of any two of them, and not only of neighbours, so that it can be used
\* without counting from one to the other.
Stream(s, f) ==
    /\ \A j \in 1..Len(s) :
          s[j][1] \in 1..Len(f) /\ s[j][2] \in 1..Size(f, s[j][1])
    /\ \A j, l \in 1..Len(s) : j <= l =>
          LET k == s[j][2] + (l - j)
          IN  /\ k <= Size(f, s[j][1]) => s[l] = <<s[j][1], k>>
              /\ k = Size(f, s[j][1]) + 1 => s[l] = <<s[j][1] + 1, 1>>

\* It begins with packet i, it ends with a whole packet.
BeginsAt(s, i) == s # <<>> => s[1] = <<i, 1>>
EndsWhole(s, f) == s # <<>> => s[Len(s)][2] = Size(f, s[Len(s)][1])

\* Two pieces put together. The provers take \o for a function of the indices;
\* under a name it stays what it is.
Cat(s, t) == s \o t

-----------------------------------------------------------------------------
(* Pieces of the stream.                                                   *)

LEMMA LensAreNat == /\ Lens \subseteq Nat \ {0} /\ MaxData \in Nat /\ MaxFrames \in Nat
                    /\ PACKHEADSIZE = 4
  BY LensAssumption, SizesAssumption DEF PACKHEADSIZE

LEMMA ByteParts == \A b \in Byte : /\ b[1] \in 1..MaxFrames /\ b[2] \in Nat
                                   /\ b = <<b[1], b[2]>>
  BY DEF Byte

\* Cat is concatenation.
LEMMA CatProperties ==
    \A s, t \in Seq(Byte) :
        /\ Cat(s, t) \in Seq(Byte) /\ Len(Cat(s, t)) = Len(s) + Len(t)
        /\ \A i \in 1..(Len(s) + Len(t)) :
              Cat(s, t)[i] = IF i <= Len(s) THEN s[i] ELSE t[i - Len(s)]
  BY ConcatProperties DEF Cat

LEMMA CatEmpty == \A s \in Seq(Byte) : Cat(s, <<>>) = s /\ Cat(<<>>, s) = s
<1> TAKE s \in Seq(Byte)
<1> QED BY ConcatEmptySeq DEF Cat

LEMMA CatAssociative ==
    \A s, t, u \in Seq(Byte) : Cat(Cat(s, t), u) = Cat(s, Cat(t, u))
<1> TAKE s, t, u \in Seq(Byte)
<1> QED BY SMT DEF Cat

\* Either part of a piece is a piece.
LEMMA StreamSplit ==
    ASSUME NEW f \in Seq(Frame), NEW s \in Seq(Byte), NEW t \in Seq(Byte),
           Stream(Cat(s, t), f)
    PROVE  Stream(s, f) /\ Stream(t, f)
<1>1. /\ Cat(s, t) \in Seq(Byte) /\ Len(Cat(s, t)) = Len(s) + Len(t)
      /\ \A i \in 1..(Len(s) + Len(t)) :
            Cat(s, t)[i] = IF i <= Len(s) THEN s[i] ELSE t[i - Len(s)]
  BY CatProperties
<1>2. Len(s) \in Nat /\ Len(t) \in Nat
  BY LenProperties
<1>3. \A i \in 1..Len(s) : i \in 1..Len(Cat(s, t)) /\ Cat(s, t)[i] = s[i]
  BY <1>1, <1>2
<1>4. \A i \in 1..Len(t) : /\ i + Len(s) \in 1..Len(Cat(s, t))
                           /\ Cat(s, t)[i + Len(s)] = t[i]
  BY <1>1, <1>2
<1>5. Stream(s, f)
  <2>1. \A j \in 1..Len(s) : s[j][1] \in 1..Len(f) /\ s[j][2] \in 1..Size(f, s[j][1])
    BY <1>3 DEF Stream
  <2>2. ASSUME NEW j \in 1..Len(s), NEW l \in 1..Len(s), j <= l
        PROVE  LET k == s[j][2] + (l - j)
               IN  /\ k <= Size(f, s[j][1]) => s[l] = <<s[j][1], k>>
                   /\ k = Size(f, s[j][1]) + 1 => s[l] = <<s[j][1] + 1, 1>>
    <3>1. /\ j \in 1..Len(Cat(s, t)) /\ l \in 1..Len(Cat(s, t))
          /\ Cat(s, t)[j] = s[j] /\ Cat(s, t)[l] = s[l]
      BY <1>3
    <3> QED BY <2>2, <3>1 DEF Stream
  <2> QED BY <2>1, <2>2 DEF Stream
<1>6. Stream(t, f)
  <2>1. \A j \in 1..Len(t) : t[j][1] \in 1..Len(f) /\ t[j][2] \in 1..Size(f, t[j][1])
    BY <1>4 DEF Stream
  <2>2. ASSUME NEW j \in 1..Len(t), NEW l \in 1..Len(t), j <= l
        PROVE  LET k == t[j][2] + (l - j)
               IN  /\ k <= Size(f, t[j][1]) => t[l] = <<t[j][1], k>>
                   /\ k = Size(f, t[j][1]) + 1 => t[l] = <<t[j][1] + 1, 1>>
    <3> DEFINE jj == j + Len(s)
               ll == l + Len(s)
    <3>1. jj \in 1..Len(Cat(s, t)) /\ ll \in 1..Len(Cat(s, t)) /\ jj <= ll /\ ll - jj = l - j
      BY <1>4, <1>2, <2>2
    <3>2. Cat(s, t)[jj] = t[j] /\ Cat(s, t)[ll] = t[l]
      BY <1>4
    <3>3. LET k == Cat(s, t)[jj][2] + (ll - jj)
          IN  /\ k <= Size(f, Cat(s, t)[jj][1]) => Cat(s, t)[ll] = <<Cat(s, t)[jj][1], k>>
              /\ k = Size(f, Cat(s, t)[jj][1]) + 1
                    => Cat(s, t)[ll] = <<Cat(s, t)[jj][1] + 1, 1>>
      BY <3>1 DEF Stream
    <3> QED BY <3>1, <3>2, <3>3
  <2> QED BY <2>1, <2>2 DEF Stream
<1> QED BY <1>5, <1>6

\* A stream whose last packet is whole may go on with the next one.
LEMMA StreamGrows ==
    ASSUME NEW f \in Seq(Frame), NEW s \in Seq(Byte), NEW g \in Frame,
           Stream(s, f), s # <<>> => s[Len(s)] = <<Len(f), Size(f, Len(f))>>,
           Len(f) < MaxFrames
    PROVE  LET p == Packet(Len(f) + 1, g.len)
           IN  /\ p \in Seq(Byte) /\ Len(p) = PACKHEADSIZE + g.len
               /\ \A k \in 1..Len(p) : p[k] = <<Len(f) + 1, k>>
               /\ Stream(Cat(s, p), Append(f, g))
<1> DEFINE p == Packet(Len(f) + 1, g.len)
           n == Len(f) + 1
           h == Append(f, g)
           u == Cat(s, p)
<1>1. g.len \in Nat \ {0} /\ Len(f) \in Nat /\ Len(s) \in Nat /\ MaxFrames \in Nat
  BY LensAreNat, LenProperties DEF Frame
<1>2. /\ p \in Seq(Byte) /\ Len(p) = PACKHEADSIZE + g.len
      /\ \A k \in 1..Len(p) : p[k] = <<n, k>>
  <2>1. PACKHEADSIZE + g.len \in Nat /\ n \in 1..MaxFrames
    BY <1>1, LensAreNat
  <2>2. p \in [1..(PACKHEADSIZE + g.len) -> Byte]
    BY <2>1 DEF Packet, Byte
  <2>3. p = [k \in 1..(PACKHEADSIZE + g.len) |-> <<n, k>>]
    BY DEF Packet
  <2>4. p \in Seq(Byte) /\ Len(p) = PACKHEADSIZE + g.len
    <3> HIDE DEF p
    <3> QED BY <2>1, <2>2
  <2> QED BY <2>3, <2>4
<1>2a. Len(p) \in Nat
  BY <1>1, <1>2, LensAreNat
<1>3. /\ Len(h) = n /\ h[n] = g /\ \A i \in 1..Len(f) : h[i] = f[i]
  BY AppendProperties
<1>4. /\ Size(h, n) = Len(p) /\ \A i \in 1..Len(f) : Size(h, i) = Size(f, i)
  BY <1>2, <1>3 DEF Size
<1>4a. \A i \in 1..Len(f) : Size(f, i) \in Nat
  <2> TAKE i \in 1..Len(f)
  <2>1. f[i] \in Frame
    BY ElementOfSeq
  <2>2. f[i].len \in Lens
    BY <2>1 DEF Frame
  <2>3. f[i].len \in Nat /\ PACKHEADSIZE \in Nat
    BY <2>2, LensAreNat
  <2> QED BY <2>3 DEF Size
<1>5. /\ u \in Seq(Byte) /\ Len(u) = Len(s) + Len(p)
      /\ \A i \in 1..Len(u) : u[i] = IF i <= Len(s) THEN s[i] ELSE p[i - Len(s)]
  BY <1>2, CatProperties
<1>6. \A j \in 1..Len(s) : s[j][1] \in 1..Len(f) /\ s[j][2] \in 1..Size(f, s[j][1])
  BY DEF Stream
<1> HIDE DEF p, n, h, u
<1>5a. \A j \in 1..Len(u) : j > Len(s) => u[j] = <<n, j - Len(s)>>
  <2> SUFFICES ASSUME NEW j \in 1..Len(u), j > Len(s) PROVE u[j] = <<n, j - Len(s)>>
    OBVIOUS
  <2>1. j - Len(s) \in 1..Len(p)
    BY <1>1, <1>2a, <1>5
  <2>2. u[j] = p[j - Len(s)]
    BY <1>1, <1>5
  <2> QED BY <2>1, <2>2, <1>2
<1>7. \A j \in 1..Len(u) : u[j][1] \in 1..Len(h) /\ u[j][2] \in 1..Size(h, u[j][1])
  <2> TAKE j \in 1..Len(u)
  <2>1. CASE j <= Len(s)
    <3>1. j \in 1..Len(s) /\ u[j] = s[j]
      BY <2>1, <1>1, <1>5
    <3>2. s[j][1] \in 1..Len(f) /\ s[j][2] \in 1..Size(f, s[j][1])
      BY <3>1, <1>6
    <3>3. s[j][1] \in 1..n /\ Size(h, s[j][1]) = Size(f, s[j][1])
      BY <3>2, <1>1, <1>4 DEF n
    <3> QED BY <3>1, <3>2, <3>3, <1>3
  <2>2. CASE j > Len(s)
    <3>1. j - Len(s) \in 1..Len(p)
      BY <2>2, <1>1, <1>2a, <1>5
    <3>2. u[j] = <<n, j - Len(s)>>
      BY <3>1, <2>2, <1>5a
    <3> QED BY <3>1, <3>2, <1>1, <1>2a, <1>3, <1>4 DEF n
  <2> QED BY <2>1, <2>2, <1>1
<1>8. ASSUME NEW j \in 1..Len(u), NEW l \in 1..Len(u), j <= l
      PROVE  LET k == u[j][2] + (l - j)
             IN  /\ k <= Size(h, u[j][1]) => u[l] = <<u[j][1], k>>
                 /\ k = Size(h, u[j][1]) + 1 => u[l] = <<u[j][1] + 1, 1>>
  <2>1. CASE l <= Len(s)
    <3>1. j \in 1..Len(s) /\ l \in 1..Len(s)
      BY <2>1, <1>8, <1>1
    <3>2. LET k == s[j][2] + (l - j)
          IN  /\ k <= Size(f, s[j][1]) => s[l] = <<s[j][1], k>>
              /\ k = Size(f, s[j][1]) + 1 => s[l] = <<s[j][1] + 1, 1>>
      BY <3>1, <1>8 DEF Stream
    <3>3. u[j] = s[j] /\ u[l] = s[l] /\ Size(h, s[j][1]) = Size(f, s[j][1])
      BY <3>1, <2>1, <1>4, <1>5, <1>6
    <3> QED BY <3>2, <3>3
  <2>2. CASE j > Len(s)
    <3>1. j - Len(s) \in 1..Len(p) /\ l - Len(s) \in 1..Len(p)
      BY <2>2, <1>8, <1>1, <1>2a, <1>5
    <3>2. u[j] = <<n, j - Len(s)>> /\ u[l] = <<n, l - Len(s)>>
      BY <2>2, <1>8, <1>1, <1>5a
    <3>3. u[j][2] + (l - j) = l - Len(s) /\ l - Len(s) <= Size(h, n)
      BY <3>1, <3>2, <1>1, <1>4
    <3> QED BY <3>2, <3>3, <3>1, <1>1, <1>2, <1>4
  <2>3. CASE j <= Len(s) /\ l > Len(s)
    <3> DEFINE i == s[j][1]
               a == s[j][2] + (Len(s) - j)
    <3>1. j \in 1..Len(s) /\ Len(s) \in 1..Len(s) /\ s # <<>> /\ u[j] = s[j]
      BY <2>3, <1>8, <1>1, <1>5
    <3>2. i \in 1..Len(f) /\ s[j][2] \in 1..Size(f, i) /\ Size(h, i) = Size(f, i)
      BY <3>1, <1>4, <1>6
    <3>3. /\ a <= Size(f, i) => s[Len(s)] = <<i, a>>
          /\ a = Size(f, i) + 1 => s[Len(s)] = <<i + 1, 1>>
      BY <3>1 DEF Stream
    <3>4a. a \in Int /\ Size(f, i) \in Nat /\ i \in Nat
      <4>1. i \in Nat /\ Size(f, i) \in Nat
        BY <3>2, <1>1, <1>4a
      <4>2. s[j][2] \in Nat
        BY <3>2, <4>1
      <4>3. j \in Int /\ Len(s) \in Int
        BY <3>1, <1>1
      <4> HIDE DEF i
      <4> QED BY <4>1, <4>2, <4>3
    <3>4b. a <= Size(f, i) => i = Len(f) /\ a = Size(f, i)
      BY <3>1, <3>3
    <3>4. a >= Size(f, i) /\ (a = Size(f, i) => i + 1 = n)
      <4>1. a = Size(f, i) => i + 1 = n
        <5>1. a = Size(f, i) => i = Len(f)
          BY <3>4a, <3>4b
        <5> QED BY <5>1 DEF n
      <4> HIDE DEF a, i
      <4> QED BY <3>4a, <3>4b, <4>1
    <3>5. l - Len(s) \in 1..Len(p) /\ u[l] = <<n, l - Len(s)>>
      <4>1. l \in 1..(Len(s) + Len(p)) /\ l > Len(s)
        BY <2>3, <1>5
      <4>2. l - Len(s) \in 1..Len(p)
        BY <4>1, <1>1, <1>2a
      <4> QED BY <4>1, <4>2, <1>5a
    <3>6. u[j][2] + (l - j) = a + (l - Len(s))
      <4>1. j \in Nat /\ l \in Nat /\ Len(s) \in Nat
        BY <1>1, <1>5
      <4>2. s[j][2] \in Nat
        BY <3>2, <3>4a
      <4>3. s[j][2] + (l - j) = s[j][2] + (Len(s) - j) + (l - Len(s))
        BY <4>1, <4>2
      <4> QED BY <3>1, <4>3
    <3>7. u[j][1] = i /\ l - Len(s) \in Nat \ {0}
      BY <3>1, <3>5, <1>2a
    <3> HIDE DEF i, a
    <3>8. ~ (a + (l - Len(s)) <= Size(f, i))
      BY <3>4, <3>4a, <3>7
    <3>9. a + (l - Len(s)) = Size(f, i) + 1 => l - Len(s) = 1 /\ i + 1 = n
      BY <3>4, <3>4a, <3>7
    <3> QED BY <3>2, <3>5, <3>6, <3>7, <3>8, <3>9
  <2> QED BY <2>1, <2>2, <2>3, <1>8, <1>1
<1>9. Stream(u, h)
  BY <1>7, <1>8 DEF Stream
<1> QED BY <1>2, <1>9 DEF p, n, u, h

\* A sequence is what is before a place in it and what is behind.
LEMMA SplitAt ==
    ASSUME NEW s \in Seq(Byte), NEW n \in 0..Len(s)
    PROVE  LET a == SubSeq(s, 1, n)
               b == SubSeq(s, n + 1, Len(s))
           IN  /\ a \in Seq(Byte) /\ Len(a) = n /\ b \in Seq(Byte) /\ Len(b) = Len(s) - n
               /\ s = Cat(a, b)
               /\ \A k \in 1..n : a[k] = s[k]
               /\ \A k \in 1..(Len(s) - n) : b[k] = s[n + k]
<1>1. Len(s) \in Nat /\ \A i \in 1..Len(s) : s[i] \in Byte
  BY LenProperties, ElementOfSeq
<1>2. SubSeq(s, 1, n) \o SubSeq(s, n + 1, Len(s)) = SubSeq(s, 1, Len(s))
  <2>1. 1 \in 1..(Len(s) + 1) /\ n \in (1 - 1)..Len(s) /\ Len(s) \in n..Len(s)
    BY <1>1
  <2> QED BY <2>1, ConcatAdjacentSubSeq
<1>3. SubSeq(s, 1, Len(s)) = s
  BY SubSeqFull
<1>4. \A i \in 1..n : s[i] \in Byte
  BY <1>1
<1>5. \A i \in (n + 1)..Len(s) : s[i] \in Byte
  BY <1>1
<1>6. /\ SubSeq(s, 1, n) \in Seq(Byte)
      /\ Len(SubSeq(s, 1, n)) = IF 1 <= n THEN n - 1 + 1 ELSE 0
      /\ \A i \in 1..(n - 1 + 1) : SubSeq(s, 1, n)[i] = s[1 + i - 1]
  BY <1>1, <1>4, SubSeqProperties
<1>7. /\ SubSeq(s, n + 1, Len(s)) \in Seq(Byte)
      /\ Len(SubSeq(s, n + 1, Len(s)))
            = IF n + 1 <= Len(s) THEN Len(s) - (n + 1) + 1 ELSE 0
      /\ \A i \in 1..(Len(s) - (n + 1) + 1) : SubSeq(s, n + 1, Len(s))[i] = s[n + 1 + i - 1]
  BY <1>1, <1>5, SubSeqProperties
<1>8. /\ Len(SubSeq(s, 1, n)) = n
      /\ \A k \in 1..n : SubSeq(s, 1, n)[k] = s[k]
  BY <1>6
<1>9. /\ Len(SubSeq(s, n + 1, Len(s))) = Len(s) - n
      /\ \A k \in 1..(Len(s) - n) : SubSeq(s, n + 1, Len(s))[k] = s[n + k]
  BY <1>1, <1>7
<1> QED BY <1>2, <1>3, <1>6, <1>7, <1>8, <1>9 DEF Cat

\* A piece that begins with a packet and ends with a whole one begins with a
\* whole one, and goes on with the next.
LEMMA FirstPacket ==
    ASSUME NEW f \in Seq(Frame), NEW s \in Seq(Byte),
           Stream(s, f), s # <<>>, s[1][2] = 1, EndsWhole(s, f)
    PROVE  LET i == s[1][1]
           IN  /\ i \in 1..Len(f) /\ f[i].len \in Nat \ {0}
               /\ Size(f, i) \in 1..Len(s)
               /\ \A k \in 1..Size(f, i) : s[k] = <<i, k>>
               /\ Len(s) > Size(f, i) => s[Size(f, i) + 1] = <<i + 1, 1>>
<1> DEFINE i == s[1][1]
<1>1. Len(s) \in Nat \ {0} /\ 1 \in 1..Len(s) /\ Len(s) \in 1..Len(s)
  BY EmptySeq, LenProperties
<1>2. i \in 1..Len(f)
  BY <1>1 DEF Stream
<1>3. f[i].len \in Nat \ {0} /\ Size(f, i) \in Nat \ {0}
  <2>1. f[i] \in Frame
    BY <1>2, ElementOfSeq
  <2>2. f[i].len \in Lens
    BY <2>1 DEF Frame
  <2>3. f[i].len \in Nat \ {0} /\ PACKHEADSIZE = 4
    BY <2>2, LensAreNat
  <2> QED BY <2>3 DEF Size
<1>4. \A l \in 1..Len(s) : /\ l <= Size(f, i) => s[l] = <<i, l>>
                           /\ l = Size(f, i) + 1 => s[l] = <<i + 1, 1>>
  <2> TAKE l \in 1..Len(s)
  <2>1. LET k == s[1][2] + (l - 1)
        IN  /\ k <= Size(f, s[1][1]) => s[l] = <<s[1][1], k>>
            /\ k = Size(f, s[1][1]) + 1 => s[l] = <<s[1][1] + 1, 1>>
    BY <1>1 DEF Stream
  <2>2. s[1][2] + (l - 1) = l /\ s[1][1] = i
    BY <1>1
  <2> QED BY <2>1, <2>2
<1>5. Len(s) <= Size(f, i) => Len(s) = Size(f, i)
  <2> SUFFICES ASSUME Len(s) <= Size(f, i) PROVE Len(s) = Size(f, i)
    OBVIOUS
  <2>1. s[Len(s)] = <<i, Len(s)>>
    BY <1>1, <1>4
  <2> QED BY <2>1 DEF EndsWhole
<1> QED BY <1>1, <1>2, <1>3, <1>4, <1>5

\* Behind a whole packet the next one begins.
LEMMA AfterWhole ==
    ASSUME NEW f \in Seq(Frame), NEW s \in Seq(Byte), NEW t \in Seq(Byte),
           Stream(Cat(s, t), f), s # <<>>, t # <<>>, EndsWhole(s, f)
    PROVE  t[1][2] = 1
<1> DEFINE u == Cat(s, t)
           n == Len(s)
<1>1. n \in Nat \ {0} /\ Len(t) \in Nat \ {0}
  BY EmptySeq
<1>2. Len(u) = n + Len(t) /\ u[n] = s[n] /\ u[n + 1] = t[1]
  <2>1. \A i \in 1..(n + Len(t)) : u[i] = IF i <= n THEN s[i] ELSE t[i - n]
    BY CatProperties
  <2>2. n \in 1..(n + Len(t)) /\ n + 1 \in 1..(n + Len(t)) /\ n + 1 - n = 1
    BY <1>1
  <2>3. Len(u) = n + Len(t)
    BY CatProperties
  <2> HIDE DEF n, u
  <2> QED BY <1>1, <2>1, <2>2, <2>3
<1>3. n \in 1..Len(u) /\ n + 1 \in 1..Len(u) /\ s[n][2] = Size(f, s[n][1])
  BY <1>1, <1>2 DEF EndsWhole
<1>4. s[n][2] \in Nat /\ n + 1 - n = 1
  BY <1>1, ElementOfSeq, ByteParts
<1>5. LET k == u[n][2] + ((n + 1) - n)
      IN  k = Size(f, u[n][1]) + 1 => u[n + 1] = <<u[n][1] + 1, 1>>
  <2> HIDE DEF n, u
  <2>1. n <= n + 1 /\ Stream(u, f)
    BY <1>1 DEF u
  <2> QED BY <1>3, <2>1 DEF Stream
<1> HIDE DEF n, u
<1> QED BY <1>1, <1>2, <1>3, <1>4, <1>5

-----------------------------------------------------------------------------
(* The invariant.                                                          *)

Types ==
    /\ frames \in Seq(Frame) /\ Len(frames) <= MaxFrames
    /\ flight \in Seq(Byte) /\ wire \in Seq(Byte)
    /\ m_RecvBuffer \in Seq(Byte) /\ rcv_queue \in Seq(Byte)
    /\ peer \in {"open", "closed", "reset"}
    /\ errno \in {"EAGAIN", "EEXIST", "ECONNRESET", "other"}
    /\ sockError \in BOOLEAN /\ sock \in BOOLEAN
    /\ reader \in {"poll", "parse", "gone"}
    /\ delivered \in Seq(Seq(Byte))

\* A reset has thrown away what was under way.
ResetEmpty ==
    /\ peer = "reset" => flight = <<>>
    /\ sockError => peer = "reset"

\* The queue goes on where the owner has stopped, packet by packet.
QueueRight ==
    /\ Stream(rcv_queue, frames)
    /\ BeginsAt(rcv_queue, Len(delivered) + 1)
    /\ EndsWhole(rcv_queue, frames)

\* What is on its way is the rest of the stream, to its end unless there was a
\* reset, and the buffer holds less than a packet.
Sound ==
    /\ Stream(Pending, frames)
    /\ BeginsAt(Pending, Len(delivered) + 1)
    /\ peer # "reset" =>
          IF Pending = <<>> THEN Len(delivered) = Len(frames)
          ELSE Pending[Len(Pending)] = <<Len(frames), Size(frames, Len(frames))>>
    /\ Len(m_RecvBuffer) > PACKHEADSIZE =>
          Len(m_RecvBuffer) < Size(frames, m_RecvBuffer[1][1])

\* The stream was not legal and nothing of what follows will reach the queue: the
\* socket is closed, or the buffer holds what cannot be a header, or nothing more
\* comes.
Astray ==
    /\ ~AllLegal /\ Len(m_RecvBuffer) <= PACKHEADSIZE
    /\ \/ ~sock
       \/ m_RecvBuffer # <<>> /\ m_RecvBuffer[1][2] # 1
       \/ peer # "open" /\ m_RecvBuffer = <<>> /\ wire = <<>> /\ flight = <<>>

RecvInv ==
    /\ Types /\ ResetEmpty /\ QueueRight
    /\ Sound \/ Astray
    /\ InOrder /\ FaultCloses

-----------------------------------------------------------------------------
(* What the steps do to the bytes on their way.                            *)

\* Bytes that go from one place to the next do not change the whole.
LEMMA Regroup ==
    \A q, r, a, b, d \in Seq(Byte) :
        Cat(Cat(Cat(q, Cat(r, a)), b), d) = Cat(Cat(Cat(q, r), Cat(a, b)), d)
<1> TAKE q, r, a, b, d \in Seq(Byte)
<1>1. Cat(q, r) \in Seq(Byte)
  BY CatProperties
<1>2. Cat(q, Cat(r, a)) = Cat(Cat(q, r), a)
  BY CatAssociative
<1>3. Cat(Cat(Cat(q, r), a), b) = Cat(Cat(q, r), Cat(a, b))
  BY <1>1, CatAssociative
<1> QED BY <1>2, <1>3

LEMMA SplitFirst ==
    \A a, b, r, w, d \in Seq(Byte) :
        Cat(Cat(Cat(Cat(a, b), r), w), d) = Cat(a, Cat(Cat(Cat(b, r), w), d))
<1> TAKE a, b, r, w, d \in Seq(Byte)
<1>1. Cat(b, r) \in Seq(Byte)
  BY CatProperties
<1>2. Cat(Cat(b, r), w) \in Seq(Byte)
  BY <1>1, CatProperties
<1>3. Cat(Cat(a, b), r) = Cat(a, Cat(b, r))
  BY CatAssociative
<1>4. Cat(Cat(a, Cat(b, r)), w) = Cat(a, Cat(Cat(b, r), w))
  BY <1>1, CatAssociative
<1>5. Cat(Cat(a, Cat(Cat(b, r), w)), d) = Cat(a, Cat(Cat(Cat(b, r), w), d))
  BY <1>2, CatAssociative
<1> QED BY <1>3, <1>4, <1>5

LEMMA FoldRight ==
    \A q, r, w, d \in Seq(Byte) :
        Cat(Cat(Cat(q, r), w), d) = Cat(q, Cat(r, Cat(w, d)))
<1> TAKE q, r, w, d \in Seq(Byte)
<1>1. Cat(q, r) \in Seq(Byte) /\ Cat(w, d) \in Seq(Byte)
  BY CatProperties
<1>2. Cat(Cat(Cat(q, r), w), d) = Cat(Cat(q, r), Cat(w, d))
  BY <1>1, CatAssociative
<1>3. Cat(Cat(q, r), Cat(w, d)) = Cat(q, Cat(r, Cat(w, d)))
  BY <1>1, CatAssociative
<1> QED BY <1>2, <1>3

\* The pieces of what is on its way.
LEMMA PendingParts ==
    ASSUME Types
    PROVE  LET rest == Cat(m_RecvBuffer, Cat(wire, flight))
           IN  /\ Pending \in Seq(Byte) /\ Pending = Cat(rcv_queue, rest)
               /\ Cat(wire, flight) \in Seq(Byte) /\ rest \in Seq(Byte)
               /\ Len(Pending) = Len(rcv_queue) + Len(m_RecvBuffer) + Len(wire) + Len(flight)
<1> DEFINE wf == Cat(wire, flight)
           rest == Cat(m_RecvBuffer, wf)
<1>1. wf \in Seq(Byte) /\ Len(wf) = Len(wire) + Len(flight)
  BY CatProperties DEF Types
<1>2. rest \in Seq(Byte) /\ Len(rest) = Len(m_RecvBuffer) + Len(wf)
  <2> HIDE DEF wf
  <2> QED BY <1>1, CatProperties DEF Types
<1>3. Pending = Cat(Cat(Cat(rcv_queue, m_RecvBuffer), wire), flight)
  BY DEF Pending, Cat
<1>4. Pending = Cat(rcv_queue, rest)
  BY <1>3, FoldRight DEF Types
<1>5. Cat(rcv_queue, rest) \in Seq(Byte) /\ Len(Cat(rcv_queue, rest)) = Len(rcv_queue) + Len(rest)
  <2> HIDE DEF rest
  <2> QED BY <1>2, CatProperties DEF Types
<1>6. /\ Len(rcv_queue) \in Nat /\ Len(m_RecvBuffer) \in Nat
      /\ Len(wire) \in Nat /\ Len(flight) \in Nat
  BY LenProperties DEF Types
<1> HIDE DEF wf, rest
<1>7. Len(Pending) = Len(rcv_queue) + Len(m_RecvBuffer) + Len(wire) + Len(flight)
  BY <1>1, <1>2, <1>4, <1>5, <1>6
<1> QED BY <1>1, <1>2, <1>4, <1>5, <1>7 DEF wf, rest

\* While all is sound the buffer begins with a packet, of which it holds a part.
LEMMA BufferRight ==
    ASSUME Types, QueueRight, Sound, m_RecvBuffer # <<>>
    PROVE  /\ Stream(Cat(m_RecvBuffer, Cat(wire, flight)), frames)
           /\ m_RecvBuffer[1][1] \in 1..Len(frames) /\ m_RecvBuffer[1][2] = 1
           /\ frames[m_RecvBuffer[1][1]] \in Frame
           /\ frames[m_RecvBuffer[1][1]].len \in Nat \ {0}
<1> DEFINE wf == Cat(wire, flight)
           rest == Cat(m_RecvBuffer, wf)
<1>1. wf \in Seq(Byte) /\ rest \in Seq(Byte) /\ Pending = Cat(rcv_queue, rest)
  BY PendingParts
<1>2. /\ m_RecvBuffer \in Seq(Byte) /\ Len(m_RecvBuffer) \in Nat \ {0}
      /\ frames \in Seq(Frame) /\ rcv_queue \in Seq(Byte)
  BY EmptySeq DEF Types
<1> HIDE DEF wf
<1>3. /\ Len(rest) = Len(m_RecvBuffer) + Len(wf) /\ Len(wf) \in Nat
      /\ rest[1] = m_RecvBuffer[1]
  <2>1. \A i \in 1..(Len(m_RecvBuffer) + Len(wf)) :
           rest[i] = IF i <= Len(m_RecvBuffer) THEN m_RecvBuffer[i]
                                               ELSE wf[i - Len(m_RecvBuffer)]
    BY <1>1, <1>2, CatProperties
  <2>2. Len(wf) \in Nat /\ Len(rest) = Len(m_RecvBuffer) + Len(wf)
    BY <1>1, <1>2, CatProperties, LenProperties
  <2> HIDE DEF rest
  <2> QED BY <1>2, <2>1, <2>2
<1> HIDE DEF rest
<1>4. rest # <<>> /\ 1 \in 1..Len(rest)
  BY <1>1, <1>2, <1>3, EmptySeq
<1>5. Stream(rest, frames)
  BY <1>1, <1>2, StreamSplit DEF Sound
<1>6. m_RecvBuffer[1][2] = 1
  <2>1. CASE rcv_queue = <<>>
    <3>1. Pending = rest
      BY <1>1, <2>1, CatEmpty
    <3> QED BY <1>3, <1>4, <3>1 DEF Sound, BeginsAt
  <2>2. CASE rcv_queue # <<>>
    <3>1. rest[1][2] = 1
      BY <1>1, <1>2, <1>4, <2>2, AfterWhole DEF Sound, QueueRight
    <3> QED BY <1>3, <3>1
  <2> QED BY <2>1, <2>2
<1>7. m_RecvBuffer[1][1] \in 1..Len(frames)
  BY <1>3, <1>4, <1>5 DEF Stream
<1>8. frames[m_RecvBuffer[1][1]] \in Frame
  BY <1>2, <1>7, ElementOfSeq
<1>9. frames[m_RecvBuffer[1][1]].len \in Nat \ {0}
  <2>1. frames[m_RecvBuffer[1][1]].len \in Lens
    BY <1>8 DEF Frame
  <2> QED BY <2>1, LensAreNat
<1> QED BY <1>5, <1>6, <1>7, <1>8, <1>9 DEF rest, wf

\* RecvByte takes at least one byte when there is one, and not more than it asks
\* for.
LEMMA Take ==
    ASSUME NEW s \in Seq(Byte), s # <<>>, NEW size \in Nat \ {0}
    PROVE  LET n == IF size < Len(s) THEN size ELSE Len(s)
           IN  n \in 1..Len(s) /\ n <= size
<1>1. Len(s) \in Nat \ {0}
  BY EmptySeq
<1> QED BY <1>1

\* A piece of the stream stays one when another packet is sent.
LEMMA StreamKept ==
    ASSUME NEW f \in Seq(Frame), NEW s \in Seq(Byte), NEW g \in Frame, Stream(s, f)
    PROVE  /\ Stream(s, Append(f, g))
           /\ \A j \in 1..Len(s) : Size(Append(f, g), s[j][1]) = Size(f, s[j][1])
<1> DEFINE h == Append(f, g)
<1>1. Len(f) \in Nat /\ Len(h) = Len(f) + 1 /\ \A i \in 1..Len(f) : h[i] = f[i]
  BY AppendProperties, LenProperties
<1> HIDE DEF h
<1>2. \A j \in 1..Len(s) : s[j][1] \in 1..Len(f) /\ s[j][2] \in 1..Size(f, s[j][1])
  BY DEF Stream
<1>3. \A j \in 1..Len(s) : Size(h, s[j][1]) = Size(f, s[j][1])
  BY <1>1, <1>2 DEF Size
<1>4. \A j \in 1..Len(s) : s[j][1] \in 1..Len(h) /\ s[j][2] \in 1..Size(h, s[j][1])
  BY <1>1, <1>2, <1>3
<1>5. ASSUME NEW j \in 1..Len(s), NEW l \in 1..Len(s), j <= l
      PROVE  LET k == s[j][2] + (l - j)
             IN  /\ k <= Size(h, s[j][1]) => s[l] = <<s[j][1], k>>
                 /\ k = Size(h, s[j][1]) + 1 => s[l] = <<s[j][1] + 1, 1>>
  <2>1. LET k == s[j][2] + (l - j)
        IN  /\ k <= Size(f, s[j][1]) => s[l] = <<s[j][1], k>>
            /\ k = Size(f, s[j][1]) + 1 => s[l] = <<s[j][1] + 1, 1>>
    BY <1>5 DEF Stream
  <2> QED BY <2>1, <1>3
<1>6. Stream(s, h)
  BY <1>4, <1>5 DEF Stream
<1> QED BY <1>3, <1>6 DEF h

-----------------------------------------------------------------------------
(* The steps of the peer and of the network.                               *)

LEMMA InitRecvInv == Init => RecvInv
<1> SUFFICES ASSUME Init PROVE RecvInv
  OBVIOUS
<1>1. Types
  <2>1. \A S : <<>> \in Seq(S) /\ Len(<<>>) = 0
    BY EmptySeq
  <2>2. 0 <= MaxFrames
    BY LensAreNat
  <2> QED BY <2>1, <2>2 DEF Init, Types
<1>2. Pending = <<>>
  <2>1. Pending = Cat(Cat(Cat(<<>>, <<>>), <<>>), <<>>)
    BY DEF Init, Pending, Cat
  <2> QED BY <2>1, CatEmpty, EmptySeq
<1>3. \A f : Stream(<<>>, f)
  BY DEF Stream
<1>4. Sound
  BY <1>2, <1>3 DEF Init, Sound, BeginsAt, PACKHEADSIZE
<1>5. QueueRight /\ ResetEmpty /\ InOrder /\ FaultCloses
  BY <1>3 DEF Init, QueueRight, BeginsAt, EndsWhole, ResetEmpty, InOrder, FaultCloses
<1> QED BY <1>1, <1>4, <1>5 DEF RecvInv

\* A packet is added at the far end.
LEMMA SendStep ==
    ASSUME RecvInv, NEW len \in Lens, NEW magic \in BOOLEAN, Send(len, magic)
    PROVE  RecvInv'
<1> DEFINE g == [len |-> len, magic |-> magic]
           n == Len(frames) + 1
           p == Packet(n, g.len)
<1>1. /\ Types /\ ResetEmpty /\ QueueRight /\ InOrder /\ FaultCloses
      /\ frames \in Seq(Frame) /\ flight \in Seq(Byte) /\ wire \in Seq(Byte)
      /\ m_RecvBuffer \in Seq(Byte) /\ rcv_queue \in Seq(Byte)
      /\ delivered \in Seq(Seq(Byte))
  BY DEF RecvInv, Types
<1>2. /\ peer = "open" /\ Len(frames) < MaxFrames /\ frames' = Append(frames, g)
      /\ flight' = Cat(flight, p)
      /\ UNCHANGED <<wire, peer, sockError, errno, sock, m_RecvBuffer, rcv_queue,
                     reader, delivered>>
  BY DEF Send, Cat
<1>3. g \in Frame /\ g.len = len
  BY DEF Frame
<1> HIDE DEF g
<1>4. /\ frames' \in Seq(Frame) /\ Len(frames) \in Nat /\ Len(frames') = n
      /\ frames'[n] = g /\ \A i \in 1..Len(frames) : frames'[i] = frames[i]
  BY <1>1, <1>2, <1>3, AppendProperties, LenProperties
<1>5. /\ p \in Seq(Byte) /\ Len(p) = PACKHEADSIZE + g.len
      /\ \A k \in 1..Len(p) : p[k] = <<n, k>>
  <2>1. Stream(<<>>, frames) /\ <<>> \in Seq(Byte)
    BY EmptySeq DEF Stream
  <2> QED BY <1>1, <1>2, <1>3, <2>1, StreamGrows
<1>5a. Len(p) \in Nat /\ Len(p) >= 1 /\ Len(p) = Size(frames', n)
  <2>1. g.len \in Nat /\ PACKHEADSIZE = 4
    BY <1>3, LensAreNat
  <2> QED BY <1>4, <1>5, <2>1 DEF Size
<1> HIDE DEF p
<1>6. Types'
  <2>1. flight' \in Seq(Byte)
    BY <1>1, <1>2, <1>5, CatProperties
  <2>2. Len(frames') <= MaxFrames
    BY <1>2, <1>4, LensAreNat
  <2> QED BY <1>1, <1>2, <1>4, <2>1, <2>2 DEF Types
<1>7. ResetEmpty'
  BY <1>1, <1>2 DEF ResetEmpty
<1>8. QueueRight'
  <2>1. /\ Stream(rcv_queue, frames')
        /\ \A j \in 1..Len(rcv_queue) :
              Size(frames', rcv_queue[j][1]) = Size(frames, rcv_queue[j][1])
    BY <1>1, <1>2, <1>3, StreamKept DEF QueueRight
  <2>2. rcv_queue # <<>> => Len(rcv_queue) \in 1..Len(rcv_queue)
    BY <1>1, EmptySeq
  <2> QED BY <1>1, <1>2, <2>1, <2>2 DEF QueueRight, BeginsAt, EndsWhole
<1>9. InOrder'
  <2>1. Len(delivered) \in Nat /\ DOMAIN delivered = 1..Len(delivered)
    BY <1>1, LenProperties
  <2>2. Len(delivered) <= Len(frames)
    BY <1>1 DEF InOrder
  <2>3. \A i \in DOMAIN delivered : frames'[i].len = frames[i].len
    BY <1>4, <2>1, <2>2
  <2>4. Len(delivered) <= Len(frames')
    BY <1>4, <2>1, <2>2
  <2> QED BY <1>1, <1>2, <2>3, <2>4 DEF InOrder
<1>10. ~AllLegal => ~AllLegal'
  <2>1. DOMAIN frames = 1..Len(frames) /\ DOMAIN frames' = 1..n
    BY <1>1, <1>4, LenProperties
  <2> QED BY <1>4, <2>1 DEF AllLegal, Legal
<1>11. FaultCloses'
  BY <1>1, <1>2, <1>10 DEF FaultCloses
<1>12. ASSUME Sound PROVE Sound'
  <2>1. Pending \in Seq(Byte) /\ Pending' = Cat(Pending, p)
    <3> DEFINE c == Cat(Cat(rcv_queue, m_RecvBuffer), wire)
    <3>1. c \in Seq(Byte)
      <4>1. Cat(rcv_queue, m_RecvBuffer) \in Seq(Byte)
        BY <1>1, CatProperties
      <4> QED BY <1>1, <4>1, CatProperties
    <3>2. Pending = Cat(c, flight) /\ Pending' = Cat(c, Cat(flight, p))
      BY <1>2 DEF Pending, Cat
    <3> HIDE DEF c
    <3> QED BY <1>1, <1>5, <3>1, <3>2, CatProperties, CatAssociative
  <2>2. Stream(Pending', frames')
    <3>1. Pending # <<>> => Pending[Len(Pending)] = <<Len(frames), Size(frames, Len(frames))>>
      BY <1>2, <1>12 DEF Sound
    <3>2. Stream(Cat(Pending, p), Append(frames, g))
      BY <1>1, <1>2, <1>3, <1>12, <2>1, <3>1, StreamGrows DEF p, Sound
    <3> QED BY <1>2, <2>1, <3>2
  <2>3. /\ Len(Pending') = Len(Pending) + Len(p) /\ Len(Pending) \in Nat
        /\ \A i \in 1..(Len(Pending) + Len(p)) :
              Pending'[i] = IF i <= Len(Pending) THEN Pending[i] ELSE p[i - Len(Pending)]
    BY <1>5, <2>1, CatProperties, LenProperties
  <2>4. Pending'[Len(Pending')] = <<Len(frames'), Size(frames', Len(frames'))>>
    <3>1. Pending'[Len(Pending')] = p[Len(p)]
      BY <1>5a, <2>3
    <3> QED BY <1>4, <1>5, <1>5a, <3>1
  <2>5. Pending' # <<>>
    BY <1>5a, <2>3, EmptySeq
  <2>6. BeginsAt(Pending', Len(delivered) + 1)
    <3>1. CASE Pending = <<>>
      <4>1. Pending'[1] = p[1] /\ Len(delivered) = Len(frames)
        BY <1>2, <1>5a, <1>12, <2>3, <3>1 DEF Sound
      <4> QED BY <1>5, <1>5a, <4>1 DEF BeginsAt
    <3>2. CASE Pending # <<>>
      <4>1. Len(Pending) >= 1
        BY <2>1, <3>2, EmptySeq
      <4>2. Pending'[1] = Pending[1]
        BY <1>5a, <2>3, <4>1
      <4> QED BY <1>12, <3>2, <4>2 DEF BeginsAt, Sound
    <3> QED BY <3>1, <3>2
  <2>7. Len(m_RecvBuffer) > PACKHEADSIZE =>
           Len(m_RecvBuffer) < Size(frames', m_RecvBuffer[1][1])
    <3> SUFFICES ASSUME Len(m_RecvBuffer) > PACKHEADSIZE
                 PROVE  Len(m_RecvBuffer) < Size(frames', m_RecvBuffer[1][1])
      OBVIOUS
    <3>1. m_RecvBuffer # <<>>
      BY <1>1, LensAreNat, EmptySeq
    <3>2. m_RecvBuffer[1][1] \in 1..Len(frames)
      BY <1>1, <1>12, <3>1, BufferRight
    <3> QED BY <1>4, <1>12, <3>2 DEF Sound, Size
  <2> QED BY <1>2, <2>2, <2>4, <2>5, <2>6, <2>7 DEF Sound
<1>13. Astray => Astray'
  <2> SUFFICES ASSUME Astray PROVE Astray'
    OBVIOUS
  <2>1. ~AllLegal'
    BY <1>10 DEF Astray
  <2>2. CASE ~sock
    BY <1>2, <2>1, <2>2 DEF Astray
  <2>3. CASE sock
    BY <1>2, <2>1, <2>3 DEF Astray
  <2> QED BY <2>2, <2>3
<1> QED BY <1>6, <1>7, <1>8, <1>9, <1>11, <1>12, <1>13 DEF RecvInv

\* What is on its way is sound as long as it is the same, wherever it is.
LEMMA SoundKept ==
    ASSUME Sound, Pending' = Pending, UNCHANGED <<frames, delivered>>,
           peer' = peer \/ peer = "open",
           Len(m_RecvBuffer') > PACKHEADSIZE =>
              Len(m_RecvBuffer') < Size(frames, m_RecvBuffer'[1][1])
    PROVE  Sound'
  BY DEF Sound

\* Bytes arrive.
LEMMA ArriveStep ==
    ASSUME RecvInv, NEW n \in 1..Len(flight), Arrive(n)
    PROVE  RecvInv'
<1> DEFINE a == SubSeq(flight, 1, n)
           b == SubSeq(flight, n + 1, Len(flight))
           c == Cat(Cat(rcv_queue, m_RecvBuffer), wire)
<1>1. /\ Types /\ ResetEmpty /\ QueueRight /\ InOrder /\ FaultCloses
      /\ flight \in Seq(Byte) /\ wire \in Seq(Byte) /\ Len(flight) \in Nat
      /\ m_RecvBuffer \in Seq(Byte) /\ rcv_queue \in Seq(Byte)
  BY LenProperties DEF RecvInv, Types
<1>2. /\ wire' = Cat(wire, a) /\ flight' = b
      /\ UNCHANGED <<frames, peer, sockError, errno, sock, m_RecvBuffer, rcv_queue,
                     reader, delivered>>
  BY DEF Arrive, Cat
<1>3. n \in 0..Len(flight) /\ flight # <<>>
  BY <1>1, EmptySeq
<1>4. a \in Seq(Byte) /\ b \in Seq(Byte) /\ flight = Cat(a, b)
  BY <1>1, <1>3, SplitAt
<1>5. Cat(rcv_queue, m_RecvBuffer) \in Seq(Byte) /\ c \in Seq(Byte)
  <2>1. Cat(rcv_queue, m_RecvBuffer) \in Seq(Byte)
    BY <1>1, CatProperties
  <2> QED BY <1>1, <2>1, CatProperties
<1> HIDE DEF a, b
<1>6. Pending' = Pending
  <2>1. Pending = Cat(c, flight)
    BY DEF Pending, Cat
  <2>2. Pending' = Cat(Cat(Cat(rcv_queue, m_RecvBuffer), Cat(wire, a)), b)
    BY <1>2 DEF Pending, Cat
  <2>3. Cat(Cat(rcv_queue, m_RecvBuffer), Cat(wire, a)) = Cat(c, a)
    BY <1>1, <1>4, <1>5, CatAssociative
  <2> HIDE DEF c
  <2>4. Cat(Cat(c, a), b) = Cat(c, flight)
    BY <1>4, <1>5, CatAssociative
  <2> QED BY <2>1, <2>2, <2>3, <2>4
<1>7. Types'
  BY <1>1, <1>2, <1>4, CatProperties DEF Types
<1>8. ResetEmpty' /\ QueueRight' /\ InOrder' /\ FaultCloses'
  BY <1>1, <1>2, <1>3 DEF ResetEmpty, QueueRight, InOrder, FaultCloses, AllLegal, Legal
<1>9. Sound => Sound'
  BY <1>2, <1>6, SoundKept DEF Sound
<1>10. Astray => Astray'
  BY <1>2, <1>3 DEF Astray, AllLegal, Legal
<1> QED BY <1>7, <1>8, <1>9, <1>10 DEF RecvInv

LEMMA PeerCloseStep == ASSUME RecvInv, PeerClose PROVE RecvInv'
<1>1. /\ peer = "open" /\ peer' = "closed"
      /\ UNCHANGED <<frames, flight, wire, sockError, errno, sock, m_RecvBuffer,
                     rcv_queue, reader, delivered>>
  BY DEF PeerClose
<1>2. Types' /\ ResetEmpty' /\ QueueRight' /\ InOrder' /\ FaultCloses'
  BY <1>1 DEF RecvInv, Types, ResetEmpty, QueueRight, InOrder, FaultCloses
<1>3. Sound => Sound'
  <2>1. Pending' = Pending
    BY <1>1 DEF Pending
  <2> QED BY <1>1, <2>1, SoundKept DEF Sound
<1>4. Astray => Astray'
  BY <1>1 DEF Astray, AllLegal, Legal
<1> QED BY <1>2, <1>3, <1>4 DEF RecvInv

\* What is under way is lost.
LEMMA PeerResetStep == ASSUME RecvInv, PeerReset PROVE RecvInv'
<1> DEFINE c == Cat(Cat(rcv_queue, m_RecvBuffer), wire)
<1>1. /\ peer = "open" /\ peer' = "reset" /\ flight' = <<>> /\ sockError' = TRUE
      /\ UNCHANGED <<frames, wire, errno, sock, m_RecvBuffer, rcv_queue, reader,
                     delivered>>
  BY DEF PeerReset
<1>2. /\ Types /\ frames \in Seq(Frame)
      /\ flight \in Seq(Byte) /\ wire \in Seq(Byte)
      /\ m_RecvBuffer \in Seq(Byte) /\ rcv_queue \in Seq(Byte) /\ <<>> \in Seq(Byte)
  BY EmptySeq DEF RecvInv, Types
<1>3. Types' /\ ResetEmpty' /\ QueueRight' /\ InOrder' /\ FaultCloses'
  BY <1>1, <1>2 DEF RecvInv, Types, ResetEmpty, QueueRight, InOrder, FaultCloses
<1>4. ASSUME Sound PROVE Sound'
  <2>1. c \in Seq(Byte)
    <3>1. Cat(rcv_queue, m_RecvBuffer) \in Seq(Byte)
      BY <1>2, CatProperties
    <3> QED BY <1>2, <3>1, CatProperties
  <2>2. Pending = Cat(c, flight) /\ Pending' = Cat(c, <<>>)
    BY <1>1 DEF Pending, Cat
  <2> HIDE DEF c
  <2>3. Pending' = c
    BY <2>1, <2>2, CatEmpty
  <2>4. Stream(c, frames)
    BY <1>2, <1>4, <2>1, <2>2, StreamSplit DEF Sound
  <2>5. BeginsAt(c, Len(delivered) + 1)
    <3> SUFFICES ASSUME c # <<>> PROVE c[1] = <<Len(delivered) + 1, 1>>
      BY DEF BeginsAt
    <3>1. Len(c) \in Nat \ {0} /\ Len(flight) \in Nat
      BY <1>2, <2>1, EmptySeq, LenProperties
    <3>2. Len(Pending) >= 1 /\ Pending[1] = c[1] /\ Pending \in Seq(Byte)
      <4>1. /\ Pending \in Seq(Byte) /\ Len(Pending) = Len(c) + Len(flight)
            /\ \A i \in 1..(Len(c) + Len(flight)) :
                  Pending[i] = IF i <= Len(c) THEN c[i] ELSE flight[i - Len(c)]
        BY <1>2, <2>1, <2>2, CatProperties
      <4> QED BY <3>1, <4>1
    <3> QED BY <1>4, <3>2, EmptySeq DEF Sound, BeginsAt
  <2> QED BY <1>1, <1>4, <2>3, <2>4, <2>5 DEF Sound
<1>5. Astray => Astray'
  BY <1>1 DEF Astray, AllLegal, Legal
<1> QED BY <1>3, <1>4, <1>5 DEF RecvInv

-----------------------------------------------------------------------------
(* The steps of the owner.                                                 *)

\* It looks.
LEMMA LookStep ==
    ASSUME RecvInv, ReaderGone \/ ReaderPoll \/ ReaderDone
    PROVE  RecvInv'
<1>1. /\ reader' \in {"poll", "parse", "gone"}
      /\ UNCHANGED <<frames, flight, wire, peer, sockError, errno, sock,
                     m_RecvBuffer, rcv_queue, delivered>>
  BY DEF ReaderGone, ReaderPoll, ReaderDone
<1>2. Types' /\ ResetEmpty' /\ QueueRight' /\ InOrder' /\ FaultCloses'
  BY <1>1 DEF RecvInv, Types, ResetEmpty, QueueRight, InOrder, FaultCloses, AllLegal, Legal
<1>3. Sound => Sound'
  <2>1. Pending' = Pending
    BY <1>1 DEF Pending
  <2> QED BY <1>1, <2>1, SoundKept DEF Sound
<1>4. Astray => Astray'
  BY <1>1 DEF Astray, AllLegal, Legal
<1> QED BY <1>2, <1>3, <1>4 DEF RecvInv

\* It takes a packet: the queue, which holds whole ones, begins with it.
LEMMA RecvToCmdStep == ASSUME RecvInv, recvToCmd PROVE RecvInv'
<1> DEFINE d == Len(delivered) + 1
           len == LenField(rcv_queue)
           z == Size(frames, d)
           a == SubSeq(rcv_queue, 1, z)
           b == SubSeq(rcv_queue, z + 1, Len(rcv_queue))
           m == SubSeq(rcv_queue, PACKHEADSIZE + 1, PACKHEADSIZE + len)
<1>1. /\ Types /\ ResetEmpty /\ QueueRight /\ InOrder /\ FaultCloses
      /\ frames \in Seq(Frame) /\ flight \in Seq(Byte) /\ wire \in Seq(Byte)
      /\ m_RecvBuffer \in Seq(Byte) /\ rcv_queue \in Seq(Byte)
      /\ delivered \in Seq(Seq(Byte)) /\ Len(delivered) \in Nat
  BY LenProperties DEF RecvInv, Types
<1>2. /\ sock /\ Len(rcv_queue) > PACKHEADSIZE
      /\ delivered' = Append(delivered, m)
      /\ rcv_queue' = SubSeq(rcv_queue, len + PACKHEADSIZE + 1, Len(rcv_queue))
      /\ UNCHANGED <<frames, flight, wire, peer, sockError, errno, sock,
                     m_RecvBuffer, reader>>
  BY DEF recvToCmd, CanTake, Flip
<1>3. rcv_queue # <<>> /\ rcv_queue[1] = <<d, 1>>
  BY <1>1, <1>2, LensAreNat, EmptySeq DEF QueueRight, BeginsAt
<1>3a. d = Len(delivered) + 1
  OBVIOUS
<1> HIDE DEF d
<1>4. /\ d \in 1..Len(frames) /\ frames[d].len \in Nat \ {0} /\ z \in 1..Len(rcv_queue)
      /\ \A k \in 1..z : rcv_queue[k] = <<d, k>>
      /\ Len(rcv_queue) > z => rcv_queue[z + 1] = <<d + 1, 1>>
  <2>1. Stream(rcv_queue, frames) /\ EndsWhole(rcv_queue, frames)
    BY <1>1 DEF QueueRight
  <2>2. rcv_queue[1][2] = 1 /\ rcv_queue[1][1] = d
    BY <1>3
  <2> QED BY <1>1, <1>3, <2>1, <2>2, FirstPacket
<1>5. len = frames[d].len /\ len \in Nat \ {0} /\ z = len + PACKHEADSIZE /\ PACKHEADSIZE = 4
  BY <1>3, <1>4, LensAreNat DEF LenField, Size
<1>6. rcv_queue' = b
  BY <1>2, <1>5
<1>7. Len(rcv_queue) \in Nat /\ z \in 0..Len(rcv_queue)
  BY <1>1, <1>4, LenProperties
<1>8. /\ a \in Seq(Byte) /\ Len(a) = z /\ b \in Seq(Byte) /\ Len(b) = Len(rcv_queue) - z
      /\ rcv_queue = Cat(a, b)
      /\ \A k \in 1..z : a[k] = rcv_queue[k]
      /\ \A k \in 1..(Len(rcv_queue) - z) : b[k] = rcv_queue[z + k]
  BY <1>1, <1>7, SplitAt
<1>9. m \in Seq(Byte) /\ Len(m) = len /\ \A k \in 1..len : m[k] = <<d, PACKHEADSIZE + k>>
  <2>1. \A i \in (PACKHEADSIZE + 1)..(PACKHEADSIZE + len) :
           rcv_queue[i] \in Byte /\ rcv_queue[i] = <<d, i>>
    <3> TAKE i \in (PACKHEADSIZE + 1)..(PACKHEADSIZE + len)
    <3>1. i \in 1..z /\ i \in 1..Len(rcv_queue)
      BY <1>4, <1>5, <1>7
    <3> QED BY <1>1, <1>4, <3>1, ElementOfSeq
  <2>2. PACKHEADSIZE + 1 \in Int /\ PACKHEADSIZE + len \in Int
    BY <1>5
  <2> DEFINE lo == PACKHEADSIZE + 1
             hi == PACKHEADSIZE + len
  <2>3. lo \in Int /\ hi \in Int /\ \A i \in lo..hi : rcv_queue[i] \in Byte
    BY <2>1, <2>2
  <2>3a. m = SubSeq(rcv_queue, lo, hi) /\ hi - lo + 1 = len /\ lo <= hi /\ lo - 1 = PACKHEADSIZE
    BY <1>5
  <2> HIDE DEF lo, hi, m, len
  <2>4. /\ m \in Seq(Byte)
        /\ Len(m) = IF lo <= hi THEN hi - lo + 1 ELSE 0
        /\ \A i \in 1..(hi - lo + 1) : m[i] = rcv_queue[lo + i - 1]
    BY <2>3, <2>3a, SubSeqProperties
  <2>5. Len(m) = len /\ \A k \in 1..len : m[k] = rcv_queue[PACKHEADSIZE + k]
    BY <1>5, <2>3, <2>3a, <2>4
  <2>6. \A k \in 1..len : PACKHEADSIZE + k \in (PACKHEADSIZE + 1)..(PACKHEADSIZE + len)
    BY <1>5
  <2> QED BY <2>1, <2>4, <2>5, <2>6
<1> HIDE DEF m, a, b, z, len
<1>10. /\ delivered' \in Seq(Seq(Byte)) /\ Len(delivered') = d /\ delivered'[d] = m
       /\ \A i \in 1..Len(delivered) : delivered'[i] = delivered[i]
  BY <1>1, <1>2, <1>9, AppendProperties, <1>3a
<1>11. Types' /\ ResetEmpty'
  BY <1>1, <1>2, <1>6, <1>8, <1>10 DEF Types, ResetEmpty
<1>12. InOrder'
  <2>1. /\ DOMAIN delivered = 1..Len(delivered) /\ DOMAIN delivered' = 1..d
        /\ DOMAIN m = 1..len
    BY <1>1, <1>9, <1>10, LenProperties
  <2>2. \A i \in 1..d : i # d => i \in 1..Len(delivered)
    <3>1. Len(delivered) \in Nat
      BY <1>1
    <3> QED BY <1>3a, <3>1
  <2>3. ASSUME NEW i \in DOMAIN delivered'
        PROVE  /\ Len(delivered'[i]) = frames[i].len
               /\ \A k \in DOMAIN delivered'[i] : delivered'[i][k] = <<i, PACKHEADSIZE + k>>
    <3>1. CASE i = d
      BY <1>5, <1>9, <1>10, <2>1, <3>1
    <3>2. CASE i # d
      BY <1>1, <1>10, <2>1, <2>2, <3>2 DEF InOrder
    <3> QED BY <3>1, <3>2
  <2>4. Len(delivered') <= Len(frames')
    BY <1>1, <1>2, <1>4, <1>10
  <2> QED BY <1>2, <2>3, <2>4 DEF InOrder
<1>13. FaultCloses'
  BY <1>1, <1>2 DEF FaultCloses, AllLegal, Legal
<1>14. QueueRight'
  <2>1. Stream(b, frames)
    BY <1>1, <1>8, StreamSplit DEF QueueRight
  <2>2. BeginsAt(b, d + 1)
    <3> SUFFICES ASSUME b # <<>> PROVE b[1] = <<d + 1, 1>>
      BY DEF BeginsAt
    <3>1. Len(b) \in Nat \ {0}
      BY <1>8, EmptySeq
    <3>2. 1 \in 1..(Len(rcv_queue) - z) /\ Len(rcv_queue) > z
      BY <1>7, <1>8, <3>1
    <3> QED BY <1>4, <1>8, <3>2
  <2>3. EndsWhole(b, frames)
    <3> SUFFICES ASSUME b # <<>> PROVE b[Len(b)][2] = Size(frames, b[Len(b)][1])
      BY DEF EndsWhole
    <3>1. Len(b) \in Nat \ {0}
      BY <1>8, EmptySeq
    <3>2. Len(b) \in 1..(Len(rcv_queue) - z) /\ z + Len(b) = Len(rcv_queue)
      BY <1>7, <1>8, <3>1
    <3>3. b[Len(b)] = rcv_queue[Len(rcv_queue)]
      BY <1>8, <3>2
    <3> QED BY <1>1, <1>3, <3>3 DEF QueueRight, EndsWhole
  <2> QED BY <1>2, <1>6, <1>10, <2>1, <2>2, <2>3 DEF QueueRight
<1>15. ASSUME Sound PROVE Sound'
  <2>1. Pending = Cat(a, Pending') /\ Pending' \in Seq(Byte) /\ Pending \in Seq(Byte)
    <3>1. Pending = Cat(Cat(Cat(Cat(a, b), m_RecvBuffer), wire), flight)
      BY <1>8 DEF Pending, Cat
    <3>2. Pending' = Cat(Cat(Cat(b, m_RecvBuffer), wire), flight)
      BY <1>2, <1>6 DEF Pending, Cat
    <3>3. Pending' \in Seq(Byte)
      <4>1. Cat(b, m_RecvBuffer) \in Seq(Byte)
        BY <1>1, <1>8, CatProperties
      <4>2. Cat(Cat(b, m_RecvBuffer), wire) \in Seq(Byte)
        BY <1>1, <4>1, CatProperties
      <4> QED BY <1>1, <3>2, <4>2, CatProperties
    <3>4. Pending = Cat(a, Pending')
      BY <1>1, <1>8, <3>1, <3>2, SplitFirst
    <3>5. Pending \in Seq(Byte)
      BY <1>1, PendingParts
    <3> QED BY <3>3, <3>4, <3>5
  <2>2. /\ Len(Pending) = z + Len(Pending') /\ Len(Pending') \in Nat
        /\ \A i \in 1..(z + Len(Pending')) :
              Pending[i] = IF i <= z THEN a[i] ELSE Pending'[i - z]
    BY <1>8, <2>1, CatProperties, LenProperties
  <2>3. z \in Nat /\ z >= 1 /\ Pending[1] = <<d, 1>> /\ Pending[z] = <<d, z>>
    <3>1. z \in Nat /\ z >= 1
      BY <1>4
    <3> QED BY <1>4, <1>8, <2>2, <3>1
  <2>4. Stream(Pending', frames)
    BY <1>1, <1>8, <1>15, <2>1, StreamSplit DEF Sound
  <2>5. BeginsAt(Pending', d + 1)
    <3> SUFFICES ASSUME Pending' # <<>> PROVE Pending'[1] = <<d + 1, 1>>
      BY DEF BeginsAt
    <3>1. Len(Pending') >= 1
      BY <2>1, EmptySeq
    <3>2. 1 \in 1..Len(Pending) /\ z + 1 \in 1..Len(Pending) /\ 1 <= z + 1
      BY <2>2, <2>3, <3>1
    <3>3. LET k == Pending[1][2] + ((z + 1) - 1)
          IN  k = Size(frames, Pending[1][1]) + 1
                 => Pending[z + 1] = <<Pending[1][1] + 1, 1>>
      BY <1>15, <3>2 DEF Sound, Stream
    <3>4. Pending[z + 1] = <<d + 1, 1>>
      BY <2>3, <3>3 DEF z
    <3>5. Pending[z + 1] = Pending'[1]
      BY <2>2, <2>3, <3>1
    <3> QED BY <3>4, <3>5
  <2>6. ASSUME peer # "reset"
        PROVE  IF Pending' = <<>> THEN Len(delivered') = Len(frames)
               ELSE Pending'[Len(Pending')] = <<Len(frames), Size(frames, Len(frames))>>
    <3>1. Pending # <<>>
      BY <2>1, <2>2, <2>3, EmptySeq
    <3>2. Pending[Len(Pending)] = <<Len(frames), Size(frames, Len(frames))>>
      BY <1>15, <2>6, <3>1 DEF Sound
    <3>3. CASE Pending' = <<>>
      <4>1. Len(Pending) = z
        BY <2>2, <2>3, <3>3, EmptySeq
      <4> QED BY <1>10, <2>3, <3>2, <3>3, <4>1
    <3>4. CASE Pending' # <<>>
      <4>1. Len(Pending') >= 1
        BY <2>1, <3>4, EmptySeq
      <4>2. Pending[Len(Pending)] = Pending'[Len(Pending')]
        BY <2>2, <2>3, <4>1
      <4> QED BY <3>2, <3>4, <4>2
    <3> QED BY <3>3, <3>4
  <2> QED BY <1>2, <1>10, <1>15, <2>4, <2>5, <2>6 DEF Sound
<1>16. Astray => Astray'
  BY <1>2 DEF Astray, AllLegal, Legal
<1> QED BY <1>11, <1>12, <1>13, <1>14, <1>15, <1>16 DEF RecvInv

-----------------------------------------------------------------------------
(* The steps of the epoll thread.                                          *)

Around == UNCHANGED <<frames, flight, peer, reader, delivered>>

\* Nothing is read: the end of the stream, or a reset that is reported now.
LEMMA NothingRead ==
    ASSUME RecvInv, Around, UNCHANGED <<wire, rcv_queue>>, m_RecvBuffer' \in Seq(Byte),
           sockError' \in BOOLEAN, sockError' => sockError, sock' \in BOOLEAN,
           errno' \in {"EAGAIN", "EEXIST", "ECONNRESET", "other"},
           ~sock' => peer # "open" \/ ~AllLegal
    PROVE  /\ Types' /\ ResetEmpty' /\ QueueRight' /\ InOrder' /\ FaultCloses'
           /\ m_RecvBuffer' = m_RecvBuffer /\ Sound => Sound'
<1>1. UNCHANGED <<frames, flight, wire, peer, rcv_queue, reader, delivered>>
  BY DEF Around
<1>2. Types' /\ ResetEmpty' /\ QueueRight' /\ InOrder' /\ FaultCloses'
  BY <1>1 DEF RecvInv, Types, ResetEmpty, QueueRight, InOrder, FaultCloses, AllLegal, Legal
<1>3. m_RecvBuffer' = m_RecvBuffer /\ Sound => Sound'
  <2> SUFFICES ASSUME m_RecvBuffer' = m_RecvBuffer, Sound PROVE Sound'
    OBVIOUS
  <2>1. Pending' = Pending
    BY <1>1 DEF Pending
  <2> QED BY <1>1, <2>1, SoundKept DEF Sound
<1> QED BY <1>2, <1>3

\* What RecvByte does, in terms of what it takes from the socket.
LEMMA ByteCases ==
    ASSUME Types, NEW kept \in Seq(Byte), NEW size \in Nat \ {0}, NEW nLen,
           RecvByte(kept, size, nLen)
    PROVE  \/ \E n \in 1..Len(wire) :
                /\ n <= size /\ wire # <<>>
                /\ Keep(Cat(kept, SubSeq(wire, 1, n)), nLen)
                /\ wire' = SubSeq(wire, n + 1, Len(wire))
                /\ errno' = "EEXIST" /\ UNCHANGED <<sock, sockError>>
           \/ /\ wire = <<>> /\ sockError
              /\ m_RecvBuffer' = kept /\ ~sockError' /\ sockError' \in BOOLEAN
              /\ errno' = "ECONNRESET"
              /\ UNCHANGED <<wire, sock, rcv_queue>>
           \/ /\ wire = <<>> /\ peer # "open" /\ flight = <<>>
              /\ m_RecvBuffer' = kept
              /\ errno' \in {errno, "EEXIST"} /\ sock' \in {sock, FALSE}
              /\ UNCHANGED <<wire, sockError, rcv_queue>>
<1>1. CASE wire # <<>>
  <2> DEFINE n == IF size < Len(wire) THEN size ELSE Len(wire)
  <2>1. n \in 1..Len(wire) /\ n <= size
    BY <1>1, Take DEF Types
  <2>2. /\ Keep(Cat(kept, SubSeq(wire, 1, n)), nLen)
        /\ wire' = SubSeq(wire, n + 1, Len(wire))
        /\ errno' = "EEXIST" /\ UNCHANGED <<sock, sockError>>
    BY <1>1 DEF RecvByte, Registered, Cat
  <2> HIDE DEF n
  <2> QED BY <1>1, <2>1, <2>2
<1>2. CASE wire = <<>>
  BY <1>2 DEF RecvByte, Registered
<1> QED BY <1>1, <1>2

\* Bytes taken from the socket, n of them, go behind what the buffer holds, or
\* with it to the queue.
LEMMA TakenStays ==
    ASSUME RecvInv, Sound, Around, NEW n \in 1..Len(wire),
           wire' = SubSeq(wire, n + 1, Len(wire)), errno' = "EEXIST",
           UNCHANGED <<sock, sockError>>, sock, NEW nLen,
           Keep(Cat(m_RecvBuffer, SubSeq(wire, 1, n)), nLen),
           \/ nLen = 0 /\ Len(m_RecvBuffer) + n <= PACKHEADSIZE
           \/ /\ m_RecvBuffer # <<>> /\ nLen = frames[m_RecvBuffer[1][1]].len
              /\ Len(m_RecvBuffer) + n <= PACKHEADSIZE + nLen
    PROVE  RecvInv'
<1> DEFINE a == SubSeq(wire, 1, n)
           b == SubSeq(wire, n + 1, Len(wire))
           bytes == Cat(m_RecvBuffer, a)
<1>1. /\ Types /\ ResetEmpty /\ QueueRight /\ InOrder /\ FaultCloses
      /\ frames \in Seq(Frame) /\ flight \in Seq(Byte) /\ wire \in Seq(Byte)
      /\ m_RecvBuffer \in Seq(Byte) /\ rcv_queue \in Seq(Byte)
      /\ Len(m_RecvBuffer) \in Nat /\ Len(wire) \in Nat /\ Len(rcv_queue) \in Nat
  BY LenProperties DEF RecvInv, Types
<1>2. UNCHANGED <<frames, flight, peer, sock, sockError, reader, delivered>>
  BY DEF Around
<1>3. n \in 0..Len(wire)
  BY <1>1
<1>4. a \in Seq(Byte) /\ b \in Seq(Byte) /\ Len(a) = n /\ wire = Cat(a, b) /\ wire' = b
  BY <1>1, <1>3, SplitAt
<1>5. Keep(bytes, nLen)
  OBVIOUS
<1> HIDE DEF a, b
<1>6. /\ bytes \in Seq(Byte) /\ Len(bytes) = Len(m_RecvBuffer) + n
      /\ m_RecvBuffer # <<>> => bytes[1] = m_RecvBuffer[1]
  <2>1. /\ bytes \in Seq(Byte) /\ Len(bytes) = Len(m_RecvBuffer) + n
        /\ \A i \in 1..(Len(m_RecvBuffer) + Len(a)) :
              bytes[i] = IF i <= Len(m_RecvBuffer) THEN m_RecvBuffer[i]
                                                   ELSE a[i - Len(m_RecvBuffer)]
    BY <1>1, <1>4, CatProperties
  <2>2. m_RecvBuffer # <<>> => Len(m_RecvBuffer) >= 1
    BY <1>1, EmptySeq
  <2> HIDE DEF bytes
  <2> QED BY <1>1, <1>4, <2>1, <2>2
<1>7. Cat(Cat(Cat(rcv_queue, bytes), b), flight) = Pending
  <2>1. Pending = Cat(Cat(Cat(rcv_queue, m_RecvBuffer), Cat(a, b)), flight)
    BY <1>4 DEF Pending, Cat
  <2> QED BY <1>1, <1>4, <2>1, Regroup
<1> HIDE DEF bytes
<1> DEFINE whole == Len(bytes) > PACKHEADSIZE /\ Len(bytes) = nLen + PACKHEADSIZE
<1>8. CASE whole
  <2> DEFINE q == Cat(rcv_queue, bytes)
             i == m_RecvBuffer[1][1]
  <2>1. rcv_queue' = q /\ m_RecvBuffer' = <<>>
    BY <1>5, <1>8 DEF Keep, Cat
  <2>2. q \in Seq(Byte) /\ <<>> \in Seq(Byte) /\ Len(<<>>) = 0
    BY <1>1, <1>6, CatProperties, EmptySeq
  <2>3. Pending' = Pending /\ Pending = Cat(q, Cat(b, flight)) /\ Cat(b, flight) \in Seq(Byte)
    <3> HIDE DEF q
    <3>1. Pending' = Cat(Cat(Cat(q, <<>>), b), flight)
      BY <1>2, <1>4, <2>1 DEF Pending, Cat
    <3>2. Cat(q, <<>>) = q
      BY <2>2, CatEmpty
    <3>3. Pending' = Pending
      BY <1>7, <3>1, <3>2 DEF q
    <3>4. b \in Seq(Byte) /\ flight \in Seq(Byte)
      BY <1>1, <1>4
    <3>5. Cat(b, flight) \in Seq(Byte)
      BY <3>4, CatProperties
    <3>6. Cat(Cat(q, b), flight) = Cat(q, Cat(b, flight))
      BY <2>2, <3>4, CatAssociative
    <3>7. Cat(Cat(q, b), flight) = Pending
      BY <1>7 DEF q
    <3> QED BY <3>3, <3>5, <3>6, <3>7
  <2>4. m_RecvBuffer # <<>> /\ nLen = frames[i].len /\ PACKHEADSIZE = 4
    <3>1. PACKHEADSIZE = 4
      BY LensAreNat
    <3>2. nLen # 0
      BY <1>8, <3>1
    <3> QED BY <3>1, <3>2
  <2>5. i \in 1..Len(frames) /\ m_RecvBuffer[1][2] = 1 /\ frames[i].len \in Nat \ {0}
    BY <1>1, <2>4, BufferRight
  <2>6. bytes[1] = m_RecvBuffer[1] /\ Len(bytes) = Size(frames, i) /\ Len(bytes) \in Nat \ {0}
    <3>1. Len(bytes) = nLen + PACKHEADSIZE /\ nLen \in Nat \ {0}
      BY <1>8, <2>4, <2>5
    <3>2. Size(frames, i) = PACKHEADSIZE + nLen
      BY <2>4 DEF Size
    <3> HIDE DEF i
    <3>3. Len(bytes) = Size(frames, i) /\ Len(bytes) \in Nat \ {0}
      BY <2>4, <3>1, <3>2
    <3> QED BY <1>6, <2>4, <3>3
  <2>7. Stream(q, frames) /\ Stream(bytes, frames)
    <3>1. Stream(q, frames)
      <4> HIDE DEF q
      <4> QED BY <1>1, <2>2, <2>3, StreamSplit DEF Sound
    <3> QED BY <1>1, <1>6, <3>1, StreamSplit
  <2>8. bytes[Len(bytes)] = <<i, Len(bytes)>>
    <3>1. 1 \in 1..Len(bytes) /\ Len(bytes) \in 1..Len(bytes) /\ 1 <= Len(bytes)
      BY <2>6
    <3>2. LET k == bytes[1][2] + (Len(bytes) - 1)
          IN  k <= Size(frames, bytes[1][1]) => bytes[Len(bytes)] = <<bytes[1][1], k>>
      BY <2>7, <3>1 DEF Stream
    <3>3. bytes[1][2] + (Len(bytes) - 1) = Len(bytes)
      BY <2>5, <2>6
    <3> QED BY <2>6, <3>2, <3>3
  <2>9. /\ Len(q) = Len(rcv_queue) + Len(bytes) /\ q # <<>> /\ Len(q) >= 1
        /\ q[Len(q)] = bytes[Len(bytes)]
    <3>1. /\ Len(q) = Len(rcv_queue) + Len(bytes)
          /\ \A j \in 1..(Len(rcv_queue) + Len(bytes)) :
                q[j] = IF j <= Len(rcv_queue) THEN rcv_queue[j] ELSE bytes[j - Len(rcv_queue)]
      BY <1>1, <1>6, CatProperties
    <3> HIDE DEF q
    <3>2. Len(q) >= 1 /\ q[Len(q)] = bytes[Len(bytes)]
      BY <1>1, <2>6, <3>1
    <3> QED BY <2>2, <3>1, <3>2
  <2>10. BeginsAt(q, Len(delivered) + 1)
    <3> DEFINE rest == Cat(b, flight)
    <3>1. /\ Len(Pending) = Len(q) + Len(rest) /\ Pending \in Seq(Byte)
          /\ \A j \in 1..(Len(q) + Len(rest)) :
                Pending[j] = IF j <= Len(q) THEN q[j] ELSE rest[j - Len(q)]
      <4> HIDE DEF q, rest
      <4> QED BY <2>2, <2>3, CatProperties DEF rest
    <3>2. Len(rest) \in Nat
      BY <2>3, LenProperties
    <3>3. Pending[1] = q[1] /\ Len(Pending) >= 1
      <4> HIDE DEF q, rest
      <4> QED BY <2>9, <1>1, <2>6, <3>1, <3>2
    <3>4. Pending # <<>>
      BY <3>1, <3>3, EmptySeq
    <3> QED BY <3>3, <3>4 DEF Sound, BeginsAt
  <2>11. EndsWhole(q, frames)
    BY <2>6, <2>8, <2>9 DEF EndsWhole
  <2> HIDE DEF q
  <2>12. QueueRight'
    BY <1>2, <2>1, <2>7, <2>10, <2>11 DEF QueueRight
  <2>13. Sound'
    BY <1>2, <2>1, <2>2, <2>3, <2>4, SoundKept
  <2>14. Types' /\ ResetEmpty' /\ InOrder' /\ FaultCloses'
    BY <1>1, <1>2, <1>4, <2>1, <2>2 DEF Types, ResetEmpty, InOrder, FaultCloses
  <2> QED BY <2>12, <2>13, <2>14 DEF RecvInv
<1>9. CASE ~whole
  <2>1. rcv_queue' = rcv_queue /\ m_RecvBuffer' = bytes
    BY <1>5, <1>9 DEF Keep
  <2>2. Pending' = Pending
    <3>1. Pending' = Cat(Cat(Cat(rcv_queue, bytes), b), flight)
      BY <1>2, <1>4, <2>1 DEF Pending, Cat
    <3> QED BY <1>7, <3>1
  <2>3. Len(bytes) > PACKHEADSIZE => Len(bytes) < Size(frames, bytes[1][1])
    <3> SUFFICES ASSUME Len(bytes) > PACKHEADSIZE
                 PROVE  Len(bytes) < Size(frames, bytes[1][1])
      OBVIOUS
    <3>1. /\ m_RecvBuffer # <<>> /\ nLen = frames[m_RecvBuffer[1][1]].len
          /\ Len(bytes) <= PACKHEADSIZE + nLen /\ PACKHEADSIZE = 4
      BY <1>1, <1>6, LensAreNat
    <3>2. nLen \in Nat
      BY <1>1, <3>1, BufferRight
    <3>3. Len(bytes) # nLen + PACKHEADSIZE
      BY <1>9
    <3>3a. Len(bytes) \in Nat
      BY <1>6, LenProperties
    <3>4. Len(bytes) < PACKHEADSIZE + nLen
      <4> HIDE DEF bytes
      <4> QED BY <3>1, <3>2, <3>3, <3>3a
    <3> QED BY <1>6, <3>1, <3>4 DEF Size
  <2>4. Sound'
    BY <1>2, <2>1, <2>2, <2>3, SoundKept
  <2>5. Types' /\ ResetEmpty' /\ QueueRight' /\ InOrder' /\ FaultCloses'
    BY <1>1, <1>2, <1>4, <1>6, <2>1 DEF Types, ResetEmpty, QueueRight, InOrder, FaultCloses
  <2> QED BY <2>4, <2>5 DEF RecvInv
<1> QED BY <1>8, <1>9

\* One call of RecvByte that goes on with the packet.
LEMMA GoesOn ==
    ASSUME RecvInv, Sound, Around, sock, NEW size \in Nat \ {0}, NEW nLen,
           RecvByte(m_RecvBuffer, size, nLen),
           \/ nLen = 0 /\ Len(m_RecvBuffer) + size <= PACKHEADSIZE
           \/ /\ m_RecvBuffer # <<>> /\ nLen = frames[m_RecvBuffer[1][1]].len
              /\ Len(m_RecvBuffer) + size <= PACKHEADSIZE + nLen
    PROVE  RecvInv'
<1>1. /\ Types /\ m_RecvBuffer \in Seq(Byte) /\ Len(m_RecvBuffer) \in Nat
      /\ Len(wire) \in Nat /\ PACKHEADSIZE = 4
      /\ errno \in {"EAGAIN", "EEXIST", "ECONNRESET", "other"}
      /\ sock \in BOOLEAN /\ sockError \in BOOLEAN
  BY LenProperties, LensAreNat DEF RecvInv, Types
<1>2. CASE \E n \in 1..Len(wire) :
              /\ n <= size /\ wire # <<>>
              /\ Keep(Cat(m_RecvBuffer, SubSeq(wire, 1, n)), nLen)
              /\ wire' = SubSeq(wire, n + 1, Len(wire))
              /\ errno' = "EEXIST" /\ UNCHANGED <<sock, sockError>>
  <2>1. PICK n \in 1..Len(wire) :
              /\ n <= size /\ wire # <<>>
              /\ Keep(Cat(m_RecvBuffer, SubSeq(wire, 1, n)), nLen)
              /\ wire' = SubSeq(wire, n + 1, Len(wire))
              /\ errno' = "EEXIST" /\ UNCHANGED <<sock, sockError>>
    BY <1>2
  <2>2. n \in Nat
    BY <1>1
  <2>3. ASSUME nLen = 0, Len(m_RecvBuffer) + size <= PACKHEADSIZE
        PROVE  Len(m_RecvBuffer) + n <= PACKHEADSIZE
    BY <1>1, <2>1, <2>2, <2>3
  <2>4. ASSUME m_RecvBuffer # <<>>, nLen = frames[m_RecvBuffer[1][1]].len,
               Len(m_RecvBuffer) + size <= PACKHEADSIZE + nLen
        PROVE  Len(m_RecvBuffer) + n <= PACKHEADSIZE + nLen
    <3>1. nLen \in Nat
      BY <1>1, <2>4, BufferRight DEF RecvInv
    <3> QED BY <1>1, <2>1, <2>2, <2>4, <3>1
  <2>5. \/ nLen = 0 /\ Len(m_RecvBuffer) + n <= PACKHEADSIZE
        \/ /\ m_RecvBuffer # <<>> /\ nLen = frames[m_RecvBuffer[1][1]].len
           /\ Len(m_RecvBuffer) + n <= PACKHEADSIZE + nLen
    BY <2>3, <2>4
  <2> QED BY <2>1, <2>5, TakenStays
<1>3. CASE /\ wire = <<>> /\ sockError
           /\ m_RecvBuffer' = m_RecvBuffer /\ ~sockError' /\ sockError' \in BOOLEAN
           /\ errno' = "ECONNRESET" /\ UNCHANGED <<wire, sock, rcv_queue>>
  <2>1. ~sock' => peer # "open" \/ ~AllLegal
    BY <1>3
  <2> QED BY <1>1, <1>3, <2>1, NothingRead DEF RecvInv
<1>4. CASE /\ wire = <<>> /\ peer # "open" /\ flight = <<>>
           /\ m_RecvBuffer' = m_RecvBuffer
           /\ errno' \in {errno, "EEXIST"} /\ sock' \in {sock, FALSE}
           /\ UNCHANGED <<wire, sockError, rcv_queue>>
  <2>1. ~sock' => peer # "open" \/ ~AllLegal
    BY <1>4
  <2>2. sock' \in BOOLEAN /\ errno' \in {"EAGAIN", "EEXIST", "ECONNRESET", "other"}
    BY <1>1, <1>4
  <2> QED BY <1>1, <1>4, <2>1, <2>2, NothingRead DEF RecvInv
<1> QED BY <1>1, <1>2, <1>3, <1>4, ByteCases

\* A packet that is too long: what has been read of it is forgotten, and what
\* comes next is taken for a header, which it cannot be.
LEMMA TooLong ==
    ASSUME RecvInv, Sound, Around, sock, NEW nLen, Len(m_RecvBuffer) > PACKHEADSIZE,
           nLen = frames[m_RecvBuffer[1][1]].len, nLen > MaxData,
           RecvByte(<<>>, PACKHEADSIZE, nLen)
    PROVE  RecvInv'
<1> DEFINE i == m_RecvBuffer[1][1]
           rest == Cat(m_RecvBuffer, Cat(wire, flight))
<1>1. /\ Types /\ ResetEmpty /\ QueueRight /\ InOrder /\ FaultCloses
      /\ m_RecvBuffer \in Seq(Byte) /\ Len(m_RecvBuffer) \in Nat
      /\ wire \in Seq(Byte) /\ Len(wire) \in Nat /\ flight \in Seq(Byte)
      /\ frames \in Seq(Frame) /\ PACKHEADSIZE = 4
      /\ errno \in {"EAGAIN", "EEXIST", "ECONNRESET", "other"}
      /\ sock \in BOOLEAN /\ sockError \in BOOLEAN
  BY LenProperties, LensAreNat DEF RecvInv, Types
<1>2. m_RecvBuffer # <<>>
  BY <1>1, EmptySeq
<1>3. /\ i \in 1..Len(frames) /\ m_RecvBuffer[1][2] = 1 /\ Stream(rest, frames)
      /\ nLen \in Nat
  BY <1>1, <1>2, BufferRight
<1>4. ~AllLegal
  <2>1. i \in DOMAIN frames /\ MaxData \in Nat
    BY <1>1, <1>3, LensAreNat
  <2>2. ~Legal(i)
    BY <1>3, <2>1 DEF Legal
  <2> QED BY <2>1, <2>2 DEF AllLegal
<1>5. ~AllLegal'
  BY <1>4 DEF AllLegal, Legal, Around
<1>6. <<>> \in Seq(Byte) /\ PACKHEADSIZE \in Nat \ {0}
  BY <1>1, EmptySeq
<1>7. CASE \E n \in 1..Len(wire) :
              /\ n <= PACKHEADSIZE /\ wire # <<>>
              /\ Keep(Cat(<<>>, SubSeq(wire, 1, n)), nLen)
              /\ wire' = SubSeq(wire, n + 1, Len(wire))
              /\ errno' = "EEXIST" /\ UNCHANGED <<sock, sockError>>
  <2>1. PICK n \in 1..Len(wire) :
              /\ n <= PACKHEADSIZE /\ wire # <<>>
              /\ Keep(Cat(<<>>, SubSeq(wire, 1, n)), nLen)
              /\ wire' = SubSeq(wire, n + 1, Len(wire))
              /\ errno' = "EEXIST" /\ UNCHANGED <<sock, sockError>>
    BY <1>7
  <2> DEFINE a == SubSeq(wire, 1, n)
             b == SubSeq(wire, n + 1, Len(wire))
  <2>2. n \in 0..Len(wire) /\ n >= 1
    BY <1>1
  <2>3. /\ a \in Seq(Byte) /\ Len(a) = n /\ b \in Seq(Byte)
        /\ \A k \in 1..n : a[k] = wire[k]
    BY <1>1, <2>2, SplitAt
  <2>4. Cat(<<>>, a) = a
    BY <2>3, CatEmpty
  <2>5. m_RecvBuffer' = a /\ UNCHANGED rcv_queue /\ wire' = b
    <3>1. Keep(a, nLen)
      BY <2>1, <2>4
    <3> HIDE DEF a
    <3>2. ~ (Len(a) > PACKHEADSIZE)
      BY <1>1, <2>1, <2>3
    <3>3. m_RecvBuffer' = a /\ UNCHANGED rcv_queue
      BY <3>1, <3>2 DEF Keep
    <3> QED BY <2>1, <3>3
  <2> HIDE DEF a, b
  <2>6. a[1] = wire[1] /\ a # <<>>
    BY <2>2, <2>3, EmptySeq
  <2>7. wire[1] = <<i, 1 + Len(m_RecvBuffer)>>
    <3> DEFINE wf == Cat(wire, flight)
    <3>1. /\ wf \in Seq(Byte) /\ Len(wf) = Len(wire) + Len(flight)
          /\ \A j \in 1..(Len(wire) + Len(flight)) :
                wf[j] = IF j <= Len(wire) THEN wire[j] ELSE flight[j - Len(wire)]
      BY <1>1, CatProperties
    <3>2. Len(flight) \in Nat /\ Len(wire) >= 1
      BY <1>1, <2>1, LenProperties
    <3> HIDE DEF wf
    <3>3. wf[1] = wire[1] /\ Len(wf) >= 1 /\ Len(wf) \in Nat
      BY <1>1, <3>1, <3>2
    <3>4. /\ Len(rest) = Len(m_RecvBuffer) + Len(wf)
          /\ \A j \in 1..(Len(m_RecvBuffer) + Len(wf)) :
                rest[j] = IF j <= Len(m_RecvBuffer) THEN m_RecvBuffer[j]
                                                    ELSE wf[j - Len(m_RecvBuffer)]
      BY <1>1, <3>1, CatProperties DEF wf
    <3>4a. Stream(rest, frames)
      BY <1>3
    <3> HIDE DEF rest
    <3>5. /\ rest[1] = m_RecvBuffer[1] /\ rest[1 + Len(m_RecvBuffer)] = wf[1]
          /\ 1 \in 1..Len(rest) /\ 1 + Len(m_RecvBuffer) \in 1..Len(rest)
          /\ 1 <= 1 + Len(m_RecvBuffer)
      <4> DEFINE r == Len(m_RecvBuffer)
      <4>1. r \in Nat /\ r >= 1 /\ Len(wf) \in Nat /\ Len(wf) >= 1
        BY <1>1, <3>3
      <4>2. /\ Len(rest) = r + Len(wf)
            /\ \A j \in 1..(r + Len(wf)) :
                  rest[j] = IF j <= r THEN m_RecvBuffer[j] ELSE wf[j - r]
        BY <3>4
      <4>2a. \A j \in 1..(r + Len(wf)) : ~(j <= r) => rest[j] = wf[j - r]
        BY <4>2
      <4> HIDE DEF r
      <4>3. 1 \in 1..(r + Len(wf)) /\ 1 + r \in 1..(r + Len(wf)) /\ 1 <= 1 + r
        BY <4>1
      <4> DEFINE e == 1 + r
      <4>4. 1 <= r /\ ~(e <= r) /\ e - r = 1 /\ e \in 1..(r + Len(wf))
        BY <4>1
      <4>5. rest[1] = m_RecvBuffer[1]
        BY <4>2, <4>3, <4>4
      <4> HIDE DEF e
      <4>6. rest[e] = wf[1]
        BY <4>2a, <4>4
      <4> QED BY <4>2, <4>3, <4>5, <4>6 DEF r, e
    <3>6. LET k == rest[1][2] + ((1 + Len(m_RecvBuffer)) - 1)
          IN  k <= Size(frames, rest[1][1])
                 => rest[1 + Len(m_RecvBuffer)] = <<rest[1][1], k>>
      BY <3>4a, <3>5 DEF Stream
    <3>7. /\ rest[1][1] = i /\ rest[1][2] + ((1 + Len(m_RecvBuffer)) - 1) = 1 + Len(m_RecvBuffer)
      BY <1>1, <1>3, <3>5
    <3>8. 1 + Len(m_RecvBuffer) <= Size(frames, i)
      <4>1. Len(m_RecvBuffer) < Size(frames, i)
        BY DEF Sound
      <4>2. Size(frames, i) \in Nat
        BY <1>1, <1>3 DEF Size
      <4> HIDE DEF i
      <4> QED BY <1>1, <4>1, <4>2
    <3> QED BY <3>3, <3>5, <3>6, <3>7, <3>8
  <2>8. m_RecvBuffer'[1][2] # 1
    BY <1>1, <2>5, <2>6, <2>7
  <2>9. Astray'
    <3>1. m_RecvBuffer' # <<>> /\ Len(m_RecvBuffer') <= PACKHEADSIZE
      BY <2>1, <2>3, <2>5, <2>6
    <3> QED BY <1>5, <2>8, <3>1 DEF Astray
  <2>10. Types' /\ ResetEmpty' /\ QueueRight' /\ InOrder' /\ FaultCloses'
    BY <1>1, <2>1, <2>3, <2>5
      DEF Around, Types, ResetEmpty, QueueRight, InOrder, FaultCloses, AllLegal, Legal
  <2> QED BY <2>9, <2>10 DEF RecvInv
<1>8. CASE /\ wire = <<>> /\ sockError
           /\ m_RecvBuffer' = <<>> /\ ~sockError' /\ sockError' \in BOOLEAN
           /\ errno' = "ECONNRESET" /\ UNCHANGED <<wire, sock, rcv_queue>>
  <2>1. peer = "reset" /\ flight = <<>>
    BY <1>1, <1>8 DEF ResetEmpty
  <2>2. Astray'
    <3>1. Len(m_RecvBuffer') <= PACKHEADSIZE
      BY <1>1, <1>8, EmptySeq
    <3> QED BY <1>5, <1>8, <2>1, <3>1 DEF Astray, Around
  <2>3. Types' /\ ResetEmpty' /\ QueueRight' /\ InOrder' /\ FaultCloses'
    BY <1>1, <1>4, <1>6, <1>8, NothingRead
  <2> QED BY <2>2, <2>3 DEF RecvInv
<1>9. CASE /\ wire = <<>> /\ peer # "open" /\ flight = <<>>
           /\ m_RecvBuffer' = <<>>
           /\ errno' \in {errno, "EEXIST"} /\ sock' \in {sock, FALSE}
           /\ UNCHANGED <<wire, sockError, rcv_queue>>
  <2>1. Astray'
    <3>1. Len(m_RecvBuffer') <= PACKHEADSIZE
      BY <1>1, <1>9, EmptySeq
    <3> QED BY <1>5, <1>9, <3>1 DEF Astray, Around
  <2>2. sock' \in BOOLEAN /\ errno' \in {"EAGAIN", "EEXIST", "ECONNRESET", "other"}
    BY <1>1, <1>9
  <2>3. Types' /\ ResetEmpty' /\ QueueRight' /\ InOrder' /\ FaultCloses'
    BY <1>1, <1>4, <1>6, <1>9, <2>2, NothingRead
  <2> QED BY <2>1, <2>3 DEF RecvInv
<1> QED BY <1>1, <1>6, <1>7, <1>8, <1>9, ByteCases

\* Once the stream has gone astray it stays so.
LEMMA AstrayStep == ASSUME RecvInv, Astray, RecvData PROVE RecvInv'
<1>1. /\ Types /\ ResetEmpty /\ QueueRight /\ InOrder /\ FaultCloses
      /\ m_RecvBuffer \in Seq(Byte) /\ Len(m_RecvBuffer) \in Nat
      /\ wire \in Seq(Byte) /\ Len(wire) \in Nat /\ PACKHEADSIZE = 4
      /\ errno \in {"EAGAIN", "EEXIST", "ECONNRESET", "other"}
      /\ sock \in BOOLEAN /\ sockError \in BOOLEAN
  BY LenProperties, LensAreNat DEF RecvInv, Types
<1>2. sock /\ Around /\ ~AllLegal /\ ~AllLegal'
  BY DEF RecvData, Around, Astray, AllLegal, Legal
<1>3. \/ /\ m_RecvBuffer # <<>> /\ Len(m_RecvBuffer) <= PACKHEADSIZE
         /\ m_RecvBuffer[1][2] # 1
      \/ peer # "open" /\ m_RecvBuffer = <<>> /\ wire = <<>> /\ flight = <<>>
  BY <1>2 DEF Astray
<1>4. ASSUME UNCHANGED <<wire, rcv_queue, m_RecvBuffer>>,
             sockError' \in BOOLEAN, sockError' => sockError, sock' \in BOOLEAN,
             errno' \in {"EAGAIN", "EEXIST", "ECONNRESET", "other"}
      PROVE  RecvInv'
  <2>1. Types' /\ ResetEmpty' /\ QueueRight' /\ InOrder' /\ FaultCloses'
    BY <1>1, <1>2, <1>4, NothingRead
  <2>2. Astray'
    BY <1>2, <1>3, <1>4 DEF Astray, Around
  <2> QED BY <2>1, <2>2 DEF RecvInv
<1>5. CASE RecvHead
  <2> DEFINE size == PACKHEADSIZE - Len(m_RecvBuffer)
  <2>1. size \in Nat \ {0} /\ RecvByte(m_RecvBuffer, size, 0)
    <3>1. Len(m_RecvBuffer) < PACKHEADSIZE /\ RecvByte(m_RecvBuffer, size, 0)
      BY <1>5 DEF RecvHead
    <3>2. size \in Nat \ {0}
      <4>1. Len(m_RecvBuffer) \in Nat /\ PACKHEADSIZE = 4
        BY <1>1
      <4> QED BY <3>1, <4>1
    <3> QED BY <3>1, <3>2
  <2> HIDE DEF size
  <2>2. ASSUME NEW n \in 1..Len(wire), n <= size, wire # <<>>,
               Keep(Cat(m_RecvBuffer, SubSeq(wire, 1, n)), 0),
               wire' = SubSeq(wire, n + 1, Len(wire)),
               errno' = "EEXIST", UNCHANGED <<sock, sockError>>
        PROVE  RecvInv'
    <3> DEFINE a == SubSeq(wire, 1, n)
               b == SubSeq(wire, n + 1, Len(wire))
               bytes == Cat(m_RecvBuffer, a)
    <3>1. n \in 0..Len(wire) /\ n \in Nat
      BY <1>1
    <3>2. a \in Seq(Byte) /\ Len(a) = n /\ b \in Seq(Byte)
      BY <1>1, <3>1, SplitAt
    <3>3. /\ bytes \in Seq(Byte) /\ Len(bytes) = Len(m_RecvBuffer) + Len(a)
          /\ \A j \in 1..(Len(m_RecvBuffer) + Len(a)) :
                bytes[j] = IF j <= Len(m_RecvBuffer) THEN m_RecvBuffer[j]
                                                     ELSE a[j - Len(m_RecvBuffer)]
      <4> HIDE DEF a
      <4> QED BY <1>1, <3>2, CatProperties
    <3>4. Keep(bytes, 0) /\ wire' = b
      BY <2>2
    <3> HIDE DEF a, b, bytes
    <3>5. /\ m_RecvBuffer # <<>> /\ Len(m_RecvBuffer) <= PACKHEADSIZE
          /\ m_RecvBuffer[1][2] # 1
      BY <1>3, <2>2
    <3>6. Len(m_RecvBuffer) >= 1 /\ Len(bytes) <= PACKHEADSIZE /\ Len(bytes) >= 1
      <4>1. Len(m_RecvBuffer) >= 1
        BY <1>1, <3>5, EmptySeq
      <4>2. Len(bytes) = Len(m_RecvBuffer) + n
        BY <3>2, <3>3
      <4> QED BY <1>1, <2>2, <3>1, <4>1, <4>2 DEF size
    <3>7. bytes[1] = m_RecvBuffer[1] /\ bytes # <<>>
      <4>1. Len(a) \in Nat
        BY <3>1, <3>2
      <4>2. 1 \in 1..(Len(m_RecvBuffer) + Len(a)) /\ 1 <= Len(m_RecvBuffer)
        BY <1>1, <3>6, <4>1
      <4> QED BY <3>3, <3>6, <4>2, EmptySeq
    <3>8. m_RecvBuffer' = bytes /\ UNCHANGED rcv_queue
      <4>1. ~ (Len(bytes) > PACKHEADSIZE)
        <5>1. Len(bytes) \in Nat
          BY <3>3, LenProperties
        <5> QED BY <1>1, <3>6, <5>1
      <4> QED BY <3>4, <4>1 DEF Keep
    <3>9. Astray'
      BY <1>2, <3>5, <3>6, <3>7, <3>8 DEF Astray
    <3>10. Types' /\ ResetEmpty' /\ QueueRight' /\ InOrder' /\ FaultCloses'
      BY <1>1, <1>2, <2>2, <3>2, <3>3, <3>4, <3>8
        DEF Around, Types, ResetEmpty, QueueRight, InOrder, FaultCloses
    <3> QED BY <3>9, <3>10 DEF RecvInv
  <2>3. ASSUME wire = <<>>, sockError,
               m_RecvBuffer' = m_RecvBuffer, ~sockError', sockError' \in BOOLEAN,
               errno' = "ECONNRESET", UNCHANGED <<wire, sock, rcv_queue>>
        PROVE  RecvInv'
    BY <1>1, <1>4, <2>3
  <2>4. ASSUME wire = <<>>, peer # "open", flight = <<>>,
               m_RecvBuffer' = m_RecvBuffer,
               errno' \in {errno, "EEXIST"}, sock' \in {sock, FALSE},
               UNCHANGED <<wire, sockError, rcv_queue>>
        PROVE  RecvInv'
    <3>1. sock' \in BOOLEAN /\ errno' \in {"EAGAIN", "EEXIST", "ECONNRESET", "other"}
      BY <1>1, <2>4
    <3> QED BY <1>1, <1>4, <2>4, <3>1
  <2> QED BY <1>1, <2>1, <2>2, <2>3, <2>4, ByteCases
<1>6. CASE RecvBody
  <2>1. m_RecvBuffer # <<>> /\ m_RecvBuffer[1][2] # 1
    <3>1. Len(m_RecvBuffer) = PACKHEADSIZE
      BY <1>6 DEF RecvBody
    <3>2. m_RecvBuffer # <<>>
      <4>1. Len(m_RecvBuffer) = 4
        BY <1>1, <3>1
      <4> QED BY <4>1, EmptySeq
    <3> QED BY <1>3, <3>2
  <2>2. sock' = FALSE /\ UNCHANGED <<wire, sockError, errno, m_RecvBuffer, rcv_queue>>
    BY <1>6, <2>1 DEF RecvBody, HeadRight
  <2> QED BY <1>1, <1>4, <2>2
<1>7. CASE RecvRest
  <2>1. Len(m_RecvBuffer) > PACKHEADSIZE
    BY <1>7 DEF RecvRest
  <2>2. m_RecvBuffer # <<>> /\ ~ (Len(m_RecvBuffer) <= PACKHEADSIZE)
    BY <1>1, <2>1, EmptySeq
  <2> QED BY <1>3, <2>2
<1> QED BY <1>5, <1>6, <1>7 DEF RecvData

\* A step of the epoll thread on a sound stream.
LEMMA SoundStep == ASSUME RecvInv, Sound, RecvData PROVE RecvInv'
<1> DEFINE i == m_RecvBuffer[1][1]
           rest == Cat(m_RecvBuffer, Cat(wire, flight))
<1>1. /\ Types /\ ResetEmpty /\ QueueRight /\ InOrder /\ FaultCloses
      /\ m_RecvBuffer \in Seq(Byte) /\ Len(m_RecvBuffer) \in Nat
      /\ wire \in Seq(Byte) /\ flight \in Seq(Byte)
      /\ frames \in Seq(Frame) /\ PACKHEADSIZE = 4
      /\ errno \in {"EAGAIN", "EEXIST", "ECONNRESET", "other"}
      /\ sock \in BOOLEAN /\ sockError \in BOOLEAN
  BY LenProperties, LensAreNat DEF RecvInv, Types
<1>2. sock /\ Around
  BY DEF RecvData, Around
<1>3. CASE RecvHead
  <2> DEFINE size == PACKHEADSIZE - Len(m_RecvBuffer)
  <2>1. size \in Nat \ {0} /\ RecvByte(m_RecvBuffer, size, 0)
    <3>1. Len(m_RecvBuffer) < PACKHEADSIZE /\ RecvByte(m_RecvBuffer, size, 0)
      BY <1>3 DEF RecvHead
    <3>2. size \in Nat \ {0}
      <4>1. Len(m_RecvBuffer) \in Nat /\ PACKHEADSIZE = 4
        BY <1>1
      <4> QED BY <3>1, <4>1
    <3> QED BY <3>1, <3>2
  <2>2. Len(m_RecvBuffer) + size <= PACKHEADSIZE
    BY <1>1
  <2> HIDE DEF size
  <2> QED BY <1>2, <2>1, <2>2, GoesOn
<1>4. ASSUME m_RecvBuffer # <<>>
      PROVE  /\ i \in 1..Len(frames) /\ m_RecvBuffer[1][2] = 1 /\ Stream(rest, frames)
             /\ frames[i].len \in Nat \ {0}
  BY <1>1, <1>4, BufferRight
<1>5. CASE RecvBody
  <2>1. m_RecvBuffer # <<>> /\ Len(m_RecvBuffer) = 4
    <3>1. Len(m_RecvBuffer) = 4
      BY <1>1, <1>5 DEF RecvBody
    <3> QED BY <3>1, EmptySeq
  <2>2. CASE HeadRight(m_RecvBuffer)
    <3> DEFINE nLen == frames[i].len
    <3>1. nLen \in Nat \ {0} /\ RecvByte(m_RecvBuffer, nLen, nLen)
      BY <1>4, <1>5, <2>1, <2>2 DEF RecvBody, LenField
    <3>2. nLen = frames[m_RecvBuffer[1][1]].len
      OBVIOUS
    <3> HIDE DEF nLen
    <3>3. Len(m_RecvBuffer) + nLen <= PACKHEADSIZE + nLen
      BY <1>1, <2>1, <3>1
    <3> QED BY <1>2, <2>1, <3>1, <3>2, <3>3, GoesOn
  <2>3. CASE ~HeadRight(m_RecvBuffer)
    <3>1. sock' = FALSE /\ UNCHANGED <<wire, sockError, errno, m_RecvBuffer, rcv_queue>>
      BY <1>5, <2>3 DEF RecvBody
    <3>2. m_RecvBuffer[2][2] = 2
      <4> DEFINE wf == Cat(wire, flight)
      <4>1. wf \in Seq(Byte) /\ Len(wf) \in Nat
        BY <1>1, CatProperties, LenProperties
      <4> HIDE DEF wf
      <4>2. /\ Len(rest) = Len(m_RecvBuffer) + Len(wf)
            /\ \A j \in 1..(Len(m_RecvBuffer) + Len(wf)) :
                  rest[j] = IF j <= Len(m_RecvBuffer) THEN m_RecvBuffer[j]
                                                      ELSE wf[j - Len(m_RecvBuffer)]
        BY <1>1, <4>1, CatProperties DEF wf
      <4>3. Stream(rest, frames)
        BY <1>4, <2>1
      <4> HIDE DEF rest
      <4>4. /\ rest[1] = m_RecvBuffer[1] /\ rest[2] = m_RecvBuffer[2]
            /\ 1 \in 1..Len(rest) /\ 2 \in 1..Len(rest) /\ 1 <= 2
        BY <2>1, <4>1, <4>2
      <4>5. LET k == rest[1][2] + (2 - 1)
            IN  k <= Size(frames, rest[1][1]) => rest[2] = <<rest[1][1], k>>
        BY <4>3, <4>4 DEF Stream
      <4>6. rest[1][2] + (2 - 1) = 2 /\ rest[1][1] = i
        BY <1>4, <2>1, <4>4
      <4>7. 2 <= Size(frames, i)
        <5>1. frames[i].len \in Nat
          BY <1>4, <2>1
        <5> QED BY <1>1, <5>1 DEF Size
      <4> QED BY <4>4, <4>5, <4>6, <4>7
    <3>3. ~AllLegal
      <4>1. i \in DOMAIN frames
        BY <1>1, <1>4, <2>1
      <4>2. ~frames[i].magic
        BY <1>4, <2>1, <2>3, <3>2 DEF HeadRight
      <4> QED BY <4>1, <4>2 DEF AllLegal, Legal
    <3> QED BY <1>1, <1>2, <3>1, <3>3, NothingRead DEF RecvInv
  <2> QED BY <2>2, <2>3
<1>6. CASE RecvRest
  <2> DEFINE nLen == frames[i].len
  <2>1. m_RecvBuffer # <<>> /\ Len(m_RecvBuffer) > PACKHEADSIZE
    BY <1>1, <1>6, EmptySeq DEF RecvRest
  <2>2. nLen \in Nat /\ MaxData \in Nat /\ nLen = frames[m_RecvBuffer[1][1]].len
    BY <1>4, <2>1, LensAreNat
  <2>3. IF nLen > MaxData
        THEN RecvByte(<<>>, PACKHEADSIZE, nLen)
        ELSE RecvByte(m_RecvBuffer, PACKHEADSIZE + nLen - Len(m_RecvBuffer), nLen)
    BY <1>6 DEF RecvRest, LenField
  <2>4. Len(m_RecvBuffer) < PACKHEADSIZE + nLen
    BY <2>1 DEF Sound, Size
  <2> HIDE DEF nLen
  <2>5. CASE nLen > MaxData
    BY <1>2, <2>1, <2>2, <2>3, <2>5, TooLong
  <2>6. CASE ~ (nLen > MaxData)
    <3> DEFINE size == PACKHEADSIZE + nLen - Len(m_RecvBuffer)
    <3>1. size \in Nat \ {0} /\ Len(m_RecvBuffer) + size <= PACKHEADSIZE + nLen
      <4>1. Len(m_RecvBuffer) \in Nat /\ PACKHEADSIZE = 4
        BY <1>1
      <4>2. nLen \in Nat /\ Len(m_RecvBuffer) < PACKHEADSIZE + nLen
        BY <2>2, <2>4 DEF nLen
      <4> HIDE DEF nLen
      <4> QED BY <4>1, <4>2
    <3>2. RecvByte(m_RecvBuffer, size, nLen)
      BY <2>3, <2>6
    <3> HIDE DEF size
    <3> QED BY <1>2, <2>1, <2>2, <3>1, <3>2, GoesOn
  <2> QED BY <2>5, <2>6
<1> QED BY <1>3, <1>5, <1>6 DEF RecvData

-----------------------------------------------------------------------------
(* The invariant is one.                                                   *)

LEMMA RecvInvStep == RecvInv /\ [Next]_vars => RecvInv'
<1> SUFFICES ASSUME RecvInv, [Next]_vars PROVE RecvInv'
  OBVIOUS
<1>1. ASSUME NEW len \in Lens, NEW magic \in BOOLEAN, Send(len, magic) PROVE RecvInv'
  BY <1>1, SendStep
<1>2. ASSUME NEW n \in 1..Len(flight), Arrive(n) PROVE RecvInv'
  BY <1>2, ArriveStep
<1>3. CASE PeerClose
  BY <1>3, PeerCloseStep
<1>4. CASE PeerReset
  BY <1>4, PeerResetStep
<1>5. CASE RecvData
  BY <1>5, SoundStep, AstrayStep DEF RecvInv
<1>6. CASE Reader
  BY <1>6, LookStep, RecvToCmdStep DEF Reader
<1>7. CASE UNCHANGED vars
  BY <1>7 DEF vars, RecvInv, Types, ResetEmpty, QueueRight, Sound, Astray, Pending,
              InOrder, FaultCloses, AllLegal, Legal
<1> QED BY <1>1, <1>2, <1>3, <1>4, <1>5, <1>6, <1>7 DEF Next

\* The invariant holds in every reachable state.
THEOREM RecvInvariant == Spec => []RecvInv
<1>1. Init => RecvInv
  BY InitRecvInv
<1>2. RecvInv /\ [Next]_vars => RecvInv'
  BY RecvInvStep
<1> QED BY <1>1, <1>2, PTL DEF Spec

\* However the network cuts the stream, msgParse is given the messages that were
\* sent, whole, once each and in order.
THEOREM MessagesInOrder == Spec => []InOrder
<1>1. RecvInv => InOrder
  BY DEF RecvInv
<1> QED BY <1>1, RecvInvariant, PTL

\* RecvData takes no legal peer for a bad one.
THEOREM OnlyFaultCloses == Spec => []FaultCloses
<1>1. RecvInv => FaultCloses
  BY DEF RecvInv
<1> QED BY <1>1, RecvInvariant, PTL

\* What recvToCmd looks at begins with a header and ends with a whole packet.
THEOREM OnlyWholePackets == Spec => []QueueWhole
<1>1. RecvInv => QueueWhole
  <2> SUFFICES ASSUME RecvInv, rcv_queue # <<>>
               PROVE  /\ rcv_queue[1][2] = 1
                      /\ LET last == rcv_queue[Len(rcv_queue)]
                         IN  last[2] = PACKHEADSIZE + frames[last[1]].len
    BY DEF QueueWhole
  <2>1. rcv_queue[1] = <<Len(delivered) + 1, 1>>
    BY DEF RecvInv, QueueRight, BeginsAt
  <2> QED BY <2>1 DEF RecvInv, QueueRight, EndsWhole, Size
<1> QED BY <1>1, RecvInvariant, PTL

\* Nothing of a legal stream is lost between the network and the owner of the
\* task, unless the peer resets the connection.
THEOREM LegalStreamKept == Spec => []NothingLost
<1>1. RecvInv => NothingLost
  <2> SUFFICES ASSUME RecvInv, AllLegal
               PROVE  /\ Pending # <<>> => Pending[1] = <<Len(delivered) + 1, 1>>
                      /\ \A j \in 1..(Len(Pending) - 1) : Follows(Pending[j], Pending[j + 1])
                      /\ peer # "reset" =>
                            IF Pending = <<>> THEN Len(delivered) = Len(frames)
                            ELSE Pending[Len(Pending)] =
                                   <<Len(frames), PACKHEADSIZE + frames[Len(frames)].len>>
    BY DEF NothingLost
  <2>1. Sound /\ Types
    BY DEF RecvInv, Astray
  <2>2. ASSUME NEW j \in 1..(Len(Pending) - 1)
        PROVE  Follows(Pending[j], Pending[j + 1])
    <3> DEFINE a == Pending[j]
               b == Pending[j + 1]
               z == Size(frames, a[1])
    <3>1. Pending \in Seq(Byte) /\ Len(Pending) \in Nat
      BY <2>1, PendingParts, LenProperties
    <3>2. /\ j \in 1..Len(Pending) /\ j + 1 \in 1..Len(Pending) /\ j <= j + 1
          /\ (j + 1) - j = 1
      BY <3>1
    <3>3. a[1] \in 1..Len(frames) /\ a[2] \in 1..z
      BY <2>1, <3>2 DEF Sound, Stream
    <3>4. /\ a[2] + ((j + 1) - j) <= z => b = <<a[1], a[2] + ((j + 1) - j)>>
          /\ a[2] + ((j + 1) - j) = z + 1 => b = <<a[1] + 1, 1>>
      BY <2>1, <3>2 DEF Sound, Stream
    <3>5. /\ a[2] + 1 <= z => b = <<a[1], a[2] + 1>>
          /\ a[2] + 1 = z + 1 => b = <<a[1] + 1, 1>>
      BY <3>2, <3>4
    <3>6. z \in Nat
      <4>1. frames[a[1]] \in Frame
        BY <2>1, <3>3, ElementOfSeq DEF Types
      <4>2. frames[a[1]].len \in Lens
        BY <4>1 DEF Frame
      <4>3. frames[a[1]].len \in Nat /\ PACKHEADSIZE \in Nat
        BY <4>2, LensAreNat
      <4> QED BY <4>3 DEF Size
    <3>7. z = PACKHEADSIZE + frames[a[1]].len
      BY DEF Size
    <3> HIDE DEF a, b, z
    <3>8. IF a[2] < z THEN b = <<a[1], a[2] + 1>> ELSE b = <<a[1] + 1, 1>>
      BY <3>3, <3>5, <3>6
    <3>9. Follows(a, b)
      BY <3>7, <3>8 DEF Follows
    <3> QED BY <3>9 DEF a, b
  <2> QED BY <2>1, <2>2 DEF Sound, BeginsAt, Size
<1> QED BY <1>1, RecvInvariant, PTL

\* Type correctness; the buffer never holds as much as a whole packet.
THEOREM RecvTypeCorrect == Spec => []TypeOK
<1>1. RecvInv => TypeOK
  <2> SUFFICES ASSUME RecvInv PROVE TypeOK
    OBVIOUS
  <2>1. Types /\ (Sound \/ Astray)
    BY DEF RecvInv
  <2>2. ASSUME m_RecvBuffer # <<>>
        PROVE  \E len \in Lens : Len(m_RecvBuffer) < PACKHEADSIZE + len
    <3>1. /\ m_RecvBuffer \in Seq(Byte) /\ Len(m_RecvBuffer) \in Nat
          /\ frames \in Seq(Frame) /\ Len(frames) \in Nat
      BY <2>1, LenProperties DEF Types
    <3>2. \A i \in 1..Len(frames) : frames[i].len \in Lens
      <4>1. \A i \in 1..Len(frames) : frames[i] \in Frame
        BY <3>1, ElementOfSeq
      <4> QED BY <4>1 DEF Frame
    <3>3. \A len \in Lens : len \in Nat \ {0}
      BY LensAreNat
    <3>4. CASE Len(m_RecvBuffer) <= PACKHEADSIZE
      <4>1. frames # <<>>
        <5>1. CASE Sound
          BY <2>1, <2>2, <3>1, <5>1, BufferRight DEF RecvInv
        <5>2. CASE Astray
          BY <3>1, <5>2 DEF Astray, AllLegal
        <5> QED BY <2>1, <5>1, <5>2
      <4>2. frames[1].len \in Lens
        BY <3>1, <3>2, <4>1, EmptySeq
      <4>3. Len(m_RecvBuffer) < PACKHEADSIZE + frames[1].len
        <5>1. frames[1].len \in Nat \ {0} /\ PACKHEADSIZE = 4
          BY <3>3, <4>2, LensAreNat
        <5> QED BY <3>1, <3>4, <5>1
      <4> QED BY <4>2, <4>3
    <3>5. CASE Len(m_RecvBuffer) > PACKHEADSIZE
      <4> DEFINE i == m_RecvBuffer[1][1]
      <4>1. ~ (Len(m_RecvBuffer) <= PACKHEADSIZE)
        BY <3>1, <3>5, LensAreNat
      <4>2. Sound
        BY <2>1, <4>1 DEF Astray
      <4>3. i \in 1..Len(frames)
        BY <2>1, <2>2, <4>2, BufferRight DEF RecvInv
      <4>4. Len(m_RecvBuffer) < PACKHEADSIZE + frames[i].len
        BY <3>5, <4>2 DEF Sound, Size
      <4> QED BY <3>2, <4>3, <4>4
    <3> QED BY <3>1, <3>4, <3>5, LensAreNat
  <2> QED BY <2>1, <2>2 DEF TypeOK, Types, Frame
<1> QED BY <1>1, RecvInvariant, PTL
=============================================================================
