--------------------------- MODULE SendPath_proof ---------------------------
(***************************************************************************)
(* What is proved about SendPath, for every set of threads, every set of   *)
(* lengths and every size of the kernel's buffer: as long as only the      *)
(* owner sends, the peer reads whole messages in the order of the calls,   *)
(* and a message whose sendCmd has returned true is on the wire or waits   *)
(* to be, every byte of it once.                                           *)
(***************************************************************************)
EXTENDS SendPath, SequenceTheorems, FiniteSetTheorems, TLAPS

\* Two pieces put together. The provers take \o for a function of the indices;
\* under a name it stays what it is.
Cat(s, t) == s \o t

Message == [by : Threads, len : Lens]

\* Where a thread is while raw holds what is left of its message.
InCall == {"send", "lock", "put"}

-----------------------------------------------------------------------------
(* Sequences of bytes.                                                     *)

LEMMA ConstantsAre ==
    /\ Owner \in Threads /\ Lens \subseteq Nat \ {0} /\ Buffer \subseteq BOOLEAN
    /\ FlushAt \in Nat /\ MaxMsgs \in Nat /\ MaxRoom \in Nat \ {0}
  BY ThreadsAssumption, LensAssumption, BufferAssumption, SizesAssumption

LEMMA CatProperties ==
    \A s, t \in Seq(Byte) :
        /\ Cat(s, t) \in Seq(Byte) /\ Len(Cat(s, t)) = Len(s) + Len(t)
        /\ \A i \in 1..(Len(s) + Len(t)) :
              Cat(s, t)[i] = IF i <= Len(s) THEN s[i] ELSE t[i - Len(s)]
  BY ConcatProperties DEF Cat

LEMMA CatEmpty == \A s \in Seq(Byte) : Cat(s, <<>>) = s /\ Cat(<<>>, s) = s
<1> TAKE s \in Seq(Byte)
<1> QED BY ConcatEmptySeq DEF Cat

LEMMA CatAssociative ==
    \A s, t, u \in Seq(Byte) : Cat(Cat(s, t), u) = Cat(s, Cat(t, u))
<1> TAKE s, t, u \in Seq(Byte)
<1> QED BY SMT DEF Cat

\* A sequence is what is before a place in it and what is behind.
LEMMA SplitAt ==
    ASSUME NEW s \in Seq(Byte), NEW n \in 0..Len(s)
    PROVE  LET a == SubSeq(s, 1, n)
               b == SubSeq(s, n + 1, Len(s))
           IN  /\ a \in Seq(Byte) /\ Len(a) = n /\ b \in Seq(Byte) /\ Len(b) = Len(s) - n
               /\ s = Cat(a, b)
               /\ \A k \in 1..n : a[k] = s[k]
               /\ \A k \in 1..(Len(s) - n) : b[k] = s[n + k]
<1>1. Len(s) \in Nat /\ \A i \in 1..Len(s) : s[i] \in Byte
  BY LenProperties, ElementOfSeq
<1>2. SubSeq(s, 1, n) \o SubSeq(s, n + 1, Len(s)) = SubSeq(s, 1, Len(s))
  <2>1. 1 \in 1..(Len(s) + 1) /\ n \in (1 - 1)..Len(s) /\ Len(s) \in n..Len(s)
    BY <1>1
  <2> QED BY <2>1, ConcatAdjacentSubSeq
<1>3. SubSeq(s, 1, Len(s)) = s
  BY SubSeqFull
<1>4. \A i \in 1..n : s[i] \in Byte
  BY <1>1
<1>5. \A i \in (n + 1)..Len(s) : s[i] \in Byte
  BY <1>1
<1>6. /\ SubSeq(s, 1, n) \in Seq(Byte)
      /\ Len(SubSeq(s, 1, n)) = IF 1 <= n THEN n - 1 + 1 ELSE 0
      /\ \A i \in 1..(n - 1 + 1) : SubSeq(s, 1, n)[i] = s[1 + i - 1]
  BY <1>1, <1>4, SubSeqProperties
<1>7. /\ SubSeq(s, n + 1, Len(s)) \in Seq(Byte)
      /\ Len(SubSeq(s, n + 1, Len(s)))
            = IF n + 1 <= Len(s) THEN Len(s) - (n + 1) + 1 ELSE 0
      /\ \A i \in 1..(Len(s) - (n + 1) + 1) : SubSeq(s, n + 1, Len(s))[i] = s[n + 1 + i - 1]
  BY <1>1, <1>5, SubSeqProperties
<1>8. /\ Len(SubSeq(s, 1, n)) = n
      /\ \A k \in 1..n : SubSeq(s, 1, n)[k] = s[k]
  BY <1>6
<1>9. /\ Len(SubSeq(s, n + 1, Len(s))) = Len(s) - n
      /\ \A k \in 1..(Len(s) - n) : SubSeq(s, n + 1, Len(s))[k] = s[n + k]
  BY <1>1, <1>7
<1> QED BY <1>2, <1>3, <1>6, <1>7, <1>8, <1>9 DEF Cat

\* A packed message.
LEMMA PackedIs ==
    ASSUME NEW i \in 1..MaxMsgs, NEW len \in Lens
    PROVE  /\ Packed(i, len) \in Seq(Byte) /\ Len(Packed(i, len)) = len
           /\ len \in Nat \ {0} /\ Packed(i, len) # <<>>
           /\ \A k \in 1..len : Packed(i, len)[k] = <<i, k>>
<1>1. len \in Nat \ {0} /\ MaxMsgs \in Nat
  BY ConstantsAre
<1>2. Packed(i, len) \in [1..len -> Byte]
  BY <1>1 DEF Packed, Byte
<1>3. Packed(i, len) \in Seq(Byte) /\ Len(Packed(i, len)) = len
  BY <1>1, <1>2
<1>4. Packed(i, len) # <<>>
  BY <1>1, <1>3, EmptySeq
<1> QED BY <1>1, <1>3, <1>4 DEF Packed

\* What the kernel takes of some bytes, and what it leaves.
LEMMA TakenIs ==
    ASSUME NEW s \in Seq(Byte), room \in 0..MaxRoom
    PROVE  /\ Taken(s) \in 0..Len(s) /\ room - Taken(s) \in 0..MaxRoom
           /\ Len(s) \in Nat /\ Taken(s) \in Nat
<1>1. Len(s) \in Nat /\ room \in Nat /\ room <= MaxRoom /\ MaxRoom \in Nat
  BY LenProperties, ConstantsAre
<1> QED BY <1>1 DEF Taken

-----------------------------------------------------------------------------
(* Types.                                                                  *)

\* A thread in a call has something left of a message of its own.
RawRight ==
    \A t \in Threads : pc[t] \in InCall =>
        raw[t] # <<>> /\ \A j \in 1..Len(raw[t]) : raw[t][j][1] \in 1..Len(msgs)

Typed == TypeOK /\ RawRight

LEMMA CurrentIs ==
    ASSUME Typed, NEW t \in Threads, pc[t] \in InCall
    PROVE  Current(t) \in DOMAIN msgs /\ raw[t] \in Seq(Byte) /\ Len(raw[t]) \in Nat \ {0}
<1>1. raw[t] \in Seq(Byte) /\ raw[t] # <<>> /\ DOMAIN msgs = 1..Len(msgs)
  BY LenProperties DEF Typed, TypeOK, RawRight
<1>2. Len(raw[t]) \in Nat \ {0}
  BY <1>1, EmptySeq
<1> QED BY <1>1, <1>2 DEF Typed, RawRight, Current

LEMMA InitTyped == Init => Typed
<1> SUFFICES ASSUME Init PROVE Typed
  OBVIOUS
<1>1. \A S : <<>> \in Seq(S) /\ Len(<<>>) = 0
  BY EmptySeq
<1>2. 0 <= MaxMsgs /\ {} \subseteq DOMAIN msgs /\ 0 \in 0..0
  BY ConstantsAre
<1> QED BY <1>1, <1>2 DEF Init, Typed, TypeOK, RawRight, InCall, Labels

\* A message is packed.
LEMMA CmdTyped ==
    ASSUME Typed, NEW t \in Threads, NEW len \in Lens, NEW buffer \in Buffer,
           sendCmd(t, len, buffer)
    PROVE  /\ Typed' /\ Len(msgs') = Len(msgs) + 1 /\ Len(msgs) + 1 \in 1..MaxMsgs
           /\ msgs'[Len(msgs) + 1] = [by |-> t, len |-> len]
           /\ \A i \in 1..Len(msgs) : msgs'[i] = msgs[i]
           /\ raw'[t] = Packed(Len(msgs) + 1, len)
           /\ pc' = [pc EXCEPT ![t] = pc'[t]] /\ pc'[t] \in {"lock", "send"}
           /\ pc'[t] = "send" => tQueue = <<>>
<1> DEFINE n == Len(msgs) + 1
           g == [by |-> t, len |-> len]
<1>1. /\ msgs \in Seq(Message) /\ Len(msgs) \in Nat /\ MaxMsgs \in Nat
      /\ raw \in [Threads -> Seq(Byte)]
      /\ pc \in [Threads -> Labels]
  BY LenProperties, ConstantsAre DEF Typed, TypeOK, Message
<1>2. /\ Len(msgs) < MaxMsgs /\ msgs' = Append(msgs, g)
      /\ raw' = [raw EXCEPT ![t] = Packed(n, len)]
      /\ pc' = [pc EXCEPT ![t] = IF buffer \/ tQueue # <<>> THEN "lock" ELSE "send"]
      /\ UNCHANGED <<tQueue, m_lock, flip, overlap, accepted, wire, room, sock, broken>>
  BY DEF sendCmd, Goto
<1>3. n \in 1..MaxMsgs
  BY <1>1, <1>2
<1>4. g \in Message
  BY DEF Message
<1> HIDE DEF g
<1>5. /\ msgs' \in Seq(Message) /\ Len(msgs') = n /\ msgs'[n] = g
      /\ \A i \in 1..Len(msgs) : msgs'[i] = msgs[i]
  BY <1>1, <1>2, <1>4, AppendProperties
<1>6. /\ Packed(n, len) \in Seq(Byte) /\ Len(Packed(n, len)) = len
      /\ Packed(n, len) # <<>> /\ \A k \in 1..len : Packed(n, len)[k] = <<n, k>>
  BY <1>3, PackedIs
<1>7. /\ pc'[t] \in {"lock", "send"}
      /\ pc'[t] = "send" => tQueue = <<>>
      /\ pc' = [pc EXCEPT ![t] = pc'[t]]
      /\ pc' \in [Threads -> Labels]
  BY <1>1, <1>2 DEF Labels
<1>8. raw' \in [Threads -> Seq(Byte)] /\ raw'[t] = Packed(n, len)
  BY <1>1, <1>2, <1>6
<1>9. TypeOK'
  <2>1. accepted' \subseteq DOMAIN msgs'
    <3>1. accepted \subseteq 1..Len(msgs)
      BY <1>1, LenProperties DEF Typed, TypeOK
    <3>2. DOMAIN msgs' = 1..n
      BY <1>5, LenProperties
    <3>3. 1..Len(msgs) \subseteq 1..n
      BY <1>1
    <3> QED BY <1>2, <3>1, <3>2, <3>3
  <2>2. msgs' \in Seq([by : Threads, len : Lens]) /\ Len(msgs') <= MaxMsgs
    BY <1>3, <1>5 DEF Message
  <2> HIDE DEF n
  <2> QED BY <1>2, <1>7, <1>8, <2>1, <2>2 DEF Typed, TypeOK
<1>10. RawRight'
  <2> SUFFICES ASSUME NEW u \in Threads, pc'[u] \in InCall
               PROVE  /\ raw'[u] # <<>>
                      /\ \A j \in 1..Len(raw'[u]) : raw'[u][j][1] \in 1..Len(msgs')
    BY DEF RawRight
  <2>1. CASE u = t
    <3>1. \A k \in 1..len : raw'[t][k] = <<n, k>>
      BY <1>6, <1>8
    <3>2. n \in 1..n /\ Len(raw'[t]) = len /\ raw'[t] # <<>>
      BY <1>1, <1>6, <1>8
    <3> HIDE DEF n
    <3> QED BY <1>5, <2>1, <3>1, <3>2
  <2>2. CASE u # t
    <3>1. pc'[u] = pc[u] /\ raw'[u] = raw[u]
      BY <1>1, <1>2, <2>2
    <3>2. 1..Len(msgs) \subseteq 1..n
      BY <1>1
    <3> QED BY <1>5, <3>1, <3>2 DEF Typed, RawRight
  <2> QED BY <2>1, <2>2
<1> QED BY <1>3, <1>5, <1>7, <1>8, <1>9, <1>10 DEF Typed, g

\* A send: n bytes go to the kernel, what is left of them stays in raw.
LEMMA DirectSendTyped ==
    ASSUME Typed, NEW t \in Threads, DirectSend(t)
    PROVE  /\ Typed' /\ raw[t] = Cat(SubSeq(raw[t], 1, Taken(raw[t])), raw'[t])
           /\ SubSeq(raw[t], 1, Taken(raw[t])) \in Seq(Byte) /\ raw'[t] \in Seq(Byte)
           /\ \A j \in 1..Len(raw'[t]) : raw'[t][j][1] \in {raw[t][k][1] : k \in 1..Len(raw[t])}
           /\ \/ pc'[t] = "lock" /\ raw'[t] # <<>> /\ accepted' = accepted
              \/ pc'[t] = "idle" /\ raw'[t] = <<>> /\ accepted' = accepted \cup {Current(t)}
<1> DEFINE n == Taken(raw[t])
           a == SubSeq(raw[t], 1, n)
           b == SubSeq(raw[t], n + 1, Len(raw[t]))
<1>1. /\ pc \in [Threads -> Labels]
      /\ raw \in [Threads -> Seq(Byte)] /\ wire \in Seq(Byte) /\ room \in 0..MaxRoom
      /\ raw[t] \in Seq(Byte) /\ Len(raw[t]) \in Nat
  BY LenProperties DEF Typed, TypeOK
<1>2. /\ pc[t] = "send" /\ wire' = Cat(wire, a) /\ room' = room - n
      /\ raw' = [raw EXCEPT ![t] = b]
      /\ IF n < Len(raw[t])
         THEN pc' = [pc EXCEPT ![t] = "lock"] /\ accepted' = accepted
         ELSE pc' = [pc EXCEPT ![t] = "idle"] /\ accepted' = accepted \cup {Current(t)}
      /\ UNCHANGED <<msgs, tQueue, m_lock, flip, overlap, sock, broken>>
  BY <1>1 DEF DirectSend, Accept, Goto, Cat
<1>3. /\ n \in 0..Len(raw[t]) /\ n \in Nat /\ room - n \in 0..MaxRoom
  BY <1>1, TakenIs
<1>4. Current(t) \in DOMAIN msgs
  BY <1>2, CurrentIs DEF InCall
<1> HIDE DEF n
<1>5. /\ a \in Seq(Byte) /\ b \in Seq(Byte) /\ raw[t] = Cat(a, b)
      /\ Len(b) = Len(raw[t]) - n
      /\ \A k \in 1..(Len(raw[t]) - n) : b[k] = raw[t][n + k]
  BY <1>1, <1>3, SplitAt
<1> HIDE DEF a, b
<1>6. raw'[t] = b /\ raw' \in [Threads -> Seq(Byte)]
  BY <1>1, <1>2, <1>5
<1>7. pc' \in [Threads -> Labels]
  BY <1>1, <1>2 DEF Labels
<1>8. \A u \in Threads : u # t => pc'[u] = pc[u] /\ raw'[u] = raw[u]
  BY <1>1, <1>2
<1>9. \/ n < Len(raw[t]) /\ b # <<>>
      \/ ~(n < Len(raw[t])) /\ b = <<>>
  <2>1. CASE n < Len(raw[t])
    <3>1. Len(b) # 0
      BY <1>1, <1>3, <1>5, <2>1
    <3> QED BY <2>1, <3>1, EmptySeq
  <2>2. CASE ~(n < Len(raw[t]))
    <3>1. Len(raw[t]) \in Nat /\ n \in 0..Len(raw[t]) /\ Len(b) = Len(raw[t]) - n
      BY <1>1, <1>3, <1>5
    <3>2. Len(b) = 0
      BY <2>2, <3>1
    <3> QED BY <1>5, <2>2, <3>2, EmptySeq
  <2> QED BY <2>1, <2>2
<1>10. \/ pc'[t] = "lock" /\ b # <<>> /\ accepted' = accepted
       \/ pc'[t] = "idle" /\ b = <<>> /\ accepted' = accepted \cup {Current(t)}
  BY <1>1, <1>2, <1>9
<1>11. TypeOK'
  <2>1. wire' \in Seq(Byte)
    BY <1>1, <1>2, <1>5, CatProperties
  <2>2. accepted' \subseteq DOMAIN msgs
    BY <1>4, <1>10 DEF Typed, TypeOK
  <2> QED BY <1>2, <1>3, <1>6, <1>7, <2>1, <2>2 DEF Typed, TypeOK
<1>12. \A j \in 1..Len(b) : b[j][1] \in {raw[t][k][1] : k \in 1..Len(raw[t])}
  <2> TAKE j \in 1..Len(b)
  <2>1. n + j \in 1..Len(raw[t]) /\ j \in 1..(Len(raw[t]) - n)
    BY <1>1, <1>3, <1>5
  <2> QED BY <1>5, <2>1
<1>13. RawRight'
  <2> SUFFICES ASSUME NEW u \in Threads, pc'[u] \in InCall
               PROVE  /\ raw'[u] # <<>>
                      /\ \A j \in 1..Len(raw'[u]) : raw'[u][j][1] \in 1..Len(msgs)
    BY <1>2 DEF RawRight
  <2>1. CASE u = t
    <3>1. b # <<>>
      BY <1>10, <2>1 DEF InCall
    <3>2. \A k \in 1..Len(raw[t]) : raw[t][k][1] \in 1..Len(msgs)
      BY <1>2 DEF Typed, RawRight, InCall
    <3> QED BY <1>6, <1>12, <2>1, <3>1, <3>2
  <2>2. CASE u # t
    BY <1>8, <2>2 DEF Typed, RawRight
  <2> QED BY <2>1, <2>2
<1> QED BY <1>5, <1>6, <1>10, <1>11, <1>12, <1>13 DEF Typed, a, n

LEMMA ContinueTyped ==
    ASSUME Typed, NEW t \in Threads, Continue(t)
    PROVE  Typed'
<1>1. /\ pc \in [Threads -> Labels]
      /\ raw \in [Threads -> Seq(Byte)] /\ raw[t] \in Seq(Byte) /\ tQueue \in Seq(Byte)
      /\ Len(tQueue) \in Nat /\ Len(raw[t]) \in Nat /\ MaxMsgs \in Nat
  BY LenProperties, ConstantsAre DEF Typed, TypeOK
<1>2. CASE DirectSend(t)
  BY <1>2, DirectSendTyped
<1>3. CASE DirectFail(t) \/ PutBegin(t)
  <2>1. /\ \E l \in {"idle", "put"} :
              /\ pc' = [pc EXCEPT ![t] = l]
              /\ l = "put" => pc[t] = "lock"
        /\ sock' \in {sock, FALSE} /\ m_lock' \in {m_lock, t} /\ overlap' \in {overlap, FALSE}
        /\ UNCHANGED <<msgs, raw, tQueue, flip, accepted, wire, room, broken>>
    BY <1>3 DEF DirectFail, PutBegin, Goto
  <2>2. TypeOK'
    BY <1>1, <2>1 DEF Typed, TypeOK, Labels
  <2>3. \A u \in Threads : pc'[u] \in InCall => pc[u] \in InCall
    BY <1>1, <2>1 DEF InCall
  <2> QED BY <2>1, <2>2, <2>3 DEF Typed, RawRight
<1>4. CASE PutEnd(t)
  <2> DEFINE junk == [k \in 1..Len(raw[t]) |-> Junk]
  <2>1. /\ pc[t] = "put"
        /\ tQueue' \in {Cat(tQueue, raw[t]), Cat(tQueue, junk), tQueue}
        /\ accepted' = accepted \cup {Current(t)} /\ m_lock' = Free /\ overlap' = FALSE
        /\ pc' = [pc EXCEPT ![t] = "idle"]
        /\ UNCHANGED <<msgs, raw, flip, wire, room, sock, broken>>
    BY <1>4 DEF PutEnd, Goto, Cat
  <2>2. Current(t) \in DOMAIN msgs
    BY <2>1, CurrentIs DEF InCall
  <2>3. junk \in Seq(Byte)
    <3>1. Junk \in Byte
      BY <1>1 DEF Junk, Byte
    <3>2. junk \in [1..Len(raw[t]) -> Byte]
      BY <3>1
    <3> QED BY <1>1, <3>2
  <2> HIDE DEF junk
  <2>4. tQueue' \in Seq(Byte) /\ Len(tQueue') \in Nat /\ Len(tQueue') >= Len(tQueue)
    <3>1. CASE tQueue' = Cat(tQueue, raw[t])
      <4>1. tQueue' \in Seq(Byte) /\ Len(tQueue') = Len(tQueue) + Len(raw[t])
        BY <1>1, <3>1, CatProperties
      <4> QED BY <1>1, <4>1
    <3>2. CASE tQueue' = Cat(tQueue, junk)
      <4>1. tQueue' \in Seq(Byte) /\ Len(tQueue') = Len(tQueue) + Len(junk)
        BY <1>1, <2>3, <3>2, CatProperties
      <4>2. Len(junk) \in Nat
        BY <2>3, LenProperties
      <4> QED BY <1>1, <4>1, <4>2
    <3>3. CASE tQueue' = tQueue
      BY <1>1, <3>3
    <3> QED BY <2>1, <3>1, <3>2, <3>3
  <2>5. flip' \in 0..Len(tQueue')
    BY <1>1, <2>1, <2>4 DEF Typed, TypeOK
  <2>6. TypeOK'
    BY <1>1, <2>1, <2>2, <2>4, <2>5 DEF Typed, TypeOK, Labels
  <2>7. \A u \in Threads : pc'[u] \in InCall => pc[u] \in InCall
    BY <1>1, <2>1 DEF InCall
  <2> QED BY <2>1, <2>6, <2>7 DEF Typed, RawRight
<1> QED BY <1>2, <1>3, <1>4 DEF Continue

LEMMA OtherTyped ==
    ASSUME Typed, Loop \/ Drain \/ Break \/ UNCHANGED vars
    PROVE  Typed'
<1>1. /\ pc \in [Threads -> Labels]
      /\ raw \in [Threads -> Seq(Byte)] /\ tQueue \in Seq(Byte) /\ wire \in Seq(Byte)
      /\ Len(tQueue) \in Nat /\ room \in 0..MaxRoom /\ Owner \in Threads
      /\ MaxRoom \in Nat
  BY LenProperties, ConstantsAre DEF Typed, TypeOK
<1>2. CASE WaitSend \/ OwnerGone \/ SyncLock \/ SyncFail \/ Drain \/ Break \/ UNCHANGED vars
  <2>1. /\ pc' = pc \/ (\E l \in {"sync", "locked", "gone"} : pc' = [pc EXCEPT ![Owner] = l])
        /\ room' \in {room, MaxRoom} /\ broken' \in {broken, TRUE}
        /\ m_lock' \in {m_lock, Owner, Free}
        /\ UNCHANGED <<msgs, raw, tQueue, flip, overlap, accepted, wire, sock>>
    BY <1>2 DEF WaitSend, OwnerGone, SyncLock, SyncFail, Drain, Break, vars, Goto
  <2>2. TypeOK'
    <3>1. pc' \in [Threads -> Labels]
      BY <1>1, <2>1 DEF Labels
    <3>2. room' \in 0..MaxRoom
      BY <1>1, <2>1
    <3>3. broken' \in BOOLEAN
      BY <2>1 DEF Typed, TypeOK
    <3>4. m_lock' \in Threads \cup {Free}
      BY <1>1, <2>1 DEF Typed, TypeOK
    <3> QED BY <2>1, <3>1, <3>2, <3>3, <3>4 DEF Typed, TypeOK, Labels
  <2>3. \A u \in Threads : pc'[u] \in InCall => pc[u] \in InCall
    BY <1>1, <2>1 DEF InCall
  <2> QED BY <2>1, <2>2, <2>3 DEF Typed, RawRight
<1>3. CASE SyncSend
  <2> DEFINE n == Taken(tQueue)
  <2>1. /\ flip' = n /\ wire' = Cat(wire, SubSeq(tQueue, 1, n)) /\ room' = room - n
        /\ \E l \in {"flip", "idle"} : pc' = [pc EXCEPT ![Owner] = l]
        /\ m_lock' = Free
        /\ UNCHANGED <<msgs, raw, tQueue, overlap, accepted, sock, broken>>
    BY <1>3 DEF SyncSend, Accept, Goto, Cat
  <2>2. n \in 0..Len(tQueue) /\ room - n \in 0..MaxRoom
    BY <1>1, TakenIs
  <2> HIDE DEF n
  <2>3. wire' \in Seq(Byte)
    <3>1. SubSeq(tQueue, 1, n) \in Seq(Byte)
      BY <1>1, <2>2, SplitAt
    <3> QED BY <1>1, <2>1, <3>1, CatProperties
  <2>4. TypeOK'
    BY <1>1, <2>1, <2>2, <2>3 DEF Typed, TypeOK, Labels
  <2>5. \A u \in Threads : pc'[u] \in InCall => pc[u] \in InCall
    BY <1>1, <2>1 DEF InCall
  <2> QED BY <2>1, <2>4, <2>5 DEF Typed, RawRight
<1>4. CASE SyncFlip
  <2>1. /\ tQueue' = SubSeq(tQueue, flip + 1, Len(tQueue)) /\ flip' = 0
        /\ overlap' = (m_lock # Free) /\ pc' = [pc EXCEPT ![Owner] = "idle"]
        /\ UNCHANGED <<msgs, raw, m_lock, accepted, wire, room, sock, broken>>
    BY <1>4 DEF SyncFlip, Goto
  <2>2. flip \in 0..Len(tQueue)
    BY DEF Typed, TypeOK
  <2>3. tQueue' \in Seq(Byte) /\ Len(tQueue') \in Nat
    BY <1>1, <2>1, <2>2, SplitAt, LenProperties
  <2>4. flip' \in 0..Len(tQueue') /\ overlap' \in BOOLEAN
    BY <2>1, <2>3
  <2>5. TypeOK'
    BY <1>1, <2>1, <2>3, <2>4 DEF Typed, TypeOK, Labels
  <2>6. \A u \in Threads : pc'[u] \in InCall => pc[u] \in InCall
    BY <1>1, <2>1 DEF InCall
  <2> QED BY <2>1, <2>5, <2>6 DEF Typed, RawRight
<1> QED BY <1>2, <1>3, <1>4 DEF Loop

LEMMA TypedStep == Typed /\ [Next]_vars => Typed'
<1> SUFFICES ASSUME Typed, [Next]_vars PROVE Typed'
  OBVIOUS
<1>1. ASSUME NEW t \in Threads, NEW len \in Lens, NEW buffer \in Buffer,
             sendCmd(t, len, buffer)
      PROVE  Typed'
  BY <1>1, CmdTyped
<1>2. ASSUME NEW t \in Threads, Continue(t) PROVE Typed'
  BY <1>2, ContinueTyped
<1> QED BY <1>1, <1>2, OtherTyped DEF Next

\* Type correctness, for any number of threads.
THEOREM SendTypeCorrect == Spec => []TypeOK
<1>1. Typed => TypeOK
  BY DEF Typed
<1> QED BY <1>1, InitTyped, TypedStep, PTL DEF Spec

-----------------------------------------------------------------------------
(* Messages one behind the other.                                          *)

\* The bytes s are messages of m, one behind the other: a message goes on until
\* it is whole, then a later one begins, and no byte is there twice. It is said
\* of any two of them, and not only of neighbours, so that it can be used
\* without counting from one to the other.
Run(s, m) ==
    /\ \A j \in 1..Len(s) : s[j][1] \in 1..Len(m) /\ s[j][2] \in 1..m[s[j][1]].len
    /\ \A j, l \in 1..Len(s) : j < l =>
          LET k == s[j][2] + (l - j)
          IN  /\ k <= m[s[j][1]].len => s[l] = <<s[j][1], k>>
              /\ k = m[s[j][1]].len + 1 => s[l][2] = 1
              /\ s[j][1] <= s[l][1] /\ s[j] # s[l]

\* They begin with a message and end with one; message i is among them.
Begins(s) == s # <<>> => s[1][2] = 1
Ends(s, m) == s # <<>> => s[Len(s)][2] = m[s[Len(s)][1]].len
Complete(s, m, i) == \A k \in 1..m[i].len : \E j \in 1..Len(s) : s[j] = <<i, k>>

\* What comes before a place is a run itself.
LEMMA RunSplit ==
    ASSUME NEW m, NEW s \in Seq(Byte), NEW t \in Seq(Byte), Run(Cat(s, t), m)
    PROVE  Run(s, m) /\ (Begins(Cat(s, t)) => Begins(s))
<1>1. /\ Cat(s, t) \in Seq(Byte) /\ Len(Cat(s, t)) = Len(s) + Len(t)
      /\ \A i \in 1..(Len(s) + Len(t)) :
            Cat(s, t)[i] = IF i <= Len(s) THEN s[i] ELSE t[i - Len(s)]
  BY CatProperties
<1>2. Len(s) \in Nat /\ Len(t) \in Nat
  BY LenProperties
<1>3. \A i \in 1..Len(s) : i \in 1..Len(Cat(s, t)) /\ Cat(s, t)[i] = s[i]
  BY <1>1, <1>2
<1>4. Run(s, m)
  <2>1. \A j \in 1..Len(s) : s[j][1] \in 1..Len(m) /\ s[j][2] \in 1..m[s[j][1]].len
    BY <1>3 DEF Run
  <2>2. ASSUME NEW j \in 1..Len(s), NEW l \in 1..Len(s), j < l
        PROVE  LET k == s[j][2] + (l - j)
               IN  /\ k <= m[s[j][1]].len => s[l] = <<s[j][1], k>>
                   /\ k = m[s[j][1]].len + 1 => s[l][2] = 1
                   /\ s[j][1] <= s[l][1] /\ s[j] # s[l]
    <3> DEFINE c == Cat(s, t)
    <3>1. j \in 1..Len(c) /\ l \in 1..Len(c) /\ c[j] = s[j] /\ c[l] = s[l]
      BY <1>3
    <3>2. Run(c, m)
      OBVIOUS
    <3> HIDE DEF c
    <3>3. LET k == c[j][2] + (l - j)
          IN  /\ k <= m[c[j][1]].len => c[l] = <<c[j][1], k>>
              /\ k = m[c[j][1]].len + 1 => c[l][2] = 1
              /\ c[j][1] <= c[l][1] /\ c[j] # c[l]
      BY <2>2, <3>1, <3>2 DEF Run
    <3> QED BY <3>1, <3>3
  <2> QED BY <2>1, <2>2 DEF Run
<1>5. s # <<>> => 1 \in 1..Len(s) /\ Cat(s, t) # <<>>
  <2>1. s # <<>> => Len(s) >= 1
    BY <1>2, EmptySeq
  <2>2. s # <<>> => Len(Cat(s, t)) # 0
    BY <1>1, <1>2, <2>1
  <2> QED BY <1>2, <2>1, <2>2, EmptySeq
<1> QED BY <1>3, <1>4, <1>5 DEF Begins

\* A message is complete before a place if it is complete and not behind it.
LEMMA CompleteBefore ==
    ASSUME NEW m, NEW i, NEW s \in Seq(Byte), NEW t \in Seq(Byte),
           Complete(Cat(s, t), m, i), \A j \in 1..Len(t) : t[j][1] # i
    PROVE  Complete(s, m, i)
<1>1. /\ Len(Cat(s, t)) = Len(s) + Len(t)
      /\ \A j \in 1..(Len(s) + Len(t)) :
            Cat(s, t)[j] = IF j <= Len(s) THEN s[j] ELSE t[j - Len(s)]
  BY CatProperties
<1>2. Len(s) \in Nat /\ Len(t) \in Nat
  BY LenProperties
<1> SUFFICES ASSUME NEW k \in 1..m[i].len PROVE \E j \in 1..Len(s) : s[j] = <<i, k>>
  BY DEF Complete
<1>3. PICK j \in 1..(Len(s) + Len(t)) : Cat(s, t)[j] = <<i, k>>
  BY <1>1 DEF Complete
<1>4. j <= Len(s)
  <2> SUFFICES ASSUME ~(j <= Len(s)) PROVE FALSE
    OBVIOUS
  <2>1. j - Len(s) \in 1..Len(t)
    BY <1>2
  <2>2. t[j - Len(s)] = <<i, k>>
    BY <1>1, <1>3
  <2> QED BY <2>1, <2>2
<1>5. j \in 1..Len(s) /\ s[j] = <<i, k>>
  BY <1>1, <1>2, <1>3, <1>4
<1> QED BY <1>5

\* A run that ends with a message may go on with a new one.
LEMMA RunGrows ==
    ASSUME NEW m \in Seq(Message), NEW s \in Seq(Byte), NEW g \in Message,
           Len(m) + 1 \in 1..MaxMsgs, Run(s, m), Begins(s), Ends(s, m)
    PROVE  LET p == Packed(Len(m) + 1, g.len)
               u == Cat(s, p)
               h == Append(m, g)
           IN  /\ Run(u, h) /\ Begins(u) /\ Ends(u, h) /\ Complete(u, h, Len(m) + 1)
               /\ Ends(s, h)
               /\ \A i \in 1..Len(m) : Complete(s, m, i) => Complete(u, h, i)
<1> DEFINE n == Len(m) + 1
           p == Packed(n, g.len)
           u == Cat(s, p)
           h == Append(m, g)
<1>1. /\ Len(m) \in Nat /\ Len(s) \in Nat /\ n \in Nat /\ n \in 1..MaxMsgs
      /\ g.len \in Lens /\ \A i \in 1..Len(m) : i < n /\ i \in 1..n
  BY LenProperties DEF Message
<1>2. /\ p \in Seq(Byte) /\ Len(p) = g.len /\ g.len \in Nat \ {0} /\ p # <<>>
      /\ \A k \in 1..g.len : p[k] = <<n, k>>
  BY <1>1, PackedIs
<1>3. /\ Len(h) = n /\ h[n] = g /\ \A i \in 1..Len(m) : h[i] = m[i]
  BY AppendProperties
<1>4. \A i \in 1..Len(m) : m[i].len \in Nat
  <2> TAKE i \in 1..Len(m)
  <2>1. m[i] \in Message
    BY ElementOfSeq
  <2>2. m[i].len \in Lens
    BY <2>1 DEF Message
  <2>3. Lens \subseteq Nat
    BY ConstantsAre
  <2> QED BY <2>2, <2>3
<1>5. /\ u \in Seq(Byte) /\ Len(u) = Len(s) + Len(p)
      /\ \A i \in 1..Len(u) : u[i] = IF i <= Len(s) THEN s[i] ELSE p[i - Len(s)]
  BY <1>2, CatProperties
<1>6. \A j \in 1..Len(s) : s[j][1] \in 1..Len(m) /\ s[j][2] \in 1..m[s[j][1]].len
  BY DEF Run
<1> HIDE DEF n, p, u, h
<1>7. \A j \in 1..Len(s) : j \in 1..Len(u) /\ u[j] = s[j]
  <2> TAKE j \in 1..Len(s)
  <2>1. j \in 1..(Len(s) + Len(p)) /\ j <= Len(s)
    BY <1>1, <1>2
  <2> QED BY <1>5, <2>1
<1>8. \A j \in 1..Len(u) : j \notin 1..Len(s) =>
         j - Len(s) \in 1..g.len /\ u[j] = <<n, j - Len(s)>>
  <2> SUFFICES ASSUME NEW j \in 1..Len(u), j \notin 1..Len(s)
               PROVE  j - Len(s) \in 1..g.len /\ u[j] = <<n, j - Len(s)>>
    OBVIOUS
  <2>1. j > Len(s) /\ j - Len(s) \in 1..g.len
    BY <1>1, <1>2, <1>5
  <2>2. u[j] = p[j - Len(s)]
    BY <1>1, <1>5, <2>1
  <2> QED BY <1>2, <2>1, <2>2
<1>9. \A j \in 1..Len(u) : u[j][1] \in 1..Len(h) /\ u[j][2] \in 1..h[u[j][1]].len
  <2> TAKE j \in 1..Len(u)
  <2>1. CASE j \in 1..Len(s)
    BY <2>1, <1>1, <1>3, <1>6, <1>7
  <2>2. CASE j \notin 1..Len(s)
    <3>1. u[j][1] = n /\ u[j][2] \in 1..g.len
      BY <1>8, <2>2
    <3> QED BY <1>1, <1>3, <3>1
  <2> QED BY <2>1, <2>2
<1>10. ASSUME NEW j \in 1..Len(u), NEW l \in 1..Len(u), j < l
       PROVE  LET k == u[j][2] + (l - j)
              IN  /\ k <= h[u[j][1]].len => u[l] = <<u[j][1], k>>
                  /\ k = h[u[j][1]].len + 1 => u[l][2] = 1
                  /\ u[j][1] <= u[l][1] /\ u[j] # u[l]
  <2>1. CASE l \in 1..Len(s)
    <3>1. j \in 1..Len(s)
      BY <1>1, <1>10, <2>1
    <3>2. LET k == s[j][2] + (l - j)
          IN  /\ k <= m[s[j][1]].len => s[l] = <<s[j][1], k>>
              /\ k = m[s[j][1]].len + 1 => s[l][2] = 1
              /\ s[j][1] <= s[l][1] /\ s[j] # s[l]
      BY <1>10, <2>1, <3>1 DEF Run
    <3>3. u[j] = s[j] /\ u[l] = s[l] /\ h[s[j][1]] = m[s[j][1]]
      BY <1>3, <1>6, <1>7, <2>1, <3>1
    <3> QED BY <3>2, <3>3
  <2>2. CASE j \notin 1..Len(s)
    <3>1. l \notin 1..Len(s)
      BY <1>1, <1>10, <2>2
    <3>2. /\ u[j] = <<n, j - Len(s)>> /\ u[l] = <<n, l - Len(s)>>
          /\ j - Len(s) \in 1..g.len /\ l - Len(s) \in 1..g.len
      BY <1>8, <2>2, <3>1
    <3>3. /\ (j - Len(s)) + (l - j) = l - Len(s) /\ l - Len(s) <= g.len
          /\ j - Len(s) # l - Len(s)
      BY <1>1, <1>2, <1>10, <3>2
    <3>4. /\ u[j][1] = n /\ u[j][2] = j - Len(s) /\ u[l][1] = n /\ h[n].len = g.len
          /\ u[j] # u[l]
      BY <1>3, <3>2, <3>3
    <3>5. /\ u[j][2] + (l - j) = l - Len(s) /\ l - Len(s) <= h[n].len
          /\ u[l] = <<u[j][1], l - Len(s)>> /\ u[j][1] <= u[l][1]
      BY <1>1, <3>2, <3>3, <3>4
    <3>6. l - Len(s) # h[n].len + 1
      <4>1. g.len \in Nat /\ h[n].len = g.len /\ l - Len(s) \in 1..g.len
        BY <1>2, <3>2, <3>4
      <4> DEFINE x == g.len
                 y == l - Len(s)
      <4>2. x \in Nat /\ y \in 1..x
        BY <4>1
      <4> HIDE DEF x, y
      <4>3. y # x + 1
        BY <4>2
      <4> QED BY <4>1, <4>3 DEF x, y
    <3> QED BY <3>4, <3>5, <3>6
  <2>3. CASE j \in 1..Len(s) /\ l \notin 1..Len(s)
    <3> DEFINE i == s[j][1]
               a == s[j][2] + (Len(s) - j)
               d == l - Len(s)
    <3>1. u[l] = <<n, d>> /\ d \in 1..g.len /\ u[j] = s[j]
      BY <1>7, <1>8, <2>3
    <3>2. i \in 1..Len(m) /\ s[j][2] \in 1..m[i].len /\ h[i] = m[i] /\ i < n /\ m[i].len \in Nat
      BY <1>1, <1>3, <1>4, <1>6, <2>3
    <3>3. a \in Nat /\ d \in Nat /\ d >= 1 /\ s[j][2] + (l - j) = a + d
      <4>1. /\ j \in 1..Len(s) /\ Len(s) \in Nat /\ l \in Nat
            /\ s[j][2] \in Nat /\ d \in Nat \ {0} /\ d = l - Len(s)
        <5>1. j \in 1..Len(s) /\ Len(s) \in Nat /\ l \in Nat /\ d = l - Len(s)
          BY <1>1, <2>3
        <5>2. s[j][2] \in Nat
          BY <3>2
        <5> HIDE DEF d
        <5>3. d \in Nat \ {0}
          BY <1>2, <3>1
        <5> QED BY <5>1, <5>2, <5>3
      <4>2. Len(s) - j \in Nat /\ (Len(s) - j) + d = l - j
        BY <4>1
      <4> DEFINE b == s[j][2]
      <4>3. b \in Nat /\ a = b + (Len(s) - j)
        BY <4>1
      <4> HIDE DEF a, b, d
      <4>4. a \in Nat /\ d \in Nat /\ d >= 1 /\ b + (l - j) = a + d
        BY <4>1, <4>2, <4>3
      <4> QED BY <4>4 DEF b
    <3>4. a >= m[i].len
      <4>1. CASE j = Len(s)
        <5>1. s # <<>>
          BY <2>3, EmptySeq
        <5>2. s[j][2] = m[i].len
          BY <4>1, <5>1 DEF Ends
        <5>3. a = m[i].len + (Len(s) - j) /\ Len(s) - j = 0
          BY <1>1, <4>1, <5>2
        <5> QED BY <3>2, <5>3
      <4>2. CASE j # Len(s)
        <5>1. j < Len(s) /\ Len(s) \in 1..Len(s) /\ s # <<>>
          BY <1>1, <2>3, <4>2, EmptySeq
        <5>2. a <= m[i].len => s[Len(s)] = <<i, a>>
          BY <2>3, <5>1 DEF Run
        <5>3. a <= m[i].len => a = m[i].len
          BY <5>1, <5>2 DEF Ends
        <5> HIDE DEF a, i
        <5> QED BY <3>2, <3>3, <5>3
      <4> QED BY <4>1, <4>2
    <3>5. u[j][1] = i /\ u[j][2] = s[j][2] /\ u[l][1] = n /\ u[l][2] = d
      BY <3>1
    <3> HIDE DEF a, d, i
    <3>6. ~(a + d <= m[i].len) /\ (a + d = m[i].len + 1 => d = 1)
      <4> DEFINE x == m[i].len
      <4>1. a \in Nat /\ d \in Nat /\ d >= 1 /\ x \in Nat /\ a >= x
        BY <3>2, <3>3, <3>4
      <4> HIDE DEF x
      <4>2. ~(a + d <= x) /\ (a + d = x + 1 => d = 1)
        BY <4>1
      <4> QED BY <4>2 DEF x
    <3>7. i <= n /\ u[j] # u[l]
      <4>1. i # n /\ i <= n
        BY <1>1, <3>2
      <4> QED BY <3>5, <4>1
    <3> QED BY <3>2, <3>3, <3>5, <3>6, <3>7
  <2> QED BY <2>1, <2>2, <2>3
<1>11. Run(u, h)
  BY <1>9, <1>10 DEF Run
<1>12. Ends(u, h)
  <2>1. Len(u) \in 1..Len(u) /\ Len(u) \notin 1..Len(s) /\ Len(u) - Len(s) = g.len
    BY <1>1, <1>2, <1>5
  <2>2. u[Len(u)] = <<n, g.len>>
    BY <1>8, <2>1
  <2> QED BY <1>3, <2>2 DEF Ends
<1>13. Begins(u)
  <2>1. CASE s = <<>>
    <3>1. Len(s) = 0
      BY <2>1, EmptySeq
    <3>2. 1 \in 1..Len(u) /\ 1 \notin 1..Len(s) /\ 1 - Len(s) = 1
      BY <1>2, <1>5, <3>1
    <3>3. u[1] = <<n, 1>>
      BY <1>8, <3>2
    <3> QED BY <3>3 DEF Begins
  <2>2. CASE s # <<>>
    <3>1. 1 \in 1..Len(s)
      BY <1>1, <2>2, EmptySeq
    <3> QED BY <1>7, <2>2, <3>1 DEF Begins
  <2> QED BY <2>1, <2>2
<1>14. Complete(u, h, n)
  <2> SUFFICES ASSUME NEW k \in 1..g.len PROVE \E j \in 1..Len(u) : u[j] = <<n, k>>
    BY <1>3 DEF Complete
  <2> DEFINE j == Len(s) + k
  <2>1. j \in 1..Len(u) /\ j \notin 1..Len(s) /\ j - Len(s) = k
    BY <1>1, <1>2, <1>5
  <2> QED BY <1>8, <2>1
<1>15. Ends(s, h)
  <2> SUFFICES ASSUME s # <<>> PROVE s[Len(s)][2] = h[s[Len(s)][1]].len
    BY DEF Ends
  <2>1. Len(s) \in 1..Len(s)
    BY <1>1, EmptySeq
  <2>2. h[s[Len(s)][1]] = m[s[Len(s)][1]]
    BY <1>3, <1>6, <2>1
  <2> QED BY <2>2 DEF Ends
<1>16. \A i \in 1..Len(m) : Complete(s, m, i) => Complete(u, h, i)
  BY <1>3, <1>7 DEF Complete
<1> QED BY <1>11, <1>12, <1>13, <1>14, <1>15, <1>16 DEF n, p, u, h

-----------------------------------------------------------------------------
(* The invariant.                                                          *)

\* What is on the wire or waits to be; with what is left of the message the owner
\* is sending it is all that is not lost.
Ready == Cat(wire, Waiting)
Going == IF pc[Owner] \in InCall THEN raw[Owner] ELSE <<>>
All == Cat(Ready, Going)

\* As long as only the owner has sent: nobody is in the way of its calls, and what
\* is not lost are its messages, in order and to the end of the last one.
Alone ==
    /\ \A t \in Threads : t # Owner => pc[t] = "idle"
    /\ ~overlap /\ m_lock = (IF pc[Owner] \in {"put", "locked"} THEN Owner ELSE Free)
    /\ pc[Owner] # "flip" => flip = 0
    /\ Run(All, msgs) /\ Begins(All) /\ Ends(All, msgs)
    /\ \A i \in accepted : Complete(All, msgs, i)
    /\ pc[Owner] \in InCall =>
          /\ Len(msgs) \notin accepted /\ Complete(All, msgs, Len(msgs))
          /\ \A j \in 1..Len(raw[Owner]) : raw[Owner][j][1] = Len(msgs)
    /\ pc[Owner] = "send" => tQueue = <<>> /\ Ends(wire, msgs)

SendInv == Typed /\ (OwnerAlone => Alone)

LEMMA NothingFlipped == \A q \in Seq(Byte) : SubSeq(q, 0 + 1, Len(q)) = q
<1> TAKE q \in Seq(Byte)
<1>1. SubSeq(q, 1, Len(q)) = q
  BY SubSeqFull
<1> QED BY <1>1

\* The places the bytes are in.
LEMMA PlacesAre ==
    ASSUME Typed
    PROVE  /\ wire \in Seq(Byte) /\ tQueue \in Seq(Byte) /\ raw[Owner] \in Seq(Byte)
           /\ Waiting \in Seq(Byte) /\ Ready \in Seq(Byte)
           /\ Going \in Seq(Byte) /\ All \in Seq(Byte)
           /\ flip = 0 => Waiting = tQueue
           /\ flip = 0 /\ tQueue = <<>> => Ready = wire
<1>1. /\ wire \in Seq(Byte) /\ tQueue \in Seq(Byte) /\ raw[Owner] \in Seq(Byte)
      /\ flip \in 0..Len(tQueue) /\ <<>> \in Seq(Byte)
  BY ConstantsAre, EmptySeq DEF Typed, TypeOK
<1>2. Waiting \in Seq(Byte)
  BY <1>1, SplitAt DEF Waiting
<1>3. Ready \in Seq(Byte)
  BY <1>1, <1>2, CatProperties DEF Ready
<1>4. Going \in Seq(Byte)
  BY <1>1 DEF Going
<1>5. All \in Seq(Byte)
  BY <1>3, <1>4, CatProperties DEF All
<1>6. flip = 0 => Waiting = tQueue
  BY <1>1, NothingFlipped DEF Waiting
<1>7. flip = 0 /\ tQueue = <<>> => Ready = wire
  BY <1>1, <1>6, CatEmpty DEF Ready
<1> QED BY <1>1, <1>2, <1>3, <1>4, <1>5, <1>6, <1>7

LEMMA InitSendInv == Init => SendInv
<1> SUFFICES ASSUME Init PROVE SendInv
  OBVIOUS
<1>1. Typed
  BY InitTyped
<1>2. pc = [t \in Threads |-> "idle"] /\ Owner \in Threads
  BY ConstantsAre DEF Init
<1>3. All = <<>>
  <2>1. flip = 0 /\ tQueue = <<>> /\ wire = <<>>
    BY DEF Init
  <2>2. Ready = <<>>
    BY <1>1, <2>1, PlacesAre
  <2>3. Going = <<>>
    BY <1>2 DEF Going, InCall
  <2> QED BY <1>1, <2>2, <2>3, PlacesAre, CatEmpty DEF All
<1>4. Run(<<>>, msgs)
  <2>1. 1..Len(<<>>) = {}
    BY EmptySeq
  <2> QED BY <2>1 DEF Run
<1> QED BY <1>1, <1>2, <1>3, <1>4 DEF Init, SendInv, Alone, Begins, Ends, InCall

\* Bytes that only change their place.
LEMMA AloneKept ==
    ASSUME Alone, UNCHANGED <<msgs, accepted>>, All' = All,
           \A t \in Threads : t # Owner => pc'[t] = pc[t],
           ~overlap', m_lock' = (IF pc'[Owner] \in {"put", "locked"} THEN Owner ELSE Free),
           pc'[Owner] # "flip" => flip' = 0,
           pc'[Owner] \in InCall => pc[Owner] \in InCall /\ raw'[Owner] = raw[Owner],
           pc'[Owner] = "send" => pc[Owner] = "send" /\ UNCHANGED <<tQueue, wire>>
    PROVE  Alone'
<1>1. \A t \in Threads : t # Owner => pc'[t] = "idle"
  BY DEF Alone
<1>2. Run(All', msgs') /\ Begins(All') /\ Ends(All', msgs')
  BY DEF Alone
<1>3. \A i \in accepted' : Complete(All', msgs', i)
  BY DEF Alone
<1>4. pc'[Owner] \in InCall =>
          /\ Len(msgs') \notin accepted' /\ Complete(All', msgs', Len(msgs'))
          /\ \A j \in 1..Len(raw'[Owner]) : raw'[Owner][j][1] = Len(msgs')
  BY DEF Alone
<1>5. pc'[Owner] = "send" => tQueue' = <<>> /\ Ends(wire', msgs')
  BY DEF Alone
<1> QED BY <1>1, <1>2, <1>3, <1>4, <1>5 DEF Alone

\* The owner begins a call.
LEMMA CmdAlone ==
    ASSUME SendInv, NEW t \in Threads, NEW len \in Lens, NEW buffer \in Buffer,
           sendCmd(t, len, buffer), OwnerAlone'
    PROVE  Alone'
<1> DEFINE n == Len(msgs) + 1
           g == [by |-> t, len |-> len]
           p == Packed(n, g.len)
<1>1. /\ Typed /\ msgs \in Seq(Message) /\ Len(msgs) \in Nat
      /\ pc \in [Threads -> Labels]
      /\ accepted \subseteq 1..Len(msgs) /\ DOMAIN msgs = 1..Len(msgs) /\ Owner \in Threads
  BY LenProperties, ConstantsAre DEF SendInv, Typed, TypeOK, Message
<1>2. /\ Typed' /\ Len(msgs') = n /\ n \in 1..MaxMsgs
      /\ msgs'[n] = g
      /\ \A i \in 1..Len(msgs) : msgs'[i] = msgs[i]
      /\ raw'[t] = p /\ pc'[t] \in {"lock", "send"}
      /\ pc' = [pc EXCEPT ![t] = pc'[t]]
  BY <1>1, CmdTyped
<1>2a. pc'[t] = "send" => tQueue = <<>>
  BY <1>1, CmdTyped
<1>3. /\ pc[t] = "idle" /\ msgs' = Append(msgs, g)
      /\ UNCHANGED <<tQueue, m_lock, flip, overlap, accepted, wire, room, sock, broken>>
  BY DEF sendCmd
<1>4. g \in Message /\ g.by = t
  BY DEF Message
<1> HIDE DEF g
<1>5. t = Owner /\ OwnerAlone
  <2>1. DOMAIN msgs' = 1..n
    <3>1. msgs' \in Seq(Message)
      BY <1>2 DEF Typed, TypeOK, Message
    <3> QED BY <1>2, <3>1, LenProperties
  <2>2. n \in 1..n /\ 1..Len(msgs) \subseteq 1..n
    BY <1>1
  <2> HIDE DEF n
  <2> QED BY <1>1, <1>2, <1>4, <2>1, <2>2 DEF OwnerAlone
<1>6. Alone
  BY <1>5 DEF SendInv
<1>7. flip = 0 /\ m_lock = Free /\ ~overlap
  BY <1>3, <1>5, <1>6 DEF Alone
<1>8. Ready \in Seq(Byte) /\ wire \in Seq(Byte) /\ All = Ready /\ All' = Cat(Ready, p)
  <2>1. Going = <<>> /\ Going' = p
    BY <1>2, <1>3, <1>5 DEF Going, InCall
  <2>2. Ready' = Ready
    BY <1>3 DEF Ready, Waiting
  <2>3. Ready \in Seq(Byte) /\ wire \in Seq(Byte)
    BY <1>1, PlacesAre
  <2> QED BY <2>1, <2>2, <2>3, CatEmpty DEF All
<1>9. Run(Ready, msgs) /\ Begins(Ready) /\ Ends(Ready, msgs)
  BY <1>6, <1>8 DEF Alone
<1>10. /\ Run(All', msgs') /\ Begins(All') /\ Ends(All', msgs') /\ Complete(All', msgs', n)
       /\ Ends(Ready, msgs')
       /\ \A i \in 1..Len(msgs) : Complete(Ready, msgs, i) => Complete(All', msgs', i)
  BY <1>1, <1>2, <1>3, <1>4, <1>8, <1>9, RunGrows
<1>11. \A i \in accepted' : Complete(All', msgs', i)
  BY <1>1, <1>3, <1>6, <1>8, <1>10 DEF Alone
<1>12. n \notin accepted'
  BY <1>1, <1>3
<1>13. \A j \in 1..Len(raw'[Owner]) : raw'[Owner][j][1] = n
  <2>1. g.len \in Lens
    BY <1>4 DEF Message
  <2>2. Len(p) = g.len /\ \A k \in 1..g.len : p[k] = <<n, k>>
    BY <1>2, <2>1, PackedIs
  <2> QED BY <1>2, <1>5, <2>2
<1>14. pc'[Owner] = "send" => tQueue' = <<>> /\ Ends(wire', msgs')
  <2> SUFFICES ASSUME pc'[Owner] = "send" PROVE tQueue' = <<>> /\ Ends(wire', msgs')
    OBVIOUS
  <2>1. tQueue = <<>>
    BY <1>2a, <1>5
  <2>2. Ready = wire
    BY <1>1, <1>7, <2>1, PlacesAre
  <2> QED BY <1>3, <1>10, <2>1, <2>2
<1>15. \A u \in Threads : u # Owner => pc'[u] = "idle"
  BY <1>1, <1>2, <1>5, <1>6 DEF Alone
<1>16. pc'[Owner] \in {"lock", "send"}
  BY <1>2, <1>5
<1> HIDE DEF n
<1> QED BY <1>2, <1>3, <1>7, <1>10, <1>11, <1>12, <1>13, <1>14, <1>15, <1>16 DEF Alone

\* The kernel takes some of the message; the rest is still to be put.
LEMMA DirectSendAlone ==
    ASSUME SendInv, Alone, NEW t \in Threads, DirectSend(t)
    PROVE  Alone'
<1> DEFINE a == SubSeq(raw[t], 1, Taken(raw[t]))
           r == raw[t]
<1>1. /\ Typed
      /\ pc \in [Threads -> Labels]
  BY DEF SendInv, Typed, TypeOK
<1>2. /\ pc[t] = "send" /\ wire' = Cat(wire, a)
      /\ \E l \in {"lock", "idle"} : pc' = [pc EXCEPT ![t] = l]
      /\ UNCHANGED <<msgs, tQueue, m_lock, flip, overlap, sock, broken>>
  BY DEF DirectSend, Accept, Goto, Cat
<1>3. t = Owner
  BY <1>2 DEF Alone
<1>4. /\ r = Cat(a, raw'[t]) /\ a \in Seq(Byte) /\ raw'[t] \in Seq(Byte)
      /\ \A j \in 1..Len(raw'[t]) : raw'[t][j][1] \in {r[k][1] : k \in 1..Len(r)}
      /\ \/ pc'[t] = "lock" /\ raw'[t] # <<>> /\ accepted' = accepted
         \/ pc'[t] = "idle" /\ raw'[t] = <<>> /\ accepted' = accepted \cup {Current(t)}
  BY <1>1, DirectSendTyped
<1> HIDE DEF a
<1>5. tQueue = <<>> /\ flip = 0 /\ m_lock = Free /\ ~overlap
  BY <1>2, <1>3 DEF Alone
<1>6. /\ Len(msgs) \notin accepted /\ Complete(All, msgs, Len(msgs))
      /\ \A j \in 1..Len(r) : r[j][1] = Len(msgs)
  BY <1>2, <1>3 DEF Alone, InCall
<1>7. Current(t) = Len(msgs)
  <2>1. Len(r) \in Nat \ {0}
    BY <1>1, <1>2, CurrentIs DEF InCall
  <2>2. 1 \in 1..Len(r)
    BY <2>1
  <2> QED BY <1>6, <2>2 DEF Current
<1>8. All' = All
  <2>1. wire \in Seq(Byte) /\ Ready = wire /\ <<>> \in Seq(Byte)
    BY <1>1, <1>5, PlacesAre, EmptySeq
  <2>2. All = Cat(wire, r)
    BY <1>2, <1>3, <2>1 DEF All, Going, InCall
  <2>3. Going' = raw'[t]
    BY <1>3, <1>4 DEF Going, InCall
  <2>4. Waiting' = <<>>
    BY <1>2, <1>5, <2>1, NothingFlipped DEF Waiting
  <2>5. Ready' = wire'
    <3>1. wire' \in Seq(Byte)
      BY <1>2, <1>4, <2>1, CatProperties
    <3> QED BY <2>4, <3>1, CatEmpty DEF Ready
  <2>6. All' = Cat(Cat(wire, a), raw'[t])
    BY <1>2, <2>3, <2>5 DEF All
  <2>7. Cat(Cat(wire, a), raw'[t]) = Cat(wire, Cat(a, raw'[t]))
    BY <1>4, <2>1, CatAssociative
  <2> HIDE DEF r
  <2> QED BY <1>4, <2>2, <2>6, <2>7
<1>9. Run(All', msgs') /\ Begins(All') /\ Ends(All', msgs')
  BY <1>2, <1>8 DEF Alone
<1>10. \A i \in accepted' : Complete(All', msgs', i)
  BY <1>2, <1>4, <1>6, <1>7, <1>8 DEF Alone
<1>11. pc'[t] = "lock" =>
          /\ Len(msgs') \notin accepted' /\ Complete(All', msgs', Len(msgs'))
          /\ \A j \in 1..Len(raw'[t]) : raw'[t][j][1] = Len(msgs')
  <2> SUFFICES ASSUME pc'[t] = "lock"
               PROVE  /\ Len(msgs) \notin accepted' /\ Complete(All', msgs, Len(msgs))
                      /\ \A j \in 1..Len(raw'[t]) : raw'[t][j][1] = Len(msgs)
    BY <1>2
  <2>1. accepted' = accepted
    BY <1>4
  <2> QED BY <1>4, <1>6, <1>8, <2>1
<1>12. pc'[t] \in {"lock", "idle"} /\ \A u \in Threads : u # t => pc'[u] = "idle"
  BY <1>1, <1>2, <1>3 DEF Alone
<1> QED BY <1>2, <1>3, <1>5, <1>9, <1>10, <1>11, <1>12 DEF Alone, InCall

\* A send that fails: the message is lost, and it is the last one.
LEMMA DirectFailAlone ==
    ASSUME SendInv, Alone, NEW t \in Threads, DirectFail(t)
    PROVE  Alone'
<1>1. /\ Typed
      /\ pc \in [Threads -> Labels]
  BY DEF SendInv, Typed, TypeOK
<1>2. /\ pc[t] = "send" /\ pc' = [pc EXCEPT ![t] = "idle"]
      /\ UNCHANGED <<msgs, raw, tQueue, m_lock, flip, overlap, accepted, wire, room,
                     broken>>
  BY DEF DirectFail, Goto
<1>3. t = Owner
  BY <1>2 DEF Alone
<1>4. /\ tQueue = <<>> /\ flip = 0 /\ m_lock = Free /\ ~overlap /\ Ends(wire, msgs)
      /\ Len(msgs) \notin accepted
      /\ \A j \in 1..Len(raw[t]) : raw[t][j][1] = Len(msgs)
  BY <1>2, <1>3 DEF Alone, InCall
<1>5. wire \in Seq(Byte) /\ raw[t] \in Seq(Byte) /\ Ready = wire /\ All = Cat(wire, raw[t])
  <2>1. wire \in Seq(Byte) /\ raw[t] \in Seq(Byte) /\ Ready = wire
    BY <1>1, <1>3, <1>4, PlacesAre
  <2> QED BY <1>2, <1>3, <2>1 DEF All, Going, InCall
<1>6. All' = wire
  <2>1. Ready' = Ready
    BY <1>2 DEF Ready, Waiting
  <2>2. pc'[Owner] = "idle"
    BY <1>1, <1>2, <1>3
  <2>3. Going' = <<>>
    BY <2>2 DEF Going, InCall
  <2> QED BY <1>5, <2>1, <2>3, CatEmpty DEF All
<1>7. Run(wire, msgs) /\ Begins(wire)
  BY <1>5, RunSplit DEF Alone
<1>8. \A i \in accepted : Complete(wire, msgs, i)
  <2> TAKE i \in accepted
  <2>1. Complete(Cat(wire, raw[t]), msgs, i)
    BY <1>5 DEF Alone
  <2>2. \A j \in 1..Len(raw[t]) : raw[t][j][1] # i
    BY <1>4
  <2> QED BY <1>5, <2>1, <2>2, CompleteBefore
<1>9. \A u \in Threads : pc'[u] = "idle"
  BY <1>1, <1>2, <1>3 DEF Alone
<1>10. pc'[Owner] = "idle"
  BY <1>9, ConstantsAre
<1> QED BY <1>2, <1>4, <1>6, <1>7, <1>8, <1>9, <1>10 DEF Alone, InCall

\* What the kernel has not taken is put into the queue.
LEMMA PutAlone ==
    ASSUME SendInv, Alone, NEW t \in Threads, PutBegin(t) \/ PutEnd(t)
    PROVE  Alone'
<1>1. /\ Typed /\ Owner \in Threads
      /\ pc \in [Threads -> Labels]
  BY ConstantsAre DEF SendInv, Typed, TypeOK
<1>2. t = Owner
  BY DEF PutBegin, PutEnd, Alone
<1>3. CASE PutBegin(t)
  <2>1. /\ pc[Owner] = "lock" /\ m_lock' = Owner /\ ~overlap'
        /\ pc' = [pc EXCEPT ![Owner] = "put"]
        /\ UNCHANGED <<msgs, raw, tQueue, flip, accepted, wire, room, sock, broken>>
    BY <1>2, <1>3 DEF PutBegin, Goto
  <2>2. pc'[Owner] = "put" /\ \A u \in Threads : u # Owner => pc'[u] = pc[u]
    BY <1>1, <2>1
  <2>3. All' = All
    BY <2>1, <2>2 DEF All, Ready, Waiting, Going, InCall
  <2>4. flip' = 0
    BY <2>1 DEF Alone
  <2> QED BY <2>1, <2>2, <2>3, <2>4, AloneKept DEF InCall
<1>4. CASE PutEnd(t)
  <2>1. /\ pc[Owner] = "put" /\ flip = 0 /\ ~overlap
        /\ Len(msgs) \notin accepted /\ Complete(All, msgs, Len(msgs))
        /\ \A j \in 1..Len(raw[Owner]) : raw[Owner][j][1] = Len(msgs)
    BY <1>2, <1>4 DEF PutEnd, Alone, InCall
  <2>2. /\ tQueue' = Cat(tQueue, raw[Owner]) /\ accepted' = accepted \cup {Current(Owner)}
        /\ m_lock' = Free /\ overlap' = FALSE
        /\ pc' = [pc EXCEPT ![Owner] = "idle"]
        /\ UNCHANGED <<msgs, raw, flip, wire, room, sock, broken>>
    BY <1>2, <1>4, <2>1 DEF PutEnd, Goto, Cat
  <2>3. Current(Owner) = Len(msgs)
    <3>1. Len(raw[Owner]) \in Nat \ {0}
      BY <1>1, <2>1, CurrentIs DEF InCall
    <3>2. 1 \in 1..Len(raw[Owner])
      BY <3>1
    <3> QED BY <2>1, <3>2 DEF Current
  <2>4. pc'[Owner] = "idle" /\ \A u \in Threads : u # Owner => pc'[u] = "idle"
    BY <1>1, <2>2 DEF Alone
  <2>5. All' = All
    <3>1. /\ wire \in Seq(Byte) /\ tQueue \in Seq(Byte) /\ raw[Owner] \in Seq(Byte)
          /\ Waiting = tQueue
      BY <1>1, <2>1, PlacesAre
    <3>2. tQueue' \in Seq(Byte)
      BY <2>2, <3>1, CatProperties
    <3>3. Waiting' = tQueue'
      BY <2>1, <2>2, <3>2, NothingFlipped DEF Waiting
    <3>4. Going' = <<>> /\ Going = raw[Owner]
      BY <2>1, <2>4 DEF Going, InCall
    <3>5. All = Cat(Cat(wire, tQueue), raw[Owner])
      BY <3>1, <3>4 DEF All, Ready
    <3>6. All' = Cat(Cat(wire, tQueue'), <<>>)
      BY <2>2, <3>3, <3>4 DEF All, Ready
    <3>7. Cat(wire, tQueue') \in Seq(Byte)
      BY <3>1, <3>2, CatProperties
    <3>8. All' = Cat(wire, Cat(tQueue, raw[Owner]))
      BY <2>2, <3>6, <3>7, CatEmpty
    <3> QED BY <3>1, <3>5, <3>8, CatAssociative
  <2>6. \A i \in accepted' : Complete(All', msgs', i)
    BY <2>1, <2>2, <2>3, <2>5 DEF Alone
  <2>7. Run(All', msgs') /\ Begins(All') /\ Ends(All', msgs')
    BY <2>2, <2>5 DEF Alone
  <2> QED BY <2>1, <2>2, <2>4, <2>6, <2>7 DEF Alone, InCall
<1> QED BY <1>3, <1>4

\* The loop of the owner, the kernel and the peer.
LEMMA OtherAlone ==
    ASSUME SendInv, Alone, Loop \/ Drain \/ Break \/ UNCHANGED vars
    PROVE  Alone'
<1>1. /\ Typed /\ Owner \in Threads
      /\ pc \in [Threads -> Labels]
      /\ wire \in Seq(Byte) /\ tQueue \in Seq(Byte) /\ room \in 0..MaxRoom
      /\ flip \in 0..Len(tQueue)
  BY ConstantsAre DEF SendInv, Typed, TypeOK
<1>2. CASE Drain \/ Break \/ UNCHANGED vars
  <2>1. UNCHANGED <<msgs, pc, raw, tQueue, m_lock, flip, overlap, accepted, wire>>
    BY <1>2 DEF Drain, Break, vars
  <2>2. All' = All
    BY <2>1 DEF All, Ready, Waiting, Going
  <2> QED BY <2>1, <2>2, AloneKept DEF Alone
<1>3. CASE WaitSend \/ OwnerGone \/ SyncLock \/ SyncFail
  <2>1. /\ pc[Owner] \in {"idle", "sync", "locked"}
        /\ \E l \in {"sync", "locked", "gone"} :
              /\ pc' = [pc EXCEPT ![Owner] = l]
              /\ m_lock' = IF l = "locked" THEN Owner
                           ELSE IF pc[Owner] = "locked" THEN Free ELSE m_lock
        /\ UNCHANGED <<msgs, raw, tQueue, flip, overlap, accepted, wire>>
    <3>1. CASE WaitSend
      BY <3>1 DEF WaitSend, Goto
    <3>2. CASE OwnerGone
      BY <3>2 DEF OwnerGone, Goto
    <3>3. CASE SyncLock
      BY <3>3 DEF SyncLock, Goto
    <3>4. CASE SyncFail
      BY <3>4 DEF SyncFail, Goto
    <3> QED BY <1>3, <3>1, <3>2, <3>3, <3>4
  <2>2. /\ pc'[Owner] \in {"sync", "locked", "gone"}
        /\ m_lock' = IF pc'[Owner] = "locked" THEN Owner
                     ELSE IF pc[Owner] = "locked" THEN Free ELSE m_lock
        /\ \A u \in Threads : u # Owner => pc'[u] = pc[u]
    BY <1>1, <2>1
  <2>3. All' = All
    BY <2>1, <2>2 DEF All, Ready, Waiting, Going, InCall
  <2>4. m_lock' = (IF pc'[Owner] = "locked" THEN Owner ELSE Free) /\ ~overlap' /\ flip' = 0
    BY <2>1, <2>2 DEF Alone
  <2> QED BY <2>1, <2>2, <2>3, <2>4, AloneKept DEF InCall
<1>4. CASE SyncSend
  <2> DEFINE n == Taken(tQueue)
             a == SubSeq(tQueue, 1, n)
             b == SubSeq(tQueue, n + 1, Len(tQueue))
  <2>1. /\ pc[Owner] = "locked" /\ m_lock' = Free /\ flip' = n /\ wire' = Cat(wire, a)
        /\ pc' = [pc EXCEPT ![Owner] = IF n > 0 THEN "flip" ELSE "idle"]
        /\ UNCHANGED <<msgs, raw, tQueue, overlap, accepted>>
    BY <1>4 DEF SyncSend, Accept, Goto, Cat
  <2>2. n \in 0..Len(tQueue) /\ n \in Nat
    BY <1>1, TakenIs
  <2>3. flip = 0 /\ ~overlap
    BY <2>1 DEF Alone
  <2>4. Waiting' = b
    BY <2>1 DEF Waiting
  <2> HIDE DEF n
  <2>5. a \in Seq(Byte) /\ b \in Seq(Byte) /\ tQueue = Cat(a, b)
    BY <1>1, <2>2, SplitAt
  <2> HIDE DEF a, b
  <2>6. /\ pc'[Owner] \in {"flip", "idle"} /\ (pc'[Owner] # "flip" => n = 0)
        /\ \A u \in Threads : u # Owner => pc'[u] = pc[u]
    BY <1>1, <2>1, <2>2
  <2>7. All' = All
    <3>1. Ready' = Cat(Cat(wire, a), b)
      BY <2>1, <2>4 DEF Ready
    <3>2. Ready = Cat(wire, Cat(a, b))
      BY <1>1, <2>3, <2>5, PlacesAre DEF Ready
    <3>3. Ready' = Ready
      BY <1>1, <2>5, <3>1, <3>2, CatAssociative
    <3>4. Going = <<>> /\ Going' = <<>>
      BY <2>1, <2>6 DEF Going, InCall
    <3> QED BY <3>3, <3>4 DEF All
  <2>8. pc'[Owner] \notin {"put", "locked", "send"} /\ pc'[Owner] \notin InCall
    BY <2>6 DEF InCall
  <2> QED BY <2>1, <2>3, <2>6, <2>7, <2>8, AloneKept
<1>5. CASE SyncFlip
  <2>1. /\ pc[Owner] = "flip" /\ tQueue' = Waiting /\ flip' = 0
        /\ overlap' = (m_lock # Free) /\ pc' = [pc EXCEPT ![Owner] = "idle"]
        /\ UNCHANGED <<msgs, raw, m_lock, accepted, wire>>
    BY <1>5 DEF SyncFlip, Goto, Waiting
  <2>2. m_lock = Free
    BY <2>1 DEF Alone
  <2>3. pc'[Owner] = "idle" /\ \A u \in Threads : u # Owner => pc'[u] = pc[u]
    BY <1>1, <2>1
  <2>4. Waiting' = Waiting
    <3>1. Waiting \in Seq(Byte)
      BY <1>1, PlacesAre
    <3>2. Waiting' = SubSeq(tQueue', 0 + 1, Len(tQueue'))
      BY <2>1 DEF Waiting
    <3> QED BY <2>1, <3>1, <3>2, NothingFlipped
  <2>5. Ready' = Ready
    BY <2>1, <2>4 DEF Ready
  <2>6. All' = All
    <3>1. Going = <<>> /\ Going' = <<>>
      BY <2>1, <2>3 DEF Going, InCall
    <3> QED BY <2>5, <3>1 DEF All
  <2> QED BY <2>1, <2>2, <2>3, <2>6, AloneKept DEF InCall
<1> QED BY <1>2, <1>3, <1>4, <1>5 DEF Loop

LEMMA SendInvStep == SendInv /\ [Next]_vars => SendInv'
<1> SUFFICES ASSUME SendInv, [Next]_vars PROVE SendInv'
  OBVIOUS
<1>1. Typed'
  BY TypedStep DEF SendInv
<1>2. ASSUME NEW t \in Threads, NEW len \in Lens, NEW buffer \in Buffer,
             sendCmd(t, len, buffer), OwnerAlone'
      PROVE  Alone'
  BY <1>2, CmdAlone
<1>3. ASSUME NEW t \in Threads, Continue(t), OwnerAlone' PROVE Alone'
  <2>1. UNCHANGED msgs
    BY <1>3 DEF Continue, DirectSend, DirectFail, PutBegin, PutEnd
  <2>2. Alone
    BY <1>3, <2>1 DEF SendInv, OwnerAlone
  <2> QED BY <1>3, <2>2, DirectSendAlone, DirectFailAlone, PutAlone DEF Continue
<1>4. ASSUME Loop \/ Drain \/ Break \/ UNCHANGED vars, OwnerAlone' PROVE Alone'
  <2>1. UNCHANGED msgs
    BY <1>4 DEF Loop, WaitSend, OwnerGone, SyncLock, SyncSend, SyncFail,
               SyncFlip, Drain, Break, vars
  <2>2. Alone
    BY <1>4, <2>1 DEF SendInv, OwnerAlone
  <2> QED BY <1>4, <2>2, OtherAlone
<1> QED BY <1>1, <1>2, <1>3, <1>4 DEF Next, SendInv

\* The invariant holds in every reachable state.
THEOREM SendInvariant == Spec => []SendInv
  BY InitSendInv, SendInvStep, PTL DEF Spec

\* As long as only the owner has sent, the peer reads whole messages in the order
\* of the calls, however little the kernel takes at a time.
THEOREM OwnersOrder == Spec => []AloneInOrder
<1>1. SendInv => AloneInOrder
  <2> SUFFICES ASSUME SendInv, OwnerAlone PROVE WireInOrder
    BY DEF AloneInOrder
  <2>1. Typed /\ Alone
    BY DEF SendInv
  <2>2. wire \in Seq(Byte) /\ Len(wire) \in Nat /\ DOMAIN wire = 1..Len(wire)
    BY <2>1, LenProperties DEF Typed, TypeOK
  <2>3. Run(wire, msgs) /\ Begins(wire)
    <3>1. Waiting \in Seq(Byte) /\ Ready \in Seq(Byte) /\ Going \in Seq(Byte)
      BY <2>1, PlacesAre
    <3>2. Run(Ready, msgs) /\ Begins(Ready)
      BY <2>1, <3>1, RunSplit DEF Alone, All
    <3> QED BY <2>2, <3>1, <3>2, RunSplit DEF Ready
  <2>4. \A j \in 1..Len(wire) :
           wire[j][1] \in 1..Len(msgs) /\ wire[j][2] \in 1..msgs[wire[j][1]].len
    BY <2>3 DEF Run
  <2>5. ASSUME NEW j \in 1..(Len(wire) - 1)
        PROVE  LET i == wire[j][1]
                   k == wire[j][2]
               IN  /\ wire[j] # Junk
                   /\ IF k < msgs[i].len THEN wire[j + 1] = <<i, k + 1>>
                                         ELSE wire[j + 1][2] = 1
    <3> DEFINE i == wire[j][1]
               k == wire[j][2]
               z == msgs[i].len
    <3>1. /\ j \in 1..Len(wire) /\ j + 1 \in 1..Len(wire) /\ j < j + 1
          /\ (j + 1) - j = 1
      BY <2>2
    <3>2. i \in 1..Len(msgs) /\ k \in 1..z
      BY <2>4, <3>1
    <3>3. /\ k + ((j + 1) - j) <= z => wire[j + 1] = <<i, k + ((j + 1) - j)>>
          /\ k + ((j + 1) - j) = z + 1 => wire[j + 1][2] = 1
      BY <2>3, <3>1 DEF Run
    <3>4. z \in Nat
      <4>1. msgs[i] \in Message
        BY <2>1, <3>2, ElementOfSeq DEF Typed, TypeOK, Message
      <4>2. msgs[i].len \in Lens
        BY <4>1 DEF Message
      <4> QED BY <4>2, ConstantsAre
    <3>5. wire[j] # Junk
      BY <3>2 DEF Junk
    <3>6. /\ k + 1 <= z => wire[j + 1] = <<i, k + 1>>
          /\ k + 1 = z + 1 => wire[j + 1][2] = 1
      BY <3>1, <3>3
    <3> HIDE DEF i, k, z
    <3>7. IF k < z THEN wire[j + 1] = <<i, k + 1>> ELSE wire[j + 1][2] = 1
      BY <3>2, <3>4, <3>6
    <3> QED BY <3>5, <3>7 DEF i, k, z
  <2>6. \A j1, j2 \in DOMAIN wire : j1 < j2 => wire[j1][1] <= wire[j2][1]
    BY <2>2, <2>3 DEF Run
  <2> QED BY <2>3, <2>5, <2>6 DEF WireInOrder, Begins
<1> QED BY <1>1, SendInvariant, PTL

\* Then of a message whose sendCmd has returned true every byte is on the wire or
\* waits to be, and is so once.
THEOREM OnceOrWaiting == Spec => []NothingDropped
<1>1. SendInv => NothingDropped
  <2> SUFFICES ASSUME SendInv, OwnerAlone, NEW i \in accepted, NEW k \in 1..msgs[i].len
               PROVE  Cardinality({j \in DOMAIN Ready : Ready[j] = <<i, k>>}) = 1
    BY DEF NothingDropped, Ready, Cat
  <2>1. Typed /\ Alone
    BY DEF SendInv
  <2>2. Ready \in Seq(Byte) /\ Going \in Seq(Byte) /\ Len(Ready) \in Nat
    BY <2>1, PlacesAre, LenProperties
  <2>3. Run(Ready, msgs)
    BY <2>1, <2>2, RunSplit DEF Alone, All
  <2>4. \A j \in 1..Len(Going) : Going[j][1] # i
    <3>1. CASE pc[Owner] \in InCall
      BY <2>1, <3>1 DEF Alone, Going
    <3>2. CASE pc[Owner] \notin InCall
      <4>1. 1..Len(Going) = {}
        BY <3>2, EmptySeq DEF Going
      <4> QED BY <4>1
    <3> QED BY <3>1, <3>2
  <2>5. Complete(Ready, msgs, i)
    BY <2>1, <2>2, <2>4, CompleteBefore DEF Alone, All
  <2>6. PICK j \in 1..Len(Ready) : Ready[j] = <<i, k>>
    BY <2>5 DEF Complete
  <2>7. \A l \in 1..Len(Ready) : Ready[l] = <<i, k>> => l = j
    <3> SUFFICES ASSUME NEW l \in 1..Len(Ready), l # j PROVE Ready[l] # Ready[j]
      BY <2>6
    <3>1. l < j \/ j < l
      BY <2>2
    <3> QED BY <2>3, <3>1 DEF Run
  <2>8. {l \in DOMAIN Ready : Ready[l] = <<i, k>>} = {j}
    <3>1. DOMAIN Ready = 1..Len(Ready)
      BY <2>2, LenProperties
    <3> QED BY <2>6, <2>7, <3>1
  <2> QED BY <2>8, FS_Singleton
<1> QED BY <1>1, SendInvariant, PTL
=============================================================================
