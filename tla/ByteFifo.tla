------------------------------ MODULE ByteFifo ------------------------------
(***************************************************************************)
(* What a ByteBuffer is for: a first-in first-out queue of bytes.          *)
(***************************************************************************)
EXTENDS Sequences, Naturals

CONSTANT Chunks  \* the data one call may bring

VARIABLE content

Init == content = <<>>

Enqueue(data) == content' = content \o data
Consume(n) == content' = SubSeq(content, n + 1, Len(content))

Next ==
    \/ \E data \in Chunks : Enqueue(data)
    \/ \E n \in 1..Len(content) : Consume(n)

Fifo == Init /\ [][Next]_content
=============================================================================
