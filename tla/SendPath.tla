------------------------------ MODULE SendPath ------------------------------
(***************************************************************************)
(* How messages go out on one connection: zSocket::sendCmd, called by any  *)
(* thread that has something to say, and zSocket::sync, called in a loop   *)
(* by the thread that owns the connection (an okay thread of the server,   *)
(* zTCPBufferClient::run of a client) when WaitSend says so. What the      *)
(* kernel does not take waits in tQueue.                                   *)
(*                                                                         *)
(* A byte is <<i, k>>, the k-th byte of the i-th message, header included. *)
(***************************************************************************)
EXTENDS Integers, Sequences, FiniteSets

CONSTANTS
    Threads,   \* the threads that call sendCmd
    Owner,     \* the one that also calls sync
    Buffer,    \* the values the argument buffer of sendCmd takes
    FlushAt,   \* sync is called when WaitSend returns more than this:
               \* 0 in zOkayThread::run, 1 in zTCPBufferClient::run
    Lens,      \* lengths of packed messages
    MaxMsgs,   \* at most this many calls of sendCmd
    MaxRoom    \* the kernel's send buffer holds at most this many bytes

ASSUME ThreadsAssumption == Owner \in Threads
ASSUME LensAssumption == Lens \subseteq Nat \ {0}
ASSUME BufferAssumption == Buffer \subseteq BOOLEAN
ASSUME SizesAssumption == FlushAt \in Nat /\ MaxMsgs \in Nat /\ MaxRoom \in Nat \ {0}

Free == "free"
Junk == <<0, 0>>  \* a byte of the block that nobody meant to send

VARIABLES
    msgs,      \* the calls: who made it, how long the packed message is
    pc,        \* where each thread is: "idle", "send", "lock", "put", "sync",
               \* "locked", "flip" or "gone"
    raw,       \* _raw_queue of the call a thread is in
    tQueue,    \* what waits to be sent
    m_lock,    \* tQueue.m_lock: the thread that puts or sends under it
    flip,      \* what sync has sent and not yet flipped away
    overlap,   \* tQueue was flipped while another thread was putting
    accepted,  \* the calls that have returned true
    wire,      \* what the kernel has taken
    room,      \* what it would take now
    sock,      \* FALSE: INVALID_SOCKET
    broken     \* the connection is gone, the next send will fail

vars == <<msgs, pc, raw, tQueue, m_lock, flip, overlap, accepted, wire, room,
          sock, broken>>

Goto(t, l) == pc' = [pc EXCEPT ![t] = l]

-----------------------------------------------------------------------------
(* sendCmd                                                                 *)

Packed(i, len) == [k \in 1..len |-> <<i, k>>]

\* Mutant: what waits is not looked at.
sendCmd_overtakes(t, len, buffer) ==
    /\ pc[t] = "idle" /\ Len(msgs) < MaxMsgs
    /\ msgs' = Append(msgs, [by |-> t, len |-> len])
    /\ raw' = [raw EXCEPT ![t] = Packed(Len(msgs) + 1, len)]
    /\ Goto(t, IF buffer THEN "lock" ELSE "send")
    /\ UNCHANGED <<tQueue, m_lock, flip, overlap, accepted, wire, room, sock, broken>>

\* The message is packed; if others wait it must wait too. The size of tQueue
\* is read without the lock.
sendCmd(t, len, buffer) ==
    /\ pc[t] = "idle" /\ Len(msgs) < MaxMsgs
    /\ msgs' = Append(msgs, [by |-> t, len |-> len])
    /\ raw' = [raw EXCEPT ![t] = Packed(Len(msgs) + 1, len)]
    /\ Goto(t, IF buffer \/ tQueue # <<>> THEN "lock" ELSE "send")
    /\ UNCHANGED <<tQueue, m_lock, flip, overlap, accepted, wire, room, sock, broken>>

\* The message a thread is sending.
Current(t) == raw[t][1][1]

\* What send() takes of the bytes.
Taken(bytes) == IF Len(bytes) < room THEN Len(bytes) ELSE room
Accept(bytes, n) ==
    /\ wire' = wire \o SubSeq(bytes, 1, n)
    /\ room' = room - n

\* Mutant: what the kernel did not take is forgotten.
DirectSend_forgets(t) ==
    /\ pc[t] = "send" /\ sock /\ ~broken
    /\ Accept(raw[t], Taken(raw[t]))
    /\ Goto(t, "idle") /\ accepted' = accepted \cup {Current(t)}
    /\ UNCHANGED <<msgs, raw, tQueue, m_lock, flip, overlap, sock, broken>>

\* send(); what the kernel did not take is put into the queue.
DirectSend(t) ==
    /\ pc[t] = "send" /\ sock /\ ~broken
    /\ LET n == Taken(raw[t])
       IN  /\ Accept(raw[t], n)
           /\ raw' = [raw EXCEPT ![t] = SubSeq(@, n + 1, Len(@))]
           /\ IF n < Len(raw[t])
              THEN Goto(t, "lock") /\ UNCHANGED accepted
              ELSE Goto(t, "idle") /\ accepted' = accepted \cup {Current(t)}
    /\ UNCHANGED <<msgs, tQueue, m_lock, flip, overlap, sock, broken>>

\* send() fails with something else than EAGAIN: DisConnet, and false is returned.
DirectFail(t) ==
    /\ pc[t] = "send" /\ (~sock \/ broken)
    /\ sock' = FALSE
    /\ Goto(t, "idle")
    /\ UNCHANGED <<msgs, raw, tQueue, m_lock, flip, overlap, accepted, wire,
                   room, broken>>

PutBegin(t) ==
    /\ pc[t] = "lock" /\ m_lock = Free
    /\ m_lock' = t /\ overlap' = FALSE
    /\ Goto(t, "put")
    /\ UNCHANGED <<msgs, raw, tQueue, flip, accepted, wire, room, sock, broken>>

\* The bytes are in the block and currPtr moves past them. If rd_flip has worked
\* on the same indices meanwhile, it may have overwritten the new currPtr, or
\* the bytes may have been written where the old one was.
PutEnd(t) ==
    /\ pc[t] = "put"
    /\ \/ tQueue' = tQueue \o raw[t]
       \/ overlap /\ tQueue' = tQueue \o [k \in 1..Len(raw[t]) |-> Junk]
       \/ overlap /\ tQueue' = tQueue
    /\ accepted' = accepted \cup {Current(t)}
    /\ m_lock' = Free /\ overlap' = FALSE
    /\ Goto(t, "idle")
    /\ UNCHANGED <<msgs, raw, flip, wire, room, sock, broken>>

-----------------------------------------------------------------------------
(* The loop of the owner.                                                  *)

\* Mutant: one byte is taken for nothing.
WaitSend_small ==
    /\ pc[Owner] = "idle" /\ sock /\ Len(tQueue) > FlushAt + 1
    /\ Goto(Owner, "sync")
    /\ UNCHANGED <<msgs, raw, tQueue, m_lock, flip, overlap, accepted, wire,
                   room, sock, broken>>

WaitSend ==
    /\ pc[Owner] = "idle" /\ sock /\ Len(tQueue) > FlushAt
    /\ Goto(Owner, "sync")
    /\ UNCHANGED <<msgs, raw, tQueue, m_lock, flip, overlap, accepted, wire,
                   room, sock, broken>>

\* WaitSend returns -1: the owner gives the connection up.
OwnerGone ==
    /\ pc[Owner] = "idle" /\ ~sock
    /\ Goto(Owner, "gone")
    /\ UNCHANGED <<msgs, raw, tQueue, m_lock, flip, overlap, accepted, wire,
                   room, sock, broken>>

SyncLock ==
    /\ pc[Owner] = "sync" /\ m_lock = Free
    /\ m_lock' = Owner
    /\ Goto(Owner, "locked")
    /\ UNCHANGED <<msgs, raw, tQueue, flip, overlap, accepted, wire, room, sock,
                   broken>>

\* sync: as much as the kernel takes, and the lock is given back.
SyncSend ==
    /\ pc[Owner] = "locked" /\ sock /\ ~broken
    /\ flip' = Taken(tQueue)
    /\ Accept(tQueue, Taken(tQueue))
    /\ m_lock' = Free
    /\ Goto(Owner, IF Taken(tQueue) > 0 THEN "flip" ELSE "idle")
    /\ UNCHANGED <<msgs, raw, tQueue, overlap, accepted, sock, broken>>

\* Mutant: the failure returns with the lock.
SyncFail_keepsLock ==
    /\ pc[Owner] = "locked" /\ (~sock \/ broken)
    /\ Goto(Owner, "gone")
    /\ UNCHANGED <<msgs, raw, tQueue, flip, overlap, accepted, wire, room, sock,
                   broken, m_lock>>

\* It fails: sync returns false and the owner gives the connection up.
SyncFail ==
    /\ pc[Owner] = "locked" /\ (~sock \/ broken)
    /\ m_lock' = Free
    /\ Goto(Owner, "gone")
    /\ UNCHANGED <<msgs, raw, tQueue, flip, overlap, accepted, wire, room, sock,
                   broken>>

\* Mutant: all that waited is taken to have been sent.
SyncFlip_all ==
    /\ pc[Owner] = "flip"
    /\ tQueue' = <<>>
    /\ flip' = 0 /\ overlap' = (m_lock # Free)
    /\ Goto(Owner, "idle")
    /\ UNCHANGED <<msgs, raw, m_lock, accepted, wire, room, sock, broken>>

\* rd_flip(retcode), after the lock has been released.
SyncFlip ==
    /\ pc[Owner] = "flip"
    /\ tQueue' = SubSeq(tQueue, flip + 1, Len(tQueue))
    /\ flip' = 0 /\ overlap' = (m_lock # Free)
    /\ Goto(Owner, "idle")
    /\ UNCHANGED <<msgs, raw, m_lock, accepted, wire, room, sock, broken>>

-----------------------------------------------------------------------------
(* The kernel and the peer.                                                *)

Drain ==
    /\ room < MaxRoom /\ room' = MaxRoom
    /\ UNCHANGED <<msgs, pc, raw, tQueue, m_lock, flip, overlap, accepted, wire,
                   sock, broken>>

Break ==
    /\ ~broken /\ broken' = TRUE
    /\ UNCHANGED <<msgs, pc, raw, tQueue, m_lock, flip, overlap, accepted, wire,
                   room, sock>>

-----------------------------------------------------------------------------
Init ==
    /\ msgs = <<>> /\ tQueue = <<>> /\ wire = <<>>
    /\ pc = [t \in Threads |-> "idle"] /\ raw = [t \in Threads |-> <<>>]
    /\ m_lock = Free /\ flip = 0 /\ overlap = FALSE /\ accepted = {}
    /\ room \in 0..MaxRoom /\ sock = TRUE /\ broken = FALSE

Continue(t) == DirectSend(t) \/ DirectFail(t) \/ PutBegin(t) \/ PutEnd(t)
Loop == WaitSend \/ OwnerGone \/ SyncLock \/ SyncSend \/ SyncFail \/ SyncFlip

Next ==
    \/ \E t \in Threads, len \in Lens, buffer \in Buffer : sendCmd(t, len, buffer)
    \/ \E t \in Threads : Continue(t)
    \/ Loop
    \/ Drain
    \/ Break

\* No thread stops in the middle of a call, the owner goes on looping, a lock
\* that is free again and again is got, and the peer goes on reading.
Fairness ==
    /\ \A t \in Threads : SF_vars(Continue(t))
    /\ SF_vars(Loop)
    /\ WF_vars(Drain)

Spec == Init /\ [][Next]_vars
FairSpec == Spec /\ Fairness

-----------------------------------------------------------------------------
Byte == (0..MaxMsgs) \X Nat

Labels == {"idle", "send", "lock", "put", "sync", "locked", "flip", "gone"}

TypeOK ==
    /\ msgs \in Seq([by : Threads, len : Lens]) /\ Len(msgs) <= MaxMsgs
    /\ pc \in [Threads -> Labels]
    /\ raw \in [Threads -> Seq(Byte)]
    /\ tQueue \in Seq(Byte) /\ wire \in Seq(Byte)
    /\ m_lock \in Threads \cup {Free} /\ overlap \in BOOLEAN
    /\ flip \in 0..Len(tQueue) /\ room \in 0..MaxRoom
    /\ accepted \subseteq DOMAIN msgs
    /\ sock \in BOOLEAN /\ broken \in BOOLEAN

\* The peer reads whole messages, and those of one thread in the order of its
\* calls: what zSocket.cpp:145 is for.
WireInOrder ==
    /\ wire # <<>> => wire[1][2] = 1
    /\ \A j \in 1..(Len(wire) - 1) :
         LET i == wire[j][1]
             k == wire[j][2]
         IN  /\ wire[j] # Junk
             /\ IF k < msgs[i].len THEN wire[j + 1] = <<i, k + 1>>
                                   ELSE wire[j + 1][2] = 1
    /\ \A j1, j2 \in DOMAIN wire :
         j1 < j2 /\ wire[j1] # Junk /\ wire[j2] # Junk
                 /\ msgs[wire[j1][1]].by = msgs[wire[j2][1]].by
           => wire[j1][1] <= wire[j2][1]

\* It does so as long as nobody but the owner has sent: no message is cut in two
\* by another or overtakes it, however little the kernel takes at a time.
OwnerAlone == \A i \in DOMAIN msgs : msgs[i].by = Owner
AloneInOrder == OwnerAlone => WireInOrder

\* Then a message whose sendCmd has returned true is on the wire or waits to be,
\* every byte of it once.
Waiting == SubSeq(tQueue, flip + 1, Len(tQueue))
NothingDropped ==
    OwnerAlone => \A i \in accepted : \A k \in 1..msgs[i].len :
        LET all == wire \o Waiting
        IN  Cardinality({j \in DOMAIN all : all[j] = <<i, k>>}) = 1

\* And it gets there, unless the connection breaks.
Sent(i) == \E j \in DOMAIN wire : wire[j][1] = i /\ wire[j][2] = msgs[i].len
Flushed == \A i \in 1..MaxMsgs :
    (i \in accepted /\ OwnerAlone) ~> (broken \/ ~OwnerAlone \/ Sent(i))

\* However many threads send and whatever the owner flushes meanwhile, a call of
\* sendCmd returns: nobody waits for tQueue.m_lock for ever.
CallsReturn ==
    \A t \in Threads : (pc[t] \in {"send", "lock", "put"}) ~> (pc[t] = "idle")
=============================================================================
