--------------------------- MODULE SocketFd_proof ---------------------------
(***************************************************************************)
(* What is proved about SocketFd, for every set of connections and of      *)
(* descriptors: the descriptor of a deleted task has been given back, and  *)
(* no thread meets another's connection as long as no two were at one.     *)
(***************************************************************************)
EXTENDS SocketFd, TLAPS

USE DEF Closers, kernel, Goto, GotoWith, Call, Invalid

\* The kernel has given up c.
Away(c) == \A fd \in Fds : file[fd] # c

\* A connection has one descriptor, the one its zSocket knows.
Owned ==
    \A fd \in Fds, c \in Conns : file[fd] = c => sock[c] = fd /\ task[c] # "none"

\* Between close() and the next statement the connection has none.
Gone == \A t \in Closers : pc[t] = "clear" => Away(at[t])

\* What a thread, epoll or newTCPTask has in hand has been accepted.
Known ==
    /\ \A t \in Closers : at[t] = None <=> pc[t] = "idle"
    /\ \A t \in Closers : at[t] \in Conns => task[at[t]] # "none"
    /\ \A c \in Conns : pointer[c] \in Conns => task[pointer[c]] # "none"
    /\ \A c \in backEvents : task[c] # "none"
    /\ accepting # None => task[accepting] # "none"

\* An event that is still to be handled is of a connection that is registered
\* with its own zSocket, or has been closed.
Registered(c) == pointer[c] = c \/ Away(c)
EventsTrue ==
    /\ \A c \in backEvents : Registered(c)
    /\ pc["epoll"] \in {"recv", "add"} => Registered(at["epoll"])

\* The number in a zSocket is that of its connection, or of none, or is about to
\* be cleared.
Numbered(c) ==
    Target(c) = c \/ sock[c] = Invalid \/ \E t \in Closers : pc[t] = "clear" /\ at[t] = c
Apart ==
    /\ ~harmed
    /\ \A c \in Conns : Numbered(c)
    /\ \A c \in Conns : pointer[c] \in {None, c}

Calm == contested = {} => Apart /\ EventsTrue

SocketInv == TypeOK /\ Owned /\ Gone /\ Known /\ NoneLeft /\ Calm

\* Initially there is nothing.
LEMMA InitSocketInv == Init => SocketInv
<1> SUFFICES ASSUME Init PROVE SocketInv
  OBVIOUS
<1> USE FdsAssumption, ConnsAssumption DEF Init
<1>1. TypeOK
  BY DEF TypeOK
<1>2. Owned /\ Gone /\ Known /\ NoneLeft
  BY DEF Owned, Gone, Known, NoneLeft
<1>3. Calm
  BY DEF Calm, Apart, EventsTrue, Numbered
<1> QED BY <1>1, <1>2, <1>3 DEF SocketInv

-----------------------------------------------------------------------------
(* The steps                                                               *)

\* What accept takes was free, and its connection is known to nobody.
LEMMA AcceptTakes ==
    ASSUME SocketInv, NEW c \in Conns, Accept(c)
    PROVE  /\ Away(c) /\ \A t \in Closers : at[t] # c
           /\ \E fd \in Fds : /\ file[fd] = None
                              /\ file' = [file EXCEPT ![fd] = c]
                              /\ sock' = [sock EXCEPT ![c] = fd]
<1>1. task[c] = "none"
  BY DEF Accept
<1>2. Away(c) /\ \A t \in Closers : at[t] # c
  BY <1>1 DEF SocketInv, Owned, Known, Away
<1> QED BY <1>2 DEF Accept, FreeFds

\* A thread that is not itself about to clear the number meets its own connection
\* or none, if no other is in DisConnet with it.
LEMMA CallMeetsOwn ==
    ASSUME SocketInv, NEW t, NEW c \in Conns, Call(t, c), contested' = {},
           t \in Closers => pc[t] # "clear"
    PROVE  contested = {} /\ harmed' = FALSE /\ Target(c) \in {c, None}
<1>1. contested = {} /\ ~\E u \in Closers \ {t} : Closing(u, c)
  OBVIOUS
<1>2. Numbered(c) /\ ~harmed
  BY <1>1 DEF SocketInv, Calm, Apart
<1>3. Target(c) \in {c, None}
  BY <1>1, <1>2 DEF Numbered, Closing, Target
<1> QED BY <1>1, <1>2, <1>3

\* Every step keeps the types.
LEMMA TypesKept ==
    ASSUME SocketInv, [Next]_vars
    PROVE  TypeOK'
<1> USE FdsAssumption, ConnsAssumption DEF SocketInv, TypeOK, Known, Target
<1>1. ASSUME NEW c \in Conns, Accept(c) PROVE TypeOK'
  BY <1>1 DEF Accept, FreeFds
<1>2. ASSUME addVerify PROVE TypeOK'
  BY <1>2 DEF addVerify
<1>3. ASSUME epollAdd PROVE TypeOK'
  BY <1>3 DEF epollAdd, EpollAdd
<1>4. ASSUME NEW c \in Conns, PeerCloses(c) PROVE TypeOK'
  BY <1>4 DEF PeerCloses
<1>5. ASSUME NEW t \in Closers, Shutdown(t) PROVE TypeOK'
  BY <1>5 DEF Shutdown
<1>6. ASSUME NEW t \in Closers, Close(t) PROVE TypeOK'
  BY <1>6 DEF Close
<1>7. ASSUME NEW t \in Closers, Clear(t) PROVE TypeOK'
  BY <1>7 DEF Clear
<1>8. ASSUME NEW cs \in SUBSET Conns, Wait(cs) PROVE TypeOK'
  BY <1>8 DEF Wait
<1>9. ASSUME NEW c \in Conns, NextEvent(c) PROVE TypeOK'
  BY <1>9 DEF NextEvent
<1>10. ASSUME RecvEnd PROVE TypeOK'
  BY <1>10 DEF RecvEnd
<1>11. ASSUME RecvData PROVE TypeOK'
  <2>1. peer' \in [Conns -> {"open", "ending", "closed"}]
    BY <1>11 DEF RecvData
  <2>2. /\ UNCHANGED <<file, pointer, sock, task, accepting, backEvents>>
        /\ contested' \subseteq Conns /\ harmed' \in BOOLEAN
    BY <1>11 DEF RecvData
  <2>3. pc' \in [Closers -> {"idle", "recv", "add", "shutdown", "close", "clear"}]
    BY <1>11 DEF RecvData, Goto, GotoWith
  <2>4. at' \in [Closers -> Conns \cup {None}]
    BY <1>11 DEF RecvData, Goto, GotoWith
  <2> QED BY <2>1, <2>2, <2>3, <2>4
<1>12. ASSUME RecvFails PROVE TypeOK'
  BY <1>12 DEF RecvFails
<1>13. ASSUME AddAgain PROVE TypeOK'
  BY <1>13 DEF AddAgain, EpollAdd
<1>14. ASSUME NEW c \in Conns, Send(c) PROVE TypeOK'
  BY <1>14 DEF Send
<1>15. ASSUME NEW c \in Conns, Recycle(c) PROVE TypeOK'
  BY <1>15 DEF Recycle
<1>16. ASSUME NEW c \in Conns, Delete(c) PROVE TypeOK'
  BY <1>16 DEF Delete
<1>17. CASE UNCHANGED vars
  BY <1>17 DEF vars
<1> QED BY <1>1, <1>2, <1>3, <1>4, <1>5, <1>6, <1>7, <1>8, <1>9, <1>10, <1>11,
      <1>12, <1>13, <1>14, <1>15, <1>16, <1>17 DEF Next, Events, Handle, DisConnet

\* A number that accept takes was free, and its connection new; nothing clears a
\* number before close().
LEMMA OwnedKept ==
    ASSUME SocketInv, [Next]_vars
    PROVE  Owned'
<1> USE FdsAssumption, ConnsAssumption DEF SocketInv, TypeOK, Owned, Gone, Known, Away, Target
<1>1. ASSUME NEW c \in Conns, Accept(c) PROVE Owned'
  <2>1. PICK fd \in Fds : file[fd] = None /\ file' = [file EXCEPT ![fd] = c]
                          /\ sock' = [sock EXCEPT ![c] = fd]
    BY <1>1, AcceptTakes DEF SocketInv
  <2>2. Away(c) /\ \A t \in Closers : at[t] # c
    BY <1>1, AcceptTakes DEF SocketInv
  <2>3. task' = [task EXCEPT ![c] = "new"] /\ UNCHANGED <<pc, at>>
    BY <1>1 DEF Accept
  <2> QED BY <2>1, <2>2, <2>3
<1>2. ASSUME addVerify PROVE Owned'
  BY <1>2 DEF addVerify
<1>3. ASSUME epollAdd PROVE Owned'
  BY <1>3 DEF epollAdd, EpollAdd
<1>4. ASSUME NEW c \in Conns, PeerCloses(c) PROVE Owned'
  BY <1>4 DEF PeerCloses
<1>5. ASSUME NEW t \in Closers, Shutdown(t) PROVE Owned'
  BY <1>5 DEF Shutdown
<1>6. ASSUME NEW t \in Closers, Close(t) PROVE Owned'
  BY <1>6 DEF Close
<1>7. ASSUME NEW t \in Closers, Clear(t) PROVE Owned'
  BY <1>7 DEF Clear
<1>8. ASSUME NEW cs \in SUBSET Conns, Wait(cs) PROVE Owned'
  BY <1>8 DEF Wait
<1>9. ASSUME NEW c \in Conns, NextEvent(c) PROVE Owned'
  BY <1>9 DEF NextEvent
<1>10. ASSUME RecvEnd PROVE Owned'
  BY <1>10 DEF RecvEnd
<1>11. ASSUME RecvData PROVE Owned'
  BY <1>11 DEF RecvData
<1>12. ASSUME RecvFails PROVE Owned'
  BY <1>12 DEF RecvFails
<1>13. ASSUME AddAgain PROVE Owned'
  BY <1>13 DEF AddAgain, EpollAdd
<1>14. ASSUME NEW c \in Conns, Send(c) PROVE Owned'
  BY <1>14 DEF Send
<1>15. ASSUME NEW c \in Conns, Recycle(c) PROVE Owned'
  BY <1>15 DEF Recycle
<1>16. ASSUME NEW c \in Conns, Delete(c) PROVE Owned'
  BY <1>16 DEF Delete
<1>17. CASE UNCHANGED vars
  BY <1>17 DEF vars
<1> QED BY <1>1, <1>2, <1>3, <1>4, <1>5, <1>6, <1>7, <1>8, <1>9, <1>10, <1>11,
      <1>12, <1>13, <1>14, <1>15, <1>16, <1>17 DEF Next, Events, Handle, DisConnet

\* A connection is accepted once, so that what has been closed stays closed.
LEMMA GoneKept ==
    ASSUME SocketInv, [Next]_vars
    PROVE  Gone'
<1> USE FdsAssumption, ConnsAssumption DEF SocketInv, TypeOK, Owned, Gone, Known, Away, Target
<1>1. ASSUME NEW c \in Conns, Accept(c) PROVE Gone'
  <2>1. PICK fd \in Fds : file[fd] = None /\ file' = [file EXCEPT ![fd] = c]
                          /\ sock' = [sock EXCEPT ![c] = fd]
    BY <1>1, AcceptTakes DEF SocketInv
  <2>2. Away(c) /\ \A t \in Closers : at[t] # c
    BY <1>1, AcceptTakes DEF SocketInv
  <2>3. task' = [task EXCEPT ![c] = "new"] /\ UNCHANGED <<pc, at>>
    BY <1>1 DEF Accept
  <2> QED BY <2>1, <2>2, <2>3
<1>2. ASSUME addVerify PROVE Gone'
  BY <1>2 DEF addVerify
<1>3. ASSUME epollAdd PROVE Gone'
  BY <1>3 DEF epollAdd, EpollAdd
<1>4. ASSUME NEW c \in Conns, PeerCloses(c) PROVE Gone'
  BY <1>4 DEF PeerCloses
<1>5. ASSUME NEW t \in Closers, Shutdown(t) PROVE Gone'
  BY <1>5 DEF Shutdown
<1>6. ASSUME NEW t \in Closers, Close(t) PROVE Gone'
  BY <1>6 DEF Close
<1>7. ASSUME NEW t \in Closers, Clear(t) PROVE Gone'
  BY <1>7 DEF Clear
<1>8. ASSUME NEW cs \in SUBSET Conns, Wait(cs) PROVE Gone'
  BY <1>8 DEF Wait
<1>9. ASSUME NEW c \in Conns, NextEvent(c) PROVE Gone'
  BY <1>9 DEF NextEvent
<1>10. ASSUME RecvEnd PROVE Gone'
  BY <1>10 DEF RecvEnd
<1>11. ASSUME RecvData PROVE Gone'
  BY <1>11 DEF RecvData
<1>12. ASSUME RecvFails PROVE Gone'
  BY <1>12 DEF RecvFails
<1>13. ASSUME AddAgain PROVE Gone'
  BY <1>13 DEF AddAgain, EpollAdd
<1>14. ASSUME NEW c \in Conns, Send(c) PROVE Gone'
  BY <1>14 DEF Send
<1>15. ASSUME NEW c \in Conns, Recycle(c) PROVE Gone'
  BY <1>15 DEF Recycle
<1>16. ASSUME NEW c \in Conns, Delete(c) PROVE Gone'
  BY <1>16 DEF Delete
<1>17. CASE UNCHANGED vars
  BY <1>17 DEF vars
<1> QED BY <1>1, <1>2, <1>3, <1>4, <1>5, <1>6, <1>7, <1>8, <1>9, <1>10, <1>11,
      <1>12, <1>13, <1>14, <1>15, <1>16, <1>17 DEF Next, Events, Handle, DisConnet

\* What has been accepted remains so.
LEMMA KnownKept ==
    ASSUME SocketInv, [Next]_vars
    PROVE  Known'
<1> USE FdsAssumption, ConnsAssumption DEF SocketInv, TypeOK, Owned, Known, Target
<1>1. ASSUME NEW c \in Conns, Accept(c) PROVE Known'
  BY <1>1 DEF Accept, FreeFds
<1>2. ASSUME addVerify PROVE Known'
  BY <1>2 DEF addVerify
<1>3. ASSUME epollAdd PROVE Known'
  BY <1>3 DEF epollAdd, EpollAdd
<1>4. ASSUME NEW c \in Conns, PeerCloses(c) PROVE Known'
  BY <1>4 DEF PeerCloses
<1>5. ASSUME NEW t \in Closers, Shutdown(t) PROVE Known'
  BY <1>5 DEF Shutdown
<1>6. ASSUME NEW t \in Closers, Close(t) PROVE Known'
  BY <1>6 DEF Close
<1>7. ASSUME NEW t \in Closers, Clear(t) PROVE Known'
  BY <1>7 DEF Clear
<1>8. ASSUME NEW cs \in SUBSET Conns, Wait(cs) PROVE Known'
  BY <1>8 DEF Wait
<1>9. ASSUME NEW c \in Conns, NextEvent(c) PROVE Known'
  BY <1>9 DEF NextEvent
<1>10. ASSUME RecvEnd PROVE Known'
  BY <1>10 DEF RecvEnd
<1>11. ASSUME RecvData PROVE Known'
  BY <1>11 DEF RecvData
<1>12. ASSUME RecvFails PROVE Known'
  BY <1>12 DEF RecvFails
<1>13. ASSUME AddAgain PROVE Known'
  BY <1>13 DEF AddAgain, EpollAdd
<1>14. ASSUME NEW c \in Conns, Send(c) PROVE Known'
  BY <1>14 DEF Send
<1>15. ASSUME NEW c \in Conns, Recycle(c) PROVE Known'
  BY <1>15 DEF Recycle
<1>16. ASSUME NEW c \in Conns, Delete(c) PROVE Known'
  BY <1>16 DEF Delete
<1>17. CASE UNCHANGED vars
  BY <1>17 DEF vars
<1> QED BY <1>1, <1>2, <1>3, <1>4, <1>5, <1>6, <1>7, <1>8, <1>9, <1>10, <1>11,
      <1>12, <1>13, <1>14, <1>15, <1>16, <1>17 DEF Next, Events, Handle, DisConnet

\* The recycle thread closes before it deletes.
LEMMA NoneLeftKept ==
    ASSUME SocketInv, [Next]_vars
    PROVE  NoneLeft'
<1> USE FdsAssumption, ConnsAssumption DEF SocketInv, TypeOK, Owned, Gone, Known, NoneLeft, Away, Target
<1>1. ASSUME NEW c \in Conns, Accept(c) PROVE NoneLeft'
  <2>1. PICK fd \in Fds : file[fd] = None /\ file' = [file EXCEPT ![fd] = c]
                          /\ sock' = [sock EXCEPT ![c] = fd]
    BY <1>1, AcceptTakes DEF SocketInv
  <2>2. Away(c) /\ \A t \in Closers : at[t] # c
    BY <1>1, AcceptTakes DEF SocketInv
  <2>3. task' = [task EXCEPT ![c] = "new"] /\ UNCHANGED <<pc, at>>
    BY <1>1 DEF Accept
  <2> QED BY <2>1, <2>2, <2>3
<1>2. ASSUME addVerify PROVE NoneLeft'
  BY <1>2 DEF addVerify
<1>3. ASSUME epollAdd PROVE NoneLeft'
  BY <1>3 DEF epollAdd, EpollAdd
<1>4. ASSUME NEW c \in Conns, PeerCloses(c) PROVE NoneLeft'
  BY <1>4 DEF PeerCloses
<1>5. ASSUME NEW t \in Closers, Shutdown(t) PROVE NoneLeft'
  BY <1>5 DEF Shutdown
<1>6. ASSUME NEW t \in Closers, Close(t) PROVE NoneLeft'
  BY <1>6 DEF Close
<1>7. ASSUME NEW t \in Closers, Clear(t) PROVE NoneLeft'
  BY <1>7 DEF Clear
<1>8. ASSUME NEW cs \in SUBSET Conns, Wait(cs) PROVE NoneLeft'
  BY <1>8 DEF Wait
<1>9. ASSUME NEW c \in Conns, NextEvent(c) PROVE NoneLeft'
  BY <1>9 DEF NextEvent
<1>10. ASSUME RecvEnd PROVE NoneLeft'
  BY <1>10 DEF RecvEnd
<1>11. ASSUME RecvData PROVE NoneLeft'
  BY <1>11 DEF RecvData
<1>12. ASSUME RecvFails PROVE NoneLeft'
  BY <1>12 DEF RecvFails
<1>13. ASSUME AddAgain PROVE NoneLeft'
  BY <1>13 DEF AddAgain, EpollAdd
<1>14. ASSUME NEW c \in Conns, Send(c) PROVE NoneLeft'
  BY <1>14 DEF Send
<1>15. ASSUME NEW c \in Conns, Recycle(c) PROVE NoneLeft'
  BY <1>15 DEF Recycle
<1>16. ASSUME NEW c \in Conns, Delete(c) PROVE NoneLeft'
  BY <1>16 DEF Delete
<1>17. CASE UNCHANGED vars
  BY <1>17 DEF vars
<1> QED BY <1>1, <1>2, <1>3, <1>4, <1>5, <1>6, <1>7, <1>8, <1>9, <1>10, <1>11,
      <1>12, <1>13, <1>14, <1>15, <1>16, <1>17 DEF Next, Events, Handle, DisConnet

\* A call of one thread alone works on its own connection.
LEMMA CalmKept ==
    ASSUME SocketInv, [Next]_vars
    PROVE  Calm'
<1> USE FdsAssumption, ConnsAssumption DEF SocketInv, TypeOK, Owned, Gone, Known, Away, Target
<1>1. ASSUME NEW c \in Conns, Accept(c) PROVE Calm'
  BY <1>1 DEF Accept, FreeFds, Calm, Apart, EventsTrue, Registered, Numbered
<1>2. ASSUME addVerify PROVE Calm'
  BY <1>2 DEF addVerify, Calm, Apart, EventsTrue, Registered, Numbered
<1>3. ASSUME epollAdd PROVE Calm'
  <2> SUFFICES ASSUME contested' = {} PROVE (Apart /\ EventsTrue)'
    BY DEF Calm
  <2>0. accepting \in Conns /\ Call("accept", accepting) /\ ("accept" \in Closers => pc["accept"] # "clear")
    BY <1>3 DEF epollAdd
  <2>1. contested = {} /\ harmed' = FALSE /\ Target(accepting) \in {accepting, None} /\ accepting \in Conns
    <3>1. SocketInv
      OBVIOUS
    <3> HIDE DEF SocketInv, Call, Target, Closers
    <3> QED BY <2>0, <3>1, CallMeetsOwn
  <2>2. Apart /\ EventsTrue
    BY <2>1 DEF Calm
  <2>3. Apart'
    BY <1>3, <2>1, <2>2 DEF Apart, Numbered, epollAdd, EpollAdd
  <2>4. EventsTrue'
    BY <1>3, <2>1, <2>2 DEF EventsTrue, Registered, epollAdd, EpollAdd
  <2> QED BY <2>3, <2>4
<1>4. ASSUME NEW c \in Conns, PeerCloses(c) PROVE Calm'
  BY <1>4 DEF PeerCloses, Calm, Apart, EventsTrue, Registered, Numbered
<1>5. ASSUME NEW t \in Closers, Shutdown(t) PROVE Calm'
  <2> SUFFICES ASSUME contested' = {} PROVE (Apart /\ EventsTrue)'
    BY DEF Calm
  <2>0. at[t] \in Conns /\ Call(t, at[t]) /\ (t \in Closers => pc[t] # "clear")
    BY <1>5 DEF Shutdown
  <2>1. contested = {} /\ harmed' = FALSE /\ Target(at[t]) \in {at[t], None} /\ at[t] \in Conns
    <3>1. SocketInv
      OBVIOUS
    <3> HIDE DEF SocketInv, Call, Target, Closers
    <3> QED BY <2>0, <3>1, CallMeetsOwn
  <2>2. Apart /\ EventsTrue
    BY <2>1 DEF Calm
  <2>3. Apart'
    BY <1>5, <2>1, <2>2 DEF Apart, Numbered, Shutdown
  <2>4. EventsTrue'
    BY <1>5, <2>1, <2>2 DEF EventsTrue, Registered, Shutdown
  <2> QED BY <2>3, <2>4
<1>6. ASSUME NEW t \in Closers, Close(t) PROVE Calm'
  <2> SUFFICES ASSUME contested' = {} PROVE (Apart /\ EventsTrue)'
    BY DEF Calm
  <2>0. at[t] \in Conns /\ Call(t, at[t]) /\ (t \in Closers => pc[t] # "clear")
    BY <1>6 DEF Close
  <2>1. contested = {} /\ harmed' = FALSE /\ Target(at[t]) \in {at[t], None} /\ at[t] \in Conns
    <3>1. SocketInv
      OBVIOUS
    <3> HIDE DEF SocketInv, Call, Target, Closers
    <3> QED BY <2>0, <3>1, CallMeetsOwn
  <2>2. Apart /\ EventsTrue
    BY <2>1 DEF Calm
  <2>3. /\ \A c \in Conns : pointer'[c] = pointer[c] \/ (pointer'[c] = None /\ Away(c)')
        /\ \A c \in Conns : Away(c) => Away(c)'
    BY <1>6, <2>1 DEF Close
  <2>4. \A c \in Conns : Numbered(c)'
    <3> SUFFICES ASSUME NEW c \in Conns PROVE Numbered(c)'
      OBVIOUS
    <3>1. CASE c = at[t]
      BY <1>6, <3>1 DEF Close, Numbered
    <3>2. CASE c # at[t]
      <4>1. Numbered(c)
        BY <2>2 DEF Apart
      <4>2. Target(c) = c => Target(c)' = c
        <5> SUFFICES ASSUME Target(c) = c PROVE Target(c)' = c
          OBVIOUS
        <5>1. sock[c] \in Fds /\ file[sock[c]] = c /\ sock' = sock
          BY <1>6 DEF Close
        <5>2. CASE Target(at[t]) = None
          BY <1>6, <5>1, <5>2 DEF Close
        <5>3. CASE Target(at[t]) = at[t]
          <6>1. sock[at[t]] # sock[c] /\ sock[at[t]] \in Fds
            BY <2>0, <3>2, <5>1, <5>3
          <6>2. file' = [file EXCEPT ![sock[at[t]]] = None]
            BY <1>6, <2>0, <5>3 DEF Close
          <6> QED BY <5>1, <6>1, <6>2
        <5> QED BY <2>1, <5>2, <5>3
      <4>3. sock' = sock /\ at' = at /\ \A u \in Closers : pc[u] = "clear" => pc'[u] = "clear"
        BY <1>6 DEF Close
      <4> QED BY <4>1, <4>2, <4>3 DEF Numbered
    <3> QED BY <3>1, <3>2
  <2>5. Apart'
    BY <2>1, <2>2, <2>3, <2>4 DEF Apart
  <2>6. EventsTrue'
    BY <1>6, <2>1, <2>2, <2>3 DEF EventsTrue, Registered, Close
  <2> QED BY <2>5, <2>6
<1>7. ASSUME NEW t \in Closers, Clear(t) PROVE Calm'
  BY <1>7 DEF Clear, Calm, Apart, EventsTrue, Registered, Numbered
<1>8. ASSUME NEW cs \in SUBSET Conns, Wait(cs) PROVE Calm'
  BY <1>8 DEF Wait, Calm, Apart, EventsTrue, Registered, Numbered
<1>9. ASSUME NEW c \in Conns, NextEvent(c) PROVE Calm'
  BY <1>9 DEF NextEvent, Calm, Apart, EventsTrue, Registered, Numbered
<1>10. ASSUME RecvEnd PROVE Calm'
  <2> SUFFICES ASSUME contested' = {} PROVE (Apart /\ EventsTrue)'
    BY DEF Calm
  <2>0. at["epoll"] \in Conns /\ Call("epoll", at["epoll"]) /\ ("epoll" \in Closers => pc["epoll"] # "clear")
    BY <1>10 DEF RecvEnd
  <2>1. contested = {} /\ harmed' = FALSE /\ Target(at["epoll"]) \in {at["epoll"], None} /\ at["epoll"] \in Conns
    <3>1. SocketInv
      OBVIOUS
    <3> HIDE DEF SocketInv, Call, Target, Closers
    <3> QED BY <2>0, <3>1, CallMeetsOwn
  <2>2. Apart /\ EventsTrue
    BY <2>1 DEF Calm
  <2>3. Apart'
    BY <1>10, <2>1, <2>2 DEF Apart, Numbered, RecvEnd
  <2>4. EventsTrue'
    BY <1>10, <2>1, <2>2 DEF EventsTrue, Registered, RecvEnd
  <2> QED BY <2>3, <2>4
<1>11. ASSUME RecvData PROVE Calm'
  <2> SUFFICES ASSUME contested' = {} PROVE (Apart /\ EventsTrue)'
    BY DEF Calm
  <2>0. at["epoll"] \in Conns /\ Call("epoll", at["epoll"]) /\ ("epoll" \in Closers => pc["epoll"] # "clear")
    BY <1>11 DEF RecvData
  <2>1. contested = {} /\ harmed' = FALSE /\ Target(at["epoll"]) \in {at["epoll"], None} /\ at["epoll"] \in Conns
    <3>1. SocketInv
      OBVIOUS
    <3> HIDE DEF SocketInv, Call, Target, Closers
    <3> QED BY <2>0, <3>1, CallMeetsOwn
  <2>2. Apart /\ EventsTrue
    BY <2>1 DEF Calm
  <2>3. Apart'
    BY <1>11, <2>1, <2>2 DEF Apart, Numbered, RecvData
  <2>4. EventsTrue'
    BY <1>11, <2>1, <2>2 DEF EventsTrue, Registered, RecvData
  <2> QED BY <2>3, <2>4
<1>12. ASSUME RecvFails PROVE Calm'
  <2> SUFFICES ASSUME contested' = {} PROVE (Apart /\ EventsTrue)'
    BY DEF Calm
  <2>0. at["epoll"] \in Conns /\ Call("epoll", at["epoll"]) /\ ("epoll" \in Closers => pc["epoll"] # "clear")
    BY <1>12 DEF RecvFails
  <2>1. contested = {} /\ harmed' = FALSE /\ Target(at["epoll"]) \in {at["epoll"], None} /\ at["epoll"] \in Conns
    <3>1. SocketInv
      OBVIOUS
    <3> HIDE DEF SocketInv, Call, Target, Closers
    <3> QED BY <2>0, <3>1, CallMeetsOwn
  <2>2. Apart /\ EventsTrue
    BY <2>1 DEF Calm
  <2>3. Apart'
    BY <1>12, <2>1, <2>2 DEF Apart, Numbered, RecvFails
  <2>4. EventsTrue'
    BY <1>12, <2>1, <2>2 DEF EventsTrue, Registered, RecvFails
  <2> QED BY <2>3, <2>4
<1>13. ASSUME AddAgain PROVE Calm'
  <2> SUFFICES ASSUME contested' = {} PROVE (Apart /\ EventsTrue)'
    BY DEF Calm
  <2>0. at["epoll"] \in Conns /\ Call("epoll", at["epoll"]) /\ ("epoll" \in Closers => pc["epoll"] # "clear")
    BY <1>13 DEF AddAgain
  <2>1. contested = {} /\ harmed' = FALSE /\ Target(at["epoll"]) \in {at["epoll"], None} /\ at["epoll"] \in Conns
    <3>1. SocketInv
      OBVIOUS
    <3> HIDE DEF SocketInv, Call, Target, Closers
    <3> QED BY <2>0, <3>1, CallMeetsOwn
  <2>2. Apart /\ EventsTrue
    BY <2>1 DEF Calm
  <2>3. UNCHANGED <<pointer, file, sock>>
    BY <1>13, <2>1, <2>2 DEF AddAgain, EpollAdd, EventsTrue, Registered
  <2>4. Apart'
    BY <1>13, <2>1, <2>2, <2>3 DEF AddAgain, Apart, Numbered
  <2>5. EventsTrue'
    BY <1>13, <2>2, <2>3 DEF AddAgain, EventsTrue, Registered
  <2> QED BY <2>4, <2>5
<1>14. ASSUME NEW c \in Conns, Send(c) PROVE Calm'
  <2> SUFFICES ASSUME contested' = {} PROVE (Apart /\ EventsTrue)'
    BY DEF Calm
  <2>0. c \in Conns /\ Call("owner", c) /\ ("owner" \in Closers => pc["owner"] # "clear")
    BY <1>14 DEF Send
  <2>1. contested = {} /\ harmed' = FALSE /\ Target(c) \in {c, None} /\ c \in Conns
    <3>1. SocketInv
      OBVIOUS
    <3> HIDE DEF SocketInv, Call, Target, Closers
    <3> QED BY <2>0, <3>1, CallMeetsOwn
  <2>2. Apart /\ EventsTrue
    BY <2>1 DEF Calm
  <2>3. Apart'
    BY <1>14, <2>1, <2>2 DEF Apart, Numbered, Send
  <2>4. EventsTrue'
    BY <1>14, <2>1, <2>2 DEF EventsTrue, Registered, Send
  <2> QED BY <2>3, <2>4
<1>15. ASSUME NEW c \in Conns, Recycle(c) PROVE Calm'
  BY <1>15 DEF Recycle, Calm, Apart, EventsTrue, Registered, Numbered
<1>16. ASSUME NEW c \in Conns, Delete(c) PROVE Calm'
  BY <1>16 DEF Delete, Calm, Apart, EventsTrue, Registered, Numbered
<1>17. CASE UNCHANGED vars
  BY <1>17 DEF vars, Calm, Apart, EventsTrue, Registered, Numbered
<1> QED BY <1>1, <1>2, <1>3, <1>4, <1>5, <1>6, <1>7, <1>8, <1>9, <1>10, <1>11,
      <1>12, <1>13, <1>14, <1>15, <1>16, <1>17 DEF Next, Events, Handle, DisConnet

-----------------------------------------------------------------------------
(* The theorems                                                            *)

\* The invariant.
THEOREM SocketInvariant == Spec => []SocketInv
<1>1. SocketInv /\ [Next]_vars => SocketInv'
  BY TypesKept, OwnedKept, GoneKept, KnownKept, NoneLeftKept, CalmKept DEF SocketInv
<1> QED BY InitSocketInv, <1>1, PTL DEF Spec

\* Every variable keeps its type.
THEOREM SocketTypes == Spec => []TypeOK
<1>1. SocketInv => TypeOK
  BY DEF SocketInv
<1> QED BY <1>1, SocketInvariant, PTL

\* The descriptor of a deleted task has been given back, whoever closed first and
\* however many threads were in DisConnet.
THEOREM DescriptorReturned == Spec => []NoneLeft
<1>1. SocketInv => NoneLeft
  BY DEF SocketInv
<1> QED BY <1>1, SocketInvariant, PTL

\* No thread has met another's connection before two threads have met in one.
THEOREM AloneIsSafe == Spec => []AloneUnharmed
<1>1. SocketInv => AloneUnharmed
  BY DEF SocketInv, Calm, Apart, Numbered, AloneUnharmed
<1> QED BY <1>1, SocketInvariant, PTL
=============================================================================
