------------------------------ MODULE SocketFd ------------------------------
(***************************************************************************)
(* The life of a connection's descriptor. zSocket keeps a number; the      *)
(* kernel keeps a table of what the numbers stand for, and gives a number  *)
(* that has been closed to the next connection it accepts. Three threads   *)
(* close: the epoll thread when recv reports the end or a header is wrong, *)
(* the owner (a verify thread, whose sends are not buffered) when a send   *)
(* fails, the recycle thread when it deletes the task. None of them takes  *)
(* a common lock.                                                          *)
(***************************************************************************)
EXTENDS Integers

CONSTANTS
    Conns,  \* the connections that come; also the pointer to the zSocket of one
    Fds,    \* the descriptors the kernel has left to give
    None,   \* no connection
    Junk    \* a pointer that nobody has set

Invalid == -2              \* INVALID_SOCKET
Closers == {"epoll", "owner", "recycle"}

ASSUME FdsAssumption == Fds \subseteq Nat
ASSUME ConnsAssumption == None \notin Conns /\ Junk \notin Conns \cup {None}

VARIABLES
    file,       \* the kernel's table: the connection a descriptor stands for
    peer,       \* its other end: "open", "ending" (closed, with data unread
                \* here) or "closed"
    pointer,    \* what epoll has registered with a connection: its data.ptr
    sock,       \* zSocket::sock of a connection
    task,       \* its zTCPTask: "none", "new", "served", "recycled" or "deleted"
    accepting,  \* the connection newTCPTask has in hand
    backEvents, \* the events of the last epoll_wait that are still to be handled
    pc,         \* where a closer is: "idle", "recv", "add", or in DisConnet:
                \* "shutdown", "close", "clear"
    at,         \* and with which connection
    contested,  \* for the properties: connections used by a thread while another
                \* was in DisConnet with them
    harmed      \* for the properties: a call has met another connection

vars == <<file, peer, pointer, sock, task, accepting, backEvents, pc, at,
          contested, harmed>>

kernel == <<file, peer, pointer>>

Goto(t, l) == pc' = [pc EXCEPT ![t] = l]
GotoWith(t, l, c) == Goto(t, l) /\ at' = [at EXCEPT ![t] = c]

Closing(t, c) == pc[t] \in {"shutdown", "close", "clear"} /\ at[t] = c

\* Thread t makes a system call with sock of connection c: on whose file it
\* works, None if the number is not in use.
Target(c) == IF sock[c] = Invalid THEN None ELSE file[sock[c]]
Call(t, c) ==
    /\ contested' = IF \E u \in Closers \ {t} : Closing(u, c)
                    THEN contested \cup {c} ELSE contested
    /\ harmed' = (harmed \/ Target(c) \notin {c, None})

-----------------------------------------------------------------------------
(* The accept thread: zTCPServer::Accept and SuperService::newTCPTask      *)

FreeFds == {fd \in Fds : file[fd] = None}

\* accept takes the lowest descriptor; zTCPTask and zSocket are constructed.
Accept(c) ==
    /\ accepting = None /\ task[c] = "none"
    /\ \E fd \in FreeFds :
          /\ \A other \in FreeFds : fd <= other
          /\ file' = [file EXCEPT ![fd] = c]
          /\ sock' = [sock EXCEPT ![c] = fd]
    /\ task' = [task EXCEPT ![c] = "new"]
    /\ accepting' = c
    /\ UNCHANGED <<peer, pointer, backEvents, pc, at, contested, harmed>>

\* addVerify gives the task to the pool.
addVerify ==
    /\ accepting # None /\ task[accepting] = "new"
    /\ task' = [task EXCEPT ![accepting] = "served"]
    /\ UNCHANGED <<kernel, sock, accepting, backEvents, pc, at, contested, harmed>>

\* EPOLL_CTL_ADD with what sock of c says: fails for a number that is not in use
\* and for a file that is registered, and nobody looks at the result.
EpollAdd(c, ptr) ==
    pointer' = IF Target(c) # None /\ pointer[Target(c)] = None
               THEN [pointer EXCEPT ![Target(c)] = ptr] ELSE pointer

\* epoll.add at the end of newTCPTask.
epollAdd ==
    /\ accepting # None /\ task[accepting] # "new"
    /\ EpollAdd(accepting, accepting)
    /\ Call("accept", accepting)
    /\ accepting' = None
    /\ UNCHANGED <<file, peer, sock, task, backEvents, pc, at>>

PeerCloses(c) ==
    /\ task[c] # "none" /\ peer[c] = "open"
    /\ \E end \in {"ending", "closed"} : peer' = [peer EXCEPT ![c] = end]
    /\ UNCHANGED <<file, pointer, sock, task, accepting, backEvents, pc,
                   at, contested, harmed>>

-----------------------------------------------------------------------------
(* zSocket::DisConnet, in whatever thread                                  *)

Shutdown(t) ==
    /\ pc[t] = "shutdown"
    /\ Call(t, at[t])
    /\ peer' = IF Target(at[t]) = None THEN peer
               ELSE [peer EXCEPT ![Target(at[t])] = "closed"]
    /\ Goto(t, "close")
    /\ UNCHANGED <<file, pointer, sock, task, accepting, backEvents, at>>

\* close() takes the file out of the table, and out of epoll with it.
Close(t) ==
    /\ pc[t] = "close"
    /\ Call(t, at[t])
    /\ IF Target(at[t]) = None THEN UNCHANGED <<file, pointer>>
       ELSE /\ file' = [file EXCEPT ![sock[at[t]]] = None]
            /\ pointer' = [pointer EXCEPT ![Target(at[t])] = None]
    /\ Goto(t, "clear")
    /\ UNCHANGED <<peer, sock, task, accepting, backEvents, at>>

\* Mutant: the number is kept.
Clear_kept(t) ==
    /\ pc[t] = "clear"
    /\ GotoWith(t, "idle", None)
    /\ task' = IF t = "recycle" THEN [task EXCEPT ![at[t]] = "deleted"] ELSE task
    /\ UNCHANGED <<kernel, sock, accepting, backEvents, contested, harmed>>

\* sock = INVALID_SOCKET; in SafeDelete, which then returns false, the task has
\* no socket any more and its memory is given back.
Clear(t) ==
    /\ pc[t] = "clear"
    /\ sock' = [sock EXCEPT ![at[t]] = Invalid]
    /\ GotoWith(t, "idle", None)
    /\ task' = IF t = "recycle" THEN [task EXCEPT ![at[t]] = "deleted"] ELSE task
    /\ UNCHANGED <<kernel, accepting, backEvents, contested, harmed>>

DisConnet(t) == Shutdown(t) \/ Close(t) \/ Clear(t)

-----------------------------------------------------------------------------
(* zEpollRecvThread::run                                                   *)

\* epoll_wait: some of the registered connections have something to tell.
Wait(cs) ==
    /\ pc["epoll"] = "idle" /\ backEvents = {}
    /\ cs # {} /\ \A c \in cs : pointer[c] \in Conns
    /\ backEvents' = {pointer[c] : c \in cs}
    /\ UNCHANGED <<kernel, sock, task, accepting, pc, at, contested, harmed>>

NextEvent(c) ==
    /\ pc["epoll"] = "idle" /\ c \in backEvents
    /\ backEvents' = backEvents \ {c}
    /\ GotoWith("epoll", "recv", c)
    /\ UNCHANGED <<kernel, sock, task, accepting, contested, harmed>>

\* Mutant: the end of the stream is taken for an empty read.
RecvEnd_ignored ==
    /\ pc["epoll"] = "recv" /\ Target(at["epoll"]) # None
    /\ peer[Target(at["epoll"])] = "closed"
    /\ Call("epoll", at["epoll"])
    /\ GotoWith("epoll", "idle", None)
    /\ UNCHANGED <<kernel, sock, task, accepting, backEvents>>

\* RecvData returns 0: DisConnet. That run looks at errno first can put it off by
\* a round (RecvPath).
RecvEnd ==
    /\ pc["epoll"] = "recv" /\ Target(at["epoll"]) # None
    /\ peer[Target(at["epoll"])] = "closed"
    /\ Call("epoll", at["epoll"])
    /\ Goto("epoll", "shutdown")
    /\ UNCHANGED <<kernel, sock, task, accepting, backEvents, at>>

\* It returns more than 0, or has found a wrong header and closes, or fails: -1,
\* which is ignored. Of a peer that has closed what is unread comes first.
RecvData ==
    /\ pc["epoll"] = "recv" /\ Target(at["epoll"]) # None
    /\ peer[Target(at["epoll"])] # "closed"
    /\ Call("epoll", at["epoll"])
    /\ peer' = IF peer[Target(at["epoll"])] = "open" THEN peer
               ELSE [peer EXCEPT ![Target(at["epoll"])] = "closed"]
    /\ \/ Goto("epoll", "add") /\ UNCHANGED at
       \/ Goto("epoll", "shutdown") /\ UNCHANGED at
       \/ GotoWith("epoll", "idle", None)
    /\ UNCHANGED <<file, pointer, sock, task, accepting, backEvents>>

RecvFails ==
    /\ pc["epoll"] = "recv" /\ Target(at["epoll"]) = None
    /\ Call("epoll", at["epoll"])
    /\ GotoWith("epoll", "idle", None)
    /\ UNCHANGED <<kernel, sock, task, accepting, backEvents>>

\* epoll->add(sock, &epEvent), with a data.ptr that nobody has set: it does
\* nothing, because the connection is registered.
AddAgain ==
    /\ pc["epoll"] = "add"
    /\ EpollAdd(at["epoll"], Junk)
    /\ Call("epoll", at["epoll"])
    /\ GotoWith("epoll", "idle", None)
    /\ UNCHANGED <<file, peer, sock, task, accepting, backEvents>>

-----------------------------------------------------------------------------
(* The owner and the recycle thread                                        *)

\* The owner answers, in zSocket::sendCmd: -1 makes it close, be it for the second
\* time. What is sent first to a peer that has closed may yet be accepted. (An okay
\* thread only puts in tQueue, and sync does not close.)
Send(c) ==
    /\ pc["owner"] = "idle" /\ task[c] = "served"
    /\ Call("owner", c)
    /\ \/ /\ Target(c) # None => peer[Target(c)] # "open"
          /\ GotoWith("owner", "shutdown", c)
       \/ Target(c) # None /\ UNCHANGED <<pc, at>>
    /\ UNCHANGED <<kernel, sock, task, accepting, backEvents>>

\* The pool gives up the task (TaskPool): for a socket that is not valid, or for
\* any other reason. Its owner is done with it.
Recycle(c) ==
    /\ task[c] = "served" /\ at["owner"] # c
    /\ task' = [task EXCEPT ![c] = "recycled"]
    /\ UNCHANGED <<kernel, sock, accepting, backEvents, pc, at, contested, harmed>>

\* Mutant: the destructor leaves the descriptor to others.
Delete_open(c) ==
    /\ pc["recycle"] = "idle" /\ task[c] = "recycled" /\ accepting # c
    /\ task' = [task EXCEPT ![c] = "deleted"]
    /\ UNCHANGED <<kernel, sock, pc, at, accepting, backEvents, contested, harmed>>

\* ~zTCPTask: SafeDelete finds m_bTaskDeleted unset, as always. That newTCPTask
\* may still use the task is TaskPool's subject, here it does not.
Delete(c) ==
    /\ pc["recycle"] = "idle" /\ task[c] = "recycled" /\ accepting # c
    /\ GotoWith("recycle", "shutdown", c)
    /\ UNCHANGED <<kernel, sock, task, accepting, backEvents, contested, harmed>>

-----------------------------------------------------------------------------
Init ==
    /\ file = [fd \in Fds |-> None]
    /\ peer = [c \in Conns |-> "open"]
    /\ pointer = [c \in Conns |-> None]
    /\ sock = [c \in Conns |-> Invalid]
    /\ task = [c \in Conns |-> "none"]
    /\ accepting = None /\ backEvents = {}
    /\ pc = [t \in Closers |-> "idle"] /\ at = [t \in Closers |-> None]
    /\ contested = {} /\ harmed = FALSE

Events == \E cs \in SUBSET Conns : Wait(cs)
Handle == RecvEnd \/ RecvData \/ RecvFails \/ AddAgain \/ \E c \in Conns : NextEvent(c)

Next ==
    \/ \E c \in Conns : Accept(c) \/ PeerCloses(c) \/ Send(c) \/ Recycle(c) \/ Delete(c)
    \/ addVerify \/ epollAdd
    \/ \E t \in Closers : DisConnet(t)
    \/ Events \/ Handle

Spec == Init /\ [][Next]_vars

\* Threads go on, the recycle thread deletes what it is given, and epoll_wait does
\* not pass over a connection for ever. The pool need not give up any.
Fairness ==
    /\ WF_vars(addVerify) /\ WF_vars(epollAdd)
    /\ \A t \in Closers : WF_vars(DisConnet(t))
    /\ WF_vars(Handle)
    /\ \A c \in Conns : SF_vars(\E cs \in SUBSET Conns : c \in cs /\ Wait(cs))
    /\ \A c \in Conns : WF_vars(Delete(c))
FairSpec == Spec /\ Fairness

-----------------------------------------------------------------------------
TypeOK ==
    /\ file \in [Fds -> Conns \cup {None}]
    /\ peer \in [Conns -> {"open", "ending", "closed"}]
    /\ pointer \in [Conns -> Conns \cup {None, Junk}]
    /\ sock \in [Conns -> Fds \cup {Invalid}]
    /\ task \in [Conns -> {"none", "new", "served", "recycled", "deleted"}]
    /\ backEvents \subseteq Conns
    /\ accepting \in Conns \cup {None}
    /\ pc \in [Closers -> {"idle", "recv", "add", "shutdown", "close", "clear"}]
    /\ at \in [Closers -> Conns \cup {None}]
    /\ contested \subseteq Conns
    /\ harmed \in BOOLEAN

\* As long as no thread has used a connection that another was closing, nobody
\* has touched a connection that was not his: a number that has been given to
\* another connection is found in a zSocket only between close() and the next
\* statement, and epoll knows each connection by its own zSocket.
AloneUnharmed ==
    contested = {} =>
        /\ ~harmed
        /\ \A c \in Conns : \/ Target(c) = c
                            \/ sock[c] = Invalid
                            \/ \E t \in Closers : pc[t] = "clear" /\ at[t] = c
        /\ \A c \in Conns : pointer[c] \in {None, c}

\* Whoever closes first and however often, the descriptor of a deleted task has
\* been given back.
NoneLeft == \A c \in Conns : task[c] = "deleted" => \A fd \in Fds : file[fd] # c

\* The descriptor of a connection that the peer has closed is given back, whether
\* or not the pool gives up the task.
ClosedGivenBack ==
    \A c \in Conns : (peer[c] # "open" /\ task[c] # "none")
                        ~> (contested # {} \/ \A fd \in Fds : file[fd] # c)
=============================================================================
