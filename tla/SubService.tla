----------------------------- MODULE SubService -----------------------------
(***************************************************************************)
(* The life of a server process that reports to the super server: what     *)
(* zService::main runs, from the handshake of zSubNetService::init to      *)
(* final, and the threads it starts: the epoll thread, the accept thread   *)
(* and SuperClient's, which reads what the super server says and ends the  *)
(* process when it is gone.                                                *)
(*                                                                         *)
(* A message is one of "response" (PARA_STARTUP_RESPONSE), "odd" (another  *)
(* message of CMD_STARTUP), "null" (the test signal) and "other". How it   *)
(* is cut on the way is RecvPath's subject, how answers are queued is      *)
(* SendPath's; here one recv takes one message and one send sends one.     *)
(***************************************************************************)
EXTENDS Integers, Sequences

CONSTANTS
    Garbage,   \* the values a bool that nobody has initialised may have
    Messages,  \* what the super server says
    MaxSent    \* at most this many messages on all connections

ASSUME GarbageAssumption == Garbage \subseteq BOOLEAN
ASSUME MessagesAssumption == Messages \subseteq {"response", "odd", "null", "other"}
ASSUME SentAssumption == MaxSent \in Nat

VARIABLES
    process,    \* "runs", "exited" or "killed"
    main,       \* where zService::main is
    epollPc,    \* where zEpollRecvThread is
    acceptPc,   \* where zAcceptThread is
    clientPc,   \* where SuperClient's thread is
    terminate,  \* zService::terminate
    complete,   \* zThread::complete of the SuperClient
    m_hThread,  \* its handle: FALSE is 0
    epoll,      \* zEpoll has a valid descriptor
    registered, \* the connection to the super server is in it
    tcpServer,  \* "null", "unbound", "bound" or "deleted" (and not yet NULL)
    pSocket,    \* SuperClient's socket: "null", "open" or "invalid"
    link,       \* the connection in the kernel: "up", "ended" by the peer,
                \* "reset" with the error to be reported, or "dead"
    wire,       \* what the super server has said and nobody has received
    rcv_queue,  \* what has been received and not been parsed
    sent,       \* how much it has said
    verified,   \* SuperClient::verified
    answered,   \* for the properties: the response has been parsed: "yes", "no",
                \* or "garbage" when verified was set before it was ever written
    confirmed,  \* for the properties: t_Startup_OK has been sent
    lost        \* for the properties: init has returned -1, which is true

vars == <<process, main, epollPc, acceptPc, clientPc, terminate, complete,
          m_hThread, epoll, registered, tcpServer, pSocket, link, wire,
          rcv_queue, sent, verified, answered, confirmed, lost>>

threads == <<epollPc, acceptPc, clientPc, terminate, complete, m_hThread>>
devices == <<epoll, registered, tcpServer>>
traffic == <<wire, rcv_queue, sent>>
handshake == <<verified, answered, confirmed, lost>>

-----------------------------------------------------------------------------
(* The super server and the network                                        *)

Say(m) ==
    /\ pSocket = "open" /\ link = "up" /\ sent < MaxSent
    /\ wire' = Append(wire, m) /\ sent' = sent + 1
    /\ UNCHANGED <<process, main, threads, devices, pSocket, link, rcv_queue, handshake>>

\* Its end is closed, or the connection is reset, which loses what is under way.
Hangup ==
    /\ pSocket = "open" /\ link \in {"up", "ended"}
    /\ \/ link = "up" /\ link' = "ended" /\ UNCHANGED wire
       \/ link' = "reset" /\ wire' = <<>>
    /\ UNCHANGED <<process, main, threads, devices, pSocket, rcv_queue, sent, handshake>>

\* zSocket::sendCmd: EBADF and a reset make send return -1, and sendCmd closes
\* and returns false. What is sent to a peer that has closed is accepted, once.
SendFails == pSocket = "invalid" \/ link = "reset"
SendCmd ==
    /\ SendFails \/ link \in {"up", "ended"}
    /\ pSocket' = IF SendFails THEN "invalid" ELSE pSocket
    /\ registered' = (registered /\ ~SendFails)
    /\ IF SendFails THEN link' = "dead"
       ELSE \/ link' = link
            \/ link = "ended" /\ link' = "dead"
    /\ UNCHANGED <<process, epoll, tcpServer>>

\* The next one raises SIGPIPE, which nobody catches.
BrokenPipe ==
    /\ pSocket = "open" /\ link = "dead"
    /\ \/ main \in {"request", "validate"}
       \/ clientPc = "parse" /\ rcv_queue # <<>> /\ Head(rcv_queue) = "null"
    /\ process' = "killed"
    /\ UNCHANGED <<main, threads, devices, traffic, pSocket, link, handshake>>

\* What RecvData finds when no message waits: recv returns 0 at the end of the
\* stream, -1 for a reset, which is then forgotten.
AtEnd == wire = <<>> /\ link \in {"ended", "dead"}
AtReset == wire = <<>> /\ link = "reset"
Receive ==
    /\ wire # <<>>
    /\ wire' = Tail(wire)
    /\ rcv_queue' = Append(rcv_queue, Head(wire))
    /\ UNCHANGED sent

-----------------------------------------------------------------------------
(* zSubNetService::init, in the main thread                                *)

Goto(l) == main' = l

\* zTCPClient::connect. The socket of an earlier attempt is left behind; its
\* descriptor was closed when its sendCmd failed.
Connect ==
    /\ main = "connect"
    /\ pSocket' = "open" /\ link' = "up"
    /\ wire' = <<>> /\ rcv_queue' = <<>>
    /\ Goto("request")
    /\ UNCHANGED <<process, threads, devices, sent, handshake>>

\* t_Startup_Request is sent; goto try_agin if that fails.
Request ==
    /\ main = "request"
    /\ SendCmd
    /\ Goto(IF SendFails THEN "connect" ELSE "handshake")
    /\ UNCHANGED <<threads, traffic, handshake>>

\* SuperClient::msgParse: what it returns, and what the response sets.
Understood(m) == m # "odd"
Parse(m) ==
    /\ verified' = (verified \/ m = "response")
    /\ answered' = IF m = "response" THEN "yes" ELSE answered

\* Mutant: one message of whatever kind is enough.
HandshakeMessage_any ==
    /\ main = "handshake" /\ ~verified /\ wire # <<>>
    /\ wire' = Tail(wire) /\ Parse(Head(wire))
    /\ IF Understood(Head(wire)) THEN Goto("epoll") /\ UNCHANGED pSocket
                                 ELSE Goto("final") /\ pSocket' = "invalid"
    /\ UNCHANGED <<process, threads, devices, link, rcv_queue, sent, confirmed, lost>>

\* One round of the loop: a message is received and parsed; one that is not
\* understood makes init close the connection and return false.
HandshakeMessage ==
    /\ main = "handshake" /\ ~verified /\ wire # <<>>
    /\ wire' = Tail(wire) /\ Parse(Head(wire))
    /\ IF Understood(Head(wire)) THEN UNCHANGED <<main, pSocket>>
                                 ELSE Goto("final") /\ pSocket' = "invalid"
    /\ UNCHANGED <<process, threads, devices, link, rcv_queue, sent, confirmed, lost>>

\* The super server is lost: init returns -1. As a bool that is true, and main
\* goes on to validate.
HandshakeLost ==
    /\ main = "handshake" /\ ~verified /\ (AtEnd \/ AtReset)
    /\ link' = IF AtReset THEN "dead" ELSE link
    /\ lost' = TRUE
    /\ Goto("validate")
    /\ UNCHANGED <<process, threads, devices, traffic, pSocket, verified, answered, confirmed>>

HandshakeDone ==
    /\ main = "handshake" /\ verified
    /\ Goto("epoll")
    /\ UNCHANGED <<process, threads, devices, traffic, pSocket, link, handshake>>

\* zNetService::init: the result of epoll.create is not looked at, that of
\* pthread_create is.
StartEpoll ==
    /\ main = "epoll"
    /\ epoll' \in BOOLEAN
    /\ \/ epollPc' = "wait" /\ Goto("bind")
       \/ UNCHANGED epollPc /\ Goto("final")
    /\ UNCHANGED <<process, acceptPc, clientPc, terminate, complete, m_hThread,
                   registered, tcpServer, traffic, pSocket, link, handshake>>

\* Mutant: the result of Bind is not looked at.
Bind_unchecked ==
    /\ main = "bind"
    /\ tcpServer' \in {"bound", "unbound"}
    /\ Goto("accept")
    /\ UNCHANGED <<process, threads, epoll, registered, traffic, pSocket, link, handshake>>

\* new zTCPServer and zTCPServer::Bind, which closes what it has opened when one
\* of its calls fails.
Bind ==
    /\ main = "bind"
    /\ tcpServer' \in {"bound", "unbound"}
    /\ Goto(IF tcpServer' = "bound" THEN "accept" ELSE "final")
    /\ UNCHANGED <<process, threads, epoll, registered, traffic, pSocket, link, handshake>>

StartAccept ==
    /\ main = "accept"
    /\ \/ acceptPc' = "test" /\ Goto("register")
       \/ UNCHANGED acceptPc /\ Goto("final")
    /\ UNCHANGED <<process, epollPc, clientPc, terminate, complete, m_hThread,
                   devices, traffic, pSocket, link, handshake>>

\* Mutant: the result of epoll.add is not looked at.
Register_unchecked ==
    /\ main = "register"
    /\ \/ epoll /\ registered' = TRUE
       \/ registered' = FALSE
    /\ Goto("client")
    /\ UNCHANGED <<process, threads, epoll, tcpServer, traffic, pSocket, link, handshake>>

\* epoll.add of the connection: -1 without a valid epoll, or when the kernel
\* refuses.
Register ==
    /\ main = "register"
    /\ \/ epoll /\ registered' = TRUE /\ Goto("client")
       \/ registered' = FALSE /\ Goto("final")
    /\ UNCHANGED <<process, threads, epoll, tcpServer, traffic, pSocket, link, handshake>>

\* superClient->start(), whose result is not looked at.
StartClient ==
    /\ main = "client"
    /\ \/ clientPc' = "boot" /\ m_hThread' = TRUE
       \/ UNCHANGED <<clientPc, m_hThread>>
    /\ Goto("validate")
    /\ UNCHANGED <<process, epollPc, acceptPc, terminate, complete, devices,
                   traffic, pSocket, link, handshake>>

-----------------------------------------------------------------------------
(* zService::main after init                                               *)

\* zSubNetService::validate sends t_Startup_OK.
Validate ==
    /\ main = "validate"
    /\ SendCmd
    /\ confirmed' = ~SendFails
    /\ Goto(IF SendFails THEN "final" ELSE "loop")
    /\ UNCHANGED <<threads, traffic, verified, answered, lost>>

\* The loop over serviceCallback, which does nothing and returns true.
LoopEnds ==
    /\ main = "loop" /\ terminate
    /\ Goto("final")
    /\ UNCHANGED <<process, threads, devices, traffic, pSocket, link, handshake>>

\* zNetService::final: the server is deleted, then the pointer is cleared.
DeleteServer ==
    /\ main = "final"
    /\ tcpServer' = IF tcpServer = "null" THEN "null" ELSE "deleted"
    /\ Goto("clear")
    /\ UNCHANGED <<process, threads, epoll, registered, traffic, pSocket, link, handshake>>

\* Mutant: the client's thread is not told.
ClearServer_untold ==
    /\ main = "clear"
    /\ tcpServer' = "null"
    /\ Goto("join")
    /\ UNCHANGED <<process, threads, epoll, registered, traffic, pSocket, link, handshake>>

\* tcpServer = NULL and superClient->final().
ClearServer ==
    /\ main = "clear"
    /\ tcpServer' = "null" /\ complete' = TRUE
    /\ Goto("join")
    /\ UNCHANGED <<process, epollPc, acceptPc, clientPc, terminate, m_hThread,
                   epoll, registered, traffic, pSocket, link, handshake>>

\* Mutant: final does not join.
JoinBegin_skipped ==
    /\ main = "join"
    /\ Goto("close")
    /\ UNCHANGED <<process, threads, devices, traffic, pSocket, link, handshake>>

\* superClient->join(): pthread_join of whatever handle is there. Of 0 it is
\* undefined: glibc reads through it and the process dies, others return an error.
JoinBegin ==
    /\ main = "join"
    /\ \/ m_hThread /\ Goto("joining") /\ UNCHANGED process
       \/ ~m_hThread /\ process' = "killed" /\ UNCHANGED main
       \/ ~m_hThread /\ Goto("close") /\ UNCHANGED process
    /\ UNCHANGED <<threads, devices, traffic, pSocket, link, handshake>>

JoinEnd ==
    /\ main = "joining" /\ clientPc = "ended"
    /\ Goto("close")
    /\ UNCHANGED <<process, threads, devices, traffic, pSocket, link, handshake>>

\* superClient->close(), and main returns.
Close ==
    /\ main = "close"
    /\ pSocket' = "null" /\ link' = "dead" /\ registered' = FALSE
    /\ process' = "exited" /\ Goto("done")
    /\ UNCHANGED <<threads, epoll, tcpServer, traffic, handshake>>

-----------------------------------------------------------------------------
(* zEpollRecvThread::run, as far as this connection goes                   *)

\* epoll_wait fails, be it with EINTR, or there is no valid epoll: the process is
\* to end.
EpollFails ==
    /\ epollPc = "wait"
    /\ terminate' = TRUE /\ epollPc' = "ended"
    /\ UNCHANGED <<process, main, acceptPc, clientPc, complete, m_hThread,
                   devices, traffic, pSocket, link, handshake>>

EpollReceive ==
    /\ epollPc = "wait" /\ epoll /\ registered /\ pSocket = "open"
    /\ Receive
    /\ UNCHANGED <<process, main, threads, devices, pSocket, link, handshake>>

\* Mutant: the end of the stream is ignored.
EpollClose_ignored ==
    /\ epollPc = "wait" /\ epoll /\ registered /\ pSocket = "open"
    /\ AtReset /\ link' = "dead" /\ UNCHANGED <<pSocket, registered>>
    /\ UNCHANGED <<process, main, threads, epoll, tcpServer, traffic, handshake>>

\* recv returns 0: DisConnet. After a reset it first returns -1, which the loop
\* ignores.
EpollClose ==
    /\ epollPc = "wait" /\ epoll /\ registered /\ pSocket = "open"
    /\ \/ AtReset /\ link' = "dead" /\ UNCHANGED <<pSocket, registered>>
       \/ AtEnd /\ link' = "dead" /\ pSocket' = "invalid" /\ registered' = FALSE
    /\ UNCHANGED <<process, main, threads, epoll, tcpServer, traffic, handshake>>

-----------------------------------------------------------------------------
(* zAcceptThread::run                                                      *)

AcceptGoto(l) ==
    /\ acceptPc' = l
    /\ UNCHANGED <<process, main, epollPc, clientPc, terminate, complete,
                   m_hThread, devices, traffic, pSocket, link, handshake>>

\* if (pService->tcpServer != NULL)
AcceptTest == acceptPc = "test" /\ tcpServer # "null" /\ AcceptGoto("call")

\* pService->tcpServer->Accept: the pointer is read once more. On a server that
\* has been deleted the call finds garbage: a descriptor that is closed, or
\* memory that is not there; on NULL it dies.
AcceptCall ==
    /\ acceptPc = "call"
    /\ \/ tcpServer \in {"bound", "unbound"} /\ AcceptGoto("blocked")
       \/ tcpServer = "deleted" /\ AcceptGoto("test")
       \/ /\ tcpServer \in {"deleted", "null"}
          /\ process' = "killed"
          /\ UNCHANGED <<main, threads, devices, traffic, pSocket, link, handshake>>

\* accept returns with a connection, for newTCPTask (TaskPool). That close() does
\* not wake a thread in accept, it goes on listening until one more comes.
AcceptReturns == acceptPc = "blocked" /\ AcceptGoto("test")

-----------------------------------------------------------------------------
(* SuperClient::run and zThread::threadFunc                                *)

Client(from, to) ==
    /\ clientPc = from
    /\ clientPc' = to
    /\ UNCHANGED <<epollPc, acceptPc, complete>>

ClientBoot ==
    /\ Client("boot", "loop")
    /\ UNCHANGED <<process, main, terminate, m_hThread, devices, traffic, pSocket, link, handshake>>

\* while (!isFinal()): WaitRecv, and ListeningRecv if something waits.
ClientWait ==
    /\ \/ (complete \/ pSocket # "open") /\ Client("loop", "terminate")
       \/ ~complete /\ pSocket = "open" /\ Client("loop", IF rcv_queue = <<>> THEN "flush" ELSE "parse")
    /\ UNCHANGED <<process, main, terminate, m_hThread, devices, traffic, pSocket, link, handshake>>

\* The test signal is sent back; the loop ends if that fails. What msgParse says
\* of other messages is ignored.
ClientParse ==
    /\ clientPc = "parse" /\ pSocket = "open" /\ rcv_queue # <<>>
    /\ LET m == Head(rcv_queue)
       IN  IF m = "null"
           THEN /\ SendCmd
                /\ Client("parse", IF SendFails THEN "terminate" ELSE "parse")
                /\ UNCHANGED <<verified, answered>>
           ELSE /\ Parse(m)
                /\ Client("parse", "parse")
                /\ UNCHANGED <<process, pSocket, link, devices>>
    /\ rcv_queue' = Tail(rcv_queue)
    /\ UNCHANGED <<main, terminate, m_hThread, wire, sent, confirmed, lost>>

ClientParsed ==
    /\ pSocket # "open" \/ rcv_queue = <<>>
    /\ Client("parse", "flush")
    /\ UNCHANGED <<process, main, terminate, m_hThread, devices, traffic, pSocket, link, handshake>>

\* WaitSend and ListeningSend (SendPath).
ClientFlush ==
    /\ Client("flush", IF pSocket = "open" THEN "loop" ELSE "terminate")
    /\ UNCHANGED <<process, main, terminate, m_hThread, devices, traffic, pSocket, link, handshake>>

\* Mutant: the process goes on without the super server.
ClientTerminate_not ==
    /\ Client("terminate", "tail")
    /\ UNCHANGED <<process, main, terminate, m_hThread, devices, traffic, pSocket, link, handshake>>

\* zSubNetService::Terminate, at the end of SuperClient::run.
ClientTerminate ==
    /\ Client("terminate", "tail")
    /\ terminate' = TRUE
    /\ UNCHANGED <<process, main, m_hThread, devices, traffic, pSocket, link, handshake>>

\* threadFunc sets m_hThread to 0, and the thread is over.
ClientTail ==
    /\ Client("tail", "ended")
    /\ m_hThread' = FALSE
    /\ UNCHANGED <<process, main, terminate, devices, traffic, pSocket, link, handshake>>

-----------------------------------------------------------------------------
Init ==
    /\ process = "runs" /\ main = "connect"
    /\ epollPc = "none" /\ acceptPc = "none" /\ clientPc = "none"
    /\ terminate = FALSE /\ complete = FALSE /\ m_hThread = FALSE
    /\ epoll = FALSE /\ registered = FALSE /\ tcpServer = "null"
    /\ pSocket = "null" /\ link = "dead"
    /\ wire = <<>> /\ rcv_queue = <<>> /\ sent = 0
    /\ verified \in Garbage
    /\ answered = IF verified THEN "garbage" ELSE "no"
    /\ confirmed = FALSE /\ lost = FALSE

Network == Hangup \/ \E m \in Messages : Say(m)

Handshake == HandshakeMessage \/ HandshakeLost \/ HandshakeDone
StartUp == Request \/ Handshake \/ StartEpoll \/ Bind \/ StartAccept \/ Register \/ StartClient
Stop == DeleteServer \/ ClearServer \/ JoinBegin \/ JoinEnd \/ Close
Main == StartUp \/ Validate \/ LoopEnds \/ Stop

EpollWork == EpollReceive \/ EpollClose
Accept == AcceptTest \/ AcceptCall \/ AcceptReturns
ClientThread == ClientBoot \/ ClientWait \/ ClientParse \/ ClientParsed
                \/ ClientFlush \/ ClientTerminate \/ ClientTail

Next ==
    /\ process = "runs"
    /\ Network \/ BrokenPipe \/ Connect \/ Main \/ EpollFails \/ EpollWork \/ Accept \/ ClientThread

Spec == Init /\ [][Next]_vars

\* The three threads go on. Nothing is assumed of the super server, of connect,
\* of failing calls or of clients that connect.
Runs(A) == process = "runs" /\ A
Fairness ==
    /\ WF_vars(Runs(Main \/ BrokenPipe))
    /\ WF_vars(Runs(EpollWork))
    /\ WF_vars(Runs(ClientThread \/ BrokenPipe))
FairSpec == Spec /\ Fairness

-----------------------------------------------------------------------------
FlagTypes ==
    /\ terminate \in BOOLEAN /\ complete \in BOOLEAN /\ m_hThread \in BOOLEAN
    /\ epoll \in BOOLEAN /\ registered \in BOOLEAN
    /\ verified \in BOOLEAN /\ confirmed \in BOOLEAN /\ lost \in BOOLEAN

PlaceTypes ==
    /\ process \in {"runs", "exited", "killed"}
    /\ main \in {"connect", "request", "handshake", "epoll", "bind", "accept",
                 "register", "client", "validate", "loop", "final", "clear",
                 "join", "joining", "close", "done"}
    /\ epollPc \in {"none", "wait", "ended"}
    /\ acceptPc \in {"none", "test", "call", "blocked"}
    /\ clientPc \in {"none", "boot", "loop", "parse", "flush", "terminate", "tail", "ended"}
    /\ tcpServer \in {"null", "unbound", "bound", "deleted"}
    /\ pSocket \in {"null", "open", "invalid"}
    /\ link \in {"up", "ended", "reset", "dead"}
    /\ answered \in {"yes", "no", "garbage"}

TrafficTypes ==
    wire \in Seq(Messages) /\ rcv_queue \in Seq(Messages) /\ sent \in 0..MaxSent

TypeOK == FlagTypes /\ PlaceTypes /\ TrafficTypes

\* Unless the super server was lost in the handshake, the main loop runs only
\* when everything init promises is there: a socket that listens, the threads
\* that accept and receive, a valid epoll, and the super server told. It stays
\* so until final.
ServesComplete ==
    main = "loop" /\ ~lost =>
        /\ epoll /\ epollPc # "none"
        /\ tcpServer = "bound" /\ acceptPc # "none"
        /\ confirmed

\* t_Startup_OK follows the super server's response, unless the handshake was
\* cut short: by a connection lost, or a verified flag that was never written.
ConfirmedAfterResponse == confirmed /\ ~lost => answered # "no"

\* SuperClient's thread uses its socket without asking whether it is there: it
\* has left its loop before close() clears the pointer.
SocketOutlivesThread ==
    clientPc \in {"boot", "loop", "parse", "flush"} => pSocket # "null"

\* zService::Terminate, whoever calls it and whenever, ends the process: no thread
\* that final waits for goes on for ever.
EndsWhenTold == terminate ~> (process # "runs")

\* "If disconnected from the super server, this process should end too"
\* (zSubNetService.cpp:25): so it does once SuperClient's thread has been started.
ClientRuns == clientPc \notin {"none", "ended"}
EndsWithServer == (ClientRuns /\ link # "up") ~> (process # "runs")

\* "Make sure that the server has been initialised, about to enter the main
\* callback" (engine.h:2302): whoever is in the loop has a server to run.
ServesInitialised ==
    main = "loop" => tcpServer = "bound" /\ epollPc # "none" /\ acceptPc # "none"
=============================================================================
