--------------------------- MODULE SubService_proof ---------------------------
(***************************************************************************)
(* What is proved about SubService: the types, and the three safety        *)
(* properties that the run subservice checks, whatever the super server    *)
(* says and however much of it.                                            *)
(***************************************************************************)
EXTENDS SubService, TLAPS

(* The inductive invariant: what has been started at each place of main.   *)
InInit == {"connect", "request", "handshake", "epoll", "bind", "accept",
           "register", "client"}

\* A thread is there from the step that starts it on.
Started ==
    /\ main \in {"bind", "accept", "register", "client"} => epollPc # "none"
    /\ main \in {"accept", "register", "client"} => tcpServer = "bound"
    /\ main \in {"register", "client"} => acceptPc # "none"
    /\ main = "client" => epoll
    /\ main \in {"validate", "loop"} /\ ~lost =>
         epoll /\ epollPc # "none" /\ tcpServer = "bound" /\ acceptPc # "none"

\* init goes beyond the handshake only with the flag set; the super server is
\* told only by validate.
Verified ==
    /\ verified => answered # "no"
    /\ main \in {"epoll", "bind", "accept", "register", "client"} => verified
    /\ main = "validate" /\ ~lost => verified
    /\ confirmed => main \notin InInit /\ (lost \/ answered # "no")
    /\ main = "loop" => confirmed

\* The handle of a thread that runs is not 0, so that join waits for it.
Joined ==
    /\ ClientRuns => m_hThread
    /\ main \in InInit => clientPc = "none"
    /\ main \in {"close", "done"} => ~ClientRuns
    /\ pSocket = "null" => main \in {"connect", "done"}

ServiceInv == TypeOK /\ Started /\ Verified /\ Joined

\* Initially all of it holds.
LEMMA InitServiceInv == Init => ServiceInv
<1> SUFFICES ASSUME Init PROVE ServiceInv
  OBVIOUS
<1>1. TypeOK
  <2>1. verified \in BOOLEAN
    BY GarbageAssumption DEF Init
  <2>2. sent \in 0..MaxSent /\ wire \in Seq(Messages) /\ rcv_queue \in Seq(Messages)
    BY SentAssumption DEF Init
  <2> QED
    BY <2>1, <2>2 DEF Init, TypeOK, FlagTypes, PlaceTypes, TrafficTypes
<1>2. Started
  BY DEF Init, Started
<1>3. Verified
  BY DEF Init, Verified, InInit
<1>4. Joined
  BY DEF Init, Joined, InInit, ClientRuns
<1> QED
  BY <1>1, <1>2, <1>3, <1>4 DEF ServiceInv

\* No step breaks the types: of the flags,
LEMMA FlagsStep == ServiceInv /\ [Next]_vars => FlagTypes'
<1>a. SUFFICES ASSUME ServiceInv, [Next]_vars PROVE FlagTypes'
  OBVIOUS
<1>0. TypeOK
  BY <1>a DEF ServiceInv
<1>1. CASE UNCHANGED vars
  BY <1>0, <1>1 DEF vars, threads, devices, traffic, handshake, TypeOK, FlagTypes
<1>2. ASSUME NEW m \in Messages, Say(m) PROVE FlagTypes'
    BY <1>0, <1>2 DEF Say, devices, threads, handshake, TypeOK, FlagTypes
<1>3. CASE Hangup
    BY <1>0, <1>3 DEF Hangup, devices, threads, handshake, TypeOK, FlagTypes
<1>4. CASE BrokenPipe
    BY <1>0, <1>4 DEF BrokenPipe, devices, threads, handshake, traffic, TypeOK,
     FlagTypes
<1>5. CASE Connect
    BY <1>0, <1>5 DEF Connect, devices, threads, handshake, Goto, TypeOK, FlagTypes
<1>6. CASE Request
    BY <1>0, <1>6 DEF Request, threads, handshake, traffic, SendCmd, SendFails, Goto,
     TypeOK, FlagTypes
<1>7. CASE HandshakeMessage
    BY <1>0, <1>7 DEF HandshakeMessage, devices, threads, handshake, Goto, Understood,
     Parse, TypeOK, FlagTypes
<1>8. CASE HandshakeLost
    BY <1>0, <1>8 DEF HandshakeLost, devices, threads, handshake, traffic, AtEnd,
     AtReset, Goto, TypeOK, FlagTypes
<1>9. CASE HandshakeDone
    BY <1>0, <1>9 DEF HandshakeDone, devices, threads, handshake, traffic, Goto,
     TypeOK, FlagTypes
<1>10. CASE StartEpoll
    BY <1>0, <1>10 DEF StartEpoll, handshake, traffic, Goto, TypeOK, FlagTypes
<1>11. CASE Bind
    BY <1>0, <1>11 DEF Bind, threads, handshake, traffic, Goto, TypeOK, FlagTypes
<1>12. CASE StartAccept
    BY <1>0, <1>12 DEF StartAccept, devices, handshake, traffic, Goto, TypeOK,
     FlagTypes
<1>13. CASE Register
    BY <1>0, <1>13 DEF Register, threads, handshake, traffic, Goto, TypeOK, FlagTypes
<1>14. CASE StartClient
    BY <1>0, <1>14 DEF StartClient, devices, handshake, traffic, Goto, TypeOK,
     FlagTypes
<1>15. CASE Validate
    BY <1>0, <1>15 DEF Validate, threads, traffic, SendCmd, SendFails, Goto, TypeOK,
     FlagTypes
<1>16. CASE LoopEnds
    BY <1>0, <1>16 DEF LoopEnds, devices, threads, handshake, traffic, Goto, TypeOK,
     FlagTypes
<1>17. CASE DeleteServer
    BY <1>0, <1>17 DEF DeleteServer, threads, handshake, traffic, Goto, TypeOK,
     FlagTypes
<1>18. CASE ClearServer
    BY <1>0, <1>18 DEF ClearServer, handshake, traffic, Goto, TypeOK, FlagTypes
<1>19. CASE JoinBegin
    BY <1>0, <1>19 DEF JoinBegin, devices, threads, handshake, traffic, Goto, TypeOK,
     FlagTypes
<1>20. CASE JoinEnd
    BY <1>0, <1>20 DEF JoinEnd, devices, threads, handshake, traffic, Goto, TypeOK,
     FlagTypes
<1>21. CASE Close
    BY <1>0, <1>21 DEF Close, threads, handshake, traffic, Goto, TypeOK, FlagTypes
<1>22. CASE EpollFails
    BY <1>0, <1>22 DEF EpollFails, devices, handshake, traffic, TypeOK, FlagTypes
<1>23. CASE EpollReceive
    BY <1>0, <1>23 DEF EpollReceive, devices, threads, handshake, Receive, TypeOK,
     FlagTypes
<1>24. CASE EpollClose
    BY <1>0, <1>24 DEF EpollClose, threads, handshake, traffic, AtEnd, AtReset,
     TypeOK, FlagTypes
<1>25. CASE AcceptTest
    BY <1>0, <1>25 DEF AcceptTest, AcceptGoto, devices, handshake, traffic, TypeOK,
     FlagTypes
<1>26. CASE AcceptCall
    BY <1>0, <1>26 DEF AcceptCall, devices, threads, handshake, traffic, AcceptGoto,
     TypeOK, FlagTypes
<1>27. CASE AcceptReturns
    BY <1>0, <1>27 DEF AcceptReturns, AcceptGoto, devices, handshake, traffic, TypeOK,
     FlagTypes
<1>28. CASE ClientBoot
    BY <1>0, <1>28 DEF ClientBoot, devices, handshake, traffic, Client, TypeOK,
     FlagTypes
<1>29. CASE ClientWait
    BY <1>0, <1>29 DEF ClientWait, devices, handshake, traffic, Client, TypeOK,
     FlagTypes
<1>30. CASE ClientParse
    BY <1>0, <1>30 DEF ClientParse, devices, SendCmd, SendFails, Parse, Client,
     TypeOK, FlagTypes
<1>31. CASE ClientParsed
    BY <1>0, <1>31 DEF ClientParsed, devices, handshake, traffic, Client, TypeOK,
     FlagTypes
<1>32. CASE ClientFlush
    BY <1>0, <1>32 DEF ClientFlush, devices, handshake, traffic, Client, TypeOK,
     FlagTypes
<1>33. CASE ClientTerminate
    BY <1>0, <1>33 DEF ClientTerminate, devices, handshake, traffic, Client, TypeOK,
     FlagTypes
<1>34. CASE ClientTail
    BY <1>0, <1>34 DEF ClientTail, devices, handshake, traffic, Client, TypeOK,
     FlagTypes
<1> QED
  BY <1>a, <1>1, <1>2, <1>3, <1>4, <1>5, <1>6, <1>7, <1>8, <1>9, <1>10, <1>11,
     <1>12, <1>13, <1>14, <1>15, <1>16, <1>17, <1>18, <1>19, <1>20, <1>21, <1>22,
     <1>23, <1>24, <1>25, <1>26, <1>27, <1>28, <1>29, <1>30, <1>31, <1>32, <1>33,
     <1>34 DEF Next, Network, Main, StartUp, Handshake, Stop, EpollWork, Accept,
     ClientThread

\* of the places,
LEMMA PlacesStep == ServiceInv /\ [Next]_vars => PlaceTypes'
<1>a. SUFFICES ASSUME ServiceInv, [Next]_vars PROVE PlaceTypes'
  OBVIOUS
<1>0. TypeOK
  BY <1>a DEF ServiceInv
<1>1. CASE UNCHANGED vars
  BY <1>0, <1>1 DEF vars, threads, devices, traffic, handshake, TypeOK, PlaceTypes
<1>2. ASSUME NEW m \in Messages, Say(m) PROVE PlaceTypes'
    BY <1>0, <1>2 DEF Say, devices, threads, handshake, TypeOK, PlaceTypes
<1>3. CASE Hangup
    BY <1>0, <1>3 DEF Hangup, devices, threads, handshake, TypeOK, PlaceTypes
<1>4. CASE BrokenPipe
    BY <1>0, <1>4 DEF BrokenPipe, devices, threads, handshake, traffic, TypeOK,
     PlaceTypes
<1>5. CASE Connect
    BY <1>0, <1>5 DEF Connect, devices, threads, handshake, Goto, TypeOK, PlaceTypes
<1>6. CASE Request
    BY <1>0, <1>6 DEF Request, threads, handshake, traffic, SendCmd, SendFails, Goto,
     TypeOK, PlaceTypes
<1>7. CASE HandshakeMessage
    BY <1>0, <1>7 DEF HandshakeMessage, devices, threads, handshake, Goto, Understood,
     Parse, TypeOK, PlaceTypes
<1>8. CASE HandshakeLost
    BY <1>0, <1>8 DEF HandshakeLost, devices, threads, handshake, traffic, AtEnd,
     AtReset, Goto, TypeOK, PlaceTypes
<1>9. CASE HandshakeDone
    BY <1>0, <1>9 DEF HandshakeDone, devices, threads, handshake, traffic, Goto,
     TypeOK, PlaceTypes
<1>10. CASE StartEpoll
    BY <1>0, <1>10 DEF StartEpoll, handshake, traffic, Goto, TypeOK, PlaceTypes
<1>11. CASE Bind
    BY <1>0, <1>11 DEF Bind, threads, handshake, traffic, Goto, TypeOK, PlaceTypes
<1>12. CASE StartAccept
    BY <1>0, <1>12 DEF StartAccept, devices, handshake, traffic, Goto, TypeOK,
     PlaceTypes
<1>13. CASE Register
    BY <1>0, <1>13 DEF Register, threads, handshake, traffic, Goto, TypeOK, PlaceTypes
<1>14. CASE StartClient
    BY <1>0, <1>14 DEF StartClient, devices, handshake, traffic, Goto, TypeOK,
     PlaceTypes
<1>15. CASE Validate
    BY <1>0, <1>15 DEF Validate, threads, traffic, SendCmd, SendFails, Goto, TypeOK,
     PlaceTypes
<1>16. CASE LoopEnds
    BY <1>0, <1>16 DEF LoopEnds, devices, threads, handshake, traffic, Goto, TypeOK,
     PlaceTypes
<1>17. CASE DeleteServer
    BY <1>0, <1>17 DEF DeleteServer, threads, handshake, traffic, Goto, TypeOK,
     PlaceTypes
<1>18. CASE ClearServer
    BY <1>0, <1>18 DEF ClearServer, handshake, traffic, Goto, TypeOK, PlaceTypes
<1>19. CASE JoinBegin
    BY <1>0, <1>19 DEF JoinBegin, devices, threads, handshake, traffic, Goto, TypeOK,
     PlaceTypes
<1>20. CASE JoinEnd
    BY <1>0, <1>20 DEF JoinEnd, devices, threads, handshake, traffic, Goto, TypeOK,
     PlaceTypes
<1>21. CASE Close
    BY <1>0, <1>21 DEF Close, threads, handshake, traffic, Goto, TypeOK, PlaceTypes
<1>22. CASE EpollFails
    BY <1>0, <1>22 DEF EpollFails, devices, handshake, traffic, TypeOK, PlaceTypes
<1>23. CASE EpollReceive
    BY <1>0, <1>23 DEF EpollReceive, devices, threads, handshake, Receive, TypeOK,
     PlaceTypes
<1>24. CASE EpollClose
  <2>1. link' = "dead" /\ pSocket' \in {pSocket, "invalid"}
    BY <1>24 DEF EpollClose
  <2>2. UNCHANGED <<process, main, threads, tcpServer, answered>>
    BY <1>24 DEF EpollClose, handshake
  <2> QED
    BY <1>0, <2>1, <2>2 DEF threads, TypeOK, PlaceTypes
<1>25. CASE AcceptTest
    BY <1>0, <1>25 DEF AcceptTest, AcceptGoto, devices, handshake, traffic, TypeOK,
     PlaceTypes
<1>26. CASE AcceptCall
    BY <1>0, <1>26 DEF AcceptCall, devices, threads, handshake, traffic, AcceptGoto,
     TypeOK, PlaceTypes
<1>27. CASE AcceptReturns
    BY <1>0, <1>27 DEF AcceptReturns, AcceptGoto, devices, handshake, traffic, TypeOK,
     PlaceTypes
<1>28. CASE ClientBoot
    BY <1>0, <1>28 DEF ClientBoot, devices, handshake, traffic, Client, TypeOK,
     PlaceTypes
<1>29. CASE ClientWait
    BY <1>0, <1>29 DEF ClientWait, devices, handshake, traffic, Client, TypeOK,
     PlaceTypes
<1>30. CASE ClientParse
    BY <1>0, <1>30 DEF ClientParse, devices, SendCmd, SendFails, Parse, Client,
     TypeOK, PlaceTypes
<1>31. CASE ClientParsed
    BY <1>0, <1>31 DEF ClientParsed, devices, handshake, traffic, Client, TypeOK,
     PlaceTypes
<1>32. CASE ClientFlush
    BY <1>0, <1>32 DEF ClientFlush, devices, handshake, traffic, Client, TypeOK,
     PlaceTypes
<1>33. CASE ClientTerminate
    BY <1>0, <1>33 DEF ClientTerminate, devices, handshake, traffic, Client, TypeOK,
     PlaceTypes
<1>34. CASE ClientTail
    BY <1>0, <1>34 DEF ClientTail, devices, handshake, traffic, Client, TypeOK,
     PlaceTypes
<1> QED
  BY <1>a, <1>1, <1>2, <1>3, <1>4, <1>5, <1>6, <1>7, <1>8, <1>9, <1>10, <1>11,
     <1>12, <1>13, <1>14, <1>15, <1>16, <1>17, <1>18, <1>19, <1>20, <1>21, <1>22,
     <1>23, <1>24, <1>25, <1>26, <1>27, <1>28, <1>29, <1>30, <1>31, <1>32, <1>33,
     <1>34 DEF Next, Network, Main, StartUp, Handshake, Stop, EpollWork, Accept,
     ClientThread

\* and of the messages.
LEMMA TrafficStep == ServiceInv /\ [Next]_vars => TrafficTypes'
<1>a. SUFFICES ASSUME ServiceInv, [Next]_vars PROVE TrafficTypes'
  OBVIOUS
<1>0. TypeOK
  BY <1>a DEF ServiceInv
<1>e. <<>> \in Seq(Messages)
  OBVIOUS
<1>1. CASE UNCHANGED vars
  BY <1>0, <1>1 DEF vars, threads, devices, traffic, handshake, TypeOK, TrafficTypes
<1>2. ASSUME NEW m \in Messages, Say(m) PROVE TrafficTypes'
    BY <1>0, <1>2, SentAssumption DEF Say, devices, threads, handshake, TypeOK,
     TrafficTypes
<1>3. CASE Hangup
    BY <1>0, <1>3, <1>e DEF Hangup, devices, threads, handshake, TypeOK, TrafficTypes
<1>4. CASE BrokenPipe
    BY <1>0, <1>4 DEF BrokenPipe, devices, threads, handshake, traffic, TypeOK,
     TrafficTypes
<1>5. CASE Connect
    BY <1>0, <1>5, <1>e DEF Connect, devices, threads, handshake, Goto, TypeOK,
     TrafficTypes
<1>6. CASE Request
    BY <1>0, <1>6 DEF Request, threads, handshake, traffic, SendCmd, SendFails, Goto,
     TypeOK, TrafficTypes
<1>7. CASE HandshakeMessage
    BY <1>0, <1>7 DEF HandshakeMessage, devices, threads, handshake, Goto, Understood,
     Parse, TypeOK, TrafficTypes
<1>8. CASE HandshakeLost
    BY <1>0, <1>8 DEF HandshakeLost, devices, threads, handshake, traffic, AtEnd,
     AtReset, Goto, TypeOK, TrafficTypes
<1>9. CASE HandshakeDone
    BY <1>0, <1>9 DEF HandshakeDone, devices, threads, handshake, traffic, Goto,
     TypeOK, TrafficTypes
<1>10. CASE StartEpoll
    BY <1>0, <1>10 DEF StartEpoll, handshake, traffic, Goto, TypeOK, TrafficTypes
<1>11. CASE Bind
    BY <1>0, <1>11 DEF Bind, threads, handshake, traffic, Goto, TypeOK, TrafficTypes
<1>12. CASE StartAccept
    BY <1>0, <1>12 DEF StartAccept, devices, handshake, traffic, Goto, TypeOK,
     TrafficTypes
<1>13. CASE Register
    BY <1>0, <1>13 DEF Register, threads, handshake, traffic, Goto, TypeOK,
     TrafficTypes
<1>14. CASE StartClient
    BY <1>0, <1>14 DEF StartClient, devices, handshake, traffic, Goto, TypeOK,
     TrafficTypes
<1>15. CASE Validate
    BY <1>0, <1>15 DEF Validate, threads, traffic, SendCmd, SendFails, Goto, TypeOK,
     TrafficTypes
<1>16. CASE LoopEnds
    BY <1>0, <1>16 DEF LoopEnds, devices, threads, handshake, traffic, Goto, TypeOK,
     TrafficTypes
<1>17. CASE DeleteServer
    BY <1>0, <1>17 DEF DeleteServer, threads, handshake, traffic, Goto, TypeOK,
     TrafficTypes
<1>18. CASE ClearServer
    BY <1>0, <1>18 DEF ClearServer, handshake, traffic, Goto, TypeOK, TrafficTypes
<1>19. CASE JoinBegin
    BY <1>0, <1>19 DEF JoinBegin, devices, threads, handshake, traffic, Goto, TypeOK,
     TrafficTypes
<1>20. CASE JoinEnd
    BY <1>0, <1>20 DEF JoinEnd, devices, threads, handshake, traffic, Goto, TypeOK,
     TrafficTypes
<1>21. CASE Close
    BY <1>0, <1>21 DEF Close, threads, handshake, traffic, Goto, TypeOK, TrafficTypes
<1>22. CASE EpollFails
    BY <1>0, <1>22 DEF EpollFails, devices, handshake, traffic, TypeOK, TrafficTypes
<1>23. CASE EpollReceive
    BY <1>0, <1>23 DEF EpollReceive, devices, threads, handshake, Receive, TypeOK,
     TrafficTypes
<1>24. CASE EpollClose
    BY <1>0, <1>24 DEF EpollClose, threads, handshake, traffic, AtEnd, AtReset,
     TypeOK, TrafficTypes
<1>25. CASE AcceptTest
    BY <1>0, <1>25 DEF AcceptTest, AcceptGoto, devices, handshake, traffic, TypeOK,
     TrafficTypes
<1>26. CASE AcceptCall
    BY <1>0, <1>26 DEF AcceptCall, devices, threads, handshake, traffic, AcceptGoto,
     TypeOK, TrafficTypes
<1>27. CASE AcceptReturns
    BY <1>0, <1>27 DEF AcceptReturns, AcceptGoto, devices, handshake, traffic, TypeOK,
     TrafficTypes
<1>28. CASE ClientBoot
    BY <1>0, <1>28 DEF ClientBoot, devices, handshake, traffic, Client, TypeOK,
     TrafficTypes
<1>29. CASE ClientWait
    BY <1>0, <1>29 DEF ClientWait, devices, handshake, traffic, Client, TypeOK,
     TrafficTypes
<1>30. CASE ClientParse
    BY <1>0, <1>30 DEF ClientParse, devices, SendCmd, SendFails, Parse, Client,
     TypeOK, TrafficTypes
<1>31. CASE ClientParsed
    BY <1>0, <1>31 DEF ClientParsed, devices, handshake, traffic, Client, TypeOK,
     TrafficTypes
<1>32. CASE ClientFlush
    BY <1>0, <1>32 DEF ClientFlush, devices, handshake, traffic, Client, TypeOK,
     TrafficTypes
<1>33. CASE ClientTerminate
    BY <1>0, <1>33 DEF ClientTerminate, devices, handshake, traffic, Client, TypeOK,
     TrafficTypes
<1>34. CASE ClientTail
    BY <1>0, <1>34 DEF ClientTail, devices, handshake, traffic, Client, TypeOK,
     TrafficTypes
<1> QED
  BY <1>a, <1>1, <1>2, <1>3, <1>4, <1>5, <1>6, <1>7, <1>8, <1>9, <1>10, <1>11,
     <1>12, <1>13, <1>14, <1>15, <1>16, <1>17, <1>18, <1>19, <1>20, <1>21, <1>22,
     <1>23, <1>24, <1>25, <1>26, <1>27, <1>28, <1>29, <1>30, <1>31, <1>32, <1>33,
     <1>34 DEF Next, Network, Main, StartUp, Handshake, Stop, EpollWork, Accept,
     ClientThread

\* Nothing of what has been started is taken away before final.
LEMMA StartedStep == ServiceInv /\ [Next]_vars => Started'
<1>a. SUFFICES ASSUME ServiceInv, [Next]_vars PROVE Started'
  OBVIOUS
<1>0. TypeOK /\ Started /\ Verified /\ Joined
  BY <1>a DEF ServiceInv
<1>1. CASE UNCHANGED vars
  BY <1>0, <1>1 DEF vars, threads, devices, traffic, handshake, TypeOK, FlagTypes,
        PlaceTypes, Started
<1>2. ASSUME NEW m \in Messages, Say(m) PROVE Started'
    BY <1>0, <1>2 DEF Say, devices, threads, handshake, TypeOK, FlagTypes, PlaceTypes,
     Started
<1>3. CASE Hangup
    BY <1>0, <1>3 DEF Hangup, devices, threads, handshake, TypeOK, FlagTypes,
     PlaceTypes, Started
<1>4. CASE BrokenPipe
    BY <1>0, <1>4 DEF BrokenPipe, devices, threads, handshake, traffic, TypeOK,
     FlagTypes, PlaceTypes, Started
<1>5. CASE Connect
    BY <1>0, <1>5 DEF Connect, devices, threads, handshake, Goto, TypeOK, FlagTypes,
     PlaceTypes, Started
<1>6. CASE Request
    BY <1>0, <1>6 DEF Request, threads, handshake, traffic, SendCmd, SendFails, Goto,
     TypeOK, FlagTypes, PlaceTypes, Started
<1>7. CASE HandshakeMessage
    BY <1>0, <1>7 DEF HandshakeMessage, devices, threads, handshake, Goto, Understood,
     Parse, TypeOK, FlagTypes, PlaceTypes, Started
<1>8. CASE HandshakeLost
    BY <1>0, <1>8 DEF HandshakeLost, devices, threads, handshake, traffic, AtEnd,
     AtReset, Goto, TypeOK, FlagTypes, PlaceTypes, Started
<1>9. CASE HandshakeDone
    BY <1>0, <1>9 DEF HandshakeDone, devices, threads, handshake, traffic, Goto,
     TypeOK, FlagTypes, PlaceTypes, Started
<1>10. CASE StartEpoll
    BY <1>0, <1>10 DEF StartEpoll, handshake, traffic, Goto, TypeOK, FlagTypes,
     PlaceTypes, Started
<1>11. CASE Bind
    BY <1>0, <1>11 DEF Bind, threads, handshake, traffic, Goto, TypeOK, FlagTypes,
     PlaceTypes, Started
<1>12. CASE StartAccept
    BY <1>0, <1>12 DEF StartAccept, devices, handshake, traffic, Goto, TypeOK,
     FlagTypes, PlaceTypes, Started
<1>13. CASE Register
    BY <1>0, <1>13 DEF Register, threads, handshake, traffic, Goto, TypeOK, FlagTypes,
     PlaceTypes, Started
<1>14. CASE StartClient
    BY <1>0, <1>14 DEF StartClient, devices, handshake, traffic, Goto, TypeOK,
     FlagTypes, PlaceTypes, Started
<1>15. CASE Validate
    BY <1>0, <1>15 DEF Validate, threads, traffic, SendCmd, SendFails, Goto, TypeOK,
     FlagTypes, PlaceTypes, Started
<1>16. CASE LoopEnds
    BY <1>0, <1>16 DEF LoopEnds, devices, threads, handshake, traffic, Goto, TypeOK,
     FlagTypes, PlaceTypes, Started
<1>17. CASE DeleteServer
    BY <1>0, <1>17 DEF DeleteServer, threads, handshake, traffic, Goto, TypeOK,
     FlagTypes, PlaceTypes, Started
<1>18. CASE ClearServer
    BY <1>0, <1>18 DEF ClearServer, handshake, traffic, Goto, TypeOK, FlagTypes,
     PlaceTypes, Started
<1>19. CASE JoinBegin
    BY <1>0, <1>19 DEF JoinBegin, devices, threads, handshake, traffic, Goto, TypeOK,
     FlagTypes, PlaceTypes, Started
<1>20. CASE JoinEnd
    BY <1>0, <1>20 DEF JoinEnd, devices, threads, handshake, traffic, Goto, TypeOK,
     FlagTypes, PlaceTypes, Started
<1>21. CASE Close
    BY <1>0, <1>21 DEF Close, threads, handshake, traffic, Goto, TypeOK, FlagTypes,
     PlaceTypes, Started
<1>22. CASE EpollFails
    BY <1>0, <1>22 DEF EpollFails, devices, handshake, traffic, TypeOK, FlagTypes,
     PlaceTypes, Started
<1>23. CASE EpollReceive
    BY <1>0, <1>23 DEF EpollReceive, devices, threads, handshake, Receive, TypeOK,
     FlagTypes, PlaceTypes, Started
<1>24. CASE EpollClose
    BY <1>0, <1>24 DEF EpollClose, threads, handshake, traffic, AtEnd, AtReset,
     TypeOK, FlagTypes, PlaceTypes, Started
<1>25. CASE AcceptTest
    BY <1>0, <1>25 DEF AcceptTest, AcceptGoto, devices, handshake, traffic, TypeOK,
     FlagTypes, PlaceTypes, Started
<1>26. CASE AcceptCall
    BY <1>0, <1>26 DEF AcceptCall, devices, threads, handshake, traffic, AcceptGoto,
     TypeOK, FlagTypes, PlaceTypes, Started
<1>27. CASE AcceptReturns
    BY <1>0, <1>27 DEF AcceptReturns, AcceptGoto, devices, handshake, traffic, TypeOK,
     FlagTypes, PlaceTypes, Started
<1>28. CASE ClientBoot
    BY <1>0, <1>28 DEF ClientBoot, devices, handshake, traffic, Client, TypeOK,
     FlagTypes, PlaceTypes, Started
<1>29. CASE ClientWait
    BY <1>0, <1>29 DEF ClientWait, devices, handshake, traffic, Client, TypeOK,
     FlagTypes, PlaceTypes, Started
<1>30. CASE ClientParse
    BY <1>0, <1>30 DEF ClientParse, devices, SendCmd, SendFails, Parse, Client,
     TypeOK, FlagTypes, PlaceTypes, Started
<1>31. CASE ClientParsed
    BY <1>0, <1>31 DEF ClientParsed, devices, handshake, traffic, Client, TypeOK,
     FlagTypes, PlaceTypes, Started
<1>32. CASE ClientFlush
    BY <1>0, <1>32 DEF ClientFlush, devices, handshake, traffic, Client, TypeOK,
     FlagTypes, PlaceTypes, Started
<1>33. CASE ClientTerminate
    BY <1>0, <1>33 DEF ClientTerminate, devices, handshake, traffic, Client, TypeOK,
     FlagTypes, PlaceTypes, Started
<1>34. CASE ClientTail
    BY <1>0, <1>34 DEF ClientTail, devices, handshake, traffic, Client, TypeOK,
     FlagTypes, PlaceTypes, Started
<1> QED
  BY <1>a, <1>1, <1>2, <1>3, <1>4, <1>5, <1>6, <1>7, <1>8, <1>9, <1>10, <1>11,
     <1>12, <1>13, <1>14, <1>15, <1>16, <1>17, <1>18, <1>19, <1>20, <1>21, <1>22,
     <1>23, <1>24, <1>25, <1>26, <1>27, <1>28, <1>29, <1>30, <1>31, <1>32, <1>33,
     <1>34 DEF Next, Network, Main, StartUp, Handshake, Stop, EpollWork, Accept,
     ClientThread

\* Nobody gets beyond the handshake without the flag.
LEMMA VerifiedStep == ServiceInv /\ [Next]_vars => Verified'
<1>a. SUFFICES ASSUME ServiceInv, [Next]_vars PROVE Verified'
  OBVIOUS
<1>0. TypeOK /\ Started /\ Verified /\ Joined
  BY <1>a DEF ServiceInv
<1>1. CASE UNCHANGED vars
  BY <1>0, <1>1 DEF vars, threads, devices, traffic, handshake, TypeOK, FlagTypes,
        PlaceTypes, Verified, InInit
<1>2. ASSUME NEW m \in Messages, Say(m) PROVE Verified'
    BY <1>0, <1>2 DEF Say, devices, threads, handshake, TypeOK, FlagTypes, PlaceTypes,
     Verified, InInit
<1>3. CASE Hangup
    BY <1>0, <1>3 DEF Hangup, devices, threads, handshake, TypeOK, FlagTypes,
     PlaceTypes, Verified, InInit
<1>4. CASE BrokenPipe
    BY <1>0, <1>4 DEF BrokenPipe, devices, threads, handshake, traffic, TypeOK,
     FlagTypes, PlaceTypes, Verified, InInit
<1>5. CASE Connect
    BY <1>0, <1>5 DEF Connect, devices, threads, handshake, Goto, TypeOK, FlagTypes,
     PlaceTypes, Verified, InInit
<1>6. CASE Request
    BY <1>0, <1>6 DEF Request, threads, handshake, traffic, SendCmd, SendFails, Goto,
     TypeOK, FlagTypes, PlaceTypes, Verified, InInit
<1>7. CASE HandshakeMessage
    BY <1>0, <1>7 DEF HandshakeMessage, devices, threads, handshake, Goto, Understood,
     Parse, TypeOK, FlagTypes, PlaceTypes, Verified, InInit
<1>8. CASE HandshakeLost
    BY <1>0, <1>8 DEF HandshakeLost, devices, threads, handshake, traffic, AtEnd,
     AtReset, Goto, TypeOK, FlagTypes, PlaceTypes, Verified, InInit
<1>9. CASE HandshakeDone
    BY <1>0, <1>9 DEF HandshakeDone, devices, threads, handshake, traffic, Goto,
     TypeOK, FlagTypes, PlaceTypes, Verified, InInit
<1>10. CASE StartEpoll
    BY <1>0, <1>10 DEF StartEpoll, handshake, traffic, Goto, TypeOK, FlagTypes,
     PlaceTypes, Verified, InInit
<1>11. CASE Bind
    BY <1>0, <1>11 DEF Bind, threads, handshake, traffic, Goto, TypeOK, FlagTypes,
     PlaceTypes, Verified, InInit
<1>12. CASE StartAccept
    BY <1>0, <1>12 DEF StartAccept, devices, handshake, traffic, Goto, TypeOK,
     FlagTypes, PlaceTypes, Verified, InInit
<1>13. CASE Register
    BY <1>0, <1>13 DEF Register, threads, handshake, traffic, Goto, TypeOK, FlagTypes,
     PlaceTypes, Verified, InInit
<1>14. CASE StartClient
    BY <1>0, <1>14 DEF StartClient, devices, handshake, traffic, Goto, TypeOK,
     FlagTypes, PlaceTypes, Verified, InInit
<1>15. CASE Validate
    BY <1>0, <1>15 DEF Validate, threads, traffic, SendCmd, SendFails, Goto, TypeOK,
     FlagTypes, PlaceTypes, Verified, InInit
<1>16. CASE LoopEnds
    BY <1>0, <1>16 DEF LoopEnds, devices, threads, handshake, traffic, Goto, TypeOK,
     FlagTypes, PlaceTypes, Verified, InInit
<1>17. CASE DeleteServer
    BY <1>0, <1>17 DEF DeleteServer, threads, handshake, traffic, Goto, TypeOK,
     FlagTypes, PlaceTypes, Verified, InInit
<1>18. CASE ClearServer
    BY <1>0, <1>18 DEF ClearServer, handshake, traffic, Goto, TypeOK, FlagTypes,
     PlaceTypes, Verified, InInit
<1>19. CASE JoinBegin
    BY <1>0, <1>19 DEF JoinBegin, devices, threads, handshake, traffic, Goto, TypeOK,
     FlagTypes, PlaceTypes, Verified, InInit
<1>20. CASE JoinEnd
    BY <1>0, <1>20 DEF JoinEnd, devices, threads, handshake, traffic, Goto, TypeOK,
     FlagTypes, PlaceTypes, Verified, InInit
<1>21. CASE Close
    BY <1>0, <1>21 DEF Close, threads, handshake, traffic, Goto, TypeOK, FlagTypes,
     PlaceTypes, Verified, InInit
<1>22. CASE EpollFails
    BY <1>0, <1>22 DEF EpollFails, devices, handshake, traffic, TypeOK, FlagTypes,
     PlaceTypes, Verified, InInit
<1>23. CASE EpollReceive
    BY <1>0, <1>23 DEF EpollReceive, devices, threads, handshake, Receive, TypeOK,
     FlagTypes, PlaceTypes, Verified, InInit
<1>24. CASE EpollClose
    BY <1>0, <1>24 DEF EpollClose, threads, handshake, traffic, AtEnd, AtReset,
     TypeOK, FlagTypes, PlaceTypes, Verified, InInit
<1>25. CASE AcceptTest
    BY <1>0, <1>25 DEF AcceptTest, AcceptGoto, devices, handshake, traffic, TypeOK,
     FlagTypes, PlaceTypes, Verified, InInit
<1>26. CASE AcceptCall
    BY <1>0, <1>26 DEF AcceptCall, devices, threads, handshake, traffic, AcceptGoto,
     TypeOK, FlagTypes, PlaceTypes, Verified, InInit
<1>27. CASE AcceptReturns
    BY <1>0, <1>27 DEF AcceptReturns, AcceptGoto, devices, handshake, traffic, TypeOK,
     FlagTypes, PlaceTypes, Verified, InInit
<1>28. CASE ClientBoot
    BY <1>0, <1>28 DEF ClientBoot, devices, handshake, traffic, Client, TypeOK,
     FlagTypes, PlaceTypes, Verified, InInit
<1>29. CASE ClientWait
    BY <1>0, <1>29 DEF ClientWait, devices, handshake, traffic, Client, TypeOK,
     FlagTypes, PlaceTypes, Verified, InInit
<1>30. CASE ClientParse
    BY <1>0, <1>30 DEF ClientParse, devices, SendCmd, SendFails, Parse, Client,
     TypeOK, FlagTypes, PlaceTypes, Verified, InInit
<1>31. CASE ClientParsed
    BY <1>0, <1>31 DEF ClientParsed, devices, handshake, traffic, Client, TypeOK,
     FlagTypes, PlaceTypes, Verified, InInit
<1>32. CASE ClientFlush
    BY <1>0, <1>32 DEF ClientFlush, devices, handshake, traffic, Client, TypeOK,
     FlagTypes, PlaceTypes, Verified, InInit
<1>33. CASE ClientTerminate
    BY <1>0, <1>33 DEF ClientTerminate, devices, handshake, traffic, Client, TypeOK,
     FlagTypes, PlaceTypes, Verified, InInit
<1>34. CASE ClientTail
    BY <1>0, <1>34 DEF ClientTail, devices, handshake, traffic, Client, TypeOK,
     FlagTypes, PlaceTypes, Verified, InInit
<1> QED
  BY <1>a, <1>1, <1>2, <1>3, <1>4, <1>5, <1>6, <1>7, <1>8, <1>9, <1>10, <1>11,
     <1>12, <1>13, <1>14, <1>15, <1>16, <1>17, <1>18, <1>19, <1>20, <1>21, <1>22,
     <1>23, <1>24, <1>25, <1>26, <1>27, <1>28, <1>29, <1>30, <1>31, <1>32, <1>33,
     <1>34 DEF Next, Network, Main, StartUp, Handshake, Stop, EpollWork, Accept,
     ClientThread

\* The socket is there until the thread has ended.
LEMMA JoinedStep == ServiceInv /\ [Next]_vars => Joined'
<1>a. SUFFICES ASSUME ServiceInv, [Next]_vars PROVE Joined'
  OBVIOUS
<1>0. TypeOK /\ Started /\ Verified /\ Joined
  BY <1>a DEF ServiceInv
<1>1. CASE UNCHANGED vars
  BY <1>0, <1>1 DEF vars, threads, devices, traffic, handshake, TypeOK, FlagTypes,
        PlaceTypes, Joined, InInit, ClientRuns
<1>2. ASSUME NEW m \in Messages, Say(m) PROVE Joined'
    BY <1>0, <1>2 DEF Say, devices, threads, handshake, TypeOK, FlagTypes, PlaceTypes,
     Joined, InInit, ClientRuns
<1>3. CASE Hangup
    BY <1>0, <1>3 DEF Hangup, devices, threads, handshake, TypeOK, FlagTypes,
     PlaceTypes, Joined, InInit, ClientRuns
<1>4. CASE BrokenPipe
    BY <1>0, <1>4 DEF BrokenPipe, devices, threads, handshake, traffic, TypeOK,
     FlagTypes, PlaceTypes, Joined, InInit, ClientRuns
<1>5. CASE Connect
    BY <1>0, <1>5 DEF Connect, devices, threads, handshake, Goto, TypeOK, FlagTypes,
     PlaceTypes, Joined, InInit, ClientRuns
<1>6. CASE Request
    BY <1>0, <1>6 DEF Request, threads, handshake, traffic, SendCmd, SendFails, Goto,
     TypeOK, FlagTypes, PlaceTypes, Joined, InInit, ClientRuns
<1>7. CASE HandshakeMessage
    BY <1>0, <1>7 DEF HandshakeMessage, devices, threads, handshake, Goto, Understood,
     Parse, TypeOK, FlagTypes, PlaceTypes, Joined, InInit, ClientRuns
<1>8. CASE HandshakeLost
    BY <1>0, <1>8 DEF HandshakeLost, devices, threads, handshake, traffic, AtEnd,
     AtReset, Goto, TypeOK, FlagTypes, PlaceTypes, Joined, InInit, ClientRuns
<1>9. CASE HandshakeDone
    BY <1>0, <1>9 DEF HandshakeDone, devices, threads, handshake, traffic, Goto,
     TypeOK, FlagTypes, PlaceTypes, Joined, InInit, ClientRuns
<1>10. CASE StartEpoll
    BY <1>0, <1>10 DEF StartEpoll, handshake, traffic, Goto, TypeOK, FlagTypes,
     PlaceTypes, Joined, InInit, ClientRuns
<1>11. CASE Bind
    BY <1>0, <1>11 DEF Bind, threads, handshake, traffic, Goto, TypeOK, FlagTypes,
     PlaceTypes, Joined, InInit, ClientRuns
<1>12. CASE StartAccept
    BY <1>0, <1>12 DEF StartAccept, devices, handshake, traffic, Goto, TypeOK,
     FlagTypes, PlaceTypes, Joined, InInit, ClientRuns
<1>13. CASE Register
    BY <1>0, <1>13 DEF Register, threads, handshake, traffic, Goto, TypeOK, FlagTypes,
     PlaceTypes, Joined, InInit, ClientRuns
<1>14. CASE StartClient
    BY <1>0, <1>14 DEF StartClient, devices, handshake, traffic, Goto, TypeOK,
     FlagTypes, PlaceTypes, Joined, InInit, ClientRuns
<1>15. CASE Validate
    BY <1>0, <1>15 DEF Validate, threads, traffic, SendCmd, SendFails, Goto, TypeOK,
     FlagTypes, PlaceTypes, Joined, InInit, ClientRuns
<1>16. CASE LoopEnds
    BY <1>0, <1>16 DEF LoopEnds, devices, threads, handshake, traffic, Goto, TypeOK,
     FlagTypes, PlaceTypes, Joined, InInit, ClientRuns
<1>17. CASE DeleteServer
    BY <1>0, <1>17 DEF DeleteServer, threads, handshake, traffic, Goto, TypeOK,
     FlagTypes, PlaceTypes, Joined, InInit, ClientRuns
<1>18. CASE ClearServer
    BY <1>0, <1>18 DEF ClearServer, handshake, traffic, Goto, TypeOK, FlagTypes,
     PlaceTypes, Joined, InInit, ClientRuns
<1>19. CASE JoinBegin
    BY <1>0, <1>19 DEF JoinBegin, devices, threads, handshake, traffic, Goto, TypeOK,
     FlagTypes, PlaceTypes, Joined, InInit, ClientRuns
<1>20. CASE JoinEnd
    BY <1>0, <1>20 DEF JoinEnd, devices, threads, handshake, traffic, Goto, TypeOK,
     FlagTypes, PlaceTypes, Joined, InInit, ClientRuns
<1>21. CASE Close
    BY <1>0, <1>21 DEF Close, threads, handshake, traffic, Goto, TypeOK, FlagTypes,
     PlaceTypes, Joined, InInit, ClientRuns
<1>22. CASE EpollFails
    BY <1>0, <1>22 DEF EpollFails, devices, handshake, traffic, TypeOK, FlagTypes,
     PlaceTypes, Joined, InInit, ClientRuns
<1>23. CASE EpollReceive
    BY <1>0, <1>23 DEF EpollReceive, devices, threads, handshake, Receive, TypeOK,
     FlagTypes, PlaceTypes, Joined, InInit, ClientRuns
<1>24. CASE EpollClose
    BY <1>0, <1>24 DEF EpollClose, threads, handshake, traffic, AtEnd, AtReset,
     TypeOK, FlagTypes, PlaceTypes, Joined, InInit, ClientRuns
<1>25. CASE AcceptTest
    BY <1>0, <1>25 DEF AcceptTest, AcceptGoto, devices, handshake, traffic, TypeOK,
     FlagTypes, PlaceTypes, Joined, InInit, ClientRuns
<1>26. CASE AcceptCall
    BY <1>0, <1>26 DEF AcceptCall, devices, threads, handshake, traffic, AcceptGoto,
     TypeOK, FlagTypes, PlaceTypes, Joined, InInit, ClientRuns
<1>27. CASE AcceptReturns
    BY <1>0, <1>27 DEF AcceptReturns, AcceptGoto, devices, handshake, traffic, TypeOK,
     FlagTypes, PlaceTypes, Joined, InInit, ClientRuns
<1>28. CASE ClientBoot
    BY <1>0, <1>28 DEF ClientBoot, devices, handshake, traffic, Client, TypeOK,
     FlagTypes, PlaceTypes, Joined, InInit, ClientRuns
<1>29. CASE ClientWait
    BY <1>0, <1>29 DEF ClientWait, devices, handshake, traffic, Client, TypeOK,
     FlagTypes, PlaceTypes, Joined, InInit, ClientRuns
<1>30. CASE ClientParse
    BY <1>0, <1>30 DEF ClientParse, devices, SendCmd, SendFails, Parse, Client,
     TypeOK, FlagTypes, PlaceTypes, Joined, InInit, ClientRuns
<1>31. CASE ClientParsed
    BY <1>0, <1>31 DEF ClientParsed, devices, handshake, traffic, Client, TypeOK,
     FlagTypes, PlaceTypes, Joined, InInit, ClientRuns
<1>32. CASE ClientFlush
    BY <1>0, <1>32 DEF ClientFlush, devices, handshake, traffic, Client, TypeOK,
     FlagTypes, PlaceTypes, Joined, InInit, ClientRuns
<1>33. CASE ClientTerminate
    BY <1>0, <1>33 DEF ClientTerminate, devices, handshake, traffic, Client, TypeOK,
     FlagTypes, PlaceTypes, Joined, InInit, ClientRuns
<1>34. CASE ClientTail
    BY <1>0, <1>34 DEF ClientTail, devices, handshake, traffic, Client, TypeOK,
     FlagTypes, PlaceTypes, Joined, InInit, ClientRuns
<1> QED
  BY <1>a, <1>1, <1>2, <1>3, <1>4, <1>5, <1>6, <1>7, <1>8, <1>9, <1>10, <1>11,
     <1>12, <1>13, <1>14, <1>15, <1>16, <1>17, <1>18, <1>19, <1>20, <1>21, <1>22,
     <1>23, <1>24, <1>25, <1>26, <1>27, <1>28, <1>29, <1>30, <1>31, <1>32, <1>33,
     <1>34 DEF Next, Network, Main, StartUp, Handshake, Stop, EpollWork, Accept,
     ClientThread

\* Hence the invariant of every behaviour.
THEOREM ServiceInvariant == Spec => []ServiceInv
<1>1. ServiceInv /\ [Next]_vars => ServiceInv'
  BY FlagsStep, PlacesStep, TrafficStep, StartedStep, VerifiedStep, JoinedStep
     DEF ServiceInv, TypeOK
<1> QED
  BY InitServiceInv, <1>1, PTL DEF Spec

\* Every variable keeps its type, whatever the super server says.
THEOREM ServiceTypes == Spec => []TypeOK
<1>1. ServiceInv => TypeOK
  BY DEF ServiceInv
<1> QED
  BY <1>1, ServiceInvariant, PTL

\* A process that serves has all that init promises, unless the super server was
\* lost in the handshake.
THEOREM ServiceComplete == Spec => []ServesComplete
<1>1. ServiceInv => ServesComplete
  BY DEF ServiceInv, Started, Verified, ServesComplete
<1> QED
  BY <1>1, ServiceInvariant, PTL

\* The super server is told that the start is over only after it has answered,
\* unless the handshake was cut short.
THEOREM AnswerFirst == Spec => []ConfirmedAfterResponse
<1>1. ServiceInv => ConfirmedAfterResponse
  BY DEF ServiceInv, Verified, ConfirmedAfterResponse
<1> QED
  BY <1>1, ServiceInvariant, PTL

\* SuperClient's thread never finds its socket gone.
THEOREM SocketKept == Spec => []SocketOutlivesThread
<1>1. ServiceInv => SocketOutlivesThread
  BY DEF ServiceInv, Joined, InInit, ClientRuns, SocketOutlivesThread
<1> QED
  BY <1>1, ServiceInvariant, PTL
=============================================================================
