# UglyFF: specifications, model checking and proofs

UglyFF is a C++ framework for game servers (`src/include`) with one server built
on it (`src/superserver`) and a test client (`src/test`).  A service accepts TCP
connections, a pool of threads takes each connection through its life, an epoll
thread receives, and a small message framing carries the commands.  This
directory holds TLA+ models of that program, the TLC runs that check them, and
proofs checked by TLAPS.

Paths are relative to `src/`.  `engine.h`, `zTCPTaskPool.cpp` and the other
files without a directory are in `src/include`.

## 1. Inventory

### Components, their state and their operations

| Component | State | Operations | Interacts with |
|---|---|---|---|
| **Connection pool** `zTCPTaskPool.cpp`, `zTCPTask.cpp` | four kinds of threads, each with a locked hand-over queue (`zTCPTaskQueue`) and a private vector; counters of the okay threads; the state and flags of each task | `addVerify`, `addSync`, `addOkay`, `addRecycle`; the four `run()` loops; `getNextState`, `resetState`; `final` | the accept thread gives it tasks; it calls the virtual hooks of the task (`verifyConn`, `waitSync`, `recycleConn`, `uniqueAdd`, `addToContainer`, ...); the epoll thread breaks sockets under it |
| **Threads** `zThread.cpp`, `engine.h:1582` | `alive`, `complete`, `m_hThread`; a group's vector under a read-write lock | `start`, `join`, `final`, `threadFunc`; `add`, `getByIndex`, `execAll`, `joinAll` | the pool, the service |
| **Byte buffers** `engine.h:730-905` | `_maxSize`, `_offPtr`, `_currPtr`, the bytes | `put`, `wr_reserve`, `wr_flip`, `rd_flip`, `rd_ready`, `reset` | one receive queue, one send queue and one command queue per socket |
| **Socket, receiving** `zSocket.cpp:101-127, 254-341` | `m_RecvBuffer`, `_rcv_queue` | `RecvData` (epoll thread), `recvToCmd`, `RecvByte`, `packetUnpack` | the epoll thread fills, the pool's threads empty |
| **Socket, sending** `zSocket.cpp:128-222` | `tQueue`, its mutex | `sendCmd`, `sendRawData_NoPoll`, `sync` | any thread sends, the okay thread flushes |
| **Socket, life** `engine.h:1509-1558` | the descriptor, `m_bUseEpoll` | `DisConnet`, `SafeDelete`, `isValid` | the epoll thread disconnects, so does a send that fails, the recycle thread deletes |
| **Heartbeat** `zTCPTask.cpp:133-155`, `engine.h:2079-2109` | `tick`, a 30 s timer | `checkSignal`, `clearTick`, `setTick` | the okay thread, the message parser |
| **Service** `zService.cpp`, `zNetService.cpp`, and the **sub service** `zSubNetService.cpp` | `terminate`, the accept and epoll threads, the TCP server; in a sub service the client to the super server and `verified` | `main`, `init`, `serviceCallback`, `final`; the start-up handshake with the super server | the pool, the super server |
| **Super server** `superserver/` | `ServerManager`'s two maps of servers | `verifyConn` of a server task, `uniqueAdd`, `addServer`, `removeServer`, broadcasts | the pool calls the hooks |
| **Client** `zTCPClient.cpp` | a socket, a thread | `connect`, `run`, `sendCmd` | the sub service, `test/` |
| **Utilities** `engine.h:280-457` | none | `stringtok`, `Parse`, `zProperties`, `GetTimeFromSystemPower` | configuration |

Not part of the models: `zLogger` and the vendored log4cplus headers
(`include/log4cplus`), `CEncrypt`, `CmdAnalysis` (counts and prints messages),
the `__mt_alloc` allocator, calendar time (`zTime`), the Visual Studio projects
and the logs and libraries checked in under `log/`, `lib/` and `server/`.

### What is hard in it

* **Ownership across threads.**  A task is passed between five kinds of threads
  through queues; nothing but the order of the statements says who owns it.  A
  task in two threads at once is the danger a comment of the code warns of
  (`zTCPTaskPool.cpp:504-508`).
* **Unlocked reads.**  `size()`, `alive`, `uniqueVerified`, `isValid()` and the
  empty test of the send path are read without the lock that guards their writes.
* **Failure in the middle of a hand-over**: `addOkay` fails after the task has
  been taken out of the vector it was in.
* **Death noticed by polling**: nobody tells a thread that a socket is gone.
* **Shutdown in stages**, with threads deleted while others may still have work
  for them, and threads that nobody stops at all (accept, epoll).
* **One number for many connections.**  A closed descriptor is given again by
  the kernel, while three threads may close it.
* **Deadlines from a wall clock** read once a round, and a test signal that is
  never sent.
* **A start-up of ten steps** that may fail at each, with a peer that may vanish.
* **Framing over a byte stream** whose segmentation is arbitrary, in buffers
  that are moved, grown and compacted by two threads.

### What would make each part correct

* Pool: one owner per task, none lost, the state agrees with the owner, the
  outer containers are told exactly once, the counters never under-count, a dead
  connection is deleted in the end, `final()` ends and leaves nothing behind.
* Buffers: `0 <= _offPtr <= _currPtr <= _maxSize` always, what is read is what
  was put, in order, and a write that has been reserved fits.
* Receiving: the messages delivered are the messages sent, however the stream is
  cut, and the verdict on an oversize message does not depend on the cut.
* Sending: the bytes on the wire are the commands in the order of the `sendCmd`
  calls, none twice, none interleaved.
* Threads: `start` makes one pthread, `join` waits for it.
* Descriptor: given back whoever closes first, and no thread meets another's
  connection through a number that has been given again.
* Heartbeat: a connection that sends null commands in time is kept, one that sends
  none is given up, and not long after.
* Service and sub service: the loop runs only with everything started; whoever
  calls `Terminate`, and whenever the super server is lost, the process ends, and
  no thread uses what `final` has taken away.
* Super server: a server is in both maps or in neither, and one identity belongs
  to one server.

## 2. Plan

In the order in which the modules were written.

| | Module | What it covers | Abstract specification / proofs |
|---|---|---|---|
| A | `TaskPool` | the pool, its threads, the stop | implements `ConnectionLife`; inductive invariants proved, at work and for the stop |
| B | `ByteBuffer` | the growing buffer | implements `ByteFifo`; inductive invariant proved |
| C | `RecvPath` | framing and delivery, over two byte queues | inductive invariant proved |
| D | `RcvQueue` | the receive queue in memory, two threads; composes `ByteBuffer` | inductive invariant proved, unless the block moves under a copy |
| E | `SendPath` | `sendCmd` and `sync`, one and two senders | inductive invariant proved, for the owner alone |
| F | `SocketFd` | the descriptor: `DisConnet` from three threads, reuse of the number by the kernel, epoll, `SafeDelete` | inductive invariant proved |
| G | `SubService` | `zService::main`, `zNetService`, the handshake and the end of `zSubNetService`, the thread of `SuperClient` | inductive invariant proved |
| H | `Heartbeat` | `checkSignal`, `tick`, `Timer`, the verify timeout, the clock | inductive invariant proved |

`start`, `alive` and `joinAll` of a thread are part of A, `join` of G.  Not
planned any more: the utilities, which are pure functions over strings, and
`ServerManager` (section 7).  Every invariant, action property and refinement
that a passing run checks is proved as well; section 6 says under which
hypotheses, and what stays with TLC.

The modules stand beside each other, each taking the others as its environment:
`TaskPool` sees a disconnect as one bit and a failed heartbeat as a task that
terminates, `SocketFd` sees the pool as whoever gives a task up at some time,
`Heartbeat` sees both as the other ways to lose a task, `SubService` hands what
`accept` returns to `TaskPool`.

`RecvPath` and `SendPath` use their buffers as sequences of bytes.  That is what
`ByteBuffer` is proved to implement (`FifoRefined`), provided each call is one
step; `RcvQueue` and the two-thread runs of `SendPath` ask what happens when it
is not.

## 3. Modules and the code

### TaskPool, ConnectionLife

A *thread object* is `<<role, i>>`: `V(i)` the verify threads, `S` the sync
thread, `O(i)` the okay threads, `R` the recycle thread.  `queue[th]` is what was
given to `zTCPTaskQueue::add`, `tasks[th]` its private vector.  A *worker* is a
pthread, `<<role, i, run>>`: an okay object can have several, because `start()`
tests an `alive` flag that the new pthread sets only when it first runs.  `pc`,
`hand` (the task between two containers) and `todo` (what the pass over the
vector has yet to visit) belong to the worker.

| Model | Code |
|---|---|
| `newTCPTask`, `addVerify`, `epollAdd` | `SuperService::newTCPTask` (`superserver.cpp:49-74`): three steps, with the accept thread's pointer kept in `accTask` |
| `VerifyCheck` ... `VerifyWait` | the two passes of `zVerifyThread::run` |
| `SyncCheck` ... `SyncRefused` | `zSyncThread::run` |
| `addOkayScan` ... `addOkayAdd` | `addOkay`: its loop (`addOkayLoop`) asks one thread after the other for its flag (`addOkayScan`) and compares two loads by reading four counters one by one (`addOkayCompare`); then the two reads of `pmin->size()`, `start`, which may fail at any call (`addOkayFailed`), and `add` |
| `OkayBoot` ... `OkayPoll` | one round of `zOkayThread::run`, with the hand-over queue's lock (`qlock`) and `m_Lock` (`mlock`); `OkayAdd` moves one task, as `_add` does, and a pass of the thread's other run may come between two |
| `RecycleCheck`, `RecycleDelete`, `RecycleWait` | `zRecycleThread::run` |
| `Disconnect`, `Deadline`, `Terminate` | what happens to a task from outside: the epoll thread closes its socket, ten seconds pass, another thread or the heartbeat terminates it |
| `FinalNext`, `Join`, `JoinReturn`, `Leave`, `DrainTask`, `DrainDelete`, `Exit` | `zTCPTaskPool::final`, `joinAll`, `zThread::join` and the code after each loop |
| `addVerifyDeleted` | the accept thread adds a task to a verify thread that has been deleted since it was looked up |

The hooks of a task (`verifyConn`, `waitSync`, `recycleConn`, `uniqueAdd`) answer
any of the results `zTCPTask` documents.  A vector is the set of its members:
no pass depends on the order.

`handle[th]` is `m_hThread`: `start` stores the new run in it over the last one,
and a run that ends clears it.  `Join` reads it.  The code of the stop has steps
whose outcome C++ and POSIX do not define: a join of a handle that the thread has
already cleared; the delete of an okay thread that a second run still uses
(`JoinReturn`); an `add` to a verify thread that has been deleted
(`addVerifyDeleted`), all of which set `died`; and two pthreads that erase from one
vector, the drain taking no lock (`Racing`).  A behaviour is followed up to such a
step (`Undefined`) and not further, so everything said of the stop is said up to
there.  `ConnectionLife` is the promise to the layer
above: the stages of a connection and its entries in the two outer containers,
without threads or queues.

### ByteBuffer, ByteFifo

Indices, size and bytes of `t_BufferCmdQueue` as they are; `put`, the reserve and
advance of `zSocket::RecvByte`, `rd_flip`, `reset`.  `MaxPending` is how much the
callers let wait: the code has no limit, so the theorems are about every number.

### RecvPath

A byte is `<<i, k>>`, the k-th byte of the i-th packet: enough to see loss,
repetition and disorder.  Bytes go `flight` -> `wire` (the kernel) ->
`m_RecvBuffer` -> `rcv_queue` -> `delivered`.  One `RecvData` step is a round of
`zEpollRecvThread::run`: the branch of `RecvData` chosen by how much the buffer
holds (`RecvHead`, `RecvBody`, `RecvRest`), one `recv`, what is done with its
result, and the new `errno`: adding a registered descriptor to epoll again fails
and leaves `EEXIST`, which is what lets a stale `EAGAIN` hide the end of the
stream only once.  The owner is `WaitRecv` (`ReaderPoll`, `ReaderGone`) and the
loop of `ListeningRecv` (`recvToCmd`, `ReaderDone`).

Taken for granted: a payload never contains the two magic bytes where a header
is looked for, and the epoll thread has this socket only (with more, `errno` may
be anything between two rounds, which `Init` allows for the first round only).

### RcvQueue

The same hand-over with the memory visible.  `PutReserve`, `PutCopy` and
`PutAdvance` are the three statements of `put` under the lock; `ReadBegin`
(`rd_size`, `rd_buf`) and `ReadCopy` (`packetUnpack`) happen without it,
`ReadFlip` with it.  `block` counts the reallocations of the vector: a copy from
an old block gives `Junk`.

### SendPath

`sendCmd` is four steps: the test of `tQueue`, the `send`, the lock, the put.
`sync` is three: the lock (`SyncLock`), the `send`, after which the lock is given
back (`SyncSend`, `SyncFail`), and `rd_flip` (`SyncFlip`).  When `rd_flip` falls into another thread's `put`
(`overlap`) the new indices may be the one's or the other's: `PutEnd` offers the
three outcomes.  `Threads` may hold other senders than the owner, as the code allows.
The properties are conditional on `OwnerAlone`, nobody but the owner having sent;
`WireInOrder` without the condition fails (section 4).

### SubService

A process that reports to the super server, from its first statement to its end.
`main` is the place in `zSubNetService::init`, `zNetService::init`,
`zService::main` and `final`; `epollPc`, `acceptPc` and `clientPc` are the places
of the three threads; `process` ends by returning from `main` or by dying.

| Model | Code |
|---|---|
| `Connect`, `Request`, `HandshakeMessage`, `HandshakeLost`, `HandshakeDone` | `zSubNetService::init` up to the verified flag; `HandshakeLost` is the `return -1` that `main` takes for true |
| `StartEpoll`, `Bind`, `StartAccept`, `Register`, `StartClient` | `zNetService::init` and the end of `init`, each with its failure |
| `Validate`, `LoopEnds` | `zService::main` |
| `DeleteServer`, `ClearServer`, `JoinBegin`, `JoinEnd`, `Close` | `zNetService::final` (`SAFE_DELETE` is two steps) and `zSubNetService::final` |
| `EpollFails`, `EpollReceive`, `EpollClose` | `zEpollRecvThread::run` for this one connection |
| `AcceptTest`, `AcceptCall`, `AcceptReturns` | `zAcceptThread::run`: the pointer is tested, then read again |
| `ClientBoot` ... `ClientTail` | `zThread::threadFunc` around `SuperClient::run` |
| `Say`, `Hangup`, `BrokenPipe` | the super server and the kernel: a close, a reset, SIGPIPE on the second send to a closed peer |

Undefined behaviour has outcomes: `verified` starts with any value of `Garbage`,
a `pthread_join` of 0 and an `accept` on a deleted server either do nothing or
kill the process.  Only `serviceCallback` of the class itself is modelled: it
returns true.

### SocketFd

`file` is the kernel's table of descriptors, `sock` the number each `zSocket`
keeps, `pointer` what epoll has registered.  A connection's name is also the
pointer to its `zSocket`.  `DisConnet` is its three statements (`Shutdown`,
`Close`, `Clear`) in any of three threads: the epoll thread after `RecvData`, the
verify thread when `sendCmd` fails, the recycle thread in `~zTCPTask`.  `accept`
gives the lowest number that is free, so that one that has just been closed comes
back at once.  `AddAgain` registers the descriptor once more with the pointer
`Junk`, as the code does; the kernel refuses because it is registered.  Every
system call notes whether it met another connection than its own (`harmed`) and
whether another thread was inside `DisConnet` with the same one (`contested`).
A `Junk` pointer that epoll might report is not followed (`Wait`): there is no
next state to speak of, and `AloneUnharmed` says when there is none.

### Heartbeat

All times are kept as distances from the wall clock, so that time needs no end:
`Pass` moves every one back by a unit, `SetClock` by as much as somebody sets the
clock.  A time that lies further back than `MaxBack` is kept there, which no
comparison can tell.  A round of a thread takes at most `MaxRound`.  One task is
followed from `addVerify` to the recycle thread: `VerifyCheck` and `VerifyRead`
are the two passes of `zVerifyThread::run`, `OkayCheck` and `OkayRead` those of
`zOkayThread::run`, `checkSignal`, `checkInterval` and `checkVerifyTimeout` the
functions of these names.  No test signal is sent (the lines are commented out),
so a null command comes when the client likes, and `nullsOver` says that no more
will.  Everything else the client says (`others`) goes to `msgParse` and leaves the
tick as it is.  `sinceNull` counts from the last null command that was parsed.

## 4. Runs

| Run | Instance | Shows |
|---|---|---|
| `pool_serve` | 2 tasks, 1 verify thread, 1 okay thread with room for one task that may be started twice | `SingleOwner`, `NoneLost`, `StateOfPlace`, `ContainerExact`, `UniqueHeld`, `CountsTrue`; `IteratorsValid`: two pthreads on one vector never disturb each other's pass |
| `pool_final` | 1 task, 1 verify thread, 2 okay threads, the first of which may be started twice, the stop at any time | `SingleOwner`, `ReceiverExists`, `OnlyUnreadLeft`, and that the pool implements `ConnectionLife` also while it stops (`ConnectionLifeKept`), all up to a step without a defined outcome |
| `pool_live` | 1 task, the stop at any time | `DeadDeleted`, `LateLeaves`; `FinalEnds`: `final` comes to its end or to a step without a defined outcome |
| `buffer` | trunks of 2 bytes, at most 5 waiting, 2 byte values | `MemoryBounded`, `BufferInv`, `FifoKept` |
| `recv` | 3 packets of 2 or 3 bytes, 3 being too many, right or wrong magic | `InOrder`, `NothingLost`, `QueueWhole`, `FaultCloses`, `Delivered`, `CloseNoticed` |
| `rcvqueue` | 5 packets of 2 or 3 bytes, a trunk twice what may wait | `PacketsRight`, `ApartInBlock` |
| `send` | 2 senders, 3 messages of 1 or 3 bytes, the kernel takes at most 2 | `AloneInOrder`, `NothingDropped`, `Flushed`, `CallsReturn` |
| `subservice` | every kind of message, at most 3, on any number of connections; the flag with either value | `ServesComplete`, `ConfirmedAfterResponse`, `SocketOutlivesThread`, `EndsWhenTold`, `EndsWithServer` |
| `descriptor` | 2 connections, 2 descriptors | `AloneUnharmed`, `NoneLeft`, `ClosedGivenBack` |
| `heartbeat` | 30 s between checks, 10 s to be verified, rounds of up to 10 s, the clock set once by 20 s either way | `Patient`: null commands in time keep a client; `InTime`, `EndedWithoutNulls`: one that sends none is given up, whatever else it says |

Why the bounds are enough.  Two tasks make every pair of containers and every
competition for the one place of an okay thread; two okay threads make the scan
of `addOkay` choose, and two runs make a second `start()`.  The state constraint
`LateWithOneRun` of `pool_serve` leaves out the states reached from one where an
okay thread runs twice while a connection is late: only the verify threads read
`late`, and it is explored with the thread running once.  `FirstRunsTwice` of
`pool_final` lets the first okay thread run twice and not the second, and then
sends the connection to the first: two threads that run twice each would only do
the same things side by side.  `RoundsFindSomething` skips rounds in which the
second okay thread finds its queue and its vector empty, which change nothing.
The theorems below remove these bounds, for the stop too.  In `buffer`, five bytes and trunks of
two reach one and two more trunks in one call and every relation between the
consumed front and the rest that `rd_flip` compares; `ByteBuffer_proof` removes
the bounds.  In `recv`, packets of two or three bytes behind a four byte header
can be cut at every place, inside the body too, and begin before the last one has ended; two legal
packets around an oversize one are three.  In `send`, a message of three bytes
and a kernel that takes two make every split, and the third message waits
behind a rest.  In `rcvqueue` the
queue wraps to the front several times within five packets.  In `subservice`,
three messages are a response between two others, or a test signal and what
follows it; `ServiceInvariant` removes the bound.  In `descriptor`, two
connections and two numbers let either number belong to either connection and a
number come back while its last owner is still being closed; with one connection
per number a closed one can only be met by the other, which is all the properties
ask.  In `heartbeat` the unit is ten seconds, so that a round is as long as the
interval of a verification and a third of that of the test signal: as bad as it
gets before the intervals mean nothing; `HeartbeatInvariant` removes the bounds.

The type invariants are not among the runs' properties: they are proved, each
from the inductive invariant of its module.

`CHECK_DEADLOCK FALSE` stands where the system may stop: a connection that has
been closed, a peer that has sent all it may, a pool that has been shut down.

### Where the code and its comments differ

Two runs end in a violation on purpose; each quotes what a comment promises
(`PROJECT.json`, "findings").

| Run | What happens |
|---|---|
| `rcvqueue_grow` | a packet is copied from a block the other thread has just freed; `ApartInBlock` holds in `rcvqueue`, where the block never grows |
| `startup_lost` | the super server is lost in the handshake, and the process serves with nothing started; `ServesComplete` says that this is the only way |

Four more configurations end in a violation and are kept to be run by hand:

| Configuration | What happens |
|---|---|
| `MCTaskPool_flag.cfg` | `uniqueVerified` is not initialised: a task that was never checked is "removed" from the unique container |
| `MCTaskPool_capacity.cfg` | `size()` reads two counters at two moments: a thread gets more than `connPerThread` |
| `MCTaskPool_recycled.cfg` | tasks in a hand-over queue at the stop are never deleted; `OnlyUnreadLeft` says that nothing else is left |
| `MCSendPath_two.cfg` | a second sender cuts a message in two; `AloneInOrder` says that the owner alone does not |

More were met while modelling and have no run of their own:

* `newTCPTask` uses a task it has given to a verify thread (`superserver.cpp:65`):
  in `TaskPool`, `pc[Accepter] = "register"` with `accTask \notin live` is
  reachable in four stages: the verify thread times the task out and the recycle
  thread deletes it.
* A packet longer than `MAX_DATASIZE` is refused only if it does not come in one
  piece (`zSocket.cpp:292` against `307`): in `RecvPath`, `Len(delivered[i]) >
  MaxData` is reachable.
* A whole packet that is still in the queue when the peer closes is dropped
  (`zSocket.cpp:104`, `372`), against the comment at `zSocket.cpp:103`.
* The client flushes when more than one byte waits (`zTCPClient.cpp:124`), so a
  last single byte stays: `Flushed` fails with `FlushAt = 1`.  And `sync` moves
  the queue's indices without the lock (`zSocket.cpp:214`): without its condition
  `OwnerAlone`, `NothingDropped` fails with two senders.
* `addVerify` adds a task to the verify thread that it has looked up before, which
  `joinAll` may have deleted since (`zTCPTaskPool.cpp:636-641`,
  `zThread.cpp:66-75`): `addVerifyDeleted` is reachable in `pool_final`.
  `ReceiverExists` is therefore about the pool's own threads.
* A thread clears its own handle at its end (`zThread.cpp:23`), so `joinAll` and
  `final` may call `pthread_join` with 0 for a thread that has been quick: `Join`
  with `handle` 0 is reachable in `pool_live` and `pool_final`.
* Of an okay thread that has been started twice `join` waits for the run started
  last, and the thread is deleted although the other may be at work
  (`zThread.cpp:38`, `47-51`, `73-75`); and while one drains the vector without
  `m_Lock`, the other may be in a pass over it (`zTCPTaskPool.cpp:498`).  Both are
  reachable in `pool_final`.
* A client that talks all the time, but sends no null command, is given up at its
  second check (`zTCPTask.cpp:57-61`, `138-142`): only a null command clears the
  tick.
* A client that only answers is given up after two intervals: the server does not
  send the test signal, although the comment at `zTCPTaskPool.cpp:417` says that
  it does.  `zTCPBufferClient`, which only echoes test signals, is
  such a client.
* Two threads in `DisConnet` with one connection can close a third party's: the
  second `close` uses a number the kernel has given again.  Without its
  condition `contested = {}`, `AloneUnharmed` fails.
* `epoll_wait` that is interrupted by a signal ends the process
  (`engine.h:2415`): `EpollFails` of `SubService` can always happen.
* `final` deletes the TCP server under the accept thread: `process = "killed"` is
  reachable in `AcceptCall`.  So it is when `final` joins a thread that was never
  started, in `JoinBegin`.

## 5. Fairness

*Pool.*  Every pthread goes on (weak fairness of each worker's step).  Locks are
got in the end (strong fairness of the steps that take one): every thread sleeps
outside its locks in each round, and one that releases a lock and asks for it
again at once is not assumed to lose for ever.  The hooks `waitSync` and
`recycleConn` do not answer "wait" for ever (strong fairness): without that the
code keeps the task by design.  Nothing is assumed of peers or of timeouts: a
connection may never break.

*Receiving.*  The network delivers what is under way, and the epoll thread and
the owner go on; the peer may be silent for ever.

*Sending.*  A thread inside `sendCmd` goes on and gets the lock, the owner goes
on with its loop, and the peer goes on reading.

*Sub service.*  The main thread, the epoll thread and the client's thread go on.
Nothing is assumed of `connect`, which may be refused for ever, of the super
server, of calls that fail, or of the accept thread.

*Descriptor.*  The threads go on, the recycle thread deletes what it is given, and
a connection that epoll could report is reported in the end (strong fairness of
`Wait` for each: `epoll_wait` goes round its ready list).  The pool need not give
up any connection and no peer need close.

*Heartbeat.*  Time passes, and the threads go on.

## 6. Proofs

### The pool at work (`TaskPool_proof`)

For every set of tasks and every number of threads and runs,
`ServeSpec => []ServeInv`.  The safety properties are not inductive one by one:
that a task is in one place only (`SingleOwner`) depends on a worker having a
task in hand exactly at some labels (`HandFull`), on each role being at its own
labels only (`RoleLabels`), and, with two runs of an okay thread, on only the
holder of `m_Lock` being inside a pass (`PassLocked`), which is also what keeps
passes valid (`IteratorsValid`).  `ServeInv` is the conjunction of all these with
the types; TLC checks its parts in `pool_serve`, but for the types and the last
four, which say only where a worker is.

A step moves a task in one of six ways, each with a lemma that says it keeps
`SingleOwner`, `NoneLost` and `StateOfPlace`: taken out of a vector into the hand
(`TakeKeeps`), put from the hand into a queue (`AddKeeps`), moved from the queue
to the vector (`MoveKeeps`), left where it is while its state may change in hand
(`StayKeeps`), built (`BornKeeps`) and deleted (`FreedKeeps`).  The pass lemmas
(`PassBegins`, `PassTakes`, `PassShrinks`) do the same for `IteratorsValid`.  One
lemma per part of `ServeInv` then goes through the actions.

`LifecycleKept` shows that `ServeSpec` implements `ConnectionLife`: with
`ServeInv`, each action is one of its steps or a stutter (`LifeStep`).

`CountsAreTrue` needs one thing more, `CountsKept`, inductive together with
`ServeInv`: between any two steps `task_count` is the number of tasks in the
vector, and `_size` that in the queue, or more while a run that holds the queue's
lock moves the tasks one by one and has not yet cleared `_size`.  A step that touches nothing
of this (`Uncounted`) keeps it; the five others are cases.

Assumed: what the named `ASSUME`s of `TaskPool` say of the constants (finite
sets, positive numbers).

### The stop of the pool (`TaskPool_proof`)

`Spec => []StopInv`, with the stop at any time, the pool at work around it, and any
number of tasks, threads and runs.  `final` joins each thread before it tells the
next one to end (`JoinsEach`).  What it has joined has ended with all its runs and
is never started again (`JoinedEnded`): `JoinReturn` counts a thread as joined only
if that is so, and otherwise sets `died`, which is the behaviour's last step;
`addOkay` starts threads, but only in the sync thread, which is joined first.  A
thread whose runs have all ended has an empty vector (`EndedEmpty`), and no
allocated task is out of sight (`Covered`).  With the statements at which a worker
has a task in hand (`HandFull`) and who calls `addSync` and `addOkay`
(`CallersAre`) this is inductive.  `ReceiverExists` follows from the order of the
joins (`AtWorkUnjoined`: whoever comes after a worker that is still at work has not
been joined), `OnlyUnreadLeft` from `EndedEmpty` and `HandFull` once everything has
been joined.  A step is a worker's that moves nothing, takes, adds or moves a queue
(`QuietStep`, `TakeStep`, `AddStep`, `MoveStep`), or a delete (`DropStep`), or
changes nothing of this (`StillStep`).

`ServeInvStopping` is the invariant of the pool at work for the stop: all of
`ServeInv` but the passes (`PlacesKept`), and the passes unless a step without a
defined outcome has been reached.  From it follow, with any number of runs,
`SingleOwner`, `NoneLost`, `StateOfPlace`, `ContainerExact` and `UniqueHeld` while
the threads drain their vectors, `IteratorsValid` up to the data race of two runs
of one thread, and that the pool implements `ConnectionLife` until its last step
(`LifecycleStopping`): a task an okay thread drains has served and is ended, one of
another thread is given up.  A worker that drains takes no lock, so the passes
depend on no other run of its thread being in one (`Alone`, the negation of
`Racing`), which every state has from which the model makes a step.  At work nobody
drains (`Serving`), and `ServeInvariant` holds without any condition.

What these theorems do not say: anything of what follows a join of a cleared
handle, a delete or a drain beside another run, or an `add` to a deleted thread.
Those are faults of the code (section 4), and what a program does after them
nobody can say.

### The buffer (`ByteBuffer_proof`)

`BufferInvariant` proves `BufferInv` for every trunk size and every `MaxPending`.
`MemoryBounded` is not inductive alone: a write grows the block when the front
wastes space, so one needs that the front is never longer than what waits
(`WasteBounded`), which is what `rd_flip`'s comparison gives.  `TrunksEnough` is
the arithmetic of `trunkCount`.  `FifoRefined` shows that the bytes between the
two indices are a FIFO: a write appends (`WriteEnqueues`), a flip drops the front
(`FlipConsumes`), whether the bytes have been moved or not.

### The sub service (`SubService_proof`)

`ServiceInv` ties the place of `main` to what has been started (`Started`), to the
flag and the answer (`Verified`), and to the handle and the socket of the client's
thread (`Joined`): `SocketOutlivesThread` is not inductive without knowing that a
thread that runs has a handle that is not 0, which is why `join` waits for it.  One
lemma per part goes through the actions.  The assumptions are those named in
`SubService`: any set of messages, any number of them, any value of the flag.

### The heartbeat (`Heartbeat_proof`)

`HeartbeatInv` says what each reading of the clock is worth: a thread's
`currentTime` is as old as its round (`Clocked`), a task is checked for its
verification in every round (`Verifying`), and the timer, the tick and the time
since the last null command fit together (`Hearing`): if the timer has been set
since that command, it is to go off within one interval of it, or of two with the
tick set.  `GivenUpInTime` and `GivenUpOnlyWithoutNull` follow for every interval
and every length of a round, as long as nobody sets the clock.  Neither promises
anything to a client that talks in other messages: the code does not.

### The descriptor (`SocketFd_proof`)

`SocketInv` holds for every set of connections and of descriptors.  `NoneLeft`
needs to know where a descriptor can be: a connection has at most the one its
`zSocket` knows (`Owned`), and none between `close` and the statement after it
(`Gone`), because it is accepted only once.  `AloneUnharmed` rests on `Calm`: as
long as no two threads have been at one connection (`contested` is empty), the
number in a `zSocket` is that of its own connection, or of none, or is about to be
cleared (`Apart`), and what epoll reports is registered with its own pointer or
closed (`EventsTrue`), so that the `Junk` of `AddAgain` is always refused.

### Receiving (`RecvPath_proof`)

For every set of lengths, every limit and every number of packets.  The bytes
still on their way (`Pending`: queue, receive buffer, wire and flight, put
together) are the rest of the stream that was sent, from the packet behind the
last one delivered to its end (`Sound`), as long as nothing illegal has been met;
afterwards nothing more will reach the queue (`Astray`: the socket is closed, or
what is in the buffer cannot begin a packet).  The queue is right in both cases
(`QueueRight`).  `RecvInv` is the disjunction of the two with the types,
`InOrder` and `FaultCloses`, none of which is inductive alone: that a piece cut
off by `recv` is completed by the next needs all of the stream.  "A piece of the
stream" is said of any two of its bytes (`Stream`), not of neighbours, so that no
step needs an induction: that concatenation and cutting keep it are lemmas about
sequences.

### Sending (`SendPath_proof`)

For every set of threads, of lengths and every size of the kernel's buffer.
`AloneInOrder` and `NothingDropped` are about the runs in which only the owner
has sent, and `SendInv` says what holds then: what is on the wire, in the hands
of `sendCmd` or `sync`, and in the queue are together (`All`) the messages one
behind the other (`Run`), and each message whose call has returned true is whole
in them (`Complete`); while the owner is in `send`, the queue is empty, so that
what it sends does not overtake what waits.  That the two halves of `sync`, the
`send` and the flip, do not count the same bytes twice is `Going`.  The types hold
whoever sends (`SendTypeCorrect`).

### The receive queue in memory (`RcvQueue_proof`)

For every set of lengths, every trunk, every amount that waits, and with the queue
growing as often as it likes, under one hypothesis on the behaviour:
`NotMovedWhileCopied`, no put moves the block between the owner's look at the queue
and the end of its copy.  The code does not see to it, and without it
`ApartInBlock` is false (`rcvqueue_grow`): the theorems say that this is the one
thing that can go wrong in copying without the lock.  `QueueInv` lays
the packets out in the block from `offPtr` to `currPtr` (`Laid`, `Whole`), with
what the epoll thread has reserved and copied behind it (`WriterRight`) and what
the owner has seen before it (`ReaderRight`).  The steps to get right are those
between the owner's look at the queue and its copy, during which the epoll thread
may reserve, copy and advance: it writes behind `currPtr` and the owner reads
before it.  A put that grows the block has room for the packet in it
(`ReserveFits`) and keeps what is laid where it is (`InGrown`).  Flipping
(`rd_flip`), which moves the bytes, happens under the lock when the reader has its
copy.

### Only model-checked

Liveness (the prover has no rule for fairness): `DeadDeleted`, `LateLeaves`,
`FinalEnds`, `Delivered`, `CloseNoticed`, `Flushed`, `CallsReturn`,
`EndsWhenTold`, `EndsWithServer`, `ClosedGivenBack`, `EndedWithoutNulls`.  What the two
runs with an expected violation show is a counterexample, and there is nothing to
prove.

## 7. What is not modelled

* What follows a step without a defined outcome: in the stop of the pool
  (`Undefined`, section 3), on a `Junk` pointer, or after a process has died of one.
* Small things that are taken for one step or for excluded.  In `RecvPath`, a packet
  of length zero with the right magic (`RecvByte(0)` then returns 0,
  `zSocket.cpp:290-292`); no command is empty.  In `SocketFd`, a system call and the
  load of the descriptor it is made on are one step (`zSocket.cpp:259`), and what a
  peer that has closed leaves unread is one more round of `recv`.  In `TaskPool` the operands of a comparison and of
  the sum in `size()` are read from left to right.
* `t_StackCmdQueue` beyond its use for one message; sizes near 64 KB.
* `ServerManager`: nothing calls it.  The hooks of `ServerTask` that would are
  stubs, `getID` returns 0 for every server, and no code broadcasts.
* The stop of the super server as a whole: its `final` is empty, and only the
  destructor calls `zTCPTaskPool::final`, but `delInstance` is called by nobody;
  `TaskPool` models what a service that deletes its pool would see.
* Waiting with a timeout (`WaitRecv(true)`, `WaitSend(true)` and with them
  `GetTimeFromSystemPower`), `zEpoll::mod` and `del`, `execAll`: never called.
* `stringtok`, `Parse` and `zProperties`: pure functions over strings and a map of
  one thread.
* Logging, encryption, the command statistics, calendar time, configuration and
  everything under `lib/`, `log/`, `server/` and `include/log4cplus`.  The last are
  the headers of a vendored library, two thirds of the source lines of the
  repository, without the code they declare.
