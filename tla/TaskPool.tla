------------------------------ MODULE TaskPool ------------------------------
(***************************************************************************)
(* zTCPTaskPool (include/zTCPTaskPool.cpp): the life of a connection task  *)
(* from newTCPTask through the verify, sync, okay and recycle threads to   *)
(* its deletion, and the orderly stop of the pool in final().              *)
(*                                                                         *)
(* A thread object is a pair <<role, index>>: it has a locked hand-over    *)
(* queue (zTCPTaskQueue) and a private container (tasks).  A worker is a   *)
(* pthread running such an object, <<role, index, run>>.  Only an okay     *)
(* thread can have several runs: addOkay starts again a thread that has    *)
(* been created and has not yet set its alive flag.                        *)
(*                                                                         *)
(* A vector of tasks is the set of its members: no pass depends on the     *)
(* order, and a task put twice in one vector would first be owned twice,   *)
(* which SingleOwner excludes.  The results of the virtual hooks of a task *)
(* (verifyConn, waitSync, recycleConn, uniqueAdd) are any that zTCPTask    *)
(* documents.  The heartbeat of checkSignal and terminate_wait both end as *)
(* a Terminate, so term stands for the two flags.                          *)
(***************************************************************************)
EXTENDS Integers, FiniteSets

CONSTANTS
    Tasks,          \* task objects: an address may be used again after delete
    NoTask,         \* the null pointer
    NVerify,        \* maxVerifyThreads
    NOkay,          \* maxThreadCount
    ConnPerThread,  \* zOkayThread::connPerThread
    MaxRuns         \* how often pthread_create succeeds for one okay thread

ASSUME TasksAssumption == IsFiniteSet(Tasks) /\ NoTask \notin Tasks
ASSUME SizesAssumption ==
    /\ NVerify \in Nat \ {0}
    /\ NOkay \in Nat \ {0}
    /\ ConnPerThread \in Nat \ {0}
    /\ MaxRuns \in Nat \ {0}

VARIABLES
    live,       \* the allocated tasks
    state,      \* zTCPTask::state
    term,       \* terminate # terminate_no, or terminate_wait
    verified,   \* zTCPTask::uniqueVerified, not initialised by the constructor
    broken,     \* the epoll thread has called DisConnet on the task's socket
    late,       \* checkVerifyTimeout: more than 10 s since the construction
    watched,    \* tasks whose socket is registered with epoll
    container,  \* the outer container of addToContainer / removeFromContainer
    unique,     \* the outer container of uniqueAdd / uniqueRemove
    queue,      \* zTCPTaskQueue::_queue of each thread object
    tasks,      \* the tasks vector of each thread object
    count,      \* zOkayThread::task_count
    size,       \* zTCPTaskQueue::_size of the okay threads
    alive,      \* zThread::alive of the okay threads
    qlock,      \* zTCPTaskQueue::mlock of the okay threads: its holder or 0
    mlock,      \* zOkayThread::m_Lock: the run that holds it, or 0
    pc,         \* the next statement of each worker
    hand,       \* the task a worker has taken out and not yet passed on
    todo,       \* what the current pass over tasks has still to visit
    target,     \* addOkay: pmin, then the thread the task is added to
    nostart,    \* addOkay's candidate that is not alive, or 0
    scanned,    \* addOkay: i, the thread its loop has come to
    least,      \* addOkay: pmin->size() as it was read for a comparison
    loaded,     \* addOkay: task_count as read by the first half of a size()
    accTask,    \* the pointer newTCPTask goes on using after addVerify
    hashCode,   \* addVerify's round-robin counter, modulo NVerify
    stopping,   \* how many threads final() has told to end ...
    joined,     \* ... and how many of them it has joined and deleted
    handle,     \* zThread::m_hThread: the run started last, or 0
    joining,    \* the run that join() waits for, or 0
    died        \* a step has been made that has no defined outcome

taskVars == <<live, state, term, verified, broken, late, watched>>
outerVars == <<container, unique>>
boxVars == <<queue, tasks>>
okayVars == <<count, size, alive, qlock, mlock>>
flowVars == <<pc, hand, todo>>
callVars == <<target, nostart, scanned, least, loaded>>
acceptVars == <<accTask, hashCode>>
finalVars == <<stopping, joined, handle, joining, died>>
vars == <<taskVars, outerVars, boxVars, okayVars, flowVars, callVars,
          acceptVars, finalVars>>

-----------------------------------------------------------------------------
States == {"notuse", "verify", "sync", "okay", "recycle"}

V(i) == <<"verify", i>>
O(i) == <<"okay", i>>
S == <<"sync", 1>>
R == <<"recycle", 1>>
VerifyThreads == {V(i) : i \in 1..NVerify}
OkayThreads == {O(i) : i \in 1..NOkay}
Threads == VerifyThreads \cup OkayThreads \cup {S, R}

Accepter == <<"accept", 1, 1>>
Verifier(i) == <<"verify", i, 1>>
Syncer == <<"sync", 1, 1>>
Recycler == <<"recycle", 1, 1>>
Okayer(i, r) == <<"okay", i, r>>
Object(w) == <<w[1], w[2]>>  \* the thread object a worker runs
Verifiers == {Verifier(i) : i \in 1..NVerify}
Okayers == {Okayer(i, r) : i \in 1..NOkay, r \in 1..MaxRuns}
Workers == Verifiers \cup Okayers \cup {Accepter, Syncer, Recycler}

\* Mutant: the recycle thread is ended first.
JoinOrder_recycleFirst == [k \in 1..(NVerify + NOkay + 2) |->
    IF k = 1 THEN R ELSE IF k <= NVerify + 1 THEN V(NVerify + 2 - k)
    ELSE IF k = NVerify + 2 THEN S ELSE O(NVerify + NOkay + 3 - k)]

\* The order in which zTCPTaskPool::final ends the threads: a group from its
\* back to its front.
JoinCount == NVerify + NOkay + 2
JoinOrder == [k \in 1..JoinCount |->
    IF k <= NVerify THEN V(NVerify + 1 - k)
    ELSE IF k = NVerify + 1 THEN S
    ELSE IF k < JoinCount THEN O(JoinCount - k)
    ELSE R]

isFinal(th) == \E k \in 1..stopping : JoinOrder[k] = th
Deleted(th) == \E k \in 1..joined : JoinOrder[k] = th

\* joinAll holds the write lock of the verify group while it joins it.
GroupLocked == stopping > 0 /\ joined < NVerify
GroupEmpty == joined >= NVerify

Load(i) == count[i] + size[i]

-----------------------------------------------------------------------------
(* zTCPTask::getNextState and resetState, and the pieces of the run loops. *)

\* Mutant: the case of "sync" falls through into the next one.
NextState_fallsThrough(s) ==
    IF s = "notuse" THEN "verify" ELSE IF s = "verify" THEN "sync"
    ELSE IF s \in {"sync", "okay"} THEN "recycle" ELSE "notuse"

NextState(s) == IF s = "notuse" THEN "verify"
                ELSE IF s = "verify" THEN "sync"
                ELSE IF s = "sync" THEN "okay"
                ELSE IF s = "okay" THEN "recycle" ELSE "notuse"

getNextState(t) ==
    /\ state' = [state EXCEPT ![t] = NextState(state[t])]
    /\ container' = IF state[t] = "sync" THEN container \cup {t}
                    ELSE IF state[t] = "okay" THEN container \ {t}
                    ELSE container

resetState(t) ==
    /\ state' = [state EXCEPT ![t] = "recycle"]
    /\ UNCHANGED container

\* The end of a task: its destructor closes the socket, which also takes it
\* out of the epoll set.  The flags of freed memory mean nothing and are FALSE.
Free(t) ==
    /\ getNextState(t)
    /\ live' = live \ {t}
    /\ watched' = watched \ {t}
    /\ term' = [term EXCEPT ![t] = FALSE]
    /\ verified' = [verified EXCEPT ![t] = FALSE]
    /\ broken' = [broken EXCEPT ![t] = FALSE]
    /\ late' = [late EXCEPT ![t] = FALSE]

\* Where a worker is when it has finished its loop body and tests isFinal: the
\* last pass ends with nothing to visit, and an okay thread's next step takes
\* the queue lock.
LoopEnd(w) == IF w \in Verifiers THEN "receive"
              ELSE IF w \in Okayers THEN "check" ELSE "pass"

Goto(w, label) == pc' = [pc EXCEPT ![w] = label]
Take(w, th, t) ==
    /\ tasks' = [tasks EXCEPT ![th] = @ \ {t}]
    /\ hand' = [hand EXCEPT ![w] = t]
Visited(w, t) == todo' = [todo EXCEPT ![w] = @ \ {t}]

\* zTCPTaskQueue::add of the task in hand.
Add(w, th) ==
    /\ queue' = [queue EXCEPT ![th] = @ \cup {hand[w]}]
    /\ hand' = [hand EXCEPT ![w] = NoTask]

\* zTCPTaskQueue::check_queue for a thread object that only one pthread runs.
check_queue(w, th) ==
    /\ queue' = [queue EXCEPT ![th] = {}]
    /\ tasks' = [tasks EXCEPT ![th] = @ \cup queue[th]]
    /\ todo' = [todo EXCEPT ![w] = tasks[th] \cup queue[th]]

\* pool->addRecycle of the task in hand, after which the worker goes on with
\* the pass it was in.
addRecycle(w, from, to) ==
    /\ pc[w] = from
    /\ Add(w, R)
    /\ Goto(w, to)
    /\ UNCHANGED <<taskVars, outerVars, tasks, okayVars, todo, callVars,
                   acceptVars, finalVars>>

-----------------------------------------------------------------------------
(* The accept thread: SuperService::newTCPTask and addVerify.              *)

\* A task is built and, if the group still has threads, given to the next one;
\* its uniqueVerified is whatever the memory held.
newTCPTask(t, garbage) ==
    /\ pc[Accepter] = "accept" /\ t \notin live /\ ~GroupLocked /\ ~GroupEmpty
    /\ live' = live \cup {t}
    /\ verified' = [verified EXCEPT ![t] = garbage]
    /\ getNextState(t)
    /\ hand' = [hand EXCEPT ![Accepter] = t]
    /\ accTask' = t
    /\ Goto(Accepter, "add")
    /\ UNCHANGED <<term, broken, late, watched, unique, boxVars, okayVars, todo,
                   callVars, hashCode, finalVars>>

\* After joinAll the group is empty, addVerify fails, the task is deleted and
\* newTCPTask falls through with a null pointer.
newTCPTaskRefused ==
    /\ pc[Accepter] = "accept" /\ GroupEmpty
    /\ accTask' = NoTask
    /\ hashCode' = (hashCode + 1) % NVerify
    /\ Goto(Accepter, "register")
    /\ UNCHANGED <<taskVars, outerVars, boxVars, okayVars, hand, todo,
                   callVars, finalVars>>

\* The group's lock has been given back with the pointer, so the thread may have
\* ended by now, but it has not been deleted yet.
addVerify ==
    /\ pc[Accepter] = "add" /\ ~Deleted(V(hashCode + 1))
    /\ Add(Accepter, V(hashCode + 1))
    /\ hashCode' = (hashCode + 1) % NVerify
    /\ Goto(Accepter, "register")
    /\ UNCHANGED <<taskVars, outerVars, tasks, okayVars, todo, callVars,
                   accTask, finalVars>>

\* epoll.add(tcpTask->getSock()): the accept thread reads the task although the
\* verify thread owns it by now.
epollAdd ==
    /\ pc[Accepter] = "register"
    /\ watched' = watched \cup ({accTask} \cap live)
    /\ accTask' = NoTask
    /\ Goto(Accepter, "accept")
    /\ UNCHANGED <<live, state, term, verified, broken, late, outerVars,
                   boxVars, okayVars, hand, todo, callVars, hashCode, finalVars>>

-----------------------------------------------------------------------------
(* zVerifyThread::run                                                      *)

VerifyFrame == <<term, broken, late, okayVars, callVars, acceptVars, finalVars>>

VerifyCheck(i) == LET w == Verifier(i) IN
    /\ pc[w] = "receive" /\ todo[w] = {} /\ ~isFinal(V(i))
    /\ check_queue(w, V(i))
    /\ Goto(w, "timeouts")
    /\ UNCHANGED <<taskVars, outerVars, okayVars, hand, callVars, acceptVars,
                   finalVars>>

\* Mutant: the timeout is noticed and nothing done about it.
VerifyTimeout_ignored(i, t) == LET w == Verifier(i) IN
    /\ pc[w] = "timeouts" /\ t \in todo[w]
    /\ Visited(w, t)
    /\ UNCHANGED <<taskVars, outerVars, boxVars, okayVars, hand, pc, callVars,
                   acceptVars, finalVars>>

\* The first pass: what is older than 10 s is given up.
VerifyTimeout(i, t) == LET w == Verifier(i) IN
    /\ pc[w] = "timeouts" /\ t \in todo[w]
    /\ Visited(w, t)
    /\ \/ /\ late[t]
          /\ Take(w, V(i), t)
          /\ resetState(t)
          /\ Goto(w, "drop timeouts")
       \/ /\ ~late[t]
          /\ UNCHANGED <<tasks, hand, state, container, pc>>
    /\ UNCHANGED <<live, verified, watched, unique, queue, VerifyFrame>>

VerifySecondPass(i) == LET w == Verifier(i) IN
    /\ pc[w] = "timeouts" /\ todo[w] = {}
    /\ todo' = [todo EXCEPT ![w] = tasks[V(i)]]
    /\ Goto(w, "receive")
    /\ UNCHANGED <<taskVars, outerVars, boxVars, okayVars, hand, callVars,
                   acceptVars, finalVars>>

\* The second pass, WaitRecv = -1 or verifyConn = -1, or the task is not unique.
VerifyFail(i, t) == LET w == Verifier(i) IN
    /\ pc[w] = "receive" /\ t \in todo[w] /\ t \in watched
    /\ Visited(w, t)
    /\ Take(w, V(i), t)
    /\ resetState(t)
    /\ Goto(w, "drop receive")
    /\ UNCHANGED <<live, verified, watched, unique, queue, VerifyFrame>>

\* Mutant: the task stays in the vector when it is handed on.
VerifyPass_notErased(i, t) == LET w == Verifier(i) IN
    /\ pc[w] = "receive" /\ t \in todo[w] /\ t \in watched /\ ~broken[t]
    /\ Visited(w, t)
    /\ hand' = [hand EXCEPT ![w] = t]
    /\ unique' = unique \cup {t}
    /\ verified' = [verified EXCEPT ![t] = TRUE]
    /\ getNextState(t)
    /\ Goto(w, "addSync")
    /\ UNCHANGED <<live, watched, queue, tasks, VerifyFrame>>

\* verifyConn = 1 and uniqueAdd = true: setUnique, and addSync's getNextState.
VerifyPass(i, t) == LET w == Verifier(i) IN
    /\ pc[w] = "receive" /\ t \in todo[w] /\ t \in watched /\ ~broken[t]
    /\ Visited(w, t)
    /\ Take(w, V(i), t)
    /\ unique' = unique \cup {t}
    /\ verified' = [verified EXCEPT ![t] = TRUE]
    /\ getNextState(t)
    /\ Goto(w, "addSync")
    /\ UNCHANGED <<live, watched, queue, VerifyFrame>>

\* No data yet, or not a whole message.
VerifyWait(i, t) == LET w == Verifier(i) IN
    /\ pc[w] = "receive" /\ t \in todo[w] /\ ~broken[t]
    /\ Visited(w, t)
    /\ UNCHANGED <<taskVars, outerVars, boxVars, okayVars, pc, hand, callVars,
                   acceptVars, finalVars>>

addSync(i) == LET w == Verifier(i) IN
    /\ pc[w] = "addSync"
    /\ Add(w, S)
    /\ Goto(w, "receive")
    /\ UNCHANGED <<taskVars, outerVars, tasks, okayVars, todo, callVars,
                   acceptVars, finalVars>>

-----------------------------------------------------------------------------
(* zSyncThread::run, with zTCPTaskPool::addOkay as its callee.             *)

SyncCheck ==
    /\ pc[Syncer] = "pass" /\ todo[Syncer] = {} /\ ~isFinal(S)
    /\ check_queue(Syncer, S)
    /\ UNCHANGED <<taskVars, outerVars, okayVars, pc, hand, callVars, acceptVars,
                   finalVars>>

\* waitSync = 1: the task is taken out and addOkay called.
SyncAgreed(t) ==
    /\ pc[Syncer] = "pass" /\ t \in todo[Syncer]
    /\ Visited(Syncer, t)
    /\ Take(Syncer, S, t)
    /\ Goto(Syncer, "scan")
    /\ UNCHANGED <<taskVars, outerVars, queue, okayVars, callVars, acceptVars,
                   finalVars>>

\* waitSync = 0: another round.
SyncWait(t) ==
    /\ pc[Syncer] = "pass" /\ t \in todo[Syncer]
    /\ Visited(Syncer, t)
    /\ UNCHANGED <<taskVars, outerVars, boxVars, okayVars, pc, hand, callVars,
                   acceptVars, finalVars>>

\* Mutant: the refused task keeps its state.
SyncRefused_noReset(t) ==
    /\ pc[Syncer] = "pass" /\ t \in todo[Syncer]
    /\ Visited(Syncer, t)
    /\ Take(Syncer, S, t)
    /\ Goto(Syncer, "drop")
    /\ UNCHANGED <<taskVars, outerVars, queue, okayVars, callVars, acceptVars,
                   finalVars>>

\* waitSync = -1.
SyncRefused(t) ==
    /\ pc[Syncer] = "pass" /\ t \in todo[Syncer]
    /\ Visited(Syncer, t)
    /\ Take(Syncer, S, t)
    /\ resetState(t)
    /\ Goto(Syncer, "drop")
    /\ UNCHANGED <<live, term, verified, broken, late, watched, unique, queue,
                   okayVars, callVars, acceptVars, finalVars>>

\* The locals of addOkay end with it.
Return == target' = 1 /\ nostart' = 0 /\ scanned' = 1 /\ least' = 0 /\ loaded' = 0

\* On to the next thread, or out of the loop of addOkay with a pmin.
NextThread ==
    \/ scanned < NOkay /\ scanned' = scanned + 1 /\ Goto(Syncer, "scan")
    \/ scanned = NOkay /\ UNCHANGED scanned /\ Goto(Syncer, "count")

\* The loop of addOkay: it ends at the first thread that is not alive. The first
\* of all is pmin until one with less is found.
addOkayScan ==
    /\ pc[Syncer] = "scan"
    /\ \/ /\ ~alive[scanned]
          /\ nostart' = scanned
          /\ Goto(Syncer, IF scanned = 1 THEN "start" ELSE "count")
          /\ UNCHANGED <<target, scanned>>
       \/ /\ alive[scanned] /\ scanned = 1
          /\ target' = 1 /\ NextThread
          /\ UNCHANGED nostart
       \/ /\ alive[scanned] /\ scanned > 1
          /\ Goto(Syncer, "pmin count")
          /\ UNCHANGED <<target, nostart, scanned>>
    /\ UNCHANGED <<taskVars, outerVars, boxVars, okayVars, hand, todo, least,
                   loaded, acceptVars, finalVars>>

\* pmin->size() > pOkayThread->size(): four counters are read, one by one.
addOkayCompare ==
    /\ \/ /\ pc[Syncer] = "pmin count" /\ Goto(Syncer, "pmin size")
          /\ loaded' = count[target]
          /\ UNCHANGED <<target, scanned, least>>
       \/ /\ pc[Syncer] = "pmin size" /\ Goto(Syncer, "other count")
          /\ least' = loaded + size[target]
          /\ UNCHANGED <<target, scanned, loaded>>
       \/ /\ pc[Syncer] = "other count" /\ Goto(Syncer, "other size")
          /\ loaded' = count[scanned]
          /\ UNCHANGED <<target, scanned, least>>
       \/ /\ pc[Syncer] = "other size" /\ NextThread
          /\ target' = IF least > loaded + size[scanned] THEN scanned ELSE target
          /\ UNCHANGED <<least, loaded>>
    /\ UNCHANGED <<taskVars, outerVars, boxVars, okayVars, hand, todo, nostart,
                   acceptVars, finalVars>>

\* The loop of addOkay, whose locals nothing reads before its end.
addOkayLoop ==
    /\ pc[Syncer] \in {"scan", "pmin count", "pmin size", "other count", "other size"}
    /\ addOkayScan \/ addOkayCompare

\* pmin->size() once more, against connPerThread.
addOkayCount ==
    /\ pc[Syncer] = "count"
    /\ loaded' = count[target]
    /\ Goto(Syncer, "size")
    /\ UNCHANGED <<taskVars, outerVars, boxVars, okayVars, hand, todo, target,
                   nostart, scanned, least, acceptVars, finalVars>>

addOkaySize ==
    /\ pc[Syncer] = "size"
    /\ IF loaded + size[target] < ConnPerThread
       THEN getNextState(hand[Syncer]) /\ Goto(Syncer, "addOkay")
       ELSE Goto(Syncer, "start") /\ UNCHANGED <<state, container>>
    /\ UNCHANGED <<live, term, verified, broken, late, watched, unique, boxVars,
                   okayVars, hand, todo, callVars, acceptVars, finalVars>>

\* nostart->start(): the flag is read again; pthread_create stores the handle of
\* the new run over that of the one before.
addOkayStart(r) ==
    /\ pc[Syncer] = "start" /\ nostart # 0
    /\ target' = nostart
    /\ IF alive[nostart]
       THEN pc' = [pc EXCEPT ![Syncer] = "addOkay"] /\ UNCHANGED handle
       ELSE /\ pc[Okayer(nostart, r)] = "off"
            /\ handle' = [handle EXCEPT ![O(nostart)] = r]
            /\ pc' = [pc EXCEPT ![Syncer] = "addOkay",
                                ![Okayer(nostart, r)] = "boot"]
    /\ getNextState(hand[Syncer])
    /\ UNCHANGED <<live, term, verified, broken, late, watched, unique, boxVars,
                   okayVars, hand, todo, nostart, scanned, least, loaded,
                   acceptVars, stopping, joined, joining, died>>

\* Mutant: the task for which there is no room is not given to addRecycle.
addOkayFailed_forgets ==
    /\ pc[Syncer] = "start" /\ nostart = 0
    /\ resetState(hand[Syncer])
    /\ hand' = [hand EXCEPT ![Syncer] = NoTask]
    /\ Return
    /\ Goto(Syncer, "pass")
    /\ UNCHANGED <<live, term, verified, broken, late, watched, unique, boxVars,
                   okayVars, todo, acceptVars, finalVars>>

\* No thread has room; or pthread_create fails, which leaves the handle as it was
\* or without meaning.
addOkayFailed ==
    /\ pc[Syncer] = "start"
    /\ \/ nostart = 0 /\ UNCHANGED handle
       \/ /\ nostart # 0 /\ ~alive[nostart]
          /\ handle' \in {handle, [handle EXCEPT ![O(nostart)] = 0]}
    /\ resetState(hand[Syncer])
    /\ Return
    /\ Goto(Syncer, "drop")
    /\ UNCHANGED <<live, term, verified, broken, late, watched, unique, boxVars,
                   okayVars, hand, todo, acceptVars, stopping, joined, joining,
                   died>>

addOkayAdd == LET i == target IN
    /\ pc[Syncer] = "addOkay" /\ qlock[i] = 0
    /\ Add(Syncer, O(i))
    /\ size' = [size EXCEPT ![i] = @ + 1]
    /\ Return
    /\ Goto(Syncer, "pass")
    /\ UNCHANGED <<taskVars, outerVars, tasks, count, alive, qlock, mlock, todo,
                   acceptVars, finalVars>>

-----------------------------------------------------------------------------
(* zOkayThread::run, run r of thread i.                                    *)

\* threadFunc sets alive before run().
OkayBoot(i, r) == LET w == Okayer(i, r) IN
    /\ pc[w] = "boot"
    /\ alive' = [alive EXCEPT ![i] = TRUE]
    /\ Goto(w, "check")
    /\ UNCHANGED <<taskVars, outerVars, boxVars, count, size, qlock, mlock, hand,
                   todo, callVars, acceptVars, finalVars>>

\* check_queue: the queue lock is held over the loop of _add, which takes m_Lock
\* for each task, and _size is cleared at its end.
OkayCheck(i, r) == LET w == Okayer(i, r) IN
    /\ pc[w] = "check" /\ ~isFinal(O(i)) /\ qlock[i] = 0
    /\ qlock' = [qlock EXCEPT ![i] = r]
    /\ Goto(w, "move")
    /\ UNCHANGED <<taskVars, outerVars, boxVars, count, size, alive, mlock, hand,
                   todo, callVars, acceptVars, finalVars>>

OkayAdd(i, r, t) == LET w == Okayer(i, r) IN
    /\ pc[w] = "move" /\ t \in queue[O(i)] /\ mlock[i] = 0
    /\ queue' = [queue EXCEPT ![O(i)] = @ \ {t}]
    /\ tasks' = [tasks EXCEPT ![O(i)] = @ \cup {t}]
    /\ count' = [count EXCEPT ![i] = Cardinality(tasks[O(i)] \cup {t})]
    /\ UNCHANGED <<taskVars, outerVars, size, alive, qlock, mlock, flowVars,
                   callVars, acceptVars, finalVars>>

OkayClear(i, r) == LET w == Okayer(i, r) IN
    /\ pc[w] = "move" /\ queue[O(i)] = {}
    /\ size' = [size EXCEPT ![i] = 0]
    /\ qlock' = [qlock EXCEPT ![i] = 0]
    /\ Goto(w, "lock")
    /\ UNCHANGED <<taskVars, outerVars, boxVars, count, alive, mlock, hand, todo,
                   callVars, acceptVars, finalVars>>

\* Mutant: the pass does not take m_Lock.
OkayLock_unlocked(i, r) == LET w == Okayer(i, r) IN
    /\ pc[w] = "lock"
    /\ mlock' = [mlock EXCEPT ![i] = r]
    /\ todo' = [todo EXCEPT ![w] = tasks[O(i)]]
    /\ Goto(w, "pass")
    /\ UNCHANGED <<taskVars, outerVars, boxVars, count, size, alive, qlock, hand,
                   callVars, acceptVars, finalVars>>

OkayLock(i, r) == LET w == Okayer(i, r) IN
    /\ pc[w] = "lock" /\ mlock[i] = 0
    /\ mlock' = [mlock EXCEPT ![i] = r]
    /\ todo' = [todo EXCEPT ![w] = tasks[O(i)]]
    /\ Goto(w, "pass")
    /\ UNCHANGED <<taskVars, outerVars, boxVars, count, size, alive, qlock, hand,
                   callVars, acceptVars, finalVars>>

\* Mutants: the ended task is given resetState, which does not tell the outer
\* container; task_count is not refreshed.
OkayEnd_reset(i, r, t) == LET w == Okayer(i, r) IN
    /\ pc[w] = "pass" /\ t \in todo[w]
    /\ Visited(w, t)
    /\ Take(w, O(i), t)
    /\ count' = [count EXCEPT ![i] = Cardinality(tasks[O(i)] \ {t})]
    /\ term' = [term EXCEPT ![t] = TRUE]
    /\ resetState(t)
    /\ Goto(w, "drop")
    /\ UNCHANGED <<live, verified, broken, late, watched, unique, queue, size,
                   alive, qlock, mlock, callVars, acceptVars, finalVars>>
OkayEnd_noCount(i, r, t) == LET w == Okayer(i, r) IN
    /\ pc[w] = "pass" /\ t \in todo[w]
    /\ Visited(w, t)
    /\ Take(w, O(i), t)
    /\ term' = [term EXCEPT ![t] = TRUE]
    /\ getNextState(t)
    /\ Goto(w, "drop")
    /\ UNCHANGED <<live, verified, broken, late, watched, unique, queue, okayVars,
                   callVars, acceptVars, finalVars>>

\* The first pass ends what is terminated, or what the heartbeat of
\* checkSignal terminates now.
OkayEnd(i, r, t) == LET w == Okayer(i, r) IN
    /\ pc[w] = "pass" /\ t \in todo[w]
    /\ Visited(w, t)
    /\ Take(w, O(i), t)
    /\ count' = [count EXCEPT ![i] = Cardinality(tasks[O(i)] \ {t})]
    /\ term' = [term EXCEPT ![t] = TRUE]
    /\ getNextState(t)
    /\ Goto(w, "drop")
    /\ UNCHANGED <<live, verified, broken, late, watched, unique, queue, size,
                   alive, qlock, mlock, callVars, acceptVars, finalVars>>

OkayKeep(i, r, t) == LET w == Okayer(i, r) IN
    /\ pc[w] = "pass" /\ t \in todo[w] /\ ~term[t]
    /\ Visited(w, t)
    /\ UNCHANGED <<taskVars, outerVars, boxVars, okayVars, pc, hand, callVars,
                   acceptVars, finalVars>>

\* Mutant: the lock is not given back.
OkayUnlock_keeps(i, r) == LET w == Okayer(i, r) IN
    /\ pc[w] = "pass" /\ todo[w] = {}
    /\ Goto(w, "poll")
    /\ UNCHANGED <<taskVars, outerVars, boxVars, okayVars, hand, todo, callVars,
                   acceptVars, finalVars>>

OkayUnlock(i, r) == LET w == Okayer(i, r) IN
    /\ pc[w] = "pass" /\ todo[w] = {}
    /\ mlock' = [mlock EXCEPT ![i] = 0]
    /\ Goto(w, "poll")
    /\ UNCHANGED <<taskVars, outerVars, boxVars, count, size, alive, qlock, hand,
                   todo, callVars, acceptVars, finalVars>>

\* Mutant: a socket the epoll thread has closed is not noticed.
OkayPoll_blind(i, r) == LET w == Okayer(i, r) IN
    /\ pc[w] = "poll" /\ mlock[i] = 0
    /\ \E failed \in SUBSET tasks[O(i)] :
          term' = [t \in Tasks |-> term[t] \/ t \in failed]
    /\ Goto(w, "check")
    /\ UNCHANGED <<live, state, verified, broken, late, watched, outerVars,
                   boxVars, okayVars, hand, todo, callVars, acceptVars,
                   finalVars>>

\* The second pass only marks: a closed socket, or a failed send of what is
\* buffered, terminates the task.
OkayPoll(i, r) == LET w == Okayer(i, r) IN
    /\ pc[w] = "poll" /\ mlock[i] = 0
    /\ \E failed \in SUBSET tasks[O(i)] :
          term' = [t \in Tasks |-> \/ term[t]
                                   \/ t \in failed
                                   \/ t \in tasks[O(i)] /\ broken[t]]
    /\ Goto(w, "check")
    /\ UNCHANGED <<live, state, verified, broken, late, watched, outerVars,
                   boxVars, okayVars, hand, todo, callVars, acceptVars,
                   finalVars>>

-----------------------------------------------------------------------------
(* zRecycleThread::run                                                     *)

RecycleCheck ==
    /\ pc[Recycler] = "pass" /\ todo[Recycler] = {} /\ ~isFinal(R)
    /\ check_queue(Recycler, R)
    /\ UNCHANGED <<taskVars, outerVars, okayVars, pc, hand, callVars, acceptVars,
                   finalVars>>

\* Mutant: uniqueRemove is not called.
Destroy_keepsUnique(t) ==
    /\ tasks' = [tasks EXCEPT ![R] = @ \ {t}]
    /\ Free(t)
    /\ UNCHANGED <<unique, queue, okayVars, hand, callVars, acceptVars, finalVars>>

\* uniqueRemove if the flag is set, getNextState, delete.
Destroy(t) ==
    /\ tasks' = [tasks EXCEPT ![R] = @ \ {t}]
    /\ unique' = IF verified[t] THEN unique \ {t} ELSE unique
    /\ Free(t)
    /\ UNCHANGED <<queue, okayVars, hand, callVars, acceptVars, finalVars>>

RecycleDelete(t) ==
    /\ pc[Recycler] = "pass" /\ t \in todo[Recycler]
    /\ Visited(Recycler, t)
    /\ Destroy(t)
    /\ UNCHANGED pc

\* recycleConn has not finished: another round.
RecycleWait(t) ==
    /\ pc[Recycler] = "pass" /\ t \in todo[Recycler]
    /\ Visited(Recycler, t)
    /\ UNCHANGED <<taskVars, outerVars, boxVars, okayVars, pc, hand, callVars,
                   acceptVars, finalVars>>

-----------------------------------------------------------------------------
(* What happens around the pool.                                           *)

\* RecvData fails in the epoll thread, which calls DisConnet.
Disconnect(t) ==
    /\ t \in live \cap watched /\ ~broken[t]
    /\ broken' = [broken EXCEPT ![t] = TRUE]
    /\ UNCHANGED <<live, state, term, verified, late, watched, outerVars,
                   boxVars, okayVars, flowVars, callVars, acceptVars, finalVars>>

\* Ten seconds pass, or the wall clock is set forward.
Deadline(t) ==
    /\ t \in live /\ state[t] = "verify" /\ ~late[t]
    /\ late' = [late EXCEPT ![t] = TRUE]
    /\ UNCHANGED <<live, state, term, verified, broken, watched, outerVars,
                   boxVars, okayVars, flowVars, callVars, acceptVars, finalVars>>

\* Terminate or TerminateWait by the code that handles the task's messages.
Terminate(t) ==
    /\ t \in live /\ state[t] = "okay" /\ ~term[t]
    /\ term' = [term EXCEPT ![t] = TRUE]
    /\ UNCHANGED <<live, state, verified, broken, late, watched, outerVars,
                   boxVars, okayVars, flowVars, callVars, acceptVars, finalVars>>

-----------------------------------------------------------------------------
(* zTCPTaskPool::final, and what each run does after its loop.             *)

\* thread->final() on the next thread, after the one before has been joined.
FinalNext ==
    /\ stopping = joined /\ stopping < JoinCount
    /\ stopping' = stopping + 1
    /\ UNCHANGED <<taskVars, outerVars, boxVars, okayVars, flowVars, callVars,
                   acceptVars, joined, handle, joining, died>>

\* thread->join() reads the handle. What pthread_join does with one that the
\* thread has cleared is not defined.
Join ==
    /\ joined < stopping /\ joining = 0
    /\ joining' = handle[JoinOrder[stopping]]
    /\ died' = (joining' = 0)
    /\ UNCHANGED <<taskVars, outerVars, boxVars, okayVars, flowVars, callVars,
                   acceptVars, stopping, joined, handle>>

\* pthread_join returns and the thread is deleted: under the hands of another run
\* of it, if there is one that has not ended.
HasEnded(th) == \A w \in Workers : Object(w) = th => pc[w] \in {"done", "off"}
JoinReturn ==
    /\ joining # 0
    /\ LET th == JoinOrder[stopping] IN
          /\ pc[<<th[1], th[2], joining>>] = "done"
          /\ joining' = 0
          /\ died' = ~HasEnded(th)
          /\ joined' = IF HasEnded(th) THEN joined + 1 ELSE joined
    /\ UNCHANGED <<taskVars, outerVars, boxVars, okayVars, flowVars, callVars,
                   acceptVars, stopping, handle>>

\* The accept thread adds its task to a verify thread that has been deleted since
\* it looked it up.
addVerifyDeleted ==
    /\ pc[Accepter] = "add" /\ Deleted(V(hashCode + 1))
    /\ died' = TRUE
    /\ UNCHANGED <<taskVars, outerVars, boxVars, okayVars, flowVars, callVars,
                   acceptVars, stopping, joined, handle, joining>>

Leave(w, th) ==
    /\ pc[w] = LoopEnd(w) /\ todo[w] = {} /\ isFinal(th)
    /\ Goto(w, "drain")
    /\ UNCHANGED <<taskVars, outerVars, boxVars, okayVars, hand, todo, callVars,
                   acceptVars, finalVars>>

\* Mutants: the task is not erased from the vector; every thread calls
\* getNextState.
DrainTask_notErased(w, th, t) ==
    /\ pc[w] = "drain" /\ t \in tasks[th]
    /\ hand' = [hand EXCEPT ![w] = t]
    /\ IF th \in OkayThreads THEN getNextState(t) ELSE resetState(t)
    /\ Goto(w, "drop drain")
    /\ UNCHANGED <<live, term, verified, broken, late, watched, unique, boxVars,
                   todo, okayVars, callVars, acceptVars, finalVars>>
DrainTask_alwaysNext(w, th, t) ==
    /\ pc[w] = "drain" /\ t \in tasks[th]
    /\ Take(w, th, t)
    /\ getNextState(t)
    /\ Goto(w, "drop drain")
    /\ UNCHANGED <<live, term, verified, broken, late, watched, unique, queue,
                   todo, okayVars, callVars, acceptVars, finalVars>>

\* Every task left in the vector is handed to the recycle thread; an okay
\* thread calls getNextState, the others resetState.
DrainTask(w, th, t) ==
    /\ pc[w] = "drain" /\ t \in tasks[th]
    /\ Take(w, th, t)
    /\ IF th \in OkayThreads THEN getNextState(t) ELSE resetState(t)
    /\ Goto(w, "drop drain")
    /\ UNCHANGED <<live, term, verified, broken, late, watched, unique, queue,
                   todo, okayVars, callVars, acceptVars, finalVars>>

DrainDelete(t) ==
    /\ pc[Recycler] = "drain" /\ t \in tasks[R]
    /\ Destroy(t)
    /\ UNCHANGED <<pc, todo>>

\* threadFunc after run(): the flag, which only okay threads are asked for, and
\* the handle.
Clear(th) ==
    /\ alive' = [i \in 1..NOkay |-> alive[i] /\ O(i) # th]
    /\ handle' = [handle EXCEPT ![th] = 0]

\* Mutants: the thread ends with its vector as it is, or waits for its queue.
Exit_early(w, th) ==
    /\ pc[w] = "drain"
    /\ Goto(w, "done")
    /\ Clear(th)
    /\ UNCHANGED <<taskVars, outerVars, boxVars, count, size, qlock, mlock, hand,
                   todo, callVars, acceptVars, stopping, joined, joining,
                   died>>
Exit_waits(w, th) ==
    /\ pc[w] = "drain" /\ tasks[th] = {} /\ queue[th] = {}
    /\ Goto(w, "done")
    /\ Clear(th)
    /\ UNCHANGED <<taskVars, outerVars, boxVars, count, size, qlock, mlock, hand,
                   todo, callVars, acceptVars, stopping, joined, joining,
                   died>>

Exit(w, th) ==
    /\ pc[w] = "drain" /\ tasks[th] = {}
    /\ Goto(w, "done")
    /\ Clear(th)
    /\ UNCHANGED <<taskVars, outerVars, boxVars, count, size, qlock, mlock, hand,
                   todo, callVars, acceptVars, stopping, joined, joining,
                   died>>

-----------------------------------------------------------------------------
Init ==
    /\ live = {}
    /\ state = [t \in Tasks |-> "notuse"]
    /\ term = [t \in Tasks |-> FALSE]
    /\ verified = [t \in Tasks |-> FALSE]
    /\ broken = [t \in Tasks |-> FALSE]
    /\ late = [t \in Tasks |-> FALSE]
    /\ watched = {} /\ container = {} /\ unique = {}
    /\ queue = [th \in Threads |-> {}]
    /\ tasks = [th \in Threads |-> {}]
    /\ count = [i \in 1..NOkay |-> 0]
    /\ size = [i \in 1..NOkay |-> 0]
    /\ alive = [i \in 1..NOkay |-> FALSE]
    /\ qlock = [i \in 1..NOkay |-> 0]
    /\ mlock = [i \in 1..NOkay |-> 0]
    /\ pc = [w \in Workers |-> IF w = Accepter THEN "accept"
                               ELSE IF w \notin Okayers THEN LoopEnd(w)
                               ELSE IF w[3] = 1 THEN "boot" ELSE "off"]
    /\ hand = [w \in Workers |-> NoTask]
    /\ todo = [w \in Workers |-> {}]
    /\ target = 1 /\ nostart = 0 /\ scanned = 1 /\ least = 0 /\ loaded = 0
    /\ accTask = NoTask /\ hashCode = 0
    /\ stopping = 0 /\ joined = 0
    /\ handle = [th \in Threads |-> 1] /\ joining = 0 /\ died = FALSE

AcceptStep == \/ \E t \in Tasks, garbage \in BOOLEAN : newTCPTask(t, garbage)
              \/ addVerify
              \/ epollAdd

VerifyStep(i) ==
    \/ VerifyCheck(i) \/ VerifySecondPass(i) \/ addSync(i)
    \/ \E t \in Tasks : \/ VerifyTimeout(i, t) \/ VerifyFail(i, t)
                        \/ VerifyPass(i, t) \/ VerifyWait(i, t)
    \/ addRecycle(Verifier(i), "drop timeouts", "timeouts")
    \/ addRecycle(Verifier(i), "drop receive", "receive")

SyncStep ==
    \/ SyncCheck
    \/ \E t \in Tasks : SyncAgreed(t) \/ SyncWait(t) \/ SyncRefused(t)
    \/ addOkayLoop \/ addOkayCount \/ addOkaySize
    \/ \E r \in 1..MaxRuns : addOkayStart(r)
    \/ addOkayFailed \/ addOkayAdd
    \/ addRecycle(Syncer, "drop", "pass")

OkayStep(i, r) ==
    \/ OkayBoot(i, r) \/ OkayCheck(i, r) \/ OkayClear(i, r)
    \/ OkayLock(i, r) \/ OkayUnlock(i, r) \/ OkayPoll(i, r)
    \/ \E t \in Tasks : OkayAdd(i, r, t) \/ OkayEnd(i, r, t) \/ OkayKeep(i, r, t)
    \/ addRecycle(Okayer(i, r), "drop", "pass")

RecycleStep ==
    \/ RecycleCheck
    \/ \E t \in Tasks : RecycleDelete(t) \/ RecycleWait(t)

Around == \E t \in Tasks : Disconnect(t) \/ Deadline(t) \/ Terminate(t)

\* The service at work: SuperService never ends its pool.
ServeNext ==
    \/ AcceptStep \/ SyncStep \/ RecycleStep \/ Around
    \/ \E i \in 1..NVerify : VerifyStep(i)
    \/ \E i \in 1..NOkay, r \in 1..MaxRuns : OkayStep(i, r)

DrainStep(w, th) ==
    \/ Leave(w, th) \/ Exit(w, th)
    \/ \E t \in Tasks : DrainTask(w, th, t)
    \/ addRecycle(w, "drop drain", "drain")

StopStep ==
    \/ FinalNext \/ Join \/ JoinReturn \/ newTCPTaskRefused \/ addVerifyDeleted
    \/ \E i \in 1..NVerify : DrainStep(Verifier(i), V(i))
    \/ \E i \in 1..NOkay, r \in 1..MaxRuns : DrainStep(Okayer(i, r), O(i))
    \/ DrainStep(Syncer, S)
    \/ Leave(Recycler, R) \/ Exit(Recycler, R)
    \/ \E t \in Tasks : DrainDelete(t)

\* The loop in which an okay run drains its vector does not take m_Lock: a data
\* race, if another run of the thread is at work on the vector.
Racing(i) == tasks[O(i)] # {} /\ \E r, q \in 1..MaxRuns :
    /\ r # q /\ pc[Okayer(i, r)] \in {"drain", "drop drain"}
    /\ pc[Okayer(i, q)] \in {"move", "pass", "drop", "drain", "drop drain"}

\* Nothing is said of what follows where C++ and POSIX say nothing.
Undefined == died \/ \E i \in 1..NOkay : Racing(i)

Next == ~Undefined /\ (ServeNext \/ StopStep)

ServeSpec == Init /\ [][ServeNext]_vars
Spec == Init /\ [][Next]_vars

-----------------------------------------------------------------------------
(* Properties.                                                             *)

Flags == [Tasks -> BOOLEAN]
Labels == {"accept", "add", "register", "check", "timeouts", "receive",
           "drop timeouts", "drop receive", "addSync", "pass", "drop", "scan",
           "pmin count", "pmin size", "other count", "other size", "count",
           "size", "start", "addOkay", "off", "boot", "move", "lock", "poll",
           "drain", "drop drain", "done"}

TaskTypes ==
    /\ live \subseteq Tasks /\ state \in [Tasks -> States]
    /\ term \in Flags /\ verified \in Flags /\ broken \in Flags /\ late \in Flags
    /\ watched \subseteq Tasks
    /\ container \subseteq Tasks /\ unique \subseteq Tasks
BoxTypes ==
    /\ queue \in [Threads -> SUBSET Tasks] /\ tasks \in [Threads -> SUBSET Tasks]
    /\ hand \in [Workers -> Tasks \cup {NoTask}]
    /\ todo \in [Workers -> SUBSET Tasks]
LabelTypes == pc \in [Workers -> Labels]
CountTypes ==
    /\ count \in [1..NOkay -> Nat] /\ size \in [1..NOkay -> Nat]
    /\ alive \in [1..NOkay -> BOOLEAN]
    /\ qlock \in [1..NOkay -> 0..MaxRuns] /\ mlock \in [1..NOkay -> 0..MaxRuns]
RestTypes ==
    /\ target \in 1..NOkay /\ nostart \in 0..NOkay
    /\ scanned \in 1..NOkay /\ least \in Nat /\ loaded \in Nat
    /\ accTask \in Tasks \cup {NoTask} /\ hashCode \in 0..(NVerify - 1)
    /\ stopping \in 0..JoinCount /\ joined \in 0..JoinCount
    /\ handle \in [Threads -> 0..MaxRuns] /\ joining \in 0..MaxRuns
    /\ died \in BOOLEAN

\* The type of every variable.
TypeOK == TaskTypes /\ BoxTypes /\ LabelTypes /\ CountTypes /\ RestTypes

\* A task is never in two places: two vectors or queues, a vector and the hands
\* of a pthread, or the hands of two ("a task in two threads at once" is the
\* danger the comment at zTCPTaskPool.cpp:504 warns of).
SingleOwner ==
    /\ \A a, b \in Threads :
          /\ queue[a] \cap tasks[b] = {}
          /\ a # b => queue[a] \cap queue[b] = {} /\ tasks[a] \cap tasks[b] = {}
    /\ \A w \in Workers, a \in Threads : hand[w] \notin queue[a] \cup tasks[a]
    /\ \A w, u \in Workers : hand[w] = hand[u] /\ hand[w] # NoTask => w = u

\* Every allocated task is somewhere, so it can still be recycled, and whatever
\* a thread holds is allocated: no leak and no use of a deleted task.
Held(t) == \/ \E th \in Threads : t \in queue[th] \cup tasks[th]
           \/ \E w \in Workers : hand[w] = t
NoneLost == \A t \in Tasks : t \in live <=> Held(t)

\* The state a task has been given is the one of the thread that has it: the
\* state is set before the task is handed over.
Stage(th) == IF th \in VerifyThreads THEN "verify" ELSE IF th = S THEN "sync"
             ELSE IF th \in OkayThreads THEN "okay" ELSE "recycle"
ChoiceLabels == {"scan", "pmin count", "pmin size", "other count", "other size",
                 "count", "size", "start"}
StageInHand(label) ==
    IF label = "add" THEN "verify"
    ELSE IF label \in ChoiceLabels \cup {"addSync"} THEN "sync"
    ELSE IF label = "addOkay" THEN "okay" ELSE "recycle"
StateOfPlace ==
    /\ \A th \in Threads : \A t \in queue[th] \cup tasks[th] : state[t] = Stage(th)
    /\ \A w \in Workers : hand[w] # NoTask => state[hand[w]] = StageInHand(pc[w])
    /\ \A t \in Tasks \ live : state[t] = "notuse"

\* addToContainer and removeFromContainer are paired: the outer container holds
\* exactly the tasks in the okay state, never a deleted one.
ContainerExact == container = {t \in live : state[t] = "okay"}

\* What is in the outer container of unique tasks is allocated and will be taken
\* out again (its flag is set), and a task that serves or is about to is in it.
UniqueHeld ==
    /\ unique \subseteq {t \in live : verified[t]}
    /\ \A t \in live : state[t] \in {"sync", "okay"} => t \in unique

\* With its two locks free an okay thread's size() is the number of tasks it has
\* been given, and at no time less: seen in one instant it never under-counts.
Given(i) == Cardinality(queue[O(i)]) + Cardinality(tasks[O(i)])
CountsTrue == \A i \in 1..NOkay :
    /\ Load(i) >= Given(i)
    /\ qlock[i] = 0 => Load(i) = Given(i)

\* A pass never meets a task that another run of its thread has erased: what it
\* has still to visit is in the vector, and the other runs have nothing in hand.
IteratorsValid == \A w \in Workers \ {Accepter} :
    /\ todo[w] \subseteq tasks[Object(w)]
    /\ todo[w] # {} => \A u \in Workers :
          u # w /\ Object(u) = Object(w) => todo[u] = {} /\ hand[u] = NoTask

\* The statements each role can be at, those at which a worker has a task in
\* hand, those of a worker that has nothing to visit, and the two an okay run
\* reaches only with m_Lock: with these the invariants above are inductive.
DrainLabels == {"drain", "drop drain", "done"}
RoleLabels ==
    /\ pc[Accepter] \in {"accept", "add", "register"}
    /\ \A w \in Verifiers : pc[w] \in {"timeouts", "receive", "drop timeouts",
                                       "drop receive", "addSync"} \cup DrainLabels
    /\ pc[Syncer] \in ChoiceLabels \cup {"pass", "drop", "addOkay"} \cup DrainLabels
    /\ \A w \in Okayers : pc[w] \in {"off", "boot", "check", "move", "lock",
                                     "pass", "drop", "poll"} \cup DrainLabels
    /\ pc[Recycler] \in {"pass"} \cup DrainLabels
HandLabels == ChoiceLabels \cup {"add", "addSync", "addOkay", "drop timeouts",
                                 "drop receive", "drop", "drop drain"}
HandFull == \A w \in Workers : hand[w] # NoTask <=> pc[w] \in HandLabels
PassOver == \A w \in Workers : pc[w] \in DrainLabels \cup {"off"} => todo[w] = {}
PassLocked == \A i \in 1..NOkay, r \in 1..MaxRuns : LET w == Okayer(i, r) IN
    /\ pc[w] \in {"pass", "drop"} <=> mlock[i] = r
    /\ todo[w] # {} => mlock[i] = r

ServeInv ==
    /\ TypeOK
    /\ SingleOwner /\ NoneLost /\ StateOfPlace /\ ContainerExact /\ UniqueHeld
    /\ IteratorsValid
    /\ RoleLabels /\ HandFull /\ PassOver /\ PassLocked

\* Each okay thread carries at most connPerThread connections
\* (zTCPTaskPool.cpp:354).
CapacityKept == \A i \in 1..NOkay : Given(i) <= ConnPerThread

\* uniqueRemove is for a task that has passed the uniqueness check
\* (zTCPTaskPool.cpp:578).
FlagTruthful == \A t \in tasks[R] : verified[t] => t \in unique

\* final() joins in an order that keeps the receiver of every task that one of
\* the pool's own threads has in hand. (Not of the accepter's: addVerifyDeleted.)
ReceiverExists == \A w \in Workers \ {Accepter} : hand[w] # NoTask =>
    CASE pc[w] = "addSync" -> ~Deleted(S)
      [] pc[w] \in ChoiceLabels \cup {"addOkay"} ->
            \A th \in OkayThreads : ~Deleted(th)
      [] OTHER -> ~Deleted(R)

\* final() ends with every connection recycled (zTCPTaskPool.cpp:596).
Stopped == joined = JoinCount
AllRecycled == Stopped => live \subseteq {hand[Accepter]}

\* What final() leaves allocated is only what was still in a hand-over queue.
OnlyUnreadLeft == Stopped =>
    \A t \in live : t = hand[Accepter] \/ \E th \in Threads : t \in queue[th]

\* The pool keeps the promise of ConnectionLife: each stage is entered along the
\* arrows of getNextState, or given up before okay, and each call into the outer
\* containers is made once, by whatever thread and in whatever interleaving.
Lifecycle == INSTANCE ConnectionLife
ConnectionLifeKept == Lifecycle!Life

-----------------------------------------------------------------------------
(* Fairness: every pthread goes on with its loop (they all sleep outside   *)
(* their locks, so a lock asked for again and again is obtained), and the  *)
(* hooks of a task do not answer "wait" for ever.                          *)

Fairness ==
    /\ WF_vars(~Undefined /\ addVerify) /\ WF_vars(~Undefined /\ epollAdd)
    /\ \A i \in 1..NVerify : WF_vars(~Undefined /\ VerifyStep(i))
    /\ SF_vars(~Undefined /\ SyncStep)
    /\ \A i \in 1..NOkay, r \in 1..MaxRuns : SF_vars(~Undefined /\ OkayStep(i, r))
    /\ WF_vars(~Undefined /\ RecycleStep)
    /\ \A t \in Tasks :
          /\ SF_vars(~Undefined /\ (SyncAgreed(t) \/ SyncRefused(t)))
          /\ SF_vars(~Undefined /\ RecycleDelete(t))

\* final() is one thread, and goes on once it has begun.
FinalStep == (FinalNext /\ stopping > 0) \/ Join \/ JoinReturn
FinalFairness ==
    /\ WF_vars(~Undefined /\ FinalStep)
    /\ \A i \in 1..NVerify : WF_vars(~Undefined /\ DrainStep(Verifier(i), V(i)))
    /\ \A i \in 1..NOkay, r \in 1..MaxRuns :
          WF_vars(~Undefined /\ DrainStep(Okayer(i, r), O(i)))
    /\ WF_vars(~Undefined /\ DrainStep(Syncer, S))
    /\ WF_vars(~Undefined /\ (\/ Leave(Recycler, R) \/ Exit(Recycler, R)
                              \/ \E t \in Tasks : DrainDelete(t)))

FairServeSpec == ServeSpec /\ Fairness
FairSpec == Spec /\ Fairness /\ FinalFairness

\* A connection that breaks, or is terminated, is deleted in the end, whatever
\* stage it is in, unless the pool is stopped.
DeadDeleted == \A t \in Tasks :
    t \in live /\ (broken[t] \/ state[t] = "recycle")
        ~> t \notin live \/ stopping > 0

\* A connection that has not identified itself in time leaves the verify stage.
LateLeaves == \A t \in Tasks :
    state[t] = "verify" /\ late[t] ~> state[t] # "verify" \/ stopping > 0

\* final() comes to an end once begun, or meets one of the four things that have
\* no defined outcome: the handle it joins has been cleared, another run of an okay
\* thread is still at work when the thread is deleted or when one drains, the
\* accept thread is late with its task.
FinalEnds == stopping > 0 ~> Stopped \/ Undefined
=============================================================================
