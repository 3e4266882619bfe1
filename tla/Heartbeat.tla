----------------------------- MODULE Heartbeat -----------------------------
(***************************************************************************)
(* How long a connection is kept that does not identify itself or sends no *)
(* null command. A verify thread gives up a task that was not verified in  *)
(* time; an okay thread gives up one that has sent no null command between *)
(* two of its checks, whatever else it said. Both read the wall clock once *)
(* a round, into currentTime, and compare tasks with that.                 *)
(*                                                                         *)
(* Every time is kept as its distance from the wall clock, so that time    *)
(* has no end. One task is followed; the other ways it may be lost are     *)
(* TaskPool's subject and SocketFd's.                                      *)
(***************************************************************************)
EXTENDS Integers

CONSTANTS
    Period,      \* _ten_min of a task
    VerifyTime,  \* the interval of checkVerifyTimeout
    MaxRound,    \* at most so long takes a round of a thread's loop
    MaxNulls,    \* at most so many null commands wait to be parsed
    Jumps,       \* by how much the wall clock may be set forward or back,
    MaxJumps,    \* and how often
    MaxBack      \* a time that lies further back is as good as one that lies here

ASSUME TimesAssumption ==
    /\ Period \in Nat \ {0} /\ VerifyTime \in Nat /\ MaxRound \in Nat \ {0}
    /\ MaxNulls \in Nat \ {0}
    /\ MaxBack \in Nat /\ MaxBack > VerifyTime + 2 * MaxRound
ASSUME JumpsAssumption == Jumps \subseteq Int /\ MaxJumps \in Nat

Threads == {"verify", "okay"}

VARIABLES
    stage,        \* where the task is: "toVerify", "verify", "sync", "toOkay",
                  \* "okay" or "recycled"; "to" while in the queue of the thread
    pc,           \* what a thread does next: "now", "queue", "check" or "read"
    round,        \* how long it has been in its round
    currentTime,  \* its currentTime, after the wall clock
    lifeTime,     \* when the task was made,
    _timer,       \* and when _ten_min is to go off, after the wall clock
    tick,         \* zTCPTask::tick
    request,      \* the client's first message waits to be read
    nulls,        \* the null commands that wait
    others,       \* messages of other kinds wait
    nullsOver,    \* the client will not send null commands any more
    sinceNull,    \* for the properties: how long no null command has been parsed
    jumps         \* how often the clock has been set

vars == <<stage, pc, round, currentTime, lifeTime, _timer, tick, request, nulls,
          others, nullsOver, sinceNull, jumps>>

clock == <<round, currentTime, lifeTime, _timer, sinceNull, jumps>>
client == <<request, nulls, others, nullsOver>>

Back(t) == IF t < -MaxBack THEN -MaxBack ELSE t

\* A time that is longer than InTime allows is not measured further.
TooLong == 2 * Period + 3 * MaxRound

-----------------------------------------------------------------------------
(* Time and the client                                                     *)

Shift(d) ==
    /\ currentTime' = [t \in Threads |-> Back(currentTime[t] - d)]
    /\ lifeTime' = Back(lifeTime - d)
    /\ _timer' = Back(_timer - d)

Pass ==
    /\ \A t \in Threads : round[t] < MaxRound
    /\ round' = [t \in Threads |-> round[t] + 1]
    /\ Shift(1)
    /\ sinceNull' = IF sinceNull < TooLong THEN sinceNull + 1 ELSE sinceNull
    /\ UNCHANGED <<stage, pc, tick, client, jumps>>

\* Somebody sets the clock that gettimeofday reads.
SetClock(d) ==
    /\ jumps < MaxJumps
    /\ Shift(d)
    /\ jumps' = jumps + 1
    /\ UNCHANGED <<stage, pc, round, tick, client, sinceNull>>

\* A null command of the client's own accord: nobody asks for one, checkSignal
\* does not send the test signal (zTCPTask.cpp:146-149).
SendNull ==
    /\ ~nullsOver /\ nulls < MaxNulls
    /\ nulls' = nulls + 1
    /\ UNCHANGED <<stage, pc, clock, tick, request, others, nullsOver>>

SendRequest ==
    /\ ~request /\ stage \in {"toVerify", "verify"}
    /\ request' = TRUE
    /\ UNCHANGED <<stage, pc, clock, tick, nulls, others, nullsOver>>

\* Whatever the client says after its request that is no null command.
SendOther ==
    /\ request /\ ~others
    /\ others' = TRUE
    /\ UNCHANGED <<stage, pc, clock, tick, request, nulls, nullsOver>>

\* It may go on to say other things.
EndNulls ==
    /\ ~nullsOver /\ nullsOver' = TRUE
    /\ UNCHANGED <<stage, pc, clock, tick, request, nulls, others>>

-----------------------------------------------------------------------------
(* zTCPTask                                                                *)

\* Mutant: the interval starts at the time the timer was to go off.
checkInterval_drifts(ct) == _timer <= ct /\ _timer' = _timer + Period

\* Timer::operator(): it goes off and is set again.
checkInterval(ct) == _timer <= ct /\ _timer' = ct + Period

\* Mutant: the tick is not set.
checkSignal_untold(ct) ==
    \/ /\ checkInterval(ct)
       /\ tick' = tick
       /\ stage' = IF tick THEN "recycled" ELSE stage
    \/ _timer > ct /\ UNCHANGED <<_timer, tick, stage>>

\* checkSignal, and what run then does with a task that is terminated.
checkSignal(ct) ==
    \/ /\ checkInterval(ct)
       /\ tick' = TRUE
       /\ stage' = IF tick THEN "recycled" ELSE stage
    \/ _timer > ct /\ UNCHANGED <<_timer, tick, stage>>

\* Mutant: the interval of the test signal.
checkVerifyTimeout_late(ct) == ct - lifeTime > Period

\* lifeTime.elapse(ct) > interval; elapse is 0 for a ct that is earlier.
checkVerifyTimeout(ct) == ct - lifeTime > VerifyTime

\* Mutant: whatever the client says clears the tick.
ListeningRecv_anyClears ==
    /\ nulls' = 0 /\ others' = FALSE
    /\ tick' = (tick /\ nulls = 0 /\ ~others)
    /\ sinceNull' = IF nulls > 0 THEN 0 ELSE sinceNull

\* ListeningRecv(false): all that waits is parsed. A null command clears the tick,
\* anything else goes to msgParse and leaves it.
ListeningRecv ==
    /\ nulls' = 0 /\ others' = FALSE
    /\ tick' = (tick /\ nulls = 0)
    /\ sinceNull' = IF nulls > 0 THEN 0 ELSE sinceNull

-----------------------------------------------------------------------------
(* A round of zVerifyThread::run or zOkayThread::run                       *)

Goto(t, l) == pc' = [pc EXCEPT ![t] = l]

\* currentTime.now()
Now(t) ==
    /\ pc[t] = "now"
    /\ currentTime' = [currentTime EXCEPT ![t] = 0]
    /\ round' = [round EXCEPT ![t] = 0]
    /\ Goto(t, "queue")
    /\ UNCHANGED <<stage, lifeTime, _timer, tick, client, sinceNull, jumps>>

\* check_queue of the verify thread; its _add reads nothing.
VerifyAdd ==
    /\ pc["verify"] = "queue"
    /\ stage' = IF stage = "toVerify" THEN "verify" ELSE stage
    /\ Goto("verify", "check")
    /\ UNCHANGED <<clock, tick, client>>

VerifyCheck ==
    /\ pc["verify"] = "check"
    /\ stage' = IF stage = "verify" /\ checkVerifyTimeout(currentTime["verify"])
                THEN "recycled" ELSE stage
    /\ Goto("verify", "read")
    /\ UNCHANGED <<clock, tick, client>>

\* Once the request is there verifyConn says 1, -1 or 0: not yet, in which case it
\* may have taken a message that is not whole.
VerifyRead ==
    /\ pc["verify"] = "read"
    /\ \/ stage # "verify" /\ UNCHANGED stage
       \/ stage = "verify" /\ ~request /\ UNCHANGED stage
       \/ stage = "verify" /\ request /\ stage' \in {"verify", "sync", "recycled"}
    /\ Goto("verify", "now")
    /\ UNCHANGED <<clock, tick, client>>

\* zSyncThread: waitSync is 1, addOkay finds a thread.
Sync ==
    /\ stage = "sync" /\ stage' = "toOkay"
    /\ UNCHANGED <<pc, clock, tick, client>>

\* check_queue of the okay thread: _add parses what has come with the request.
OkayAdd ==
    /\ pc["okay"] = "queue"
    /\ IF stage = "toOkay"
       THEN /\ stage' = "okay" /\ sinceNull' = 0
            /\ nulls' = 0 /\ others' = FALSE /\ tick' = (tick /\ nulls = 0)
       ELSE UNCHANGED <<stage, sinceNull, nulls, others, tick>>
    /\ Goto("okay", "check")
    /\ UNCHANGED <<round, currentTime, lifeTime, _timer, jumps, request, nullsOver>>

\* The first pass.
OkayCheck ==
    /\ pc["okay"] = "check"
    /\ IF stage = "okay" THEN checkSignal(currentTime["okay"])
                         ELSE UNCHANGED <<stage, _timer, tick>>
    /\ Goto("okay", "read")
    /\ UNCHANGED <<round, currentTime, lifeTime, sinceNull, jumps, client>>

\* The second pass.
OkayRead ==
    /\ pc["okay"] = "read"
    /\ IF stage = "okay" THEN ListeningRecv
                         ELSE UNCHANGED <<nulls, others, tick, sinceNull>>
    /\ Goto("okay", "now")
    /\ UNCHANGED <<stage, round, currentTime, lifeTime, _timer, jumps, request, nullsOver>>

-----------------------------------------------------------------------------
\* zRTime and Timer are made with the time of construction: _ten_min goes off at
\* the first check. The threads are somewhere in their rounds.
Init ==
    /\ stage = "toVerify"
    /\ pc \in [Threads -> {"now", "queue", "check", "read"}]
    /\ round \in [Threads -> 0..MaxRound]
    /\ currentTime = [t \in Threads |-> -round[t]]
    /\ lifeTime = 0 /\ _timer = 0 /\ tick = FALSE
    /\ request = FALSE /\ nulls = 0 /\ others = FALSE /\ nullsOver = FALSE
    /\ sinceNull = 0 /\ jumps = 0

Client == SendNull \/ SendRequest \/ SendOther \/ EndNulls
VerifyRound == Now("verify") \/ VerifyAdd \/ VerifyCheck \/ VerifyRead
OkayRound == Now("okay") \/ OkayAdd \/ OkayCheck \/ OkayRead
SomeJump == \E d \in Jumps : SetClock(d)

Next == Pass \/ SomeJump \/ Client \/ VerifyRound \/ Sync \/ OkayRound

Spec == Init /\ [][Next]_vars

\* Time goes on, and so do the three threads.
FairSpec == Spec /\ WF_vars(Pass) /\ WF_vars(VerifyRound) /\ WF_vars(Sync) /\ WF_vars(OkayRound)

-----------------------------------------------------------------------------
TypeOK ==
    /\ stage \in {"toVerify", "verify", "sync", "toOkay", "okay", "recycled"}
    /\ pc \in [Threads -> {"now", "queue", "check", "read"}]
    /\ round \in [Threads -> 0..MaxRound]
    /\ currentTime \in [Threads -> Int]
    /\ lifeTime \in Int /\ _timer \in Int /\ tick \in BOOLEAN
    /\ request \in BOOLEAN /\ nulls \in 0..MaxNulls
    /\ others \in BOOLEAN /\ nullsOver \in BOOLEAN
    /\ sinceNull \in Nat /\ jumps \in 0..MaxJumps

\* An okay thread gives up only a client of which it has parsed no null command
\* for a Period, less the round by which its currentTime may be late; unless the
\* clock is set. Other messages do not count: msgParse leaves the tick
\* (zTCPTask.cpp:57-61), and checkSignal gives up a client that talks but sends
\* no null command (zTCPTask.cpp:138-142).
Patient ==
    [][stage = "okay" /\ stage' = "recycled" /\ jumps = 0
           => sinceNull >= Period - MaxRound]_vars

\* And as long as the clock is left alone, a client that has not been verified
\* and one that sends no null command are given up before long, talk as it may:
\* after the interval and the rounds by which checks come late.
InTime ==
    jumps = 0 =>
        /\ stage = "verify" => -lifeTime <= VerifyTime + 2 * MaxRound
        /\ stage = "okay" => sinceNull < 2 * Period + 3 * MaxRound

\* A client that sends no null command any more is given up, wherever its task is,
\* whatever else it says, however the clock has been set, and however well the
\* connection is.
EndedWithoutNulls == nullsOver ~> stage = "recycled"
=============================================================================
