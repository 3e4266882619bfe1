-------------------------- MODULE Heartbeat_proof --------------------------
(***************************************************************************)
(* How long a connection is kept without a null command, for every length  *)
(* of the intervals and of the rounds: the inductive invariant behind      *)
(* InTime and Patient.                                                     *)
(***************************************************************************)
EXTENDS Heartbeat, TLAPS

USE DEF Threads

\* As long as nobody sets the clock, currentTime is as old as the round.
Clocked == jumps = 0 => \A t \in Threads : currentTime[t] = -round[t]

\* Before the task is with the okay thread it has no tick, and its timer is due.
Fresh == stage \notin {"okay", "recycled"} => tick = FALSE /\ (jumps = 0 => _timer <= 0)

\* How old a task that waits for its verification is, seen from currentTime.
Verifying ==
    LET ct == currentTime["verify"]
    IN  jumps = 0 =>
          /\ stage = "toVerify" =>
               IF pc["verify"] = "queue" THEN ct - lifeTime <= MaxRound
                                         ELSE -lifeTime <= round["verify"]
          /\ stage = "verify" =>
               IF pc["verify"] \in {"queue", "check"}
               THEN ct - lifeTime <= VerifyTime + MaxRound
               ELSE ct - lifeTime <= VerifyTime

\* The time since the last null command of a served task, and the time until its
\* timer goes off: with the tick set they make up an interval and not much more
\* than two; without it not more than one. What the round adds is gone after the check.
Heard ==
    /\ _timer <= Period
    /\ tick => sinceNull >= Period - MaxRound \/ sinceNull + _timer >= Period - MaxRound
Bound == IF tick THEN 2 * Period + MaxRound - 1 ELSE Period
Unchecked ==
    /\ sinceNull < Bound + MaxRound + round["okay"]
    /\ _timer <= currentTime["okay"] \/ sinceNull + _timer <= Bound
Checked == _timer > currentTime["okay"] /\ sinceNull + _timer <= Bound
Hearing ==
    jumps = 0 /\ stage = "okay" =>
        /\ Heard
        /\ IF pc["okay"] \in {"queue", "check"} THEN Unchecked ELSE Checked

HeartbeatInv == TypeOK /\ Clocked /\ Fresh /\ Verifying /\ Hearing

-----------------------------------------------------------------------------
(* The steps *)

\* The invariant holds when the task is handed over.
LEMMA InvInit == Init => HeartbeatInv
<1> SUFFICES ASSUME Init PROVE HeartbeatInv
  OBVIOUS
<1> USE TimesAssumption, JumpsAssumption DEF Init
<1>1. currentTime \in [Threads -> Int] /\ Clocked
  BY DEF Clocked
<1>2. TypeOK
  <2>1. /\ tick \in BOOLEAN /\ request \in BOOLEAN /\ others \in BOOLEAN /\ nullsOver \in BOOLEAN
        /\ stage \in {"toVerify"}
    OBVIOUS
  <2>2. lifeTime \in Int /\ _timer \in Int /\ nulls \in 0..MaxNulls /\ sinceNull \in Nat
        /\ jumps \in 0..MaxJumps
    OBVIOUS
  <2> QED BY <1>1, <2>1, <2>2 DEF TypeOK
<1>3. Fresh /\ Verifying /\ Hearing
  BY <1>1, <1>2 DEF TypeOK, Fresh, Verifying, Hearing
<1> QED BY <1>1, <1>2, <1>3 DEF HeartbeatInv

\* Every step keeps the types.
LEMMA TypesStep ==
    ASSUME TypeOK, [Next]_vars
    PROVE  TypeOK'
<1> USE TimesAssumption, JumpsAssumption
<1> USE DEF TypeOK, clock, client
<1>1. CASE Pass
  BY <1>1 DEF Pass, Shift, Back
<1>2. ASSUME NEW d \in Jumps, SetClock(d) PROVE TypeOK'
  BY <1>2 DEF SetClock, Shift, Back
<1>3. CASE SendNull
  BY <1>3 DEF SendNull
<1>4. CASE SendRequest
  BY <1>4 DEF SendRequest
<1>5. CASE EndNulls
  BY <1>5 DEF EndNulls
<1>6. ASSUME NEW t \in Threads, Now(t) PROVE TypeOK'
  BY <1>6 DEF Now, Goto
<1>7. CASE VerifyAdd
  BY <1>7 DEF VerifyAdd, Goto
<1>8. CASE VerifyCheck
  BY <1>8 DEF VerifyCheck, checkVerifyTimeout, Goto
<1>9. CASE VerifyRead
  BY <1>9 DEF VerifyRead, Goto
<1>10. CASE Sync
  BY <1>10 DEF Sync
<1>11. CASE OkayAdd
  <2>1. stage = "toOkay" => tick' \in BOOLEAN
    BY <1>11 DEF OkayAdd
  <2>2. stage # "toOkay" => tick' = tick
    BY <1>11 DEF OkayAdd
  <2>3. tick' \in BOOLEAN
    BY <2>1, <2>2
  <2>4. others' \in BOOLEAN /\ request' \in BOOLEAN /\ nullsOver' \in BOOLEAN
    BY <1>11 DEF OkayAdd
  <2>5. nulls' \in 0..MaxNulls /\ sinceNull' \in Nat
    BY <1>11 DEF OkayAdd
  <2>6. /\ stage' \in {stage, "okay"}
        /\ pc' \in [Threads -> {"now", "queue", "check", "read"}]
    BY <1>11 DEF OkayAdd, Goto
  <2>7. UNCHANGED <<round, currentTime, lifeTime, _timer, jumps>>
    BY <1>11 DEF OkayAdd
  <2> QED BY <2>3, <2>4, <2>5, <2>6, <2>7
<1>12. CASE OkayCheck
  <2>1. _timer' \in Int
    BY <1>12 DEF OkayCheck, checkSignal, checkInterval
  <2>3. tick' \in BOOLEAN
    BY <1>12 DEF OkayCheck, checkSignal
  <2>2. stage' \in {stage, "recycled"}
    BY <1>12 DEF OkayCheck, checkSignal
  <2> QED BY <1>12, <2>1, <2>2, <2>3 DEF OkayCheck, Goto
<1>13. CASE OkayRead
  <2>1. stage = "okay" => tick' \in BOOLEAN
    BY <1>13 DEF OkayRead, ListeningRecv
  <2>2. stage # "okay" => tick' = tick
    BY <1>13 DEF OkayRead
  <2>3. tick' \in BOOLEAN
    BY <2>1, <2>2
  <2>4. others' \in BOOLEAN /\ request' \in BOOLEAN /\ nullsOver' \in BOOLEAN
    BY <1>13 DEF OkayRead, ListeningRecv
  <2>5. nulls' \in 0..MaxNulls /\ sinceNull' \in Nat
    BY <1>13 DEF OkayRead, ListeningRecv
  <2>6. pc' \in [Threads -> {"now", "queue", "check", "read"}]
    BY <1>13 DEF OkayRead, Goto
  <2>7. UNCHANGED <<stage, round, currentTime, lifeTime, _timer, jumps>>
    BY <1>13 DEF OkayRead
  <2> QED BY <2>3, <2>4, <2>5, <2>6, <2>7
<1>15. CASE SendOther
  BY <1>15 DEF SendOther
<1>14. CASE UNCHANGED vars
  BY <1>14 DEF vars
<1> QED BY <1>1, <1>2, <1>3, <1>4, <1>5, <1>6, <1>7, <1>8, <1>9, <1>10, <1>11,
      <1>12, <1>13, <1>14, <1>15 DEF Next, SomeJump, Client, VerifyRound, OkayRound

\* And currentTime as old as the round.
LEMMA ClockedStep ==
    ASSUME TypeOK, Clocked, [Next]_vars
    PROVE  Clocked'
<1> USE TimesAssumption, JumpsAssumption
<1> USE DEF TypeOK, Clocked, clock, client
<1>1. CASE Pass
  BY <1>1 DEF Pass, Shift, Back
<1>2. ASSUME NEW d \in Jumps, SetClock(d) PROVE Clocked'
  BY <1>2 DEF SetClock, Shift
<1>3. CASE SendNull
  BY <1>3 DEF SendNull
<1>4. CASE SendRequest
  BY <1>4 DEF SendRequest
<1>5. CASE EndNulls
  BY <1>5 DEF EndNulls
<1>6. ASSUME NEW t \in Threads, Now(t) PROVE Clocked'
  BY <1>6 DEF Now, Goto
<1>7. CASE VerifyAdd
  BY <1>7 DEF VerifyAdd, Goto
<1>8. CASE VerifyCheck
  BY <1>8 DEF VerifyCheck, checkVerifyTimeout, Goto
<1>9. CASE VerifyRead
  BY <1>9 DEF VerifyRead, Goto
<1>10. CASE Sync
  BY <1>10 DEF Sync
<1>11. CASE OkayAdd
  BY <1>11 DEF OkayAdd, Goto
<1>12. CASE OkayCheck
  BY <1>12 DEF OkayCheck, checkSignal, checkInterval, Goto
<1>13. CASE OkayRead
  BY <1>13 DEF OkayRead, ListeningRecv, Goto
<1>15. CASE SendOther
  BY <1>15 DEF SendOther
<1>14. CASE UNCHANGED vars
  BY <1>14 DEF vars
<1> QED BY <1>1, <1>2, <1>3, <1>4, <1>5, <1>6, <1>7, <1>8, <1>9, <1>10, <1>11,
      <1>12, <1>13, <1>14, <1>15 DEF Next, SomeJump, Client, VerifyRound, OkayRound

\* And a task without a tick until it is served.
LEMMA FreshStep ==
    ASSUME TypeOK, Clocked, Fresh, [Next]_vars
    PROVE  Fresh'
<1> USE TimesAssumption, JumpsAssumption
<1> USE DEF TypeOK, Clocked, Fresh, clock, client
<1>1. CASE Pass
  BY <1>1 DEF Pass, Shift, Back
<1>2. ASSUME NEW d \in Jumps, SetClock(d) PROVE Fresh'
  BY <1>2 DEF SetClock, Shift
<1>3. CASE SendNull
  BY <1>3 DEF SendNull
<1>4. CASE SendRequest
  BY <1>4 DEF SendRequest
<1>5. CASE EndNulls
  BY <1>5 DEF EndNulls
<1>6. ASSUME NEW t \in Threads, Now(t) PROVE Fresh'
  BY <1>6 DEF Now, Goto
<1>7. CASE VerifyAdd
  BY <1>7 DEF VerifyAdd, Goto
<1>8. CASE VerifyCheck
  BY <1>8 DEF VerifyCheck, checkVerifyTimeout, Goto
<1>9. CASE VerifyRead
  BY <1>9 DEF VerifyRead, Goto
<1>10. CASE Sync
  BY <1>10 DEF Sync
<1>11. CASE OkayAdd
  BY <1>11 DEF OkayAdd, Goto
<1>12. CASE OkayCheck
  BY <1>12 DEF OkayCheck, checkSignal, checkInterval, Goto
<1>13. CASE OkayRead
  BY <1>13 DEF OkayRead, ListeningRecv, Goto
<1>15. CASE SendOther
  BY <1>15 DEF SendOther
<1>14. CASE UNCHANGED vars
  BY <1>14 DEF vars
<1> QED BY <1>1, <1>2, <1>3, <1>4, <1>5, <1>6, <1>7, <1>8, <1>9, <1>10, <1>11,
      <1>12, <1>13, <1>14, <1>15 DEF Next, SomeJump, Client, VerifyRound, OkayRound

\* And the age of a task that is being verified.
LEMMA VerifyingStep ==
    ASSUME TypeOK, Clocked, Verifying, [Next]_vars
    PROVE  Verifying'
<1> USE TimesAssumption, JumpsAssumption
<1> USE DEF TypeOK, Clocked, Verifying, clock, client
<1>1. CASE Pass
  BY <1>1 DEF Pass, Shift, Back
<1>2. ASSUME NEW d \in Jumps, SetClock(d) PROVE Verifying'
  BY <1>2 DEF SetClock, Shift
<1>3. CASE SendNull
  BY <1>3 DEF SendNull
<1>4. CASE SendRequest
  BY <1>4 DEF SendRequest
<1>5. CASE EndNulls
  BY <1>5 DEF EndNulls
<1>6. ASSUME NEW t \in Threads, Now(t) PROVE Verifying'
  BY <1>6 DEF Now, Goto
<1>7. CASE VerifyAdd
  BY <1>7 DEF VerifyAdd, Goto
<1>8. CASE VerifyCheck
  BY <1>8 DEF VerifyCheck, checkVerifyTimeout, Goto
<1>9. CASE VerifyRead
  BY <1>9 DEF VerifyRead, Goto
<1>10. CASE Sync
  BY <1>10 DEF Sync
<1>11. CASE OkayAdd
  BY <1>11 DEF OkayAdd, Goto
<1>12. CASE OkayCheck
  BY <1>12 DEF OkayCheck, checkSignal, checkInterval, Goto
<1>13. CASE OkayRead
  BY <1>13 DEF OkayRead, ListeningRecv, Goto
<1>15. CASE SendOther
  BY <1>15 DEF SendOther
<1>14. CASE UNCHANGED vars
  BY <1>14 DEF vars
<1> QED BY <1>1, <1>2, <1>3, <1>4, <1>5, <1>6, <1>7, <1>8, <1>9, <1>10, <1>11,
      <1>12, <1>13, <1>14, <1>15 DEF Next, SomeJump, Client, VerifyRound, OkayRound

\* And the time since the last null command of one that is served.
LEMMA HearingStep ==
    ASSUME TypeOK, Clocked, Fresh, Hearing, [Next]_vars
    PROVE  Hearing'
<1> USE TimesAssumption, JumpsAssumption
<1> USE DEF TypeOK, Clocked, Hearing, Heard, Bound, Unchecked, Checked, clock, client
<1>1. CASE Pass
  <2> SUFFICES ASSUME jumps = 0, stage = "okay"
               PROVE  Heard' /\ IF pc["okay"] \in {"queue", "check"} THEN Unchecked' ELSE Checked'
    BY <1>1 DEF Pass, Hearing
  <2>1. /\ tick' = tick /\ round["okay"]' = round["okay"] + 1
        /\ sinceNull' \in Nat /\ sinceNull' <= sinceNull + 1
        /\ sinceNull' = sinceNull + 1 \/ sinceNull' >= 2 * Period + 3 * MaxRound
    BY <1>1 DEF Pass, TooLong
  <2>2. currentTime["okay"]' = currentTime["okay"] - 1 /\ currentTime["okay"] = -round["okay"]
    BY <1>1 DEF Pass, Shift, Back
  <2>3. _timer' = _timer - 1 \/ (_timer' > _timer - 1 /\ _timer' = -MaxBack)
    BY <1>1 DEF Pass, Shift, Back
  <2>4. round["okay"] + 1 <= MaxRound
    BY <1>1 DEF Pass
  <2>5. Heard'
    BY <2>1, <2>3, <2>4
  <2>6. Unchecked => Unchecked'
    BY <2>1, <2>2, <2>3, <2>4
  <2>7. Checked => Checked'
    BY <2>1, <2>2, <2>3, <2>4
  <2> QED BY <2>5, <2>6, <2>7
<1>2. ASSUME NEW d \in Jumps, SetClock(d) PROVE Hearing'
  BY <1>2 DEF SetClock, Shift
<1>3. CASE SendNull
  BY <1>3 DEF SendNull
<1>4. CASE SendRequest
  BY <1>4 DEF SendRequest
<1>5. CASE EndNulls
  BY <1>5 DEF EndNulls
<1>6. ASSUME NEW t \in Threads, Now(t) PROVE Hearing'
  BY <1>6 DEF Now, Goto
<1>7. CASE VerifyAdd
  BY <1>7 DEF VerifyAdd, Goto
<1>8. CASE VerifyCheck
  BY <1>8 DEF VerifyCheck, checkVerifyTimeout, Goto
<1>9. CASE VerifyRead
  BY <1>9 DEF VerifyRead, Goto
<1>10. CASE Sync
  BY <1>10 DEF Sync
<1>11. CASE OkayAdd
  BY <1>11 DEF OkayAdd, Fresh, Goto
<1>12. CASE OkayCheck
  BY <1>12 DEF OkayCheck, checkSignal, checkInterval, Goto
<1>13. CASE OkayRead
  <2> SUFFICES ASSUME jumps = 0, stage = "okay"
               PROVE  Heard' /\ Checked'
    BY <1>13 DEF OkayRead, Goto
  <2>1. Heard /\ Checked
    BY <1>13 DEF OkayRead
  <2>2. currentTime' = currentTime /\ _timer' = _timer
    BY <1>13 DEF OkayRead
  <2>3. CASE nulls = 0
    <3>1. (tick' <=> tick) /\ sinceNull' = sinceNull
      BY <1>13, <2>3 DEF OkayRead, ListeningRecv
    <3> QED BY <2>1, <2>2, <3>1
  <2>4. CASE nulls # 0
    <3>1. sinceNull' = 0 /\ tick' = (tick /\ nulls = 0)
      BY <1>13, <2>4 DEF OkayRead, ListeningRecv
    <3>2. ~tick'
      BY <2>4, <3>1, Zenon
    <3> QED BY <2>1, <2>2, <3>1, <3>2
  <2> QED BY <2>3, <2>4
<1>15. CASE SendOther
  BY <1>15 DEF SendOther
<1>14. CASE UNCHANGED vars
  BY <1>14 DEF vars
<1> QED BY <1>1, <1>2, <1>3, <1>4, <1>5, <1>6, <1>7, <1>8, <1>9, <1>10, <1>11,
      <1>12, <1>13, <1>14, <1>15 DEF Next, SomeJump, Client, VerifyRound, OkayRound

\* An okay thread gives up a client only after a time without a null command.
LEMMA PatientStep ==
    ASSUME TypeOK, Clocked, Hearing, [Next]_vars,
           stage = "okay", stage' = "recycled", jumps = 0
    PROVE  sinceNull >= Period - MaxRound
<1> USE TimesAssumption DEF TypeOK
<1>1. OkayCheck
  BY DEF Next, SomeJump, Client, VerifyRound, OkayRound, vars, Pass, SetClock, SendNull,
         SendRequest, SendOther, EndNulls, Now, VerifyAdd, VerifyCheck, VerifyRead, Sync,
         OkayAdd, OkayRead
<1>2. tick /\ _timer <= currentTime["okay"]
  BY <1>1 DEF OkayCheck, checkSignal, checkInterval
<1>3. sinceNull >= Period - MaxRound \/ sinceNull + _timer >= Period - MaxRound
  BY <1>2 DEF Hearing, Heard
<1>4. currentTime["okay"] <= 0
  BY DEF Clocked
<1> QED BY <1>2, <1>3, <1>4

-----------------------------------------------------------------------------
(* The theorems *)

\* The invariant.
THEOREM HeartbeatInvariant == Spec => []HeartbeatInv
<1>1. Init => HeartbeatInv
  BY InvInit
<1>2. HeartbeatInv /\ [Next]_vars => HeartbeatInv'
  BY TypesStep, ClockedStep, FreshStep, VerifyingStep, HearingStep DEF HeartbeatInv
<1> QED BY <1>1, <1>2, PTL DEF Spec

\* A client that is not verified, and one that sends no null command, are given up
\* in time, whatever else they say and whatever the intervals are.
THEOREM GivenUpInTime == Spec => []InTime
<1>1. HeartbeatInv => InTime
  <2> SUFFICES ASSUME HeartbeatInv, jumps = 0
               PROVE  /\ stage = "verify" => -lifeTime <= VerifyTime + 2 * MaxRound
                      /\ stage = "okay" => sinceNull < 2 * Period + 3 * MaxRound
    BY DEF InTime
  <2> USE TimesAssumption DEF HeartbeatInv, TypeOK, Clocked
  <2>1. stage = "verify" => -lifeTime <= VerifyTime + 2 * MaxRound
    BY DEF Verifying
  <2>2. stage = "okay" => sinceNull < 2 * Period + 3 * MaxRound
    BY DEF Hearing, Bound, Unchecked, Checked
  <2> QED BY <2>1, <2>2
<1> QED BY <1>1, HeartbeatInvariant, PTL

\* Nobody is given up of whom a null command has been parsed within an interval,
\* less one round. Other messages do not count: that is all the code promises to a
\* client that talks.
THEOREM GivenUpOnlyWithoutNull == Spec => Patient
<1>1. HeartbeatInv /\ [Next]_vars
        => [stage = "okay" /\ stage' = "recycled" /\ jumps = 0
                => sinceNull >= Period - MaxRound]_vars
  BY PatientStep DEF HeartbeatInv
<1> QED BY <1>1, HeartbeatInvariant, PTL DEF Spec, Patient
=============================================================================
