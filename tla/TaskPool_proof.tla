--------------------------- MODULE TaskPool_proof ---------------------------
(***************************************************************************)
(* Proofs about TaskPool.  At work (ServeSpec): the types, the inductive   *)
(* invariant ServeInv behind single ownership, the agreement of a task's   *)
(* state with its place and the pairing of the outer containers, and       *)
(* CountsKept behind the truth of the load counters.  With the orderly     *)
(* stop as well (Spec): StopInv, behind the safety of the hand-overs and   *)
(* what the stop may leave allocated, and StoppingInv, which is ServeInv   *)
(* but for a pass that two runs of one okay thread race for.  They hold up *)
(* to and in the first state that is Undefined, after which TaskPool has   *)
(* no step, with any number of runs of the threads.                        *)
(*                                                                         *)
(* A step does one of six things to the places of the tasks: it moves a    *)
(* whole queue into its vector, takes a task out of a vector, adds the     *)
(* task in hand to a queue, builds a task, deletes one, or leaves all of   *)
(* them where they are.  One lemma for each shows that PlaceInv survives;  *)
(* the actions are then cases of those lemmas.                             *)
(***************************************************************************)
EXTENDS TaskPool, TLAPS, FiniteSetTheorems

USE DEF ChoiceLabels

PlaceInv == SingleOwner /\ NoneLost /\ StateOfPlace /\ HandFull

\* The sizes as numbers.
LEMMA Sizes == /\ NVerify \in Nat /\ NOkay \in Nat /\ MaxRuns \in Nat
               /\ NVerify >= 1 /\ NOkay >= 1 /\ MaxRuns >= 1
  BY SizesAssumption

\* A set of tasks is finite and has a number.
LEMMA TaskCounts == \A X \in SUBSET Tasks : IsFiniteSet(X) /\ Cardinality(X) \in Nat
  BY TasksAssumption, FS_Subset, FS_CardinalityType

\* The tuples that name the workers are all different, and each names its object.
LEMMA WorkerFacts ==
    /\ Accepter \in Workers /\ Syncer \in Workers /\ Recycler \in Workers
    /\ Accepter # Syncer /\ Accepter # Recycler /\ Syncer # Recycler
    /\ \A i \in 1..NVerify :
          /\ Verifier(i) \in Workers /\ Verifier(i) \in Verifiers
          /\ Verifier(i) \notin Okayers
          /\ Verifier(i) # Accepter /\ Verifier(i) # Syncer /\ Verifier(i) # Recycler
          /\ Object(Verifier(i)) = V(i)
    /\ \A i \in 1..NOkay, r \in 1..MaxRuns :
          /\ Okayer(i, r) \in Workers /\ Okayer(i, r) \in Okayers
          /\ Okayer(i, r) \notin Verifiers
          /\ Okayer(i, r) # Accepter /\ Okayer(i, r) # Syncer
          /\ Okayer(i, r) # Recycler
          /\ Object(Okayer(i, r)) = O(i)
          /\ \A j \in 1..NOkay, q \in 1..MaxRuns :
                Okayer(i, r) = Okayer(j, q) => i = j /\ r = q
    /\ Object(Syncer) = S /\ Object(Recycler) = R
    /\ \A w \in {Accepter, Syncer, Recycler} : w \notin Verifiers \cup Okayers
  BY DEF Accepter, Syncer, Recycler, Verifier, Okayer, Verifiers, Okayers,
         Workers, Object, V, O, S, R

\* The roles are disjoint.
LEMMA RoleSets ==
    /\ {Accepter, Syncer, Recycler} \subseteq Workers
    /\ Accepter # Syncer /\ Accepter # Recycler /\ Syncer # Recycler
    /\ Verifiers \subseteq Workers /\ Okayers \subseteq Workers
    /\ Verifiers \cap Okayers = {}
    /\ {Accepter, Syncer, Recycler} \cap (Verifiers \cup Okayers) = {}
    /\ \A i \in 1..NVerify : Verifier(i) \in Verifiers
    /\ \A i \in 1..NOkay, r \in 1..MaxRuns : Okayer(i, r) \in Okayers
  BY WorkerFacts DEF Workers, Verifiers, Okayers

\* Likewise for the thread objects, with the stage each stands for.
LEMMA ThreadFacts ==
    /\ S \in Threads /\ R \in Threads /\ S # R
    /\ Stage(S) = "sync" /\ Stage(R) = "recycle"
    /\ \A i \in 1..NVerify : /\ V(i) \in Threads /\ Stage(V(i)) = "verify"
                             /\ V(i) # S /\ V(i) # R
    /\ \A i \in 1..NOkay : /\ O(i) \in Threads /\ Stage(O(i)) = "okay"
                           /\ O(i) # S /\ O(i) # R
    /\ \A i, j \in 1..NOkay : O(i) = O(j) => i = j
  BY DEF Threads, VerifyThreads, OkayThreads, V, O, S, R, Stage

\* A task leaves the vector of a thread for the hands of a worker.
LEMMA TakeKeeps ==
    ASSUME TypeOK, PlaceInv, NEW w \in Workers, NEW th \in Threads,
           NEW t \in tasks[th], hand[w] = NoTask,
           NEW label \in HandLabels, StageInHand(label) \in States,
           Take(w, th, t), Goto(w, label),
           state' = [state EXCEPT ![t] = StageInHand(label)],
           queue' = queue, live' = live
    PROVE  PlaceInv'
  <1> USE TasksAssumption
  <1>1. t \in Tasks /\ t # NoTask
    BY DEF TypeOK, TaskTypes, BoxTypes
  <1>2. SingleOwner'
    BY <1>1 DEF TypeOK, TaskTypes, BoxTypes, LabelTypes, PlaceInv, SingleOwner, Take
  <1>3. NoneLost'
    BY <1>1 DEF TypeOK, TaskTypes, BoxTypes, LabelTypes, PlaceInv, NoneLost, Held, Take
  <1>4. StateOfPlace'
    BY <1>1 DEF TypeOK, TaskTypes, BoxTypes, LabelTypes, PlaceInv, SingleOwner, NoneLost, Held, StateOfPlace, Take, Goto
  <1>5. HandFull'
    BY <1>1 DEF TypeOK, TaskTypes, BoxTypes, LabelTypes, PlaceInv, HandFull, Take, Goto
  <1> QED BY <1>2, <1>3, <1>4, <1>5 DEF PlaceInv

\* The task in hand is added to the queue of the thread its state names.
LEMMA AddKeeps ==
    ASSUME TypeOK, PlaceInv, NEW w \in Workers, NEW th \in Threads,
           hand[w] # NoTask, Stage(th) = StageInHand(pc[w]),
           NEW label, label \notin HandLabels,
           Add(w, th), Goto(w, label),
           tasks' = tasks, state' = state, live' = live
    PROVE  PlaceInv'
  <1> USE TasksAssumption
  <1>1. hand[w] \in Tasks
    BY DEF TypeOK, TaskTypes, BoxTypes
  <1>2. SingleOwner'
    BY <1>1 DEF TypeOK, TaskTypes, BoxTypes, LabelTypes, PlaceInv, SingleOwner, Add
  <1>3. NoneLost'
    BY <1>1 DEF TypeOK, TaskTypes, BoxTypes, LabelTypes, PlaceInv, NoneLost, Held, Add
  <1>4. StateOfPlace'
    BY <1>1 DEF TypeOK, TaskTypes, BoxTypes, LabelTypes, PlaceInv, SingleOwner, NoneLost, Held, StateOfPlace, Add, Goto
  <1>5. HandFull'
    BY <1>1 DEF TypeOK, TaskTypes, BoxTypes, LabelTypes, PlaceInv, HandFull, Add, Goto
  <1> QED BY <1>2, <1>3, <1>4, <1>5 DEF PlaceInv

\* A worker whose label stays on the same side of HandLabels.
SameSide == \A u \in Workers :
    pc'[u] = pc[u] \/ (pc[u] \notin HandLabels /\ pc'[u] \notin HandLabels)

\* check_queue moves tasks of a queue into the vector of the same thread.
Moved(th, X) == /\ queue' = [queue EXCEPT ![th] = @ \ X]
                /\ tasks' = [tasks EXCEPT ![th] = @ \cup X]

LEMMA CheckMoves == \A w, th : check_queue(w, th) => Moved(th, queue[th])
  <1>1. \A th : queue[th] \ queue[th] = {}
    OBVIOUS
  <1> QED BY <1>1 DEF check_queue, Moved

LEMMA MoveKeeps ==
    ASSUME TypeOK, PlaceInv, NEW th \in Threads, SameSide,
           NEW X \in SUBSET queue[th], Moved(th, X), hand' = hand, state' = state, live' = live
    PROVE  PlaceInv'
  <1> USE TasksAssumption
  <1>2. SingleOwner'
    BY DEF TypeOK, TaskTypes, BoxTypes, LabelTypes, PlaceInv, SingleOwner, Moved
  <1>3. NoneLost'
    BY DEF TypeOK, TaskTypes, BoxTypes, LabelTypes, PlaceInv, NoneLost, Held, Moved
  <1>4. StateOfPlace'
    BY DEF TypeOK, TaskTypes, BoxTypes, LabelTypes, PlaceInv, StateOfPlace, SameSide,
           HandFull, Moved
  <1>5. HandFull'
    BY DEF TypeOK, TaskTypes, BoxTypes, LabelTypes, PlaceInv, HandFull, SameSide
  <1> QED BY <1>2, <1>3, <1>4, <1>5 DEF PlaceInv

\* No task moves; at most the one in the hands of a worker gets a new state.
LEMMA StayKeeps ==
    ASSUME TypeOK, PlaceInv, UNCHANGED <<queue, tasks, hand, live>>,
           \/ SameSide /\ state' = state
           \/ \E w \in Workers, label \in HandLabels :
                 /\ hand[w] # NoTask
                 /\ \A u \in Workers \ {w} :
                       pc'[u] = pc[u] \/ (pc[u] \notin HandLabels /\ pc'[u] \notin HandLabels)
                 /\ pc'[w] = label
                 /\ state' = [state EXCEPT ![hand[w]] = StageInHand(label)]
    PROVE  PlaceInv'
  <1> USE TasksAssumption
  <1>1. SingleOwner'
    BY DEF PlaceInv, SingleOwner
  <1>2. NoneLost'
    BY DEF PlaceInv, NoneLost, Held
  <1>3. StateOfPlace' /\ HandFull'
    <2>1. CASE SameSide /\ state' = state
      BY <2>1 DEF TypeOK, TaskTypes, BoxTypes, LabelTypes, PlaceInv, StateOfPlace, SameSide, HandFull
    <2>2. ASSUME NEW w \in Workers, NEW label \in HandLabels, hand[w] # NoTask,
                 \A u \in Workers \ {w} :
                    pc'[u] = pc[u] \/ (pc[u] \notin HandLabels /\ pc'[u] \notin HandLabels),
                 pc'[w] = label,
                 state' = [state EXCEPT ![hand[w]] = StageInHand(label)]
          PROVE  StateOfPlace' /\ HandFull'
      <3>1. hand[w] \in Tasks
        BY <2>2 DEF TypeOK, TaskTypes, BoxTypes
      <3>2. HandFull'
        BY <2>2 DEF TypeOK, TaskTypes, BoxTypes, LabelTypes, PlaceInv, HandFull
      <3>3. StateOfPlace'
        BY <2>2, <3>1 DEF TypeOK, TaskTypes, BoxTypes, LabelTypes, PlaceInv, SingleOwner, NoneLost, Held, StateOfPlace, HandFull
      <3> QED BY <3>2, <3>3
    <2> QED BY <2>1, <2>2
  <1> QED BY <1>1, <1>2, <1>3 DEF PlaceInv

\* The accept thread builds a task and has it in hand.
LEMMA BornKeeps ==
    ASSUME TypeOK, PlaceInv, NEW t \in Tasks \ live,
           pc[Accepter] = "accept", Goto(Accepter, "add"),
           live' = live \cup {t}, hand' = [hand EXCEPT ![Accepter] = t],
           state' = [state EXCEPT ![t] = "verify"],
           queue' = queue, tasks' = tasks
    PROVE  PlaceInv'
  <1> USE TasksAssumption, WorkerFacts
  <1>1. hand[Accepter] = NoTask /\ ~Held(t)
    BY DEF PlaceInv, HandFull, HandLabels, NoneLost
  <1>2. SingleOwner'
    BY <1>1 DEF TypeOK, TaskTypes, BoxTypes, PlaceInv, SingleOwner, Held
  <1>3. NoneLost'
    BY <1>1 DEF TypeOK, TaskTypes, BoxTypes, PlaceInv, NoneLost, Held
  <1>4. StateOfPlace'
    <2>1. \A w \in Workers : pc'[w] = IF w = Accepter THEN "add" ELSE pc[w]
      BY DEF TypeOK, LabelTypes, Goto
    <2>2. StageInHand("add") = "verify"
      BY DEF StageInHand
    <2>3. \A w \in Workers : hand'[w] = IF w = Accepter THEN t ELSE hand[w]
      BY DEF TypeOK, BoxTypes
    <2>4. \A x \in Tasks : state'[x] = IF x = t THEN "verify" ELSE state[x]
      BY DEF TypeOK, TaskTypes
    <2>5. \A th \in Threads : \A x \in queue'[th] \cup tasks'[th] : state'[x] = Stage(th)
      BY <1>1, <2>4 DEF TypeOK, BoxTypes, PlaceInv, StateOfPlace, Held
    <2>6. \A w \in Workers : hand'[w] # NoTask => state'[hand'[w]] = StageInHand(pc'[w])
      BY <1>1, <2>1, <2>2, <2>3, <2>4 DEF TypeOK, BoxTypes, PlaceInv, StateOfPlace, Held
    <2>7. \A x \in Tasks \ live' : state'[x] = "notuse"
      BY <2>4 DEF PlaceInv, StateOfPlace
    <2> QED BY <2>5, <2>6, <2>7 DEF StateOfPlace
  <1>5. HandFull'
    BY <1>1 DEF TypeOK, TaskTypes, BoxTypes, LabelTypes, PlaceInv, HandFull, HandLabels, Goto
  <1> QED BY <1>2, <1>3, <1>4, <1>5 DEF PlaceInv

\* The recycle thread deletes a task of its vector.
Dropped(t) == /\ tasks' = [tasks EXCEPT ![R] = @ \ {t}]
              /\ live' = live \ {t}

LEMMA FreedKeeps ==
    ASSUME TypeOK, PlaceInv, NEW t \in tasks[R],
           Dropped(t), state' = [state EXCEPT ![t] = "notuse"],
           queue' = queue, hand' = hand, pc' = pc
    PROVE  PlaceInv'
  <1> USE ThreadFacts
  <1>1. t \in Tasks /\ t # NoTask
    BY TasksAssumption DEF TypeOK, TaskTypes, BoxTypes
  <1>2. SingleOwner'
    BY <1>1 DEF TypeOK, TaskTypes, BoxTypes, PlaceInv, SingleOwner, Dropped
  <1>3. NoneLost'
    BY <1>1 DEF TypeOK, TaskTypes, BoxTypes, PlaceInv, NoneLost, SingleOwner, Held,
           Dropped
  <1>4. StateOfPlace'
    BY <1>1 DEF TypeOK, TaskTypes, BoxTypes, PlaceInv, StateOfPlace, SingleOwner,
           Dropped
  <1>5. HandFull'
    BY DEF PlaceInv, HandFull
  <1> QED BY <1>2, <1>3, <1>4, <1>5 DEF PlaceInv

\* Only an okay thread is run by two workers.
LEMMA SameObject ==
    \A w, u \in Workers : Object(w) = Object(u) /\ w # u =>
        \E i \in 1..NOkay, r, q \in 1..MaxRuns :
            w = Okayer(i, r) /\ u = Okayer(i, q) /\ r # q
  BY DEF Accepter, Syncer, Recycler, Verifier, Okayer, Verifiers, Okayers,
         Workers, Object

\* A pass that only gets shorter, over vectors that only grow, stays valid.
LEMMA PassShrinks ==
    ASSUME TypeOK, IteratorsValid,
           \A w \in Workers : todo'[w] \subseteq todo[w],
           \A th \in Threads : tasks[th] \subseteq tasks'[th],
           \A w \in Workers \ {Accepter} : hand'[w] \in {hand[w], NoTask}
    PROVE  IteratorsValid'
  <1>1. \A w \in Workers \ {Accepter} : Object(w) \in Threads
    BY DEF Workers, Verifiers, Okayers, Object, Threads, VerifyThreads, OkayThreads,
           Accepter, Syncer, Recycler, Verifier, Okayer, V, O, S, R
  <1>2. \A w \in Workers \ {Accepter}, u \in Workers :
           u # w /\ Object(u) = Object(w) => u # Accepter
    BY SameObject, WorkerFacts
  <1> QED BY <1>1, <1>2 DEF IteratorsValid

\* The worker of a pass takes the task it visits out of its vector.
LEMMA PassTakes ==
    ASSUME TypeOK, IteratorsValid, NEW w \in Workers \ {Accepter}, NEW t \in todo[w],
           Visited(w, t),
           tasks' = [tasks EXCEPT ![Object(w)] = @ \ {t}],
           \A u \in Workers \ {w} : hand'[u] = hand[u]
    PROVE  IteratorsValid'
  <1>1. \A u \in Workers \ {Accepter} : Object(u) \in Threads
    BY DEF Workers, Verifiers, Okayers, Object, Threads, VerifyThreads, OkayThreads,
           Accepter, Syncer, Recycler, Verifier, Okayer, V, O, S, R
  <1>2. \A u \in Workers : u # w /\ Object(u) = Object(w) => todo[u] = {}
    BY DEF IteratorsValid
  <1>3. \A u \in Workers : todo'[u] = IF u = w THEN todo[u] \ {t} ELSE todo[u]
    BY DEF Visited, TypeOK, BoxTypes
  <1>4. \A th \in Threads :
           tasks'[th] = IF th = Object(w) THEN tasks[th] \ {t} ELSE tasks[th]
    BY DEF TypeOK, BoxTypes
  <1>5. ASSUME NEW u \in Workers \ {Accepter} PROVE todo'[u] \subseteq tasks'[Object(u)]
    <2>1. todo[u] \subseteq tasks[Object(u)]
      BY DEF IteratorsValid
    <2>2. CASE u = w
      <3>1. todo'[w] = todo[w] \ {t}
        BY <1>3
      <3>2. tasks'[Object(w)] = tasks[Object(w)] \ {t}
        BY <1>1, <1>4
      <3> QED BY <2>1, <2>2, <3>1, <3>2
    <2>3. CASE u # w /\ Object(u) = Object(w)
      BY <1>2, <1>3, <2>3
    <2>4. CASE Object(u) # Object(w)
      BY <1>1, <1>3, <1>4, <2>1, <2>4
    <2> QED BY <2>2, <2>3, <2>4
  <1>6. ASSUME NEW u \in Workers \ {Accepter}, todo'[u] # {},
               NEW x \in Workers, x # u, Object(x) = Object(u)
        PROVE  todo'[x] = {} /\ hand'[x] = NoTask
    <2>1. todo[u] # {} /\ todo[x] = {} /\ hand[x] = NoTask
      BY <1>3, <1>6 DEF IteratorsValid
    <2>2. x # w
      BY <1>2, <1>6, <2>1
    <2> QED BY <1>3, <2>1, <2>2
  <1> QED BY <1>5, <1>6 DEF IteratorsValid

\* A worker begins a pass over its vector while no other is in one.
LEMMA PassBegins ==
    ASSUME TypeOK, IteratorsValid, NEW w \in Workers \ {Accepter},
           \A u \in Workers : u # w /\ Object(u) = Object(w)
                                 => todo[u] = {} /\ hand[u] = NoTask,
           NEW X, todo' = [todo EXCEPT ![w] = X], X \subseteq tasks'[Object(w)],
           \A th \in Threads : tasks[th] \subseteq tasks'[th],
           hand' = hand, hand[w] = NoTask
    PROVE  IteratorsValid'
  <1>1. \A u \in Workers \ {Accepter} : Object(u) \in Threads
    BY DEF Workers, Verifiers, Okayers, Object, Threads, VerifyThreads, OkayThreads,
           Accepter, Syncer, Recycler, Verifier, Okayer, V, O, S, R
  <1>2. \A u \in Workers : todo'[u] = IF u = w THEN X ELSE todo[u]
    BY DEF TypeOK, BoxTypes
  <1>3. ASSUME NEW u \in Workers \ {Accepter} PROVE todo'[u] \subseteq tasks'[Object(u)]
    BY <1>1, <1>2 DEF IteratorsValid
  <1>4. ASSUME NEW u \in Workers \ {Accepter}, todo'[u] # {},
               NEW x \in Workers, x # u, Object(x) = Object(u)
        PROVE  todo'[x] = {} /\ hand'[x] = NoTask
    <2>1. CASE u = w
      BY <1>2, <1>4, <2>1
    <2>2. CASE u # w
      BY <1>2, <1>4, <2>2 DEF IteratorsValid
    <2> QED BY <2>1, <2>2
  <1> QED BY <1>3, <1>4 DEF IteratorsValid

\* Where a worker goes on with a task in hand, it has one.
HandHas == \A w \in Workers : pc[w] \in HandLabels => hand[w] # NoTask

\* The loop of addOkay changes only its locals and the place of the sync thread.
LEMMA Choosing ==
    ASSUME addOkayScan \/ addOkayCompare
    PROVE  /\ UNCHANGED <<live, state, term, verified, broken, late, watched>>
           /\ UNCHANGED <<container, unique, queue, tasks, hand, todo>>
           /\ UNCHANGED <<count, size, alive, qlock, mlock, accTask, hashCode>>
           /\ UNCHANGED <<stopping, joined, handle, joining, died>>
           /\ \E to \in ChoiceLabels : pc[Syncer] \in ChoiceLabels /\ Goto(Syncer, to)
  BY DEF addOkayScan, addOkayCompare, NextThread, taskVars, outerVars, boxVars, okayVars,
         acceptVars, finalVars

\* The counters of the okay threads stay natural numbers and the lock fields runs.
LEMMA CountTypesStep ==
    ASSUME TypeOK, HandHas, ServeNext \/ UNCHANGED vars
    PROVE  CountTypes'
  <1> USE DEF taskVars, outerVars, boxVars, okayVars, flowVars, callVars, acceptVars, finalVars
  <1>a. CountTypes
    BY DEF TypeOK
  <1>b. target \in 1..NOkay
    BY DEF TypeOK, RestTypes
  <1>c. 0 \in Nat /\ 0 \in 0..MaxRuns /\ \A r \in 1..MaxRuns : r \in 0..MaxRuns
    BY Sizes
  <1>1. ASSUME NEW t \in Tasks, NEW garbage \in BOOLEAN, newTCPTask(t,
       garbage) PROVE CountTypes'
    BY <1>1, <1>a DEF newTCPTask, CountTypes
  <1>2. ASSUME addVerify PROVE CountTypes'
    BY <1>2, <1>a DEF addVerify, CountTypes
  <1>3. ASSUME epollAdd PROVE CountTypes'
    BY <1>3, <1>a DEF epollAdd, CountTypes
  <1>4. ASSUME NEW i \in 1..NVerify, VerifyCheck(i) PROVE CountTypes'
    BY <1>4, <1>a DEF VerifyCheck, CountTypes
  <1>5. ASSUME NEW i \in 1..NVerify, NEW t \in Tasks, VerifyTimeout(i,
       t) PROVE CountTypes'
    BY <1>5, <1>a DEF VerifyTimeout, VerifyFrame, CountTypes
  <1>6. ASSUME NEW i \in 1..NVerify, VerifySecondPass(i) PROVE CountTypes'
    BY <1>6, <1>a DEF VerifySecondPass, CountTypes
  <1>7. ASSUME NEW i \in 1..NVerify, NEW t \in Tasks, VerifyFail(i,
       t) PROVE CountTypes'
    BY <1>7, <1>a DEF VerifyFail, VerifyFrame, CountTypes
  <1>8. ASSUME NEW i \in 1..NVerify, NEW t \in Tasks, VerifyPass(i,
       t) PROVE CountTypes'
    BY <1>8, <1>a DEF VerifyPass, VerifyFrame, CountTypes
  <1>9. ASSUME NEW i \in 1..NVerify, NEW t \in Tasks, VerifyWait(i,
       t) PROVE CountTypes'
    BY <1>9, <1>a DEF VerifyWait, CountTypes
  <1>10. ASSUME NEW i \in 1..NVerify, addSync(i) PROVE CountTypes'
    BY <1>10, <1>a DEF addSync, CountTypes
  <1>11. ASSUME NEW i \in 1..NVerify, addRecycle(Verifier(i), "drop timeouts",
       "timeouts") PROVE CountTypes'
    BY <1>11, <1>a DEF addRecycle, CountTypes
  <1>12. ASSUME NEW i \in 1..NVerify, addRecycle(Verifier(i), "drop receive",
       "receive") PROVE CountTypes'
    BY <1>12, <1>a DEF addRecycle, CountTypes
  <1>13. ASSUME SyncCheck PROVE CountTypes'
    BY <1>13, <1>a DEF SyncCheck, CountTypes
  <1>14. ASSUME NEW t \in Tasks, SyncAgreed(t) PROVE CountTypes'
    BY <1>14, <1>a DEF SyncAgreed, CountTypes
  <1>15. ASSUME NEW t \in Tasks, SyncWait(t) PROVE CountTypes'
    BY <1>15, <1>a DEF SyncWait, CountTypes
  <1>16. ASSUME NEW t \in Tasks, SyncRefused(t) PROVE CountTypes'
    BY <1>16, <1>a DEF SyncRefused, CountTypes
  <1>17. ASSUME addOkayScan \/ addOkayCompare PROVE CountTypes'
    BY <1>17, <1>a, Choosing DEF CountTypes
  <1>18. ASSUME addOkayCount PROVE CountTypes'
    BY <1>18, <1>a DEF addOkayCount, CountTypes
  <1>19. ASSUME addOkaySize PROVE CountTypes'
    BY <1>19, <1>a DEF addOkaySize, CountTypes
  <1>20. ASSUME NEW r \in 1..MaxRuns, addOkayStart(r) PROVE CountTypes'
    BY <1>20, <1>a DEF addOkayStart, CountTypes
  <1>21. ASSUME addOkayFailed PROVE CountTypes'
    BY <1>21, <1>a DEF addOkayFailed, CountTypes
  <1>22. ASSUME addOkayAdd PROVE CountTypes'
    BY <1>22, <1>a, <1>b DEF addOkayAdd, CountTypes
  <1>23. ASSUME addRecycle(Syncer, "drop", "pass") PROVE CountTypes'
    BY <1>23, <1>a DEF addRecycle, CountTypes
  <1>24. ASSUME NEW i \in 1..NOkay, NEW r \in 1..MaxRuns, OkayBoot(i,
       r) PROVE CountTypes'
    BY <1>24, <1>a DEF OkayBoot, CountTypes
  <1>25. ASSUME NEW i \in 1..NOkay, NEW r \in 1..MaxRuns, OkayCheck(i,
       r) PROVE CountTypes'
    BY <1>25, <1>a, <1>c DEF OkayCheck, CountTypes
  <1>26. ASSUME NEW i \in 1..NOkay, NEW r \in 1..MaxRuns, NEW t \in Tasks,
       OkayAdd(i, r, t) PROVE CountTypes'
    <2>1. tasks[O(i)] \cup {t} \in SUBSET Tasks
      BY ThreadFacts DEF BoxTypes, TypeOK
    <2>2. Cardinality(tasks[O(i)] \cup {t}) \in Nat
      BY <2>1, TaskCounts
    <2> QED BY <1>26, <1>a, <2>2 DEF OkayAdd, CountTypes
  <1>27. ASSUME NEW i \in 1..NOkay, NEW r \in 1..MaxRuns, OkayClear(i,
       r) PROVE CountTypes'
    BY <1>27, <1>a, <1>c DEF OkayClear, CountTypes
  <1>28. ASSUME NEW i \in 1..NOkay, NEW r \in 1..MaxRuns, OkayLock(i,
       r) PROVE CountTypes'
    BY <1>28, <1>a, <1>c DEF OkayLock, CountTypes
  <1>29. ASSUME NEW i \in 1..NOkay, NEW r \in 1..MaxRuns, NEW t \in Tasks,
       OkayEnd(i, r, t) PROVE CountTypes'
    <2>1. tasks[O(i)] \ {t} \in SUBSET Tasks
      BY ThreadFacts DEF BoxTypes, TypeOK
    <2>2. Cardinality(tasks[O(i)] \ {t}) \in Nat
      BY <2>1, TaskCounts
    <2> QED BY <1>29, <1>a, <2>2 DEF OkayEnd, CountTypes
  <1>30. ASSUME NEW i \in 1..NOkay, NEW r \in 1..MaxRuns, NEW t \in Tasks,
       OkayKeep(i, r, t) PROVE CountTypes'
    BY <1>30, <1>a DEF OkayKeep, CountTypes
  <1>31. ASSUME NEW i \in 1..NOkay, NEW r \in 1..MaxRuns, OkayUnlock(i,
       r) PROVE CountTypes'
    BY <1>31, <1>a, <1>c DEF OkayUnlock, CountTypes
  <1>32. ASSUME NEW i \in 1..NOkay, NEW r \in 1..MaxRuns, OkayPoll(i,
       r) PROVE CountTypes'
    BY <1>32, <1>a DEF OkayPoll, CountTypes
  <1>33. ASSUME NEW i \in 1..NOkay, NEW r \in 1..MaxRuns, addRecycle(Okayer(i,
       r), "drop", "pass") PROVE CountTypes'
    BY <1>33, <1>a DEF addRecycle, CountTypes
  <1>34. ASSUME RecycleCheck PROVE CountTypes'
    BY <1>34, <1>a DEF RecycleCheck, CountTypes
  <1>35. ASSUME NEW t \in Tasks, RecycleDelete(t) PROVE CountTypes'
    BY <1>35, <1>a DEF RecycleDelete, Destroy, CountTypes
  <1>36. ASSUME NEW t \in Tasks, RecycleWait(t) PROVE CountTypes'
    BY <1>36, <1>a DEF RecycleWait, CountTypes
  <1>37. ASSUME NEW t \in Tasks, Disconnect(t) PROVE CountTypes'
    BY <1>37, <1>a DEF Disconnect, CountTypes
  <1>38. ASSUME NEW t \in Tasks, Deadline(t) PROVE CountTypes'
    BY <1>38, <1>a DEF Deadline, CountTypes
  <1>39. ASSUME NEW t \in Tasks, Terminate(t) PROVE CountTypes'
    BY <1>39, <1>a DEF Terminate, CountTypes
  <1>40. ASSUME UNCHANGED vars PROVE CountTypes'
    BY <1>40, <1>a DEF vars, CountTypes
  <1> QED
    BY <1>1, <1>2, <1>3, <1>4, <1>5, <1>6, <1>7, <1>8, <1>9, <1>10, <1>11,
       <1>12, <1>13, <1>14, <1>15, <1>16, <1>17, <1>18, <1>19, <1>20, <1>21,
       <1>22, <1>23, <1>24, <1>25, <1>26, <1>27, <1>28, <1>29, <1>30, <1>31,
       <1>32, <1>33, <1>34, <1>35, <1>36, <1>37, <1>38, <1>39,
       <1>40 DEF ServeNext, AcceptStep, VerifyStep, SyncStep, addOkayLoop, OkayStep,
       RecycleStep, Around


\* The locals of addOkay, the accept thread's and final()'s counters keep their range.
LEMMA RestTypesStep ==
    ASSUME TypeOK, HandHas, ServeNext \/ UNCHANGED vars
    PROVE  RestTypes'
  <1> USE DEF taskVars, outerVars, boxVars, okayVars, flowVars, callVars, acceptVars, finalVars
  <1>a. RestTypes /\ CountTypes
    BY DEF TypeOK
  <1>b. 1 \in 1..NOkay /\ 0 \in 0..NOkay /\ 0 \in Nat /\ \A i \in 1..NOkay : i \in 0..NOkay
    BY Sizes
  <1>c. \A h \in 0..(NVerify - 1) : (h + 1) % NVerify \in 0..(NVerify - 1)
    BY Sizes
  <1>1. ASSUME NEW t \in Tasks, NEW garbage \in BOOLEAN, newTCPTask(t,
       garbage) PROVE RestTypes'
    BY <1>1, <1>a DEF newTCPTask, Goto, RestTypes
  <1>2. ASSUME addVerify PROVE RestTypes'
    BY <1>2, <1>a, <1>c DEF addVerify, RestTypes
  <1>3. ASSUME epollAdd PROVE RestTypes'
    BY <1>3, <1>a DEF epollAdd, RestTypes
  <1>4. ASSUME NEW i \in 1..NVerify, VerifyCheck(i) PROVE RestTypes'
    BY <1>4, <1>a DEF VerifyCheck, RestTypes
  <1>5. ASSUME NEW i \in 1..NVerify, NEW t \in Tasks, VerifyTimeout(i,
       t) PROVE RestTypes'
    BY <1>5, <1>a DEF VerifyTimeout, VerifyFrame, RestTypes
  <1>6. ASSUME NEW i \in 1..NVerify, VerifySecondPass(i) PROVE RestTypes'
    BY <1>6, <1>a DEF VerifySecondPass, RestTypes
  <1>7. ASSUME NEW i \in 1..NVerify, NEW t \in Tasks, VerifyFail(i,
       t) PROVE RestTypes'
    BY <1>7, <1>a DEF VerifyFail, VerifyFrame, RestTypes
  <1>8. ASSUME NEW i \in 1..NVerify, NEW t \in Tasks, VerifyPass(i,
       t) PROVE RestTypes'
    BY <1>8, <1>a DEF VerifyPass, VerifyFrame, RestTypes
  <1>9. ASSUME NEW i \in 1..NVerify, NEW t \in Tasks, VerifyWait(i,
       t) PROVE RestTypes'
    BY <1>9, <1>a DEF VerifyWait, RestTypes
  <1>10. ASSUME NEW i \in 1..NVerify, addSync(i) PROVE RestTypes'
    BY <1>10, <1>a DEF addSync, RestTypes
  <1>11. ASSUME NEW i \in 1..NVerify, addRecycle(Verifier(i), "drop timeouts",
       "timeouts") PROVE RestTypes'
    BY <1>11, <1>a DEF addRecycle, RestTypes
  <1>12. ASSUME NEW i \in 1..NVerify, addRecycle(Verifier(i), "drop receive",
       "receive") PROVE RestTypes'
    BY <1>12, <1>a DEF addRecycle, RestTypes
  <1>13. ASSUME SyncCheck PROVE RestTypes'
    BY <1>13, <1>a DEF SyncCheck, RestTypes
  <1>14. ASSUME NEW t \in Tasks, SyncAgreed(t) PROVE RestTypes'
    BY <1>14, <1>a DEF SyncAgreed, RestTypes
  <1>15. ASSUME NEW t \in Tasks, SyncWait(t) PROVE RestTypes'
    BY <1>15, <1>a DEF SyncWait, RestTypes
  <1>16. ASSUME NEW t \in Tasks, SyncRefused(t) PROVE RestTypes'
    BY <1>16, <1>a DEF SyncRefused, RestTypes
  <1>17. ASSUME addOkayScan \/ addOkayCompare PROVE RestTypes'
    <2>1. /\ UNCHANGED <<acceptVars, finalVars>>
          /\ scanned \in 1..NOkay /\ (scanned < NOkay => scanned + 1 \in 1..NOkay)
          /\ count[target] \in Nat /\ size[target] \in Nat
          /\ count[scanned] \in Nat /\ size[scanned] \in Nat
      <3>1. UNCHANGED <<acceptVars, finalVars>>
        BY <1>17, Choosing
      <3>2. scanned \in 1..NOkay /\ (scanned < NOkay => scanned + 1 \in 1..NOkay)
        BY <1>a, Sizes DEF RestTypes
      <3>3. /\ count[target] \in Nat /\ size[target] \in Nat
            /\ count[scanned] \in Nat /\ size[scanned] \in Nat
        BY <1>a DEF RestTypes, CountTypes
      <3> QED BY <3>1, <3>2, <3>3
    <2>2. \A m, n \in Nat : m + n \in Nat
      OBVIOUS
    <2>3. CASE addOkayScan
      BY <1>a, <1>b, <2>1, <2>3 DEF addOkayScan, NextThread, RestTypes
    <2>4. CASE addOkayCompare
      BY <1>a, <1>b, <2>1, <2>2, <2>4 DEF addOkayCompare, NextThread, RestTypes
    <2> QED BY <1>17, <2>3, <2>4
  <1>18. ASSUME addOkayCount PROVE RestTypes'
    BY <1>18, <1>a DEF addOkayCount, CountTypes, RestTypes
  <1>19. ASSUME addOkaySize PROVE RestTypes'
    BY <1>19, <1>a DEF addOkaySize, RestTypes
  <1>20. ASSUME NEW r \in 1..MaxRuns, addOkayStart(r) PROVE RestTypes'
    <2>1. nostart # 0 /\ nostart \in 0..NOkay => nostart \in 1..NOkay
      BY Sizes
    <2> QED BY <1>20, <1>a, <2>1 DEF addOkayStart, RestTypes
  <1>21. ASSUME addOkayFailed PROVE RestTypes'
    <2>1. handle' \in [Threads -> 0..MaxRuns]
      BY <1>21, <1>a, Sizes DEF addOkayFailed, RestTypes
    <2>2. target' = 1 /\ nostart' = 0 /\ scanned' = 1 /\ least' = 0 /\ loaded' = 0
      BY <1>21 DEF addOkayFailed, Return
    <2>3. UNCHANGED <<accTask, hashCode, stopping, joined, joining, died>>
      BY <1>21 DEF addOkayFailed
    <2> QED BY <1>a, <1>b, <2>1, <2>2, <2>3 DEF RestTypes
  <1>22. ASSUME addOkayAdd PROVE RestTypes'
    BY <1>22, <1>a, <1>b DEF addOkayAdd, Return, RestTypes
  <1>23. ASSUME addRecycle(Syncer, "drop", "pass") PROVE RestTypes'
    BY <1>23, <1>a DEF addRecycle, RestTypes
  <1>24. ASSUME NEW i \in 1..NOkay, NEW r \in 1..MaxRuns, OkayBoot(i,
       r) PROVE RestTypes'
    BY <1>24, <1>a DEF OkayBoot, RestTypes
  <1>25. ASSUME NEW i \in 1..NOkay, NEW r \in 1..MaxRuns, OkayCheck(i,
       r) PROVE RestTypes'
    BY <1>25, <1>a DEF OkayCheck, RestTypes
  <1>26. ASSUME NEW i \in 1..NOkay, NEW r \in 1..MaxRuns, NEW t \in Tasks,
       OkayAdd(i, r, t) PROVE RestTypes'
    BY <1>26, <1>a DEF OkayAdd, RestTypes
  <1>27. ASSUME NEW i \in 1..NOkay, NEW r \in 1..MaxRuns, OkayClear(i,
       r) PROVE RestTypes'
    BY <1>27, <1>a DEF OkayClear, RestTypes
  <1>28. ASSUME NEW i \in 1..NOkay, NEW r \in 1..MaxRuns, OkayLock(i,
       r) PROVE RestTypes'
    BY <1>28, <1>a DEF OkayLock, RestTypes
  <1>29. ASSUME NEW i \in 1..NOkay, NEW r \in 1..MaxRuns, NEW t \in Tasks,
       OkayEnd(i, r, t) PROVE RestTypes'
    BY <1>29, <1>a DEF OkayEnd, RestTypes
  <1>30. ASSUME NEW i \in 1..NOkay, NEW r \in 1..MaxRuns, NEW t \in Tasks,
       OkayKeep(i, r, t) PROVE RestTypes'
    BY <1>30, <1>a DEF OkayKeep, RestTypes
  <1>31. ASSUME NEW i \in 1..NOkay, NEW r \in 1..MaxRuns, OkayUnlock(i,
       r) PROVE RestTypes'
    BY <1>31, <1>a DEF OkayUnlock, RestTypes
  <1>32. ASSUME NEW i \in 1..NOkay, NEW r \in 1..MaxRuns, OkayPoll(i,
       r) PROVE RestTypes'
    BY <1>32, <1>a DEF OkayPoll, RestTypes
  <1>33. ASSUME NEW i \in 1..NOkay, NEW r \in 1..MaxRuns, addRecycle(Okayer(i,
       r), "drop", "pass") PROVE RestTypes'
    BY <1>33, <1>a DEF addRecycle, RestTypes
  <1>34. ASSUME RecycleCheck PROVE RestTypes'
    BY <1>34, <1>a DEF RecycleCheck, RestTypes
  <1>35. ASSUME NEW t \in Tasks, RecycleDelete(t) PROVE RestTypes'
    BY <1>35, <1>a DEF RecycleDelete, Destroy, RestTypes
  <1>36. ASSUME NEW t \in Tasks, RecycleWait(t) PROVE RestTypes'
    BY <1>36, <1>a DEF RecycleWait, RestTypes
  <1>37. ASSUME NEW t \in Tasks, Disconnect(t) PROVE RestTypes'
    BY <1>37, <1>a DEF Disconnect, RestTypes
  <1>38. ASSUME NEW t \in Tasks, Deadline(t) PROVE RestTypes'
    BY <1>38, <1>a DEF Deadline, RestTypes
  <1>39. ASSUME NEW t \in Tasks, Terminate(t) PROVE RestTypes'
    BY <1>39, <1>a DEF Terminate, RestTypes
  <1>40. ASSUME UNCHANGED vars PROVE RestTypes'
    BY <1>40, <1>a DEF vars, RestTypes
  <1> QED
    BY <1>1, <1>2, <1>3, <1>4, <1>5, <1>6, <1>7, <1>8, <1>9, <1>10, <1>11,
       <1>12, <1>13, <1>14, <1>15, <1>16, <1>17, <1>18, <1>19, <1>20, <1>21,
       <1>22, <1>23, <1>24, <1>25, <1>26, <1>27, <1>28, <1>29, <1>30, <1>31,
       <1>32, <1>33, <1>34, <1>35, <1>36, <1>37, <1>38, <1>39,
       <1>40 DEF ServeNext, AcceptStep, VerifyStep, SyncStep, addOkayLoop, OkayStep,
       RecycleStep, Around


\* Every worker is at one of the labels.
LEMMA LabelTypesStep ==
    ASSUME TypeOK, HandHas, ServeNext \/ UNCHANGED vars
    PROVE  LabelTypes'
  <1> USE DEF taskVars, outerVars, boxVars, okayVars, flowVars, callVars, acceptVars, finalVars
  <1>a. LabelTypes
    BY DEF TypeOK
  <1>1. ASSUME NEW t \in Tasks, NEW garbage \in BOOLEAN, newTCPTask(t,
       garbage) PROVE LabelTypes'
    BY <1>1, <1>a DEF newTCPTask, Goto, LabelTypes, Labels
  <1>2. ASSUME addVerify PROVE LabelTypes'
    BY <1>2, <1>a DEF addVerify, Goto, LabelTypes, Labels
  <1>3. ASSUME epollAdd PROVE LabelTypes'
    BY <1>3, <1>a DEF epollAdd, Goto, LabelTypes, Labels
  <1>4. ASSUME NEW i \in 1..NVerify, VerifyCheck(i) PROVE LabelTypes'
    BY <1>4, <1>a DEF VerifyCheck, Goto, LabelTypes, Labels
  <1>5. ASSUME NEW i \in 1..NVerify, NEW t \in Tasks, VerifyTimeout(i,
       t) PROVE LabelTypes'
    BY <1>5, <1>a DEF VerifyTimeout, Goto, VerifyFrame, LabelTypes, Labels
  <1>6. ASSUME NEW i \in 1..NVerify, VerifySecondPass(i) PROVE LabelTypes'
    BY <1>6, <1>a DEF VerifySecondPass, Goto, LabelTypes, Labels
  <1>7. ASSUME NEW i \in 1..NVerify, NEW t \in Tasks, VerifyFail(i,
       t) PROVE LabelTypes'
    BY <1>7, <1>a DEF VerifyFail, Goto, VerifyFrame, LabelTypes, Labels
  <1>8. ASSUME NEW i \in 1..NVerify, NEW t \in Tasks, VerifyPass(i,
       t) PROVE LabelTypes'
    BY <1>8, <1>a DEF VerifyPass, Goto, VerifyFrame, LabelTypes, Labels
  <1>9. ASSUME NEW i \in 1..NVerify, NEW t \in Tasks, VerifyWait(i,
       t) PROVE LabelTypes'
    BY <1>9, <1>a DEF VerifyWait, LabelTypes, Labels
  <1>10. ASSUME NEW i \in 1..NVerify, addSync(i) PROVE LabelTypes'
    BY <1>10, <1>a DEF addSync, Goto, LabelTypes, Labels
  <1>11. ASSUME NEW i \in 1..NVerify, addRecycle(Verifier(i), "drop timeouts",
       "timeouts") PROVE LabelTypes'
    BY <1>11, <1>a DEF addRecycle, Goto, LabelTypes, Labels
  <1>12. ASSUME NEW i \in 1..NVerify, addRecycle(Verifier(i), "drop receive",
       "receive") PROVE LabelTypes'
    BY <1>12, <1>a DEF addRecycle, Goto, LabelTypes, Labels
  <1>13. ASSUME SyncCheck PROVE LabelTypes'
    BY <1>13, <1>a DEF SyncCheck, LabelTypes, Labels
  <1>14. ASSUME NEW t \in Tasks, SyncAgreed(t) PROVE LabelTypes'
    BY <1>14, <1>a DEF SyncAgreed, Goto, LabelTypes, Labels
  <1>15. ASSUME NEW t \in Tasks, SyncWait(t) PROVE LabelTypes'
    BY <1>15, <1>a DEF SyncWait, LabelTypes, Labels
  <1>16. ASSUME NEW t \in Tasks, SyncRefused(t) PROVE LabelTypes'
    BY <1>16, <1>a DEF SyncRefused, Goto, LabelTypes, Labels
  <1>17. ASSUME addOkayScan \/ addOkayCompare PROVE LabelTypes'
    BY <1>17, <1>a, Choosing DEF Goto, LabelTypes, Labels
  <1>18. ASSUME addOkayCount PROVE LabelTypes'
    BY <1>18, <1>a DEF addOkayCount, Goto, LabelTypes, Labels
  <1>19. ASSUME addOkaySize PROVE LabelTypes'
    BY <1>19, <1>a DEF addOkaySize, Goto, LabelTypes, Labels
  <1>20. ASSUME NEW r \in 1..MaxRuns, addOkayStart(r) PROVE LabelTypes'
    BY <1>20, <1>a DEF addOkayStart, LabelTypes, Labels
  <1>21. ASSUME addOkayFailed PROVE LabelTypes'
    BY <1>21, <1>a DEF addOkayFailed, Goto, LabelTypes, Labels
  <1>22. ASSUME addOkayAdd PROVE LabelTypes'
    BY <1>22, <1>a DEF addOkayAdd, Goto, LabelTypes, Labels
  <1>23. ASSUME addRecycle(Syncer, "drop", "pass") PROVE LabelTypes'
    BY <1>23, <1>a DEF addRecycle, Goto, LabelTypes, Labels
  <1>24. ASSUME NEW i \in 1..NOkay, NEW r \in 1..MaxRuns, OkayBoot(i,
       r) PROVE LabelTypes'
    BY <1>24, <1>a DEF OkayBoot, Goto, LabelTypes, Labels
  <1>25. ASSUME NEW i \in 1..NOkay, NEW r \in 1..MaxRuns, OkayCheck(i,
       r) PROVE LabelTypes'
    BY <1>25, <1>a DEF OkayCheck, Goto, LabelTypes, Labels
  <1>26. ASSUME NEW i \in 1..NOkay, NEW r \in 1..MaxRuns, NEW t \in Tasks,
       OkayAdd(i, r, t) PROVE LabelTypes'
    BY <1>26, <1>a DEF OkayAdd, LabelTypes
  <1>27. ASSUME NEW i \in 1..NOkay, NEW r \in 1..MaxRuns, OkayClear(i,
       r) PROVE LabelTypes'
    BY <1>27, <1>a DEF OkayClear, Goto, LabelTypes, Labels
  <1>28. ASSUME NEW i \in 1..NOkay, NEW r \in 1..MaxRuns, OkayLock(i,
       r) PROVE LabelTypes'
    BY <1>28, <1>a DEF OkayLock, Goto, LabelTypes, Labels
  <1>29. ASSUME NEW i \in 1..NOkay, NEW r \in 1..MaxRuns, NEW t \in Tasks,
       OkayEnd(i, r, t) PROVE LabelTypes'
    BY <1>29, <1>a DEF OkayEnd, Goto, LabelTypes, Labels
  <1>30. ASSUME NEW i \in 1..NOkay, NEW r \in 1..MaxRuns, NEW t \in Tasks,
       OkayKeep(i, r, t) PROVE LabelTypes'
    BY <1>30, <1>a DEF OkayKeep, LabelTypes, Labels
  <1>31. ASSUME NEW i \in 1..NOkay, NEW r \in 1..MaxRuns, OkayUnlock(i,
       r) PROVE LabelTypes'
    BY <1>31, <1>a DEF OkayUnlock, Goto, LabelTypes, Labels
  <1>32. ASSUME NEW i \in 1..NOkay, NEW r \in 1..MaxRuns, OkayPoll(i,
       r) PROVE LabelTypes'
    BY <1>32, <1>a DEF OkayPoll, Goto, LabelTypes, Labels
  <1>33. ASSUME NEW i \in 1..NOkay, NEW r \in 1..MaxRuns, addRecycle(Okayer(i,
       r), "drop", "pass") PROVE LabelTypes'
    BY <1>33, <1>a DEF addRecycle, Goto, LabelTypes, Labels
  <1>34. ASSUME RecycleCheck PROVE LabelTypes'
    BY <1>34, <1>a DEF RecycleCheck, LabelTypes, Labels
  <1>35. ASSUME NEW t \in Tasks, RecycleDelete(t) PROVE LabelTypes'
    BY <1>35, <1>a DEF RecycleDelete, Destroy, LabelTypes, Labels
  <1>36. ASSUME NEW t \in Tasks, RecycleWait(t) PROVE LabelTypes'
    BY <1>36, <1>a DEF RecycleWait, LabelTypes, Labels
  <1>37. ASSUME NEW t \in Tasks, Disconnect(t) PROVE LabelTypes'
    BY <1>37, <1>a DEF Disconnect, LabelTypes, Labels
  <1>38. ASSUME NEW t \in Tasks, Deadline(t) PROVE LabelTypes'
    BY <1>38, <1>a DEF Deadline, LabelTypes, Labels
  <1>39. ASSUME NEW t \in Tasks, Terminate(t) PROVE LabelTypes'
    BY <1>39, <1>a DEF Terminate, LabelTypes, Labels
  <1>40. ASSUME UNCHANGED vars PROVE LabelTypes'
    BY <1>40, <1>a DEF vars, LabelTypes, Labels
  <1> QED
    BY <1>1, <1>2, <1>3, <1>4, <1>5, <1>6, <1>7, <1>8, <1>9, <1>10, <1>11,
       <1>12, <1>13, <1>14, <1>15, <1>16, <1>17, <1>18, <1>19, <1>20, <1>21,
       <1>22, <1>23, <1>24, <1>25, <1>26, <1>27, <1>28, <1>29, <1>30, <1>31,
       <1>32, <1>33, <1>34, <1>35, <1>36, <1>37, <1>38, <1>39,
       <1>40 DEF ServeNext, AcceptStep, VerifyStep, SyncStep, addOkayLoop, OkayStep,
       RecycleStep, Around


\* Queues, vectors, hands and passes hold tasks.
LEMMA BoxTypesStep ==
    ASSUME TypeOK, HandHas, ServeNext \/ UNCHANGED vars
    PROVE  BoxTypes'
  <1> USE DEF taskVars, outerVars, boxVars, okayVars, flowVars, callVars, acceptVars, finalVars
  <1>a. BoxTypes
    BY DEF TypeOK
  <1>b. \A w \in Workers : pc[w] \in HandLabels => hand[w] \in Tasks
    BY DEF TypeOK, BoxTypes, HandHas
  <1>c. \A w \in Workers, th \in Threads : hand[w] \in Tasks /\ Add(w, th) =>
           queue' \in [Threads -> SUBSET Tasks] /\ hand' \in [Workers -> Tasks \cup {NoTask}]
    BY <1>a DEF BoxTypes, Add
  <1>d. \A w \in Workers, th \in Threads : check_queue(w, th) =>
           /\ queue' \in [Threads -> SUBSET Tasks]
           /\ tasks' \in [Threads -> SUBSET Tasks]
           /\ todo' \in [Workers -> SUBSET Tasks]
    BY <1>a DEF BoxTypes, check_queue
  <1>1. ASSUME NEW t \in Tasks, NEW garbage \in BOOLEAN, newTCPTask(t,
       garbage) PROVE BoxTypes'
    BY <1>1, <1>a DEF newTCPTask, BoxTypes
  <1>2. ASSUME addVerify PROVE BoxTypes'
    <2>1. Accepter \in Workers /\ V(hashCode + 1) \in Threads
      BY WorkerFacts, ThreadFacts, Sizes DEF TypeOK, RestTypes
    <2>2. hand[Accepter] \in Tasks
      BY <1>2, <1>b, <2>1 DEF addVerify, HandLabels
    <2>3. Add(Accepter, V(hashCode + 1))
      BY <1>2 DEF addVerify
    <2> QED BY <1>2, <1>a, <1>c, <2>1, <2>2, <2>3 DEF addVerify, BoxTypes
  <1>3. ASSUME epollAdd PROVE BoxTypes'
    BY <1>3, <1>a DEF epollAdd, BoxTypes
  <1>4. ASSUME NEW i \in 1..NVerify, VerifyCheck(i) PROVE BoxTypes'
    <2>1. Verifier(i) \in Workers /\ V(i) \in Threads
      BY WorkerFacts, ThreadFacts
    <2> QED BY <1>4, <1>a, <1>d, <2>1 DEF VerifyCheck, BoxTypes
  <1>5. ASSUME NEW i \in 1..NVerify, NEW t \in Tasks, VerifyTimeout(i,
       t) PROVE BoxTypes'
    <2>1. /\ queue' = queue
          /\ todo' \in [Workers -> SUBSET Tasks]
      BY <1>5, <1>a DEF VerifyTimeout, Visited, VerifyFrame, BoxTypes
    <2>2. CASE late[t]
      <3>1. Take(Verifier(i), V(i), t)
        BY <1>5, <2>2 DEF VerifyTimeout
      <3> QED BY <1>a, <2>1, <3>1 DEF Take, BoxTypes
    <2>3. CASE ~late[t]
      BY <1>5, <1>a, <2>1, <2>3 DEF VerifyTimeout, BoxTypes
    <2> QED BY <2>2, <2>3
  <1>6. ASSUME NEW i \in 1..NVerify, VerifySecondPass(i) PROVE BoxTypes'
    <2>1. V(i) \in Threads
      BY ThreadFacts
    <2> QED BY <1>6, <1>a, <2>1 DEF VerifySecondPass, BoxTypes
  <1>7. ASSUME NEW i \in 1..NVerify, NEW t \in Tasks, VerifyFail(i,
       t) PROVE BoxTypes'
    BY <1>7, <1>a DEF VerifyFail, Visited, Take, VerifyFrame, BoxTypes
  <1>8. ASSUME NEW i \in 1..NVerify, NEW t \in Tasks, VerifyPass(i,
       t) PROVE BoxTypes'
    BY <1>8, <1>a DEF VerifyPass, Visited, Take, VerifyFrame, BoxTypes
  <1>9. ASSUME NEW i \in 1..NVerify, NEW t \in Tasks, VerifyWait(i,
       t) PROVE BoxTypes'
    BY <1>9, <1>a DEF VerifyWait, Visited, BoxTypes
  <1>10. ASSUME NEW i \in 1..NVerify, addSync(i) PROVE BoxTypes'
    <2>1. Verifier(i) \in Workers /\ S \in Threads
      BY WorkerFacts, ThreadFacts
    <2>2. hand[Verifier(i)] \in Tasks
      BY <1>10, <1>b, <2>1 DEF addSync, HandLabels
    <2>3. Add(Verifier(i), S)
      BY <1>10 DEF addSync
    <2> QED BY <1>10, <1>a, <1>c, <2>1, <2>2, <2>3 DEF addSync, BoxTypes
  <1>11. ASSUME NEW i \in 1..NVerify, addRecycle(Verifier(i), "drop timeouts",
       "timeouts") PROVE BoxTypes'
    <2>1. Verifier(i) \in Workers /\ R \in Threads
      BY WorkerFacts, ThreadFacts
    <2>2. hand[Verifier(i)] \in Tasks
      BY <1>11, <1>b, <2>1 DEF addRecycle, HandLabels
    <2>3. Add(Verifier(i), R)
      BY <1>11 DEF addRecycle
    <2> QED BY <1>11, <1>a, <1>c, <2>1, <2>2, <2>3 DEF addRecycle, BoxTypes
  <1>12. ASSUME NEW i \in 1..NVerify, addRecycle(Verifier(i), "drop receive",
       "receive") PROVE BoxTypes'
    <2>1. Verifier(i) \in Workers /\ R \in Threads
      BY WorkerFacts, ThreadFacts
    <2>2. hand[Verifier(i)] \in Tasks
      BY <1>12, <1>b, <2>1 DEF addRecycle, HandLabels
    <2>3. Add(Verifier(i), R)
      BY <1>12 DEF addRecycle
    <2> QED BY <1>12, <1>a, <1>c, <2>1, <2>2, <2>3 DEF addRecycle, BoxTypes
  <1>13. ASSUME SyncCheck PROVE BoxTypes'
    <2>1. Syncer \in Workers /\ S \in Threads
      BY WorkerFacts, ThreadFacts
    <2> QED BY <1>13, <1>a, <1>d, <2>1 DEF SyncCheck, BoxTypes
  <1>14. ASSUME NEW t \in Tasks, SyncAgreed(t) PROVE BoxTypes'
    BY <1>14, <1>a DEF SyncAgreed, Visited, Take, BoxTypes
  <1>15. ASSUME NEW t \in Tasks, SyncWait(t) PROVE BoxTypes'
    BY <1>15, <1>a DEF SyncWait, Visited, BoxTypes
  <1>16. ASSUME NEW t \in Tasks, SyncRefused(t) PROVE BoxTypes'
    BY <1>16, <1>a DEF SyncRefused, Visited, Take, BoxTypes
  <1>17. ASSUME addOkayScan \/ addOkayCompare PROVE BoxTypes'
    BY <1>17, <1>a, Choosing DEF BoxTypes
  <1>18. ASSUME addOkayCount PROVE BoxTypes'
    BY <1>18, <1>a DEF addOkayCount, BoxTypes
  <1>19. ASSUME addOkaySize PROVE BoxTypes'
    BY <1>19, <1>a DEF addOkaySize, BoxTypes
  <1>20. ASSUME NEW r \in 1..MaxRuns, addOkayStart(r) PROVE BoxTypes'
    BY <1>20, <1>a DEF addOkayStart, BoxTypes
  <1>21. ASSUME addOkayFailed PROVE BoxTypes'
    BY <1>21, <1>a DEF addOkayFailed, BoxTypes
  <1>22. ASSUME addOkayAdd PROVE BoxTypes'
    <2>1. Syncer \in Workers /\ O(target) \in Threads
      BY WorkerFacts, ThreadFacts DEF TypeOK, RestTypes
    <2>2. hand[Syncer] \in Tasks
      BY <1>22, <1>b, <2>1 DEF addOkayAdd, HandLabels
    <2>3. Add(Syncer, O(target))
      BY <1>22 DEF addOkayAdd
    <2> QED BY <1>22, <1>a, <1>c, <2>1, <2>2, <2>3 DEF addOkayAdd, BoxTypes
  <1>23. ASSUME addRecycle(Syncer, "drop", "pass") PROVE BoxTypes'
    <2>1. Syncer \in Workers /\ R \in Threads
      BY WorkerFacts, ThreadFacts
    <2>2. hand[Syncer] \in Tasks
      BY <1>23, <1>b, <2>1 DEF addRecycle, HandLabels
    <2>3. Add(Syncer, R)
      BY <1>23 DEF addRecycle
    <2> QED BY <1>23, <1>a, <1>c, <2>1, <2>2, <2>3 DEF addRecycle, BoxTypes
  <1>24. ASSUME NEW i \in 1..NOkay, NEW r \in 1..MaxRuns, OkayBoot(i,
       r) PROVE BoxTypes'
    BY <1>24, <1>a DEF OkayBoot, BoxTypes
  <1>25. ASSUME NEW i \in 1..NOkay, NEW r \in 1..MaxRuns, OkayCheck(i,
       r) PROVE BoxTypes'
    BY <1>25, <1>a DEF OkayCheck, BoxTypes
  <1>26. ASSUME NEW i \in 1..NOkay, NEW r \in 1..MaxRuns, NEW t \in Tasks,
       OkayAdd(i, r, t) PROVE BoxTypes'
    <2>1. O(i) \in Threads
      BY ThreadFacts
    <2> QED BY <1>26, <1>a, <2>1 DEF OkayAdd, BoxTypes
  <1>27. ASSUME NEW i \in 1..NOkay, NEW r \in 1..MaxRuns, OkayClear(i,
       r) PROVE BoxTypes'
    BY <1>27, <1>a DEF OkayClear, BoxTypes
  <1>28. ASSUME NEW i \in 1..NOkay, NEW r \in 1..MaxRuns, OkayLock(i,
       r) PROVE BoxTypes'
    <2>1. O(i) \in Threads
      BY ThreadFacts
    <2> QED BY <1>28, <1>a, <2>1 DEF OkayLock, BoxTypes
  <1>29. ASSUME NEW i \in 1..NOkay, NEW r \in 1..MaxRuns, NEW t \in Tasks,
       OkayEnd(i, r, t) PROVE BoxTypes'
    BY <1>29, <1>a DEF OkayEnd, Visited, Take, BoxTypes
  <1>30. ASSUME NEW i \in 1..NOkay, NEW r \in 1..MaxRuns, NEW t \in Tasks,
       OkayKeep(i, r, t) PROVE BoxTypes'
    BY <1>30, <1>a DEF OkayKeep, Visited, BoxTypes
  <1>31. ASSUME NEW i \in 1..NOkay, NEW r \in 1..MaxRuns, OkayUnlock(i,
       r) PROVE BoxTypes'
    BY <1>31, <1>a DEF OkayUnlock, BoxTypes
  <1>32. ASSUME NEW i \in 1..NOkay, NEW r \in 1..MaxRuns, OkayPoll(i,
       r) PROVE BoxTypes'
    BY <1>32, <1>a DEF OkayPoll, BoxTypes
  <1>33. ASSUME NEW i \in 1..NOkay, NEW r \in 1..MaxRuns, addRecycle(Okayer(i,
       r), "drop", "pass") PROVE BoxTypes'
    <2>1. Okayer(i, r) \in Workers /\ R \in Threads
      BY WorkerFacts, ThreadFacts
    <2>2. hand[Okayer(i, r)] \in Tasks
      BY <1>33, <1>b, <2>1 DEF addRecycle, HandLabels
    <2>3. Add(Okayer(i, r), R)
      BY <1>33 DEF addRecycle
    <2> QED BY <1>33, <1>a, <1>c, <2>1, <2>2, <2>3 DEF addRecycle, BoxTypes
  <1>34. ASSUME RecycleCheck PROVE BoxTypes'
    <2>1. Recycler \in Workers /\ R \in Threads
      BY WorkerFacts, ThreadFacts
    <2> QED BY <1>34, <1>a, <1>d, <2>1 DEF RecycleCheck, BoxTypes
  <1>35. ASSUME NEW t \in Tasks, RecycleDelete(t) PROVE BoxTypes'
    BY <1>35, <1>a DEF RecycleDelete, Visited, Destroy, BoxTypes
  <1>36. ASSUME NEW t \in Tasks, RecycleWait(t) PROVE BoxTypes'
    BY <1>36, <1>a DEF RecycleWait, Visited, BoxTypes
  <1>37. ASSUME NEW t \in Tasks, Disconnect(t) PROVE BoxTypes'
    BY <1>37, <1>a DEF Disconnect, BoxTypes
  <1>38. ASSUME NEW t \in Tasks, Deadline(t) PROVE BoxTypes'
    BY <1>38, <1>a DEF Deadline, BoxTypes
  <1>39. ASSUME NEW t \in Tasks, Terminate(t) PROVE BoxTypes'
    BY <1>39, <1>a DEF Terminate, BoxTypes
  <1>40. ASSUME UNCHANGED vars PROVE BoxTypes'
    BY <1>40, <1>a DEF vars, BoxTypes
  <1> QED
    BY <1>1, <1>2, <1>3, <1>4, <1>5, <1>6, <1>7, <1>8, <1>9, <1>10, <1>11,
       <1>12, <1>13, <1>14, <1>15, <1>16, <1>17, <1>18, <1>19, <1>20, <1>21,
       <1>22, <1>23, <1>24, <1>25, <1>26, <1>27, <1>28, <1>29, <1>30, <1>31,
       <1>32, <1>33, <1>34, <1>35, <1>36, <1>37, <1>38, <1>39,
       <1>40 DEF ServeNext, AcceptStep, VerifyStep, SyncStep, addOkayLoop, OkayStep,
       RecycleStep, Around


\* The fields of the tasks and the outer sets keep their types.
LEMMA TaskTypesStep ==
    ASSUME TypeOK, HandHas, ServeNext \/ UNCHANGED vars
    PROVE  TaskTypes'
  <1> USE DEF taskVars, outerVars, boxVars, okayVars, flowVars, callVars, acceptVars, finalVars
  <1>a. TaskTypes /\ BoxTypes
    BY DEF TypeOK
  <1>b. pc[Syncer] \in HandLabels => hand[Syncer] \in Tasks
    BY WorkerFacts DEF TypeOK, BoxTypes, HandHas
  <1>1. ASSUME NEW t \in Tasks, NEW garbage \in BOOLEAN, newTCPTask(t,
       garbage) PROVE TaskTypes'
    BY <1>1, <1>a DEF newTCPTask, getNextState, NextState, TaskTypes, Flags,
       States
  <1>2. ASSUME addVerify PROVE TaskTypes'
    BY <1>2, <1>a DEF addVerify, TaskTypes, Flags, States
  <1>3. ASSUME epollAdd PROVE TaskTypes'
    BY <1>3, <1>a DEF epollAdd, TaskTypes, Flags, States
  <1>4. ASSUME NEW i \in 1..NVerify, VerifyCheck(i) PROVE TaskTypes'
    BY <1>4, <1>a DEF VerifyCheck, TaskTypes, Flags, States
  <1>5. ASSUME NEW i \in 1..NVerify, NEW t \in Tasks, VerifyTimeout(i,
       t) PROVE TaskTypes'
    BY <1>5, <1>a DEF VerifyTimeout, resetState, VerifyFrame, TaskTypes, Flags,
       States
  <1>6. ASSUME NEW i \in 1..NVerify, VerifySecondPass(i) PROVE TaskTypes'
    BY <1>6, <1>a DEF VerifySecondPass, TaskTypes, Flags, States
  <1>7. ASSUME NEW i \in 1..NVerify, NEW t \in Tasks, VerifyFail(i,
       t) PROVE TaskTypes'
    BY <1>7, <1>a DEF VerifyFail, resetState, VerifyFrame, TaskTypes, Flags,
       States
  <1>8. ASSUME NEW i \in 1..NVerify, NEW t \in Tasks, VerifyPass(i,
       t) PROVE TaskTypes'
    BY <1>8, <1>a DEF VerifyPass, getNextState, NextState, VerifyFrame,
       TaskTypes, Flags, States
  <1>9. ASSUME NEW i \in 1..NVerify, NEW t \in Tasks, VerifyWait(i,
       t) PROVE TaskTypes'
    BY <1>9, <1>a DEF VerifyWait, TaskTypes, Flags, States
  <1>10. ASSUME NEW i \in 1..NVerify, addSync(i) PROVE TaskTypes'
    BY <1>10, <1>a DEF addSync, TaskTypes, Flags, States
  <1>11. ASSUME NEW i \in 1..NVerify, addRecycle(Verifier(i), "drop timeouts",
       "timeouts") PROVE TaskTypes'
    BY <1>11, <1>a DEF addRecycle, TaskTypes, Flags, States
  <1>12. ASSUME NEW i \in 1..NVerify, addRecycle(Verifier(i), "drop receive",
       "receive") PROVE TaskTypes'
    BY <1>12, <1>a DEF addRecycle, TaskTypes, Flags, States
  <1>13. ASSUME SyncCheck PROVE TaskTypes'
    BY <1>13, <1>a DEF SyncCheck, TaskTypes, Flags, States
  <1>14. ASSUME NEW t \in Tasks, SyncAgreed(t) PROVE TaskTypes'
    BY <1>14, <1>a DEF SyncAgreed, TaskTypes, Flags, States
  <1>15. ASSUME NEW t \in Tasks, SyncWait(t) PROVE TaskTypes'
    BY <1>15, <1>a DEF SyncWait, TaskTypes, Flags, States
  <1>16. ASSUME NEW t \in Tasks, SyncRefused(t) PROVE TaskTypes'
    BY <1>16, <1>a DEF SyncRefused, resetState, TaskTypes, Flags, States
  <1>17. ASSUME addOkayScan \/ addOkayCompare PROVE TaskTypes'
    BY <1>17, <1>a, Choosing DEF TaskTypes
  <1>18. ASSUME addOkayCount PROVE TaskTypes'
    BY <1>18, <1>a DEF addOkayCount, TaskTypes, Flags, States
  <1>19. ASSUME addOkaySize PROVE TaskTypes'
    BY <1>19, <1>a, <1>b DEF addOkaySize, getNextState, NextState, HandLabels,
       TaskTypes, Flags, States
  <1>20. ASSUME NEW r \in 1..MaxRuns, addOkayStart(r) PROVE TaskTypes'
    BY <1>20, <1>a, <1>b DEF addOkayStart, getNextState, NextState, HandLabels,
       TaskTypes, Flags, States
  <1>21. ASSUME addOkayFailed PROVE TaskTypes'
    BY <1>21, <1>a, <1>b DEF addOkayFailed, resetState, HandLabels, TaskTypes,
       Flags, States
  <1>22. ASSUME addOkayAdd PROVE TaskTypes'
    BY <1>22, <1>a DEF addOkayAdd, TaskTypes, Flags, States
  <1>23. ASSUME addRecycle(Syncer, "drop", "pass") PROVE TaskTypes'
    BY <1>23, <1>a DEF addRecycle, TaskTypes, Flags, States
  <1>24. ASSUME NEW i \in 1..NOkay, NEW r \in 1..MaxRuns, OkayBoot(i,
       r) PROVE TaskTypes'
    BY <1>24, <1>a DEF OkayBoot, TaskTypes, Flags, States
  <1>25. ASSUME NEW i \in 1..NOkay, NEW r \in 1..MaxRuns, OkayCheck(i,
       r) PROVE TaskTypes'
    BY <1>25, <1>a DEF OkayCheck, TaskTypes, Flags, States
  <1>26. ASSUME NEW i \in 1..NOkay, NEW r \in 1..MaxRuns, NEW t \in Tasks,
       OkayAdd(i, r, t) PROVE TaskTypes'
    BY <1>26, <1>a DEF OkayAdd, TaskTypes, Flags, States
  <1>27. ASSUME NEW i \in 1..NOkay, NEW r \in 1..MaxRuns, OkayClear(i,
       r) PROVE TaskTypes'
    BY <1>27, <1>a DEF OkayClear, TaskTypes, Flags, States
  <1>28. ASSUME NEW i \in 1..NOkay, NEW r \in 1..MaxRuns, OkayLock(i,
       r) PROVE TaskTypes'
    BY <1>28, <1>a DEF OkayLock, TaskTypes, Flags, States
  <1>29. ASSUME NEW i \in 1..NOkay, NEW r \in 1..MaxRuns, NEW t \in Tasks,
       OkayEnd(i, r, t) PROVE TaskTypes'
    BY <1>29, <1>a DEF OkayEnd, getNextState, NextState, BoxTypes, TaskTypes,
       Flags, States
  <1>30. ASSUME NEW i \in 1..NOkay, NEW r \in 1..MaxRuns, NEW t \in Tasks,
       OkayKeep(i, r, t) PROVE TaskTypes'
    BY <1>30, <1>a DEF OkayKeep, TaskTypes, Flags, States
  <1>31. ASSUME NEW i \in 1..NOkay, NEW r \in 1..MaxRuns, OkayUnlock(i,
       r) PROVE TaskTypes'
    BY <1>31, <1>a DEF OkayUnlock, TaskTypes, Flags, States
  <1>32. ASSUME NEW i \in 1..NOkay, NEW r \in 1..MaxRuns, OkayPoll(i,
       r) PROVE TaskTypes'
    BY <1>32, <1>a DEF OkayPoll, TaskTypes, Flags, States
  <1>33. ASSUME NEW i \in 1..NOkay, NEW r \in 1..MaxRuns, addRecycle(Okayer(i,
       r), "drop", "pass") PROVE TaskTypes'
    BY <1>33, <1>a DEF addRecycle, TaskTypes, Flags, States
  <1>34. ASSUME RecycleCheck PROVE TaskTypes'
    BY <1>34, <1>a DEF RecycleCheck, TaskTypes, Flags, States
  <1>35. ASSUME NEW t \in Tasks, RecycleDelete(t) PROVE TaskTypes'
    BY <1>35, <1>a DEF RecycleDelete, Destroy, Free, getNextState, NextState,
       TaskTypes, Flags, States
  <1>36. ASSUME NEW t \in Tasks, RecycleWait(t) PROVE TaskTypes'
    BY <1>36, <1>a DEF RecycleWait, TaskTypes, Flags, States
  <1>37. ASSUME NEW t \in Tasks, Disconnect(t) PROVE TaskTypes'
    BY <1>37, <1>a DEF Disconnect, TaskTypes, Flags, States
  <1>38. ASSUME NEW t \in Tasks, Deadline(t) PROVE TaskTypes'
    BY <1>38, <1>a DEF Deadline, TaskTypes, Flags, States
  <1>39. ASSUME NEW t \in Tasks, Terminate(t) PROVE TaskTypes'
    BY <1>39, <1>a DEF Terminate, TaskTypes, Flags, States
  <1>40. ASSUME UNCHANGED vars PROVE TaskTypes'
    BY <1>40, <1>a DEF vars, TaskTypes, Flags, States
  <1> QED
    BY <1>1, <1>2, <1>3, <1>4, <1>5, <1>6, <1>7, <1>8, <1>9, <1>10, <1>11,
       <1>12, <1>13, <1>14, <1>15, <1>16, <1>17, <1>18, <1>19, <1>20, <1>21,
       <1>22, <1>23, <1>24, <1>25, <1>26, <1>27, <1>28, <1>29, <1>30, <1>31,
       <1>32, <1>33, <1>34, <1>35, <1>36, <1>37, <1>38, <1>39,
       <1>40 DEF ServeNext, AcceptStep, VerifyStep, SyncStep, addOkayLoop, OkayStep,
       RecycleStep, Around


\* Each action is one of the six things that can be done to the places.
LEMMA PlaceStep ==
    ASSUME ServeInv, ServeNext \/ UNCHANGED vars
    PROVE  PlaceInv'
  <1> USE DEF taskVars, outerVars, boxVars, okayVars, flowVars, callVars, acceptVars, finalVars
  <1>a. TypeOK /\ PlaceInv
    BY DEF ServeInv, PlaceInv
  <1>b. \A w \in Workers \ {Accepter} : todo[w] \subseteq tasks[Object(w)]
    BY DEF ServeInv, IteratorsValid
  <1>c. \A w \in Workers : /\ pc[w] \in HandLabels => hand[w] # NoTask
                           /\ pc[w] \notin HandLabels => hand[w] = NoTask
    BY DEF ServeInv, HandFull
  <1>d. \A th \in Threads : \A t \in queue[th] \cup tasks[th] : state[t] = Stage(th)
    BY DEF ServeInv, StateOfPlace
  <1>e. pc[Syncer] \in ChoiceLabels =>
           hand[Syncer] # NoTask /\ state[hand[Syncer]] = "sync"
    BY WorkerFacts DEF ServeInv, HandFull, HandLabels, StateOfPlace, StageInHand
  <1>j. Syncer \in Workers
    BY WorkerFacts
  <1>f. pc \in [Workers -> Labels] /\ state \in [Tasks -> States]
    BY DEF ServeInv, TypeOK, LabelTypes, TaskTypes
  <1>g. hashCode + 1 \in 1..NVerify /\ target \in 1..NOkay /\ nostart \in 0..NOkay
    BY Sizes DEF ServeInv, TypeOK, RestTypes
  <1>h. \A w \in Workers : \A from, to : pc[w] = from /\ Goto(w, to) /\ from \notin HandLabels
           /\ to \notin HandLabels => SameSide
    BY <1>f DEF Goto, SameSide
  <1>i. pc' = pc => SameSide
    BY DEF SameSide
  <1>1. ASSUME NEW t \in Tasks, NEW garbage \in BOOLEAN, newTCPTask(t,
       garbage) PROVE PlaceInv'
    <2>1. state[t] = "notuse"
      BY <1>1 DEF newTCPTask, ServeInv, StateOfPlace
    <2>2. state' = [state EXCEPT ![t] = "verify"]
      BY <1>1, <2>1 DEF newTCPTask, getNextState, NextState
    <2> QED
      BY <1>1, <1>a, <2>2, BornKeeps DEF newTCPTask
  <1>2. ASSUME addVerify PROVE PlaceInv'
    <2>w. Accepter \in Workers /\ V(hashCode + 1) \in Threads
      BY WorkerFacts, ThreadFacts, <1>g
    <2>1. pc[Accepter] \in HandLabels /\ Stage(V(hashCode + 1)) = StageInHand(pc[Accepter])
      BY <1>2, ThreadFacts, <1>g DEF addVerify, HandLabels, StageInHand
    <2>2. hand[Accepter] # NoTask
      BY <1>c, <2>1, <2>w
    <2>3. /\ Add(Accepter, V(hashCode + 1)) /\ Goto(Accepter, "register")
          /\ tasks' = tasks /\ state' = state /\ live' = live
      BY <1>2 DEF addVerify
    <2>4. "register" \notin HandLabels
      BY DEF HandLabels
    <2> QED
      BY <1>a, <2>w, <2>1, <2>2, <2>3, <2>4, AddKeeps
  <1>3. ASSUME epollAdd PROVE PlaceInv'
    <2>w. Accepter \in Workers
      BY WorkerFacts
    <2>1. SameSide
      BY <1>3, <1>h, <2>w DEF epollAdd, HandLabels
    <2>2. UNCHANGED <<queue, tasks, hand, live, state>>
      BY <1>3 DEF epollAdd
    <2> QED BY <1>a, <2>1, <2>2, StayKeeps
  <1>4. ASSUME NEW i \in 1..NVerify, VerifyCheck(i) PROVE PlaceInv'
    <2>w. Verifier(i) \in Workers /\ V(i) \in Threads
      BY WorkerFacts, ThreadFacts
    <2>1. SameSide
      BY <1>4, <2>w, <1>h DEF VerifyCheck, HandLabels
    <2>2. Moved(V(i), queue[V(i)])
      BY <1>4, CheckMoves DEF VerifyCheck
    <2>3. hand' = hand /\ state' = state /\ live' = live
      BY <1>4 DEF VerifyCheck
    <2> QED BY <1>a, <2>w, <2>1, <2>2, <2>3, MoveKeeps
  <1>5. ASSUME NEW i \in 1..NVerify, NEW t \in Tasks, VerifyTimeout(i,
       t) PROVE PlaceInv'
    <2>1. CASE late[t]
      <3>w. Verifier(i) \in Workers /\ V(i) \in Threads /\ Object(Verifier(i)) = V(i) /\ Verifier(i) # Accepter
        BY WorkerFacts, ThreadFacts
      <3>1. t \in tasks[V(i)] /\ pc[Verifier(i)] \notin HandLabels
        BY <1>5, <2>1, <1>b, <3>w DEF VerifyTimeout, HandLabels
      <3>2. hand[Verifier(i)] = NoTask
        BY <1>c, <3>1, <3>w
      <3>3. state[t] = "verify"
        BY <1>d, <3>1, <3>w, ThreadFacts
      <3>4. state' = [state EXCEPT ![t] = StageInHand("drop timeouts")]
        BY <1>5, <2>1, <1>f, <3>3 DEF VerifyTimeout, StageInHand, resetState
      <3>5. /\ Take(Verifier(i), V(i), t) /\ Goto(Verifier(i), "drop timeouts")
            /\ queue' = queue /\ live' = live
        BY <1>5, <2>1 DEF VerifyTimeout
      <3> QED
        BY <1>a, <3>w, <3>1, <3>2, <3>4, <3>5, TakeKeeps DEF HandLabels, StageInHand, States
    <2>2. CASE ~late[t]
      <3>1. UNCHANGED <<queue, tasks, hand, live, state, pc>>
        BY <1>5, <2>2 DEF VerifyTimeout
      <3> QED BY <1>a, <1>i, <3>1, StayKeeps
    <2> QED BY <2>1, <2>2
  <1>6. ASSUME NEW i \in 1..NVerify, VerifySecondPass(i) PROVE PlaceInv'
    <2>w. Verifier(i) \in Workers
      BY WorkerFacts
    <2>1. SameSide
      BY <1>6, <1>h, <2>w DEF VerifySecondPass, HandLabels
    <2>2. UNCHANGED <<queue, tasks, hand, live, state>>
      BY <1>6 DEF VerifySecondPass
    <2> QED BY <1>a, <2>1, <2>2, StayKeeps
  <1>7. ASSUME NEW i \in 1..NVerify, NEW t \in Tasks, VerifyFail(i,
       t) PROVE PlaceInv'
    <2>w. Verifier(i) \in Workers /\ V(i) \in Threads /\ Object(Verifier(i)) = V(i) /\ Verifier(i) # Accepter
      BY WorkerFacts, ThreadFacts
    <2>1. t \in tasks[V(i)] /\ pc[Verifier(i)] \notin HandLabels
      BY <1>7, <1>b, <2>w DEF VerifyFail, HandLabels
    <2>2. hand[Verifier(i)] = NoTask
      BY <1>c, <2>1, <2>w
    <2>3. state[t] = "verify"
      BY <1>d, <2>1, <2>w, ThreadFacts
    <2>4. state' = [state EXCEPT ![t] = StageInHand("drop receive")]
      BY <1>7, <1>f, <2>3 DEF VerifyFail, StageInHand, resetState
    <2>5. /\ Take(Verifier(i), V(i), t) /\ Goto(Verifier(i), "drop receive")
          /\ queue' = queue /\ live' = live
      BY <1>7 DEF VerifyFail
    <2> QED
      BY <1>a, <2>w, <2>1, <2>2, <2>4, <2>5, TakeKeeps DEF HandLabels, StageInHand, States
  <1>8. ASSUME NEW i \in 1..NVerify, NEW t \in Tasks, VerifyPass(i,
       t) PROVE PlaceInv'
    <2>w. Verifier(i) \in Workers /\ V(i) \in Threads /\ Object(Verifier(i)) = V(i) /\ Verifier(i) # Accepter
      BY WorkerFacts, ThreadFacts
    <2>1. t \in tasks[V(i)] /\ pc[Verifier(i)] \notin HandLabels
      BY <1>8, <1>b, <2>w DEF VerifyPass, HandLabels
    <2>2. hand[Verifier(i)] = NoTask
      BY <1>c, <2>1, <2>w
    <2>3. state[t] = "verify"
      BY <1>d, <2>1, <2>w, ThreadFacts
    <2>4. state' = [state EXCEPT ![t] = StageInHand("addSync")]
      BY <1>8, <1>f, <2>3 DEF VerifyPass, StageInHand, getNextState, NextState
    <2>5. /\ Take(Verifier(i), V(i), t) /\ Goto(Verifier(i), "addSync")
          /\ queue' = queue /\ live' = live
      BY <1>8 DEF VerifyPass
    <2> QED
      BY <1>a, <2>w, <2>1, <2>2, <2>4, <2>5, TakeKeeps DEF HandLabels, StageInHand, States
  <1>9. ASSUME NEW i \in 1..NVerify, NEW t \in Tasks, VerifyWait(i,
       t) PROVE PlaceInv'
    <2>1. SameSide
      BY <1>9, <1>i DEF VerifyWait
    <2>2. UNCHANGED <<queue, tasks, hand, live, state>>
      BY <1>9 DEF VerifyWait
    <2> QED BY <1>a, <2>1, <2>2, StayKeeps
  <1>10. ASSUME NEW i \in 1..NVerify, addSync(i) PROVE PlaceInv'
    <2>w. Verifier(i) \in Workers /\ S \in Threads
      BY WorkerFacts, ThreadFacts
    <2>1. pc[Verifier(i)] \in HandLabels /\ Stage(S) = StageInHand(pc[Verifier(i)])
      BY <1>10, ThreadFacts DEF addSync, HandLabels, StageInHand
    <2>2. hand[Verifier(i)] # NoTask
      BY <1>c, <2>1, <2>w
    <2>3. /\ Add(Verifier(i), S) /\ Goto(Verifier(i), "receive")
          /\ tasks' = tasks /\ state' = state /\ live' = live
      BY <1>10 DEF addSync
    <2>4. "receive" \notin HandLabels
      BY DEF HandLabels
    <2> QED
      BY <1>a, <2>w, <2>1, <2>2, <2>3, <2>4, AddKeeps
  <1>11. ASSUME NEW i \in 1..NVerify, addRecycle(Verifier(i), "drop timeouts",
       "timeouts") PROVE PlaceInv'
    <2>w. Verifier(i) \in Workers /\ R \in Threads
      BY WorkerFacts, ThreadFacts
    <2>1. pc[Verifier(i)] \in HandLabels /\ Stage(R) = StageInHand(pc[Verifier(i)])
      BY <1>11, ThreadFacts DEF addRecycle, HandLabels, StageInHand
    <2>2. hand[Verifier(i)] # NoTask
      BY <1>c, <2>1, <2>w
    <2>3. /\ Add(Verifier(i), R) /\ Goto(Verifier(i), "timeouts")
          /\ tasks' = tasks /\ state' = state /\ live' = live
      BY <1>11 DEF addRecycle
    <2>4. "timeouts" \notin HandLabels
      BY DEF HandLabels
    <2> QED
      BY <1>a, <2>w, <2>1, <2>2, <2>3, <2>4, AddKeeps
  <1>12. ASSUME NEW i \in 1..NVerify, addRecycle(Verifier(i), "drop receive",
       "receive") PROVE PlaceInv'
    <2>w. Verifier(i) \in Workers /\ R \in Threads
      BY WorkerFacts, ThreadFacts
    <2>1. pc[Verifier(i)] \in HandLabels /\ Stage(R) = StageInHand(pc[Verifier(i)])
      BY <1>12, ThreadFacts DEF addRecycle, HandLabels, StageInHand
    <2>2. hand[Verifier(i)] # NoTask
      BY <1>c, <2>1, <2>w
    <2>3. /\ Add(Verifier(i), R) /\ Goto(Verifier(i), "receive")
          /\ tasks' = tasks /\ state' = state /\ live' = live
      BY <1>12 DEF addRecycle
    <2>4. "receive" \notin HandLabels
      BY DEF HandLabels
    <2> QED
      BY <1>a, <2>w, <2>1, <2>2, <2>3, <2>4, AddKeeps
  <1>13. ASSUME SyncCheck PROVE PlaceInv'
    <2>w. Syncer \in Workers /\ S \in Threads
      BY WorkerFacts, ThreadFacts
    <2>1. SameSide
      BY <1>13, <2>w, <1>i DEF SyncCheck
    <2>2. Moved(S, queue[S])
      BY <1>13, CheckMoves DEF SyncCheck
    <2>3. hand' = hand /\ state' = state /\ live' = live
      BY <1>13 DEF SyncCheck
    <2> QED BY <1>a, <2>w, <2>1, <2>2, <2>3, MoveKeeps
  <1>14. ASSUME NEW t \in Tasks, SyncAgreed(t) PROVE PlaceInv'
    <2>w. Syncer \in Workers /\ S \in Threads /\ Object(Syncer) = S /\ Syncer # Accepter
      BY WorkerFacts, ThreadFacts
    <2>1. t \in tasks[S] /\ pc[Syncer] \notin HandLabels
      BY <1>14, <1>b, <2>w DEF SyncAgreed, HandLabels
    <2>2. hand[Syncer] = NoTask
      BY <1>c, <2>1, <2>w
    <2>3. state[t] = "sync"
      BY <1>d, <2>1, <2>w, ThreadFacts
    <2>4. state' = [state EXCEPT ![t] = StageInHand("scan")]
      BY <1>14, <1>f, <2>3 DEF SyncAgreed, StageInHand, taskVars
    <2>5. /\ Take(Syncer, S, t) /\ Goto(Syncer, "scan")
          /\ queue' = queue /\ live' = live
      BY <1>14 DEF SyncAgreed
    <2> QED
      BY <1>a, <2>w, <2>1, <2>2, <2>4, <2>5, TakeKeeps DEF HandLabels, StageInHand, States
  <1>15. ASSUME NEW t \in Tasks, SyncWait(t) PROVE PlaceInv'
    <2>1. SameSide
      BY <1>15, <1>i DEF SyncWait
    <2>2. UNCHANGED <<queue, tasks, hand, live, state>>
      BY <1>15 DEF SyncWait
    <2> QED BY <1>a, <2>1, <2>2, StayKeeps
  <1>16. ASSUME NEW t \in Tasks, SyncRefused(t) PROVE PlaceInv'
    <2>w. Syncer \in Workers /\ S \in Threads /\ Object(Syncer) = S /\ Syncer # Accepter
      BY WorkerFacts, ThreadFacts
    <2>1. t \in tasks[S] /\ pc[Syncer] \notin HandLabels
      BY <1>16, <1>b, <2>w DEF SyncRefused, HandLabels
    <2>2. hand[Syncer] = NoTask
      BY <1>c, <2>1, <2>w
    <2>3. state[t] = "sync"
      BY <1>d, <2>1, <2>w, ThreadFacts
    <2>4. state' = [state EXCEPT ![t] = StageInHand("drop")]
      BY <1>16, <1>f, <2>3 DEF SyncRefused, StageInHand, resetState
    <2>5. /\ Take(Syncer, S, t) /\ Goto(Syncer, "drop")
          /\ queue' = queue /\ live' = live
      BY <1>16 DEF SyncRefused
    <2> QED
      BY <1>a, <2>w, <2>1, <2>2, <2>4, <2>5, TakeKeeps DEF HandLabels, StageInHand, States
  <1>17. ASSUME addOkayScan \/ addOkayCompare PROVE PlaceInv'
    <2>1. PICK label \in ChoiceLabels : pc[Syncer] \in ChoiceLabels /\ Goto(Syncer, label)
      BY <1>17, Choosing
    <2>2. hand[Syncer] # NoTask /\ state[hand[Syncer]] = "sync"
      BY <1>e, <2>1
    <2>3. UNCHANGED <<queue, tasks, hand, live>> /\ state' = state
      BY <1>17, Choosing
    <2>4. state' = [state EXCEPT ![hand[Syncer]] = StageInHand(label)]
      BY <1>f, <2>2, <2>3 DEF StageInHand
    <2>5. /\ pc'[Syncer] = label
          /\ \A u \in Workers \ {Syncer} : pc'[u] = pc[u]
      BY <1>f, <1>j, <2>1 DEF Goto
    <2>6. label \in HandLabels
      BY <2>1 DEF HandLabels
    <2>7. \E w \in Workers, to \in HandLabels :
             /\ hand[w] # NoTask
             /\ \A u \in Workers \ {w} :
                   pc'[u] = pc[u] \/ (pc[u] \notin HandLabels /\ pc'[u] \notin HandLabels)
             /\ pc'[w] = to
             /\ state' = [state EXCEPT ![hand[w]] = StageInHand(to)]
      BY <1>j, <2>2, <2>4, <2>5, <2>6
    <2> QED BY <1>a, <2>3, <2>7, StayKeeps
  <1>18. ASSUME addOkayCount PROVE PlaceInv'
    <2>1. hand[Syncer] # NoTask /\ state[hand[Syncer]] = "sync"
      BY <1>18, <1>e DEF addOkayCount
    <2>2. PICK label \in {"size"} : Goto(Syncer, label)
      BY <1>18 DEF addOkayCount
    <2>3. state' = [state EXCEPT ![hand[Syncer]] = StageInHand(label)]
      BY <1>18, <1>f, <2>1, <2>2 DEF addOkayCount, StageInHand
    <2>4. /\ pc'[Syncer] = label
          /\ \A u \in Workers \ {Syncer} : pc'[u] = pc[u]
      BY <1>f, <1>j, <2>2 DEF Goto
    <2>5. UNCHANGED <<queue, tasks, hand, live>>
      BY <1>18 DEF addOkayCount
    <2> QED
      BY <1>a, <1>j, <2>1, <2>2, <2>3, <2>4, <2>5, StayKeeps DEF HandLabels
  <1>19. ASSUME addOkaySize PROVE PlaceInv'
    <2>1. CASE loaded + size[target] < ConnPerThread
      <3>1. hand[Syncer] # NoTask /\ state[hand[Syncer]] = "sync"
        BY <1>19, <2>1, <1>e DEF addOkaySize
      <3>2. state' = [state EXCEPT ![hand[Syncer]] = StageInHand("addOkay")]
        BY <1>19, <2>1, <3>1 DEF addOkaySize, getNextState, NextState, StageInHand
      <3>3. /\ pc'[Syncer] = "addOkay"
            /\ \A u \in Workers \ {Syncer} :
                  pc'[u] = pc[u] \/ (pc[u] \notin HandLabels /\ pc'[u] \notin HandLabels)
        BY <1>19, <2>1, <1>f, <1>j DEF addOkaySize, Goto, HandLabels
      <3>4. UNCHANGED <<queue, tasks, hand, live>>
        BY <1>19, <2>1 DEF addOkaySize
      <3> QED
        BY <1>a, <1>j, <3>1, <3>2, <3>3, <3>4, StayKeeps DEF HandLabels
    <2>2. CASE ~(loaded + size[target] < ConnPerThread)
      <3>1. hand[Syncer] # NoTask /\ state[hand[Syncer]] = "sync"
        BY <1>19, <2>2, <1>e DEF addOkaySize
      <3>2. PICK label \in {"start"} : Goto(Syncer, label)
        BY <1>19, <2>2 DEF addOkaySize
      <3>3. state' = [state EXCEPT ![hand[Syncer]] = StageInHand(label)]
        BY <1>19, <2>2, <1>f, <3>1, <3>2 DEF addOkaySize, StageInHand
      <3>4. /\ pc'[Syncer] = label
            /\ \A u \in Workers \ {Syncer} : pc'[u] = pc[u]
        BY <1>f, <1>j, <3>2 DEF Goto
      <3>5. UNCHANGED <<queue, tasks, hand, live>>
        BY <1>19, <2>2 DEF addOkaySize
      <3> QED
        BY <1>a, <1>j, <3>1, <3>2, <3>3, <3>4, <3>5, StayKeeps DEF HandLabels
    <2> QED BY <2>1, <2>2
  <1>20. ASSUME NEW r \in 1..MaxRuns, addOkayStart(r) PROVE PlaceInv'
    <2>1. hand[Syncer] # NoTask /\ state[hand[Syncer]] = "sync"
      BY <1>20, <1>e DEF addOkayStart
    <2>2. state' = [state EXCEPT ![hand[Syncer]] = StageInHand("addOkay")]
      BY <1>20, <2>1 DEF addOkayStart, getNextState, NextState, StageInHand
    <2>3. /\ pc'[Syncer] = "addOkay"
          /\ \A u \in Workers \ {Syncer} :
                pc'[u] = pc[u] \/ (pc[u] \notin HandLabels /\ pc'[u] \notin HandLabels)
      BY <1>20, <1>f, <1>j, <1>g, Sizes DEF addOkayStart, HandLabels
    <2>4. UNCHANGED <<queue, tasks, hand, live>>
      BY <1>20 DEF addOkayStart
    <2> QED
      BY <1>a, <1>j, <2>1, <2>2, <2>3, <2>4, StayKeeps DEF HandLabels
  <1>21. ASSUME addOkayFailed PROVE PlaceInv'
    <2>1. hand[Syncer] # NoTask /\ state[hand[Syncer]] = "sync"
      BY <1>21, <1>e DEF addOkayFailed
    <2>2. state' = [state EXCEPT ![hand[Syncer]] = StageInHand("drop")]
      BY <1>21, <2>1 DEF addOkayFailed, resetState, StageInHand
    <2>3. /\ pc'[Syncer] = "drop"
          /\ \A u \in Workers \ {Syncer} :
                pc'[u] = pc[u] \/ (pc[u] \notin HandLabels /\ pc'[u] \notin HandLabels)
      BY <1>21, <1>f, <1>j DEF addOkayFailed, Goto, HandLabels
    <2>4. UNCHANGED <<queue, tasks, hand, live>>
      BY <1>21 DEF addOkayFailed
    <2> QED
      BY <1>a, <1>j, <2>1, <2>2, <2>3, <2>4, StayKeeps DEF HandLabels
  <1>22. ASSUME addOkayAdd PROVE PlaceInv'
    <2>w. Syncer \in Workers /\ O(target) \in Threads
      BY WorkerFacts, ThreadFacts, <1>g
    <2>1. pc[Syncer] \in HandLabels /\ Stage(O(target)) = StageInHand(pc[Syncer])
      BY <1>22, ThreadFacts, <1>g DEF addOkayAdd, HandLabels, StageInHand
    <2>2. hand[Syncer] # NoTask
      BY <1>c, <2>1, <2>w
    <2>3. /\ Add(Syncer, O(target)) /\ Goto(Syncer, "pass")
          /\ tasks' = tasks /\ state' = state /\ live' = live
      BY <1>22 DEF addOkayAdd
    <2>4. "pass" \notin HandLabels
      BY DEF HandLabels
    <2> QED
      BY <1>a, <2>w, <2>1, <2>2, <2>3, <2>4, AddKeeps
  <1>23. ASSUME addRecycle(Syncer, "drop", "pass") PROVE PlaceInv'
    <2>w. Syncer \in Workers /\ R \in Threads
      BY WorkerFacts, ThreadFacts
    <2>1. pc[Syncer] \in HandLabels /\ Stage(R) = StageInHand(pc[Syncer])
      BY <1>23, ThreadFacts DEF addRecycle, HandLabels, StageInHand
    <2>2. hand[Syncer] # NoTask
      BY <1>c, <2>1, <2>w
    <2>3. /\ Add(Syncer, R) /\ Goto(Syncer, "pass")
          /\ tasks' = tasks /\ state' = state /\ live' = live
      BY <1>23 DEF addRecycle
    <2>4. "pass" \notin HandLabels
      BY DEF HandLabels
    <2> QED
      BY <1>a, <2>w, <2>1, <2>2, <2>3, <2>4, AddKeeps
  <1>24. ASSUME NEW i \in 1..NOkay, NEW r \in 1..MaxRuns, OkayBoot(i,
       r) PROVE PlaceInv'
    <2>w. Okayer(i, r) \in Workers
      BY WorkerFacts
    <2>1. SameSide
      BY <1>24, <1>h, <2>w DEF OkayBoot, HandLabels
    <2>2. UNCHANGED <<queue, tasks, hand, live, state>>
      BY <1>24 DEF OkayBoot
    <2> QED BY <1>a, <2>1, <2>2, StayKeeps
  <1>25. ASSUME NEW i \in 1..NOkay, NEW r \in 1..MaxRuns, OkayCheck(i,
       r) PROVE PlaceInv'
    <2>w. Okayer(i, r) \in Workers
      BY WorkerFacts
    <2>1. SameSide
      BY <1>25, <1>h, <2>w DEF OkayCheck, HandLabels
    <2>2. UNCHANGED <<queue, tasks, hand, live, state>>
      BY <1>25 DEF OkayCheck
    <2> QED BY <1>a, <2>1, <2>2, StayKeeps
  <1>26. ASSUME NEW i \in 1..NOkay, NEW r \in 1..MaxRuns, NEW t \in Tasks,
       OkayAdd(i, r, t) PROVE PlaceInv'
    <2>w. O(i) \in Threads /\ t \in queue[O(i)]
      BY <1>26, ThreadFacts DEF OkayAdd
    <2>1. Moved(O(i), {t})
      BY <1>26, Zenon DEF OkayAdd, Moved
    <2>2. hand' = hand /\ state' = state /\ live' = live /\ pc' = pc
      BY <1>26 DEF OkayAdd
    <2> QED BY <1>a, <1>i, <2>w, <2>1, <2>2, MoveKeeps
  <1>27. ASSUME NEW i \in 1..NOkay, NEW r \in 1..MaxRuns, OkayClear(i,
       r) PROVE PlaceInv'
    <2>w. Okayer(i, r) \in Workers
      BY WorkerFacts
    <2>1. SameSide
      BY <1>27, <1>h, <2>w DEF OkayClear, HandLabels
    <2>2. UNCHANGED <<queue, tasks, hand, live, state>>
      BY <1>27 DEF OkayClear
    <2> QED BY <1>a, <2>1, <2>2, StayKeeps
  <1>28. ASSUME NEW i \in 1..NOkay, NEW r \in 1..MaxRuns, OkayLock(i,
       r) PROVE PlaceInv'
    <2>w. Okayer(i, r) \in Workers
      BY WorkerFacts
    <2>1. SameSide
      BY <1>28, <1>h, <2>w DEF OkayLock, HandLabels
    <2>2. UNCHANGED <<queue, tasks, hand, live, state>>
      BY <1>28 DEF OkayLock
    <2> QED BY <1>a, <2>1, <2>2, StayKeeps
  <1>29. ASSUME NEW i \in 1..NOkay, NEW r \in 1..MaxRuns, NEW t \in Tasks,
       OkayEnd(i, r, t) PROVE PlaceInv'
    <2>w. Okayer(i, r) \in Workers /\ O(i) \in Threads /\ Object(Okayer(i, r)) = O(i) /\ Okayer(i, r) # Accepter
      BY WorkerFacts, ThreadFacts
    <2>1. t \in tasks[O(i)] /\ pc[Okayer(i, r)] \notin HandLabels
      BY <1>29, <1>b, <2>w DEF OkayEnd, HandLabels
    <2>2. hand[Okayer(i, r)] = NoTask
      BY <1>c, <2>1, <2>w
    <2>3. state[t] = "okay"
      BY <1>d, <2>1, <2>w, ThreadFacts
    <2>4. state' = [state EXCEPT ![t] = StageInHand("drop")]
      BY <1>29, <1>f, <2>3 DEF OkayEnd, StageInHand, getNextState, NextState
    <2>5. /\ Take(Okayer(i, r), O(i), t) /\ Goto(Okayer(i, r), "drop")
          /\ queue' = queue /\ live' = live
      BY <1>29 DEF OkayEnd
    <2> QED
      BY <1>a, <2>w, <2>1, <2>2, <2>4, <2>5, TakeKeeps DEF HandLabels, StageInHand, States
  <1>30. ASSUME NEW i \in 1..NOkay, NEW r \in 1..MaxRuns, NEW t \in Tasks,
       OkayKeep(i, r, t) PROVE PlaceInv'
    <2>1. SameSide
      BY <1>30, <1>i DEF OkayKeep
    <2>2. UNCHANGED <<queue, tasks, hand, live, state>>
      BY <1>30 DEF OkayKeep
    <2> QED BY <1>a, <2>1, <2>2, StayKeeps
  <1>31. ASSUME NEW i \in 1..NOkay, NEW r \in 1..MaxRuns, OkayUnlock(i,
       r) PROVE PlaceInv'
    <2>w. Okayer(i, r) \in Workers
      BY WorkerFacts
    <2>1. SameSide
      BY <1>31, <1>h, <2>w DEF OkayUnlock, HandLabels
    <2>2. UNCHANGED <<queue, tasks, hand, live, state>>
      BY <1>31 DEF OkayUnlock
    <2> QED BY <1>a, <2>1, <2>2, StayKeeps
  <1>32. ASSUME NEW i \in 1..NOkay, NEW r \in 1..MaxRuns, OkayPoll(i,
       r) PROVE PlaceInv'
    <2>w. Okayer(i, r) \in Workers
      BY WorkerFacts
    <2>1. SameSide
      BY <1>32, <1>h, <2>w DEF OkayPoll, HandLabels
    <2>2. UNCHANGED <<queue, tasks, hand, live, state>>
      BY <1>32 DEF OkayPoll
    <2> QED BY <1>a, <2>1, <2>2, StayKeeps
  <1>33. ASSUME NEW i \in 1..NOkay, NEW r \in 1..MaxRuns, addRecycle(Okayer(i,
       r), "drop", "pass") PROVE PlaceInv'
    <2>w. Okayer(i, r) \in Workers /\ R \in Threads
      BY WorkerFacts, ThreadFacts
    <2>1. pc[Okayer(i, r)] \in HandLabels /\ Stage(R) = StageInHand(pc[Okayer(i, r)])
      BY <1>33, ThreadFacts DEF addRecycle, HandLabels, StageInHand
    <2>2. hand[Okayer(i, r)] # NoTask
      BY <1>c, <2>1, <2>w
    <2>3. /\ Add(Okayer(i, r), R) /\ Goto(Okayer(i, r), "pass")
          /\ tasks' = tasks /\ state' = state /\ live' = live
      BY <1>33 DEF addRecycle
    <2>4. "pass" \notin HandLabels
      BY DEF HandLabels
    <2> QED
      BY <1>a, <2>w, <2>1, <2>2, <2>3, <2>4, AddKeeps
  <1>34. ASSUME RecycleCheck PROVE PlaceInv'
    <2>w. Recycler \in Workers /\ R \in Threads
      BY WorkerFacts, ThreadFacts
    <2>1. SameSide
      BY <1>34, <2>w, <1>i DEF RecycleCheck
    <2>2. Moved(R, queue[R])
      BY <1>34, CheckMoves DEF RecycleCheck
    <2>3. hand' = hand /\ state' = state /\ live' = live
      BY <1>34 DEF RecycleCheck
    <2> QED BY <1>a, <2>w, <2>1, <2>2, <2>3, MoveKeeps
  <1>35. ASSUME NEW t \in Tasks, RecycleDelete(t) PROVE PlaceInv'
    <2>1. t \in tasks[R]
      BY <1>35, <1>b, WorkerFacts DEF RecycleDelete
    <2>2. state[t] = "recycle"
      BY <1>d, <2>1, ThreadFacts
    <2>3. state' = [state EXCEPT ![t] = "notuse"]
      BY <1>35, <2>2 DEF RecycleDelete, Destroy, Free, getNextState, NextState
    <2>4. Dropped(t)
      BY <1>35, Zenon DEF RecycleDelete, Destroy, Free, Dropped
    <2>5. queue' = queue /\ hand' = hand /\ pc' = pc
      BY <1>35 DEF RecycleDelete, Destroy
    <2> QED BY <1>a, <2>1, <2>3, <2>4, <2>5, FreedKeeps
  <1>36. ASSUME NEW t \in Tasks, RecycleWait(t) PROVE PlaceInv'
    <2>1. SameSide
      BY <1>36, <1>i DEF RecycleWait
    <2>2. UNCHANGED <<queue, tasks, hand, live, state>>
      BY <1>36 DEF RecycleWait
    <2> QED BY <1>a, <2>1, <2>2, StayKeeps
  <1>37. ASSUME NEW t \in Tasks, Disconnect(t) PROVE PlaceInv'
    <2>1. SameSide
      BY <1>37, <1>i DEF Disconnect
    <2>2. UNCHANGED <<queue, tasks, hand, live, state>>
      BY <1>37 DEF Disconnect
    <2> QED BY <1>a, <2>1, <2>2, StayKeeps
  <1>38. ASSUME NEW t \in Tasks, Deadline(t) PROVE PlaceInv'
    <2>1. SameSide
      BY <1>38, <1>i DEF Deadline
    <2>2. UNCHANGED <<queue, tasks, hand, live, state>>
      BY <1>38 DEF Deadline
    <2> QED BY <1>a, <2>1, <2>2, StayKeeps
  <1>39. ASSUME NEW t \in Tasks, Terminate(t) PROVE PlaceInv'
    <2>1. SameSide
      BY <1>39, <1>i DEF Terminate
    <2>2. UNCHANGED <<queue, tasks, hand, live, state>>
      BY <1>39 DEF Terminate
    <2> QED BY <1>a, <2>1, <2>2, StayKeeps
  <1>40. ASSUME UNCHANGED vars PROVE PlaceInv'
    <2>1. UNCHANGED <<queue, tasks, hand, live, state, pc>>
      BY <1>40 DEF vars
    <2> QED BY <1>a, <1>i, <2>1, StayKeeps
  <1> QED
    BY <1>1, <1>2, <1>3, <1>4, <1>5, <1>6, <1>7, <1>8, <1>9, <1>10, <1>11,
       <1>12, <1>13, <1>14, <1>15, <1>16, <1>17, <1>18, <1>19, <1>20, <1>21,
       <1>22, <1>23, <1>24, <1>25, <1>26, <1>27, <1>28, <1>29, <1>30, <1>31,
       <1>32, <1>33, <1>34, <1>35, <1>36, <1>37, <1>38, <1>39,
       <1>40 DEF ServeNext, AcceptStep, VerifyStep, SyncStep, addOkayLoop, OkayStep,
       RecycleStep, Around


\* Each role keeps to its own labels.
LEMMA RoleLabelsStep ==
    ASSUME ServeInv, ServeNext \/ UNCHANGED vars
    PROVE  RoleLabels'
  <1> USE DEF taskVars, outerVars, boxVars, okayVars, flowVars, callVars, acceptVars, finalVars
  <1>a. RoleLabels /\ pc \in [Workers -> Labels]
    BY DEF ServeInv, TypeOK, LabelTypes
  <1>b. pc' = pc => RoleLabels'
    BY <1>a DEF RoleLabels
  <1>c. \A to \in {"accept", "add", "register"} : Goto(Accepter, to) => RoleLabels'
    BY <1>a, RoleSets DEF RoleLabels, Goto
  <1>d. ASSUME NEW i \in 1..NVerify,
               NEW to \in {"timeouts", "receive", "drop timeouts", "drop receive", "addSync"},
               Goto(Verifier(i), to)
        PROVE  RoleLabels'
    BY <1>a, <1>d, RoleSets DEF RoleLabels, Goto
  <1>e. \A to \in ChoiceLabels \cup {"pass", "drop", "addOkay"} :
           Goto(Syncer, to) => RoleLabels'
    BY <1>a, RoleSets DEF RoleLabels, Goto
  <1>f. ASSUME NEW i \in 1..NOkay, NEW r \in 1..MaxRuns,
               NEW to \in {"off", "boot", "check", "move", "lock", "pass",
                           "drop", "poll"},
               Goto(Okayer(i, r), to)
        PROVE  RoleLabels'
    BY <1>a, <1>f, RoleSets DEF RoleLabels, Goto
  <1>1. ASSUME NEW t \in Tasks, NEW garbage \in BOOLEAN, newTCPTask(t,
       garbage) PROVE RoleLabels'
    BY <1>1, <1>c DEF newTCPTask
  <1>2. ASSUME addVerify PROVE RoleLabels'
    BY <1>2, <1>c DEF addVerify
  <1>3. ASSUME epollAdd PROVE RoleLabels'
    BY <1>3, <1>c DEF epollAdd
  <1>4. ASSUME NEW i \in 1..NVerify, VerifyCheck(i) PROVE RoleLabels'
    BY <1>4, <1>d DEF VerifyCheck
  <1>5. ASSUME NEW i \in 1..NVerify, NEW t \in Tasks, VerifyTimeout(i,
       t) PROVE RoleLabels'
    BY <1>5, <1>b, <1>d DEF VerifyTimeout, VerifyFrame
  <1>6. ASSUME NEW i \in 1..NVerify, VerifySecondPass(i) PROVE RoleLabels'
    BY <1>6, <1>d DEF VerifySecondPass
  <1>7. ASSUME NEW i \in 1..NVerify, NEW t \in Tasks, VerifyFail(i,
       t) PROVE RoleLabels'
    BY <1>7, <1>d DEF VerifyFail, VerifyFrame
  <1>8. ASSUME NEW i \in 1..NVerify, NEW t \in Tasks, VerifyPass(i,
       t) PROVE RoleLabels'
    BY <1>8, <1>d DEF VerifyPass, VerifyFrame
  <1>9. ASSUME NEW i \in 1..NVerify, NEW t \in Tasks, VerifyWait(i,
       t) PROVE RoleLabels'
    BY <1>9, <1>b DEF VerifyWait
  <1>10. ASSUME NEW i \in 1..NVerify, addSync(i) PROVE RoleLabels'
    BY <1>10, <1>d DEF addSync
  <1>11. ASSUME NEW i \in 1..NVerify, addRecycle(Verifier(i), "drop timeouts",
       "timeouts") PROVE RoleLabels'
    BY <1>11, <1>d DEF addRecycle
  <1>12. ASSUME NEW i \in 1..NVerify, addRecycle(Verifier(i), "drop receive",
       "receive") PROVE RoleLabels'
    BY <1>12, <1>d DEF addRecycle
  <1>13. ASSUME SyncCheck PROVE RoleLabels'
    BY <1>13, <1>b DEF SyncCheck
  <1>14. ASSUME NEW t \in Tasks, SyncAgreed(t) PROVE RoleLabels'
    BY <1>14, <1>e DEF SyncAgreed
  <1>15. ASSUME NEW t \in Tasks, SyncWait(t) PROVE RoleLabels'
    BY <1>15, <1>b DEF SyncWait
  <1>16. ASSUME NEW t \in Tasks, SyncRefused(t) PROVE RoleLabels'
    BY <1>16, <1>e DEF SyncRefused
  <1>17. ASSUME addOkayScan \/ addOkayCompare PROVE RoleLabels'
    BY <1>17, <1>e, Choosing
  <1>18. ASSUME addOkayCount PROVE RoleLabels'
    BY <1>18, <1>e DEF addOkayCount
  <1>19. ASSUME addOkaySize PROVE RoleLabels'
    BY <1>19, <1>e DEF addOkaySize
  <1>20. ASSUME NEW r \in 1..MaxRuns, addOkayStart(r) PROVE RoleLabels'
    <2>1. nostart \in 1..NOkay
      BY <1>20, Sizes DEF addOkayStart, ServeInv, TypeOK, RestTypes
    <2>2. CASE alive[nostart]
      BY <1>20, <1>e, <2>2 DEF addOkayStart, Goto
    <2>3. CASE ~alive[nostart]
      <3>1. pc' = [pc EXCEPT ![Syncer] = "addOkay", ![Okayer(nostart, r)] = "boot"]
        BY <1>20, <2>3 DEF addOkayStart
      <3> QED BY <1>a, <2>1, <3>1, RoleSets DEF RoleLabels
    <2> QED BY <2>2, <2>3
  <1>21. ASSUME addOkayFailed PROVE RoleLabels'
    BY <1>21, <1>e DEF addOkayFailed
  <1>22. ASSUME addOkayAdd PROVE RoleLabels'
    BY <1>22, <1>e DEF addOkayAdd
  <1>23. ASSUME addRecycle(Syncer, "drop", "pass") PROVE RoleLabels'
    BY <1>23, <1>e DEF addRecycle
  <1>24. ASSUME NEW i \in 1..NOkay, NEW r \in 1..MaxRuns, OkayBoot(i,
       r) PROVE RoleLabels'
    BY <1>24, <1>f DEF OkayBoot
  <1>25. ASSUME NEW i \in 1..NOkay, NEW r \in 1..MaxRuns, OkayCheck(i,
       r) PROVE RoleLabels'
    BY <1>25, <1>f DEF OkayCheck
  <1>26. ASSUME NEW i \in 1..NOkay, NEW r \in 1..MaxRuns, NEW t \in Tasks,
       OkayAdd(i, r, t) PROVE RoleLabels'
    BY <1>26, <1>b DEF OkayAdd
  <1>27. ASSUME NEW i \in 1..NOkay, NEW r \in 1..MaxRuns, OkayClear(i,
       r) PROVE RoleLabels'
    BY <1>27, <1>f DEF OkayClear
  <1>28. ASSUME NEW i \in 1..NOkay, NEW r \in 1..MaxRuns, OkayLock(i,
       r) PROVE RoleLabels'
    BY <1>28, <1>f DEF OkayLock
  <1>29. ASSUME NEW i \in 1..NOkay, NEW r \in 1..MaxRuns, NEW t \in Tasks,
       OkayEnd(i, r, t) PROVE RoleLabels'
    BY <1>29, <1>f DEF OkayEnd
  <1>30. ASSUME NEW i \in 1..NOkay, NEW r \in 1..MaxRuns, NEW t \in Tasks,
       OkayKeep(i, r, t) PROVE RoleLabels'
    BY <1>30, <1>b DEF OkayKeep
  <1>31. ASSUME NEW i \in 1..NOkay, NEW r \in 1..MaxRuns, OkayUnlock(i,
       r) PROVE RoleLabels'
    BY <1>31, <1>f DEF OkayUnlock
  <1>32. ASSUME NEW i \in 1..NOkay, NEW r \in 1..MaxRuns, OkayPoll(i,
       r) PROVE RoleLabels'
    BY <1>32, <1>f DEF OkayPoll
  <1>33. ASSUME NEW i \in 1..NOkay, NEW r \in 1..MaxRuns, addRecycle(Okayer(i,
       r), "drop", "pass") PROVE RoleLabels'
    BY <1>33, <1>f DEF addRecycle
  <1>34. ASSUME RecycleCheck PROVE RoleLabels'
    BY <1>34, <1>b DEF RecycleCheck
  <1>35. ASSUME NEW t \in Tasks, RecycleDelete(t) PROVE RoleLabels'
    BY <1>35, <1>b DEF RecycleDelete
  <1>36. ASSUME NEW t \in Tasks, RecycleWait(t) PROVE RoleLabels'
    BY <1>36, <1>b DEF RecycleWait
  <1>37. ASSUME NEW t \in Tasks, Disconnect(t) PROVE RoleLabels'
    BY <1>37, <1>b DEF Disconnect
  <1>38. ASSUME NEW t \in Tasks, Deadline(t) PROVE RoleLabels'
    BY <1>38, <1>b DEF Deadline
  <1>39. ASSUME NEW t \in Tasks, Terminate(t) PROVE RoleLabels'
    BY <1>39, <1>b DEF Terminate
  <1>40. ASSUME UNCHANGED vars PROVE RoleLabels'
    BY <1>40, <1>b DEF vars
  <1> QED
    BY <1>1, <1>2, <1>3, <1>4, <1>5, <1>6, <1>7, <1>8, <1>9, <1>10, <1>11,
       <1>12, <1>13, <1>14, <1>15, <1>16, <1>17, <1>18, <1>19, <1>20, <1>21,
       <1>22, <1>23, <1>24, <1>25, <1>26, <1>27, <1>28, <1>29, <1>30, <1>31,
       <1>32, <1>33, <1>34, <1>35, <1>36, <1>37, <1>38, <1>39,
       <1>40 DEF ServeNext, AcceptStep, VerifyStep, SyncStep, addOkayLoop, OkayStep,
       RecycleStep, Around


\* The calls into the outer containers stay paired with the states.
LEMMA OuterStep ==
    ASSUME ServeInv, ServeNext \/ UNCHANGED vars
    PROVE  (ContainerExact /\ UniqueHeld)'
  <1> USE DEF taskVars, outerVars, boxVars, okayVars, flowVars, callVars, acceptVars, finalVars
  <1>a. ContainerExact /\ UniqueHeld /\ TaskTypes
    BY DEF ServeInv, TypeOK
  <1>b. \A w \in Workers \ {Accepter} : todo[w] \subseteq tasks[Object(w)]
    BY DEF ServeInv, IteratorsValid
  <1>c. ASSUME NEW th \in Threads, NEW t \in tasks[th]
        PROVE  t \in live /\ state[t] = Stage(th)
    BY <1>c DEF ServeInv, NoneLost, Held, StateOfPlace, TypeOK, BoxTypes
  <1>d. pc[Syncer] \in {"size", "start"} =>
           hand[Syncer] \in live /\ state[hand[Syncer]] = "sync"
    <2>1. SUFFICES ASSUME pc[Syncer] \in {"size", "start"}
                   PROVE  hand[Syncer] \in live /\ state[hand[Syncer]] = "sync"
      OBVIOUS
    <2>2. Syncer \in Workers /\ hand[Syncer] # NoTask
      BY <2>1, RoleSets DEF ServeInv, HandFull, HandLabels
    <2>3. hand[Syncer] \in Tasks /\ Held(hand[Syncer])
      BY <2>2 DEF ServeInv, TypeOK, BoxTypes, Held
    <2>4. hand[Syncer] \in live
      BY <2>3 DEF ServeInv, NoneLost
    <2>5. state[hand[Syncer]] = "sync"
      BY <2>1, <2>2 DEF ServeInv, StateOfPlace, StageInHand
    <2> QED BY <2>4, <2>5
  <1>e. UNCHANGED <<live, state, verified, container, unique>> =>
           (ContainerExact /\ UniqueHeld)'
    BY <1>a DEF ContainerExact, UniqueHeld
  <1>1. ASSUME NEW t \in Tasks, NEW garbage \in BOOLEAN, newTCPTask(t,
       garbage) PROVE (ContainerExact /\ UniqueHeld)'
    <2>1. t \notin live /\ state[t] = "notuse"
      BY <1>1 DEF newTCPTask, ServeInv, StateOfPlace
    <2> QED
      BY <1>1, <1>a, <2>1 DEF newTCPTask, getNextState, NextState, ContainerExact, UniqueHeld, TaskTypes, Flags
  <1>2. ASSUME addVerify PROVE (ContainerExact /\ UniqueHeld)'
    BY <1>2, <1>e DEF addVerify
  <1>3. ASSUME epollAdd PROVE (ContainerExact /\ UniqueHeld)'
    BY <1>3, <1>e DEF epollAdd
  <1>4. ASSUME NEW i \in 1..NVerify,
       VerifyCheck(i) PROVE (ContainerExact /\ UniqueHeld)'
    BY <1>4, <1>e DEF VerifyCheck
  <1>5. ASSUME NEW i \in 1..NVerify, NEW t \in Tasks, VerifyTimeout(i,
       t) PROVE (ContainerExact /\ UniqueHeld)'
    <2>1. t \in tasks[V(i)]
      BY <1>5, <1>b, WorkerFacts DEF VerifyTimeout
    <2>2. t \in live /\ state[t] = "verify"
      BY <1>c, <2>1, ThreadFacts
    <2>3. UNCHANGED <<live, verified, unique>>
      BY <1>5 DEF VerifyTimeout, VerifyFrame
    <2>4. CASE late[t]
      <3>1. state' = [state EXCEPT ![t] = "recycle"] /\ container' = container
        BY <1>5, <2>4 DEF VerifyTimeout, resetState
      <3> QED BY <1>a, <2>2, <2>3, <3>1 DEF ContainerExact, UniqueHeld, TaskTypes
    <2>5. CASE ~late[t]
      BY <1>5, <1>e, <2>3, <2>5 DEF VerifyTimeout
    <2> QED BY <2>4, <2>5
  <1>6. ASSUME NEW i \in 1..NVerify,
       VerifySecondPass(i) PROVE (ContainerExact /\ UniqueHeld)'
    BY <1>6, <1>e DEF VerifySecondPass
  <1>7. ASSUME NEW i \in 1..NVerify, NEW t \in Tasks, VerifyFail(i,
       t) PROVE (ContainerExact /\ UniqueHeld)'
    <2>1. t \in tasks[V(i)]
      BY <1>7, <1>b, WorkerFacts DEF VerifyFail
    <2>2. t \in live /\ state[t] = "verify"
      BY <1>c, <2>1, ThreadFacts
    <2> QED
      BY <1>7, <1>a, <2>2 DEF VerifyFail, resetState, ContainerExact, UniqueHeld, TaskTypes, Flags
  <1>8. ASSUME NEW i \in 1..NVerify, NEW t \in Tasks, VerifyPass(i,
       t) PROVE (ContainerExact /\ UniqueHeld)'
    <2>1. t \in tasks[V(i)]
      BY <1>8, <1>b, WorkerFacts DEF VerifyPass
    <2>2. t \in live /\ state[t] = "verify"
      BY <1>c, <2>1, ThreadFacts
    <2> QED
      BY <1>8, <1>a, <2>2 DEF VerifyPass, getNextState, NextState, ContainerExact, UniqueHeld, TaskTypes, Flags
  <1>9. ASSUME NEW i \in 1..NVerify, NEW t \in Tasks, VerifyWait(i,
       t) PROVE (ContainerExact /\ UniqueHeld)'
    BY <1>9, <1>e DEF VerifyWait
  <1>10. ASSUME NEW i \in 1..NVerify,
       addSync(i) PROVE (ContainerExact /\ UniqueHeld)'
    BY <1>10, <1>e DEF addSync
  <1>11. ASSUME NEW i \in 1..NVerify, addRecycle(Verifier(i), "drop timeouts",
       "timeouts") PROVE (ContainerExact /\ UniqueHeld)'
    BY <1>11, <1>e DEF addRecycle
  <1>12. ASSUME NEW i \in 1..NVerify, addRecycle(Verifier(i), "drop receive",
       "receive") PROVE (ContainerExact /\ UniqueHeld)'
    BY <1>12, <1>e DEF addRecycle
  <1>13. ASSUME SyncCheck PROVE (ContainerExact /\ UniqueHeld)'
    BY <1>13, <1>e DEF SyncCheck
  <1>14. ASSUME NEW t \in Tasks,
       SyncAgreed(t) PROVE (ContainerExact /\ UniqueHeld)'
    BY <1>14, <1>e DEF SyncAgreed
  <1>15. ASSUME NEW t \in Tasks,
       SyncWait(t) PROVE (ContainerExact /\ UniqueHeld)'
    BY <1>15, <1>e DEF SyncWait
  <1>16. ASSUME NEW t \in Tasks,
       SyncRefused(t) PROVE (ContainerExact /\ UniqueHeld)'
    <2>1. t \in tasks[S]
      BY <1>16, <1>b, WorkerFacts DEF SyncRefused
    <2>2. t \in live /\ state[t] = "sync"
      BY <1>c, <2>1, ThreadFacts
    <2> QED
      BY <1>16, <1>a, <2>2 DEF SyncRefused, resetState, ContainerExact, UniqueHeld, TaskTypes, Flags
  <1>17. ASSUME addOkayScan \/ addOkayCompare PROVE (ContainerExact /\ UniqueHeld)'
    BY <1>17, <1>e, Choosing
  <1>18. ASSUME addOkayCount PROVE (ContainerExact /\ UniqueHeld)'
    BY <1>18, <1>e DEF addOkayCount
  <1>19. ASSUME addOkaySize PROVE (ContainerExact /\ UniqueHeld)'
    BY <1>19, <1>a, <1>d DEF addOkaySize, getNextState, NextState, ContainerExact, UniqueHeld, TaskTypes
  <1>20. ASSUME NEW r \in 1..MaxRuns,
       addOkayStart(r) PROVE (ContainerExact /\ UniqueHeld)'
    BY <1>20, <1>a, <1>d DEF addOkayStart, getNextState, NextState, ContainerExact, UniqueHeld, TaskTypes
  <1>21. ASSUME addOkayFailed PROVE (ContainerExact /\ UniqueHeld)'
    BY <1>21, <1>a, <1>d DEF addOkayFailed, resetState, ContainerExact, UniqueHeld, TaskTypes
  <1>22. ASSUME addOkayAdd PROVE (ContainerExact /\ UniqueHeld)'
    BY <1>22, <1>e DEF addOkayAdd
  <1>23. ASSUME addRecycle(Syncer, "drop",
       "pass") PROVE (ContainerExact /\ UniqueHeld)'
    BY <1>23, <1>e DEF addRecycle
  <1>24. ASSUME NEW i \in 1..NOkay, NEW r \in 1..MaxRuns, OkayBoot(i,
       r) PROVE (ContainerExact /\ UniqueHeld)'
    BY <1>24, <1>e DEF OkayBoot
  <1>25. ASSUME NEW i \in 1..NOkay, NEW r \in 1..MaxRuns, OkayCheck(i,
       r) PROVE (ContainerExact /\ UniqueHeld)'
    BY <1>25, <1>e DEF OkayCheck
  <1>26. ASSUME NEW i \in 1..NOkay, NEW r \in 1..MaxRuns, NEW t \in Tasks,
       OkayAdd(i, r, t) PROVE (ContainerExact /\ UniqueHeld)'
    BY <1>26, <1>e DEF OkayAdd
  <1>27. ASSUME NEW i \in 1..NOkay, NEW r \in 1..MaxRuns, OkayClear(i,
       r) PROVE (ContainerExact /\ UniqueHeld)'
    BY <1>27, <1>e DEF OkayClear
  <1>28. ASSUME NEW i \in 1..NOkay, NEW r \in 1..MaxRuns, OkayLock(i,
       r) PROVE (ContainerExact /\ UniqueHeld)'
    BY <1>28, <1>e DEF OkayLock
  <1>29. ASSUME NEW i \in 1..NOkay, NEW r \in 1..MaxRuns, NEW t \in Tasks,
       OkayEnd(i, r, t) PROVE (ContainerExact /\ UniqueHeld)'
    <2>1. t \in tasks[O(i)]
      BY <1>29, <1>b, WorkerFacts DEF OkayEnd
    <2>2. t \in live /\ state[t] = "okay"
      BY <1>c, <2>1, ThreadFacts
    <2> QED
      BY <1>29, <1>a, <2>2 DEF OkayEnd, getNextState, NextState, ContainerExact, UniqueHeld, TaskTypes, Flags
  <1>30. ASSUME NEW i \in 1..NOkay, NEW r \in 1..MaxRuns, NEW t \in Tasks,
       OkayKeep(i, r, t) PROVE (ContainerExact /\ UniqueHeld)'
    BY <1>30, <1>e DEF OkayKeep
  <1>31. ASSUME NEW i \in 1..NOkay, NEW r \in 1..MaxRuns, OkayUnlock(i,
       r) PROVE (ContainerExact /\ UniqueHeld)'
    BY <1>31, <1>e DEF OkayUnlock
  <1>32. ASSUME NEW i \in 1..NOkay, NEW r \in 1..MaxRuns, OkayPoll(i,
       r) PROVE (ContainerExact /\ UniqueHeld)'
    BY <1>32, <1>e DEF OkayPoll
  <1>33. ASSUME NEW i \in 1..NOkay, NEW r \in 1..MaxRuns, addRecycle(Okayer(i,
       r), "drop", "pass") PROVE (ContainerExact /\ UniqueHeld)'
    BY <1>33, <1>e DEF addRecycle
  <1>34. ASSUME RecycleCheck PROVE (ContainerExact /\ UniqueHeld)'
    BY <1>34, <1>e DEF RecycleCheck
  <1>35. ASSUME NEW t \in Tasks,
       RecycleDelete(t) PROVE (ContainerExact /\ UniqueHeld)'
    <2>1. t \in tasks[R]
      BY <1>35, <1>b, WorkerFacts DEF RecycleDelete
    <2>2. t \in live /\ state[t] = "recycle"
      BY <1>c, <2>1, ThreadFacts
    <2> QED
      BY <1>35, <1>a, <2>2 DEF RecycleDelete, Destroy, Free, getNextState, NextState, ContainerExact, UniqueHeld, TaskTypes, Flags
  <1>36. ASSUME NEW t \in Tasks,
       RecycleWait(t) PROVE (ContainerExact /\ UniqueHeld)'
    BY <1>36, <1>e DEF RecycleWait
  <1>37. ASSUME NEW t \in Tasks,
       Disconnect(t) PROVE (ContainerExact /\ UniqueHeld)'
    BY <1>37, <1>e DEF Disconnect
  <1>38. ASSUME NEW t \in Tasks,
       Deadline(t) PROVE (ContainerExact /\ UniqueHeld)'
    BY <1>38, <1>e DEF Deadline
  <1>39. ASSUME NEW t \in Tasks,
       Terminate(t) PROVE (ContainerExact /\ UniqueHeld)'
    BY <1>39, <1>e DEF Terminate
  <1>40. ASSUME UNCHANGED vars PROVE (ContainerExact /\ UniqueHeld)'
    BY <1>40, <1>e DEF vars
  <1> QED
    BY <1>1, <1>2, <1>3, <1>4, <1>5, <1>6, <1>7, <1>8, <1>9, <1>10, <1>11,
       <1>12, <1>13, <1>14, <1>15, <1>16, <1>17, <1>18, <1>19, <1>20, <1>21,
       <1>22, <1>23, <1>24, <1>25, <1>26, <1>27, <1>28, <1>29, <1>30, <1>31,
       <1>32, <1>33, <1>34, <1>35, <1>36, <1>37, <1>38, <1>39,
       <1>40 DEF ServeNext, AcceptStep, VerifyStep, SyncStep, addOkayLoop, OkayStep,
       RecycleStep, Around


\* No okay run drains its vector while another run of the thread is at work on it.
Alone == \A i \in 1..NOkay : ~Racing(i)

\* No worker has left its loop.
Serving == \A w \in Workers : pc[w] \notin DrainLabels

\* No step invalidates the pass of another worker.
LEMMA IteratorsStep ==
    ASSUME ServeInv, Alone', ServeNext \/ UNCHANGED vars
    PROVE  IteratorsValid'
  <1> USE DEF taskVars, outerVars, boxVars, okayVars, flowVars, callVars, acceptVars, finalVars
  <1>a. TypeOK /\ IteratorsValid
    BY DEF ServeInv
  <1>b. UNCHANGED <<todo, tasks, hand>> => IteratorsValid'
    BY <1>a DEF IteratorsValid
  <1>c. UNCHANGED <<todo, tasks>> /\ (\E w \in Workers : hand' = [hand EXCEPT ![w] = NoTask])
           => IteratorsValid'
    BY <1>a, PassShrinks DEF TypeOK, BoxTypes
  <1>d. \A w \in Workers, t \in Tasks : Visited(w, t) /\ UNCHANGED <<tasks, hand>>
           => IteratorsValid'
    BY <1>a, PassShrinks DEF Visited, TypeOK, BoxTypes
  <1>e. \A w \in Workers \ {Accepter} : \A t \in todo[w] :
           Visited(w, t) /\ Take(w, Object(w), t) => IteratorsValid'
    BY <1>a, PassTakes DEF Take, TypeOK, BoxTypes
  <1>f. ASSUME NEW w \in Workers \ ({Accepter} \cup Okayers), todo[w] = {},
               check_queue(w, Object(w)), hand' = hand, pc[w] \notin HandLabels
        PROVE  IteratorsValid'
    <2>1. \A u \in Workers : ~(u # w /\ Object(u) = Object(w))
      BY SameObject, RoleSets
    <2>2. Object(w) \in Threads
      BY RoleSets, WorkerFacts, ThreadFacts DEF Workers, Verifiers
    <2>3. /\ todo' = [todo EXCEPT ![w] = tasks[Object(w)] \cup queue[Object(w)]]
          /\ tasks' = [tasks EXCEPT ![Object(w)] = @ \cup queue[Object(w)]]
      BY <1>f DEF check_queue
    <2>4. \A th \in Threads : tasks[th] \subseteq tasks'[th]
      BY <1>a, <2>3 DEF TypeOK, BoxTypes
    <2>5. tasks[Object(w)] \cup queue[Object(w)] \subseteq tasks'[Object(w)]
      BY <1>a, <2>2, <2>3 DEF TypeOK, BoxTypes
    <2>6. hand[w] = NoTask
      BY <1>f DEF ServeInv, HandFull
    <2> QED BY <1>a, <1>f, <2>1, <2>3, <2>4, <2>5, <2>6, PassBegins
  <1>1. ASSUME NEW t \in Tasks, NEW garbage \in BOOLEAN, newTCPTask(t,
       garbage) PROVE IteratorsValid'
    <2>1. \A w \in Workers \ {Accepter} : hand'[w] = hand[w]
      BY <1>1, <1>a DEF newTCPTask, TypeOK, BoxTypes
    <2>2. UNCHANGED <<todo, tasks>>
      BY <1>1 DEF newTCPTask
    <2> QED BY <1>a, <2>1, <2>2, PassShrinks
  <1>2. ASSUME addVerify PROVE IteratorsValid'
    BY <1>2, <1>c, RoleSets DEF addVerify, Add
  <1>3. ASSUME epollAdd PROVE IteratorsValid'
    BY <1>3, <1>b DEF epollAdd
  <1>4. ASSUME NEW i \in 1..NVerify, VerifyCheck(i) PROVE IteratorsValid'
    <2>w. Verifier(i) \in Workers \ ({Accepter} \cup Okayers) /\ Object(Verifier(i)) = V(i)
      BY WorkerFacts
    <2>1. todo[Verifier(i)] = {} /\ check_queue(Verifier(i), V(i)) /\ hand' = hand
      BY <1>4 DEF VerifyCheck
    <2>2. pc[Verifier(i)] \notin HandLabels
      BY <1>4 DEF VerifyCheck, HandLabels
    <2> QED BY <1>f, <2>w, <2>1, <2>2
  <1>5. ASSUME NEW i \in 1..NVerify, NEW t \in Tasks, VerifyTimeout(i,
       t) PROVE IteratorsValid'
    <2>w. Verifier(i) \in Workers /\ Verifier(i) # Accepter /\ Object(Verifier(i)) = V(i)
      BY WorkerFacts
    <2> QED BY <1>5, <1>d, <1>e, <2>w DEF VerifyTimeout
  <1>6. ASSUME NEW i \in 1..NVerify, VerifySecondPass(i) PROVE IteratorsValid'
    <2>w. /\ Verifier(i) \in Workers \ ({Accepter} \cup Okayers)
          /\ Object(Verifier(i)) = V(i)
      BY WorkerFacts
    <2>1. \A u \in Workers : ~(u # Verifier(i) /\ Object(u) = V(i))
      BY <2>w, SameObject, RoleSets
    <2>2. hand[Verifier(i)] = NoTask
      BY <1>6, <2>w DEF VerifySecondPass, ServeInv, HandFull, HandLabels
    <2>3. todo' = [todo EXCEPT ![Verifier(i)] = tasks[V(i)]] /\ UNCHANGED <<tasks, hand>>
      BY <1>6 DEF VerifySecondPass
    <2> QED BY <1>a, <2>w, <2>1, <2>2, <2>3, PassBegins
  <1>7. ASSUME NEW i \in 1..NVerify, NEW t \in Tasks, VerifyFail(i,
       t) PROVE IteratorsValid'
    <2>w. Verifier(i) \in Workers /\ Verifier(i) # Accepter /\ Object(Verifier(i)) = V(i)
      BY WorkerFacts
    <2> QED BY <1>7, <1>e, <2>w DEF VerifyFail
  <1>8. ASSUME NEW i \in 1..NVerify, NEW t \in Tasks, VerifyPass(i,
       t) PROVE IteratorsValid'
    <2>w. Verifier(i) \in Workers /\ Verifier(i) # Accepter /\ Object(Verifier(i)) = V(i)
      BY WorkerFacts
    <2> QED BY <1>8, <1>e, <2>w DEF VerifyPass
  <1>9. ASSUME NEW i \in 1..NVerify, NEW t \in Tasks, VerifyWait(i,
       t) PROVE IteratorsValid'
    BY <1>9, <1>d, WorkerFacts DEF VerifyWait
  <1>10. ASSUME NEW i \in 1..NVerify, addSync(i) PROVE IteratorsValid'
    BY <1>10, <1>c, RoleSets DEF addSync, Add
  <1>11. ASSUME NEW i \in 1..NVerify, addRecycle(Verifier(i), "drop timeouts",
       "timeouts") PROVE IteratorsValid'
    BY <1>11, <1>c, RoleSets DEF addRecycle, Add
  <1>12. ASSUME NEW i \in 1..NVerify, addRecycle(Verifier(i), "drop receive",
       "receive") PROVE IteratorsValid'
    BY <1>12, <1>c, RoleSets DEF addRecycle, Add
  <1>13. ASSUME SyncCheck PROVE IteratorsValid'
    <2>w. Syncer \in Workers \ ({Accepter} \cup Okayers) /\ Object(Syncer) = S
      BY WorkerFacts
    <2>1. todo[Syncer] = {} /\ check_queue(Syncer, S) /\ hand' = hand
      BY <1>13 DEF SyncCheck
    <2>2. pc[Syncer] \notin HandLabels
      BY <1>13 DEF SyncCheck, HandLabels
    <2> QED BY <1>f, <2>w, <2>1, <2>2
  <1>14. ASSUME NEW t \in Tasks, SyncAgreed(t) PROVE IteratorsValid'
    <2>w. Syncer \in Workers /\ Syncer # Accepter /\ Object(Syncer) = S
      BY WorkerFacts
    <2> QED BY <1>14, <1>e, <2>w DEF SyncAgreed
  <1>15. ASSUME NEW t \in Tasks, SyncWait(t) PROVE IteratorsValid'
    BY <1>15, <1>d, WorkerFacts DEF SyncWait
  <1>16. ASSUME NEW t \in Tasks, SyncRefused(t) PROVE IteratorsValid'
    <2>w. Syncer \in Workers /\ Syncer # Accepter /\ Object(Syncer) = S
      BY WorkerFacts
    <2> QED BY <1>16, <1>e, <2>w DEF SyncRefused
  <1>17. ASSUME addOkayScan \/ addOkayCompare PROVE IteratorsValid'
    BY <1>17, <1>b, Choosing
  <1>18. ASSUME addOkayCount PROVE IteratorsValid'
    BY <1>18, <1>b DEF addOkayCount
  <1>19. ASSUME addOkaySize PROVE IteratorsValid'
    BY <1>19, <1>b DEF addOkaySize
  <1>20. ASSUME NEW r \in 1..MaxRuns, addOkayStart(r) PROVE IteratorsValid'
    BY <1>20, <1>b DEF addOkayStart
  <1>21. ASSUME addOkayFailed PROVE IteratorsValid'
    BY <1>21, <1>b DEF addOkayFailed
  <1>22. ASSUME addOkayAdd PROVE IteratorsValid'
    BY <1>22, <1>c, RoleSets DEF addOkayAdd, Add
  <1>23. ASSUME addRecycle(Syncer, "drop", "pass") PROVE IteratorsValid'
    BY <1>23, <1>c, RoleSets DEF addRecycle, Add
  <1>24. ASSUME NEW i \in 1..NOkay, NEW r \in 1..MaxRuns, OkayBoot(i,
       r) PROVE IteratorsValid'
    BY <1>24, <1>b DEF OkayBoot
  <1>25. ASSUME NEW i \in 1..NOkay, NEW r \in 1..MaxRuns, OkayCheck(i,
       r) PROVE IteratorsValid'
    BY <1>25, <1>b DEF OkayCheck
  <1>26. ASSUME NEW i \in 1..NOkay, NEW r \in 1..MaxRuns, NEW t \in Tasks,
       OkayAdd(i, r, t) PROVE IteratorsValid'
    BY <1>26, <1>a, PassShrinks DEF OkayAdd, TypeOK, BoxTypes
  <1>27. ASSUME NEW i \in 1..NOkay, NEW r \in 1..MaxRuns, OkayClear(i,
       r) PROVE IteratorsValid'
    BY <1>27, <1>b DEF OkayClear
  <1>28. ASSUME NEW i \in 1..NOkay, NEW r \in 1..MaxRuns, OkayLock(i,
       r) PROVE IteratorsValid'
    <2>w. /\ Okayer(i, r) \in Workers \ {Accepter}
          /\ Object(Okayer(i, r)) = O(i)
      BY WorkerFacts
    <2>1. todo' = [todo EXCEPT ![Okayer(i, r)] = tasks[O(i)]] /\ UNCHANGED <<tasks, hand>>
      BY <1>28 DEF OkayLock
    <2>2. CASE tasks[O(i)] = {}
      BY <1>a, <2>1, <2>2, PassShrinks DEF TypeOK, BoxTypes
    <2>3. CASE tasks[O(i)] # {}
      <3>1. ASSUME NEW u \in Workers, u # Okayer(i, r), Object(u) = O(i)
            PROVE  todo[u] = {} /\ hand[u] = NoTask
        <4>1. PICK q \in 1..MaxRuns : u = Okayer(i, q)
          BY <2>w, <3>1, SameObject, WorkerFacts
        <4>2. todo[u] = {} /\ pc[u] \notin {"pass", "drop"}
          <5>1. mlock[i] # q
            BY <1>28, Sizes DEF OkayLock
          <5> QED BY <4>1, <5>1 DEF ServeInv, PassLocked
        <4>3. pc[u] # "drop drain"
          <5>1. r # q /\ pc'[Okayer(i, r)] = "pass" /\ pc'[u] = pc[u] /\ tasks'[O(i)] # {}
            BY <1>28, <1>a, <2>w, <2>1, <2>3, <3>1, <4>1 DEF OkayLock, Goto, TypeOK, LabelTypes
          <5> QED BY <4>1, <5>1 DEF Alone, Racing
        <4>4. u \in Okayers /\ u \in Workers
          BY <4>1, RoleSets
        <4> QED
          BY <4>2, <4>3, <4>4 DEF ServeInv, RoleLabels, HandFull, DrainLabels, HandLabels
      <3>2. hand[Okayer(i, r)] = NoTask
        BY <1>28, <2>w DEF OkayLock, ServeInv, HandFull, HandLabels
      <3> QED BY <1>a, <2>w, <2>1, <3>1, <3>2, PassBegins
    <2> QED BY <2>2, <2>3
  <1>29. ASSUME NEW i \in 1..NOkay, NEW r \in 1..MaxRuns, NEW t \in Tasks,
       OkayEnd(i, r, t) PROVE IteratorsValid'
    <2>w. Okayer(i, r) \in Workers /\ Okayer(i, r) # Accepter /\ Object(Okayer(i, r)) = O(i)
      BY WorkerFacts
    <2> QED BY <1>29, <1>e, <2>w DEF OkayEnd
  <1>30. ASSUME NEW i \in 1..NOkay, NEW r \in 1..MaxRuns, NEW t \in Tasks,
       OkayKeep(i, r, t) PROVE IteratorsValid'
    BY <1>30, <1>d, WorkerFacts DEF OkayKeep
  <1>31. ASSUME NEW i \in 1..NOkay, NEW r \in 1..MaxRuns, OkayUnlock(i,
       r) PROVE IteratorsValid'
    BY <1>31, <1>b DEF OkayUnlock
  <1>32. ASSUME NEW i \in 1..NOkay, NEW r \in 1..MaxRuns, OkayPoll(i,
       r) PROVE IteratorsValid'
    BY <1>32, <1>b DEF OkayPoll
  <1>33. ASSUME NEW i \in 1..NOkay, NEW r \in 1..MaxRuns, addRecycle(Okayer(i,
       r), "drop", "pass") PROVE IteratorsValid'
    BY <1>33, <1>c, RoleSets DEF addRecycle, Add
  <1>34. ASSUME RecycleCheck PROVE IteratorsValid'
    <2>w. Recycler \in Workers \ ({Accepter} \cup Okayers) /\ Object(Recycler) = R
      BY WorkerFacts
    <2>1. todo[Recycler] = {} /\ check_queue(Recycler, R) /\ hand' = hand
      BY <1>34 DEF RecycleCheck
    <2>2. pc[Recycler] \notin HandLabels
      BY <1>34 DEF RecycleCheck, HandLabels
    <2> QED BY <1>f, <2>w, <2>1, <2>2
  <1>35. ASSUME NEW t \in Tasks, RecycleDelete(t) PROVE IteratorsValid'
    <2>w. Recycler \in Workers \ {Accepter} /\ Object(Recycler) = R
      BY WorkerFacts
    <2>1. /\ t \in todo[Recycler] /\ Visited(Recycler, t) /\ hand' = hand
          /\ tasks' = [tasks EXCEPT ![R] = @ \ {t}]
      BY <1>35, Zenon DEF RecycleDelete, Destroy
    <2> QED BY <1>a, <2>w, <2>1, PassTakes
  <1>36. ASSUME NEW t \in Tasks, RecycleWait(t) PROVE IteratorsValid'
    BY <1>36, <1>d, WorkerFacts DEF RecycleWait
  <1>37. ASSUME NEW t \in Tasks, Disconnect(t) PROVE IteratorsValid'
    BY <1>37, <1>b DEF Disconnect
  <1>38. ASSUME NEW t \in Tasks, Deadline(t) PROVE IteratorsValid'
    BY <1>38, <1>b DEF Deadline
  <1>39. ASSUME NEW t \in Tasks, Terminate(t) PROVE IteratorsValid'
    BY <1>39, <1>b DEF Terminate
  <1>40. ASSUME UNCHANGED vars PROVE IteratorsValid'
    BY <1>40, <1>b DEF vars
  <1> QED
    BY <1>1, <1>2, <1>3, <1>4, <1>5, <1>6, <1>7, <1>8, <1>9, <1>10, <1>11,
       <1>12, <1>13, <1>14, <1>15, <1>16, <1>17, <1>18, <1>19, <1>20, <1>21,
       <1>22, <1>23, <1>24, <1>25, <1>26, <1>27, <1>28, <1>29, <1>30, <1>31,
       <1>32, <1>33, <1>34, <1>35, <1>36, <1>37, <1>38, <1>39,
       <1>40 DEF ServeNext, AcceptStep, VerifyStep, SyncStep, addOkayLoop, OkayStep,
       RecycleStep, Around


\* m_Lock is held exactly by the run that is in its first pass.
LEMMA PassLockedStep ==
    ASSUME ServeInv, ServeNext \/ UNCHANGED vars
    PROVE  PassLocked'
  <1> USE DEF taskVars, outerVars, boxVars, okayVars, flowVars, callVars, acceptVars, finalVars
  <1>a. PassLocked /\ TypeOK
    BY DEF ServeInv
  <1>b. ASSUME \A i \in 1..NOkay, r \in 1..MaxRuns :
                  /\ pc'[Okayer(i, r)] = pc[Okayer(i, r)]
                  /\ todo'[Okayer(i, r)] = todo[Okayer(i, r)],
               mlock' = mlock
        PROVE  PassLocked'
    BY <1>a, <1>b DEF PassLocked
  <1>c. UNCHANGED <<pc, todo, mlock>> => PassLocked'
    BY <1>b
  <1>d. ASSUME NEW w \in Workers \ Okayers, \A u \in Workers \ {w} : pc'[u] = pc[u],
               \A u \in Workers \ {w} : todo'[u] = todo[u], mlock' = mlock
        PROVE  PassLocked'
    BY <1>b, <1>d, RoleSets
  <1>e. \A w \in Workers : \A label : Goto(w, label) => \A u \in Workers \ {w} : pc'[u] = pc[u]
    BY <1>a DEF Goto, TypeOK, LabelTypes
  <1>f. \A w \in Workers : \A t : Visited(w, t) => \A u \in Workers \ {w} : todo'[u] = todo[u]
    BY <1>a DEF Visited, TypeOK, BoxTypes
  <1>g. \A w \in Workers : \A th : check_queue(w, th) =>
           \A u \in Workers \ {w} : todo'[u] = todo[u]
    BY <1>a DEF check_queue, TypeOK, BoxTypes
  <1>h. ASSUME NEW i \in 1..NOkay, NEW r \in 1..MaxRuns, NEW label,
               Goto(Okayer(i, r), label), mlock' = mlock,
               \A u \in Workers \ {Okayer(i, r)} : todo'[u] = todo[u],
               todo'[Okayer(i, r)] \subseteq todo[Okayer(i, r)],
               pc[Okayer(i, r)] \in {"pass", "drop"} <=> label \in {"pass", "drop"}
        PROVE  PassLocked'
    <2>1. Okayer(i, r) \in Workers
      BY RoleSets
    <2>2. pc'[Okayer(i, r)] = label /\ \A u \in Workers \ {Okayer(i, r)} : pc'[u] = pc[u]
      BY <1>a, <1>e, <1>h, <2>1 DEF Goto, TypeOK, LabelTypes
    <2>3. ASSUME NEW j \in 1..NOkay, NEW q \in 1..MaxRuns
          PROVE  /\ pc'[Okayer(j, q)] \in {"pass", "drop"} <=> mlock'[j] = q
                 /\ todo'[Okayer(j, q)] # {} => mlock'[j] = q
      <3>1. CASE Okayer(j, q) = Okayer(i, r)
        BY <1>a, <1>h, <2>2, <3>1, WorkerFacts DEF PassLocked
      <3>2. CASE Okayer(j, q) # Okayer(i, r)
        BY <1>a, <1>h, <2>2, <3>2, RoleSets DEF PassLocked
      <3> QED BY <3>1, <3>2
    <2> QED BY <2>3 DEF PassLocked
  <1>1. ASSUME NEW t \in Tasks, NEW garbage \in BOOLEAN, newTCPTask(t,
       garbage) PROVE PassLocked'
    <2>w. Accepter \in Workers \ Okayers
      BY RoleSets
    <2>1. \A u \in Workers \ {Accepter} : pc'[u] = pc[u] /\ todo'[u] = todo[u]
      BY <1>1, <1>e, <1>f, <1>g, <2>w DEF newTCPTask
    <2>2. mlock' = mlock
      BY <1>1 DEF newTCPTask
    <2> QED BY <1>d, <2>w, <2>1, <2>2
  <1>2. ASSUME addVerify PROVE PassLocked'
    <2>w. Accepter \in Workers \ Okayers
      BY RoleSets
    <2>1. \A u \in Workers \ {Accepter} : pc'[u] = pc[u] /\ todo'[u] = todo[u]
      BY <1>2, <1>e, <1>f, <1>g, <2>w DEF addVerify
    <2>2. mlock' = mlock
      BY <1>2 DEF addVerify
    <2> QED BY <1>d, <2>w, <2>1, <2>2
  <1>3. ASSUME epollAdd PROVE PassLocked'
    <2>w. Accepter \in Workers \ Okayers
      BY RoleSets
    <2>1. \A u \in Workers \ {Accepter} : pc'[u] = pc[u] /\ todo'[u] = todo[u]
      BY <1>3, <1>e, <1>f, <1>g, <2>w DEF epollAdd
    <2>2. mlock' = mlock
      BY <1>3 DEF epollAdd
    <2> QED BY <1>d, <2>w, <2>1, <2>2
  <1>4. ASSUME NEW i \in 1..NVerify, VerifyCheck(i) PROVE PassLocked'
    <2>w. Verifier(i) \in Workers \ Okayers
      BY RoleSets
    <2>1. \A u \in Workers \ {Verifier(i)} : pc'[u] = pc[u] /\ todo'[u] = todo[u]
      BY <1>4, <1>e, <1>f, <1>g, <2>w DEF VerifyCheck
    <2>2. mlock' = mlock
      BY <1>4 DEF VerifyCheck
    <2> QED BY <1>d, <2>w, <2>1, <2>2
  <1>5. ASSUME NEW i \in 1..NVerify, NEW t \in Tasks, VerifyTimeout(i,
       t) PROVE PassLocked'
    <2>w. Verifier(i) \in Workers \ Okayers
      BY RoleSets
    <2>1. \A u \in Workers \ {Verifier(i)} : pc'[u] = pc[u] /\ todo'[u] = todo[u]
      BY <1>5, <1>e, <1>f, <1>g, <2>w DEF VerifyTimeout
    <2>2. mlock' = mlock
      BY <1>5 DEF VerifyTimeout, VerifyFrame
    <2> QED BY <1>d, <2>w, <2>1, <2>2
  <1>6. ASSUME NEW i \in 1..NVerify, VerifySecondPass(i) PROVE PassLocked'
    <2>w. Verifier(i) \in Workers \ Okayers
      BY RoleSets
    <2>1. \A u \in Workers \ {Verifier(i)} : pc'[u] = pc[u] /\ todo'[u] = todo[u]
      BY <1>6, <1>e, <1>f, <1>a, <2>w DEF VerifySecondPass, TypeOK, BoxTypes
    <2>2. mlock' = mlock
      BY <1>6 DEF VerifySecondPass
    <2> QED BY <1>d, <2>w, <2>1, <2>2
  <1>7. ASSUME NEW i \in 1..NVerify, NEW t \in Tasks, VerifyFail(i,
       t) PROVE PassLocked'
    <2>w. Verifier(i) \in Workers \ Okayers
      BY RoleSets
    <2>1. \A u \in Workers \ {Verifier(i)} : pc'[u] = pc[u] /\ todo'[u] = todo[u]
      BY <1>7, <1>e, <1>f, <1>g, <2>w DEF VerifyFail
    <2>2. mlock' = mlock
      BY <1>7 DEF VerifyFail, VerifyFrame
    <2> QED BY <1>d, <2>w, <2>1, <2>2
  <1>8. ASSUME NEW i \in 1..NVerify, NEW t \in Tasks, VerifyPass(i,
       t) PROVE PassLocked'
    <2>w. Verifier(i) \in Workers \ Okayers
      BY RoleSets
    <2>1. \A u \in Workers \ {Verifier(i)} : pc'[u] = pc[u] /\ todo'[u] = todo[u]
      BY <1>8, <1>e, <1>f, <1>g, <2>w DEF VerifyPass
    <2>2. mlock' = mlock
      BY <1>8 DEF VerifyPass, VerifyFrame
    <2> QED BY <1>d, <2>w, <2>1, <2>2
  <1>9. ASSUME NEW i \in 1..NVerify, NEW t \in Tasks, VerifyWait(i,
       t) PROVE PassLocked'
    <2>w. Verifier(i) \in Workers \ Okayers
      BY RoleSets
    <2>1. \A u \in Workers \ {Verifier(i)} : pc'[u] = pc[u] /\ todo'[u] = todo[u]
      BY <1>9, <1>e, <1>f, <1>g, <2>w DEF VerifyWait
    <2>2. mlock' = mlock
      BY <1>9 DEF VerifyWait
    <2> QED BY <1>d, <2>w, <2>1, <2>2
  <1>10. ASSUME NEW i \in 1..NVerify, addSync(i) PROVE PassLocked'
    <2>w. Verifier(i) \in Workers \ Okayers
      BY RoleSets
    <2>1. \A u \in Workers \ {Verifier(i)} : pc'[u] = pc[u] /\ todo'[u] = todo[u]
      BY <1>10, <1>e, <1>f, <1>g, <2>w DEF addSync
    <2>2. mlock' = mlock
      BY <1>10 DEF addSync
    <2> QED BY <1>d, <2>w, <2>1, <2>2
  <1>11. ASSUME NEW i \in 1..NVerify, addRecycle(Verifier(i), "drop timeouts",
       "timeouts") PROVE PassLocked'
    <2>w. Verifier(i) \in Workers \ Okayers
      BY RoleSets
    <2>1. \A u \in Workers \ {Verifier(i)} : pc'[u] = pc[u] /\ todo'[u] = todo[u]
      BY <1>11, <1>e, <1>f, <1>g, <2>w DEF addRecycle
    <2>2. mlock' = mlock
      BY <1>11 DEF addRecycle
    <2> QED BY <1>d, <2>w, <2>1, <2>2
  <1>12. ASSUME NEW i \in 1..NVerify, addRecycle(Verifier(i), "drop receive",
       "receive") PROVE PassLocked'
    <2>w. Verifier(i) \in Workers \ Okayers
      BY RoleSets
    <2>1. \A u \in Workers \ {Verifier(i)} : pc'[u] = pc[u] /\ todo'[u] = todo[u]
      BY <1>12, <1>e, <1>f, <1>g, <2>w DEF addRecycle
    <2>2. mlock' = mlock
      BY <1>12 DEF addRecycle
    <2> QED BY <1>d, <2>w, <2>1, <2>2
  <1>13. ASSUME SyncCheck PROVE PassLocked'
    <2>w. Syncer \in Workers \ Okayers
      BY RoleSets
    <2>1. \A u \in Workers \ {Syncer} : pc'[u] = pc[u] /\ todo'[u] = todo[u]
      BY <1>13, <1>e, <1>f, <1>g, <2>w DEF SyncCheck
    <2>2. mlock' = mlock
      BY <1>13 DEF SyncCheck
    <2> QED BY <1>d, <2>w, <2>1, <2>2
  <1>14. ASSUME NEW t \in Tasks, SyncAgreed(t) PROVE PassLocked'
    <2>w. Syncer \in Workers \ Okayers
      BY RoleSets
    <2>1. \A u \in Workers \ {Syncer} : pc'[u] = pc[u] /\ todo'[u] = todo[u]
      BY <1>14, <1>e, <1>f, <1>g, <2>w DEF SyncAgreed
    <2>2. mlock' = mlock
      BY <1>14 DEF SyncAgreed
    <2> QED BY <1>d, <2>w, <2>1, <2>2
  <1>15. ASSUME NEW t \in Tasks, SyncWait(t) PROVE PassLocked'
    <2>w. Syncer \in Workers \ Okayers
      BY RoleSets
    <2>1. \A u \in Workers \ {Syncer} : pc'[u] = pc[u] /\ todo'[u] = todo[u]
      BY <1>15, <1>e, <1>f, <1>g, <2>w DEF SyncWait
    <2>2. mlock' = mlock
      BY <1>15 DEF SyncWait
    <2> QED BY <1>d, <2>w, <2>1, <2>2
  <1>16. ASSUME NEW t \in Tasks, SyncRefused(t) PROVE PassLocked'
    <2>w. Syncer \in Workers \ Okayers
      BY RoleSets
    <2>1. \A u \in Workers \ {Syncer} : pc'[u] = pc[u] /\ todo'[u] = todo[u]
      BY <1>16, <1>e, <1>f, <1>g, <2>w DEF SyncRefused
    <2>2. mlock' = mlock
      BY <1>16 DEF SyncRefused
    <2> QED BY <1>d, <2>w, <2>1, <2>2
  <1>17. ASSUME addOkayScan \/ addOkayCompare PROVE PassLocked'
    <2>w. Syncer \in Workers \ Okayers
      BY RoleSets
    <2>1. \A u \in Workers \ {Syncer} : pc'[u] = pc[u]
      BY <1>17, <1>e, <2>w, Choosing
    <2>2. UNCHANGED <<mlock, todo>>
      BY <1>17, Choosing
    <2> QED BY <1>d, <2>w, <2>1, <2>2
  <1>18. ASSUME addOkayCount PROVE PassLocked'
    <2>w. Syncer \in Workers \ Okayers
      BY RoleSets
    <2>1. \A u \in Workers \ {Syncer} : pc'[u] = pc[u] /\ todo'[u] = todo[u]
      BY <1>18, <1>e, <1>f, <1>g, <2>w DEF addOkayCount
    <2>2. mlock' = mlock
      BY <1>18 DEF addOkayCount
    <2> QED BY <1>d, <2>w, <2>1, <2>2
  <1>19. ASSUME addOkaySize PROVE PassLocked'
    <2>w. Syncer \in Workers \ Okayers
      BY RoleSets
    <2>1. \A u \in Workers \ {Syncer} : pc'[u] = pc[u] /\ todo'[u] = todo[u]
      BY <1>19, <1>e, <1>f, <1>g, <2>w DEF addOkaySize
    <2>2. mlock' = mlock
      BY <1>19 DEF addOkaySize
    <2> QED BY <1>d, <2>w, <2>1, <2>2
  <1>20. ASSUME NEW r \in 1..MaxRuns, addOkayStart(r) PROVE PassLocked'
    <2>1. nostart \in 1..NOkay /\ mlock' = mlock /\ todo' = todo
      BY <1>20, Sizes DEF addOkayStart, ServeInv, TypeOK, RestTypes
    <2>2. CASE alive[nostart]
      <3>1. Goto(Syncer, "addOkay")
        BY <1>20, <2>2 DEF addOkayStart, Goto
      <3> QED BY <1>d, <1>e, <2>1, <3>1, RoleSets
    <2>3. CASE ~alive[nostart]
      <3>1. /\ pc[Okayer(nostart, r)] = "off"
            /\ pc' = [pc EXCEPT ![Syncer] = "addOkay", ![Okayer(nostart, r)] = "boot"]
        BY <1>20, <2>3 DEF addOkayStart
      <3>2. ASSUME NEW j \in 1..NOkay, NEW q \in 1..MaxRuns
            PROVE  pc'[Okayer(j, q)] \in {"pass", "drop"} <=> pc[Okayer(j, q)] \in {"pass", "drop"}
        BY <1>a, <2>1, <3>1, RoleSets DEF TypeOK, LabelTypes
      <3> QED BY <1>a, <2>1, <3>2 DEF PassLocked
    <2> QED BY <2>2, <2>3
  <1>21. ASSUME addOkayFailed PROVE PassLocked'
    <2>w. Syncer \in Workers \ Okayers
      BY RoleSets
    <2>1. \A u \in Workers \ {Syncer} : pc'[u] = pc[u] /\ todo'[u] = todo[u]
      BY <1>21, <1>e, <1>f, <1>g, <2>w DEF addOkayFailed
    <2>2. mlock' = mlock
      BY <1>21 DEF addOkayFailed
    <2> QED BY <1>d, <2>w, <2>1, <2>2
  <1>22. ASSUME addOkayAdd PROVE PassLocked'
    <2>w. Syncer \in Workers \ Okayers
      BY RoleSets
    <2>1. \A u \in Workers \ {Syncer} : pc'[u] = pc[u] /\ todo'[u] = todo[u]
      BY <1>22, <1>e, <1>f, <1>g, <2>w DEF addOkayAdd
    <2>2. mlock' = mlock
      BY <1>22 DEF addOkayAdd
    <2> QED BY <1>d, <2>w, <2>1, <2>2
  <1>23. ASSUME addRecycle(Syncer, "drop", "pass") PROVE PassLocked'
    <2>w. Syncer \in Workers \ Okayers
      BY RoleSets
    <2>1. \A u \in Workers \ {Syncer} : pc'[u] = pc[u] /\ todo'[u] = todo[u]
      BY <1>23, <1>e, <1>f, <1>g, <2>w DEF addRecycle
    <2>2. mlock' = mlock
      BY <1>23 DEF addRecycle
    <2> QED BY <1>d, <2>w, <2>1, <2>2
  <1>24. ASSUME NEW i \in 1..NOkay, NEW r \in 1..MaxRuns, OkayBoot(i,
       r) PROVE PassLocked'
    <2>w. Okayer(i, r) \in Workers
      BY RoleSets
    <2>1. /\ Goto(Okayer(i, r), "check") /\ mlock' = mlock
          /\ pc[Okayer(i, r)] \in {"pass", "drop"} <=> "check" \in {"pass", "drop"}
      BY <1>24 DEF OkayBoot
    <2>2. /\ \A u \in Workers \ {Okayer(i, r)} : todo'[u] = todo[u]
          /\ todo'[Okayer(i, r)] \subseteq todo[Okayer(i, r)]
      BY <1>24, <2>w DEF OkayBoot
    <2> QED BY <1>h, <2>1, <2>2
  <1>25. ASSUME NEW i \in 1..NOkay, NEW r \in 1..MaxRuns, OkayCheck(i,
       r) PROVE PassLocked'
    <2>w. Okayer(i, r) \in Workers
      BY RoleSets
    <2>1. /\ Goto(Okayer(i, r), "move") /\ mlock' = mlock
          /\ pc[Okayer(i, r)] \in {"pass", "drop"} <=> "move" \in {"pass", "drop"}
      BY <1>25 DEF OkayCheck
    <2>2. /\ \A u \in Workers \ {Okayer(i, r)} : todo'[u] = todo[u]
          /\ todo'[Okayer(i, r)] \subseteq todo[Okayer(i, r)]
      BY <1>25, <2>w DEF OkayCheck
    <2> QED BY <1>h, <2>1, <2>2
  <1>26. ASSUME NEW i \in 1..NOkay, NEW r \in 1..MaxRuns, NEW t \in Tasks,
       OkayAdd(i, r, t) PROVE PassLocked'
    BY <1>26, <1>c DEF OkayAdd
  <1>27. ASSUME NEW i \in 1..NOkay, NEW r \in 1..MaxRuns, OkayClear(i,
       r) PROVE PassLocked'
    <2>w. Okayer(i, r) \in Workers
      BY RoleSets
    <2>1. /\ Goto(Okayer(i, r), "lock") /\ mlock' = mlock
          /\ pc[Okayer(i, r)] \in {"pass", "drop"} <=> "lock" \in {"pass", "drop"}
      BY <1>27 DEF OkayClear
    <2>2. /\ \A u \in Workers \ {Okayer(i, r)} : todo'[u] = todo[u]
          /\ todo'[Okayer(i, r)] \subseteq todo[Okayer(i, r)]
      BY <1>27, <2>w DEF OkayClear
    <2> QED BY <1>h, <2>1, <2>2
  <1>28. ASSUME NEW i \in 1..NOkay, NEW r \in 1..MaxRuns, OkayLock(i,
       r) PROVE PassLocked'
    <2>w. Okayer(i, r) \in Workers
      BY RoleSets
    <2>1. /\ pc'[Okayer(i, r)] = "pass"
          /\ \A u \in Workers \ {Okayer(i, r)} : pc'[u] = pc[u] /\ todo'[u] = todo[u]
      BY <1>28, <1>a, <2>w DEF OkayLock, Goto, TypeOK, LabelTypes, BoxTypes
    <2>2. mlock'[i] = r /\ \A j \in 1..NOkay \ {i} : mlock'[j] = mlock[j]
      BY <1>28, <1>a DEF OkayLock, TypeOK, CountTypes
    <2>3. mlock[i] = 0
      BY <1>28, <1>a, Sizes DEF OkayLock, PassLocked
    <2>4. ASSUME NEW j \in 1..NOkay, NEW q \in 1..MaxRuns
          PROVE  /\ pc'[Okayer(j, q)] \in {"pass", "drop"} <=> mlock'[j] = q
                 /\ todo'[Okayer(j, q)] # {} => mlock'[j] = q
      <3>1. CASE j = i /\ q = r
        BY <2>1, <2>2, <2>3, <3>1, Sizes
      <3>2. CASE j = i /\ q # r
        <4>1. pc[Okayer(j, q)] \notin {"pass", "drop"} /\ todo[Okayer(j, q)] = {}
          BY <1>a, <2>3, <3>2, Sizes DEF PassLocked
        <4>2. Okayer(j, q) \in Workers /\ Okayer(j, q) # Okayer(i, r)
          BY <3>2, WorkerFacts
        <4> QED BY <2>1, <2>2, <3>2, <4>1, <4>2, Sizes
      <3>3. CASE j # i
        <4>1. Okayer(j, q) \in Workers /\ Okayer(j, q) # Okayer(i, r)
          BY <3>3, WorkerFacts
        <4> QED BY <1>a, <2>1, <2>2, <3>3, <4>1 DEF PassLocked
      <3> QED BY <3>1, <3>2, <3>3
    <2> QED BY <2>4 DEF PassLocked
  <1>29. ASSUME NEW i \in 1..NOkay, NEW r \in 1..MaxRuns, NEW t \in Tasks,
       OkayEnd(i, r, t) PROVE PassLocked'
    <2>w. Okayer(i, r) \in Workers
      BY RoleSets
    <2>1. /\ Goto(Okayer(i, r), "drop") /\ mlock' = mlock
          /\ pc[Okayer(i, r)] \in {"pass", "drop"} <=> "drop" \in {"pass", "drop"}
      BY <1>29 DEF OkayEnd
    <2>2. /\ \A u \in Workers \ {Okayer(i, r)} : todo'[u] = todo[u]
          /\ todo'[Okayer(i, r)] \subseteq todo[Okayer(i, r)]
      BY <1>29, <1>a, <2>w DEF OkayEnd, Visited, TypeOK, BoxTypes
    <2> QED BY <1>h, <2>1, <2>2
  <1>30. ASSUME NEW i \in 1..NOkay, NEW r \in 1..MaxRuns, NEW t \in Tasks,
       OkayKeep(i, r, t) PROVE PassLocked'
    <2>1. \A j \in 1..NOkay, q \in 1..MaxRuns : todo'[Okayer(j, q)] \subseteq todo[Okayer(j, q)]
      BY <1>30, <1>a, RoleSets DEF OkayKeep, Visited, TypeOK, BoxTypes
    <2>2. pc' = pc /\ mlock' = mlock
      BY <1>30 DEF OkayKeep
    <2> QED BY <1>a, <2>1, <2>2 DEF PassLocked
  <1>31. ASSUME NEW i \in 1..NOkay, NEW r \in 1..MaxRuns, OkayUnlock(i,
       r) PROVE PassLocked'
    <2>w. Okayer(i, r) \in Workers
      BY RoleSets
    <2>1. /\ pc'[Okayer(i, r)] = "poll"
          /\ \A u \in Workers \ {Okayer(i, r)} : pc'[u] = pc[u] /\ todo'[u] = todo[u]
      BY <1>31, <1>a, <2>w DEF OkayUnlock, Goto, TypeOK, LabelTypes, BoxTypes
    <2>2. mlock'[i] = 0 /\ \A j \in 1..NOkay \ {i} : mlock'[j] = mlock[j]
      BY <1>31, <1>a DEF OkayUnlock, TypeOK, CountTypes
    <2>3. mlock[i] = r /\ todo'[Okayer(i, r)] = {}
      BY <1>31, <1>a, Sizes DEF OkayUnlock, PassLocked
    <2>4. ASSUME NEW j \in 1..NOkay, NEW q \in 1..MaxRuns
          PROVE  /\ pc'[Okayer(j, q)] \in {"pass", "drop"} <=> mlock'[j] = q
                 /\ todo'[Okayer(j, q)] # {} => mlock'[j] = q
      <3>1. CASE j = i /\ q = r
        BY <2>1, <2>2, <2>3, <3>1, Sizes
      <3>2. CASE j = i /\ q # r
        <4>1. pc[Okayer(j, q)] \notin {"pass", "drop"} /\ todo[Okayer(j, q)] = {}
          BY <1>a, <2>3, <3>2, Sizes DEF PassLocked
        <4>2. Okayer(j, q) \in Workers /\ Okayer(j, q) # Okayer(i, r)
          BY <3>2, WorkerFacts
        <4> QED BY <2>1, <2>2, <3>2, <4>1, <4>2, Sizes
      <3>3. CASE j # i
        <4>1. Okayer(j, q) \in Workers /\ Okayer(j, q) # Okayer(i, r)
          BY <3>3, WorkerFacts
        <4> QED BY <1>a, <2>1, <2>2, <3>3, <4>1 DEF PassLocked
      <3> QED BY <3>1, <3>2, <3>3
    <2> QED BY <2>4 DEF PassLocked
  <1>32. ASSUME NEW i \in 1..NOkay, NEW r \in 1..MaxRuns, OkayPoll(i,
       r) PROVE PassLocked'
    <2>w. Okayer(i, r) \in Workers
      BY RoleSets
    <2>1. /\ Goto(Okayer(i, r), "check") /\ mlock' = mlock
          /\ pc[Okayer(i, r)] \in {"pass", "drop"} <=> "check" \in {"pass", "drop"}
      BY <1>32 DEF OkayPoll
    <2>2. /\ \A u \in Workers \ {Okayer(i, r)} : todo'[u] = todo[u]
          /\ todo'[Okayer(i, r)] \subseteq todo[Okayer(i, r)]
      BY <1>32, <2>w DEF OkayPoll
    <2> QED BY <1>h, <2>1, <2>2
  <1>33. ASSUME NEW i \in 1..NOkay, NEW r \in 1..MaxRuns, addRecycle(Okayer(i,
       r), "drop", "pass") PROVE PassLocked'
    <2>w. Okayer(i, r) \in Workers
      BY RoleSets
    <2>1. /\ Goto(Okayer(i, r), "pass") /\ mlock' = mlock
          /\ pc[Okayer(i, r)] \in {"pass", "drop"} <=> "pass" \in {"pass", "drop"}
      BY <1>33 DEF addRecycle
    <2>2. /\ \A u \in Workers \ {Okayer(i, r)} : todo'[u] = todo[u]
          /\ todo'[Okayer(i, r)] \subseteq todo[Okayer(i, r)]
      BY <1>33, <2>w DEF addRecycle
    <2> QED BY <1>h, <2>1, <2>2
  <1>34. ASSUME RecycleCheck PROVE PassLocked'
    <2>w. Recycler \in Workers \ Okayers
      BY RoleSets
    <2>1. \A u \in Workers \ {Recycler} : pc'[u] = pc[u] /\ todo'[u] = todo[u]
      BY <1>34, <1>e, <1>f, <1>g, <2>w DEF RecycleCheck
    <2>2. mlock' = mlock
      BY <1>34 DEF RecycleCheck
    <2> QED BY <1>d, <2>w, <2>1, <2>2
  <1>35. ASSUME NEW t \in Tasks, RecycleDelete(t) PROVE PassLocked'
    <2>w. Recycler \in Workers \ Okayers
      BY RoleSets
    <2>1. \A u \in Workers \ {Recycler} : pc'[u] = pc[u] /\ todo'[u] = todo[u]
      BY <1>35, <1>e, <1>f, <1>g, <2>w DEF RecycleDelete
    <2>2. mlock' = mlock
      BY <1>35 DEF RecycleDelete, Destroy
    <2> QED BY <1>d, <2>w, <2>1, <2>2
  <1>36. ASSUME NEW t \in Tasks, RecycleWait(t) PROVE PassLocked'
    <2>w. Recycler \in Workers \ Okayers
      BY RoleSets
    <2>1. \A u \in Workers \ {Recycler} : pc'[u] = pc[u] /\ todo'[u] = todo[u]
      BY <1>36, <1>e, <1>f, <1>g, <2>w DEF RecycleWait
    <2>2. mlock' = mlock
      BY <1>36 DEF RecycleWait
    <2> QED BY <1>d, <2>w, <2>1, <2>2
  <1>37. ASSUME NEW t \in Tasks, Disconnect(t) PROVE PassLocked'
    BY <1>37, <1>c DEF Disconnect
  <1>38. ASSUME NEW t \in Tasks, Deadline(t) PROVE PassLocked'
    BY <1>38, <1>c DEF Deadline
  <1>39. ASSUME NEW t \in Tasks, Terminate(t) PROVE PassLocked'
    BY <1>39, <1>c DEF Terminate
  <1>40. ASSUME UNCHANGED vars PROVE PassLocked'
    BY <1>40, <1>c DEF vars
  <1> QED
    BY <1>1, <1>2, <1>3, <1>4, <1>5, <1>6, <1>7, <1>8, <1>9, <1>10, <1>11,
       <1>12, <1>13, <1>14, <1>15, <1>16, <1>17, <1>18, <1>19, <1>20, <1>21,
       <1>22, <1>23, <1>24, <1>25, <1>26, <1>27, <1>28, <1>29, <1>30, <1>31,
       <1>32, <1>33, <1>34, <1>35, <1>36, <1>37, <1>38, <1>39,
       <1>40 DEF ServeNext, AcceptStep, VerifyStep, SyncStep, addOkayLoop, OkayStep,
       RecycleStep, Around

\* The workers that have left their loop or have not been started: the pool at
\* work sends nobody there, and touches nothing of those who are.
Over == DrainLabels \cup {"off"}
LeftAlone(u) == pc'[u] \notin Over \/ (pc'[u] = pc[u] /\ todo'[u] = todo[u])
OverKept == \A u \in Workers : LeftAlone(u)

LEMMA OverStep ==
    ASSUME ServeInv, ServeNext \/ UNCHANGED vars
    PROVE  OverKept
  <1> USE DEF taskVars, outerVars, boxVars, okayVars, flowVars, callVars, acceptVars, finalVars
  <1>a. TypeOK
    BY DEF ServeInv
  <1>b. UNCHANGED <<pc, todo>> => OverKept
    BY DEF OverKept, LeftAlone
  <1>c. ASSUME NEW w \in Workers, NEW label, Goto(w, label), label \notin Over,
               \A u \in Workers \ {w} : todo'[u] = todo[u]
        PROVE  OverKept
    BY <1>a, <1>c DEF OverKept, LeftAlone, Goto, TypeOK, LabelTypes
  <1>d. ASSUME NEW w \in Workers, pc[w] \notin Over, pc' = pc,
               \A u \in Workers \ {w} : todo'[u] = todo[u]
        PROVE  OverKept
    BY <1>d DEF OverKept, LeftAlone
  <1>f. \A w \in Workers : \A t : Visited(w, t) => \A u \in Workers \ {w} : todo'[u] = todo[u]
    BY <1>a DEF Visited, TypeOK, BoxTypes
  <1>g. \A w \in Workers : \A th : check_queue(w, th) =>
           \A u \in Workers \ {w} : todo'[u] = todo[u]
    BY <1>a DEF check_queue, TypeOK, BoxTypes
  <1>1. ASSUME NEW t \in Tasks, NEW garbage \in BOOLEAN, newTCPTask(t,
       garbage) PROVE OverKept
    <2>w. Accepter \in Workers
      BY RoleSets
    <2>1. Goto(Accepter, "add") /\ "add" \notin Over
      BY <1>1 DEF newTCPTask, Over, DrainLabels
    <2>2. \A u \in Workers \ {Accepter} : todo'[u] = todo[u]
      BY <1>1, <2>w DEF newTCPTask
    <2> QED BY <1>c, <2>w, <2>1, <2>2
  <1>2. ASSUME addVerify PROVE OverKept
    <2>w. Accepter \in Workers
      BY RoleSets
    <2>1. Goto(Accepter, "register") /\ "register" \notin Over
      BY <1>2 DEF addVerify, Over, DrainLabels
    <2>2. \A u \in Workers \ {Accepter} : todo'[u] = todo[u]
      BY <1>2, <2>w DEF addVerify
    <2> QED BY <1>c, <2>w, <2>1, <2>2
  <1>3. ASSUME epollAdd PROVE OverKept
    <2>w. Accepter \in Workers
      BY RoleSets
    <2>1. Goto(Accepter, "accept") /\ "accept" \notin Over
      BY <1>3 DEF epollAdd, Over, DrainLabels
    <2>2. \A u \in Workers \ {Accepter} : todo'[u] = todo[u]
      BY <1>3, <2>w DEF epollAdd
    <2> QED BY <1>c, <2>w, <2>1, <2>2
  <1>4. ASSUME NEW i \in 1..NVerify, VerifyCheck(i) PROVE OverKept
    <2>w. Verifier(i) \in Workers
      BY RoleSets
    <2>1. Goto(Verifier(i), "timeouts") /\ "timeouts" \notin Over
      BY <1>4 DEF VerifyCheck, Over, DrainLabels
    <2>2. \A u \in Workers \ {Verifier(i)} : todo'[u] = todo[u]
      BY <1>4, <1>g, <2>w DEF VerifyCheck
    <2> QED BY <1>c, <2>w, <2>1, <2>2
  <1>5. ASSUME NEW i \in 1..NVerify, NEW t \in Tasks, VerifyTimeout(i,
       t) PROVE OverKept
    <2>w. Verifier(i) \in Workers
      BY RoleSets
    <2>1. \A u \in Workers \ {Verifier(i)} : todo'[u] = todo[u]
      BY <1>5, <1>f, <2>w DEF VerifyTimeout
    <2>2. "drop timeouts" \notin Over /\ "timeouts" \notin Over
      BY DEF Over, DrainLabels
    <2>3. CASE late[t]
      BY <1>5, <1>c, <2>w, <2>1, <2>2, <2>3 DEF VerifyTimeout
    <2>4. CASE ~late[t]
      BY <1>5, <1>d, <2>w, <2>1, <2>2, <2>4 DEF VerifyTimeout
    <2> QED BY <2>3, <2>4
  <1>6. ASSUME NEW i \in 1..NVerify, VerifySecondPass(i) PROVE OverKept
    <2>w. Verifier(i) \in Workers
      BY RoleSets
    <2>1. Goto(Verifier(i), "receive") /\ "receive" \notin Over
      BY <1>6 DEF VerifySecondPass, Over, DrainLabels
    <2>2. \A u \in Workers \ {Verifier(i)} : todo'[u] = todo[u]
      BY <1>6, <1>a, <2>w DEF VerifySecondPass, TypeOK, BoxTypes
    <2> QED BY <1>c, <2>w, <2>1, <2>2
  <1>7. ASSUME NEW i \in 1..NVerify, NEW t \in Tasks, VerifyFail(i,
       t) PROVE OverKept
    <2>w. Verifier(i) \in Workers
      BY RoleSets
    <2>1. Goto(Verifier(i), "drop receive") /\ "drop receive" \notin Over
      BY <1>7 DEF VerifyFail, Over, DrainLabels
    <2>2. \A u \in Workers \ {Verifier(i)} : todo'[u] = todo[u]
      BY <1>7, <1>f, <2>w DEF VerifyFail
    <2> QED BY <1>c, <2>w, <2>1, <2>2
  <1>8. ASSUME NEW i \in 1..NVerify, NEW t \in Tasks, VerifyPass(i,
       t) PROVE OverKept
    <2>w. Verifier(i) \in Workers
      BY RoleSets
    <2>1. Goto(Verifier(i), "addSync") /\ "addSync" \notin Over
      BY <1>8 DEF VerifyPass, Over, DrainLabels
    <2>2. \A u \in Workers \ {Verifier(i)} : todo'[u] = todo[u]
      BY <1>8, <1>f, <2>w DEF VerifyPass
    <2> QED BY <1>c, <2>w, <2>1, <2>2
  <1>9. ASSUME NEW i \in 1..NVerify, NEW t \in Tasks, VerifyWait(i,
       t) PROVE OverKept
    <2>w. Verifier(i) \in Workers
      BY RoleSets
    <2>1. pc' = pc /\ pc[Verifier(i)] \notin Over
      BY <1>9 DEF VerifyWait, Over, DrainLabels
    <2>2. \A u \in Workers \ {Verifier(i)} : todo'[u] = todo[u]
      BY <1>9, <1>f, <2>w DEF VerifyWait
    <2> QED BY <1>d, <2>w, <2>1, <2>2
  <1>10. ASSUME NEW i \in 1..NVerify, addSync(i) PROVE OverKept
    <2>w. Verifier(i) \in Workers
      BY RoleSets
    <2>1. Goto(Verifier(i), "receive") /\ "receive" \notin Over
      BY <1>10 DEF addSync, Over, DrainLabels
    <2>2. \A u \in Workers \ {Verifier(i)} : todo'[u] = todo[u]
      BY <1>10, <2>w DEF addSync
    <2> QED BY <1>c, <2>w, <2>1, <2>2
  <1>11. ASSUME NEW i \in 1..NVerify, addRecycle(Verifier(i), "drop timeouts",
       "timeouts") PROVE OverKept
    <2>w. Verifier(i) \in Workers
      BY RoleSets
    <2>1. Goto(Verifier(i), "timeouts") /\ "timeouts" \notin Over
      BY <1>11 DEF addRecycle, Over, DrainLabels
    <2>2. \A u \in Workers \ {Verifier(i)} : todo'[u] = todo[u]
      BY <1>11, <2>w DEF addRecycle
    <2> QED BY <1>c, <2>w, <2>1, <2>2
  <1>12. ASSUME NEW i \in 1..NVerify, addRecycle(Verifier(i), "drop receive",
       "receive") PROVE OverKept
    <2>w. Verifier(i) \in Workers
      BY RoleSets
    <2>1. Goto(Verifier(i), "receive") /\ "receive" \notin Over
      BY <1>12 DEF addRecycle, Over, DrainLabels
    <2>2. \A u \in Workers \ {Verifier(i)} : todo'[u] = todo[u]
      BY <1>12, <2>w DEF addRecycle
    <2> QED BY <1>c, <2>w, <2>1, <2>2
  <1>13. ASSUME SyncCheck PROVE OverKept
    <2>w. Syncer \in Workers
      BY RoleSets
    <2>1. pc' = pc /\ pc[Syncer] \notin Over
      BY <1>13 DEF SyncCheck, Over, DrainLabels
    <2>2. \A u \in Workers \ {Syncer} : todo'[u] = todo[u]
      BY <1>13, <1>g, <2>w DEF SyncCheck
    <2> QED BY <1>d, <2>w, <2>1, <2>2
  <1>14. ASSUME NEW t \in Tasks, SyncAgreed(t) PROVE OverKept
    <2>w. Syncer \in Workers
      BY RoleSets
    <2>1. Goto(Syncer, "scan") /\ "scan" \notin Over
      BY <1>14 DEF SyncAgreed, Over, DrainLabels
    <2>2. \A u \in Workers \ {Syncer} : todo'[u] = todo[u]
      BY <1>14, <1>f, <2>w DEF SyncAgreed
    <2> QED BY <1>c, <2>w, <2>1, <2>2
  <1>15. ASSUME NEW t \in Tasks, SyncWait(t) PROVE OverKept
    <2>w. Syncer \in Workers
      BY RoleSets
    <2>1. pc' = pc /\ pc[Syncer] \notin Over
      BY <1>15 DEF SyncWait, Over, DrainLabels
    <2>2. \A u \in Workers \ {Syncer} : todo'[u] = todo[u]
      BY <1>15, <1>f, <2>w DEF SyncWait
    <2> QED BY <1>d, <2>w, <2>1, <2>2
  <1>16. ASSUME NEW t \in Tasks, SyncRefused(t) PROVE OverKept
    <2>w. Syncer \in Workers
      BY RoleSets
    <2>1. Goto(Syncer, "drop") /\ "drop" \notin Over
      BY <1>16 DEF SyncRefused, Over, DrainLabels
    <2>2. \A u \in Workers \ {Syncer} : todo'[u] = todo[u]
      BY <1>16, <1>f, <2>w DEF SyncRefused
    <2> QED BY <1>c, <2>w, <2>1, <2>2
  <1>17. ASSUME addOkayScan \/ addOkayCompare PROVE OverKept
    <2>1. PICK label \in ChoiceLabels : Goto(Syncer, label)
      BY <1>17, Choosing
    <2>2. Syncer \in Workers /\ label \notin Over
      BY RoleSets DEF Over, DrainLabels
    <2>3. todo' = todo
      BY <1>17, Choosing
    <2> QED BY <1>c, <2>1, <2>2, <2>3
  <1>18. ASSUME addOkayCount PROVE OverKept
    <2>w. Syncer \in Workers
      BY RoleSets
    <2>1. Goto(Syncer, "size") /\ "size" \notin Over
      BY <1>18 DEF addOkayCount, Over, DrainLabels
    <2>2. \A u \in Workers \ {Syncer} : todo'[u] = todo[u]
      BY <1>18, <2>w DEF addOkayCount
    <2> QED BY <1>c, <2>w, <2>1, <2>2
  <1>19. ASSUME addOkaySize PROVE OverKept
    <2>w. Syncer \in Workers
      BY RoleSets
    <2>1. Goto(Syncer, "addOkay") \/ Goto(Syncer, "start")
      BY <1>19 DEF addOkaySize
    <2>2. "addOkay" \notin Over /\ "start" \notin Over
      BY DEF Over, DrainLabels
    <2>3. \A u \in Workers \ {Syncer} : todo'[u] = todo[u]
      BY <1>19 DEF addOkaySize
    <2> QED BY <1>c, <2>w, <2>1, <2>2, <2>3
  <1>20. ASSUME NEW r \in 1..MaxRuns, addOkayStart(r) PROVE OverKept
    <2>1. nostart \in 1..NOkay /\ todo' = todo
      BY <1>20, Sizes DEF addOkayStart, ServeInv, TypeOK, RestTypes
    <2>2. \A u \in Workers : pc'[u] = pc[u] \/ pc'[u] \in {"addOkay", "boot"}
      BY <1>20, <1>a DEF addOkayStart, TypeOK, LabelTypes
    <2> QED BY <1>a, <2>1, <2>2 DEF OverKept, LeftAlone, Over, DrainLabels
  <1>21. ASSUME addOkayFailed PROVE OverKept
    <2>w. Syncer \in Workers
      BY RoleSets
    <2>1. Goto(Syncer, "drop") /\ "drop" \notin Over
      BY <1>21 DEF addOkayFailed, Over, DrainLabels
    <2>2. \A u \in Workers \ {Syncer} : todo'[u] = todo[u]
      BY <1>21, <2>w DEF addOkayFailed
    <2> QED BY <1>c, <2>w, <2>1, <2>2
  <1>22. ASSUME addOkayAdd PROVE OverKept
    <2>w. Syncer \in Workers
      BY RoleSets
    <2>1. Goto(Syncer, "pass") /\ "pass" \notin Over
      BY <1>22 DEF addOkayAdd, Over, DrainLabels
    <2>2. \A u \in Workers \ {Syncer} : todo'[u] = todo[u]
      BY <1>22, <2>w DEF addOkayAdd
    <2> QED BY <1>c, <2>w, <2>1, <2>2
  <1>23. ASSUME addRecycle(Syncer, "drop", "pass") PROVE OverKept
    <2>w. Syncer \in Workers
      BY RoleSets
    <2>1. Goto(Syncer, "pass") /\ "pass" \notin Over
      BY <1>23 DEF addRecycle, Over, DrainLabels
    <2>2. \A u \in Workers \ {Syncer} : todo'[u] = todo[u]
      BY <1>23, <2>w DEF addRecycle
    <2> QED BY <1>c, <2>w, <2>1, <2>2
  <1>24. ASSUME NEW i \in 1..NOkay, NEW r \in 1..MaxRuns, OkayBoot(i,
       r) PROVE OverKept
    <2>w. Okayer(i, r) \in Workers
      BY RoleSets
    <2>1. Goto(Okayer(i, r), "check") /\ "check" \notin Over
      BY <1>24 DEF OkayBoot, Over, DrainLabels
    <2>2. \A u \in Workers \ {Okayer(i, r)} : todo'[u] = todo[u]
      BY <1>24, <2>w DEF OkayBoot
    <2> QED BY <1>c, <2>w, <2>1, <2>2
  <1>25. ASSUME NEW i \in 1..NOkay, NEW r \in 1..MaxRuns, OkayCheck(i,
       r) PROVE OverKept
    <2>w. Okayer(i, r) \in Workers
      BY RoleSets
    <2>1. Goto(Okayer(i, r), "move") /\ "move" \notin Over
      BY <1>25 DEF OkayCheck, Over, DrainLabels
    <2>2. \A u \in Workers \ {Okayer(i, r)} : todo'[u] = todo[u]
      BY <1>25, <2>w DEF OkayCheck
    <2> QED BY <1>c, <2>w, <2>1, <2>2
  <1>26. ASSUME NEW i \in 1..NOkay, NEW r \in 1..MaxRuns, NEW t \in Tasks,
       OkayAdd(i, r, t) PROVE OverKept
    BY <1>26, <1>b DEF OkayAdd
  <1>27. ASSUME NEW i \in 1..NOkay, NEW r \in 1..MaxRuns, OkayClear(i,
       r) PROVE OverKept
    <2>w. Okayer(i, r) \in Workers
      BY RoleSets
    <2>1. Goto(Okayer(i, r), "lock") /\ "lock" \notin Over
      BY <1>27 DEF OkayClear, Over, DrainLabels
    <2>2. \A u \in Workers \ {Okayer(i, r)} : todo'[u] = todo[u]
      BY <1>27, <2>w DEF OkayClear
    <2> QED BY <1>c, <2>w, <2>1, <2>2
  <1>28. ASSUME NEW i \in 1..NOkay, NEW r \in 1..MaxRuns, OkayLock(i,
       r) PROVE OverKept
    <2>w. Okayer(i, r) \in Workers
      BY RoleSets
    <2>1. Goto(Okayer(i, r), "pass") /\ "pass" \notin Over
      BY <1>28 DEF OkayLock, Over, DrainLabels
    <2>2. \A u \in Workers \ {Okayer(i, r)} : todo'[u] = todo[u]
      BY <1>28, <1>a, <2>w DEF OkayLock, TypeOK, BoxTypes
    <2> QED BY <1>c, <2>w, <2>1, <2>2
  <1>29. ASSUME NEW i \in 1..NOkay, NEW r \in 1..MaxRuns, NEW t \in Tasks,
       OkayEnd(i, r, t) PROVE OverKept
    <2>w. Okayer(i, r) \in Workers
      BY RoleSets
    <2>1. Goto(Okayer(i, r), "drop") /\ "drop" \notin Over
      BY <1>29 DEF OkayEnd, Over, DrainLabels
    <2>2. \A u \in Workers \ {Okayer(i, r)} : todo'[u] = todo[u]
      BY <1>29, <1>f, <2>w DEF OkayEnd
    <2> QED BY <1>c, <2>w, <2>1, <2>2
  <1>30. ASSUME NEW i \in 1..NOkay, NEW r \in 1..MaxRuns, NEW t \in Tasks,
       OkayKeep(i, r, t) PROVE OverKept
    <2>w. Okayer(i, r) \in Workers
      BY RoleSets
    <2>1. pc' = pc /\ pc[Okayer(i, r)] \notin Over
      BY <1>30 DEF OkayKeep, Over, DrainLabels
    <2>2. \A u \in Workers \ {Okayer(i, r)} : todo'[u] = todo[u]
      BY <1>30, <1>f, <2>w DEF OkayKeep
    <2> QED BY <1>d, <2>w, <2>1, <2>2
  <1>31. ASSUME NEW i \in 1..NOkay, NEW r \in 1..MaxRuns, OkayUnlock(i,
       r) PROVE OverKept
    <2>w. Okayer(i, r) \in Workers
      BY RoleSets
    <2>1. Goto(Okayer(i, r), "poll") /\ "poll" \notin Over
      BY <1>31 DEF OkayUnlock, Over, DrainLabels
    <2>2. \A u \in Workers \ {Okayer(i, r)} : todo'[u] = todo[u]
      BY <1>31, <2>w DEF OkayUnlock
    <2> QED BY <1>c, <2>w, <2>1, <2>2
  <1>32. ASSUME NEW i \in 1..NOkay, NEW r \in 1..MaxRuns, OkayPoll(i,
       r) PROVE OverKept
    <2>w. Okayer(i, r) \in Workers
      BY RoleSets
    <2>1. Goto(Okayer(i, r), "check") /\ "check" \notin Over
      BY <1>32 DEF OkayPoll, Over, DrainLabels
    <2>2. \A u \in Workers \ {Okayer(i, r)} : todo'[u] = todo[u]
      BY <1>32, <2>w DEF OkayPoll
    <2> QED BY <1>c, <2>w, <2>1, <2>2
  <1>33. ASSUME NEW i \in 1..NOkay, NEW r \in 1..MaxRuns, addRecycle(Okayer(i,
       r), "drop", "pass") PROVE OverKept
    <2>w. Okayer(i, r) \in Workers
      BY RoleSets
    <2>1. Goto(Okayer(i, r), "pass") /\ "pass" \notin Over
      BY <1>33 DEF addRecycle, Over, DrainLabels
    <2>2. \A u \in Workers \ {Okayer(i, r)} : todo'[u] = todo[u]
      BY <1>33, <2>w DEF addRecycle
    <2> QED BY <1>c, <2>w, <2>1, <2>2
  <1>34. ASSUME RecycleCheck PROVE OverKept
    <2>w. Recycler \in Workers
      BY RoleSets
    <2>1. pc' = pc /\ pc[Recycler] \notin Over
      BY <1>34 DEF RecycleCheck, Over, DrainLabels
    <2>2. \A u \in Workers \ {Recycler} : todo'[u] = todo[u]
      BY <1>34, <1>g, <2>w DEF RecycleCheck
    <2> QED BY <1>d, <2>w, <2>1, <2>2
  <1>35. ASSUME NEW t \in Tasks, RecycleDelete(t) PROVE OverKept
    <2>w. Recycler \in Workers
      BY RoleSets
    <2>1. pc' = pc /\ pc[Recycler] \notin Over
      BY <1>35 DEF RecycleDelete, Over, DrainLabels
    <2>2. \A u \in Workers \ {Recycler} : todo'[u] = todo[u]
      BY <1>35, <1>f, <2>w DEF RecycleDelete
    <2> QED BY <1>d, <2>w, <2>1, <2>2
  <1>36. ASSUME NEW t \in Tasks, RecycleWait(t) PROVE OverKept
    <2>w. Recycler \in Workers
      BY RoleSets
    <2>1. pc' = pc /\ pc[Recycler] \notin Over
      BY <1>36 DEF RecycleWait, Over, DrainLabels
    <2>2. \A u \in Workers \ {Recycler} : todo'[u] = todo[u]
      BY <1>36, <1>f, <2>w DEF RecycleWait
    <2> QED BY <1>d, <2>w, <2>1, <2>2
  <1>37. ASSUME NEW t \in Tasks, Disconnect(t) PROVE OverKept
    BY <1>37, <1>b DEF Disconnect
  <1>38. ASSUME NEW t \in Tasks, Deadline(t) PROVE OverKept
    BY <1>38, <1>b DEF Deadline
  <1>39. ASSUME NEW t \in Tasks, Terminate(t) PROVE OverKept
    BY <1>39, <1>b DEF Terminate
  <1>40. ASSUME UNCHANGED vars PROVE OverKept
    BY <1>40, <1>b DEF vars
  <1> QED
    BY <1>1, <1>2, <1>3, <1>4, <1>5, <1>6, <1>7, <1>8, <1>9, <1>10, <1>11,
       <1>12, <1>13, <1>14, <1>15, <1>16, <1>17, <1>18, <1>19, <1>20, <1>21,
       <1>22, <1>23, <1>24, <1>25, <1>26, <1>27, <1>28, <1>29, <1>30, <1>31,
       <1>32, <1>33, <1>34, <1>35, <1>36, <1>37, <1>38, <1>39,
       <1>40 DEF ServeNext, AcceptStep, VerifyStep, SyncStep, addOkayLoop, OkayStep,
       RecycleStep, Around

\* The pool starts empty, with every worker at its first statement.
LEMMA InitServeInv == Init => ServeInv
  <1> SUFFICES ASSUME Init PROVE ServeInv
    OBVIOUS
  <1>1. TypeOK
    <2>1. TaskTypes
      BY DEF Init, TaskTypes, Flags, States
    <2>2. BoxTypes
      BY DEF Init, BoxTypes
    <2>3. LabelTypes
      BY DEF Init, LabelTypes, Labels, LoopEnd
    <2>4. CountTypes
      BY Sizes DEF Init, CountTypes
    <2>5. RestTypes
      <3>1. /\ 1 \in 1..NOkay /\ 0 \in 0..NOkay /\ 0 \in 0..(NVerify - 1)
            /\ 0 \in 0..JoinCount /\ 1 \in 0..MaxRuns /\ 0 \in 0..MaxRuns
        BY Sizes DEF JoinCount
      <3>2. handle \in [Threads -> 0..MaxRuns]
        BY <3>1 DEF Init
      <3> QED BY <3>1, <3>2 DEF Init, RestTypes
    <2> QED BY <2>1, <2>2, <2>3, <2>4, <2>5 DEF TypeOK
  <1>2. SingleOwner
    BY DEF Init, SingleOwner
  <1>3. NoneLost /\ StateOfPlace
    BY TasksAssumption DEF Init, NoneLost, Held, StateOfPlace
  <1>4. ContainerExact /\ UniqueHeld
    BY DEF Init, ContainerExact, UniqueHeld
  <1>5. IteratorsValid
    <2>1. \A w \in Workers : todo[w] = {}
      BY DEF Init
    <2> QED BY <2>1 DEF IteratorsValid
  <1>6. /\ pc[Accepter] = "accept" /\ pc[Syncer] = "pass" /\ pc[Recycler] = "pass"
        /\ \A w \in Verifiers : pc[w] = "receive"
        /\ \A w \in Okayers : pc[w] \in {"boot", "off"}
    BY RoleSets DEF Init, LoopEnd
  <1>7. RoleLabels
    BY <1>6 DEF RoleLabels
  <1>8. HandFull
    <2>1. \A w \in Workers : pc[w] \notin HandLabels
      BY <1>6 DEF Workers, HandLabels
    <2> QED BY <2>1 DEF Init, HandFull
  <1>9. PassLocked
    BY <1>6, RoleSets, Sizes DEF Init, PassLocked
  <1>10. PassOver
    BY DEF Init, PassOver
  <1> QED
    BY <1>1, <1>2, <1>3, <1>4, <1>5, <1>7, <1>8, <1>9, <1>10 DEF ServeInv

\* What ServeInv says but for the passes.
PlacesKept ==
    /\ TypeOK
    /\ SingleOwner /\ NoneLost /\ StateOfPlace /\ ContainerExact /\ UniqueHeld
    /\ RoleLabels /\ HandFull /\ PassOver /\ PassLocked

\* It survives every step of the pool at work, and so do the passes where no run
\* drains beside another.
LEMMA PlacesStep == ASSUME ServeInv, ServeNext \/ UNCHANGED vars PROVE PlacesKept'
  <1>1. TypeOK'
    <2>1. TypeOK /\ HandHas
      BY DEF ServeInv, HandFull, HandHas
    <2> QED
      BY <2>1, TaskTypesStep, BoxTypesStep, LabelTypesStep, CountTypesStep, RestTypesStep
         DEF TypeOK
  <1>2. SingleOwner' /\ NoneLost' /\ StateOfPlace' /\ HandFull'
    BY PlaceStep DEF PlaceInv
  <1>3. ContainerExact' /\ UniqueHeld'
    BY OuterStep
  <1>4. RoleLabels' /\ PassLocked'
    BY RoleLabelsStep, PassLockedStep
  <1>5. PassOver'
    BY OverStep DEF ServeInv, PassOver, OverKept, LeftAlone, Over
  <1> QED BY <1>1, <1>2, <1>3, <1>4, <1>5 DEF PlacesKept

LEMMA ServeInvStep == ServeInv /\ Alone' /\ [ServeNext]_vars => ServeInv'
  BY PlacesStep, IteratorsStep DEF ServeInv, PlacesKept

\* The pool at work sends no worker out of its loop.
LEMMA ServingStep == ServeInv /\ Serving /\ [ServeNext]_vars => Serving'
  BY OverStep DEF Serving, OverKept, LeftAlone, Over

LEMMA InitServing == Init => Serving
  <1> SUFFICES ASSUME Init PROVE Serving
    OBVIOUS
  <1>1. \A w \in Workers : pc[w] \in {"accept", "receive", "check", "pass", "boot", "off"}
    BY DEF Init, LoopEnd
  <1> QED BY <1>1 DEF Serving, DrainLabels

\* The inductive invariant holds of the pool at work, whatever the number of
\* tasks, threads and runs.
THEOREM ServeInvariant == ServeSpec => []ServeInv
  <1>1. Serving => Alone
    <2>1. \A i \in 1..NOkay, r \in 1..MaxRuns : Okayer(i, r) \in Workers
      BY WorkerFacts
    <2> QED BY <2>1 DEF Serving, Alone, Racing, DrainLabels
  <1> QED
    BY <1>1, InitServeInv, InitServing, ServeInvStep, ServingStep, PTL DEF ServeSpec

\* Every variable keeps its type (zTCPTaskPool.cpp, zTCPTask.cpp).
THEOREM TypeCorrect == ServeSpec => []TypeOK
  <1>1. ServeInv => TypeOK
    BY DEF ServeInv
  <1> QED BY <1>1, ServeInvariant, PTL

\* No task is ever in two threads, or twice in one (zTCPTaskPool.cpp:504).
THEOREM SingleOwnership == ServeSpec => []SingleOwner
  <1>1. ServeInv => SingleOwner
    BY DEF ServeInv
  <1> QED BY <1>1, ServeInvariant, PTL

\* A task is allocated exactly as long as some thread has it: none leaks and
\* none is used after its delete (zTCPTaskPool.cpp:563-591).
THEOREM NoTaskLost == ServeSpec => []NoneLost
  <1>1. ServeInv => NoneLost
    BY DEF ServeInv
  <1> QED BY <1>1, ServeInvariant, PTL

\* A task's state is that of the thread it is given to, at the moment it is
\* given (zTCPTask.cpp:76-131).
THEOREM StateAgrees == ServeSpec => []StateOfPlace
  <1>1. ServeInv => StateOfPlace
    BY DEF ServeInv
  <1> QED BY <1>1, ServeInvariant, PTL

\* addToContainer and removeFromContainer are paired (zTCPTask.cpp:76-131).
THEOREM ContainersAgree == ServeSpec => []ContainerExact
  <1>1. ServeInv => ContainerExact
    BY DEF ServeInv
  <1> QED BY <1>1, ServeInvariant, PTL

\* No pass over a vector meets an element another pthread has erased
\* (zTCPTaskPool.cpp:407-441).
THEOREM PassesValid == ServeSpec => []IteratorsValid
  <1>1. ServeInv => IteratorsValid
    BY DEF ServeInv
  <1> QED BY <1>1, ServeInvariant, PTL

\* Each step is a step of ConnectionLife, or leaves its four variables alone.
LEMMA LifeStep ==
    ASSUME ServeInv, ServeNext \/ UNCHANGED vars
    PROVE  [Lifecycle!Next]_(Lifecycle!lifeVars)
  <1> USE DEF taskVars, outerVars, boxVars, okayVars, flowVars, callVars, acceptVars, finalVars
  <1>b. \A w \in Workers \ {Accepter} : todo[w] \subseteq tasks[Object(w)]
    BY DEF ServeInv, IteratorsValid
  <1>c. ASSUME NEW th \in Threads, NEW t \in tasks[th]
        PROVE  t \in live /\ t \in Tasks /\ state[t] = Stage(th)
    BY <1>c DEF ServeInv, NoneLost, Held, StateOfPlace, TypeOK, BoxTypes
  <1>d. pc[Syncer] \in {"size", "start"} =>
           hand[Syncer] \in live /\ state[hand[Syncer]] = "sync"
    <2>1. SUFFICES ASSUME pc[Syncer] \in {"size", "start"}
                   PROVE  hand[Syncer] \in live /\ state[hand[Syncer]] = "sync"
      OBVIOUS
    <2>2. Syncer \in Workers /\ hand[Syncer] # NoTask
      BY <2>1, RoleSets DEF ServeInv, HandFull, HandLabels
    <2>3. hand[Syncer] \in Tasks /\ Held(hand[Syncer])
      BY <2>2 DEF ServeInv, TypeOK, BoxTypes, Held
    <2>4. hand[Syncer] \in live
      BY <2>3 DEF ServeInv, NoneLost
    <2>5. state[hand[Syncer]] = "sync"
      BY <2>1, <2>2 DEF ServeInv, StateOfPlace, StageInHand
    <2> QED BY <2>4, <2>5
  <1>e. UNCHANGED <<live, state, container, unique>> =>
           [Lifecycle!Next]_(Lifecycle!lifeVars)
    BY DEF Lifecycle!lifeVars
  <1>f. \A t \in Tasks : /\ t \in live /\ state[t] \in {"sync", "okay"} => t \in unique
                         /\ t \in live => (t \in container <=> state[t] = "okay")
                         /\ t \in unique => verified[t]
    BY DEF ServeInv, UniqueHeld, ContainerExact
  <1>g. live \subseteq Tasks
    BY DEF ServeInv, TypeOK, TaskTypes
  <1>1. ASSUME NEW t \in Tasks, NEW garbage \in BOOLEAN, newTCPTask(t,
       garbage) PROVE [Lifecycle!Next]_(Lifecycle!lifeVars)
    <2>1. t \notin live /\ state[t] = "notuse"
      BY <1>1 DEF newTCPTask, ServeInv, StateOfPlace
    <2>2. Lifecycle!Accept(t)
      BY <1>1, <2>1 DEF newTCPTask, getNextState, NextState, Lifecycle!Accept
    <2> QED BY <2>2 DEF Lifecycle!Next
  <1>2. ASSUME addVerify PROVE [Lifecycle!Next]_(Lifecycle!lifeVars)
    BY <1>2, <1>e DEF addVerify
  <1>3. ASSUME epollAdd PROVE [Lifecycle!Next]_(Lifecycle!lifeVars)
    BY <1>3, <1>e DEF epollAdd
  <1>4. ASSUME NEW i \in 1..NVerify,
       VerifyCheck(i) PROVE [Lifecycle!Next]_(Lifecycle!lifeVars)
    BY <1>4, <1>e DEF VerifyCheck
  <1>5. ASSUME NEW i \in 1..NVerify, NEW t \in Tasks, VerifyTimeout(i,
       t) PROVE [Lifecycle!Next]_(Lifecycle!lifeVars)
    <2>1. CASE late[t]
      <3>1. t \in tasks[V(i)]
        BY <1>5, <2>1, <1>b, WorkerFacts DEF VerifyTimeout
      <3>2. t \in live /\ t \in Tasks /\ state[t] = "verify"
        BY <1>c, <3>1, ThreadFacts
      <3>3. Lifecycle!GiveUp(t)
        BY <1>5, <2>1, <1>f, <3>2 DEF VerifyTimeout, resetState, VerifyFrame, Lifecycle!GiveUp, Lifecycle!Enter
      <3> QED BY <3>2, <3>3 DEF Lifecycle!Next
    <2>2. CASE ~late[t]
      BY <1>5, <1>e, <2>2 DEF VerifyTimeout
    <2> QED BY <2>1, <2>2
  <1>6. ASSUME NEW i \in 1..NVerify,
       VerifySecondPass(i) PROVE [Lifecycle!Next]_(Lifecycle!lifeVars)
    BY <1>6, <1>e DEF VerifySecondPass
  <1>7. ASSUME NEW i \in 1..NVerify, NEW t \in Tasks, VerifyFail(i,
       t) PROVE [Lifecycle!Next]_(Lifecycle!lifeVars)
    <2>1. t \in tasks[V(i)]
      BY <1>7, <1>b, WorkerFacts DEF VerifyFail
    <2>2. t \in live /\ t \in Tasks /\ state[t] = "verify"
      BY <1>c, <2>1, ThreadFacts
    <2>3. Lifecycle!GiveUp(t)
      BY <1>7, <1>f, <2>2 DEF VerifyFail, resetState, Lifecycle!GiveUp, Lifecycle!Enter
    <2> QED BY <2>2, <2>3 DEF Lifecycle!Next
  <1>8. ASSUME NEW i \in 1..NVerify, NEW t \in Tasks, VerifyPass(i,
       t) PROVE [Lifecycle!Next]_(Lifecycle!lifeVars)
    <2>1. t \in tasks[V(i)]
      BY <1>8, <1>b, WorkerFacts DEF VerifyPass
    <2>2. t \in live /\ t \in Tasks /\ state[t] = "verify"
      BY <1>c, <2>1, ThreadFacts
    <2>3. Lifecycle!Identify(t)
      BY <1>8, <1>f, <2>2 DEF VerifyPass, getNextState, NextState, Lifecycle!Identify, Lifecycle!Enter
    <2> QED BY <2>2, <2>3 DEF Lifecycle!Next
  <1>9. ASSUME NEW i \in 1..NVerify, NEW t \in Tasks, VerifyWait(i,
       t) PROVE [Lifecycle!Next]_(Lifecycle!lifeVars)
    BY <1>9, <1>e DEF VerifyWait
  <1>10. ASSUME NEW i \in 1..NVerify,
       addSync(i) PROVE [Lifecycle!Next]_(Lifecycle!lifeVars)
    BY <1>10, <1>e DEF addSync
  <1>11. ASSUME NEW i \in 1..NVerify, addRecycle(Verifier(i), "drop timeouts",
       "timeouts") PROVE [Lifecycle!Next]_(Lifecycle!lifeVars)
    BY <1>11, <1>e DEF addRecycle
  <1>12. ASSUME NEW i \in 1..NVerify, addRecycle(Verifier(i), "drop receive",
       "receive") PROVE [Lifecycle!Next]_(Lifecycle!lifeVars)
    BY <1>12, <1>e DEF addRecycle
  <1>13. ASSUME SyncCheck PROVE [Lifecycle!Next]_(Lifecycle!lifeVars)
    BY <1>13, <1>e DEF SyncCheck
  <1>14. ASSUME NEW t \in Tasks,
       SyncAgreed(t) PROVE [Lifecycle!Next]_(Lifecycle!lifeVars)
    BY <1>14, <1>e DEF SyncAgreed
  <1>15. ASSUME NEW t \in Tasks,
       SyncWait(t) PROVE [Lifecycle!Next]_(Lifecycle!lifeVars)
    BY <1>15, <1>e DEF SyncWait
  <1>16. ASSUME NEW t \in Tasks,
       SyncRefused(t) PROVE [Lifecycle!Next]_(Lifecycle!lifeVars)
    <2>1. t \in tasks[S]
      BY <1>16, <1>b, WorkerFacts DEF SyncRefused
    <2>2. t \in live /\ t \in Tasks /\ state[t] = "sync"
      BY <1>c, <2>1, ThreadFacts
    <2>3. Lifecycle!GiveUp(t)
      BY <1>16, <1>f, <2>2 DEF SyncRefused, resetState, Lifecycle!GiveUp, Lifecycle!Enter
    <2> QED BY <2>2, <2>3 DEF Lifecycle!Next
  <1>17. ASSUME addOkayScan \/ addOkayCompare PROVE [Lifecycle!Next]_(Lifecycle!lifeVars)
    BY <1>17, <1>e, Choosing
  <1>18. ASSUME addOkayCount PROVE [Lifecycle!Next]_(Lifecycle!lifeVars)
    BY <1>18, <1>e DEF addOkayCount
  <1>19. ASSUME addOkaySize PROVE [Lifecycle!Next]_(Lifecycle!lifeVars)
    <2>1. hand[Syncer] \in live /\ hand[Syncer] \in Tasks /\ state[hand[Syncer]] = "sync"
      BY <1>19, <1>d, <1>g DEF addOkaySize
    <2>2. CASE loaded + size[target] < ConnPerThread
      <3>1. Lifecycle!Serve(hand[Syncer])
        BY <1>19, <1>f, <2>1, <2>2 DEF addOkaySize, getNextState, NextState, Lifecycle!Serve,
           Lifecycle!Enter
      <3> QED BY <2>1, <3>1 DEF Lifecycle!Next
    <2>3. CASE ~(loaded + size[target] < ConnPerThread)
      BY <1>19, <1>e, <2>3 DEF addOkaySize
    <2> QED BY <2>2, <2>3
  <1>20. ASSUME NEW r \in 1..MaxRuns,
       addOkayStart(r) PROVE [Lifecycle!Next]_(Lifecycle!lifeVars)
    <2>1. hand[Syncer] \in live /\ hand[Syncer] \in Tasks /\ state[hand[Syncer]] = "sync"
      BY <1>20, <1>d, <1>g DEF addOkayStart
    <2>2. Lifecycle!Serve(hand[Syncer])
      BY <1>20, <1>f, <2>1 DEF addOkayStart, getNextState, NextState, Lifecycle!Serve, Lifecycle!Enter
    <2> QED BY <2>1, <2>2 DEF Lifecycle!Next
  <1>21. ASSUME addOkayFailed PROVE [Lifecycle!Next]_(Lifecycle!lifeVars)
    <2>1. hand[Syncer] \in live /\ hand[Syncer] \in Tasks /\ state[hand[Syncer]] = "sync"
      BY <1>21, <1>d, <1>g DEF addOkayFailed
    <2>2. Lifecycle!GiveUp(hand[Syncer])
      BY <1>21, <1>f, <2>1 DEF addOkayFailed, resetState, Lifecycle!GiveUp, Lifecycle!Enter
    <2> QED BY <2>1, <2>2 DEF Lifecycle!Next
  <1>22. ASSUME addOkayAdd PROVE [Lifecycle!Next]_(Lifecycle!lifeVars)
    BY <1>22, <1>e DEF addOkayAdd
  <1>23. ASSUME addRecycle(Syncer, "drop",
       "pass") PROVE [Lifecycle!Next]_(Lifecycle!lifeVars)
    BY <1>23, <1>e DEF addRecycle
  <1>24. ASSUME NEW i \in 1..NOkay, NEW r \in 1..MaxRuns, OkayBoot(i,
       r) PROVE [Lifecycle!Next]_(Lifecycle!lifeVars)
    BY <1>24, <1>e DEF OkayBoot
  <1>25. ASSUME NEW i \in 1..NOkay, NEW r \in 1..MaxRuns, OkayCheck(i,
       r) PROVE [Lifecycle!Next]_(Lifecycle!lifeVars)
    BY <1>25, <1>e DEF OkayCheck
  <1>26. ASSUME NEW i \in 1..NOkay, NEW r \in 1..MaxRuns, NEW t \in Tasks,
       OkayAdd(i, r, t) PROVE [Lifecycle!Next]_(Lifecycle!lifeVars)
    BY <1>26, <1>e DEF OkayAdd
  <1>27. ASSUME NEW i \in 1..NOkay, NEW r \in 1..MaxRuns, OkayClear(i,
       r) PROVE [Lifecycle!Next]_(Lifecycle!lifeVars)
    BY <1>27, <1>e DEF OkayClear
  <1>28. ASSUME NEW i \in 1..NOkay, NEW r \in 1..MaxRuns, OkayLock(i,
       r) PROVE [Lifecycle!Next]_(Lifecycle!lifeVars)
    BY <1>28, <1>e DEF OkayLock
  <1>29. ASSUME NEW i \in 1..NOkay, NEW r \in 1..MaxRuns, NEW t \in Tasks,
       OkayEnd(i, r, t) PROVE [Lifecycle!Next]_(Lifecycle!lifeVars)
    <2>1. t \in tasks[O(i)]
      BY <1>29, <1>b, WorkerFacts DEF OkayEnd
    <2>2. t \in live /\ t \in Tasks /\ state[t] = "okay"
      BY <1>c, <2>1, ThreadFacts
    <2>3. Lifecycle!End(t)
      BY <1>29, <1>f, <2>2 DEF OkayEnd, getNextState, NextState, Lifecycle!End, Lifecycle!Enter
    <2> QED BY <2>2, <2>3 DEF Lifecycle!Next
  <1>30. ASSUME NEW i \in 1..NOkay, NEW r \in 1..MaxRuns, NEW t \in Tasks,
       OkayKeep(i, r, t) PROVE [Lifecycle!Next]_(Lifecycle!lifeVars)
    BY <1>30, <1>e DEF OkayKeep
  <1>31. ASSUME NEW i \in 1..NOkay, NEW r \in 1..MaxRuns, OkayUnlock(i,
       r) PROVE [Lifecycle!Next]_(Lifecycle!lifeVars)
    BY <1>31, <1>e DEF OkayUnlock
  <1>32. ASSUME NEW i \in 1..NOkay, NEW r \in 1..MaxRuns, OkayPoll(i,
       r) PROVE [Lifecycle!Next]_(Lifecycle!lifeVars)
    BY <1>32, <1>e DEF OkayPoll
  <1>33. ASSUME NEW i \in 1..NOkay, NEW r \in 1..MaxRuns, addRecycle(Okayer(i,
       r), "drop", "pass") PROVE [Lifecycle!Next]_(Lifecycle!lifeVars)
    BY <1>33, <1>e DEF addRecycle
  <1>34. ASSUME RecycleCheck PROVE [Lifecycle!Next]_(Lifecycle!lifeVars)
    BY <1>34, <1>e DEF RecycleCheck
  <1>35. ASSUME NEW t \in Tasks,
       RecycleDelete(t) PROVE [Lifecycle!Next]_(Lifecycle!lifeVars)
    <2>1. t \in tasks[R]
      BY <1>35, <1>b, WorkerFacts DEF RecycleDelete
    <2>2. t \in live /\ t \in Tasks /\ state[t] = "recycle"
      BY <1>c, <2>1, ThreadFacts
    <2>3. Lifecycle!Delete(t)
      BY <1>35, <1>f, <2>2 DEF RecycleDelete, Destroy, Free, getNextState, NextState, Lifecycle!Delete, Lifecycle!Enter
    <2> QED BY <2>2, <2>3 DEF Lifecycle!Next
  <1>36. ASSUME NEW t \in Tasks,
       RecycleWait(t) PROVE [Lifecycle!Next]_(Lifecycle!lifeVars)
    BY <1>36, <1>e DEF RecycleWait
  <1>37. ASSUME NEW t \in Tasks,
       Disconnect(t) PROVE [Lifecycle!Next]_(Lifecycle!lifeVars)
    BY <1>37, <1>e DEF Disconnect
  <1>38. ASSUME NEW t \in Tasks,
       Deadline(t) PROVE [Lifecycle!Next]_(Lifecycle!lifeVars)
    BY <1>38, <1>e DEF Deadline
  <1>39. ASSUME NEW t \in Tasks,
       Terminate(t) PROVE [Lifecycle!Next]_(Lifecycle!lifeVars)
    BY <1>39, <1>e DEF Terminate
  <1>40. ASSUME UNCHANGED vars PROVE [Lifecycle!Next]_(Lifecycle!lifeVars)
    BY <1>40, <1>e DEF vars
  <1> QED
    BY <1>1, <1>2, <1>3, <1>4, <1>5, <1>6, <1>7, <1>8, <1>9, <1>10, <1>11,
       <1>12, <1>13, <1>14, <1>15, <1>16, <1>17, <1>18, <1>19, <1>20, <1>21,
       <1>22, <1>23, <1>24, <1>25, <1>26, <1>27, <1>28, <1>29, <1>30, <1>31,
       <1>32, <1>33, <1>34, <1>35, <1>36, <1>37, <1>38, <1>39,
       <1>40 DEF ServeNext, AcceptStep, VerifyStep, SyncStep, addOkayLoop, OkayStep,
       RecycleStep, Around

\* The pool at work implements ConnectionLife, with the four variables the two
\* share: the stages are entered in order, and each call into the outer
\* containers is made once (zTCPTask.cpp:76-131).
THEOREM LifecycleKept == ServeSpec => ConnectionLifeKept
  <1>1. Init => Lifecycle!Init
    BY DEF Init, Lifecycle!Init
  <1>2. ServeInv /\ [ServeNext]_vars => [Lifecycle!Next]_(Lifecycle!lifeVars)
    BY LifeStep
  <1> QED
    BY <1>1, <1>2, ServeInvariant, PTL DEF ServeSpec, ConnectionLifeKept, Lifecycle!Life

-----------------------------------------------------------------------------

\* task_count is the size of the vector.  _size is that of the queue, or more while
\* a run that has the queue lock moves the tasks and has not yet cleared it.
CountsKeptOf(i) ==
    /\ count[i] = Cardinality(tasks[O(i)])
    /\ \A r \in 1..MaxRuns :
          pc[Okayer(i, r)] = "move" <=> qlock[i] = r
    /\ size[i] >= Cardinality(queue[O(i)])
    /\ size[i] = Cardinality(queue[O(i)]) \/ \E r \in 1..MaxRuns : pc[Okayer(i, r)] = "move"

CountsKept == \A i \in 1..NOkay : CountsKeptOf(i)

\* A step that does not touch what an okay thread counts.
UncountedOf(i) ==
    /\ count'[i] = count[i] /\ size'[i] = size[i] /\ qlock'[i] = qlock[i]
    /\ tasks'[O(i)] = tasks[O(i)] /\ queue'[O(i)] = queue[O(i)]
    /\ \A r \in 1..MaxRuns :
          \/ pc'[Okayer(i, r)] = pc[Okayer(i, r)]
          \/ pc[Okayer(i, r)] # "move" /\ pc'[Okayer(i, r)] # "move"

Uncounted == \A i \in 1..NOkay : UncountedOf(i)

LEMMA UncountedKeeps ==
    ASSUME NEW i \in 1..NOkay, CountsKeptOf(i), UncountedOf(i)
    PROVE  CountsKeptOf(i)'
<1>1. \A r \in 1..MaxRuns : pc'[Okayer(i, r)] = "move" <=> pc[Okayer(i, r)] = "move"
  BY DEF UncountedOf
<1> QED BY <1>1 DEF CountsKeptOf, UncountedOf

\* What an okay thread counts is right at every step of the pool at work.
LEMMA CountsStep ==
    ASSUME ServeInv, CountsKept, ServeNext \/ UNCHANGED vars
    PROVE  CountsKept'
  <1> USE DEF taskVars, outerVars, boxVars, okayVars, flowVars, callVars, acceptVars, finalVars
  <1>a. TypeOK /\ BoxTypes /\ LabelTypes /\ CountTypes /\ SingleOwner /\ HandFull
    BY DEF ServeInv, TypeOK
  <1>b. \A th \in Threads : queue[th] \in SUBSET Tasks /\ tasks[th] \in SUBSET Tasks
    BY <1>a DEF BoxTypes
  <1>c. Uncounted => CountsKept'
    BY UncountedKeeps DEF Uncounted, CountsKept
  <1>h. ASSUME NEW i \in 1..NOkay, \A j \in 1..NOkay : j # i => UncountedOf(j), CountsKeptOf(i)'
        PROVE  CountsKept'
    BY <1>h, UncountedKeeps DEF CountsKept
  <1>d. ASSUME NEW w \in Workers \ Okayers, NEW label, Goto(w, label)
        PROVE  \A i \in 1..NOkay, r \in 1..MaxRuns : pc'[Okayer(i, r)] = pc[Okayer(i, r)]
    BY <1>a, <1>d, RoleSets DEF Goto, LabelTypes
  <1>e. ASSUME NEW j \in 1..NOkay, NEW q \in 1..MaxRuns, NEW label, Goto(Okayer(j, q), label)
        PROVE  \A i \in 1..NOkay, r \in 1..MaxRuns :
                  pc'[Okayer(i, r)] = IF i = j /\ r = q THEN label ELSE pc[Okayer(i, r)]
    BY <1>a, <1>e, WorkerFacts DEF Goto, LabelTypes
  <1>f. ASSUME NEW th \in Threads, \A i \in 1..NOkay : O(i) # th, NEW X, NEW Y,
               queue' = [queue EXCEPT ![th] = X] \/ queue' = queue,
               tasks' = [tasks EXCEPT ![th] = Y] \/ tasks' = tasks
        PROVE  \A i \in 1..NOkay : queue'[O(i)] = queue[O(i)] /\ tasks'[O(i)] = tasks[O(i)]
    BY <1>a, <1>f, ThreadFacts DEF BoxTypes
  <1>g. \A i \in 1..NOkay : O(i) # S /\ O(i) # R /\ \A j \in 1..NVerify : O(i) # V(j)
    BY DEF O, S, R, V
  <1>1. ASSUME NEW t \in Tasks, NEW garbage \in BOOLEAN, newTCPTask(t,
       garbage) PROVE CountsKept'
    <2>1. Accepter \in Workers \ Okayers
      BY RoleSets
    <2>2. \A j \in 1..NOkay, r \in 1..MaxRuns : pc'[Okayer(j, r)] = pc[Okayer(j, r)]
      BY <1>1, <1>d, <2>1 DEF newTCPTask
    <2>3. \A j \in 1..NOkay : queue'[O(j)] = queue[O(j)] /\ tasks'[O(j)] = tasks[O(j)]
      BY <1>1, <1>a, <1>f, <1>g, ThreadFacts DEF newTCPTask, Add, Take, check_queue
    <2>4. UNCHANGED <<count, size, qlock>>
      BY <1>1 DEF newTCPTask
    <2> QED BY <1>c, <2>2, <2>3, <2>4 DEF Uncounted, UncountedOf
  <1>2. ASSUME addVerify PROVE CountsKept'
    <2>1. Accepter \in Workers \ Okayers /\ V(hashCode + 1) \in Threads
      <3>1. hashCode + 1 \in 1..NVerify
        BY <1>a, Sizes DEF TypeOK, RestTypes
      <3> QED BY <3>1, RoleSets, ThreadFacts
    <2>2. \A j \in 1..NOkay, r \in 1..MaxRuns : pc'[Okayer(j, r)] = pc[Okayer(j, r)]
      BY <1>2, <1>d, <2>1 DEF addVerify
    <2>3. \A j \in 1..NOkay : queue'[O(j)] = queue[O(j)] /\ tasks'[O(j)] = tasks[O(j)]
      <3>1. \A j \in 1..NOkay : O(j) # V(hashCode + 1)
        BY DEF O, V
      <3> QED BY <1>2, <1>f, <2>1, <3>1 DEF addVerify, Add
    <2>4. UNCHANGED <<count, size, qlock>>
      BY <1>2 DEF addVerify
    <2> QED BY <1>c, <2>2, <2>3, <2>4 DEF Uncounted, UncountedOf
  <1>3. ASSUME epollAdd PROVE CountsKept'
    <2>1. Accepter \in Workers \ Okayers
      BY RoleSets
    <2>2. \A j \in 1..NOkay, r \in 1..MaxRuns : pc'[Okayer(j, r)] = pc[Okayer(j, r)]
      BY <1>3, <1>d, <2>1 DEF epollAdd
    <2>3. \A j \in 1..NOkay : queue'[O(j)] = queue[O(j)] /\ tasks'[O(j)] = tasks[O(j)]
      BY <1>3, <1>a, <1>f, <1>g, ThreadFacts DEF epollAdd, Add, Take, check_queue
    <2>4. UNCHANGED <<count, size, qlock>>
      BY <1>3 DEF epollAdd
    <2> QED BY <1>c, <2>2, <2>3, <2>4 DEF Uncounted, UncountedOf
  <1>4. ASSUME NEW i \in 1..NVerify, VerifyCheck(i) PROVE CountsKept'
    <2>1. Verifier(i) \in Workers \ Okayers
      BY RoleSets
    <2>2. \A j \in 1..NOkay, r \in 1..MaxRuns : pc'[Okayer(j, r)] = pc[Okayer(j, r)]
      BY <1>4, <1>d, <2>1 DEF VerifyCheck
    <2>3. \A j \in 1..NOkay : queue'[O(j)] = queue[O(j)] /\ tasks'[O(j)] = tasks[O(j)]
      BY <1>4, <1>a, <1>f, <1>g, ThreadFacts DEF VerifyCheck, Add, Take, check_queue
    <2>4. UNCHANGED <<count, size, qlock>>
      BY <1>4 DEF VerifyCheck
    <2> QED BY <1>c, <2>2, <2>3, <2>4 DEF Uncounted, UncountedOf
  <1>5. ASSUME NEW i \in 1..NVerify, NEW t \in Tasks, VerifyTimeout(i,
       t) PROVE CountsKept'
    <2>1. Verifier(i) \in Workers \ Okayers
      BY RoleSets
    <2>2. \A j \in 1..NOkay, r \in 1..MaxRuns : pc'[Okayer(j, r)] = pc[Okayer(j, r)]
      BY <1>5, <1>d, <2>1 DEF VerifyTimeout
    <2>3. \A j \in 1..NOkay : queue'[O(j)] = queue[O(j)] /\ tasks'[O(j)] = tasks[O(j)]
      BY <1>5, <1>a, <1>f, <1>g, ThreadFacts DEF VerifyTimeout, Add, Take, check_queue
    <2>4. UNCHANGED <<count, size, qlock>>
      BY <1>5 DEF VerifyTimeout, VerifyFrame
    <2> QED BY <1>c, <2>2, <2>3, <2>4 DEF Uncounted, UncountedOf
  <1>6. ASSUME NEW i \in 1..NVerify, VerifySecondPass(i) PROVE CountsKept'
    <2>1. Verifier(i) \in Workers \ Okayers
      BY RoleSets
    <2>2. \A j \in 1..NOkay, r \in 1..MaxRuns : pc'[Okayer(j, r)] = pc[Okayer(j, r)]
      BY <1>6, <1>d, <2>1 DEF VerifySecondPass
    <2>3. \A j \in 1..NOkay : queue'[O(j)] = queue[O(j)] /\ tasks'[O(j)] = tasks[O(j)]
      BY <1>6, <1>a, <1>f, <1>g, ThreadFacts DEF VerifySecondPass, Add, Take, check_queue
    <2>4. UNCHANGED <<count, size, qlock>>
      BY <1>6 DEF VerifySecondPass
    <2> QED BY <1>c, <2>2, <2>3, <2>4 DEF Uncounted, UncountedOf
  <1>7. ASSUME NEW i \in 1..NVerify, NEW t \in Tasks, VerifyFail(i,
       t) PROVE CountsKept'
    <2>1. Verifier(i) \in Workers \ Okayers
      BY RoleSets
    <2>2. \A j \in 1..NOkay, r \in 1..MaxRuns : pc'[Okayer(j, r)] = pc[Okayer(j, r)]
      BY <1>7, <1>d, <2>1 DEF VerifyFail
    <2>3. \A j \in 1..NOkay : queue'[O(j)] = queue[O(j)] /\ tasks'[O(j)] = tasks[O(j)]
      BY <1>7, <1>a, <1>f, <1>g, ThreadFacts DEF VerifyFail, Add, Take, check_queue
    <2>4. UNCHANGED <<count, size, qlock>>
      BY <1>7 DEF VerifyFail, VerifyFrame
    <2> QED BY <1>c, <2>2, <2>3, <2>4 DEF Uncounted, UncountedOf
  <1>8. ASSUME NEW i \in 1..NVerify, NEW t \in Tasks, VerifyPass(i,
       t) PROVE CountsKept'
    <2>1. Verifier(i) \in Workers \ Okayers
      BY RoleSets
    <2>2. \A j \in 1..NOkay, r \in 1..MaxRuns : pc'[Okayer(j, r)] = pc[Okayer(j, r)]
      BY <1>8, <1>d, <2>1 DEF VerifyPass
    <2>3. \A j \in 1..NOkay : queue'[O(j)] = queue[O(j)] /\ tasks'[O(j)] = tasks[O(j)]
      BY <1>8, <1>a, <1>f, <1>g, ThreadFacts DEF VerifyPass, Add, Take, check_queue
    <2>4. UNCHANGED <<count, size, qlock>>
      BY <1>8 DEF VerifyPass, VerifyFrame
    <2> QED BY <1>c, <2>2, <2>3, <2>4 DEF Uncounted, UncountedOf
  <1>9. ASSUME NEW i \in 1..NVerify, NEW t \in Tasks, VerifyWait(i,
       t) PROVE CountsKept'
    BY <1>9, <1>c DEF VerifyWait, Uncounted, UncountedOf
  <1>10. ASSUME NEW i \in 1..NVerify, addSync(i) PROVE CountsKept'
    <2>1. Verifier(i) \in Workers \ Okayers
      BY RoleSets
    <2>2. \A j \in 1..NOkay, r \in 1..MaxRuns : pc'[Okayer(j, r)] = pc[Okayer(j, r)]
      BY <1>10, <1>d, <2>1 DEF addSync
    <2>3. \A j \in 1..NOkay : queue'[O(j)] = queue[O(j)] /\ tasks'[O(j)] = tasks[O(j)]
      BY <1>10, <1>a, <1>f, <1>g, ThreadFacts DEF addSync, Add, Take, check_queue
    <2>4. UNCHANGED <<count, size, qlock>>
      BY <1>10 DEF addSync
    <2> QED BY <1>c, <2>2, <2>3, <2>4 DEF Uncounted, UncountedOf
  <1>11. ASSUME NEW i \in 1..NVerify, addRecycle(Verifier(i), "drop timeouts",
       "timeouts") PROVE CountsKept'
    <2>1. Verifier(i) \in Workers \ Okayers
      BY RoleSets
    <2>2. \A j \in 1..NOkay, r \in 1..MaxRuns : pc'[Okayer(j, r)] = pc[Okayer(j, r)]
      BY <1>11, <1>d, <2>1 DEF addRecycle
    <2>3. \A j \in 1..NOkay : queue'[O(j)] = queue[O(j)] /\ tasks'[O(j)] = tasks[O(j)]
      BY <1>11, <1>a, <1>f, <1>g, ThreadFacts DEF addRecycle, Add, Take, check_queue
    <2>4. UNCHANGED <<count, size, qlock>>
      BY <1>11 DEF addRecycle
    <2> QED BY <1>c, <2>2, <2>3, <2>4 DEF Uncounted, UncountedOf
  <1>12. ASSUME NEW i \in 1..NVerify, addRecycle(Verifier(i), "drop receive",
       "receive") PROVE CountsKept'
    <2>1. Verifier(i) \in Workers \ Okayers
      BY RoleSets
    <2>2. \A j \in 1..NOkay, r \in 1..MaxRuns : pc'[Okayer(j, r)] = pc[Okayer(j, r)]
      BY <1>12, <1>d, <2>1 DEF addRecycle
    <2>3. \A j \in 1..NOkay : queue'[O(j)] = queue[O(j)] /\ tasks'[O(j)] = tasks[O(j)]
      BY <1>12, <1>a, <1>f, <1>g, ThreadFacts DEF addRecycle, Add, Take, check_queue
    <2>4. UNCHANGED <<count, size, qlock>>
      BY <1>12 DEF addRecycle
    <2> QED BY <1>c, <2>2, <2>3, <2>4 DEF Uncounted, UncountedOf
  <1>13. ASSUME SyncCheck PROVE CountsKept'
    <2>1. \A j \in 1..NOkay : queue'[O(j)] = queue[O(j)] /\ tasks'[O(j)] = tasks[O(j)]
      BY <1>13, <1>f, <1>g, ThreadFacts DEF SyncCheck, check_queue
    <2>2. UNCHANGED <<count, size, qlock, pc>>
      BY <1>13 DEF SyncCheck
    <2> QED BY <1>c, <2>1, <2>2 DEF Uncounted, UncountedOf
  <1>14. ASSUME NEW t \in Tasks, SyncAgreed(t) PROVE CountsKept'
    <2>1. Syncer \in Workers \ Okayers
      BY RoleSets
    <2>2. \A j \in 1..NOkay, r \in 1..MaxRuns : pc'[Okayer(j, r)] = pc[Okayer(j, r)]
      BY <1>14, <1>d, <2>1 DEF SyncAgreed
    <2>3. \A j \in 1..NOkay : queue'[O(j)] = queue[O(j)] /\ tasks'[O(j)] = tasks[O(j)]
      BY <1>14, <1>a, <1>f, <1>g, ThreadFacts DEF SyncAgreed, Add, Take, check_queue
    <2>4. UNCHANGED <<count, size, qlock>>
      BY <1>14 DEF SyncAgreed
    <2> QED BY <1>c, <2>2, <2>3, <2>4 DEF Uncounted, UncountedOf
  <1>15. ASSUME NEW t \in Tasks, SyncWait(t) PROVE CountsKept'
    BY <1>15, <1>c DEF SyncWait, Uncounted, UncountedOf
  <1>16. ASSUME NEW t \in Tasks, SyncRefused(t) PROVE CountsKept'
    <2>1. Syncer \in Workers \ Okayers
      BY RoleSets
    <2>2. \A j \in 1..NOkay, r \in 1..MaxRuns : pc'[Okayer(j, r)] = pc[Okayer(j, r)]
      BY <1>16, <1>d, <2>1 DEF SyncRefused
    <2>3. \A j \in 1..NOkay : queue'[O(j)] = queue[O(j)] /\ tasks'[O(j)] = tasks[O(j)]
      BY <1>16, <1>a, <1>f, <1>g, ThreadFacts DEF SyncRefused, Add, Take, check_queue
    <2>4. UNCHANGED <<count, size, qlock>>
      BY <1>16 DEF SyncRefused
    <2> QED BY <1>c, <2>2, <2>3, <2>4 DEF Uncounted, UncountedOf
  <1>17. ASSUME addOkayScan \/ addOkayCompare PROVE CountsKept'
    <2>1. Syncer \in Workers \ Okayers
      BY RoleSets
    <2>2. \A j \in 1..NOkay, r \in 1..MaxRuns : pc'[Okayer(j, r)] = pc[Okayer(j, r)]
      BY <1>17, <1>d, <2>1, Choosing
    <2>3. UNCHANGED <<queue, tasks, count, size, qlock>>
      BY <1>17, Choosing
    <2> QED BY <1>c, <2>2, <2>3 DEF Uncounted, UncountedOf
  <1>18. ASSUME addOkayCount PROVE CountsKept'
    <2>1. Syncer \in Workers \ Okayers
      BY RoleSets
    <2>2. \A j \in 1..NOkay, r \in 1..MaxRuns : pc'[Okayer(j, r)] = pc[Okayer(j, r)]
      BY <1>18, <1>d, <2>1 DEF addOkayCount
    <2>3. \A j \in 1..NOkay : queue'[O(j)] = queue[O(j)] /\ tasks'[O(j)] = tasks[O(j)]
      BY <1>18, <1>a, <1>f, <1>g, ThreadFacts DEF addOkayCount, Add, Take, check_queue
    <2>4. UNCHANGED <<count, size, qlock>>
      BY <1>18 DEF addOkayCount
    <2> QED BY <1>c, <2>2, <2>3, <2>4 DEF Uncounted, UncountedOf
  <1>19. ASSUME addOkaySize PROVE CountsKept'
    <2>1. Syncer \in Workers \ Okayers
      BY RoleSets
    <2>2. \A j \in 1..NOkay, r \in 1..MaxRuns : pc'[Okayer(j, r)] = pc[Okayer(j, r)]
      BY <1>19, <1>d, <2>1 DEF addOkaySize
    <2>3. \A j \in 1..NOkay : queue'[O(j)] = queue[O(j)] /\ tasks'[O(j)] = tasks[O(j)]
      BY <1>19, <1>a, <1>f, <1>g, ThreadFacts DEF addOkaySize, Add, Take, check_queue
    <2>4. UNCHANGED <<count, size, qlock>>
      BY <1>19 DEF addOkaySize
    <2> QED BY <1>c, <2>2, <2>3, <2>4 DEF Uncounted, UncountedOf
  <1>20. ASSUME NEW r \in 1..MaxRuns, addOkayStart(r) PROVE CountsKept'
    <2>1. \A j \in 1..NOkay, q \in 1..MaxRuns :
             \/ pc'[Okayer(j, q)] = pc[Okayer(j, q)]
             \/ pc[Okayer(j, q)] = "off" /\ pc'[Okayer(j, q)] = "boot"
      <3>1. nostart \in 1..NOkay
        BY <1>20, <1>a, Sizes DEF addOkayStart, TypeOK, RestTypes
      <3> QED BY <1>20, <1>a, <3>1, WorkerFacts DEF addOkayStart, LabelTypes
    <2>2. UNCHANGED <<count, size, qlock, queue, tasks>>
      BY <1>20 DEF addOkayStart
    <2> QED BY <1>c, <2>1, <2>2 DEF Uncounted, UncountedOf
  <1>21. ASSUME addOkayFailed PROVE CountsKept'
    <2>1. Syncer \in Workers \ Okayers
      BY RoleSets
    <2>2. \A j \in 1..NOkay, r \in 1..MaxRuns : pc'[Okayer(j, r)] = pc[Okayer(j, r)]
      BY <1>21, <1>d, <2>1 DEF addOkayFailed
    <2>3. \A j \in 1..NOkay : queue'[O(j)] = queue[O(j)] /\ tasks'[O(j)] = tasks[O(j)]
      BY <1>21, <1>a, <1>f, <1>g, ThreadFacts DEF addOkayFailed, Add, Take, check_queue
    <2>4. UNCHANGED <<count, size, qlock>>
      BY <1>21 DEF addOkayFailed
    <2> QED BY <1>c, <2>2, <2>3, <2>4 DEF Uncounted, UncountedOf
  <1>22. ASSUME addOkayAdd PROVE CountsKept'
    <2>1. /\ target \in 1..NOkay /\ qlock[target] = 0 /\ Syncer \in Workers \ Okayers
          /\ Goto(Syncer, "pass") /\ hand[Syncer] # NoTask
      BY <1>22, <1>a, RoleSets DEF addOkayAdd, TypeOK, RestTypes, HandFull, HandLabels
    <2>2. \A j \in 1..NOkay, r \in 1..MaxRuns : pc'[Okayer(j, r)] = pc[Okayer(j, r)]
      BY <1>d, <2>1
    <2>3. /\ UNCHANGED <<count, qlock, tasks>>
          /\ \A j \in 1..NOkay : size'[j] = IF j = target THEN size[j] + 1 ELSE size[j]
          /\ \A j \in 1..NOkay : queue'[O(j)] = IF j = target THEN queue[O(j)] \cup {hand[Syncer]}
                                                ELSE queue[O(j)]
      BY <1>22, <1>a, <2>1, ThreadFacts DEF addOkayAdd, Add, CountTypes, BoxTypes
    <2>4. \A r \in 1..MaxRuns : pc[Okayer(target, r)] # "move"
      BY <2>1, Sizes DEF CountsKept, CountsKeptOf
    <2>5. Cardinality(queue[O(target)] \cup {hand[Syncer]}) = Cardinality(queue[O(target)]) + 1
      <3>1. hand[Syncer] \notin queue[O(target)]
        BY <1>a, <2>1, ThreadFacts DEF SingleOwner
      <3>2. IsFiniteSet(queue[O(target)])
        BY <1>b, <2>1, ThreadFacts, TaskCounts
      <3> QED BY <3>1, <3>2, FS_AddElement
    <2>6. size[target] = Cardinality(queue[O(target)])
      BY <2>1, <2>4 DEF CountsKept, CountsKeptOf
    <2>7. target \in 1..NOkay
      BY <2>1
    <2>8. PICK k \in 1..NOkay : k = target
      BY <2>7
    <2>9. k \in 1..NOkay /\ \A j \in 1..NOkay : j # k => UncountedOf(j)
      BY <2>2, <2>3, <2>8 DEF UncountedOf
    <2>10. CountsKeptOf(k)'
      <3>1. /\ count'[k] = count[k] /\ tasks'[O(k)] = tasks[O(k)] /\ qlock'[k] = qlock[k]
            /\ \A r \in 1..MaxRuns : pc'[Okayer(k, r)] = pc[Okayer(k, r)]
            /\ \A r \in 1..MaxRuns : pc[Okayer(k, r)] # "move"
            /\ CountsKeptOf(k)
        BY <2>2, <2>3, <2>4, <2>8 DEF CountsKept
      <3>2. size'[k] = Cardinality(queue'[O(k)])
        BY <2>3, <2>5, <2>6, <2>8
      <3>3. size'[k] \in Nat
        BY <1>a, <2>3 DEF CountTypes
      <3> QED BY <3>1, <3>2, <3>3 DEF CountsKeptOf
    <2> QED BY <1>h, <2>9, <2>10
  <1>23. ASSUME addRecycle(Syncer, "drop", "pass") PROVE CountsKept'
    <2>1. Syncer \in Workers \ Okayers
      BY RoleSets
    <2>2. \A j \in 1..NOkay, r \in 1..MaxRuns : pc'[Okayer(j, r)] = pc[Okayer(j, r)]
      BY <1>23, <1>d, <2>1 DEF addRecycle
    <2>3. \A j \in 1..NOkay : queue'[O(j)] = queue[O(j)] /\ tasks'[O(j)] = tasks[O(j)]
      BY <1>23, <1>a, <1>f, <1>g, ThreadFacts DEF addRecycle, Add, Take, check_queue
    <2>4. UNCHANGED <<count, size, qlock>>
      BY <1>23 DEF addRecycle
    <2> QED BY <1>c, <2>2, <2>3, <2>4 DEF Uncounted, UncountedOf
  <1>24. ASSUME NEW i \in 1..NOkay, NEW r \in 1..MaxRuns, OkayBoot(i,
       r) PROVE CountsKept'
    <2>1. \A j \in 1..NOkay, q \in 1..MaxRuns :
             pc'[Okayer(j, q)] = IF j = i /\ q = r THEN "check" ELSE pc[Okayer(j, q)]
      BY <1>24, <1>e DEF OkayBoot
    <2>2. pc[Okayer(i, r)] = "boot"
      BY <1>24 DEF OkayBoot
    <2>3. \A j \in 1..NOkay : queue'[O(j)] = queue[O(j)] /\ tasks'[O(j)] = tasks[O(j)]
      BY <1>24, <1>f, <1>g, ThreadFacts DEF OkayBoot
    <2>4. UNCHANGED <<count, size, qlock>>
      BY <1>24 DEF OkayBoot
    <2> QED BY <1>c, <2>1, <2>2, <2>3, <2>4 DEF Uncounted, UncountedOf
  <1>25. ASSUME NEW i \in 1..NOkay, NEW r \in 1..MaxRuns, OkayCheck(i,
       r) PROVE CountsKept'
    <2>1. \A j \in 1..NOkay, q \in 1..MaxRuns :
             pc'[Okayer(j, q)] = IF j = i /\ q = r THEN "move" ELSE pc[Okayer(j, q)]
      BY <1>25, <1>e DEF OkayCheck
    <2>2. \A j \in 1..NOkay : qlock'[j] = IF j = i THEN r ELSE qlock[j]
      BY <1>25, <1>a DEF OkayCheck, CountTypes
    <2>3. UNCHANGED <<count, size, queue, tasks>> /\ qlock[i] = 0
      BY <1>25 DEF OkayCheck
    <2>4. \A q \in 1..MaxRuns : pc[Okayer(i, q)] # "move"
      BY <2>3, Sizes DEF CountsKept, CountsKeptOf
    <2>5. size[i] = Cardinality(queue[O(i)])
      BY <2>4 DEF CountsKept, CountsKeptOf
    <2>8. \A j \in 1..NOkay : j # i => UncountedOf(j)
      BY <2>1, <2>2, <2>3 DEF UncountedOf
    <2>9. CountsKeptOf(i)'
      BY <2>1, <2>2, <2>3, <2>4, <2>5 DEF CountsKept, CountsKeptOf
    <2> QED BY <1>h, <2>8, <2>9
  <1>26. ASSUME NEW i \in 1..NOkay, NEW r \in 1..MaxRuns, NEW t \in Tasks,
       OkayAdd(i, r, t) PROVE CountsKept'
    <2>1. /\ UNCHANGED <<size, qlock, pc>> /\ pc[Okayer(i, r)] = "move" /\ t \in queue[O(i)]
          /\ \A j \in 1..NOkay : count'[j] = IF j = i THEN Cardinality(tasks'[O(j)]) ELSE count[j]
          /\ \A j \in 1..NOkay : queue'[O(j)] = IF j = i THEN queue[O(j)] \ {t} ELSE queue[O(j)]
          /\ \A j \in 1..NOkay : j # i => tasks'[O(j)] = tasks[O(j)]
      BY <1>26, <1>a, ThreadFacts DEF OkayAdd, CountTypes, BoxTypes
    <2>2. size[i] >= Cardinality(queue'[O(i)])
      <3>1. IsFiniteSet(queue[O(i)]) /\ Cardinality(queue[O(i)]) \in Nat
        BY <1>b, ThreadFacts, TaskCounts
      <3>2. Cardinality(queue[O(i)] \ {t}) = Cardinality(queue[O(i)]) - 1
        BY <2>1, <3>1, FS_RemoveElement
      <3>3. size[i] \in Nat /\ size[i] >= Cardinality(queue[O(i)])
        BY <1>a DEF CountTypes, CountsKept, CountsKeptOf
      <3>4. queue'[O(i)] = queue[O(i)] \ {t}
        BY <2>1
      <3> QED BY <3>1, <3>2, <3>3, <3>4
    <2>8. \A j \in 1..NOkay : j # i => UncountedOf(j)
      BY <2>1 DEF UncountedOf
    <2>9. CountsKeptOf(i)'
      BY <2>1, <2>2 DEF CountsKept, CountsKeptOf
    <2> QED BY <1>h, <2>8, <2>9
  <1>27. ASSUME NEW i \in 1..NOkay, NEW r \in 1..MaxRuns, OkayClear(i,
       r) PROVE CountsKept'
    <2>1. \A j \in 1..NOkay, q \in 1..MaxRuns :
             pc'[Okayer(j, q)] = IF j = i /\ q = r THEN "lock" ELSE pc[Okayer(j, q)]
      BY <1>27, <1>e DEF OkayClear
    <2>2. /\ UNCHANGED <<count, queue, tasks>> /\ pc[Okayer(i, r)] = "move" /\ queue[O(i)] = {}
          /\ \A j \in 1..NOkay : size'[j] = IF j = i THEN 0 ELSE size[j]
          /\ \A j \in 1..NOkay : qlock'[j] = IF j = i THEN 0 ELSE qlock[j]
      BY <1>27, <1>a DEF OkayClear, CountTypes
    <2>3. qlock[i] = r
      BY <2>2 DEF CountsKept, CountsKeptOf
    <2>4. \A q \in 1..MaxRuns : q # r => pc[Okayer(i, q)] # "move"
      BY <2>3 DEF CountsKept, CountsKeptOf
    <2>5. Cardinality(queue[O(i)]) = 0
      BY <2>2, FS_EmptySet
    <2>8. \A j \in 1..NOkay : j # i => UncountedOf(j)
      BY <2>1, <2>2 DEF UncountedOf
    <2>9. CountsKeptOf(i)'
      BY <2>1, <2>2, <2>3, <2>4, <2>5, Sizes DEF CountsKept, CountsKeptOf
    <2> QED BY <1>h, <2>8, <2>9
  <1>28. ASSUME NEW i \in 1..NOkay, NEW r \in 1..MaxRuns, OkayLock(i,
       r) PROVE CountsKept'
    <2>1. \A j \in 1..NOkay, q \in 1..MaxRuns :
             pc'[Okayer(j, q)] = IF j = i /\ q = r THEN "pass" ELSE pc[Okayer(j, q)]
      BY <1>28, <1>e DEF OkayLock
    <2>2. pc[Okayer(i, r)] = "lock"
      BY <1>28 DEF OkayLock
    <2>3. \A j \in 1..NOkay : queue'[O(j)] = queue[O(j)] /\ tasks'[O(j)] = tasks[O(j)]
      BY <1>28, <1>f, <1>g, ThreadFacts DEF OkayLock
    <2>4. UNCHANGED <<count, size, qlock>>
      BY <1>28 DEF OkayLock
    <2> QED BY <1>c, <2>1, <2>2, <2>3, <2>4 DEF Uncounted, UncountedOf
  <1>29. ASSUME NEW i \in 1..NOkay, NEW r \in 1..MaxRuns, NEW t \in Tasks,
       OkayEnd(i, r, t) PROVE CountsKept'
    <2>1. \A j \in 1..NOkay, q \in 1..MaxRuns :
             pc'[Okayer(j, q)] = IF j = i /\ q = r THEN "drop" ELSE pc[Okayer(j, q)]
      BY <1>29, <1>e DEF OkayEnd
    <2>2. /\ UNCHANGED <<size, qlock, queue>> /\ pc[Okayer(i, r)] = "pass"
          /\ \A j \in 1..NOkay : count'[j] = IF j = i THEN Cardinality(tasks'[O(j)]) ELSE count[j]
          /\ \A j \in 1..NOkay : j # i => tasks'[O(j)] = tasks[O(j)]
      BY <1>29, <1>a, ThreadFacts DEF OkayEnd, Take, CountTypes, BoxTypes
    <2>8. \A j \in 1..NOkay : j # i => UncountedOf(j)
      BY <2>1, <2>2 DEF UncountedOf
    <2>9. CountsKeptOf(i)'
      BY <2>1, <2>2 DEF CountsKept, CountsKeptOf
    <2> QED BY <1>h, <2>8, <2>9
  <1>30. ASSUME NEW i \in 1..NOkay, NEW r \in 1..MaxRuns, NEW t \in Tasks,
       OkayKeep(i, r, t) PROVE CountsKept'
    BY <1>30, <1>c DEF OkayKeep, Uncounted, UncountedOf
  <1>31. ASSUME NEW i \in 1..NOkay, NEW r \in 1..MaxRuns, OkayUnlock(i,
       r) PROVE CountsKept'
    <2>1. \A j \in 1..NOkay, q \in 1..MaxRuns :
             pc'[Okayer(j, q)] = IF j = i /\ q = r THEN "poll" ELSE pc[Okayer(j, q)]
      BY <1>31, <1>e DEF OkayUnlock
    <2>2. pc[Okayer(i, r)] = "pass"
      BY <1>31 DEF OkayUnlock
    <2>3. \A j \in 1..NOkay : queue'[O(j)] = queue[O(j)] /\ tasks'[O(j)] = tasks[O(j)]
      BY <1>31, <1>f, <1>g, ThreadFacts DEF OkayUnlock
    <2>4. UNCHANGED <<count, size, qlock>>
      BY <1>31 DEF OkayUnlock
    <2> QED BY <1>c, <2>1, <2>2, <2>3, <2>4 DEF Uncounted, UncountedOf
  <1>32. ASSUME NEW i \in 1..NOkay, NEW r \in 1..MaxRuns, OkayPoll(i,
       r) PROVE CountsKept'
    <2>1. \A j \in 1..NOkay, q \in 1..MaxRuns :
             pc'[Okayer(j, q)] = IF j = i /\ q = r THEN "check" ELSE pc[Okayer(j, q)]
      BY <1>32, <1>e DEF OkayPoll
    <2>2. pc[Okayer(i, r)] = "poll"
      BY <1>32 DEF OkayPoll
    <2>3. \A j \in 1..NOkay : queue'[O(j)] = queue[O(j)] /\ tasks'[O(j)] = tasks[O(j)]
      BY <1>32, <1>f, <1>g, ThreadFacts DEF OkayPoll
    <2>4. UNCHANGED <<count, size, qlock>>
      BY <1>32 DEF OkayPoll
    <2> QED BY <1>c, <2>1, <2>2, <2>3, <2>4 DEF Uncounted, UncountedOf
  <1>33. ASSUME NEW i \in 1..NOkay, NEW r \in 1..MaxRuns, addRecycle(Okayer(i,
       r), "drop", "pass") PROVE CountsKept'
    <2>1. \A j \in 1..NOkay, q \in 1..MaxRuns :
             pc'[Okayer(j, q)] = IF j = i /\ q = r THEN "pass" ELSE pc[Okayer(j, q)]
      BY <1>33, <1>e DEF addRecycle
    <2>2. pc[Okayer(i, r)] = "drop"
      BY <1>33 DEF addRecycle
    <2>3. \A j \in 1..NOkay : queue'[O(j)] = queue[O(j)] /\ tasks'[O(j)] = tasks[O(j)]
      BY <1>33, <1>f, <1>g, ThreadFacts DEF addRecycle, Add
    <2>4. UNCHANGED <<count, size, qlock>>
      BY <1>33 DEF addRecycle
    <2> QED BY <1>c, <2>1, <2>2, <2>3, <2>4 DEF Uncounted, UncountedOf
  <1>34. ASSUME RecycleCheck PROVE CountsKept'
    <2>1. \A j \in 1..NOkay : queue'[O(j)] = queue[O(j)] /\ tasks'[O(j)] = tasks[O(j)]
      BY <1>34, <1>f, <1>g, ThreadFacts DEF RecycleCheck, check_queue
    <2>2. UNCHANGED <<count, size, qlock, pc>>
      BY <1>34 DEF RecycleCheck
    <2> QED BY <1>c, <2>1, <2>2 DEF Uncounted, UncountedOf
  <1>35. ASSUME NEW t \in Tasks, RecycleDelete(t) PROVE CountsKept'
    <2>1. \A j \in 1..NOkay : queue'[O(j)] = queue[O(j)] /\ tasks'[O(j)] = tasks[O(j)]
      BY <1>35, <1>f, <1>g, ThreadFacts DEF RecycleDelete, check_queue, Destroy
    <2>2. UNCHANGED <<count, size, qlock, pc>>
      BY <1>35 DEF RecycleDelete, Destroy
    <2> QED BY <1>c, <2>1, <2>2 DEF Uncounted, UncountedOf
  <1>36. ASSUME NEW t \in Tasks, RecycleWait(t) PROVE CountsKept'
    BY <1>36, <1>c DEF RecycleWait, Uncounted, UncountedOf
  <1>37. ASSUME NEW t \in Tasks, Disconnect(t) PROVE CountsKept'
    BY <1>37, <1>c DEF Disconnect, Uncounted, UncountedOf
  <1>38. ASSUME NEW t \in Tasks, Deadline(t) PROVE CountsKept'
    BY <1>38, <1>c DEF Deadline, Uncounted, UncountedOf
  <1>39. ASSUME NEW t \in Tasks, Terminate(t) PROVE CountsKept'
    BY <1>39, <1>c DEF Terminate, Uncounted, UncountedOf
  <1>40. ASSUME UNCHANGED vars PROVE CountsKept'
    BY <1>40, <1>c DEF vars, Uncounted, UncountedOf
  <1> QED
    BY <1>1, <1>2, <1>3, <1>4, <1>5, <1>6, <1>7, <1>8, <1>9, <1>10, <1>11,
       <1>12, <1>13, <1>14, <1>15, <1>16, <1>17, <1>18, <1>19, <1>20, <1>21,
       <1>22, <1>23, <1>24, <1>25, <1>26, <1>27, <1>28, <1>29, <1>30, <1>31,
       <1>32, <1>33, <1>34, <1>35, <1>36, <1>37, <1>38, <1>39,
       <1>40 DEF ServeNext, AcceptStep, VerifyStep, SyncStep, addOkayLoop, OkayStep,
       RecycleStep, Around

LEMMA InitCountsKept == Init => CountsKept
  <1> SUFFICES ASSUME Init, NEW i \in 1..NOkay PROVE CountsKeptOf(i)
    BY DEF CountsKept
  <1>1. \A r \in 1..MaxRuns : pc[Okayer(i, r)] \in {"boot", "off"}
    BY RoleSets, WorkerFacts DEF Init, LoopEnd
  <1>2. count[i] = 0 /\ size[i] = 0 /\ qlock[i] = 0
    BY DEF Init
  <1>3. queue[O(i)] = {} /\ tasks[O(i)] = {}
    BY ThreadFacts DEF Init
  <1>4. Cardinality({}) = 0
    BY FS_EmptySet
  <1> QED BY <1>1, <1>2, <1>3, <1>4, Sizes DEF CountsKeptOf

\* size(), read in one instant, never tells less than the tasks an okay thread
\* has been given, and exactly that while nobody is in check_queue
\* (zTCPTaskPool.cpp:335-344, 383-386, 425-427).
THEOREM CountsAreTrue == ServeSpec => []CountsTrue
  <1>1. ServeInv /\ CountsKept => CountsTrue
    <2> SUFFICES ASSUME ServeInv, CountsKept, NEW i \in 1..NOkay
                 PROVE  /\ Load(i) >= Given(i)
                        /\ qlock[i] = 0 => Load(i) = Given(i)
      BY DEF CountsTrue
    <2>1. /\ size[i] \in Nat /\ count[i] = Cardinality(tasks[O(i)])
          /\ Cardinality(tasks[O(i)]) \in Nat /\ Cardinality(queue[O(i)]) \in Nat
      <3>1. queue[O(i)] \in SUBSET Tasks /\ tasks[O(i)] \in SUBSET Tasks
        BY ThreadFacts DEF ServeInv, TypeOK, BoxTypes
      <3>2. size[i] \in Nat
        BY DEF ServeInv, TypeOK, CountTypes
      <3> QED BY <3>1, <3>2, TaskCounts DEF CountsKept, CountsKeptOf
    <2>2. CASE \E r \in 1..MaxRuns : pc[Okayer(i, r)] = "move"
      <3>1. qlock[i] # 0 /\ size[i] >= Cardinality(queue[O(i)])
        BY <2>2, Sizes DEF CountsKept, CountsKeptOf
      <3> QED BY <2>1, <3>1 DEF Load, Given
    <2>3. CASE size[i] = Cardinality(queue[O(i)])
      BY <2>1, <2>3 DEF Load, Given
    <2> QED BY <2>2, <2>3 DEF CountsKept, CountsKeptOf
  <1>2. ServeInv /\ CountsKept /\ [ServeNext]_vars => CountsKept'
    BY CountsStep
  <1> QED BY <1>1, <1>2, InitCountsKept, ServeInvariant, PTL DEF ServeSpec

\* A task that serves or is about to is in the outer container of unique tasks,
\* and what is in there is allocated and will be taken out (zTCPTask.cpp:76-131,
\* zTCPTaskPool.cpp:573-583).
THEOREM UniqueAgrees == ServeSpec => []UniqueHeld
  <1>1. ServeInv => UniqueHeld
    BY DEF ServeInv
  <1> QED BY <1>1, ServeInvariant, PTL

-----------------------------------------------------------------------------
(* The orderly stop, at any time and with any number of runs: what holds    *)
(* under Spec.                                                              *)

\* The statements of a worker that has ended or has not been started, and those
\* inside addOkay.
Ended == {"done", "off"}
InAddOkay == ChoiceLabels \cup {"addOkay"}

\* Only a verify thread calls addSync, and only the sync thread addOkay.
CallersAre == \A w \in Workers :
    /\ pc[w] = "addSync" => w \in Verifiers
    /\ pc[w] \in InAddOkay => w = Syncer

\* final() joins each thread before it tells the next one to end.
JoinsEach == /\ joined <= stopping /\ stopping <= joined + 1
             /\ joining # 0 => joined < stopping

\* What has been joined has ended, and is not started again.
JoinedEnded == \A k \in 1..joined, w \in Workers :
    Object(w) = JoinOrder[k] => pc[w] \in Ended

\* A thread none of whose runs is under way has left nothing in its vector.
EndedEmpty == \A th \in Threads :
    (\A w \in Workers : Object(w) = th => pc[w] \in Ended) => tasks[th] = {}

\* No allocated task has been lost from sight.
Covered == \A t \in live : Held(t)

StopInv ==
    /\ TypeOK /\ HandFull /\ CallersAre /\ JoinsEach /\ JoinedEnded /\ EndedEmpty /\ Covered


\* A worker that has a task in hand is at work.
LEMMA HoldingWorks == HandLabels \cap Ended = {} /\ "addSync" \in HandLabels /\ InAddOkay \subseteq HandLabels
  BY DEF HandLabels, Ended, InAddOkay

\* One worker, at work, goes from one statement to another.
Goes(w, from, to) ==
    /\ w \in Workers /\ pc[w] = from /\ from \notin Ended
    /\ pc' = [pc EXCEPT ![w] = to]
    /\ to = "addSync" => w \in Verifiers
    /\ to \in InAddOkay => w = Syncer
    /\ UNCHANGED <<stopping, joined, joining>>

\* What it may do to the vectors and hands on its way.
Orderly(w, to) ==
    /\ \A u \in Workers : u # w => hand'[u] = hand[u]
    /\ hand'[w] # NoTask <=> to \in HandLabels
    /\ \A th \in Threads : tasks'[th] \subseteq tasks[th] \/ (th = Object(w) /\ to \notin Ended)
    /\ to \in Ended => tasks'[Object(w)] = {}
    /\ Covered'

LEMMA WorkerStep ==
    ASSUME StopInv, TypeOK', NEW w, NEW from, NEW to, Goes(w, from, to), Orderly(w, to)
    PROVE  StopInv'
  <1>1. w \in Workers /\ pc[w] \notin Ended /\ joined' = joined /\ stopping' = stopping
    BY DEF Goes
  <1>2. \A u \in Workers : pc'[u] = IF u = w THEN to ELSE pc[u]
    BY DEF Goes, StopInv, TypeOK, LabelTypes
  <1>3. HandFull'
    BY <1>1, <1>2 DEF StopInv, HandFull, Orderly
  <1>4. CallersAre'
    BY <1>2 DEF StopInv, CallersAre, Goes
  <1>5. JoinsEach'
    BY <1>1 DEF StopInv, JoinsEach, Goes
  <1>6. JoinedEnded'
    BY <1>1, <1>2 DEF StopInv, JoinedEnded
  <1>7. EndedEmpty'
    <2> SUFFICES ASSUME NEW th \in Threads,
                        \A u \in Workers : Object(u) = th => pc'[u] \in Ended
                 PROVE  tasks'[th] = {}
      BY DEF EndedEmpty
    <2>1. CASE Object(w) = th
      BY <1>1, <1>2, <2>1 DEF Orderly
    <2>2. CASE Object(w) # th
      <3>1. \A u \in Workers : Object(u) = th => pc[u] \in Ended
        BY <1>2, <2>2
      <3>2. tasks[th] = {} /\ tasks'[th] \subseteq tasks[th]
        BY <2>2, <3>1 DEF StopInv, EndedEmpty, Orderly
      <3> QED BY <3>2
    <2> QED BY <2>1, <2>2
  <1> QED BY <1>3, <1>4, <1>5, <1>6, <1>7 DEF StopInv, Orderly

\* The ways a task is kept in sight: nothing moves, a task goes from a vector to
\* a hand, from a hand to a queue, or a whole queue into its vector.
LEMMA StayCovers ==
    ASSUME Covered, UNCHANGED <<queue, tasks, hand, live>> PROVE Covered'
  BY DEF Covered, Held

LEMMA TakeCovers ==
    ASSUME TypeOK, Covered, NEW w \in Workers, NEW th \in Threads, NEW t \in Tasks,
           hand[w] = NoTask, Take(w, th, t), queue' = queue, live' = live
    PROVE  Covered'
  BY TasksAssumption DEF Covered, Held, Take, TypeOK, TaskTypes, BoxTypes

LEMMA AddCovers ==
    ASSUME TypeOK, Covered, NEW w \in Workers, NEW th \in Threads,
           Add(w, th), tasks' = tasks, live' = live
    PROVE  Covered'
  BY TasksAssumption DEF Covered, Held, Add, TypeOK, TaskTypes, BoxTypes

LEMMA MoveCovers ==
    ASSUME TypeOK, Covered, NEW th \in Threads, NEW X \in SUBSET queue[th], Moved(th, X), UNCHANGED <<hand, live>>
    PROVE  Covered'
  BY DEF Covered, Held, Moved, TypeOK, TaskTypes, BoxTypes

LEMMA DropCovers ==
    ASSUME TypeOK, Covered, NEW t \in Tasks, Dropped(t), UNCHANGED <<hand, queue>>
    PROVE  Covered'
  BY ThreadFacts DEF Covered, Held, Dropped, TypeOK, TaskTypes, BoxTypes

\* The steps of a worker, by what they do to the tasks.
LEMMA QuietStep ==
    ASSUME StopInv, TypeOK', NEW w, NEW from, NEW to, Goes(w, from, to),
           from \in HandLabels <=> to \in HandLabels,
           to \in Ended => tasks[Object(w)] = {},
           UNCHANGED <<queue, tasks, hand, live>>
    PROVE  StopInv'
  <1>1. Covered'
    BY StayCovers DEF StopInv
  <1>2. Orderly(w, to)
    BY <1>1 DEF Orderly, Goes, StopInv, HandFull
  <1> QED BY <1>2, WorkerStep

LEMMA TakeStep ==
    ASSUME StopInv, TypeOK', NEW w, NEW from, NEW to, Goes(w, from, to),
           from \notin HandLabels, to \in HandLabels,
           NEW th \in Threads, NEW t \in Tasks, Take(w, th, t), UNCHANGED <<queue, live>>
    PROVE  StopInv'
  <1>1. w \in Workers /\ hand[w] = NoTask
    BY DEF Goes, StopInv, HandFull
  <1>2. Covered'
    BY <1>1, TakeCovers DEF StopInv
  <1>3. /\ \A u \in Workers : hand'[u] = IF u = w THEN t ELSE hand[u]
        /\ \A x \in Threads : tasks'[x] \subseteq tasks[x]
    BY DEF Take, StopInv, TypeOK, BoxTypes
  <1>4. t # NoTask /\ to \notin Ended
    BY TasksAssumption, HoldingWorks
  <1>5. Orderly(w, to)
    BY <1>1, <1>2, <1>3, <1>4 DEF Orderly
  <1> QED BY <1>5, WorkerStep

LEMMA AddStep ==
    ASSUME StopInv, TypeOK', NEW w, NEW from, NEW to, Goes(w, from, to),
           to \notin HandLabels, to \notin Ended,
           NEW th \in Threads, Add(w, th), UNCHANGED <<tasks, live>>
    PROVE  StopInv'
  <1>1. w \in Workers
    BY DEF Goes
  <1>2. Covered'
    BY <1>1, AddCovers DEF StopInv
  <1>3. \A u \in Workers : hand'[u] = IF u = w THEN NoTask ELSE hand[u]
    BY DEF Add, StopInv, TypeOK, BoxTypes
  <1>4. Orderly(w, to)
    BY <1>1, <1>2, <1>3 DEF Orderly
  <1> QED BY <1>4, WorkerStep

LEMMA MoveStep ==
    ASSUME StopInv, TypeOK', NEW w, NEW from, NEW to, Goes(w, from, to),
           from \notin HandLabels, to \notin HandLabels, to \notin Ended,
           NEW th \in Threads, th = Object(w), Moved(th, queue[th]), UNCHANGED <<hand, live>>
    PROVE  StopInv'
  <1>1. Covered'
    BY MoveCovers DEF StopInv
  <1>2. \A x \in Threads : x # th => tasks'[x] = tasks[x]
    BY DEF Moved, StopInv, TypeOK, BoxTypes
  <1>3. Orderly(w, to)
    BY <1>1, <1>2 DEF Orderly, Goes, StopInv, HandFull
  <1> QED BY <1>3, WorkerStep

LEMMA OneMoves ==
    ASSUME StopInv, TypeOK', NEW w \in Workers, pc[w] \notin Ended, NEW th \in Threads,
           th = Object(w), NEW t \in queue[th], Moved(th, {t}),
           UNCHANGED <<pc, hand, live, stopping, joined, joining>>
    PROVE  StopInv'
  <1>1. Covered'
    BY MoveCovers DEF StopInv
  <1>2. \A x \in Threads : x # th => tasks'[x] = tasks[x]
    BY DEF Moved, StopInv, TypeOK, BoxTypes
  <1>3. EndedEmpty'
    BY <1>2 DEF StopInv, EndedEmpty
  <1> QED
    BY <1>1, <1>3 DEF StopInv, HandFull, CallersAre, JoinsEach, JoinedEnded

LEMMA DropStep ==
    ASSUME StopInv, TypeOK', NEW t \in Tasks, Dropped(t),
           UNCHANGED <<pc, queue, hand, stopping, joined, joining>>
    PROVE  StopInv'
  <1>1. Covered'
    BY DropCovers DEF StopInv
  <1>2. \A th \in Threads : tasks'[th] \subseteq tasks[th]
    BY ThreadFacts DEF Dropped, StopInv, TypeOK, BoxTypes
  <1>3. EndedEmpty'
    BY <1>2 DEF StopInv, EndedEmpty
  <1> QED
    BY <1>1, <1>3 DEF StopInv, HandFull, CallersAre, JoinsEach, JoinedEnded

LEMMA StillStep ==
    ASSUME StopInv, TypeOK', UNCHANGED <<pc, queue, tasks, hand, live, stopping, joined, joining>>
    PROVE  StopInv'
  <1>1. Covered'
    BY StayCovers DEF StopInv
  <1> QED
    BY <1>1 DEF StopInv, HandFull, CallersAre, JoinsEach, JoinedEnded, EndedEmpty

\* Where the threads stand in the order of the stop.
LEMMA JoinOrderIs ==
    /\ JoinCount \in Nat /\ NVerify + 1 \in 1..JoinCount
    /\ \A k \in 1..NVerify : JoinOrder[k] \in VerifyThreads
    /\ JoinOrder[NVerify + 1] = S
    /\ \A k \in (NVerify + 2)..(JoinCount - 1) : JoinOrder[k] \in OkayThreads
    /\ JoinOrder[JoinCount] = R
    /\ \A i \in 1..NVerify : NVerify + 1 - i \in 1..NVerify /\ JoinOrder[NVerify + 1 - i] = V(i)
    /\ \A i \in 1..NOkay : /\ JoinCount - i \in (NVerify + 2)..(JoinCount - 1)
                           /\ JoinOrder[JoinCount - i] = O(i)
  <1>1. NVerify \in Nat /\ NOkay \in Nat /\ NVerify >= 1 /\ NOkay >= 1
    BY Sizes
  <1>2. JoinCount = NVerify + NOkay + 2 /\ JoinCount \in Nat
    BY <1>1 DEF JoinCount
  <1>3. \A k \in 1..JoinCount : JoinOrder[k] =
           IF k <= NVerify THEN V(NVerify + 1 - k)
           ELSE IF k = NVerify + 1 THEN S
           ELSE IF k < JoinCount THEN O(JoinCount - k)
           ELSE R
    BY DEF JoinOrder
  <1> HIDE DEF JoinCount, JoinOrder
  <1>4. \A k \in 1..NVerify : k \in 1..JoinCount /\ NVerify + 1 - k \in 1..NVerify
    BY <1>1, <1>2
  <1>5. \A k \in 1..NVerify : JoinOrder[k] = V(NVerify + 1 - k)
    BY <1>1, <1>3, <1>4
  <1>6. NVerify + 1 \in 1..JoinCount /\ ~(NVerify + 1 <= NVerify) /\ JoinCount \in 1..JoinCount
    BY <1>1, <1>2
  <1>7. JoinOrder[NVerify + 1] = S
    BY <1>3, <1>6
  <1>8. \A k \in (NVerify + 2)..(JoinCount - 1) :
           /\ k \in 1..JoinCount /\ ~(k <= NVerify) /\ k # NVerify + 1 /\ k < JoinCount
           /\ JoinCount - k \in 1..NOkay
    BY <1>1, <1>2
  <1>9. \A k \in (NVerify + 2)..(JoinCount - 1) : JoinOrder[k] = O(JoinCount - k)
    BY <1>3, <1>8
  <1>10. ~(JoinCount <= NVerify) /\ JoinCount # NVerify + 1 /\ ~(JoinCount < JoinCount)
    BY <1>1, <1>2
  <1>11. JoinOrder[JoinCount] = R
    BY <1>3, <1>6, <1>10
  <1>12. \A i \in 1..NVerify : /\ NVerify + 1 - i \in 1..NVerify
                               /\ NVerify + 1 - (NVerify + 1 - i) = i
    BY <1>1
  <1>13. \A i \in 1..NOkay : /\ JoinCount - i \in (NVerify + 2)..(JoinCount - 1)
                             /\ JoinCount - (JoinCount - i) = i
    BY <1>1, <1>2
  <1>14. \A k \in 1..NVerify : JoinOrder[k] \in VerifyThreads
    BY <1>4, <1>5 DEF VerifyThreads
  <1>15. \A k \in (NVerify + 2)..(JoinCount - 1) : JoinOrder[k] \in OkayThreads
    BY <1>8, <1>9 DEF OkayThreads
  <1>16. \A i \in 1..NVerify : JoinOrder[NVerify + 1 - i] = V(i)
    BY <1>5, <1>12
  <1>17. \A i \in 1..NOkay : JoinOrder[JoinCount - i] = O(i)
    BY <1>9, <1>13
  <1> QED BY <1>2, <1>6, <1>7, <1>11, <1>12, <1>13, <1>14, <1>15, <1>16, <1>17


LEMMA OrderedThreads == \A k \in 1..JoinCount : JoinOrder[k] \in Threads
  <1>1. NVerify \in Nat /\ JoinCount \in Nat
    BY Sizes, JoinOrderIs
  <1> HIDE DEF JoinCount, JoinOrder
  <1>2. \A k \in 1..JoinCount : \/ k \in 1..NVerify \/ k = NVerify + 1
                               \/ k \in (NVerify + 2)..(JoinCount - 1) \/ k = JoinCount
    BY <1>1
  <1> QED BY <1>2, JoinOrderIs DEF Threads

\* The steps of the stop keep the types too.
LEMMA StopTypes == ASSUME TypeOK, HandFull, JoinsEach, StopStep PROVE TypeOK'
  <1> USE DEF taskVars, outerVars, boxVars, okayVars, flowVars, callVars, acceptVars, finalVars
  <1>a. TaskTypes /\ BoxTypes /\ LabelTypes /\ CountTypes /\ RestTypes
    BY DEF TypeOK
  <1>b. R \in Threads /\ S \in Threads /\ Recycler \in Workers /\ Accepter \in Workers
    BY ThreadFacts, RoleSets
  <1>c. UNCHANGED <<taskVars, outerVars, boxVars, okayVars, hand, todo, callVars, acceptVars>>
        /\ RestTypes' /\ LabelTypes' => TypeOK'
    BY <1>a DEF TypeOK, TaskTypes, BoxTypes, CountTypes
  <1>d. joined \in Nat /\ stopping \in Nat /\ stopping <= JoinCount /\ JoinCount \in Nat
    BY <1>a, JoinOrderIs DEF RestTypes
  <1> HIDE DEF JoinCount, JoinOrder
  <1>1. ASSUME FinalNext PROVE TypeOK'
    <2>1. stopping' \in 0..JoinCount
      BY <1>1, <1>d DEF FinalNext
    <2> QED BY <1>1, <1>a, <1>c, <2>1 DEF FinalNext, RestTypes, LabelTypes
  <1>2. ASSUME Join PROVE TypeOK'
    <2>1. stopping \in 1..JoinCount
      BY <1>2, <1>d DEF Join
    <2>2. joining' \in 0..MaxRuns /\ died' \in BOOLEAN
      BY <1>2, <1>a, <2>1, OrderedThreads DEF Join, RestTypes
    <2> QED BY <1>2, <1>a, <1>c, <2>2 DEF Join, RestTypes, LabelTypes
  <1>15. ASSUME JoinReturn PROVE TypeOK'
    <2>1. joined' \in 0..JoinCount
      <3>1. joined' \in {joined, joined + 1} /\ joined < stopping
        BY <1>15 DEF JoinReturn, JoinsEach
      <3> QED BY <1>d, <3>1
    <2>2. joining' = 0 /\ died' \in BOOLEAN
      BY <1>15 DEF JoinReturn
    <2> QED BY <1>15, <1>a, <1>c, <2>1, <2>2, Sizes DEF JoinReturn, RestTypes, LabelTypes
  <1>16. ASSUME addVerifyDeleted PROVE TypeOK'
    BY <1>16, <1>a, <1>c DEF addVerifyDeleted, RestTypes, LabelTypes
  <1>3. ASSUME newTCPTaskRefused PROVE TypeOK'
    <2>1. (hashCode + 1) % NVerify \in 0..(NVerify - 1)
      BY <1>a, Sizes DEF RestTypes
    <2>2. RestTypes' /\ LabelTypes'
      BY <1>3, <1>a, <2>1 DEF newTCPTaskRefused, RestTypes, Goto, LabelTypes, Labels
    <2> QED
      BY <1>3, <1>a, <2>2 DEF newTCPTaskRefused, TypeOK, TaskTypes, BoxTypes, CountTypes
  <1>4. ASSUME NEW w \in Workers, NEW th \in Threads, Leave(w, th) PROVE TypeOK'
    BY <1>4, <1>a, <1>c DEF Leave, Goto, LabelTypes, Labels, RestTypes
  <1>5. ASSUME NEW w \in Workers, NEW th \in Threads, Exit(w, th) PROVE TypeOK'
    <2>1. LabelTypes'
      BY <1>5, <1>a DEF Exit, Goto, LabelTypes, Labels
    <2>2. RestTypes'
      BY <1>5, <1>a, Sizes DEF Exit, Clear, RestTypes
    <2>3. CountTypes'
      BY <1>5, <1>a DEF Exit, Clear, CountTypes
    <2>4. TaskTypes' /\ BoxTypes'
      BY <1>5, <1>a DEF Exit, TaskTypes, BoxTypes
    <2> QED BY <2>1, <2>2, <2>3, <2>4 DEF TypeOK
  <1>6. ASSUME NEW w \in Workers, NEW th \in Threads, NEW t \in Tasks, DrainTask(w, th, t)
        PROVE  TypeOK'
    <2>1. TaskTypes'
      <3>1. UNCHANGED <<live, term, verified, broken, late, watched, unique>>
        BY <1>6 DEF DrainTask
      <3>2. state' \in [Tasks -> States] /\ container' \in SUBSET Tasks
        BY <1>6, <1>a DEF DrainTask, getNextState, NextState, resetState, TaskTypes, States
      <3> QED BY <1>a, <3>1, <3>2 DEF TaskTypes
    <2>2. BoxTypes' /\ LabelTypes'
      BY <1>6, <1>a DEF DrainTask, Take, Goto, BoxTypes, LabelTypes, Labels
    <2>3. CountTypes' /\ RestTypes'
      BY <1>6, <1>a DEF DrainTask, CountTypes, RestTypes
    <2> QED BY <2>1, <2>2, <2>3 DEF TypeOK
  <1>7. ASSUME NEW w \in Workers, addRecycle(w, "drop drain", "drain") PROVE TypeOK'
    <2>1. hand[w] \in Tasks
      BY <1>7, <1>a DEF addRecycle, HandFull, HandLabels, BoxTypes
    <2>2. BoxTypes' /\ LabelTypes'
      BY <1>7, <1>a, <1>b, <2>1 DEF addRecycle, Add, Goto, BoxTypes, LabelTypes, Labels
    <2>3. TaskTypes' /\ CountTypes' /\ RestTypes'
      BY <1>7, <1>a DEF addRecycle, TaskTypes, CountTypes, RestTypes
    <2> QED BY <2>2, <2>3 DEF TypeOK
  <1>8. ASSUME NEW t \in Tasks, DrainDelete(t) PROVE TypeOK'
    <2>1. TaskTypes'
      BY <1>8, <1>a DEF DrainDelete, Destroy, Free, getNextState, NextState, TaskTypes, States, Flags
    <2>2. BoxTypes'
      BY <1>8, <1>a, <1>b DEF DrainDelete, Destroy, BoxTypes
    <2>3. LabelTypes' /\ CountTypes' /\ RestTypes'
      BY <1>8, <1>a DEF DrainDelete, Destroy, LabelTypes, CountTypes, RestTypes
    <2> QED BY <2>1, <2>2, <2>3 DEF TypeOK
  <1>9. ASSUME NEW w \in Workers, NEW th \in Threads, DrainStep(w, th) PROVE TypeOK'
    BY <1>4, <1>5, <1>6, <1>7, <1>9 DEF DrainStep
  <1>10. /\ \A i \in 1..NVerify : Verifier(i) \in Workers /\ V(i) \in Threads
         /\ \A i \in 1..NOkay, r \in 1..MaxRuns : Okayer(i, r) \in Workers /\ O(i) \in Threads
         /\ Syncer \in Workers
    BY WorkerFacts, ThreadFacts
  <1>11. CASE \E i \in 1..NVerify : DrainStep(Verifier(i), V(i))
    BY <1>9, <1>10, <1>11
  <1>12. CASE \E i \in 1..NOkay, r \in 1..MaxRuns : DrainStep(Okayer(i, r), O(i))
    BY <1>9, <1>10, <1>12
  <1>13. CASE DrainStep(Syncer, S)
    BY <1>9, <1>10, <1>b, <1>13
  <1>14. CASE Leave(Recycler, R) \/ Exit(Recycler, R)
    BY <1>4, <1>5, <1>b, <1>14
  <1> QED
    BY <1>1, <1>2, <1>3, <1>8, <1>11, <1>12, <1>13, <1>14, <1>15, <1>16 DEF StopStep


\* addOkay starts a thread that is not running: it has not been joined, for the
\* sync thread is joined before it.
LEMMA StartStep ==
    ASSUME StopInv, TypeOK', NEW r \in 1..MaxRuns, addOkayStart(r)
    PROVE  StopInv'
  <1> USE DEF taskVars, outerVars, boxVars, okayVars, flowVars, callVars, acceptVars, finalVars
  <1>1. UNCHANGED <<queue, tasks, hand, live, stopping, joined, joining>>
    BY DEF addOkayStart
  <1>2. pc \in [Workers -> Labels] /\ nostart \in 1..NOkay /\ pc[Syncer] = "start"
    <2>1. nostart # 0 /\ nostart \in 0..NOkay
      BY DEF addOkayStart, StopInv, TypeOK, RestTypes
    <2> QED BY <2>1, Sizes DEF addOkayStart, StopInv, TypeOK, LabelTypes
  <1>3. CASE alive[nostart]
    <2>1. Goes(Syncer, "start", "addOkay")
      BY <1>1, <1>2, <1>3, RoleSets DEF addOkayStart, Goes, Ended, InAddOkay
    <2> QED BY <1>1, <2>1, QuietStep DEF HandLabels, Ended
  <1>4. CASE ~alive[nostart]
    <2> DEFINE x == Okayer(nostart, r)
    <2>1. x \in Workers /\ x # Syncer /\ Syncer \in Workers /\ Object(x) = O(nostart)
      BY <1>2, WorkerFacts
    <2>2. pc[x] = "off"
      BY <1>4 DEF addOkayStart
    <2>3. \A u \in Workers : pc'[u] = IF u = x THEN "boot" ELSE IF u = Syncer THEN "addOkay"
                                      ELSE pc[u]
      BY <1>2, <1>4, <2>1 DEF addOkayStart
    <2> HIDE DEF x
    <2>4. joined <= NVerify
      <3>1. joined \in Nat
        BY DEF StopInv, TypeOK, RestTypes
      <3>2. NVerify + 1 \notin 1..joined
        <4>1. JoinOrder[NVerify + 1] = S /\ Object(Syncer) = S /\ pc[Syncer] \notin Ended
          BY <1>2, JoinOrderIs, WorkerFacts DEF Ended
        <4> QED BY <2>1, <4>1 DEF StopInv, JoinedEnded
      <3> QED BY <3>1, <3>2, Sizes
    <2>5. \A k \in 1..joined : JoinOrder[k] # O(nostart)
      <3>1. \A k \in 1..joined : k \in 1..NVerify
        BY <2>4, Sizes DEF StopInv, TypeOK, RestTypes
      <3>2. \A k \in 1..joined : JoinOrder[k] \in VerifyThreads
        BY <3>1, JoinOrderIs
      <3>3. O(nostart) \notin VerifyThreads
        BY DEF O, V, VerifyThreads
      <3> QED BY <3>2, <3>3
    <2>6. HandFull'
      BY <1>1, <1>2, <2>1, <2>2, <2>3 DEF StopInv, HandFull, HandLabels
    <2>7. CallersAre'
      BY <2>3 DEF StopInv, CallersAre, InAddOkay
    <2>8. JoinedEnded'
      BY <1>1, <1>2, <2>1, <2>3, <2>5 DEF StopInv, JoinedEnded, Ended
    <2>9. EndedEmpty'
      BY <1>1, <1>2, <2>3 DEF StopInv, EndedEmpty, Ended
    <2>10. Covered'
      BY <1>1, StayCovers DEF StopInv
    <2> QED BY <1>1, <2>6, <2>7, <2>8, <2>9, <2>10 DEF StopInv, JoinsEach
  <1> QED BY <1>3, <1>4

\* The pool at work keeps what the stop needs.
LEMMA ServeKeepsStop ==
    ASSUME StopInv, ServeNext \/ UNCHANGED vars
    PROVE  StopInv'
  <1> USE DEF taskVars, outerVars, boxVars, okayVars, flowVars, callVars, acceptVars, finalVars
  <1>a. StopInv /\ TypeOK /\ TypeOK'
    <2>1. TypeOK /\ HandHas
      BY DEF StopInv, HandFull, HandLabels, HandHas
    <2> QED
      BY <2>1, TaskTypesStep, BoxTypesStep, LabelTypesStep, CountTypesStep, RestTypesStep
         DEF TypeOK
  <1>b. \A w \in Workers : pc = [pc EXCEPT ![w] = pc[w]]
    BY <1>a DEF TypeOK, LabelTypes
  <1>c. V(hashCode + 1) \in Threads
    BY <1>a, Sizes, ThreadFacts DEF TypeOK, RestTypes
  <1>d. target \in 1..NOkay
    BY <1>a DEF TypeOK, RestTypes
  <1>1. ASSUME NEW t \in Tasks, NEW garbage \in BOOLEAN, newTCPTask(t,
       garbage) PROVE StopInv'
    <2>1. Goes(Accepter, "accept", "add")
      BY <1>1, <1>b, RoleSets DEF newTCPTask, Goto, Goes, Ended, InAddOkay
    <2>2. /\ hand' = [hand EXCEPT ![Accepter] = t] /\ live' = live \cup {t}
          /\ UNCHANGED <<queue, tasks>>
      BY <1>1 DEF newTCPTask
    <2>3. \A u \in Workers : hand'[u] = IF u = Accepter THEN t ELSE hand[u]
      BY <1>a, <2>2 DEF StopInv, TypeOK, BoxTypes
    <2>4. hand[Accepter] = NoTask /\ Accepter \in Workers
      BY <2>1, <1>a DEF Goes, StopInv, HandFull, HandLabels
    <2>5. Covered'
      BY <1>a, <2>2, <2>3, <2>4, TasksAssumption
         DEF StopInv, Covered, Held, TypeOK, TaskTypes
    <2>6. t # NoTask /\ "add" \in HandLabels /\ "add" \notin Ended
      BY <1>1, TasksAssumption DEF HandLabels, Ended
    <2>7. Orderly(Accepter, "add")
      BY <2>2, <2>3, <2>4, <2>5, <2>6 DEF Orderly
    <2> QED BY <1>a, <2>1, <2>7, WorkerStep
  <1>2. ASSUME addVerify PROVE StopInv'
    <2>1. Goes(Accepter, "add", "register")
      BY <1>2, <1>b, RoleSets DEF addVerify, Goto, Goes, Ended, InAddOkay
    <2>2. Add(Accepter, V(hashCode + 1)) /\ UNCHANGED <<tasks, live>>
      BY <1>2 DEF addVerify
    <2>3. V(hashCode + 1) \in Threads
      BY <1>2, <1>c
    <2>4. "register" \notin HandLabels /\ "register" \notin Ended
      BY DEF HandLabels, Ended
    <2> QED BY <1>a, <2>1, <2>2, <2>3, <2>4, AddStep
  <1>3. ASSUME epollAdd PROVE StopInv'
    <2>1. Goes(Accepter, "register", "accept")
      BY <1>3, <1>b, RoleSets DEF epollAdd, Goto, Goes, Ended, InAddOkay
    <2>2. UNCHANGED <<queue, tasks, hand, live>>
      BY <1>3 DEF epollAdd
    <2> QED BY <1>a, <2>1, <2>2, QuietStep DEF HandLabels, Ended
  <1>4. ASSUME NEW i \in 1..NVerify, VerifyCheck(i) PROVE StopInv'
    <2>1. Goes(Verifier(i), "receive", "timeouts")
      BY <1>4, <1>b, RoleSets DEF VerifyCheck, Goto, Goes, Ended, InAddOkay
    <2>2. Moved(V(i), queue[V(i)]) /\ UNCHANGED <<hand, live>>
      BY <1>4, CheckMoves DEF VerifyCheck
    <2>3. V(i) \in Threads
      BY <1>4, ThreadFacts
    <2>4. V(i) = Object(Verifier(i))
      BY <1>4, WorkerFacts
    <2>5. "receive" \notin HandLabels /\ "timeouts" \notin HandLabels /\ "timeouts" \notin Ended
      BY DEF HandLabels, Ended
    <2> QED BY <1>a, <2>1, <2>2, <2>3, <2>4, <2>5, MoveStep
  <1>5. ASSUME NEW i \in 1..NVerify, NEW t \in Tasks, VerifyTimeout(i,
       t) PROVE StopInv'
    <2>1. CASE late[t]
      <3>1. Goes(Verifier(i), "timeouts", "drop timeouts")
        BY <1>5, <1>b, <2>1, RoleSets
           DEF VerifyTimeout, VerifyFrame, Goto, Goes, Ended, InAddOkay
      <3>2. Take(Verifier(i), V(i), t) /\ UNCHANGED <<queue, live>> /\ V(i) \in Threads
        BY <1>5, <2>1, ThreadFacts DEF VerifyTimeout
      <3> QED BY <1>a, <3>1, <3>2, TakeStep DEF HandLabels
    <2>2. CASE ~late[t]
      BY <1>5, <1>a, <2>2, StillStep DEF VerifyTimeout, VerifyFrame
    <2> QED BY <2>1, <2>2
  <1>6. ASSUME NEW i \in 1..NVerify, VerifySecondPass(i) PROVE StopInv'
    <2>1. Goes(Verifier(i), "timeouts", "receive")
      BY <1>6, <1>b, RoleSets DEF VerifySecondPass, Goto, Goes, Ended, InAddOkay
    <2>2. UNCHANGED <<queue, tasks, hand, live>>
      BY <1>6 DEF VerifySecondPass
    <2> QED BY <1>a, <2>1, <2>2, QuietStep DEF HandLabels, Ended
  <1>7. ASSUME NEW i \in 1..NVerify, NEW t \in Tasks, VerifyFail(i,
       t) PROVE StopInv'
    <2>1. Goes(Verifier(i), "receive", "drop receive")
      BY <1>7, <1>b, RoleSets DEF VerifyFail, VerifyFrame, Goto, Goes, Ended, InAddOkay
    <2>2. Take(Verifier(i), V(i), t) /\ UNCHANGED <<queue, live>> /\ V(i) \in Threads
      BY <1>7, ThreadFacts DEF VerifyFail
    <2> QED BY <1>a, <2>1, <2>2, TakeStep DEF HandLabels
  <1>8. ASSUME NEW i \in 1..NVerify, NEW t \in Tasks, VerifyPass(i,
       t) PROVE StopInv'
    <2>1. Goes(Verifier(i), "receive", "addSync")
      BY <1>8, <1>b, RoleSets DEF VerifyPass, VerifyFrame, Goto, Goes, Ended, InAddOkay
    <2>2. Take(Verifier(i), V(i), t) /\ UNCHANGED <<queue, live>> /\ V(i) \in Threads
      BY <1>8, ThreadFacts DEF VerifyPass
    <2> QED BY <1>a, <2>1, <2>2, TakeStep DEF HandLabels
  <1>9. ASSUME NEW i \in 1..NVerify, NEW t \in Tasks, VerifyWait(i,
       t) PROVE StopInv'
    BY <1>9, <1>a, StillStep DEF VerifyWait
  <1>10. ASSUME NEW i \in 1..NVerify, addSync(i) PROVE StopInv'
    <2>1. Goes(Verifier(i), "addSync", "receive")
      BY <1>10, <1>b, RoleSets DEF addSync, Goto, Goes, Ended, InAddOkay
    <2>2. Add(Verifier(i), S) /\ UNCHANGED <<tasks, live>>
      BY <1>10 DEF addSync
    <2>3. S \in Threads
      BY <1>10, ThreadFacts
    <2>4. "receive" \notin HandLabels /\ "receive" \notin Ended
      BY DEF HandLabels, Ended
    <2> QED BY <1>a, <2>1, <2>2, <2>3, <2>4, AddStep
  <1>11. ASSUME NEW i \in 1..NVerify, addRecycle(Verifier(i), "drop timeouts",
       "timeouts") PROVE StopInv'
    <2>1. Goes(Verifier(i), "drop timeouts", "timeouts")
      BY <1>11, <1>b, RoleSets DEF addRecycle, Goto, Goes, Ended, InAddOkay
    <2>2. Add(Verifier(i), R) /\ UNCHANGED <<tasks, live>>
      BY <1>11 DEF addRecycle
    <2>3. R \in Threads
      BY <1>11, ThreadFacts
    <2>4. "timeouts" \notin HandLabels /\ "timeouts" \notin Ended
      BY DEF HandLabels, Ended
    <2> QED BY <1>a, <2>1, <2>2, <2>3, <2>4, AddStep
  <1>12. ASSUME NEW i \in 1..NVerify, addRecycle(Verifier(i), "drop receive",
       "receive") PROVE StopInv'
    <2>1. Goes(Verifier(i), "drop receive", "receive")
      BY <1>12, <1>b, RoleSets DEF addRecycle, Goto, Goes, Ended, InAddOkay
    <2>2. Add(Verifier(i), R) /\ UNCHANGED <<tasks, live>>
      BY <1>12 DEF addRecycle
    <2>3. R \in Threads
      BY <1>12, ThreadFacts
    <2>4. "receive" \notin HandLabels /\ "receive" \notin Ended
      BY DEF HandLabels, Ended
    <2> QED BY <1>a, <2>1, <2>2, <2>3, <2>4, AddStep
  <1>13. ASSUME SyncCheck PROVE StopInv'
    <2>1. Goes(Syncer, "pass", "pass")
      BY <1>13, <1>b, RoleSets DEF SyncCheck, Goto, Goes, Ended, InAddOkay
    <2>2. Moved(S, queue[S]) /\ UNCHANGED <<hand, live>>
      BY <1>13, CheckMoves DEF SyncCheck
    <2>3. S \in Threads
      BY <1>13, ThreadFacts
    <2>4. S = Object(Syncer)
      BY <1>13, WorkerFacts
    <2>5. "pass" \notin HandLabels /\ "pass" \notin HandLabels /\ "pass" \notin Ended
      BY DEF HandLabels, Ended
    <2> QED BY <1>a, <2>1, <2>2, <2>3, <2>4, <2>5, MoveStep
  <1>14. ASSUME NEW t \in Tasks, SyncAgreed(t) PROVE StopInv'
    <2>1. Goes(Syncer, "pass", "scan")
      BY <1>14, <1>b, RoleSets DEF SyncAgreed, Goto, Goes, Ended, InAddOkay
    <2>2. Take(Syncer, S, t) /\ UNCHANGED <<queue, live>> /\ S \in Threads
      BY <1>14, ThreadFacts DEF SyncAgreed
    <2> QED BY <1>a, <2>1, <2>2, TakeStep DEF HandLabels
  <1>15. ASSUME NEW t \in Tasks, SyncWait(t) PROVE StopInv'
    BY <1>15, <1>a, StillStep DEF SyncWait
  <1>16. ASSUME NEW t \in Tasks, SyncRefused(t) PROVE StopInv'
    <2>1. Goes(Syncer, "pass", "drop")
      BY <1>16, <1>b, RoleSets DEF SyncRefused, Goto, Goes, Ended, InAddOkay
    <2>2. Take(Syncer, S, t) /\ UNCHANGED <<queue, live>> /\ S \in Threads
      BY <1>16, ThreadFacts DEF SyncRefused
    <2> QED BY <1>a, <2>1, <2>2, TakeStep DEF HandLabels
  <1>17. ASSUME addOkayScan \/ addOkayCompare PROVE StopInv'
    <2>1. UNCHANGED <<queue, tasks, hand, live, stopping, joined, joining>>
      BY <1>17, Choosing
    <2>2. PICK label \in ChoiceLabels : pc[Syncer] \in ChoiceLabels /\ Goto(Syncer, label)
      BY <1>17, Choosing
    <2> DEFINE from == pc[Syncer]
    <2>3. Goes(Syncer, from, label)
      BY <2>1, <2>2, RoleSets DEF Goto, Goes, Ended
    <2>4. from \in HandLabels /\ label \in HandLabels /\ label \notin Ended
      BY <2>2 DEF HandLabels, Ended
    <2> HIDE DEF from
    <2> QED BY <1>a, <2>1, <2>3, <2>4, QuietStep
  <1>18. ASSUME addOkayCount PROVE StopInv'
    <2>1. Goes(Syncer, "count", "size")
      BY <1>18, <1>b, RoleSets DEF addOkayCount, Goto, Goes, Ended, InAddOkay
    <2>2. UNCHANGED <<queue, tasks, hand, live>>
      BY <1>18 DEF addOkayCount
    <2> QED BY <1>a, <2>1, <2>2, QuietStep DEF HandLabels, Ended
  <1>19. ASSUME addOkaySize PROVE StopInv'
    <2>1. UNCHANGED <<queue, tasks, hand, live>>
      BY <1>19 DEF addOkaySize
    <2>2. CASE Goto(Syncer, "addOkay")
      <3>1. Goes(Syncer, "size", "addOkay")
        BY <1>19, <1>b, <2>2, RoleSets DEF addOkaySize, Goto, Goes, Ended, InAddOkay
      <3> QED BY <1>a, <2>1, <3>1, QuietStep DEF HandLabels, Ended
    <2>3. CASE Goto(Syncer, "start")
      <3>1. Goes(Syncer, "size", "start")
        BY <1>19, <1>b, <2>3, RoleSets DEF addOkaySize, Goto, Goes, Ended, InAddOkay
      <3> QED BY <1>a, <2>1, <3>1, QuietStep DEF HandLabels, Ended
    <2> QED BY <1>19, <2>2, <2>3 DEF addOkaySize
  <1>20. ASSUME NEW r \in 1..MaxRuns, addOkayStart(r) PROVE StopInv'
    BY <1>20, <1>a, StartStep
  <1>21. ASSUME addOkayFailed PROVE StopInv'
    <2>1. Goes(Syncer, "start", "drop")
      BY <1>21, <1>b, RoleSets DEF addOkayFailed, Goto, Goes, Ended, InAddOkay
    <2>2. UNCHANGED <<queue, tasks, hand, live>>
      BY <1>21 DEF addOkayFailed
    <2> QED BY <1>a, <2>1, <2>2, QuietStep DEF HandLabels, Ended
  <1>22. ASSUME addOkayAdd PROVE StopInv'
    <2>1. Goes(Syncer, "addOkay", "pass")
      BY <1>22, <1>b, RoleSets DEF addOkayAdd, Goto, Goes, Ended, InAddOkay
    <2>2. Add(Syncer, O(target)) /\ UNCHANGED <<tasks, live>>
      BY <1>22 DEF addOkayAdd
    <2>3. O(target) \in Threads
      BY <1>22, <1>d, ThreadFacts
    <2>4. "pass" \notin HandLabels /\ "pass" \notin Ended
      BY DEF HandLabels, Ended
    <2> QED BY <1>a, <2>1, <2>2, <2>3, <2>4, AddStep
  <1>23. ASSUME addRecycle(Syncer, "drop", "pass") PROVE StopInv'
    <2>1. Goes(Syncer, "drop", "pass")
      BY <1>23, <1>b, RoleSets DEF addRecycle, Goto, Goes, Ended, InAddOkay
    <2>2. Add(Syncer, R) /\ UNCHANGED <<tasks, live>>
      BY <1>23 DEF addRecycle
    <2>3. R \in Threads
      BY <1>23, ThreadFacts
    <2>4. "pass" \notin HandLabels /\ "pass" \notin Ended
      BY DEF HandLabels, Ended
    <2> QED BY <1>a, <2>1, <2>2, <2>3, <2>4, AddStep
  <1>24. ASSUME NEW i \in 1..NOkay, NEW r \in 1..MaxRuns, OkayBoot(i,
       r) PROVE StopInv'
    <2>1. Goes(Okayer(i, r), "boot", "check")
      BY <1>24, <1>b, RoleSets DEF OkayBoot, Goto, Goes, Ended, InAddOkay
    <2>2. UNCHANGED <<queue, tasks, hand, live>>
      BY <1>24 DEF OkayBoot
    <2> QED BY <1>a, <2>1, <2>2, QuietStep DEF HandLabels, Ended
  <1>25. ASSUME NEW i \in 1..NOkay, NEW r \in 1..MaxRuns, OkayCheck(i,
       r) PROVE StopInv'
    <2>1. Goes(Okayer(i, r), "check", "move")
      BY <1>25, <1>b, RoleSets DEF OkayCheck, Goto, Goes, Ended, InAddOkay
    <2>2. UNCHANGED <<queue, tasks, hand, live>>
      BY <1>25 DEF OkayCheck
    <2> QED BY <1>a, <2>1, <2>2, QuietStep DEF HandLabels, Ended
  <1>26. ASSUME NEW i \in 1..NOkay, NEW r \in 1..MaxRuns, NEW t \in Tasks,
       OkayAdd(i, r, t) PROVE StopInv'
    <2>1. Moved(O(i), {t}) /\ UNCHANGED <<pc, hand, live, stopping, joined, joining>>
      BY <1>26, Zenon DEF OkayAdd, Moved
    <2>2. /\ O(i) \in Threads /\ t \in queue[O(i)] /\ Okayer(i, r) \in Workers
          /\ O(i) = Object(Okayer(i, r)) /\ pc[Okayer(i, r)] \notin Ended
      BY <1>26, ThreadFacts, WorkerFacts DEF OkayAdd, Ended
    <2> QED BY <1>a, <2>1, <2>2, OneMoves
  <1>27. ASSUME NEW i \in 1..NOkay, NEW r \in 1..MaxRuns, OkayClear(i,
       r) PROVE StopInv'
    <2>1. Goes(Okayer(i, r), "move", "lock")
      BY <1>27, <1>b, RoleSets DEF OkayClear, Goto, Goes, Ended, InAddOkay
    <2>2. UNCHANGED <<queue, tasks, hand, live>>
      BY <1>27 DEF OkayClear
    <2> QED BY <1>a, <2>1, <2>2, QuietStep DEF HandLabels, Ended
  <1>28. ASSUME NEW i \in 1..NOkay, NEW r \in 1..MaxRuns, OkayLock(i,
       r) PROVE StopInv'
    <2>1. Goes(Okayer(i, r), "lock", "pass")
      BY <1>28, <1>b, RoleSets DEF OkayLock, Goto, Goes, Ended, InAddOkay
    <2>2. UNCHANGED <<queue, tasks, hand, live>>
      BY <1>28 DEF OkayLock
    <2> QED BY <1>a, <2>1, <2>2, QuietStep DEF HandLabels, Ended
  <1>29. ASSUME NEW i \in 1..NOkay, NEW r \in 1..MaxRuns, NEW t \in Tasks,
       OkayEnd(i, r, t) PROVE StopInv'
    <2>1. Goes(Okayer(i, r), "pass", "drop")
      BY <1>29, <1>b, RoleSets DEF OkayEnd, Goto, Goes, Ended, InAddOkay
    <2>2. Take(Okayer(i, r), O(i), t) /\ UNCHANGED <<queue, live>> /\ O(i) \in Threads
      BY <1>29, ThreadFacts DEF OkayEnd
    <2> QED BY <1>a, <2>1, <2>2, TakeStep DEF HandLabels
  <1>30. ASSUME NEW i \in 1..NOkay, NEW r \in 1..MaxRuns, NEW t \in Tasks,
       OkayKeep(i, r, t) PROVE StopInv'
    BY <1>30, <1>a, StillStep DEF OkayKeep
  <1>31. ASSUME NEW i \in 1..NOkay, NEW r \in 1..MaxRuns, OkayUnlock(i,
       r) PROVE StopInv'
    <2>1. Goes(Okayer(i, r), "pass", "poll")
      BY <1>31, <1>b, RoleSets DEF OkayUnlock, Goto, Goes, Ended, InAddOkay
    <2>2. UNCHANGED <<queue, tasks, hand, live>>
      BY <1>31 DEF OkayUnlock
    <2> QED BY <1>a, <2>1, <2>2, QuietStep DEF HandLabels, Ended
  <1>32. ASSUME NEW i \in 1..NOkay, NEW r \in 1..MaxRuns, OkayPoll(i,
       r) PROVE StopInv'
    <2>1. Goes(Okayer(i, r), "poll", "check")
      BY <1>32, <1>b, RoleSets DEF OkayPoll, Goto, Goes, Ended, InAddOkay
    <2>2. UNCHANGED <<queue, tasks, hand, live>>
      BY <1>32 DEF OkayPoll
    <2> QED BY <1>a, <2>1, <2>2, QuietStep DEF HandLabels, Ended
  <1>33. ASSUME NEW i \in 1..NOkay, NEW r \in 1..MaxRuns, addRecycle(Okayer(i,
       r), "drop", "pass") PROVE StopInv'
    <2>1. Goes(Okayer(i, r), "drop", "pass")
      BY <1>33, <1>b, RoleSets DEF addRecycle, Goto, Goes, Ended, InAddOkay
    <2>2. Add(Okayer(i, r), R) /\ UNCHANGED <<tasks, live>>
      BY <1>33 DEF addRecycle
    <2>3. R \in Threads
      BY <1>33, ThreadFacts
    <2>4. "pass" \notin HandLabels /\ "pass" \notin Ended
      BY DEF HandLabels, Ended
    <2> QED BY <1>a, <2>1, <2>2, <2>3, <2>4, AddStep
  <1>34. ASSUME RecycleCheck PROVE StopInv'
    <2>1. Goes(Recycler, "pass", "pass")
      BY <1>34, <1>b, RoleSets DEF RecycleCheck, Goto, Goes, Ended, InAddOkay
    <2>2. Moved(R, queue[R]) /\ UNCHANGED <<hand, live>>
      BY <1>34, CheckMoves DEF RecycleCheck
    <2>3. R \in Threads
      BY <1>34, ThreadFacts
    <2>4. R = Object(Recycler)
      BY <1>34, WorkerFacts
    <2>5. "pass" \notin HandLabels /\ "pass" \notin HandLabels /\ "pass" \notin Ended
      BY DEF HandLabels, Ended
    <2> QED BY <1>a, <2>1, <2>2, <2>3, <2>4, <2>5, MoveStep
  <1>35. ASSUME NEW t \in Tasks, RecycleDelete(t) PROVE StopInv'
    <2>1. Dropped(t) /\ UNCHANGED <<pc, queue, hand, stopping, joined, joining>>
      BY <1>35 DEF RecycleDelete, Destroy, Free, Dropped
    <2> QED BY <1>a, <2>1, DropStep
  <1>36. ASSUME NEW t \in Tasks, RecycleWait(t) PROVE StopInv'
    BY <1>36, <1>a, StillStep DEF RecycleWait
  <1>37. ASSUME NEW t \in Tasks, Disconnect(t) PROVE StopInv'
    BY <1>37, <1>a, StillStep DEF Disconnect
  <1>38. ASSUME NEW t \in Tasks, Deadline(t) PROVE StopInv'
    BY <1>38, <1>a, StillStep DEF Deadline
  <1>39. ASSUME NEW t \in Tasks, Terminate(t) PROVE StopInv'
    BY <1>39, <1>a, StillStep DEF Terminate
  <1>40. ASSUME UNCHANGED vars PROVE StopInv'
    BY <1>40, <1>a, StillStep DEF vars
  <1> QED
    BY <1>1, <1>2, <1>3, <1>4, <1>5, <1>6, <1>7, <1>8, <1>9, <1>10, <1>11,
       <1>12, <1>13, <1>14, <1>15, <1>16, <1>17, <1>18, <1>19, <1>20, <1>21,
       <1>22, <1>23, <1>24, <1>25, <1>26, <1>27, <1>28, <1>29, <1>30, <1>31,
       <1>32, <1>33, <1>34, <1>35, <1>36, <1>37, <1>38, <1>39,
       <1>40 DEF ServeNext, AcceptStep, VerifyStep, SyncStep, addOkayLoop, OkayStep,
       RecycleStep, Around

\* So do the steps of the stop.
LEMMA StopKeepsStop ==
    ASSUME StopInv, StopStep
    PROVE  StopInv'
  <1> USE DEF taskVars, outerVars, boxVars, okayVars, flowVars, callVars, acceptVars, finalVars
  <1>a. StopInv /\ TypeOK /\ TypeOK' /\ joined \in Nat /\ stopping \in Nat
    BY StopTypes DEF StopInv, TypeOK, RestTypes
  <1>b. \A w \in Workers : pc = [pc EXCEPT ![w] = pc[w]]
    BY <1>a DEF TypeOK, LabelTypes
  <1>1. ASSUME FinalNext PROVE StopInv'
    <2>1. UNCHANGED <<pc, queue, tasks, hand, live, joined>>
      BY <1>1 DEF FinalNext
    <2>2. JoinsEach'
      BY <1>1, <1>a DEF FinalNext, JoinsEach
    <2>3. Covered'
      BY <2>1, StayCovers DEF StopInv
    <2> QED
      BY <1>a, <2>1, <2>2, <2>3 DEF StopInv, HandFull, CallersAre, JoinedEnded, EndedEmpty
  <1>2. ASSUME Join PROVE StopInv'
    <2>1. UNCHANGED <<pc, queue, tasks, hand, live, stopping, joined>> /\ joined < stopping
      BY <1>2 DEF Join
    <2>2. JoinsEach'
      BY <1>a, <2>1 DEF StopInv, JoinsEach
    <2>3. Covered'
      BY <2>1, StayCovers DEF StopInv
    <2> QED
      BY <1>a, <2>1, <2>2, <2>3 DEF StopInv, HandFull, CallersAre, JoinedEnded, EndedEmpty
  <1>15. ASSUME JoinReturn PROVE StopInv'
    <2>1. /\ UNCHANGED <<pc, queue, tasks, hand, live, stopping>> /\ joining' = 0
          /\ joined' = joined \/ (joined' = joined + 1 /\ HasEnded(JoinOrder[stopping]))
      BY <1>15 DEF JoinReturn
    <2>2. JoinsEach' /\ stopping = joined + 1
      BY <1>15, <1>a, <2>1 DEF JoinReturn, StopInv, JoinsEach
    <2>3. Covered'
      BY <2>1, StayCovers DEF StopInv
    <2>4. JoinedEnded'
      <3>1. CASE joined' = joined
        BY <2>1, <3>1 DEF StopInv, JoinedEnded
      <3>2. CASE joined' = joined + 1 /\ HasEnded(JoinOrder[stopping])
        <4>1. \A k \in 1..joined' : k \in 1..joined \/ k = stopping
          BY <1>a, <2>2, <3>2
        <4>2. \A w \in Workers : Object(w) = JoinOrder[stopping] => pc[w] \in Ended
          BY <3>2 DEF HasEnded, Ended
        <4> QED BY <2>1, <4>1, <4>2 DEF StopInv, JoinedEnded
      <3> QED BY <2>1, <3>1, <3>2
    <2> QED
      BY <1>a, <2>1, <2>2, <2>3, <2>4 DEF StopInv, HandFull, CallersAre, EndedEmpty
  <1>16. ASSUME addVerifyDeleted PROVE StopInv'
    BY <1>16, <1>a, StillStep DEF addVerifyDeleted
  <1>3. ASSUME newTCPTaskRefused PROVE StopInv'
    <2>1. Goes(Accepter, "accept", "register")
      BY <1>3, RoleSets DEF newTCPTaskRefused, Goto, Goes, Ended, InAddOkay
    <2>2. UNCHANGED <<queue, tasks, hand, live>>
      BY <1>3 DEF newTCPTaskRefused
    <2> QED BY <1>a, <2>1, <2>2, QuietStep DEF HandLabels, Ended
  <1>4. ASSUME NEW w \in Workers, NEW th \in Threads, Leave(w, th) PROVE StopInv'
    <2>1. LoopEnd(w) \in {"receive", "check", "pass"}
      BY DEF LoopEnd
    <2> DEFINE from == LoopEnd(w)
    <2>2. from \notin HandLabels /\ from \notin Ended
      BY <2>1 DEF HandLabels, Ended
    <2>3. Goes(w, from, "drain")
      BY <1>4, <2>2 DEF Leave, Goto, Goes, InAddOkay
    <2>4. UNCHANGED <<queue, tasks, hand, live>>
      BY <1>4 DEF Leave
    <2> HIDE DEF from
    <2> QED BY <1>a, <2>2, <2>3, <2>4, QuietStep DEF HandLabels, Ended
  <1>5. ASSUME NEW w \in Workers, NEW th \in Threads, th = Object(w), Exit(w, th)
        PROVE  StopInv'
    <2>1. Goes(w, "drain", "done")
      BY <1>5 DEF Exit, Goto, Goes, Ended, InAddOkay
    <2>2. UNCHANGED <<queue, tasks, hand, live>> /\ tasks[Object(w)] = {}
      BY <1>5 DEF Exit
    <2> QED BY <1>a, <2>1, <2>2, QuietStep DEF HandLabels
  <1>6. ASSUME NEW w \in Workers, NEW th \in Threads, NEW t \in Tasks, DrainTask(w, th, t)
        PROVE  StopInv'
    <2>1. Goes(w, "drain", "drop drain")
      BY <1>6 DEF DrainTask, Goto, Goes, Ended, InAddOkay
    <2>2. Take(w, th, t) /\ UNCHANGED <<queue, live>>
      BY <1>6 DEF DrainTask
    <2> QED BY <1>a, <2>1, <2>2, TakeStep DEF HandLabels
  <1>7. ASSUME NEW w \in Workers, addRecycle(w, "drop drain", "drain") PROVE StopInv'
    <2>1. Goes(w, "drop drain", "drain")
      BY <1>7 DEF addRecycle, Goto, Goes, Ended, InAddOkay
    <2>2. Add(w, R) /\ UNCHANGED <<tasks, live>> /\ R \in Threads
      BY <1>7, ThreadFacts DEF addRecycle
    <2> QED BY <1>a, <2>1, <2>2, AddStep DEF HandLabels, Ended
  <1>8. ASSUME NEW t \in Tasks, DrainDelete(t) PROVE StopInv'
    <2>1. Dropped(t) /\ UNCHANGED <<pc, queue, hand, stopping, joined, joining>>
      BY <1>8 DEF DrainDelete, Destroy, Free, Dropped
    <2> QED BY <1>a, <2>1, DropStep
  <1>9. ASSUME NEW w \in Workers, NEW th \in Threads, th = Object(w), DrainStep(w, th)
        PROVE  StopInv'
    BY <1>4, <1>5, <1>6, <1>7, <1>9 DEF DrainStep
  <1>10. /\ \A i \in 1..NVerify : /\ Verifier(i) \in Workers /\ V(i) \in Threads
                                  /\ V(i) = Object(Verifier(i))
         /\ \A i \in 1..NOkay, r \in 1..MaxRuns :
               Okayer(i, r) \in Workers /\ O(i) \in Threads /\ O(i) = Object(Okayer(i, r))
         /\ Syncer \in Workers /\ S \in Threads /\ S = Object(Syncer)
         /\ Recycler \in Workers /\ R \in Threads /\ R = Object(Recycler)
    BY WorkerFacts, ThreadFacts
  <1>11. CASE \E i \in 1..NVerify : DrainStep(Verifier(i), V(i))
    BY <1>9, <1>10, <1>11
  <1>12. CASE \E i \in 1..NOkay, r \in 1..MaxRuns : DrainStep(Okayer(i, r), O(i))
    BY <1>9, <1>10, <1>12
  <1>13. CASE DrainStep(Syncer, S)
    BY <1>9, <1>10, <1>13
  <1>14. CASE Leave(Recycler, R) \/ Exit(Recycler, R)
    BY <1>4, <1>5, <1>10, <1>14
  <1> QED
    BY <1>1, <1>2, <1>3, <1>8, <1>11, <1>12, <1>13, <1>14, <1>15, <1>16 DEF StopStep


LEMMA InitStopInv == Init => StopInv
  <1> SUFFICES ASSUME Init PROVE StopInv
    OBVIOUS
  <1>1. TypeOK
    BY InitServeInv DEF ServeInv
  <1>2. /\ pc[Accepter] = "accept" /\ pc[Syncer] = "pass" /\ pc[Recycler] = "pass"
        /\ \A w \in Verifiers : pc[w] = "receive"
        /\ \A w \in Okayers : pc[w] \in {"boot", "off"}
    BY RoleSets DEF Init, LoopEnd
  <1>3. \A w \in Workers : pc[w] \in {"accept", "pass", "receive", "boot", "off"}
    BY <1>2 DEF Workers
  <1>4. HandFull
    BY <1>3 DEF Init, HandFull, HandLabels
  <1>5. CallersAre
    BY <1>3 DEF CallersAre, InAddOkay
  <1>6. JoinsEach /\ JoinedEnded
    BY DEF Init, JoinsEach, JoinedEnded
  <1>7. EndedEmpty /\ Covered
    BY DEF Init, EndedEmpty, Covered
  <1> QED BY <1>1, <1>4, <1>5, <1>6, <1>7 DEF StopInv

\* Inductive, for the stop at any time and any number of runs of the threads: what
\* final() has joined has ended with all its runs, or died is set and that is the
\* last step (zThread.cpp:47-51, 63-78).
THEOREM StopInvariant == Spec => []StopInv
  <1>1. StopInv /\ [Next]_vars => StopInv'
    BY ServeKeepsStop, StopKeepsStop DEF Next
  <1> QED BY <1>1, InitStopInv, PTL DEF Spec

\* Every variable keeps its type while the pool is stopped, too.
THEOREM TypesKeptStopping == Spec => []TypeOK
  <1>1. StopInv => TypeOK
    BY DEF StopInv
  <1> QED BY <1>1, StopInvariant, PTL

\* The place in the order of the stop of the thread a worker runs.
LEMMA WorkerPlace ==
    /\ \A w \in Verifiers : \E k \in 1..NVerify : JoinOrder[k] = Object(w)
    /\ JoinOrder[NVerify + 1] = Object(Syncer)
    /\ \A w \in Workers \ {Accepter} : \E k \in 1..JoinCount : JoinOrder[k] = Object(w)
  <1>1. NVerify \in Nat /\ JoinCount \in Nat /\ NVerify + 1 <= JoinCount
    BY Sizes, JoinOrderIs
  <1> HIDE DEF JoinCount, JoinOrder
  <1>2. \A w \in Verifiers : \E k \in 1..NVerify : JoinOrder[k] = Object(w)
    BY JoinOrderIs, WorkerFacts DEF Verifiers
  <1>3. JoinOrder[NVerify + 1] = Object(Syncer)
    BY JoinOrderIs, WorkerFacts
  <1>4. JoinOrder[JoinCount] = Object(Recycler)
    BY JoinOrderIs, WorkerFacts
  <1>5. \A w \in Okayers : \E k \in (NVerify + 2)..(JoinCount - 1) : JoinOrder[k] = Object(w)
    BY JoinOrderIs, WorkerFacts DEF Okayers
  <1>6. /\ 1..NVerify \subseteq 1..JoinCount
        /\ NVerify + 1 \in 1..JoinCount /\ JoinCount \in 1..JoinCount
        /\ (NVerify + 2)..(JoinCount - 1) \subseteq 1..JoinCount
    BY <1>1
  <1> QED BY <1>2, <1>3, <1>4, <1>5, <1>6 DEF Workers

\* A worker that is at work has not been joined, and nothing that comes after it
\* in the order of the stop.
LEMMA AtWorkUnjoined ==
    ASSUME StopInv, NEW w \in Workers, pc[w] \notin Ended,
           NEW k \in Nat, k >= 1, JoinOrder[k] = Object(w)
    PROVE  joined < k /\ \A j \in 1..joined : j < k
  <1>1. joined \in Nat
    BY DEF StopInv, TypeOK, RestTypes
  <1>2. k \notin 1..joined
    BY DEF StopInv, JoinedEnded
  <1> QED BY <1>1, <1>2

\* final() deletes no thread to which one of the pool's own threads is about to
\* hand a task: a verify thread ends before the sync thread, that before the okay
\* threads, and all of them before the recycle thread (zTCPTaskPool.cpp:809-826).
\* It is not so for the accept thread, which may add its task to a verify thread
\* that has been deleted (zTCPTaskPool.cpp:636-641, addVerifyDeleted).
THEOREM ReceiversStay == Spec => []ReceiverExists
  <1>1. StopInv => ReceiverExists
    <2> SUFFICES ASSUME StopInv, NEW w \in Workers \ {Accepter}, hand[w] # NoTask
                 PROVE  /\ pc[w] = "addSync" => ~Deleted(S)
                        /\ pc[w] \in InAddOkay => \A th \in OkayThreads : ~Deleted(th)
                        /\ ~Deleted(R)
      BY DEF ReceiverExists, InAddOkay
    <2> HIDE DEF JoinCount, JoinOrder
    <2>1. w \in Workers /\ pc[w] \in HandLabels /\ pc[w] \notin Ended
      BY HoldingWorks DEF StopInv, HandFull
    <2>2. NVerify \in Nat /\ JoinCount \in Nat /\ joined \in Nat /\ joined <= JoinCount
      BY Sizes, JoinOrderIs DEF StopInv, TypeOK, RestTypes
    <2>3. ~Deleted(R)
      <3>1. PICK k \in 1..JoinCount : JoinOrder[k] = Object(w)
        BY WorkerPlace
      <3>2. \A j \in 1..joined : j < k
        BY <2>1, <2>2, <3>1, AtWorkUnjoined
      <3>3. \A j \in 1..joined : j < JoinCount
        BY <2>2, <3>1, <3>2
      <3>4. \A j \in 1..joined : \/ j \in 1..NVerify \/ j = NVerify + 1
                                 \/ j \in (NVerify + 2)..(JoinCount - 1)
        BY <2>2, <3>3
      <3>5. R \notin VerifyThreads /\ R \notin OkayThreads /\ R # S
        BY DEF VerifyThreads, OkayThreads, V, O, R, S
      <3> QED BY <3>4, <3>5, JoinOrderIs DEF Deleted
    <2>4. ASSUME pc[w] = "addSync" PROVE ~Deleted(S)
      <3>1. PICK k \in 1..NVerify : JoinOrder[k] = Object(w)
        BY <2>1, <2>4, WorkerPlace DEF StopInv, CallersAre
      <3>2. \A j \in 1..joined : j < k
        BY <2>1, <2>2, <3>1, AtWorkUnjoined
      <3>3. \A j \in 1..joined : j \in 1..NVerify
        BY <2>2, <3>1, <3>2
      <3>4. S \notin VerifyThreads
        BY DEF VerifyThreads, V, S
      <3> QED BY <3>3, <3>4, JoinOrderIs DEF Deleted
    <2>5. ASSUME pc[w] \in InAddOkay, NEW th \in OkayThreads PROVE ~Deleted(th)
      <3>1. w = Syncer
        BY <2>1, <2>5 DEF StopInv, CallersAre
      <3>2. \A j \in 1..joined : j < NVerify + 1
        BY <2>1, <2>2, <3>1, AtWorkUnjoined, WorkerPlace
      <3>3. \A j \in 1..joined : j \in 1..NVerify
        BY <2>2, <3>2
      <3>4. th \notin VerifyThreads
        BY <2>5 DEF VerifyThreads, OkayThreads, V, O
      <3> QED BY <3>3, <3>4, JoinOrderIs DEF Deleted
    <2> QED BY <2>3, <2>4, <2>5
  <1> QED BY <1>1, StopInvariant, PTL

\* When final() has ended, a task that is still allocated is in a hand-over queue
\* or in the hands of the accept thread: every vector has been emptied and every
\* other thread has handed on what it had (zTCPTaskPool.cpp:596-612, 809-826).
THEOREM LeftUnread == Spec => []OnlyUnreadLeft
  <1>1. StopInv => OnlyUnreadLeft
    <2> SUFFICES ASSUME StopInv, Stopped, NEW t \in live
                 PROVE  t = hand[Accepter] \/ \E th \in Threads : t \in queue[th]
      BY DEF OnlyUnreadLeft
    <2>1. \A w \in Workers \ {Accepter} : pc[w] \in Ended
      <3> HIDE DEF JoinCount, JoinOrder
      <3> QED BY WorkerPlace DEF StopInv, JoinedEnded, Stopped
    <2>2. \A w \in Workers \ {Accepter} : hand[w] = NoTask
      BY <2>1, HoldingWorks DEF StopInv, HandFull
    <2>3. Object(Accepter) \notin Threads
      BY DEF Object, Accepter, Threads, VerifyThreads, OkayThreads, V, O, S, R
    <2>4. \A th \in Threads : tasks[th] = {}
      BY <2>1, <2>3 DEF StopInv, EndedEmpty
    <2>5. t \in Tasks /\ t # NoTask /\ Held(t)
      BY TasksAssumption DEF StopInv, TypeOK, TaskTypes, Covered
    <2> QED BY <2>2, <2>4, <2>5 DEF Held
  <1> QED BY <1>1, StopInvariant, PTL

-----------------------------------------------------------------------------
(* ServeInv while the pool stops: it is kept up to the step that has no      *)
(* defined outcome, and after that step nothing is said. (A run that drains  *)
(* its vector takes no lock, so a second run of the thread may be in a pass.)*)

\* A worker leaves its loop, or goes on outside of it.
LEMMA LeavingKeeps ==
    ASSUME ServeInv, NEW w \in Workers, NEW to, Goto(w, to),
           IF w = Accepter THEN to = "register" ELSE to \in DrainLabels,
           w # Accepter => todo[w] = {},
           w \in Okayers => pc[w] \notin {"pass", "drop"},
           UNCHANGED <<todo, mlock>>
    PROVE  RoleLabels' /\ PassOver' /\ PassLocked'
  <1>1. \A u \in Workers : pc'[u] = IF u = w THEN to ELSE pc[u]
    BY DEF ServeInv, TypeOK, LabelTypes, Goto
  <1>2. RoleLabels'
    BY <1>1, RoleSets DEF ServeInv, RoleLabels
  <1>3. PassOver'
    BY <1>1 DEF ServeInv, PassOver, DrainLabels
  <1>4. PassLocked'
    <2>1. \A u \in Okayers : /\ u \in Workers
                             /\ pc'[u] \in {"pass", "drop"} <=> pc[u] \in {"pass", "drop"}
      BY <1>1, RoleSets DEF DrainLabels
    <2>2. \A i \in 1..NOkay, r \in 1..MaxRuns : Okayer(i, r) \in Okayers
      BY RoleSets
    <2> QED BY <2>1, <2>2 DEF ServeInv, PassLocked
  <1> QED BY <1>2, <1>3, <1>4

\* It does so with nothing in hand, and moves no task.
LEMMA QuietLeaves ==
    ASSUME ServeInv, TypeOK', NEW w \in Workers, NEW to, Goto(w, to),
           IF w = Accepter THEN to = "register" ELSE to \in DrainLabels,
           w # Accepter => todo[w] = {},
           w \in Okayers => pc[w] \notin {"pass", "drop"},
           pc[w] \notin HandLabels, to \notin HandLabels,
           UNCHANGED <<todo, mlock, queue, tasks, hand, live, state, verified, container, unique>>
    PROVE  ServeInv'
  <1>1. RoleLabels' /\ PassOver' /\ PassLocked'
    BY LeavingKeeps
  <1>2. SameSide
    BY DEF ServeInv, TypeOK, LabelTypes, Goto, SameSide
  <1>3. TypeOK /\ PlaceInv
    BY DEF ServeInv, PlaceInv
  <1>4. PlaceInv'
    BY <1>2, <1>3, StayKeeps
  <1>5. ContainerExact' /\ UniqueHeld' /\ IteratorsValid'
    BY DEF ServeInv, ContainerExact, UniqueHeld, IteratorsValid
  <1> QED BY <1>1, <1>4, <1>5 DEF ServeInv, PlaceInv

\* No other run of the thread is in a pass when a run that has left its loop still
\* finds a task in the vector.
LEMMA DrainsAlone ==
    ASSUME ServeInv, Alone, NEW w \in Workers, pc[w] = "drain", tasks[Object(w)] # {}
    PROVE  \A u \in Workers : Object(u) = Object(w) => todo[u] = {}
  <1>1. todo[w] = {}
    BY DEF ServeInv, PassOver, DrainLabels
  <1>2. ASSUME NEW u \in Workers, u # w, Object(u) = Object(w) PROVE todo[u] = {}
    <2>1. PICK i \in 1..NOkay, r, q \in 1..MaxRuns :
             w = Okayer(i, r) /\ u = Okayer(i, q) /\ r # q
      BY <1>2, SameObject
    <2>2. tasks[O(i)] # {}
      BY <2>1, WorkerFacts
    <2>3. pc[u] \notin {"pass", "drop"}
      BY <2>1, <2>2 DEF Alone, Racing
    <2> QED BY <2>1, <2>3 DEF ServeInv, PassLocked
  <1> QED BY <1>1, <1>2

\* ServeInv survives every step of the stop.
LEMMA StopServeStep == ASSUME ServeInv, StopInv, Alone, StopStep PROVE ServeInv'
  <1> USE DEF taskVars, outerVars, boxVars, okayVars, flowVars, callVars, acceptVars, finalVars
  <1>a. TypeOK /\ PlaceInv /\ TypeOK'
    BY StopTypes DEF ServeInv, PlaceInv, StopInv
  <1>b. ASSUME NEW th \in Threads, NEW t \in tasks[th]
        PROVE  t \in live /\ state[t] = Stage(th)
    BY <1>b DEF ServeInv, NoneLost, Held, StateOfPlace, TypeOK, BoxTypes
  <1>c. ContainerExact /\ UniqueHeld /\ TaskTypes
    BY DEF ServeInv, TypeOK
  <1>1. ASSUME UNCHANGED <<taskVars, outerVars, boxVars, okayVars, flowVars>> PROVE ServeInv'
    <2>1. SameSide
      BY <1>1 DEF SameSide
    <2>2. PlaceInv'
      BY <1>1, <1>a, <2>1, StayKeeps
    <2>3. ContainerExact' /\ UniqueHeld'
      BY <1>1, <1>c DEF ContainerExact, UniqueHeld
    <2>4. IteratorsValid'
      BY <1>1 DEF ServeInv, IteratorsValid
    <2>5. RoleLabels' /\ PassOver'
      BY <1>1 DEF ServeInv, RoleLabels, PassOver
    <2>6. PassLocked'
      BY <1>1 DEF ServeInv, PassLocked
    <2> QED BY <1>a, <2>2, <2>3, <2>4, <2>5, <2>6 DEF ServeInv, PlaceInv
  <1>2. ASSUME newTCPTaskRefused PROVE ServeInv'
    <2>1. Accepter \in Workers /\ Accepter \notin Okayers
      BY RoleSets
    <2>2. Goto(Accepter, "register") /\ pc[Accepter] \notin HandLabels /\ "register" \notin HandLabels
      BY <1>2 DEF newTCPTaskRefused, HandLabels
    <2>3. UNCHANGED <<todo, mlock, queue, tasks, hand, live, state, verified, container, unique>>
      BY <1>2 DEF newTCPTaskRefused
    <2> QED BY <1>a, <2>1, <2>2, <2>3, QuietLeaves
  <1>3. ASSUME NEW w \in Workers \ {Accepter}, NEW th \in Threads, Leave(w, th) PROVE ServeInv'
    <2>1. /\ pc[w] = LoopEnd(w) /\ todo[w] = {} /\ Goto(w, "drain")
          /\ UNCHANGED <<todo, mlock, queue, tasks, hand, live, state, verified, container, unique>>
      BY <1>3 DEF Leave
    <2>2. LoopEnd(w) \in {"receive", "check", "pass"}
      BY DEF LoopEnd
    <2>3. w \in Okayers => pc[w] \notin {"pass", "drop"}
      BY <2>1, RoleSets DEF LoopEnd
    <2>4. pc[w] \notin HandLabels /\ "drain" \notin HandLabels /\ "drain" \in DrainLabels
      BY <2>1, <2>2 DEF HandLabels, DrainLabels
    <2> QED BY <1>a, <2>1, <2>3, <2>4, QuietLeaves
  <1>4. ASSUME NEW w \in Workers \ {Accepter}, NEW th \in Threads, Exit(w, th) PROVE ServeInv'
    <2>1. /\ pc[w] = "drain" /\ Goto(w, "done")
          /\ UNCHANGED <<todo, mlock, queue, tasks, hand, live, state, verified, container, unique>>
      BY <1>4 DEF Exit
    <2>2. todo[w] = {} /\ "done" \in DrainLabels
      BY <2>1 DEF ServeInv, PassOver, DrainLabels
    <2>3. pc[w] \notin HandLabels /\ "done" \notin HandLabels
      BY <2>1 DEF HandLabels
    <2> QED BY <1>a, <2>1, <2>2, <2>3, QuietLeaves
  <1>5. ASSUME NEW w \in Workers \ {Accepter}, NEW th \in Threads, th = Object(w),
               NEW t \in Tasks, DrainTask(w, th, t)
        PROVE  ServeInv'
    <2>1. /\ pc[w] = "drain" /\ t \in tasks[th] /\ Take(w, th, t) /\ Goto(w, "drop drain")
          /\ UNCHANGED <<live, verified, unique, queue, todo, mlock>>
      BY <1>5 DEF DrainTask
    <2>2. pc[w] \in DrainLabels /\ "drop drain" \in DrainLabels /\ "drop drain" \in HandLabels
      BY <2>1 DEF DrainLabels, HandLabels
    <2>3. \A u \in Workers : Object(u) = Object(w) => todo[u] = {}
      <3>1. tasks[Object(w)] # {}
        BY <1>5, <2>1
      <3> QED BY <2>1, <3>1, DrainsAlone
    <2>4. hand[w] = NoTask
      BY <2>1 DEF ServeInv, HandFull, HandLabels
    <2>5. t \in live /\ state[t] = Stage(th)
      BY <1>b, <2>1
    <2>6. th \in OkayThreads <=> Stage(th) = "okay"
      BY DEF Stage, OkayThreads, VerifyThreads, O, V, S
    <2>7. /\ state' = [state EXCEPT ![t] = "recycle"]
          /\ container' = IF state[t] = "okay" THEN container \ {t} ELSE container
      <3>1. CASE th \in OkayThreads
        BY <1>5, <2>5, <2>6, <3>1 DEF DrainTask, getNextState, NextState
      <3>2. CASE th \notin OkayThreads
        BY <1>5, <2>5, <2>6, <3>2 DEF DrainTask, resetState
      <3> QED BY <3>1, <3>2
    <2>8. PlaceInv'
      BY <1>a, <2>1, <2>2, <2>4, <2>7, TakeKeeps DEF StageInHand, States
    <2>9. RoleLabels' /\ PassOver' /\ PassLocked'
      BY <2>1, <2>2, <2>3, LeavingKeeps
    <2>10. ContainerExact' /\ UniqueHeld'
      BY <1>c, <2>1, <2>5, <2>7 DEF ContainerExact, UniqueHeld, TaskTypes
    <2>11. IteratorsValid'
      <3>1. \A u \in Workers : u # w => hand'[u] = hand[u]
        BY <1>a, <2>1 DEF Take, TypeOK, BoxTypes
      <3>2. \A x \in Threads : x # th => tasks'[x] = tasks[x]
        BY <1>a, <2>1 DEF Take, TypeOK, BoxTypes
      <3>3. \A u \in Workers \ {Accepter} : Object(u) \in Threads
        BY DEF Workers, Verifiers, Okayers, Object, Threads, VerifyThreads, OkayThreads,
               Accepter, Syncer, Recycler, Verifier, Okayer, V, O, S, R
      <3>4. ASSUME NEW u \in Workers \ {Accepter} PROVE todo'[u] \subseteq tasks'[Object(u)]
        BY <1>5, <2>1, <2>3, <3>2, <3>3 DEF ServeInv, IteratorsValid
      <3>5. ASSUME NEW u \in Workers \ {Accepter}, todo'[u] # {},
                   NEW x \in Workers, x # u, Object(x) = Object(u)
            PROVE  todo'[x] = {} /\ hand'[x] = NoTask
        <4>1. x # w
          BY <2>1, <2>3, <3>5
        <4>2. todo[x] = {} /\ hand[x] = NoTask
          BY <2>1, <3>5 DEF ServeInv, IteratorsValid
        <4> QED BY <2>1, <3>1, <4>1, <4>2
      <3> QED BY <3>4, <3>5 DEF IteratorsValid
    <2> QED BY <1>a, <2>8, <2>9, <2>10, <2>11 DEF ServeInv, PlaceInv
  <1>6. ASSUME NEW w \in Workers \ {Accepter}, addRecycle(w, "drop drain", "drain")
        PROVE  ServeInv'
    <2>1. /\ pc[w] = "drop drain" /\ Add(w, R) /\ Goto(w, "drain")
          /\ UNCHANGED <<tasks, state, live, verified, container, unique, todo, mlock>>
      BY <1>6 DEF addRecycle
    <2>2. todo[w] = {} /\ "drain" \in DrainLabels
      BY <2>1 DEF ServeInv, PassOver, DrainLabels
    <2>3. hand[w] # NoTask /\ "drain" \notin HandLabels
      BY <2>1 DEF ServeInv, HandFull, HandLabels
    <2>4. R \in Threads /\ Stage(R) = StageInHand(pc[w])
      BY <2>1, ThreadFacts DEF StageInHand
    <2>5. PlaceInv'
      BY <1>a, <2>1, <2>3, <2>4, AddKeeps
    <2>6. RoleLabels' /\ PassOver' /\ PassLocked'
      BY <2>1, <2>2, LeavingKeeps
    <2>7. ContainerExact' /\ UniqueHeld'
      BY <1>c, <2>1 DEF ContainerExact, UniqueHeld
    <2>8. IteratorsValid'
      <3>1. \A u \in Workers \ {Accepter} : hand'[u] \in {hand[u], NoTask}
        BY <1>a, <2>1 DEF Add, TypeOK, BoxTypes
      <3> QED BY <1>a, <2>1, <3>1, PassShrinks DEF ServeInv
    <2> QED BY <1>a, <2>5, <2>6, <2>7, <2>8 DEF ServeInv, PlaceInv
  <1>7. ASSUME NEW t \in Tasks, DrainDelete(t) PROVE ServeInv'
    <2>1. /\ pc[Recycler] = "drain" /\ t \in tasks[R] /\ Destroy(t) /\ UNCHANGED <<pc, todo>>
      BY <1>7 DEF DrainDelete
    <2>w. Recycler \in Workers /\ Object(Recycler) = R /\ R \in Threads
      BY WorkerFacts, ThreadFacts
    <2>2. t \in live /\ state[t] = "recycle"
      BY <1>b, <2>1, <2>w, ThreadFacts
    <2>3. state' = [state EXCEPT ![t] = "notuse"]
      BY <2>1, <2>2 DEF Destroy, Free, getNextState, NextState
    <2>4. Dropped(t)
      BY <2>1, Zenon DEF Destroy, Free, Dropped
    <2>5. queue' = queue /\ hand' = hand /\ mlock' = mlock
      BY <2>1 DEF Destroy
    <2>6. PlaceInv'
      BY <1>a, <2>1, <2>3, <2>4, <2>5, FreedKeeps
    <2>7. ContainerExact' /\ UniqueHeld'
      BY <2>1, <1>c, <2>2 DEF Destroy, Free, getNextState, NextState, ContainerExact, UniqueHeld,
         TaskTypes, Flags
    <2>8. RoleLabels' /\ PassOver' /\ PassLocked'
      BY <2>1, <2>5 DEF ServeInv, RoleLabels, PassOver, PassLocked
    <2>9. IteratorsValid'
      <3>1. \A u \in Workers : Object(u) = R => todo[u] = {}
        <4>1. tasks[Object(Recycler)] # {}
          BY <2>1, <2>w
        <4> QED BY <2>1, <2>w, <4>1, DrainsAlone
      <3>2. \A x \in Threads : x # R => tasks'[x] = tasks[x]
        BY <1>a, <2>4 DEF Dropped, TypeOK, BoxTypes
      <3>3. \A u \in Workers \ {Accepter} : Object(u) \in Threads
        BY DEF Workers, Verifiers, Okayers, Object, Threads, VerifyThreads, OkayThreads,
               Accepter, Syncer, Recycler, Verifier, Okayer, V, O, S, R
      <3>4. ASSUME NEW u \in Workers \ {Accepter} PROVE todo'[u] \subseteq tasks'[Object(u)]
        BY <2>1, <3>1, <3>2, <3>3 DEF ServeInv, IteratorsValid
      <3> QED BY <2>1, <2>5, <3>4 DEF ServeInv, IteratorsValid
    <2> QED BY <1>a, <2>6, <2>7, <2>8, <2>9 DEF ServeInv, PlaceInv
  <1>8. ASSUME NEW w \in Workers \ {Accepter}, NEW th \in Threads, th = Object(w),
               DrainStep(w, th)
        PROVE  ServeInv'
    BY <1>3, <1>4, <1>5, <1>6, <1>8 DEF DrainStep
  <1>9. /\ \A i \in 1..NVerify : /\ Verifier(i) \in Workers \ {Accepter} /\ V(i) \in Threads
                                 /\ V(i) = Object(Verifier(i))
        /\ \A i \in 1..NOkay, r \in 1..MaxRuns :
              /\ Okayer(i, r) \in Workers \ {Accepter} /\ O(i) \in Threads
              /\ O(i) = Object(Okayer(i, r))
        /\ Syncer \in Workers \ {Accepter} /\ S \in Threads /\ S = Object(Syncer)
        /\ Recycler \in Workers \ {Accepter} /\ R \in Threads
    BY WorkerFacts, ThreadFacts
  <1>10. CASE FinalNext \/ Join \/ JoinReturn \/ addVerifyDeleted
    BY <1>1, <1>10 DEF FinalNext, Join, JoinReturn, addVerifyDeleted
  <1>11. CASE \E i \in 1..NVerify : DrainStep(Verifier(i), V(i))
    BY <1>8, <1>9, <1>11
  <1>12. CASE \E i \in 1..NOkay, r \in 1..MaxRuns : DrainStep(Okayer(i, r), O(i))
    BY <1>8, <1>9, <1>12
  <1>13. CASE DrainStep(Syncer, S)
    BY <1>8, <1>9, <1>13
  <1>14. CASE Leave(Recycler, R) \/ Exit(Recycler, R)
    BY <1>3, <1>4, <1>9, <1>14
  <1> QED
    BY <1>2, <1>7, <1>10, <1>11, <1>12, <1>13, <1>14 DEF StopStep

\* The invariant while the pool may be stopped.
StoppingInv == PlacesKept /\ (IteratorsValid \/ Undefined)

LEMMA PlacesStay == ASSUME PlacesKept, UNCHANGED vars PROVE PlacesKept'
  <1> USE DEF vars, taskVars, outerVars, boxVars, okayVars, flowVars, callVars, acceptVars,
          finalVars
  <1>1. TypeOK'
    BY DEF PlacesKept, TypeOK, TaskTypes, BoxTypes, LabelTypes, CountTypes, RestTypes
  <1>2. SingleOwner' /\ NoneLost' /\ StateOfPlace'
    BY DEF PlacesKept, SingleOwner, NoneLost, Held, StateOfPlace
  <1>3. ContainerExact' /\ UniqueHeld' /\ RoleLabels'
    BY DEF PlacesKept, ContainerExact, UniqueHeld, RoleLabels
  <1>4. HandFull' /\ PassOver' /\ PassLocked'
    BY DEF PlacesKept, HandFull, PassOver, PassLocked
  <1> QED BY <1>1, <1>2, <1>3, <1>4 DEF PlacesKept

\* Inductive, for the stop at any time and any number of runs of the threads.
THEOREM ServeInvStopping == Spec => []StoppingInv
  <1>1. PlacesKept /\ IteratorsValid <=> ServeInv
    BY DEF PlacesKept, ServeInv
  <1>2. ASSUME StoppingInv, StopInv, Next PROVE StoppingInv'
    <2>1. ServeInv /\ Alone
      BY <1>1, <1>2 DEF StoppingInv, Next, Undefined, Alone
    <2>2. CASE StopStep
      BY <1>1, <1>2, <2>1, <2>2, StopServeStep DEF StoppingInv, ServeInv, PlacesKept
    <2>3. CASE ServeNext
      <3>1. PlacesKept'
        BY <2>1, <2>3, PlacesStep
      <3>2. Alone' \/ Undefined'
        BY DEF Alone, Undefined
      <3> QED BY <2>1, <2>3, <3>1, <3>2, IteratorsStep DEF StoppingInv
    <2> QED BY <1>2, <2>2, <2>3 DEF Next
  <1>3. ASSUME StoppingInv, UNCHANGED vars PROVE StoppingInv'
    <2>1. PlacesKept'
      BY <1>3, PlacesStay DEF StoppingInv
    <2>2. IteratorsValid => IteratorsValid'
      BY <1>3 DEF IteratorsValid, vars, boxVars, flowVars
    <2>3. Undefined => Undefined'
      BY <1>3 DEF Undefined, Racing, vars, boxVars, flowVars, finalVars
    <2> QED BY <1>3, <2>1, <2>2, <2>3 DEF StoppingInv
  <1>4. Init => StoppingInv
    BY <1>1, InitServeInv DEF StoppingInv
  <1>5. StoppingInv /\ StopInv /\ [Next]_vars => StoppingInv'
    BY <1>2, <1>3
  <1> QED BY <1>4, <1>5, StopInvariant, PTL DEF Spec

\* No task is in two threads, or twice in one, while the threads drain their
\* vectors one after the other (zTCPTaskPool.cpp:504, 809-826).
THEOREM SingleOwnerStopping == Spec => []SingleOwner
  <1>1. StoppingInv => SingleOwner
    BY DEF StoppingInv, PlacesKept
  <1> QED BY <1>1, ServeInvStopping, PTL

\* While the pool stops, no task leaks or is used after its delete, its state is
\* still that of the thread that has it, and the calls into the two outer
\* containers stay paired (zTCPTaskPool.cpp:494-506, 596-612).
THEOREM PlacesStopping ==
    Spec => [](NoneLost /\ StateOfPlace /\ ContainerExact /\ UniqueHeld)
  <1>1. StoppingInv => NoneLost /\ StateOfPlace /\ ContainerExact /\ UniqueHeld
    BY DEF StoppingInv, PlacesKept
  <1> QED BY <1>1, ServeInvStopping, PTL

\* A pass goes on undisturbed while other threads drain their vectors, up to the
\* data race of two runs of one okay thread (zTCPTaskPool.cpp:407-441, 494-506).
THEOREM PassesStopping == Spec => [](IteratorsValid \/ Undefined)
  <1>1. StoppingInv => IteratorsValid \/ Undefined
    BY DEF StoppingInv
  <1> QED BY <1>1, ServeInvStopping, PTL

\* A step of the stop ends a connection, gives it up or deletes it as
\* ConnectionLife allows, or leaves its four variables alone.
LEMMA LifeStopStep == ASSUME ServeInv, StopStep PROVE [Lifecycle!Next]_(Lifecycle!lifeVars)
  <1> USE DEF taskVars, outerVars, boxVars, okayVars, flowVars, callVars, acceptVars, finalVars
  <1> DEFINE LifeNext == [Lifecycle!Next]_(Lifecycle!lifeVars)
  <1> SUFFICES LifeNext
    OBVIOUS
  <1>a. ASSUME NEW th \in Threads, NEW t \in tasks[th]
        PROVE  t \in live /\ t \in Tasks /\ state[t] = Stage(th)
    BY <1>a DEF ServeInv, NoneLost, Held, StateOfPlace, TypeOK, BoxTypes
  <1>b. UNCHANGED <<live, state, container, unique>> => LifeNext
    BY DEF Lifecycle!lifeVars
  <1>c. \A t \in Tasks : /\ t \in live /\ state[t] \in {"sync", "okay"} => t \in unique
                         /\ t \in live => (t \in container <=> state[t] = "okay")
                         /\ t \in unique => verified[t]
    BY DEF ServeInv, UniqueHeld, ContainerExact
  <1>1. ASSUME NEW w \in Workers \ {Accepter, Recycler}, NEW th \in Threads, th = Object(w),
               NEW t \in Tasks, DrainTask(w, th, t)
        PROVE  LifeNext
    <2>1. t \in live /\ state[t] = Stage(th)
      BY <1>1, <1>a DEF DrainTask
    <2>2. CASE th \in OkayThreads
      <3>1. state[t] = "okay"
        BY <2>1, <2>2, ThreadFacts DEF OkayThreads
      <3>2. Lifecycle!End(t)
        BY <1>1, <1>c, <2>1, <2>2, <3>1 DEF DrainTask, getNextState, NextState, Lifecycle!End,
           Lifecycle!Enter
      <3> QED BY <3>2 DEF Lifecycle!Next
    <2>3. CASE th \notin OkayThreads
      <3>1. th # R
        BY <1>1, SameObject, WorkerFacts
      <3>2. state[t] \in {"verify", "sync"}
        BY <2>1, <2>3, <3>1 DEF Stage, Threads
      <3>3. Lifecycle!GiveUp(t)
        BY <1>1, <2>1, <2>3, <3>2 DEF DrainTask, resetState, Lifecycle!GiveUp, Lifecycle!Enter
      <3> QED BY <3>3 DEF Lifecycle!Next
    <2> QED BY <2>2, <2>3
  <1>2. ASSUME NEW t \in Tasks, DrainDelete(t) PROVE LifeNext
    <2>1. t \in live /\ state[t] = "recycle"
      BY <1>2, <1>a, ThreadFacts DEF DrainDelete
    <2>2. Lifecycle!Delete(t)
      BY <1>2, <1>c, <2>1 DEF DrainDelete, Destroy, Free, getNextState, NextState,
         Lifecycle!Delete, Lifecycle!Enter
    <2> QED BY <2>2 DEF Lifecycle!Next
  <1>3. ASSUME NEW w, NEW th, Leave(w, th) PROVE LifeNext
    BY <1>3, <1>b DEF Leave
  <1>4. ASSUME NEW w, NEW th, Exit(w, th) PROVE LifeNext
    BY <1>4, <1>b DEF Exit
  <1>5. ASSUME NEW w, addRecycle(w, "drop drain", "drain") PROVE LifeNext
    BY <1>5, <1>b DEF addRecycle
  <1>6. CASE FinalNext \/ Join \/ JoinReturn \/ newTCPTaskRefused \/ addVerifyDeleted
    BY <1>6, <1>b DEF FinalNext, Join, JoinReturn, newTCPTaskRefused, addVerifyDeleted
  <1> HIDE DEF LifeNext
  <1>7. ASSUME NEW w \in Workers \ {Accepter, Recycler}, NEW th \in Threads, th = Object(w),
               DrainStep(w, th)
        PROVE  LifeNext
    BY <1>1, <1>3, <1>4, <1>5, <1>7 DEF DrainStep
  <1>8. /\ \A i \in 1..NVerify : /\ Verifier(i) \in Workers \ {Accepter, Recycler}
                                 /\ V(i) \in Threads /\ V(i) = Object(Verifier(i))
        /\ \A i \in 1..NOkay, r \in 1..MaxRuns :
              /\ Okayer(i, r) \in Workers \ {Accepter, Recycler} /\ O(i) \in Threads
              /\ O(i) = Object(Okayer(i, r))
        /\ Syncer \in Workers \ {Accepter, Recycler} /\ S \in Threads /\ S = Object(Syncer)
    BY WorkerFacts, ThreadFacts
  <1>9. CASE \E i \in 1..NVerify : DrainStep(Verifier(i), V(i))
    BY <1>7, <1>8, <1>9
  <1>10. CASE \E i \in 1..NOkay, r \in 1..MaxRuns : DrainStep(Okayer(i, r), O(i))
    BY <1>7, <1>8, <1>10
  <1>11. CASE DrainStep(Syncer, S)
    BY <1>7, <1>8, <1>11
  <1> QED BY <1>2, <1>3, <1>4, <1>6, <1>9, <1>10, <1>11 DEF StopStep

\* The pool implements ConnectionLife also while it stops: a connection that is
\* drained is ended or given up at the stage it had reached, and leaves the outer
\* containers once (zTCPTask.cpp:76-131, zTCPTaskPool.cpp:494-506, 596-612).
THEOREM LifecycleStopping == Spec => ConnectionLifeKept
  <1>1. Init => Lifecycle!Init
    BY DEF Init, Lifecycle!Init
  <1>2. ASSUME StoppingInv, Next PROVE [Lifecycle!Next]_(Lifecycle!lifeVars)
    <2>1. ServeInv
      BY <1>2 DEF StoppingInv, PlacesKept, Next, ServeInv
    <2> QED BY <1>2, <2>1, LifeStep, LifeStopStep DEF Next
  <1>3. UNCHANGED vars => UNCHANGED Lifecycle!lifeVars
    BY DEF vars, taskVars, outerVars, Lifecycle!lifeVars
  <1>4. StoppingInv /\ [Next]_vars => [Lifecycle!Next]_(Lifecycle!lifeVars)
    BY <1>2, <1>3
  <1> QED
    BY <1>1, <1>4, ServeInvStopping, PTL DEF Spec, ConnectionLifeKept, Lifecycle!Life

=============================================================================
