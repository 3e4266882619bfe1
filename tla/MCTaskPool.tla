----------------------------- MODULE MCTaskPool -----------------------------
(* TLC's view of TaskPool: the tasks are interchangeable.                  *)
EXTENDS TaskPool, TLC

Symmetry == Permutations(Tasks)

RunsTwice(i) == \E r \in 2..MaxRuns : pc[Okayer(i, r)] # "off"

\* Once an okay thread runs twice no connection is late: late is read by the
\* verify thread only, and is explored with the thread running once.
LateWithOneRun == RunsTwice(1) => \A t \in Tasks : ~late[t]

\* Of two okay threads only the first runs twice, with nobody late, and then the
\* connections go to that thread.
FirstRunsTwice ==
    /\ LateWithOneRun
    /\ \A i \in 2..NOkay : /\ ~RunsTwice(i)
                           /\ RunsTwice(1) => queue[O(i)] \cup tasks[O(i)] = {}

\* The second okay thread makes no round in which it finds nothing: such a round
\* changes nothing.
RoundsFindSomething ==
    \A i \in 2..NOkay : LET w == Okayer(i, 1) IN
        pc[w] = "check" /\ pc[w]' = "move" => queue[O(i)] \cup tasks[O(i)] # {}
=============================================================================
