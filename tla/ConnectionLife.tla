--------------------------- MODULE ConnectionLife ---------------------------
(***************************************************************************)
(* What zTCPTaskPool promises to the code above it about a connection: the *)
(* stages it goes through, with the calls into the two outer containers    *)
(* (addToContainer / removeFromContainer, uniqueAdd / uniqueRemove) each   *)
(* made once, at the stage they belong to.  No thread, queue or lock is    *)
(* visible here.                                                           *)
(***************************************************************************)
EXTENDS FiniteSets

CONSTANT Tasks

VARIABLES
    live,       \* the connections that exist
    state,      \* the stage of each
    container,  \* the connections the outer container serves
    unique      \* the connections whose identity is taken

lifeVars == <<live, state, container, unique>>

Init ==
    /\ live = {} /\ container = {} /\ unique = {}
    /\ state = [t \in Tasks |-> "notuse"]

Enter(t, from, to) ==
    /\ t \in live /\ state[t] \in from
    /\ state' = [state EXCEPT ![t] = to]

Accept(t) ==
    /\ t \notin live
    /\ live' = live \cup {t}
    /\ state' = [state EXCEPT ![t] = "verify"]
    /\ UNCHANGED <<container, unique>>

\* The peer has said who it is, and nobody else is that.
Identify(t) ==
    /\ Enter(t, {"verify"}, "sync")
    /\ unique' = unique \cup {t}
    /\ UNCHANGED <<live, container>>

Serve(t) ==
    /\ Enter(t, {"sync"}, "okay") /\ t \in unique
    /\ container' = container \cup {t}
    /\ UNCHANGED <<live, unique>>

\* Given up before it served: no one above needs to hear of it.
GiveUp(t) ==
    /\ Enter(t, {"verify", "sync"}, "recycle")
    /\ UNCHANGED <<live, container, unique>>

End(t) ==
    /\ Enter(t, {"okay"}, "recycle") /\ t \in unique /\ t \in container
    /\ container' = container \ {t}
    /\ UNCHANGED <<live, unique>>

Delete(t) ==
    /\ Enter(t, {"recycle"}, "notuse") /\ t \notin container
    /\ live' = live \ {t}
    /\ unique' = unique \ {t}
    /\ UNCHANGED container

Next == \E t \in Tasks : \/ Accept(t) \/ Identify(t) \/ Serve(t)
                         \/ GiveUp(t) \/ End(t) \/ Delete(t)

Life == Init /\ [][Next]_lifeVars
=============================================================================
