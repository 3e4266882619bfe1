\* Every message of the super server, in any order, and every failure of a call.
SPECIFICATION FairSpec
CONSTANTS
    Garbage = {TRUE, FALSE}
    Messages = {"response", "odd", "null", "other"}
    MaxSent = 3
INVARIANTS ServesComplete ConfirmedAfterResponse SocketOutlivesThread
PROPERTIES EndsWhenTold EndsWithServer
CHECK_DEADLOCK FALSE
