\* The super server is lost before it has answered.
SPECIFICATION Spec
CONSTANTS
    Garbage = {FALSE}
    Messages = {"response"}
    MaxSent = 1
INVARIANT ServesInitialised
CHECK_DEADLOCK FALSE
