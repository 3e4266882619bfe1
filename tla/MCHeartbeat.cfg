\* The unit is ten seconds: 30 s between two checks, 10 s for the verification.
SPECIFICATION FairSpec
CONSTANTS
    Period = 3
    VerifyTime = 1
    MaxRound = 1
    MaxNulls = 1
    Jumps <- TwoEitherWay
    MaxJumps = 1
    MaxBack = 6
INVARIANTS InTime
PROPERTIES Patient EndedWithoutNulls
CHECK_DEADLOCK FALSE
