SPECIFICATION Spec
CONSTANTS
    procA = procA
    procB = procB
    procC = procC
    nonceA = nonceA
    nonceB = nonceB
    Procs <- TwoProcs
    Keys <- TwoKeys
    NoKey = NoKey
    MaxCalls = 4
    MaxFaults = 2
CHECK_DEADLOCK FALSE
SYMMETRY Interchangeable
INVARIANTS
    TypeOK
    OneWriter
    GrantedOnce
    GrantsSurvive
CONSTRAINT Followed
