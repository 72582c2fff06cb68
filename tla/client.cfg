SPECIFICATION FairSpec
CONSTANTS
    keyPrompt = keyPrompt
    keyProbe = keyProbe
    keyProbeAgain = keyProbeAgain
    Keys <- SomeKeys
    Probes <- SomeProbes
    MaxIds = 2
    MaxActive = 2
    MaxReleased = 1
    MaxFaults = 2
CHECK_DEADLOCK FALSE
INVARIANTS
    TypeOK
    KeyExecutedOnce
    ReconcilableOnceSent
PROPERTIES
    TerminalIsFinal
    EveryCommandEnds
