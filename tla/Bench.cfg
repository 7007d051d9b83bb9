CONSTANTS
    Scripts <- AllScripts
    MaxRounds = 2
    MaxAttempts = 2
    MaxFaults = 1
SPECIFICATION Spec
INVARIANTS
    CompleteRun
    VerdictTrue
    HidFresh
