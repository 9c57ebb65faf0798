\* Every order of requests, stops, camera failures, resets and one restart.
SPECIFICATION FairSpec
CONSTANTS
    Callers = {"stop", "quiesce", "finalize"}
    NoCaller = "none"
    Job <- MCJob
    Phases = 2
    MaxStarts = 2
    MaxPart = 1
    MaxFrag = 1
    MaxEpochs = 1
    MaxTimeouts = 1
INVARIANTS
    OneStampPerDive
    HeldMeansRecording
PROPERTIES
    NoClobber
    LabelFollows
    RecordingReturns
CHECK_DEADLOCK FALSE
