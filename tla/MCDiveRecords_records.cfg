\* Every order of requests, with a restart or a crash between two writes.
SPECIFICATION Spec
CONSTANTS
    Tasks = {"mission", "start", "stop", "quiesce"}
    Job <- MCJob
    MaxDives = 2
    MaxStamps = 1
    MaxRestarts = 1
    MaxAstray = 0
INVARIANTS
    StampBelongs
PROPERTIES
    PollKeepsDive
    ImplementsLog
CHECK_DEADLOCK FALSE
