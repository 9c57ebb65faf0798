\* Every order of messages, failures, restarts and one change of the policy.
SPECIFICATION FairSpec
CONSTANTS
    Tasks = {t1, t2}
    NoTask = NoTask
    MaxRestarts = 1
    MaxToggles = 1
    MaxAsks = 2
INVARIANTS
    OneSequence
    RequestNotLost
PROPERTIES
    AckMeansSafe
    ImplementsProtocol
    ShutdownCompletes
CHECK_DEADLOCK FALSE
