\* Polling under fairness: one dive, a restart or crash, a lost command.
SPECIFICATION FairSpec
CONSTANTS
    Tasks = {"mission", "start", "stop", "quiesce"}
    Job <- MCJob
    MaxDives = 1
    MaxStamps = 1
    MaxRestarts = 1
    MaxAstray = 1
PROPERTIES
    MissionEnds
CHECK_DEADLOCK FALSE
