SPECIFICATION FairSpec
CONSTANTS
    Deepest = 2
    DeepM = 1
    AirM = 0
    Gate = 2
    SrfDpt = 1
    MaxDpth = 2
    StkRise = 1
    TestTicks = 1
    GpsWait = 1
    DrSize = 1
    RlsTicks = 2
    BrnMin = 2
    ArSize = 1
    SrSize = 1
    CritTicks = 1
    LinkDepth = 1
    MaxReboots = 0
    Beats = TRUE
    Volts = {"ok"}
    Tests = {"light"}
    Faults = {"leak", "disarm"}
PROPERTIES
    SunkIsReleased
    BottomEnds
    FirstLeakReleases
