\* Release output and latches: leaks, critical battery, release tests, disarms, reboots.
SPECIFICATION Spec
CONSTANTS
    Deepest = 4
    DeepM = 1
    AirM = 0
    Gate = 3
    SrfDpt = 1
    MaxDpth = 3
    StkRise = 2
    TestTicks = 1
    GpsWait = 1
    DrSize = 1
    RlsTicks = 2
    BrnMin = 2
    ArSize = 1
    SrSize = 2
    CritTicks = 1
    LinkDepth = 1
    MaxReboots = 1
    Beats = FALSE
    Volts = {"ok", "crit"}
    Tests = {"release"}
    Faults = {"leak", "disarm"}
INVARIANTS
    ReleaseAccounted
    SelfHealBounded
PROPERTIES
    DiveNotRepeated
    ImplementsContract
