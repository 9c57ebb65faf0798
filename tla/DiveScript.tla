----------------------------- MODULE DiveScript -----------------------------
(***************************************************************************)
(* The dive state machine of the autopilot script doris.lua: one action    *)
(* per path through update(), which the scheduler calls every 500 ms.      *)
(*                                                                         *)
(* A tick first reads its sensors (depth d, GPS fix g, pack voltage v),    *)
(* then runs the whole handler: telemetry, the release test, the GPS       *)
(* reacquire latch, the RECOVERY keepalive, the light test, the operator's *)
(* cancel and the branch of the current state, in that order.              *)
(*                                                                         *)
(* Simplifications:                                                        *)
(*  - depth is a small integer; only its order against the thresholds of   *)
(*    the script matters.  The gauge depth and the depth relative to the   *)
(*    baro zero are the same number (the zero is always standard air).     *)
(*  - a duration is a number of ticks since its start; -1 stands for the   *)
(*    script's 0 (not started) and every age saturates where the script    *)
(*    stops telling it apart.                                              *)
(*  - the averages of the velocity rings are inputs, their fill is state.  *)
(*    The surface ring keeps its fill and the number of newest samples     *)
(*    that are shallow, which decides max < srf_dpt exactly.               *)
(*  - of the recorder client only ipcam_recording is kept, and of the      *)
(*    bottom phase's light and camera dispatcher only that it may change   *)
(*    that flag.                                                           *)
(***************************************************************************)
EXTENDS Integers

CONSTANTS
    Deepest,     \* deepest depth of the instance
    DeepM,       \* 2 m: deadman and WAS_DEEP latch are for depths beyond it
    AirM,        \* the baro reads 90-110 kPa down to here
    Gate,        \* cfg.dpt_gat_m
    SrfDpt,      \* cfg.srf_dpt_m
    MaxDpth,     \* DORIS_MAX_DPTH
    StkRise,     \* DORIS_STK_RISE
    TestTicks,   \* how long a light or release test may last (10 s)
    GpsWait,     \* age of the script at the GPS self-heal (30 s)
    DrSize,      \* size of the descent-rate ring
    RlsTicks,    \* bottom time before the release (cfg.rls_sec_ms)
    BrnMin,      \* minimum burn of the release (DORIS_BRN_MIN)
    ArSize,      \* size of the ascent-rate ring
    SrSize,      \* size of the surface-depth ring
    CritTicks,   \* BATT_LOW_TIMER
    LinkDepth,   \* the operator's link works down to here
    MaxReboots,  \* bound on unplanned reboots
    Volts,       \* pack readings of the instance, of {"none", "crit", "ok"}
    Tests,       \* on-deck tests the operator runs, of {"release", "light"}
    Beats,       \* TRUE if ticks that change nothing are told apart (liveness)
    Faults       \* of {"leak", "disarm"}: what may happen to the script

ASSUME DepthAssumption ==
    /\ Deepest \in Nat /\ DeepM \in Nat /\ AirM \in Nat /\ Gate \in Nat
    /\ SrfDpt \in Nat /\ MaxDpth \in Nat /\ StkRise \in Nat
    /\ LinkDepth \in Nat
    /\ SrfDpt <= Gate        \* snapshot_config clamps cfg.srf_dpt_m
    /\ AirM <= DeepM

ASSUME TimerAssumption ==
    /\ TestTicks \in Nat \ {0} /\ GpsWait \in Nat \ {0}
    /\ DrSize \in Nat \ {0} /\ ArSize \in Nat \ {0} /\ SrSize \in Nat \ {0}
    /\ RlsTicks \in Nat \ {0} /\ BrnMin \in Nat \ {0}
    /\ CritTicks \in Nat \ {0}
    /\ MaxReboots \in Nat

ASSUME InputAssumption ==
    /\ Volts \subseteq {"none", "crit", "ok"}
    /\ Tests \subseteq {"release", "light"}
    /\ Beats \in BOOLEAN
    /\ Faults \subseteq {"leak", "disarm"}

CONFIG        == -1
MISSION_START == 0
DESCENT       == 1
ON_BOTTOM     == 2
ASCENT        == 3
RECOVERY      == 4

States  == CONFIG .. RECOVERY
Guarded == {MISSION_START, DESCENT, ON_BOTTOM}  \* check_failsafes is active
Mission == Guarded \cup {ASCENT}                \* an operator can cancel

VARIABLES
    \* parameters saved in EEPROM
    START, WAS_DEEP, GPS_RBT, rls_saved,
    \* live values of the test parameters (rls_saved is DORIS_RLS_TST's copy)
    RLS_TST, LGT_TST, INJ_LEAK,
    \* state of the script, lost by a reboot
    state, relay_active, prearm_passed, armed_once, recovery_done,
    gps_lost, gps_reboot_attempted, leak_detected, ipcam_recording,
    boot_age, rls_age, lgt_age, crit_age,
    phase_age,   \* since bottom_start_ms on the bottom, ascent_start_ms later
    rate_fill,   \* samples in ring dr during DESCENT, in ring ar later
    sr_fill, sr_shallow,
    max_depth,
    \* the autopilot and the sea
    armed, depth, boots,
    beat,        \* parity of the ticks, if they are told apart
    \* history: how long the pack has been critical with no healthy reading,
    \* a dive that went deep, ended and was not started again
    crit_hold, flown

eeprom  == <<START, WAS_DEEP, GPS_RBT, rls_saved>>
tests   == <<RLS_TST, LGT_TST, INJ_LEAK>>
script  == <<state, relay_active, prearm_passed, armed_once, recovery_done,
             gps_lost, gps_reboot_attempted, leak_detected, ipcam_recording>>
ages    == <<boot_age, rls_age, lgt_age, crit_age, phase_age>>
rings   == <<rate_fill, sr_fill, sr_shallow, max_depth>>
world   == <<armed, depth, boots, beat>>
history == <<crit_hold, flown>>
vars    == <<eeprom, tests, script, ages, rings, world, history>>

Ages(n) == -1 .. n

FlagsOK ==
    /\ START \in BOOLEAN /\ WAS_DEEP \in BOOLEAN /\ rls_saved \in BOOLEAN
    /\ RLS_TST \in BOOLEAN /\ LGT_TST \in BOOLEAN /\ INJ_LEAK \in BOOLEAN
    /\ armed \in BOOLEAN /\ beat \in BOOLEAN /\ flown \in BOOLEAN

ScriptOK ==
    /\ state \in States
    /\ relay_active \in BOOLEAN /\ prearm_passed \in BOOLEAN
    /\ armed_once \in BOOLEAN /\ recovery_done \in BOOLEAN
    /\ gps_lost \in BOOLEAN /\ gps_reboot_attempted \in BOOLEAN
    /\ leak_detected \in BOOLEAN /\ ipcam_recording \in BOOLEAN

AgesOK ==
    /\ boot_age \in 0 .. GpsWait
    /\ rls_age \in Ages(TestTicks + 1) /\ lgt_age \in Ages(TestTicks + 1)
    /\ crit_age \in Ages(CritTicks) /\ crit_hold \in Ages(CritTicks)

RingsOK ==
    /\ phase_age \in 0 .. (RlsTicks + BrnMin)
    /\ rate_fill \in 0 .. (DrSize + ArSize)
    /\ sr_fill \in 0 .. SrSize /\ sr_shallow \in 0 .. SrSize

CountsOK ==
    /\ GPS_RBT \in Nat /\ boots \in 0 .. MaxReboots
    /\ depth \in 0 .. Deepest /\ max_depth \in 0 .. Deepest

\* Every variable has its type; ages and rings stay within their caps.
TypeOK == FlagsOK /\ ScriptOK /\ AgesOK /\ RingsOK /\ CountsOK

-----------------------------------------------------------------------------
(***************************************************************************)
(* Boot                                                                    *)
(***************************************************************************)

Init ==
    /\ START = FALSE /\ WAS_DEEP = FALSE /\ GPS_RBT = 0 /\ rls_saved = FALSE
    /\ RLS_TST = FALSE /\ LGT_TST = FALSE /\ INJ_LEAK = FALSE
    /\ state = CONFIG /\ relay_active = FALSE /\ prearm_passed = FALSE
    /\ armed_once = FALSE /\ recovery_done = FALSE
    /\ gps_lost = FALSE /\ gps_reboot_attempted = FALSE
    /\ leak_detected = FALSE /\ ipcam_recording = FALSE
    /\ boot_age = 0 /\ rls_age = -1 /\ lgt_age = -1 /\ crit_age = -1
    /\ phase_age = 0 /\ rate_fill = 0 /\ sr_fill = 0 /\ sr_shallow = 0
    /\ max_depth = 0
    /\ armed = FALSE /\ depth = 0 /\ boots = 0 /\ beat = FALSE
    /\ crit_hold = -1 /\ flown = FALSE

\* A saved WAS_DEEP arms the reacquire latch; two self-heal reboots are enough.
NeverLostAtBoot == FALSE  \* mutant: the saved latch is not read
LostAtBoot == WAS_DEEP

HealSpentLate(n) == n > 2  \* mutant: off by one
HealSpent(n) == n >= 2

\* The clock and rings of a phase are dead outside it.
NoPhase ==
    phase_age' = 0 /\ rate_fill' = 0 /\ sr_fill' = 0 /\ sr_shallow' = 0

\* A restarted autopilot reads its parameters back from EEPROM and loads the
\* script anew.
Boots ==
    /\ UNCHANGED <<START, WAS_DEEP, rls_saved, INJ_LEAK, flown>>
    /\ state' = CONFIG /\ relay_active' = FALSE /\ prearm_passed' = FALSE
    /\ armed_once' = FALSE /\ recovery_done' = FALSE
    /\ gps_lost' = LostAtBoot
    /\ gps_reboot_attempted' = HealSpent(GPS_RBT')
    /\ leak_detected' = FALSE /\ ipcam_recording' = FALSE
    /\ boot_age' = 0 /\ rls_age' = -1 /\ lgt_age' = -1 /\ crit_age' = -1
    /\ NoPhase
    /\ max_depth' = 0
    /\ armed' = FALSE
    /\ RLS_TST' = rls_saved
    /\ LGT_TST' \in (IF "light" \in Tests THEN BOOLEAN ELSE {FALSE})
    /\ crit_hold' = -1

-----------------------------------------------------------------------------
(***************************************************************************)
(* What every tick does before the branch of its state                     *)
(***************************************************************************)

Bump(age, cap) == IF age = -1 THEN -1 ELSE IF age < cap THEN age + 1 ELSE cap

PhaseCap == IF state = ASCENT THEN BrnMin ELSE RlsTicks

Nearby == {d \in 0 .. Deepest : depth - 1 <= d /\ d <= depth + 1}

\* Readings, and the ages that no branch resets.
Senses(d, v) ==
    /\ depth' = d
    /\ boot_age' = Bump(boot_age, GpsWait)
    /\ crit_hold' = CASE v = "ok"   -> -1
                      [] v = "none" -> Bump(crit_hold, CritTicks)
                      [] v = "crit" -> IF crit_hold = -1 THEN 0
                                       ELSE Bump(crit_hold, CritTicks)
    /\ beat' = (Beats /\ ~beat)
    /\ UNCHANGED <<rls_saved, INJ_LEAK, boots>>

\* update_release_test: DORIS_RLS_TST is honoured in CONFIG only, for
\* TestTicks, then cleared; a test that lost its claim leaves the output on.
TestWanted == RLS_TST /\ state = CONFIG
TestStarts == TestWanted /\ rls_age = -1
TestRuns   == TestWanted /\ rls_age # -1 /\ rls_age + 1 <= TestTicks

ForgetfulTestedRelay == TestStarts \/ relay_active  \* mutant: no switch-off

TestedRelay ==
    \/ TestStarts
    \/ relay_active /\ (TestRuns \/ rls_age = -1)

TestedAge == IF TestStarts THEN 0 ELSE IF TestRuns THEN rls_age + 1 ELSE -1

ReleaseTest == RLS_TST' = (TestStarts \/ TestRuns)

KeepRelay     == relay_active' = TestedRelay /\ rls_age' = TestedAge

ActivateRelay == relay_active' = TRUE /\ rls_age' = -1

DeactivateRelay ==
    /\ relay_active' = FALSE
    /\ rls_age' = IF TestedRelay THEN -1 ELSE TestedAge

\* The GPS-after-submergence latch, kept in every state but RECOVERY.
Latches(d, g) ==
    /\ WAS_DEEP' = (WAS_DEEP \/ d > DeepM)
    /\ gps_lost' = (gps_lost \/ (~g /\ (WAS_DEEP \/ d > DeepM)))

Reacquired(d, g) ==
    state # RECOVERY /\ d <= DeepM /\ WAS_DEEP /\ g /\ gps_lost

\* The light test owns the rest of the tick until it expires.
LightHeldForever == LGT_TST  \* mutant: the test never expires
LightHeld == LGT_TST /\ (lgt_age = -1 \/ lgt_age + 1 <= TestTicks)

Cancelled == state \in Mission /\ ~START

\* Tick prefix shared by the branches of state s: no early return was taken.
Reaches(s, d, g) ==
    /\ state = s /\ ~Reacquired(d, g) /\ ~LightHeld /\ ~Cancelled
    /\ Latches(d, g)
    /\ ReleaseTest
    /\ LGT_TST' = FALSE /\ lgt_age' = -1

Deepens(d) == max_depth' = IF d > max_depth THEN d ELSE max_depth

Rearm == armed' \in (IF armed THEN {TRUE} ELSE BOOLEAN)

\* Recorder client: a stop always clears the flag; entering a phase leaves it
\* set or clear by the profile and by whether the request was sent.

StopCamera == ipcam_recording' = FALSE
BeginPhase == ipcam_recording' \in BOOLEAN

-----------------------------------------------------------------------------
(***************************************************************************)
(* Early returns of update()                                               *)
(***************************************************************************)

\* A 3D fix while shallow again after submergence: RECOVERY from any state.
\* The output is left to the first tick of RECOVERY.
SurfaceByGps(d, g, v) ==
    /\ Reacquired(d, g)
    /\ Senses(d, v) /\ ReleaseTest /\ KeepRelay /\ Deepens(d)
    /\ Rearm
    /\ StopCamera
    /\ state' = RECOVERY
    /\ flown' = TRUE       \* WAS_DEEP holds here
    /\ NoPhase
    /\ lgt_age' = Bump(lgt_age, TestTicks + 1)
    /\ crit_age' = Bump(crit_age, CritTicks)
    /\ UNCHANGED <<START, WAS_DEEP, GPS_RBT, LGT_TST, gps_lost, prearm_passed,
                   armed_once, recovery_done, gps_reboot_attempted,
                   leak_detected>>

\* RECOVERY keepalive: the first tick ends the mission, the others do nothing.
RecoveryTick(d, v) ==
    /\ state = RECOVERY
    /\ Senses(d, v) /\ ReleaseTest /\ Deepens(d)
    /\ \/ /\ ~recovery_done
          /\ START' = FALSE
          /\ WAS_DEEP' = FALSE
          /\ DeactivateRelay
          /\ recovery_done' = TRUE
       \/ /\ recovery_done
          /\ KeepRelay
          /\ UNCHANGED <<START, WAS_DEEP, recovery_done>>
    /\ lgt_age' = Bump(lgt_age, TestTicks + 1)
    /\ crit_age' = Bump(crit_age, CritTicks)
    /\ UNCHANGED <<GPS_RBT, LGT_TST, state, prearm_passed, armed_once,
                   gps_lost, gps_reboot_attempted, leak_detected,
                   ipcam_recording, phase_age, rate_fill, sr_fill, sr_shallow,
                   armed, flown>>

\* A light test in progress returns before the cancel, the failsafes, the
\* deadman and the branch of the state.
LightTick(d, g, v) ==
    /\ state # RECOVERY /\ ~Reacquired(d, g) /\ LightHeld
    /\ Senses(d, v) /\ Latches(d, g) /\ ReleaseTest /\ KeepRelay /\ Deepens(d)
    /\ lgt_age' = IF lgt_age = -1 THEN 0 ELSE Bump(lgt_age, TestTicks + 1)
    /\ crit_age' = Bump(crit_age, CritTicks)
    /\ phase_age' = IF state \in {ON_BOTTOM, ASCENT}
                    THEN Bump(phase_age, PhaseCap) ELSE phase_age
    /\ UNCHANGED <<START, GPS_RBT, LGT_TST, state, prearm_passed, armed_once,
                   recovery_done, gps_reboot_attempted, leak_detected,
                   ipcam_recording, rate_fill, sr_fill, sr_shallow, armed,
                   flown>>

Stand ==
    armed' = FALSE /\ armed_once' = FALSE /\ prearm_passed' = FALSE

\* DORIS_START was cleared during a mission: back to CONFIG, outputs off.
CancelTick(d, g, v) ==
    /\ Cancelled /\ ~Reacquired(d, g) /\ ~LightHeld
    /\ Senses(d, v) /\ Latches(d, g) /\ ReleaseTest /\ Deepens(d)
    /\ LGT_TST' = FALSE /\ lgt_age' = -1
    /\ DeactivateRelay
    /\ StopCamera
    /\ Stand
    /\ state' = CONFIG
    /\ NoPhase
    /\ crit_age' = Bump(crit_age, CritTicks)
    /\ UNCHANGED <<START, GPS_RBT, recovery_done, gps_reboot_attempted,
                   leak_detected, flown>>

-----------------------------------------------------------------------------
(***************************************************************************)
(* CONFIG                                                                  *)
(***************************************************************************)

\* GPS self-heal, once per boot when the script is GpsWait old.  Submerged or
\* with a fix it only gives up trying.
HealDue == ~gps_reboot_attempted /\ boot_age = GpsWait
HealReboots(d, g) == HealDue /\ d <= AirM /\ ~g

GpsHeal(d, g, v) ==
    /\ state = CONFIG /\ ~Reacquired(d, g) /\ ~LightHeld
    /\ HealReboots(d, g)
    /\ depth' = d
    /\ GPS_RBT' = GPS_RBT + 1
    /\ Boots
    /\ UNCHANGED <<boots, beat>>

\* The deadman and a failsafe enter ASCENT the same way.
SilentAscent ==  \* mutant: the release is forgotten
    /\ KeepRelay
    /\ state' = ASCENT
    /\ phase_age' = 0
    /\ rate_fill' = 0 /\ sr_fill' = 0 /\ sr_shallow' = 0

EnterAscent ==
    /\ ActivateRelay
    /\ state' = ASCENT
    /\ phase_age' = 0
    /\ rate_fill' = 0 /\ sr_fill' = 0 /\ sr_shallow' = 0

\* Past 2 m in CONFIG with no pre-arm: emergency release, whatever START is.
SunkIfStarted(d) == d > DeepM /\ ~prearm_passed /\ START  \* mutant
Sunk(d) == d > DeepM /\ ~prearm_passed

Deadman(d, g, v) ==
    /\ Reaches(CONFIG, d, g) /\ ~HealReboots(d, g) /\ Sunk(d)
    /\ Senses(d, v) /\ Deepens(d)
    /\ EnterAscent
    /\ StopCamera
    /\ recovery_done' = FALSE
    /\ gps_reboot_attempted' = (gps_reboot_attempted \/ HealDue)
    /\ crit_age' = Bump(crit_age, CritTicks)
    /\ UNCHANGED <<START, GPS_RBT, prearm_passed, armed_once, leak_detected,
                   armed, flown>>

\* START with a fix, no leak and the other checks (voltages, profile) passed:
\* the configuration is snapshotted and the mission starts.
PreArm(d, g, v) ==
    /\ Reaches(CONFIG, d, g) /\ ~HealReboots(d, g) /\ ~Sunk(d)
    /\ START /\ g /\ ~INJ_LEAK
    /\ Senses(d, v) /\ KeepRelay
    /\ prearm_passed' = TRUE
    /\ gps_reboot_attempted' = TRUE
    /\ GPS_RBT' = 0
    /\ armed_once' = FALSE /\ recovery_done' = FALSE
    /\ max_depth' = 0
    /\ state' = MISSION_START
    /\ crit_age' = Bump(crit_age, CritTicks)
    /\ UNCHANGED <<START, leak_detected, ipcam_recording, phase_age,
                   rate_fill, sr_fill, sr_shallow, armed, flown>>

\* Not started, or pre-arm still waiting for some check.
ConfigTick(d, g, v) ==
    /\ Reaches(CONFIG, d, g) /\ ~HealReboots(d, g) /\ ~Sunk(d)
    /\ Senses(d, v) /\ KeepRelay /\ Deepens(d)
    /\ gps_reboot_attempted' = (gps_reboot_attempted \/ HealDue)
    /\ crit_age' = Bump(crit_age, CritTicks)
    /\ UNCHANGED <<START, GPS_RBT, state, prearm_passed, armed_once,
                   recovery_done, leak_detected, ipcam_recording, phase_age,
                   rate_fill, sr_fill, sr_shallow, armed, flown>>

-----------------------------------------------------------------------------
(***************************************************************************)
(* Failsafes of MISSION_START, DESCENT and ON_BOTTOM                       *)
(***************************************************************************)

LeakFires    == INJ_LEAK /\ ~leak_detected
BatteryFires(v) == v = "crit" /\ crit_age # -1 /\ crit_age + 1 >= CritTicks
DepthFires(d) == d > MaxDpth
FailsafeFires(d, v) == LeakFires \/ BatteryFires(v) \/ DepthFires(d)

\* The confirmation timer of the critical battery.  A leak returns first, and
\* an implausible reading leaves the timer alone.
CritTimer(v) ==
    crit_age' = CASE LeakFires \/ v = "none" -> Bump(crit_age, CritTicks)
                  [] ~LeakFires /\ v = "ok"   -> -1
                  [] ~LeakFires /\ v = "crit" ->
                        IF crit_age = -1 THEN 0 ELSE Bump(crit_age, CritTicks)

Guarding(s, d, g, v) ==
    /\ Reaches(s, d, g)
    /\ Senses(d, v) /\ CritTimer(v) /\ Deepens(d)
    /\ leak_detected' = (leak_detected \/ LeakFires)
    /\ UNCHANGED <<START, GPS_RBT, prearm_passed, recovery_done,
                   gps_reboot_attempted, flown>>

Failsafe(d, g, v) ==
    \E s \in Guarded :
        /\ Guarding(s, d, g, v)
        /\ FailsafeFires(d, v)
        /\ EnterAscent
        /\ BeginPhase
        /\ UNCHANGED <<armed_once, armed>>

-----------------------------------------------------------------------------
(***************************************************************************)
(* MISSION_START, DESCENT and ON_BOTTOM                                    *)
(***************************************************************************)

\* Not armed: another attempt, and the depth gate is not looked at.
ArmTick(d, g, v) ==
    /\ Guarding(MISSION_START, d, g, v) /\ ~FailsafeFires(d, v)
    /\ ~armed
    /\ armed' \in BOOLEAN
    /\ KeepRelay
    /\ UNCHANGED <<state, armed_once, ipcam_recording, phase_age, rate_fill,
                   sr_fill, sr_shallow>>

\* Armed: crossing the gate starts the descent.
GateTick(d, g, v) ==
    /\ Guarding(MISSION_START, d, g, v) /\ ~FailsafeFires(d, v)
    /\ armed
    /\ armed_once' = TRUE
    /\ KeepRelay
    /\ \/ /\ d >= Gate
          /\ state' = DESCENT
          /\ BeginPhase
       \/ /\ d < Gate
          /\ UNCHANGED <<state, ipcam_recording>>
    /\ UNCHANGED <<armed, phase_age, rate_fill, sr_fill, sr_shallow>>

\* A velocity sample enters the ring; without one nothing is decided.  The
\* bottom is found when the ring is full and its average has dropped.
DescentTick(d, g, v) ==
    /\ Guarding(DESCENT, d, g, v) /\ ~FailsafeFires(d, v)
    /\ Rearm
    /\ KeepRelay
    /\ \/ UNCHANGED <<state, ipcam_recording, phase_age, rate_fill>>
       \/ /\ rate_fill' = Bump(rate_fill, DrSize)
          /\ UNCHANGED <<state, ipcam_recording, phase_age>>
       \/ /\ Bump(rate_fill, DrSize) = DrSize
          /\ state' = ON_BOTTOM
          /\ BeginPhase
          /\ phase_age' = 0 /\ rate_fill' = 0
    /\ UNCHANGED <<armed_once, sr_fill, sr_shallow>>

BottomDueExactly == phase_age + 1 = RlsTicks  \* mutant: = for >=
BottomDue == phase_age + 1 >= RlsTicks

\* The bottom timer; the light and camera dispatcher may start or stop the
\* recorder on the way.
BottomTick(d, g, v) ==
    /\ Guarding(ON_BOTTOM, d, g, v) /\ ~FailsafeFires(d, v)
    /\ Rearm
    /\ BeginPhase
    /\ \/ /\ BottomDue
          /\ EnterAscent
       \/ /\ ~BottomDue
          /\ KeepRelay
          /\ phase_age' = Bump(phase_age, RlsTicks)
          /\ UNCHANGED <<state, rate_fill, sr_fill, sr_shallow>>
    /\ UNCHANGED armed_once

-----------------------------------------------------------------------------
(***************************************************************************)
(* ASCENT                                                                  *)
(***************************************************************************)

\* The burn is over when it has lasted BrnMin and the rate ring, with this
\* tick's sample if there is one, is full.
BurnOver(fill) == TestedRelay /\ phase_age + 1 >= BrnMin /\ fill = ArSize

RateSample(fill) ==
    fill \in (IF TestedRelay THEN {rate_fill, Bump(rate_fill, ArSize)}
                             ELSE {rate_fill})

Risen(d) == (IF d > max_depth THEN d ELSE max_depth) - d >= StkRise

AscentTick(d, g, v) ==
    /\ Reaches(ASCENT, d, g)
    /\ Senses(d, v) /\ Deepens(d)
    /\ Rearm
    /\ crit_age' = Bump(crit_age, CritTicks)
    /\ UNCHANGED <<START, GPS_RBT, prearm_passed, armed_once, recovery_done,
                   gps_reboot_attempted, leak_detected>>

\* A full burn with no sustained ascent and no rise: the release has failed.
Stuck(d, g, v) ==
    /\ AscentTick(d, g, v)
    /\ \E fill \in 0 .. ArSize : RateSample(fill) /\ BurnOver(fill)
    /\ ~Risen(d)
    /\ DeactivateRelay
    /\ StopCamera
    /\ state' = RECOVERY
    /\ flown' = (flown \/ WAS_DEEP')
    /\ NoPhase

ShallowRun(d) == IF d < SrfDpt THEN Bump(sr_shallow, SrSize) ELSE 0

\* GPS with a depth above the gate, or a full window of shallow samples that
\* moved (whether they did is an input).
Surfaced(d, g) == \/ g /\ d < Gate
                  \/ Bump(sr_fill, SrSize) = SrSize /\ ShallowRun(d) = SrSize

Surface(d, g, v) ==
    /\ AscentTick(d, g, v)
    /\ Surfaced(d, g)
    /\ DeactivateRelay
    /\ StopCamera
    /\ state' = RECOVERY
    /\ flown' = (flown \/ WAS_DEEP')
    /\ NoPhase

\* Still rising: the output goes off after a full burn if the ascent is
\* sustained, and stays on while it is not but the vehicle has risen.
Rise(d, g, v) ==
    /\ AscentTick(d, g, v)
    /\ ~(g /\ d < Gate)
    /\ \E fill \in 0 .. ArSize :
        /\ RateSample(fill)
        /\ rate_fill' = fill
        /\ \/ BurnOver(fill) /\ DeactivateRelay
           \/ (BurnOver(fill) => Risen(d)) /\ KeepRelay
    /\ phase_age' = Bump(phase_age, BrnMin)
    /\ sr_fill' = Bump(sr_fill, SrSize)
    /\ sr_shallow' = ShallowRun(d)
    /\ UNCHANGED <<state, ipcam_recording, flown>>

-----------------------------------------------------------------------------
(***************************************************************************)
(* The operator, the autopilot and the sea                                 *)
(***************************************************************************)

Linked == depth <= LinkDepth

\* The backend's start and stop write DORIS_START, which persists.
OperatorStart ==
    /\ Linked
    /\ START' = TRUE
    /\ flown' = FALSE
    /\ UNCHANGED <<WAS_DEEP, GPS_RBT, rls_saved, tests, script, ages, rings,
                   world, crit_hold>>

OperatorStop ==
    /\ Linked
    /\ START' = FALSE
    /\ UNCHANGED <<WAS_DEEP, GPS_RBT, rls_saved, tests, script, ages, rings,
                   world, history>>

\* The browser asserts or clears a release test; a PARAM_SET is saved.
AssertReleaseTest(on) ==
    /\ Linked /\ "release" \in Tests
    /\ RLS_TST' = on /\ rls_saved' = on
    /\ UNCHANGED <<START, WAS_DEEP, GPS_RBT, LGT_TST, INJ_LEAK, script, ages,
                   rings, world, crit_hold, flown>>

AssertLightTest(on) ==
    /\ Linked /\ "light" \in Tests
    /\ LGT_TST' = on
    /\ UNCHANGED <<eeprom, RLS_TST, INJ_LEAK, script, ages, rings, world,
                   history>>

\* DORIS_INJ_LEAK, the only leak input of the script, is raised or lowered.
InjectLeak(on) ==
    /\ "leak" \in Faults
    /\ INJ_LEAK' = on
    /\ UNCHANGED <<eeprom, RLS_TST, LGT_TST, script, ages, rings, world,
                   history>>

\* The autopilot disarms by itself or at BlueOS's request.
Disarmed ==
    /\ "disarm" \in Faults
    /\ armed
    /\ armed' = FALSE
    /\ UNCHANGED <<eeprom, tests, script, ages, rings, depth, boots,
                   beat, history>>

Reboot ==
    /\ boots < MaxReboots
    /\ boots' = boots + 1
    /\ UNCHANGED <<GPS_RBT, depth, beat>>
    /\ Boots

-----------------------------------------------------------------------------

Update(d, g, v) ==
    \/ SurfaceByGps(d, g, v) \/ RecoveryTick(d, v)
    \/ LightTick(d, g, v)    \/ CancelTick(d, g, v)
    \/ GpsHeal(d, g, v)      \/ Deadman(d, g, v)
    \/ PreArm(d, g, v)       \/ ConfigTick(d, g, v)
    \/ Failsafe(d, g, v)
    \/ ArmTick(d, g, v)      \/ GateTick(d, g, v)
    \/ DescentTick(d, g, v)  \/ BottomTick(d, g, v)
    \/ Stuck(d, g, v)        \/ Surface(d, g, v)   \/ Rise(d, g, v)

Tick == \E d \in Nearby, g \in BOOLEAN, v \in Volts : Update(d, g, v)

Environment ==
    \/ OperatorStart \/ OperatorStop
    \/ \E on \in BOOLEAN :
          AssertReleaseTest(on) \/ AssertLightTest(on) \/ InjectLeak(on)
    \/ Disarmed \/ Reboot

Next == Tick \/ Environment

Spec == Init /\ [][Next]_vars

\* The scheduler reschedules update() after every return.
FairSpec == Spec /\ WF_vars(Tick)

-----------------------------------------------------------------------------
(***************************************************************************)
(* Safety                                                                  *)
(***************************************************************************)

\* Whenever the release output is on, something in the script still owns
\* switching it off: the burn of an ascent, a release test with its timer
\* running, or the first tick of RECOVERY (activate_relay, deactivate_relay,
\* update_release_test and the early return of the GPS reacquire path).
ReleaseAccounted ==
    relay_active =>
        \/ state = ASCENT /\ rls_age = -1
        \/ rls_age >= 0 /\ state \in {CONFIG, MISSION_START, RECOVERY}
        \/ state = RECOVERY /\ ~recovery_done

\* The depth deadman is ready whenever the script waits in CONFIG, whatever
\* mission was started or cancelled before (prearm_passed in update).
DeadmanReady == state = CONFIG => ~prearm_passed

\* The script never believes the recorder runs in CONFIG or RECOVERY, the
\* states in which nothing will stop it (the ipcam_stop of each way there).
CameraStopped == state \in {CONFIG, RECOVERY} => ~ipcam_recording

\* The GPS self-heal reboots at most twice between two passed pre-arms, over
\* any sequence of its own and unplanned reboots (DORIS_GPS_RBT).
SelfHealBounded == GPS_RBT <= 2

\* A burn that has begun in ASCENT lasts DORIS_BRN_MIN unless the dive ends,
\* the operator has cleared DORIS_START or the autopilot restarts; in
\* particular a release test never switches a real release off.
BurnNotCut ==
    [][state = ASCENT /\ relay_active /\ ~relay_active' =>
          \/ phase_age + 1 >= BrnMin
          \/ state' = RECOVERY
          \/ ~START
          \/ boots' # boots]_vars

\* A dive that went deep and ended is not flown a second time unless the
\* operator starts it again, wherever the autopilot restarts in between: the
\* saved START and WAS_DEEP are cleared one tick after RECOVERY is entered.
DiveNotRepeated ==
    [][state = CONFIG /\ state' = MISSION_START => ~flown]_vars

-----------------------------------------------------------------------------
(***************************************************************************)
(* The contract this script implements                                     *)
(***************************************************************************)

PhaseName ==
    CASE state = CONFIG   -> "surface"
      [] state \in Guarded -> "diving"
      [] state = ASCENT   -> "ascending"
      [] state = RECOVERY -> "over"

Contract == INSTANCE DiveContract WITH
                phase <- PhaseName, burning <- relay_active /\ rls_age = -1

\* Every tick, operator action and restart of the script is a step the
\* contract allows: an ascent starts with the release on, and it is off again
\* after a cancel, a restart or the first keepalive tick.
ImplementsContract == Contract!Spec

-----------------------------------------------------------------------------
(***************************************************************************)
(* Liveness under the scheduler's fairness                                 *)
(***************************************************************************)

\* Waiting in CONFIG below 2 m ends with the weight released (or back above
\* 2 m), started or not, whatever tests are running.
SunkIsReleased ==
    (state = CONFIG /\ depth > DeepM) ~> (relay_active \/ depth <= DeepM)

\* The bottom phase ends: its timer runs through light tests and disarms.
BottomEnds == (state = ON_BOTTOM) ~> (state # ON_BOTTOM)

\* The first leak seen since boot ends a guarded phase unless it goes away;
\* a light test, however often repeated, cannot hold the failsafes off.
FirstLeakReleases ==
    (state \in Guarded /\ INJ_LEAK /\ ~leak_detected)
        ~> (state \notin Guarded \/ ~INJ_LEAK)

-----------------------------------------------------------------------------
(***************************************************************************)
(* What the script's comments say and its code does not do                 *)
(***************************************************************************)

\* doris.lua:1401-1402: the deadman goes to ASCENT "so the relay stays on for
\* BRN_MIN".  An ascent without a passed pre-arm is the deadman's.
DeadmanBurns ==
    [][state = ASCENT /\ ~prearm_passed /\ relay_active /\ ~relay_active' =>
          \/ phase_age + 1 >= BrnMin
          \/ state' = RECOVERY
          \/ boots' # boots]_vars

=============================================================================
