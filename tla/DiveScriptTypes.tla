-------------------------- MODULE DiveScriptTypes --------------------------
(***************************************************************************)
(* Type correctness of DiveScript for every depth, threshold, ring size    *)
(* and timer: one lemma per path through update(), over lemmas about the   *)
(* parts that every tick is made of.                                       *)
(***************************************************************************)
EXTENDS DiveScript, TLAPS

USE DEF CONFIG, MISSION_START, DESCENT, ON_BOTTOM, ASCENT, RECOVERY

USE DepthAssumption, TimerAssumption, InputAssumption
    DEF DepthAssumption, TimerAssumption, InputAssumption

-----------------------------------------------------------------------------
(***************************************************************************)
(* The parts that ticks are made of                                        *)
(***************************************************************************)

\* An age stays within its cap.
LEMMA BumpInAges ==
    ASSUME NEW n \in Nat, NEW age \in Ages(n)
    PROVE  Bump(age, n) \in Ages(n)
BY DEF Bump, Ages

\* A counter that has started stays started and within its cap.
LEMMA BumpInRange ==
    ASSUME NEW n \in Nat, NEW m \in Nat, n <= m, NEW count \in 0 .. m
    PROVE  Bump(count, n) \in 0 .. m
BY DEF Bump

\* A clock that is off or has just started is within every cap.
LEMMA FreshAge == ASSUME NEW n \in Nat PROVE -1 \in Ages(n) /\ 0 \in Ages(n)
BY DEF Ages

\* The readings of a tick and the ages no branch resets.
LEMMA SensesType ==
    ASSUME TypeOK, NEW d \in Nearby, NEW v \in Volts, Senses(d, v)
    PROVE  /\ depth' \in 0 .. Deepest /\ boots' \in 0 .. MaxReboots
           /\ boot_age' \in 0 .. GpsWait /\ crit_hold' \in Ages(CritTicks)
           /\ beat' \in BOOLEAN /\ rls_saved' \in BOOLEAN
           /\ INJ_LEAK' \in BOOLEAN
<1>1. /\ depth' \in 0 .. Deepest /\ boots' \in 0 .. MaxReboots
      /\ boot_age' \in 0 .. GpsWait
  BY DEF Senses, TypeOK, CountsOK, AgesOK, Nearby, Bump
<1>2. crit_hold' \in Ages(CritTicks)
  <2>1. Bump(crit_hold, CritTicks) \in Ages(CritTicks)
    BY BumpInAges DEF TypeOK, AgesOK
  <2>2. -1 \in Ages(CritTicks) /\ 0 \in Ages(CritTicks)
    BY FreshAge
  <2>3. v \in {"none", "crit", "ok"}
    OBVIOUS
  <2> QED BY <2>1, <2>2, <2>3 DEF Senses
<1>3. rls_saved' \in BOOLEAN /\ INJ_LEAK' \in BOOLEAN
  BY DEF Senses, TypeOK, FlagsOK
<1>4. beat' \in BOOLEAN
  BY Zenon DEF Senses
<1> QED BY <1>1, <1>2, <1>3, <1>4

\* What a release test leaves of its request and of its clock.
LEMMA ReleaseTestType ==
    ASSUME TypeOK
    PROVE  /\ ReleaseTest => RLS_TST' \in BOOLEAN
           /\ TestedRelay \in BOOLEAN
           /\ TestedAge \in Ages(TestTicks + 1)
<1>1. ReleaseTest => RLS_TST' \in BOOLEAN
  BY Zenon DEF ReleaseTest
<1>2. TestedRelay \in BOOLEAN
  BY Zenon DEF TestedRelay
<1>3. TestedAge \in Ages(TestTicks + 1)
  BY DEF TestedAge, TestRuns, TypeOK, AgesOK, Ages
<1> QED BY <1>1, <1>2, <1>3

\* The three ways a tick may leave the release output.
LEMMA RelayType ==
    ASSUME TypeOK, KeepRelay \/ ActivateRelay \/ DeactivateRelay
    PROVE  relay_active' \in BOOLEAN /\ rls_age' \in Ages(TestTicks + 1)
<1>1. -1 \in Ages(TestTicks + 1)
  BY FreshAge
<1> QED
  BY <1>1, ReleaseTestType DEF KeepRelay, ActivateRelay, DeactivateRelay

\* The two latches of the GPS-after-submergence path.
LEMMA LatchesType ==
    ASSUME NEW d, NEW g, Latches(d, g)
    PROVE  WAS_DEEP' \in BOOLEAN /\ gps_lost' \in BOOLEAN
BY Zenon DEF Latches

\* What every tick leaves of the variables that no branch sets by itself.
TickTyped ==
    /\ depth' \in 0 .. Deepest /\ boots' \in 0 .. MaxReboots
    /\ boot_age' \in 0 .. GpsWait /\ crit_hold' \in Ages(CritTicks)
    /\ beat' \in BOOLEAN /\ rls_saved' \in BOOLEAN /\ INJ_LEAK' \in BOOLEAN
    /\ RLS_TST' \in BOOLEAN
    /\ relay_active' \in BOOLEAN /\ rls_age' \in Ages(TestTicks + 1)

\* Sensors, release test and release output are common to all ticks.
LEMMA TickType ==
    ASSUME TypeOK, NEW d \in Nearby, NEW v \in Volts,
           Senses(d, v), ReleaseTest,
           KeepRelay \/ ActivateRelay \/ DeactivateRelay
    PROVE  TickTyped
BY SensesType, ReleaseTestType, RelayType DEF TickTyped

\* The six states of the script are numbered -1 to 4.
LEMMA StatesAre ==
    {CONFIG, MISSION_START, DESCENT, ON_BOTTOM, ASCENT, RECOVERY} \subseteq States
BY DEF States

\* The clocks a branch may advance, stop or start.
LEMMA AgesType ==
    ASSUME TypeOK
    PROVE  /\ Bump(lgt_age, TestTicks + 1) \in Ages(TestTicks + 1)
           /\ Bump(crit_age, CritTicks) \in Ages(CritTicks)
           /\ -1 \in Ages(TestTicks + 1) /\ 0 \in Ages(TestTicks + 1)
           /\ -1 \in Ages(CritTicks) /\ 0 \in Ages(CritTicks)
BY BumpInAges, FreshAge DEF TypeOK, AgesOK

-----------------------------------------------------------------------------
(***************************************************************************)
(* Type correctness, one lemma per path through update()                   *)
(***************************************************************************)

\* The early returns of update().
LEMMA SurfaceByGpsType ==
    ASSUME TypeOK, NEW d \in Nearby, NEW g \in BOOLEAN, NEW v \in Volts,
           SurfaceByGps(d, g, v)
    PROVE  TypeOK'
<1>1. TickTyped
  BY TickType DEF SurfaceByGps
<1>2. FlagsOK'
  BY <1>1 DEF SurfaceByGps, Rearm, TickTyped, TypeOK, FlagsOK
<1>3. ScriptOK'
  BY <1>1, StatesAre DEF SurfaceByGps, StopCamera, TickTyped, TypeOK, ScriptOK
<1>4. AgesOK'
  BY <1>1, AgesType DEF SurfaceByGps, TickTyped, TypeOK, AgesOK
<1>5. RingsOK'
  BY DEF SurfaceByGps, NoPhase, TypeOK, RingsOK
<1>6. CountsOK'
  BY <1>1 DEF SurfaceByGps, Deepens, Nearby, TickTyped, TypeOK, CountsOK
<1> QED BY <1>2, <1>3, <1>4, <1>5, <1>6 DEF TypeOK

LEMMA RecoveryTickType ==
    ASSUME TypeOK, NEW d \in Nearby, NEW v \in Volts,
           RecoveryTick(d, v)
    PROVE  TypeOK'
<1>1. TickTyped
  BY TickType DEF RecoveryTick
<1>2. FlagsOK'
  BY <1>1 DEF RecoveryTick, TickTyped, TypeOK, FlagsOK
<1>3. ScriptOK'
  BY <1>1, StatesAre DEF RecoveryTick, TickTyped, TypeOK, ScriptOK
<1>4. AgesOK'
  BY <1>1, AgesType DEF RecoveryTick, TickTyped, TypeOK, AgesOK
<1>5. RingsOK'
  BY DEF RecoveryTick, TypeOK, RingsOK
<1>6. CountsOK'
  BY <1>1 DEF RecoveryTick, Deepens, Nearby, TickTyped, TypeOK, CountsOK
<1> QED BY <1>2, <1>3, <1>4, <1>5, <1>6 DEF TypeOK

LEMMA LightTickType ==
    ASSUME TypeOK, NEW d \in Nearby, NEW g \in BOOLEAN, NEW v \in Volts,
           LightTick(d, g, v)
    PROVE  TypeOK'
<1>1. TickTyped
  BY TickType DEF LightTick
<1>2. WAS_DEEP' \in BOOLEAN /\ gps_lost' \in BOOLEAN
  BY LatchesType DEF LightTick
<1>3. FlagsOK'
  BY <1>1, <1>2 DEF LightTick, TickTyped, TypeOK, FlagsOK
<1>4. ScriptOK'
  BY <1>1, <1>2, StatesAre DEF LightTick, TickTyped, TypeOK, ScriptOK
<1>5. AgesOK'
  BY <1>1, AgesType DEF LightTick, TickTyped, TypeOK, AgesOK
<1>6. RingsOK'
  BY DEF LightTick, PhaseCap, Bump, TypeOK, RingsOK
<1>7. CountsOK'
  BY <1>1 DEF LightTick, Deepens, Nearby, TickTyped, TypeOK, CountsOK
<1> QED BY <1>3, <1>4, <1>5, <1>6, <1>7 DEF TypeOK

LEMMA CancelTickType ==
    ASSUME TypeOK, NEW d \in Nearby, NEW g \in BOOLEAN, NEW v \in Volts,
           CancelTick(d, g, v)
    PROVE  TypeOK'
<1>1. TickTyped
  BY TickType DEF CancelTick, Stand
<1>2. WAS_DEEP' \in BOOLEAN /\ gps_lost' \in BOOLEAN
  BY LatchesType DEF CancelTick, Stand
<1>3. FlagsOK'
  BY <1>1, <1>2 DEF CancelTick, Stand, TickTyped, TypeOK, FlagsOK
<1>4. ScriptOK'
  BY <1>1, <1>2, StatesAre DEF CancelTick, Stand, StopCamera, TickTyped,
     TypeOK, ScriptOK
<1>5. AgesOK'
  BY <1>1, AgesType DEF CancelTick, Stand, TickTyped, TypeOK, AgesOK
<1>6. RingsOK'
  BY DEF CancelTick, Stand, NoPhase, TypeOK, RingsOK
<1>7. CountsOK'
  BY <1>1 DEF CancelTick, Stand, Deepens, Nearby, TickTyped, TypeOK, CountsOK
<1> QED BY <1>3, <1>4, <1>5, <1>6, <1>7 DEF TypeOK

\* CONFIG.
LEMMA DeadmanType ==
    ASSUME TypeOK, NEW d \in Nearby, NEW g \in BOOLEAN, NEW v \in Volts,
           Deadman(d, g, v)
    PROVE  TypeOK'
<1>1. TickTyped
  BY TickType DEF Deadman, Reaches, EnterAscent
<1>2. WAS_DEEP' \in BOOLEAN /\ gps_lost' \in BOOLEAN
  BY LatchesType DEF Deadman, Reaches, EnterAscent
<1>3. FlagsOK'
  BY <1>1, <1>2 DEF Deadman, Reaches, EnterAscent, TickTyped, TypeOK, FlagsOK
<1>4. ScriptOK'
  BY <1>1, <1>2, StatesAre DEF Deadman, Reaches, EnterAscent, StopCamera,
     TickTyped, TypeOK, ScriptOK
<1>5. AgesOK'
  BY <1>1, AgesType DEF Deadman, Reaches, EnterAscent, TickTyped, TypeOK,
     AgesOK
<1>6. RingsOK'
  BY DEF Deadman, Reaches, EnterAscent, TypeOK, RingsOK
<1>7. CountsOK'
  BY <1>1 DEF Deadman, Reaches, EnterAscent, Deepens, Nearby, TickTyped,
     TypeOK, CountsOK
<1> QED BY <1>3, <1>4, <1>5, <1>6, <1>7 DEF TypeOK

LEMMA PreArmType ==
    ASSUME TypeOK, NEW d \in Nearby, NEW g \in BOOLEAN, NEW v \in Volts,
           PreArm(d, g, v)
    PROVE  TypeOK'
<1>1. TickTyped
  BY TickType DEF PreArm, Reaches
<1>2. WAS_DEEP' \in BOOLEAN /\ gps_lost' \in BOOLEAN
  BY LatchesType DEF PreArm, Reaches
<1>3. FlagsOK'
  BY <1>1, <1>2 DEF PreArm, Reaches, TickTyped, TypeOK, FlagsOK
<1>4. ScriptOK'
  BY <1>1, <1>2, StatesAre DEF PreArm, Reaches, TickTyped, TypeOK, ScriptOK
<1>5. AgesOK'
  BY <1>1, AgesType DEF PreArm, Reaches, TickTyped, TypeOK, AgesOK
<1>6. RingsOK'
  BY DEF PreArm, Reaches, TypeOK, RingsOK
<1>7. CountsOK'
  BY <1>1 DEF PreArm, Reaches, TickTyped, TypeOK, CountsOK
<1> QED BY <1>3, <1>4, <1>5, <1>6, <1>7 DEF TypeOK

LEMMA ConfigTickType ==
    ASSUME TypeOK, NEW d \in Nearby, NEW g \in BOOLEAN, NEW v \in Volts,
           ConfigTick(d, g, v)
    PROVE  TypeOK'
<1>1. TickTyped
  BY TickType DEF ConfigTick, Reaches
<1>2. WAS_DEEP' \in BOOLEAN /\ gps_lost' \in BOOLEAN
  BY LatchesType DEF ConfigTick, Reaches
<1>3. FlagsOK'
  BY <1>1, <1>2 DEF ConfigTick, Reaches, TickTyped, TypeOK, FlagsOK
<1>4. ScriptOK'
  BY <1>1, <1>2, StatesAre DEF ConfigTick, Reaches, TickTyped, TypeOK,
     ScriptOK
<1>5. AgesOK'
  BY <1>1, AgesType DEF ConfigTick, Reaches, TickTyped, TypeOK, AgesOK
<1>6. RingsOK'
  BY DEF ConfigTick, Reaches, TypeOK, RingsOK
<1>7. CountsOK'
  BY <1>1 DEF ConfigTick, Reaches, Deepens, Nearby, TickTyped, TypeOK,
     CountsOK
<1> QED BY <1>3, <1>4, <1>5, <1>6, <1>7 DEF TypeOK

\* The guarded phases.
LEMMA FailsafeType ==
    ASSUME TypeOK, NEW d \in Nearby, NEW g \in BOOLEAN, NEW v \in Volts,
           Failsafe(d, g, v)
    PROVE  TypeOK'
<1>1. TickTyped
  BY TickType DEF Failsafe, Guarding, Reaches, EnterAscent
<1>2. WAS_DEEP' \in BOOLEAN /\ gps_lost' \in BOOLEAN
  BY LatchesType DEF Failsafe, Guarding, Reaches, EnterAscent
<1>3. FlagsOK'
  BY <1>1, <1>2 DEF Failsafe, Guarding, Reaches, EnterAscent, TickTyped,
     TypeOK, FlagsOK
<1>4. ScriptOK'
  BY <1>1, <1>2, StatesAre DEF Failsafe, Guarding, Reaches, EnterAscent,
     BeginPhase, Guarded, TickTyped, TypeOK, ScriptOK
<1>5. crit_age' \in Ages(CritTicks)
  BY AgesType DEF Failsafe, Guarding, Reaches, EnterAscent, CritTimer, TypeOK,
     AgesOK
<1>6. AgesOK'
  BY <1>1, <1>5, AgesType DEF Failsafe, Guarding, Reaches, EnterAscent,
     TickTyped, AgesOK
<1>7. RingsOK'
  BY DEF Failsafe, Guarding, Reaches, EnterAscent, TypeOK, RingsOK
<1>8. CountsOK'
  BY <1>1 DEF Failsafe, Guarding, Reaches, EnterAscent, Deepens, Nearby,
     TickTyped, TypeOK, CountsOK
<1> QED BY <1>3, <1>4, <1>6, <1>7, <1>8 DEF TypeOK

LEMMA ArmTickType ==
    ASSUME TypeOK, NEW d \in Nearby, NEW g \in BOOLEAN, NEW v \in Volts,
           ArmTick(d, g, v)
    PROVE  TypeOK'
<1>1. TickTyped
  BY TickType DEF ArmTick, Guarding, Reaches
<1>2. WAS_DEEP' \in BOOLEAN /\ gps_lost' \in BOOLEAN
  BY LatchesType DEF ArmTick, Guarding, Reaches
<1>3. FlagsOK'
  BY <1>1, <1>2 DEF ArmTick, Guarding, Reaches, TickTyped, TypeOK, FlagsOK
<1>4. ScriptOK'
  BY <1>1, <1>2, StatesAre DEF ArmTick, Guarding, Reaches, Guarded, TickTyped,
     TypeOK, ScriptOK
<1>5. crit_age' \in Ages(CritTicks)
  BY AgesType DEF ArmTick, Guarding, Reaches, CritTimer, TypeOK, AgesOK
<1>6. AgesOK'
  BY <1>1, <1>5, AgesType DEF ArmTick, Guarding, Reaches, TickTyped, AgesOK
<1>7. RingsOK'
  BY DEF ArmTick, Guarding, Reaches, TypeOK, RingsOK
<1>8. CountsOK'
  BY <1>1 DEF ArmTick, Guarding, Reaches, Deepens, Nearby, TickTyped, TypeOK,
     CountsOK
<1> QED BY <1>3, <1>4, <1>6, <1>7, <1>8 DEF TypeOK

LEMMA GateTickType ==
    ASSUME TypeOK, NEW d \in Nearby, NEW g \in BOOLEAN, NEW v \in Volts,
           GateTick(d, g, v)
    PROVE  TypeOK'
<1>1. TickTyped
  BY TickType DEF GateTick, Guarding, Reaches
<1>2. WAS_DEEP' \in BOOLEAN /\ gps_lost' \in BOOLEAN
  BY LatchesType DEF GateTick, Guarding, Reaches
<1>3. FlagsOK'
  BY <1>1, <1>2 DEF GateTick, Guarding, Reaches, TickTyped, TypeOK, FlagsOK
<1>4. ScriptOK'
  BY <1>1, <1>2, StatesAre DEF GateTick, Guarding, Reaches, BeginPhase,
     Guarded, TickTyped, TypeOK, ScriptOK
<1>5. crit_age' \in Ages(CritTicks)
  BY AgesType DEF GateTick, Guarding, Reaches, CritTimer, TypeOK, AgesOK
<1>6. AgesOK'
  BY <1>1, <1>5, AgesType DEF GateTick, Guarding, Reaches, TickTyped, AgesOK
<1>7. RingsOK'
  BY DEF GateTick, Guarding, Reaches, TypeOK, RingsOK
<1>8. CountsOK'
  BY <1>1 DEF GateTick, Guarding, Reaches, Deepens, Nearby, TickTyped, TypeOK,
     CountsOK
<1> QED BY <1>3, <1>4, <1>6, <1>7, <1>8 DEF TypeOK

LEMMA DescentTickType ==
    ASSUME TypeOK, NEW d \in Nearby, NEW g \in BOOLEAN, NEW v \in Volts,
           DescentTick(d, g, v)
    PROVE  TypeOK'
<1>1. TickTyped
  BY TickType DEF DescentTick, Guarding, Reaches
<1>2. WAS_DEEP' \in BOOLEAN /\ gps_lost' \in BOOLEAN
  BY LatchesType DEF DescentTick, Guarding, Reaches
<1>3. FlagsOK'
  BY <1>1, <1>2 DEF DescentTick, Guarding, Reaches, Rearm, TickTyped, TypeOK,
     FlagsOK
<1>4. ScriptOK'
  BY <1>1, <1>2, StatesAre DEF DescentTick, Guarding, Reaches, BeginPhase,
     Guarded, TickTyped, TypeOK, ScriptOK
<1>5. crit_age' \in Ages(CritTicks)
  BY AgesType DEF DescentTick, Guarding, Reaches, CritTimer, TypeOK, AgesOK
<1>6. AgesOK'
  BY <1>1, <1>5, AgesType DEF DescentTick, Guarding, Reaches, TickTyped,
     AgesOK
<1>7. RingsOK'
  BY DEF DescentTick, Guarding, Reaches, Bump, TypeOK, RingsOK
<1>8. CountsOK'
  BY <1>1 DEF DescentTick, Guarding, Reaches, Deepens, Nearby, TickTyped,
     TypeOK, CountsOK
<1> QED BY <1>3, <1>4, <1>6, <1>7, <1>8 DEF TypeOK

LEMMA BottomTickType ==
    ASSUME TypeOK, NEW d \in Nearby, NEW g \in BOOLEAN, NEW v \in Volts,
           BottomTick(d, g, v)
    PROVE  TypeOK'
<1>1. TickTyped
  BY TickType DEF BottomTick, Guarding, Reaches, EnterAscent
<1>2. WAS_DEEP' \in BOOLEAN /\ gps_lost' \in BOOLEAN
  BY LatchesType DEF BottomTick, Guarding, Reaches, EnterAscent
<1>3. FlagsOK'
  BY <1>1, <1>2 DEF BottomTick, Guarding, Reaches, EnterAscent, Rearm,
     TickTyped, TypeOK, FlagsOK
<1>4. ScriptOK'
  BY <1>1, <1>2, StatesAre DEF BottomTick, Guarding, Reaches, EnterAscent,
     BeginPhase, Guarded, TickTyped, TypeOK, ScriptOK
<1>5. crit_age' \in Ages(CritTicks)
  BY AgesType DEF BottomTick, Guarding, Reaches, EnterAscent, CritTimer,
     TypeOK, AgesOK
<1>6. AgesOK'
  BY <1>1, <1>5, AgesType DEF BottomTick, Guarding, Reaches, EnterAscent,
     TickTyped, AgesOK
<1>7. RingsOK'
  BY DEF BottomTick, Guarding, Reaches, EnterAscent, Bump, TypeOK, RingsOK
<1>8. CountsOK'
  BY <1>1 DEF BottomTick, Guarding, Reaches, EnterAscent, Deepens, Nearby,
     TickTyped, TypeOK, CountsOK
<1> QED BY <1>3, <1>4, <1>6, <1>7, <1>8 DEF TypeOK

\* ASCENT.
LEMMA StuckType ==
    ASSUME TypeOK, NEW d \in Nearby, NEW g \in BOOLEAN, NEW v \in Volts,
           Stuck(d, g, v)
    PROVE  TypeOK'
<1>1. TickTyped
  BY TickType DEF Stuck, AscentTick, Reaches
<1>2. WAS_DEEP' \in BOOLEAN /\ gps_lost' \in BOOLEAN
  BY LatchesType DEF Stuck, AscentTick, Reaches
<1>3. FlagsOK'
  BY <1>1, <1>2 DEF Stuck, AscentTick, Reaches, Rearm, TickTyped, TypeOK,
     FlagsOK
<1>4. ScriptOK'
  BY <1>1, <1>2, StatesAre DEF Stuck, AscentTick, Reaches, StopCamera,
     TickTyped, TypeOK, ScriptOK
<1>5. AgesOK'
  BY <1>1, AgesType DEF Stuck, AscentTick, Reaches, TickTyped, TypeOK, AgesOK
<1>6. RingsOK'
  BY DEF Stuck, AscentTick, Reaches, NoPhase, TypeOK, RingsOK
<1>7. CountsOK'
  BY <1>1 DEF Stuck, AscentTick, Reaches, Deepens, Nearby, TickTyped, TypeOK,
     CountsOK
<1> QED BY <1>3, <1>4, <1>5, <1>6, <1>7 DEF TypeOK

LEMMA SurfaceType ==
    ASSUME TypeOK, NEW d \in Nearby, NEW g \in BOOLEAN, NEW v \in Volts,
           Surface(d, g, v)
    PROVE  TypeOK'
<1>1. TickTyped
  BY TickType DEF Surface, AscentTick, Reaches
<1>2. WAS_DEEP' \in BOOLEAN /\ gps_lost' \in BOOLEAN
  BY LatchesType DEF Surface, AscentTick, Reaches
<1>3. FlagsOK'
  BY <1>1, <1>2 DEF Surface, AscentTick, Reaches, Rearm, TickTyped, TypeOK,
     FlagsOK
<1>4. ScriptOK'
  BY <1>1, <1>2, StatesAre DEF Surface, AscentTick, Reaches, StopCamera,
     TickTyped, TypeOK, ScriptOK
<1>5. AgesOK'
  BY <1>1, AgesType DEF Surface, AscentTick, Reaches, TickTyped, TypeOK,
     AgesOK
<1>6. RingsOK'
  BY DEF Surface, AscentTick, Reaches, NoPhase, TypeOK, RingsOK
<1>7. CountsOK'
  BY <1>1 DEF Surface, AscentTick, Reaches, Deepens, Nearby, TickTyped,
     TypeOK, CountsOK
<1> QED BY <1>3, <1>4, <1>5, <1>6, <1>7 DEF TypeOK

LEMMA RiseType ==
    ASSUME TypeOK, NEW d \in Nearby, NEW g \in BOOLEAN, NEW v \in Volts,
           Rise(d, g, v)
    PROVE  TypeOK'
<1>1. TickTyped
  BY TickType DEF Rise, AscentTick, Reaches
<1>2. WAS_DEEP' \in BOOLEAN /\ gps_lost' \in BOOLEAN
  BY LatchesType DEF Rise, AscentTick, Reaches
<1>3. FlagsOK'
  BY <1>1, <1>2 DEF Rise, AscentTick, Reaches, Rearm, TickTyped, TypeOK,
     FlagsOK
<1>4. ScriptOK'
  BY <1>1, <1>2, StatesAre DEF Rise, AscentTick, Reaches, TickTyped, TypeOK,
     ScriptOK
<1>5. AgesOK'
  BY <1>1, AgesType DEF Rise, AscentTick, Reaches, TickTyped, TypeOK, AgesOK
<1>6. RingsOK'
  BY DEF Rise, AscentTick, Reaches, RateSample, ShallowRun, Bump, TypeOK,
     RingsOK
<1>7. CountsOK'
  BY <1>1 DEF Rise, AscentTick, Reaches, Deepens, Nearby, TickTyped, TypeOK,
     CountsOK
<1> QED BY <1>3, <1>4, <1>5, <1>6, <1>7 DEF TypeOK

-----------------------------------------------------------------------------
(***************************************************************************)
(* Type correctness of restarts and of the environment                     *)
(***************************************************************************)

\* A restart reloads the script from its defaults and from EEPROM.
LEMMA BootsType ==
    ASSUME TypeOK, Boots, GPS_RBT' \in Nat, depth' \in 0 .. Deepest,
           boots' \in 0 .. MaxReboots, beat' \in BOOLEAN
    PROVE  TypeOK'
<1>1. LGT_TST' \in BOOLEAN
  BY DEF Boots
<1>2. FlagsOK'
  BY <1>1 DEF Boots, TypeOK, FlagsOK
<1>3. gps_lost' \in BOOLEAN
  BY DEF Boots, LostAtBoot, TypeOK, FlagsOK
<1>4. gps_reboot_attempted' \in BOOLEAN
  BY DEF Boots, HealSpent
<1>5. ScriptOK'
  BY <1>3, <1>4, StatesAre DEF Boots, ScriptOK
<1>6. AgesOK'
  BY AgesType DEF Boots, AgesOK
<1>7. RingsOK' /\ CountsOK'
  BY DEF Boots, NoPhase, RingsOK, CountsOK
<1> QED BY <1>2, <1>5, <1>6, <1>7 DEF TypeOK

LEMMA GpsHealType ==
    ASSUME TypeOK, NEW d \in Nearby, NEW g \in BOOLEAN, NEW v \in Volts,
           GpsHeal(d, g, v)
    PROVE  TypeOK'
<1>1. Boots
  BY DEF GpsHeal
<1>2. GPS_RBT' \in Nat /\ depth' \in 0 .. Deepest
  BY DEF GpsHeal, TypeOK, CountsOK, Nearby
<1>3. boots' \in 0 .. MaxReboots /\ beat' \in BOOLEAN
  BY DEF GpsHeal, TypeOK, FlagsOK, CountsOK
<1> QED BY <1>1, <1>2, <1>3, BootsType

LEMMA RebootType == ASSUME TypeOK, Reboot PROVE TypeOK'
<1>1. Boots
  BY DEF Reboot
<1>2. boots' \in 0 .. MaxReboots
  BY DEF Reboot, TypeOK, CountsOK
<1>3. GPS_RBT' \in Nat /\ depth' \in 0 .. Deepest /\ beat' \in BOOLEAN
  BY DEF Reboot, TypeOK, FlagsOK, CountsOK
<1> QED BY <1>1, <1>2, <1>3, BootsType

\* The environment leaves the script's own state alone.
LEMMA UntouchedType ==
    ASSUME TypeOK, UNCHANGED <<script, ages, rings, crit_hold>>
    PROVE  ScriptOK' /\ AgesOK' /\ RingsOK' /\ max_depth' \in 0 .. Deepest
<1>1. ScriptOK'
  BY DEF script, TypeOK, ScriptOK
<1>2. AgesOK'
  BY DEF ages, TypeOK, AgesOK
<1>3. RingsOK' /\ max_depth' \in 0 .. Deepest
  BY DEF ages, rings, TypeOK, RingsOK, CountsOK
<1> QED BY <1>1, <1>2, <1>3

\* The environment writes parameters, the arming flag and the sea.
LEMMA EnvironmentType == ASSUME TypeOK, Environment PROVE TypeOK'
<1>1. CASE Reboot
  BY <1>1, RebootType
<1>2. CASE ~Reboot
  <2>1. UNCHANGED <<script, ages, rings, crit_hold>>
    BY <1>2 DEF Environment, OperatorStart, OperatorStop, AssertReleaseTest,
       AssertLightTest, InjectLeak, Disarmed, history
  <2>2. UNCHANGED <<depth, boots, beat, GPS_RBT>>
    BY <1>2 DEF Environment, OperatorStart, OperatorStop, AssertReleaseTest,
       AssertLightTest, InjectLeak, Disarmed, eeprom, world
  <2>3. /\ START' \in BOOLEAN /\ flown' \in BOOLEAN
        /\ armed' \in BOOLEAN /\ beat' \in BOOLEAN
    BY <1>2 DEF Environment, OperatorStart, OperatorStop, AssertReleaseTest,
       AssertLightTest, InjectLeak, Disarmed, eeprom, world, history,
       TypeOK, FlagsOK
  <2>4. /\ WAS_DEEP' \in BOOLEAN /\ rls_saved' \in BOOLEAN
        /\ RLS_TST' \in BOOLEAN /\ LGT_TST' \in BOOLEAN
        /\ INJ_LEAK' \in BOOLEAN
    BY <1>2 DEF Environment, OperatorStart, OperatorStop, AssertReleaseTest,
       AssertLightTest, InjectLeak, Disarmed, eeprom, tests, TypeOK, FlagsOK
  <2>5. FlagsOK'
    BY <2>3, <2>4 DEF FlagsOK
  <2> QED BY <2>1, <2>2, <2>5, UntouchedType DEF TypeOK, CountsOK
<1> QED BY <1>1, <1>2

\* The first boot.
LEMMA InitTypeOK == Init => TypeOK
<1> SUFFICES ASSUME Init PROVE TypeOK
  OBVIOUS
<1>1. FlagsOK
  BY DEF Init, FlagsOK
<1>2. ScriptOK
  BY StatesAre DEF Init, ScriptOK
<1>3. AgesOK
  BY DEF Init, AgesOK, Ages
<1>4. RingsOK /\ CountsOK
  BY DEF Init, RingsOK, CountsOK
<1> QED BY <1>1, <1>3, <1>4, <1>2 DEF TypeOK

\* Type correctness is inductive by itself.
LEMMA NextTypeOK == TypeOK /\ [Next]_vars => TypeOK'
<1> SUFFICES ASSUME TypeOK, [Next]_vars PROVE TypeOK'
  OBVIOUS
<1>1. ASSUME NEW d \in Nearby, NEW g \in BOOLEAN, NEW v \in Volts,
             Update(d, g, v)
      PROVE  TypeOK'
  BY <1>1, SurfaceByGpsType, RecoveryTickType, LightTickType, CancelTickType,
     DeadmanType, PreArmType, ConfigTickType, FailsafeType, ArmTickType,
     GateTickType, DescentTickType, BottomTickType, StuckType, SurfaceType,
     RiseType, GpsHealType
     DEF Update
<1>2. CASE UNCHANGED vars
  BY <1>2 DEF vars, eeprom, tests, script, ages, rings, world, history,
     TypeOK, FlagsOK, ScriptOK, AgesOK, RingsOK, CountsOK
<1> QED BY <1>1, <1>2, EnvironmentType DEF Next, Tick

\* Every reachable state is well typed: no age, ring or count passes its cap,
\* and the bookkeeping of update() never leaves the six states.
THEOREM TypeCorrect == Spec => []TypeOK
<1>1. Init => TypeOK
  BY InitTypeOK
<1>2. TypeOK /\ [Next]_vars => TypeOK'
  BY NextTypeOK
<1> QED BY <1>1, <1>2, PTL DEF Spec
=============================================================================
