-------------------------- MODULE DiveScriptProofs -------------------------
(***************************************************************************)
(* Safety of the release, the latches and the recorder flag of DiveScript, *)
(* and the refinement of DiveContract, for every value of the constants.   *)
(***************************************************************************)
EXTENDS DiveScriptTypes

USE DEF CONFIG, MISSION_START, DESCENT, ON_BOTTOM, ASCENT, RECOVERY
USE DepthAssumption, TimerAssumption, InputAssumption
    DEF DepthAssumption, TimerAssumption, InputAssumption

\* The keepalive is only done in RECOVERY, which only a restart leaves.
RecoveryOnce == recovery_done => state = RECOVERY

\* A boot that may still self-heal has spent at most one of its two reboots.
HealBudget == SelfHealBounded /\ (~gps_reboot_attempted => GPS_RBT <= 1)

\* A dive that ended with START still set is caught by the saved latches: the
\* script is in RECOVERY, or will go there before it can pre-arm.
FlownBarred == flown /\ START => WAS_DEEP /\ (state = RECOVERY \/ gps_lost)

IInv ==
    /\ TypeOK
    /\ ReleaseAccounted /\ RecoveryOnce
    /\ DeadmanReady
    /\ CameraStopped
    /\ HealBudget
    /\ FlownBarred

-----------------------------------------------------------------------------
(***************************************************************************)
(* The release output                                                      *)
(***************************************************************************)

\* A tick that neither switches the output on nor off keeps a burn going and
\* starts none; only a test in CONFIG may have the output on afterwards.
LEMMA KeepKeeps ==
    ASSUME TypeOK, ReleaseAccounted, KeepRelay
    PROVE  /\ (relay_active' /\ rls_age' = -1)
                <=> (relay_active /\ rls_age = -1)
           /\ relay_active' =>
                \/ state = CONFIG /\ rls_age' \in Nat
                \/ relay_active /\ rls_age = -1 /\ rls_age' = -1
<1>1. rls_age \in Int
  BY DEF TypeOK, AgesOK, Ages
<1>2. CASE state = CONFIG
  <2>1. relay_active => rls_age >= 0
    BY <1>1, <1>2 DEF ReleaseAccounted
  <2>2. TestRuns => TestedAge \in Nat
    BY <1>1 DEF TestedAge, TestStarts, TestRuns, TypeOK, AgesOK, Ages
  <2>3. TestStarts => TestedAge = 0
    BY DEF TestedAge
  <2>4. TestedRelay => TestStarts \/ TestRuns
    BY <1>1, <2>1 DEF TestedRelay
  <2>5. rls_age' = TestedAge /\ (relay_active' => TestedRelay)
    BY Zenon DEF KeepRelay
  <2>6. relay_active' => rls_age' \in Nat
    BY <2>2, <2>3, <2>4, <2>5
  <2>7. ~(relay_active' /\ rls_age' = -1)
    BY <2>6
  <2>8. ~(relay_active /\ rls_age = -1)
    BY <1>1, <2>1
  <2> QED BY <1>2, <2>6, <2>7, <2>8
<1>3. CASE state # CONFIG
  BY <1>1, <1>3 DEF KeepRelay, TestedRelay, TestedAge, TestStarts, TestRuns,
     TestWanted, ReleaseAccounted, TypeOK, AgesOK, Ages
<1> QED BY <1>2, <1>3

\* Every tick leaves the output off or owned, and RECOVERY only by a restart.
LEMMA ReleaseTick ==
    ASSUME IInv, NEW d \in Nearby, NEW g \in BOOLEAN, NEW v \in Volts,
           Update(d, g, v)
    PROVE  ReleaseAccounted' /\ RecoveryOnce'
<1> USE DEF IInv, RecoveryOnce
<1>1. CASE SurfaceByGps(d, g, v)
  BY <1>1, KeepKeeps DEF SurfaceByGps, Reacquired, ReleaseAccounted
<1>2. CASE RecoveryTick(d, v)
  BY <1>2, KeepKeeps DEF RecoveryTick, DeactivateRelay, ReleaseAccounted
<1>3. CASE LightTick(d, g, v)
  BY <1>3, KeepKeeps DEF LightTick, ReleaseAccounted
<1>4. CASE CancelTick(d, g, v)
  BY <1>4 DEF CancelTick, Cancelled, Mission, Guarded, DeactivateRelay,
     ReleaseAccounted
<1>5. CASE GpsHeal(d, g, v)
  BY <1>5 DEF GpsHeal, Boots, ReleaseAccounted
<1>6. CASE Deadman(d, g, v)
  BY <1>6 DEF Deadman, EnterAscent, ActivateRelay, ReleaseAccounted
<1>7. CASE PreArm(d, g, v)
  BY <1>7, KeepKeeps DEF PreArm, Reaches, ReleaseAccounted
<1>8. CASE ConfigTick(d, g, v)
  BY <1>8, KeepKeeps DEF ConfigTick, Reaches, ReleaseAccounted
<1>9. CASE Failsafe(d, g, v)
  BY <1>9 DEF Failsafe, Guarding, Reaches, Guarded, EnterAscent, ActivateRelay,
     ReleaseAccounted
<1>10. CASE ArmTick(d, g, v)
  BY <1>10, KeepKeeps DEF ArmTick, Guarding, Reaches, ReleaseAccounted
<1>11. CASE GateTick(d, g, v)
  BY <1>11, KeepKeeps DEF GateTick, Guarding, Reaches, ReleaseAccounted
<1>12. CASE DescentTick(d, g, v)
  BY <1>12, KeepKeeps DEF DescentTick, Guarding, Reaches, ReleaseAccounted
<1>13. CASE BottomTick(d, g, v)
  BY <1>13, KeepKeeps DEF BottomTick, Guarding, Reaches, EnterAscent,
     ActivateRelay, ReleaseAccounted
<1>14. CASE Stuck(d, g, v)
  BY <1>14 DEF Stuck, AscentTick, DeactivateRelay, Reaches, ReleaseAccounted
<1>15. CASE Surface(d, g, v)
  BY <1>15 DEF Surface, AscentTick, DeactivateRelay, Reaches, ReleaseAccounted
<1>16. CASE Rise(d, g, v)
  BY <1>16, KeepKeeps DEF Rise, AscentTick, Reaches, DeactivateRelay,
     ReleaseAccounted
<1> QED
  BY <1>1, <1>2, <1>3, <1>4, <1>5, <1>6, <1>7, <1>8, <1>9, <1>10, <1>11,
     <1>12, <1>13, <1>14, <1>15, <1>16 DEF Update

-----------------------------------------------------------------------------
(***************************************************************************)
(* The latches                                                             *)
(***************************************************************************)

\* Whatever returns to CONFIG stands the pre-arm down; the recorder flag is
\* cleared on the way to CONFIG and to RECOVERY.
LEMMA DeadmanTick ==
    ASSUME IInv, NEW d \in Nearby, NEW g \in BOOLEAN, NEW v \in Volts,
           Update(d, g, v)
    PROVE  DeadmanReady' /\ CameraStopped'
<1> USE DEF IInv, DeadmanReady, CameraStopped, Guarded
<1>1. CASE SurfaceByGps(d, g, v)
  BY <1>1 DEF SurfaceByGps, StopCamera
<1>2. CASE RecoveryTick(d, v)
  BY <1>2 DEF RecoveryTick
<1>3. CASE LightTick(d, g, v)
  BY <1>3 DEF LightTick
<1>4. CASE CancelTick(d, g, v)
  BY <1>4 DEF CancelTick, Stand, StopCamera
<1>5. CASE GpsHeal(d, g, v)
  BY <1>5 DEF GpsHeal, Boots
<1>6. CASE Deadman(d, g, v)
  BY <1>6 DEF Deadman, Reaches, EnterAscent, StopCamera
<1>7. CASE PreArm(d, g, v)
  BY <1>7 DEF PreArm, Reaches
<1>8. CASE ConfigTick(d, g, v)
  BY <1>8 DEF ConfigTick, Reaches
<1>9. CASE Failsafe(d, g, v)
  BY <1>9 DEF Failsafe, Guarding, Reaches, Guarded, EnterAscent
<1>10. CASE ArmTick(d, g, v)
  BY <1>10 DEF ArmTick, Guarding, Reaches
<1>11. CASE GateTick(d, g, v)
  BY <1>11 DEF GateTick, Guarding, Reaches
<1>12. CASE DescentTick(d, g, v)
  BY <1>12 DEF DescentTick, Guarding, Reaches
<1>13. CASE BottomTick(d, g, v)
  BY <1>13 DEF BottomTick, Guarding, Reaches, EnterAscent
<1>14. CASE Stuck(d, g, v)
  BY <1>14 DEF Stuck, AscentTick, Reaches, StopCamera
<1>15. CASE Surface(d, g, v)
  BY <1>15 DEF Surface, AscentTick, Reaches, StopCamera
<1>16. CASE Rise(d, g, v)
  BY <1>16 DEF Rise, AscentTick, Reaches
<1> QED
  BY <1>1, <1>2, <1>3, <1>4, <1>5, <1>6, <1>7, <1>8, <1>9, <1>10, <1>11,
     <1>12, <1>13, <1>14, <1>15, <1>16
     DEF Update

\* Only the self-heal counts up, and only while the boot may still heal.
LEMMA HealTick ==
    ASSUME IInv, NEW d \in Nearby, NEW g \in BOOLEAN, NEW v \in Volts,
           Update(d, g, v)
    PROVE  HealBudget'
<1> USE DEF IInv, HealBudget, SelfHealBounded, TypeOK, CountsOK
<1>1. CASE SurfaceByGps(d, g, v)
  BY <1>1 DEF SurfaceByGps
<1>2. CASE RecoveryTick(d, v)
  BY <1>2 DEF RecoveryTick
<1>3. CASE LightTick(d, g, v)
  BY <1>3 DEF LightTick
<1>4. CASE CancelTick(d, g, v)
  BY <1>4 DEF CancelTick
<1>5. CASE GpsHeal(d, g, v)
  <2>1. GPS_RBT' = GPS_RBT + 1 /\ ~gps_reboot_attempted
    BY <1>5 DEF GpsHeal, HealReboots, HealDue
  <2>2. gps_reboot_attempted' = HealSpent(GPS_RBT')
    BY <1>5 DEF GpsHeal, Boots
  <2>3. GPS_RBT \in Nat /\ GPS_RBT <= 1
    BY <2>1
  <2>4. ~gps_reboot_attempted' => ~HealSpent(GPS_RBT')
    BY <2>2, Zenon
  <2> QED BY <2>1, <2>3, <2>4 DEF HealSpent
<1>6. CASE Deadman(d, g, v)
  BY <1>6 DEF Deadman, Reaches, EnterAscent
<1>7. CASE PreArm(d, g, v)
  BY <1>7 DEF PreArm, Reaches
<1>8. CASE ConfigTick(d, g, v)
  BY <1>8 DEF ConfigTick, Reaches
<1>9. CASE Failsafe(d, g, v)
  BY <1>9 DEF Failsafe, Guarding, Reaches, Guarded, EnterAscent
<1>10. CASE ArmTick(d, g, v)
  BY <1>10 DEF ArmTick, Guarding, Reaches
<1>11. CASE GateTick(d, g, v)
  BY <1>11 DEF GateTick, Guarding, Reaches
<1>12. CASE DescentTick(d, g, v)
  BY <1>12 DEF DescentTick, Guarding, Reaches
<1>13. CASE BottomTick(d, g, v)
  BY <1>13 DEF BottomTick, Guarding, Reaches, EnterAscent
<1>14. CASE Stuck(d, g, v)
  BY <1>14 DEF Stuck, AscentTick, Reaches
<1>15. CASE Surface(d, g, v)
  BY <1>15 DEF Surface, AscentTick, Reaches
<1>16. CASE Rise(d, g, v)
  BY <1>16 DEF Rise, AscentTick, Reaches
<1> QED
  BY <1>1, <1>2, <1>3, <1>4, <1>5, <1>6, <1>7, <1>8, <1>9, <1>10, <1>11,
     <1>12, <1>13, <1>14, <1>15, <1>16
     DEF Update

\* The latches of a submergence are never cleared by a tick that keeps them.
LEMMA LatchesKeep ==
    ASSUME NEW d, NEW g, Latches(d, g)
    PROVE  (WAS_DEEP => WAS_DEEP') /\ (gps_lost => gps_lost')
BY Zenon DEF Latches

\* A tick never loses the latches of a dive that has ended.
LEMMA FlownTick ==
    ASSUME IInv, NEW d \in Nearby, NEW g \in BOOLEAN, NEW v \in Volts,
           Update(d, g, v)
    PROVE  FlownBarred'
<1> USE DEF IInv, FlownBarred, TypeOK, FlagsOK, ScriptOK
<1>1. CASE SurfaceByGps(d, g, v)
  BY <1>1 DEF SurfaceByGps, Reacquired
<1>2. CASE RecoveryTick(d, v)
  <2>1. state' = RECOVERY /\ flown' = flown
    BY <1>2 DEF RecoveryTick
  <2>2. START' => START /\ (WAS_DEEP => WAS_DEEP')
    BY <1>2 DEF RecoveryTick
  <2> QED BY <2>1, <2>2
<1>3. CASE LightTick(d, g, v)
  BY <1>3, LatchesKeep DEF LightTick
<1>4. CASE CancelTick(d, g, v)
  BY <1>4 DEF CancelTick, Cancelled
<1>5. CASE GpsHeal(d, g, v)
  BY <1>5 DEF GpsHeal, Boots, LostAtBoot
<1>6. CASE Deadman(d, g, v)
  BY <1>6, LatchesKeep DEF Deadman, Reaches, EnterAscent
<1>7. CASE PreArm(d, g, v)
  <2>1. START' = START /\ flown' = flown /\ state # RECOVERY
    BY <1>7 DEF PreArm, Reaches
  <2>2. (WAS_DEEP => WAS_DEEP') /\ (gps_lost => gps_lost')
    BY <1>7, LatchesKeep DEF PreArm, Reaches
  <2> QED BY <2>1, <2>2
<1>8. CASE ConfigTick(d, g, v)
  BY <1>8, LatchesKeep DEF ConfigTick, Reaches
<1>9. CASE Failsafe(d, g, v)
  BY <1>9, LatchesKeep DEF Failsafe, Guarding, Reaches, Guarded, EnterAscent
<1>10. CASE ArmTick(d, g, v)
  BY <1>10, LatchesKeep DEF ArmTick, Guarding, Reaches
<1>11. CASE GateTick(d, g, v)
  BY <1>11, LatchesKeep DEF GateTick, Guarding, Reaches
<1>12. CASE DescentTick(d, g, v)
  BY <1>12, LatchesKeep DEF DescentTick, Guarding, Reaches
<1>13. CASE BottomTick(d, g, v)
  BY <1>13, LatchesKeep DEF BottomTick, Guarding, Reaches, EnterAscent
<1>14. CASE Stuck(d, g, v)
  BY <1>14, LatchesKeep DEF Stuck, AscentTick, Reaches
<1>15. CASE Surface(d, g, v)
  BY <1>15, LatchesKeep DEF Surface, AscentTick, Reaches
<1>16. CASE Rise(d, g, v)
  BY <1>16, LatchesKeep DEF Rise, AscentTick, Reaches
<1> QED
  BY <1>1, <1>2, <1>3, <1>4, <1>5, <1>6, <1>7, <1>8, <1>9, <1>10, <1>11,
     <1>12, <1>13, <1>14, <1>15, <1>16
     DEF Update


-----------------------------------------------------------------------------
(***************************************************************************)
(* The invariant                                                           *)
(***************************************************************************)

\* The script boots with everything off.
LEMMA InitIInv == Init => IInv
<1> SUFFICES ASSUME Init PROVE IInv
  OBVIOUS
<1>1. TypeOK
  BY InitTypeOK
<1> QED
  BY <1>1 DEF Init, IInv, ReleaseAccounted, RecoveryOnce, DeadmanReady,
     CameraStopped, HealBudget, SelfHealBounded, FlownBarred

\* A restart keeps what EEPROM keeps, which is enough for the latches.
LEMMA RebootIInv == ASSUME IInv, Reboot PROVE IInv'
<1>1. TypeOK'
  BY RebootType DEF IInv
<1>2. /\ state' = CONFIG /\ ~relay_active' /\ ~prearm_passed'
      /\ ~recovery_done' /\ ~ipcam_recording'
  BY DEF Reboot, Boots
<1>3. HealBudget'
  <2>1. GPS_RBT' = GPS_RBT /\ GPS_RBT \in Nat
    BY DEF Reboot, IInv, TypeOK, CountsOK
  <2>2. gps_reboot_attempted' = HealSpent(GPS_RBT')
    BY DEF Reboot, Boots
  <2>3. ~gps_reboot_attempted' => ~HealSpent(GPS_RBT')
    BY <2>2, Zenon
  <2> QED BY <2>1, <2>3 DEF HealSpent, IInv, HealBudget, SelfHealBounded
<1>4. FlownBarred'
  BY DEF Reboot, Boots, LostAtBoot, IInv, FlownBarred
<1> QED
  BY <1>1, <1>2, <1>3, <1>4 DEF IInv, ReleaseAccounted, RecoveryOnce,
     DeadmanReady, CameraStopped

\* The operator, the leak and a disarm touch parameters only.
LEMMA EnvironmentIInv == ASSUME IInv, Environment PROVE IInv'
<1>1. CASE Reboot
  BY <1>1, RebootIInv
<1>2. CASE ~Reboot
  <2>1. TypeOK'
    BY EnvironmentType DEF IInv
  <2>2. UNCHANGED <<script, ages, GPS_RBT, WAS_DEEP>>
    BY <1>2 DEF Environment, OperatorStart, OperatorStop, AssertReleaseTest,
       AssertLightTest, InjectLeak, Disarmed, eeprom
  <2>3. flown' /\ START' => flown /\ START
    BY <1>2 DEF Environment, OperatorStart, OperatorStop, AssertReleaseTest,
       AssertLightTest, InjectLeak, Disarmed, eeprom, history
  <2>4. ReleaseAccounted' /\ RecoveryOnce' /\ DeadmanReady' /\ CameraStopped'
    BY <2>2 DEF script, ages, IInv, ReleaseAccounted, RecoveryOnce,
       DeadmanReady, CameraStopped
  <2>5. HealBudget'
    BY <2>2 DEF script, IInv, HealBudget, SelfHealBounded
  <2>6. FlownBarred'
    BY <2>2, <2>3 DEF script, IInv, FlownBarred
  <2> QED BY <2>1, <2>4, <2>5, <2>6 DEF IInv
<1> QED BY <1>1, <1>2

\* The invariant is inductive.
LEMMA NextIInv == IInv /\ [Next]_vars => IInv'
<1> SUFFICES ASSUME IInv, [Next]_vars PROVE IInv'
  OBVIOUS
<1>1. TypeOK'
  BY NextTypeOK DEF IInv
<1>2. ASSUME NEW d \in Nearby, NEW g \in BOOLEAN, NEW v \in Volts,
             Update(d, g, v)
      PROVE  IInv'
  BY <1>1, <1>2, ReleaseTick, DeadmanTick, HealTick, FlownTick DEF IInv
<1>3. CASE UNCHANGED vars
  BY <1>1, <1>3 DEF vars, eeprom, tests, script, ages, rings, world, history,
     IInv, ReleaseAccounted, RecoveryOnce, DeadmanReady, CameraStopped,
     HealBudget, SelfHealBounded, FlownBarred
<1> QED BY <1>2, <1>3, EnvironmentIInv DEF Next, Tick

\* Every reachable state satisfies the inductive invariant: the release output
\* is owned, the keepalive is done only in RECOVERY, the deadman is ready, the
\* self-heal has its budget and a dive that ended is barred by its latches.
THEOREM Invariant == Spec => []IInv
<1>1. Init => IInv
  BY InitIInv
<1>2. IInv /\ [Next]_vars => IInv'
  BY NextIInv
<1> QED BY <1>1, <1>2, PTL DEF Spec

\* The release output is never on without something in the script that will
\* switch it off.
THEOREM ReleaseOwned == Spec => []ReleaseAccounted
BY Invariant, PTL DEF IInv

\* The depth deadman is ready in CONFIG, whatever was started or cancelled.
THEOREM DeadmanAlwaysReady == Spec => []DeadmanReady
BY Invariant, PTL DEF IInv

\* The script never believes the recorder runs where nothing would stop it.
THEOREM CameraAlwaysStopped == Spec => []CameraStopped
BY Invariant, PTL DEF IInv

\* At most two self-heal reboots between two passed pre-arms.
THEOREM SelfHealAlwaysBounded == Spec => []SelfHealBounded
BY Invariant, PTL DEF IInv, HealBudget

-----------------------------------------------------------------------------
(***************************************************************************)
(* What no step does                                                       *)
(***************************************************************************)

\* PreArm cannot run while the latches bar it: its own tick is above 2 m with
\* a fix, and such a tick goes to RECOVERY first.
LEMMA DiveNotRepeatedStep ==
    IInv /\ [Next]_vars
        => (state = CONFIG /\ state' = MISSION_START => ~flown)
<1> SUFFICES ASSUME IInv, Next, state = CONFIG, state' = MISSION_START
             PROVE  ~flown
  BY DEF vars, script
<1>1. ~Environment
  BY DEF Environment, OperatorStart, OperatorStop, AssertReleaseTest,
     AssertLightTest, InjectLeak, Disarmed, Reboot, Boots, script
<1>2. PICK d \in Nearby, g \in BOOLEAN, v \in Volts : Update(d, g, v)
  BY <1>1 DEF Next, Tick
<1>3. PreArm(d, g, v)
  BY <1>2 DEF Update, SurfaceByGps, RecoveryTick, LightTick, CancelTick,
     GpsHeal, Boots, Deadman, EnterAscent, ConfigTick, Failsafe, Guarding, Reaches,
     Guarded, ArmTick, GateTick, DescentTick, BottomTick, Stuck, Surface, Rise,
     AscentTick
<1>4. START /\ g /\ ~Sunk(d) /\ ~Reacquired(d, g)
  BY <1>3 DEF PreArm, Reaches
<1>5. d \in Int
  BY DEF Nearby
<1>6. ~prearm_passed
  BY DEF IInv, DeadmanReady
<1>7. d <= DeepM
  BY <1>4, <1>6, <1>5 DEF Sunk
<1>8. ~(WAS_DEEP /\ gps_lost)
  BY <1>4, <1>7 DEF Reacquired
<1> QED BY <1>4, <1>8 DEF IInv, FlownBarred

\* A dive that went deep and ended is not flown again, wherever the autopilot
\* restarts, unless the operator starts it again.
THEOREM DiveNeverRepeated == Spec => DiveNotRepeated
<1>1. IInv /\ [Next]_vars
        => [state = CONFIG /\ state' = MISSION_START => ~flown]_vars
  BY DiveNotRepeatedStep
<1> QED BY <1>1, Invariant, PTL DEF Spec, DiveNotRepeated

\* Of the ticks of ASCENT only the end of the dive, a cancel and a full burn
\* may switch the output off.
LEMMA BurnNotCutStep ==
    ASSUME IInv, Next, state = ASCENT, relay_active, ~relay_active'
    PROVE  \/ phase_age + 1 >= BrnMin
           \/ state' = RECOVERY
           \/ ~START
           \/ boots' # boots
<1>1. CASE Environment
  <2>1. Reboot
    BY <1>1 DEF Environment, OperatorStart, OperatorStop, AssertReleaseTest,
       AssertLightTest, InjectLeak, Disarmed, script
  <2> QED BY <2>1 DEF Reboot, IInv, TypeOK, CountsOK
<1>2. ASSUME NEW d \in Nearby, NEW g \in BOOLEAN, NEW v \in Volts,
             Update(d, g, v)
      PROVE  phase_age + 1 >= BrnMin \/ state' = RECOVERY \/ ~START
  <2>1. rls_age = -1
    BY DEF IInv, ReleaseAccounted
  <2>2. ~KeepRelay
    BY <2>1, KeepKeeps DEF IInv
  <2>3. \/ SurfaceByGps(d, g, v) \/ CancelTick(d, g, v)
        \/ Stuck(d, g, v) \/ Surface(d, g, v) \/ Rise(d, g, v)
    BY <1>2, <2>2 DEF Update, RecoveryTick, LightTick, GpsHeal, Deadman,
       PreArm, ConfigTick, Failsafe, Guarding, Reaches, Guarded, ArmTick, GateTick,
       DescentTick, BottomTick
  <2>4. CASE Rise(d, g, v)
    BY <2>2, <2>4 DEF Rise, BurnOver
  <2> QED
    BY <2>3, <2>4 DEF SurfaceByGps, CancelTick, Cancelled, Stuck, Surface
<1> QED BY <1>1, <1>2 DEF Next, Tick

\* No release test and no light test ever cuts a burn of an ascent short.
THEOREM BurnNeverCut == Spec => BurnNotCut
<1>1. IInv /\ [Next]_vars
        => [state = ASCENT /\ relay_active /\ ~relay_active' =>
              \/ phase_age + 1 >= BrnMin
              \/ state' = RECOVERY
              \/ ~START
              \/ boots' # boots]_vars
  BY BurnNotCutStep
<1> QED BY <1>1, Invariant, PTL DEF Spec, BurnNotCut

-----------------------------------------------------------------------------
(***************************************************************************)
(* DiveScript implements DiveContract                                      *)
(***************************************************************************)

\* The contract's second variable.
burning == relay_active /\ rls_age = -1

\* What the mapping makes of each state, now and after a step.
LEMMA PhaseNames ==
    /\ state = CONFIG => PhaseName = "surface"
    /\ state \in Guarded => PhaseName = "diving"
    /\ state = ASCENT => PhaseName = "ascending"
    /\ state = RECOVERY => PhaseName = "over"
    /\ state' = CONFIG => PhaseName' = "surface"
    /\ state' \in Guarded => PhaseName' = "diving"
    /\ state' = ASCENT => PhaseName' = "ascending"
    /\ state' = RECOVERY => PhaseName' = "over"
BY DEF PhaseName, Guarded

\* Only an ascent, or the RECOVERY tick it ends in, holds a burn.
LEMMA BurnWhere ==
    ASSUME IInv
    PROVE  /\ burning => state = ASCENT \/ (state = RECOVERY /\ ~recovery_done)
           /\ state = CONFIG \/ state \in Guarded \/ state = ASCENT
              \/ state = RECOVERY
           /\ relay_active \in BOOLEAN
BY DEF burning, IInv, TypeOK, ScriptOK, States, Guarded, ReleaseAccounted

\* A step of the contract or a stutter, in the contract's variables.
ContractStep == [Contract!Next]_(Contract!vars)

\* A step that changes neither phase nor burn is a stutter of the contract.
LEMMA StutterStep ==
    ASSUME PhaseName' = PhaseName, burning' <=> burning
    PROVE  ContractStep
BY Zenon DEF ContractStep, Contract!vars, burning

\* Each path through update() is one action of the contract, or a stutter.
LEMMA UpdateContract ==
    ASSUME IInv, NEW d \in Nearby, NEW g \in BOOLEAN, NEW v \in Volts,
           Update(d, g, v)
    PROVE  ContractStep
<1> USE PhaseNames, BurnWhere
<1>keep. KeepRelay => (burning' <=> burning)
  BY KeepKeeps DEF burning, IInv
<1>off. DeactivateRelay => ~burning'
  BY DEF DeactivateRelay, burning
<1>on. ActivateRelay => burning'
  BY DEF ActivateRelay, burning
<1>stutter. ASSUME state' = state, burning' <=> burning PROVE ContractStep
  BY <1>stutter, StutterStep DEF PhaseName
<1>1. CASE SurfaceByGps(d, g, v)
  <2>1. Contract!Finish
    BY <1>1, <1>keep DEF SurfaceByGps, Reacquired, Contract!Finish, burning
  <2> QED BY <2>1 DEF ContractStep, Contract!Next
<1>2. CASE RecoveryTick(d, v)
  <2>1. CASE recovery_done
    BY <1>2, <1>keep, <1>stutter, <2>1 DEF RecoveryTick
  <2>2. CASE ~recovery_done /\ ~burning
    BY <1>2, <1>off, <1>stutter, <2>2 DEF RecoveryTick
  <2>3. CASE ~recovery_done /\ burning
    <3>1. Contract!Quieten
      BY <1>2, <1>off, <2>3 DEF RecoveryTick, Contract!Quieten, burning
    <3> QED BY <3>1 DEF ContractStep, Contract!Next
  <2> QED BY <2>1, <2>2, <2>3
<1>3. CASE LightTick(d, g, v)
  BY <1>3, <1>keep, <1>stutter DEF LightTick
<1>4. CASE CancelTick(d, g, v)
  <2>1. Contract!Abandon
    BY <1>4, <1>off DEF CancelTick, Cancelled, Mission, Contract!Abandon,
       burning
  <2> QED BY <2>1 DEF ContractStep, Contract!Next
<1>5. CASE GpsHeal(d, g, v)
  <2>1. state' = state /\ ~burning' /\ ~burning
    BY <1>5 DEF GpsHeal, Boots, burning
  <2> QED BY <1>stutter, <2>1
<1>6. CASE Deadman(d, g, v)
  <2>1. Contract!Release
    BY <1>6, <1>on DEF Deadman, Reaches, EnterAscent, Contract!Release, burning
  <2> QED BY <2>1 DEF ContractStep, Contract!Next
<1>7. CASE PreArm(d, g, v)
  <2>1. Contract!Start
    BY <1>7, <1>keep DEF PreArm, Reaches, Contract!Start, burning, Guarded
  <2> QED BY <2>1 DEF ContractStep, Contract!Next
<1>8. CASE ConfigTick(d, g, v)
  BY <1>8, <1>keep, <1>stutter DEF ConfigTick
<1>9. CASE Failsafe(d, g, v)
  <2>1. Contract!Release
    BY <1>9, <1>on DEF Failsafe, Guarding, Reaches, EnterAscent,
       Contract!Release, burning
  <2> QED BY <2>1 DEF ContractStep, Contract!Next
<1>10. CASE ArmTick(d, g, v)
  BY <1>10, <1>keep, <1>stutter DEF ArmTick
<1>11. CASE GateTick(d, g, v)
  <2>1. state \in Guarded /\ state' \in Guarded
    BY <1>11 DEF GateTick, Guarding, Reaches, Guarded
  <2>2. burning' <=> burning
    BY <1>11, <1>keep DEF GateTick
  <2> QED BY <2>1, <2>2, StutterStep
<1>12. CASE DescentTick(d, g, v)
  <2>1. state \in Guarded /\ state' \in Guarded
    BY <1>12 DEF DescentTick, Guarding, Reaches, Guarded
  <2>2. burning' <=> burning
    BY <1>12, <1>keep DEF DescentTick
  <2> QED BY <2>1, <2>2, StutterStep
<1>13. CASE BottomTick(d, g, v)
  <2>1. CASE EnterAscent
    <3>1. Contract!Release
      BY <1>13, <1>on, <2>1 DEF BottomTick, Guarding, Reaches, Guarded,
         EnterAscent, Contract!Release, burning
    <3> QED BY <3>1 DEF ContractStep, Contract!Next
  <2>2. CASE ~EnterAscent
    BY <1>13, <1>keep, <1>stutter, <2>2 DEF BottomTick
  <2> QED BY <2>1, <2>2
<1>14. CASE Stuck(d, g, v)
  <2>1. Contract!Finish
    BY <1>14, <1>off DEF Stuck, AscentTick, Reaches, Contract!Finish, burning
  <2> QED BY <2>1 DEF ContractStep, Contract!Next
<1>15. CASE Surface(d, g, v)
  <2>1. Contract!Finish
    BY <1>15, <1>off DEF Surface, AscentTick, Reaches, Contract!Finish, burning
  <2> QED BY <2>1 DEF ContractStep, Contract!Next
<1>16. CASE Rise(d, g, v)
  <2>1. state = ASCENT /\ state' = ASCENT
    BY <1>16 DEF Rise, AscentTick, Reaches
  <2>2. CASE KeepRelay
    BY <1>keep, <1>stutter, <2>1, <2>2
  <2>3. CASE DeactivateRelay /\ burning
    <3>1. Contract!EndBurn
      BY <1>off, <2>1, <2>3 DEF Contract!EndBurn, burning
    <3> QED BY <3>1 DEF ContractStep, Contract!Next
  <2>4. CASE DeactivateRelay /\ ~burning
    BY <1>off, <1>stutter, <2>1, <2>4
  <2> QED BY <1>16, <2>2, <2>3, <2>4 DEF Rise
<1> QED
  BY <1>1, <1>2, <1>3, <1>4, <1>5, <1>6, <1>7, <1>8, <1>9, <1>10, <1>11,
     <1>12, <1>13, <1>14, <1>15, <1>16 DEF Update

\* A restart abandons the dive; nothing else outside the script shows.
LEMMA EnvironmentContract == ASSUME IInv, Environment PROVE ContractStep
<1> USE PhaseNames, BurnWhere
<1>1. CASE Reboot
  <2>1. state' = CONFIG /\ ~burning'
    BY <1>1 DEF Reboot, Boots, burning
  <2>2. CASE state = CONFIG
    BY <2>1, <2>2, StutterStep
  <2>3. CASE state # CONFIG
    <3>1. Contract!Abandon
      BY <2>1, <2>3 DEF Contract!Abandon, burning, Guarded
    <3> QED BY <3>1 DEF ContractStep, Contract!Next
  <2> QED BY <2>2, <2>3
<1>2. CASE ~Reboot
  <2>1. UNCHANGED <<script, ages>>
    BY <1>2 DEF Environment, OperatorStart, OperatorStop, AssertReleaseTest,
       AssertLightTest, InjectLeak, Disarmed
  <2>2. PhaseName' = PhaseName /\ (burning' <=> burning)
    BY <2>1 DEF script, ages, PhaseName, burning
  <2> QED BY <2>2, StutterStep
<1> QED BY <1>1, <1>2

\* Every tick, operator action and restart is a step the contract allows.
THEOREM ContractHolds == Spec => ImplementsContract
<1>1. Init => Contract!Init
  BY PhaseNames DEF Init, Contract!Init
<1>2. IInv /\ [Next]_vars => ContractStep
  <2> SUFFICES ASSUME IInv, [Next]_vars PROVE ContractStep
    OBVIOUS
  <2>1. CASE UNCHANGED vars
    <3>1. PhaseName' = PhaseName /\ (burning' <=> burning)
      BY <2>1 DEF vars, script, ages, PhaseName, burning
    <3> QED BY <3>1, StutterStep
  <2> QED BY <2>1, UpdateContract, EnvironmentContract DEF Next, Tick
<1> QED
  BY <1>1, <1>2, Invariant, PTL
     DEF Spec, ImplementsContract, Contract!Spec, ContractStep
-----------------------------------------------------------------------------
(***************************************************************************)
(* Progress: what BottomEnds, SunkIsReleased and FirstLeakReleases need    *)
(* besides the scheduler.  Every tick that does not do what was waited for *)
(* moves a clock towards its cap, and nothing but a restart moves it back. *)
(***************************************************************************)

\* A tick that only a light test holds: one of at most TestTicks.
LightCounts == lgt_age' > lgt_age /\ lgt_age' <= TestTicks

BottomCounts ==
    [][state = ON_BOTTOM /\ state' = ON_BOTTOM =>
          /\ Tick => \/ phase_age' > phase_age
                     \/ phase_age' = phase_age /\ LightCounts
          /\ ~Tick => UNCHANGED <<phase_age, lgt_age>>]_vars

SunkCounts ==
    [][state = CONFIG /\ depth > DeepM =>
          /\ Tick => \/ relay_active' \/ depth' <= DeepM
                     \/ state' = CONFIG /\ boots' = boots /\ LightCounts
          /\ ~Tick => boots' > boots \/ UNCHANGED <<state, depth, lgt_age>>]_vars

Leaking == state \in Guarded /\ INJ_LEAK /\ ~leak_detected

LeakCounts ==
    [][Leaking =>
          /\ Tick => state' \notin Guarded \/ (Leaking' /\ LightCounts)
          /\ ~Tick => \/ state' \notin Guarded \/ ~INJ_LEAK'
                      \/ Leaking' /\ UNCHANGED lgt_age]_vars

LEMMA LightTickCounts ==
    ASSUME TypeOK, NEW d, NEW g, NEW v, LightTick(d, g, v)
    PROVE  LightCounts /\ state' = state /\ UNCHANGED <<boots, INJ_LEAK>>
<1>1. lgt_age \in -1 .. (TestTicks + 1) /\ TestTicks \in Nat \ {0}
  BY DEF TypeOK, AgesOK, Ages
<1>2. /\ lgt_age = -1 \/ lgt_age + 1 <= TestTicks
      /\ lgt_age' = IF lgt_age = -1 THEN 0 ELSE Bump(lgt_age, TestTicks + 1)
  BY DEF LightTick, LightHeld
<1>3. LightCounts
  BY <1>1, <1>2 DEF LightCounts, Bump
<1> QED BY <1>3 DEF LightTick, Senses

\* What the environment does in the meantime: nothing to the clocks, unless it
\* restarts the script.
LEMMA EnvironmentWaits ==
    ASSUME TypeOK, Environment
    PROVE  \/ state' = CONFIG /\ boots' > boots
           \/ UNCHANGED <<script, ages, depth, boots>>
<1>1. CASE Reboot
  BY <1>1 DEF Reboot, Boots, TypeOK, CountsOK
<1>2. CASE ~Reboot
  BY <1>2 DEF Environment, OperatorStart, OperatorStop, AssertReleaseTest,
     AssertLightTest, InjectLeak, Disarmed, world
<1> QED BY <1>1, <1>2

\* On the bottom the timer's age stays within its cap.
BottomAge == state = ON_BOTTOM => phase_age <= RlsTicks

LEMMA BottomAgeKept == TypeOK /\ BottomAge /\ [Next]_vars => BottomAge'
<1> SUFFICES ASSUME TypeOK, BottomAge, [Next]_vars, state' = ON_BOTTOM
             PROVE  phase_age' <= RlsTicks
  BY DEF BottomAge
<1>1. phase_age \in 0 .. (RlsTicks + BrnMin)
  BY DEF TypeOK, RingsOK
<1>2. CASE UNCHANGED vars
  BY <1>2 DEF vars, script, ages, BottomAge
<1>3. CASE Environment
  BY <1>3, EnvironmentWaits DEF script, ages, BottomAge
<1>4. ASSUME NEW d \in Nearby, NEW g \in BOOLEAN, NEW v \in Volts,
             Update(d, g, v)
      PROVE  phase_age' <= RlsTicks
  <2>1. CASE LightTick(d, g, v)
    BY <1>1, <2>1 DEF LightTick, PhaseCap, Bump, BottomAge
  <2>2. CASE DescentTick(d, g, v)
    BY <2>2 DEF DescentTick, Guarding, Reaches
  <2>3. CASE BottomTick(d, g, v)
    BY <1>1, <2>3 DEF BottomTick, EnterAscent, BottomDue, Bump
  <2> QED
    BY <1>4, <2>1, <2>2, <2>3
       DEF Update, SurfaceByGps, RecoveryTick, CancelTick, GpsHeal, Boots,
       Deadman, PreArm, ConfigTick, Failsafe, EnterAscent, ArmTick, GateTick,
       Stuck, Surface, Rise, AscentTick, Guarding, Reaches
<1> QED BY <1>2, <1>3, <1>4 DEF Next, Tick

\* The bottom timer: every tick on the bottom that does not leave it raises its
\* age, or is one of a light test's last (bottom_start_ms, doris.lua:1958).
THEOREM BottomTimerRuns == Spec => BottomCounts
<1> DEFINE Runs == state = ON_BOTTOM /\ state' = ON_BOTTOM =>
                      /\ Tick => \/ phase_age' > phase_age
                                 \/ phase_age' = phase_age /\ LightCounts
                      /\ ~Tick => UNCHANGED <<phase_age, lgt_age>>
<1>1. TypeOK /\ BottomAge /\ [Next]_vars => [Runs]_vars
  <2> SUFFICES ASSUME TypeOK, BottomAge, Next,
                      state = ON_BOTTOM, state' = ON_BOTTOM
               PROVE  Runs
    OBVIOUS
  <2>1. phase_age \in 0 .. (RlsTicks + BrnMin)
    BY DEF TypeOK, RingsOK
  <2>2. ASSUME NEW d \in Nearby, NEW g \in BOOLEAN, NEW v \in Volts,
               Update(d, g, v)
        PROVE  \/ phase_age' > phase_age
               \/ phase_age' = phase_age /\ LightCounts
    <3>1. LightTick(d, g, v) \/ BottomTick(d, g, v)
      BY <2>2 DEF Update, SurfaceByGps, RecoveryTick, CancelTick, GpsHeal,
         Boots, Deadman, PreArm, ConfigTick, Failsafe, EnterAscent, ArmTick,
         GateTick, DescentTick, Stuck, Surface, Rise, AscentTick, Guarding,
         Reaches
    <3>2. CASE LightTick(d, g, v)
      <4>1. phase_age' = Bump(phase_age, RlsTicks)
        BY <3>2 DEF LightTick, PhaseCap
      <4>2. phase_age' = phase_age \/ phase_age' > phase_age
        BY <2>1, <4>1 DEF Bump, BottomAge
      <4> QED BY <3>2, <4>2, LightTickCounts
    <3>3. CASE BottomTick(d, g, v)
      <4>1. ~BottomDue /\ phase_age' = Bump(phase_age, RlsTicks)
        BY <3>3 DEF BottomTick, EnterAscent
      <4> QED BY <2>1, <4>1 DEF BottomDue, Bump
    <3> QED BY <3>1, <3>2, <3>3
  <2>3. Environment => UNCHANGED <<phase_age, lgt_age>>
    BY EnvironmentWaits DEF ages
  <2> QED BY <2>2, <2>3 DEF Next, Tick
<1>2. Init => BottomAge
  BY DEF Init, BottomAge
<1> QED BY <1>1, <1>2, BottomAgeKept, TypeCorrect, PTL DEF Spec, BottomCounts

\* The deadman: below 2 m in CONFIG every tick releases, or is one of the at most
\* TestTicks of a light test, which only a restart begins again.
THEOREM SunkWaitsForLight == Spec => SunkCounts
<1> DEFINE Runs == state = CONFIG /\ depth > DeepM =>
                      /\ Tick => \/ relay_active' \/ depth' <= DeepM
                                 \/ state' = CONFIG /\ boots' = boots /\ LightCounts
                      /\ ~Tick => \/ boots' > boots
                                  \/ UNCHANGED <<state, depth, lgt_age>>
<1>1. IInv /\ [Next]_vars => [Runs]_vars
  <2> SUFFICES ASSUME IInv, Next, state = CONFIG, depth > DeepM
               PROVE  Runs
    OBVIOUS
  <2> USE DEF IInv
  <2>1. ASSUME NEW d \in Nearby, NEW g \in BOOLEAN, NEW v \in Volts,
               Update(d, g, v)
        PROVE  \/ relay_active' \/ depth' <= DeepM
               \/ state' = CONFIG /\ boots' = boots /\ LightCounts
    <3>1. d \in Nat
      BY DEF Nearby
    <3>2. CASE LightTick(d, g, v)
      BY <3>2, LightTickCounts
    <3>3. CASE Deadman(d, g, v)
      BY <3>3 DEF Deadman, EnterAscent, ActivateRelay
    <3>4. CASE SurfaceByGps(d, g, v)
      BY <3>4 DEF SurfaceByGps, Reacquired, Senses
    <3>5. CASE GpsHeal(d, g, v)
      BY <3>1, <3>5 DEF GpsHeal, HealReboots
    <3>6. CASE PreArm(d, g, v) \/ ConfigTick(d, g, v)
      BY <3>1, <3>6 DEF PreArm, ConfigTick, Sunk, DeadmanReady, Senses
    <3> QED
      BY <2>1, <3>2, <3>3, <3>4, <3>5, <3>6
         DEF Update, RecoveryTick, CancelTick, Cancelled, Mission, Failsafe,
         Guarded, ArmTick, GateTick, DescentTick, BottomTick, Stuck, Surface,
         Rise, AscentTick, Guarding, Reaches
  <2>2. Environment => boots' > boots \/ UNCHANGED <<state, depth, lgt_age>>
    BY EnvironmentWaits DEF ages, script
  <2> QED BY <2>1, <2>2 DEF Next, Tick
<1> QED BY <1>1, Invariant, PTL DEF Spec, SunkCounts

\* The first leak: every tick of a guarded phase ends it, or is one of the at most
\* TestTicks of a light test; only the leak's own end stops that.
THEOREM LeakWaitsForLight == Spec => LeakCounts
<1> DEFINE Runs == Leaking =>
                      /\ Tick => state' \notin Guarded \/ (Leaking' /\ LightCounts)
                      /\ ~Tick => \/ state' \notin Guarded \/ ~INJ_LEAK'
                                  \/ Leaking' /\ UNCHANGED lgt_age
<1>1. TypeOK /\ [Next]_vars => [Runs]_vars
  <2> SUFFICES ASSUME TypeOK, Next, Leaking
               PROVE  Runs
    OBVIOUS
  <2>1. ASSUME NEW d \in Nearby, NEW g \in BOOLEAN, NEW v \in Volts,
               Update(d, g, v)
        PROVE  state' \notin Guarded \/ (Leaking' /\ LightCounts)
    <3>1. CASE LightTick(d, g, v)
      BY <3>1, LightTickCounts DEF LightTick, Leaking
    <3>2. FailsafeFires(d, v)
      BY DEF FailsafeFires, LeakFires, Leaking
    <3>3. CASE SurfaceByGps(d, g, v) \/ CancelTick(d, g, v) \/ Failsafe(d, g, v)
      BY <3>3 DEF SurfaceByGps, CancelTick, Failsafe, EnterAscent, Guarded
    <3>4. ~(\/ ArmTick(d, g, v) \/ GateTick(d, g, v)
            \/ DescentTick(d, g, v) \/ BottomTick(d, g, v))
      BY <3>2 DEF ArmTick, GateTick, DescentTick, BottomTick
    <3>5. ~(\/ RecoveryTick(d, v) \/ GpsHeal(d, g, v) \/ Deadman(d, g, v)
            \/ PreArm(d, g, v) \/ ConfigTick(d, g, v) \/ Stuck(d, g, v)
            \/ Surface(d, g, v) \/ Rise(d, g, v))
      BY DEF RecoveryTick, GpsHeal, Deadman, PreArm, ConfigTick, Stuck, Surface,
         Rise, AscentTick, Reaches, Guarded, Leaking
    <3> QED BY <2>1, <3>1, <3>3, <3>4, <3>5 DEF Update
  <2>2. Environment => \/ state' \notin Guarded \/ ~INJ_LEAK'
                       \/ Leaking' /\ UNCHANGED lgt_age
    <3>1. INJ_LEAK' \in BOOLEAN
      BY NextTypeOK DEF TypeOK, FlagsOK
    <3> QED BY <3>1, EnvironmentWaits DEF ages, script, Guarded, Leaking
  <2> QED BY <2>1, <2>2 DEF Next, Tick
<1> QED BY <1>1, TypeCorrect, PTL DEF Spec, LeakCounts

=============================================================================
