---------------------------- MODULE RecorderProofs ----------------------------
(***************************************************************************)
(* The recorder for any set of callers and any bounds: types, who may      *)
(* write, and how files are named and labelled.                            *)
(***************************************************************************)
EXTENDS Recorder, TLAPS

USE CallerAssumption, BoundAssumption DEF CallerAssumption, BoundAssumption

-----------------------------------------------------------------------------
(***************************************************************************)
(* Types                                                                   *)
(***************************************************************************)

LEMMA RequestTypes ==
    ASSUME TypeOK, Request
    PROVE  TypeOK'
<1> USE DEF TypeOK, Sessions, Pipes, Places, None, calls, history, session, dive
<1>1. ASSUME NEW p \in 1 .. Phases, StartRecording(p)
      PROVE  TypeOK'
  <2>1. base_stamp' \in Nat /\ stamps' \in Nat /\ cycle_seq' \in Nat
    BY <1>1 DEF StartRecording, EnsureStamp, Stamp, NextCycle
  <2>2. sess' \in Sessions
    BY <1>1 DEF StartRecording, Stamp, NextCycle, FirstPart
  <2>3. sess'.pending = None /\ pipe' = "new"
    BY <1>1 DEF StartRecording
  <2> QED BY <1>1, <2>1, <2>2, <2>3 DEF StartRecording
<1>2. ASSUME NEW p \in 1 .. Phases, RotateToPhase(p)
      PROVE  TypeOK'
  BY <1>2 DEF RotateToPhase, Relabel
<1>3. CASE TakePhaseSnapshot
  BY <1>3 DEF TakePhaseSnapshot, EnsureStamp, Stamp
<1>4. CASE StartDive
  BY <1>4 DEF StartDive, Clear, ClearState
<1> QED BY <1>1, <1>2, <1>3, <1>4 DEF Request

LEMMA WatchdogTypes ==
    ASSUME TypeOK, Watchdog
    PROVE  TypeOK'
<1> USE DEF TypeOK, Pipes, None, calls, history, session, dive
<1>1. ASSUME NEW ok \in BOOLEAN, RunOne(ok)
      PROVE  TypeOK'
  <2>1. sess' \in Sessions /\ sess'.pending = None
    <3> DEFINE ph == IF sess.pending = None THEN sess.phase ELSE sess.pending
    <3>1. NextPart \in Nat /\ ph \in 1 .. Phases
      BY DEF NextPart, Sessions
    <3>2. sess' = [stamp |-> sess.stamp, cyc |-> sess.cyc, part |-> NextPart,
                   phase |-> ph, pending |-> 0,
                   start |-> sess.start, epoch |-> sess.epoch]
      BY <1>1 DEF RunOne, Applied, Sessions
    <3>3. sess.stamp \in Nat /\ sess.cyc \in Nat /\ sess.start \in Nat
          /\ sess.epoch \in Nat /\ 0 \in 0 .. Phases
      BY DEF Sessions
    <3> HIDE DEF ph, TypeOK
    <3> QED BY <3>1, <3>2, <3>3 DEF Sessions
  <2>2. pipe' \in Pipes /\ frag' \in Nat
    BY <1>1 DEF RunOne, RunGoes
  <2>3. UNCHANGED <<dive, held, user_stop, calls, history>>
    BY <1>1 DEF RunOne
  <2> QED BY <2>1, <2>2, <2>3
<1>2. CASE OpenFragment
  <2>1. [stamp |-> sess.stamp, cyc |-> sess.cyc, part |-> sess.part,
         frag |-> frag, start |-> sess.start, epoch |-> sess.epoch] \in Files
    BY DEF Sessions, Files
  <2> QED BY <1>2, <2>1 DEF OpenFragment
<1>3. CASE PipelineExit
  BY <1>3 DEF PipelineExit
<1>4. CASE WatchdogExit
  BY <1>4 DEF WatchdogExit
<1> QED BY <1>1, <1>2, <1>3, <1>4 DEF Watchdog

\* Callers that are not at the flush do not hold the lock.
LEMMA StopTypes ==
    ASSUME TypeOK, NEW c \in Callers, StopStep(c)
    PROVE  TypeOK'
<1> USE DEF TypeOK, Places, Pipes, Jobs, None, history, session, dive, Move
<1>1. CASE Call(c)
  BY <1>1 DEF Call
<1>2. CASE Sampled(c)
  BY <1>2 DEF Sampled
<1>3. CASE StopRecording(c)
  <2>1. CASE IsRecording
    <3>1. \A d \in Callers : at[d] # "flush"
      BY <1>3 DEF StopRecording
    <3>2. at' = [at EXCEPT ![c] = "flush"] /\ lock' = c
      BY <1>3, <2>1 DEF StopRecording
    <3>3. \A d \in Callers : at'[d] = "flush" <=> lock' = d
      BY <3>1, <3>2
    <3> QED BY <1>3, <2>1, <3>2, <3>3 DEF StopRecording, ForgetHeld
  <2>2. CASE ~IsRecording
    BY <1>3, <2>2 DEF StopRecording, ForgetHeld, AfterStop
  <2> QED BY <2>1, <2>2
<1>4. CASE Stopped(c)
  <2>1. part_offset' \in Nat
    BY <1>4 DEF Stopped, OffsetPast, Sessions
  <2> QED BY <1>4, <2>1 DEF Stopped, AfterStop
<1>5. CASE StopTimedOut(c)
  BY <1>5 DEF StopTimedOut
<1>6. CASE Proceed(c)
  BY <1>6 DEF Proceed
<1>7. CASE Finalized(c)
  BY <1>7 DEF Finalized, Clear, ClearState
<1> QED BY <1>1, <1>2, <1>3, <1>4, <1>5, <1>6, <1>7 DEF StopStep

LEMMA RestartTypes ==
    ASSUME TypeOK, Restart
    PROVE  TypeOK'
<1> USE DEF TypeOK, Pipes, Places, None, history
<1>1. sess' \in Sessions /\ sess'.pending = None
  BY DEF Restart, Sessions
<1>2. at' \in [Callers -> Places] /\ lock' = NoCaller
      /\ \A c \in Callers : at'[c] = "idle"
  BY DEF Restart
<1>3. held' \in BOOLEAN /\ user_stop' \in BOOLEAN /\ pipe' = "none"
      /\ frag' \in Nat /\ UNCHANGED <<timeouts, files, wanted, starts>>
  BY DEF Restart
<1>4. base_stamp' \in Nat /\ part_offset' \in Nat /\ cycle_seq' \in Nat
      /\ stamps' \in Nat /\ epoch' \in Nat
  BY DEF Restart, Clear, ClearState
<1> HIDE DEF Places
<1> QED BY <1>1, <1>2, <1>3, <1>4

LEMMA InitTypes == Init => TypeOK
<1> SUFFICES ASSUME Init PROVE TypeOK
  OBVIOUS
<1>1. sess \in Sessions /\ sess.pending = None
  BY DEF Init, Sessions, None
<1>2. at \in [Callers -> Places] /\ lock = NoCaller
      /\ \A c \in Callers : at[c] = "idle"
  BY DEF Init, Places
<1>3. files \subseteq Files /\ wanted \in 1 .. Phases /\ pipe \in Pipes
  BY DEF Init, Pipes
<1> QED BY <1>1, <1>2, <1>3 DEF Init, TypeOK, None

LEMMA StepTypes == TypeOK /\ [Next]_vars => TypeOK'
<1> SUFFICES ASSUME TypeOK, [Next]_vars
             PROVE  TypeOK'
  OBVIOUS
<1>1. CASE UNCHANGED vars
  BY <1>1 DEF TypeOK, vars, dive, session, calls, history
<1> QED
  BY <1>1, RequestTypes, WatchdogTypes, StopTypes, RestartTypes DEF Next

\* In every state the variables have their types, the lock belongs to the
\* caller that flushes, and no phase is queued beside a pipeline.
THEOREM RecorderTypes == Spec => []TypeOK
  BY InitTypes, StepTypes, PTL DEF Spec

-----------------------------------------------------------------------------
(***************************************************************************)
(* The inductive invariant                                                 *)
(***************************************************************************)

\* Who may still be writing: the session on offer, or the one a stop flushes.
Lifecycle ==
    /\ HeldMeansRecording
    /\ lock # NoCaller => ~held /\ user_stop
    /\ Alive /\ ~held => lock # NoCaller
    /\ Alive => sess.start > 0

\* Where a file stands in the order of stamps, cycles, parts and fragments:
\* against the dive that is on ...
Known(f) ==
    /\ f.stamp \in 1 .. stamps
    /\ f.epoch = epoch <=> base_stamp # None /\ f.stamp = base_stamp
    /\ f.epoch <= epoch
    /\ f.stamp = base_stamp => f.cyc <= cycle_seq

\* ... and against the files the newest session has still to open.
Earlier(f) ==
    /\ f.epoch = sess.epoch <=> f.stamp = sess.stamp
    /\ f.stamp = sess.stamp /\ f.cyc = sess.cyc =>
         /\ f.start = sess.start
         /\ pipe # "new"
         /\ f.part <= sess.part
         /\ pipe = "up" => f.part < sess.part \/ f.frag < frag

Numbered ==
    /\ base_stamp <= stamps
    /\ sess.start > 0 =>
         /\ Known(sess)
         /\ \A f \in files : Earlier(f)
    /\ \A f \in files : Known(f)
    /\ files # {} => sess.start > 0
    /\ OneStartPerCycle /\ OneStampPerDive

\* The parts of a dive's files, while no stop has run out of time.
Parted ==
    /\ \A f \in files : f.stamp = base_stamp => f.stamp = sess.stamp
    /\ timeouts = 0 =>
         \A f \in files :
            /\ f.stamp = sess.stamp => f.part <= sess.part
            /\ ~held /\ lock = NoCaller /\ f.stamp = base_stamp
                 => f.part < part_offset

\* What the next file will be labelled.
Labelled ==
    Alive => wanted = IF sess.pending = None THEN sess.phase ELSE sess.pending

IInv == TypeOK /\ Lifecycle /\ Numbered /\ Parted /\ Labelled

LEMMA InitHolds == Init => IInv
<1> SUFFICES ASSUME Init PROVE IInv
  OBVIOUS
<1>1. TypeOK
  BY InitTypes
<1>2. Lifecycle /\ Labelled
  BY DEF Init, Lifecycle, Labelled, HeldMeansRecording, Alive
<1>3. Numbered /\ Parted
  BY DEF Init, Numbered, Parted, OneStartPerCycle, OneStampPerDive, None
<1> QED BY <1>1, <1>2, <1>3 DEF IInv

LEMMA LifecycleKept == IInv /\ [Next]_vars => Lifecycle'
<1> SUFFICES ASSUME TypeOK, Lifecycle, [Next]_vars
             PROVE  Lifecycle'
  BY DEF IInv
<1> USE DEF Lifecycle, HeldMeansRecording, Alive
<1>1. ASSUME NEW p \in 1 .. Phases, StartRecording(p)
      PROVE  Lifecycle'
  <2>1. starts \in Nat /\ sess'.start = starts + 1
    BY <1>1 DEF StartRecording, TypeOK
  <2> QED BY <1>1, <2>1 DEF StartRecording, IsRecording, calls
<1>2. ASSUME NEW p \in 1 .. Phases, RotateToPhase(p)
      PROVE  Lifecycle'
  <2>1. sess'.start = sess.start
    BY <1>2 DEF RotateToPhase, Relabel, TypeOK, Sessions
  <2> QED BY <1>2, <2>1 DEF RotateToPhase, calls
<1>3. CASE TakePhaseSnapshot
  BY <1>3 DEF TakePhaseSnapshot, session, calls
<1>4. CASE StartDive
  BY <1>4 DEF StartDive, session, calls
<1>5. ASSUME NEW ok \in BOOLEAN, RunOne(ok)
      PROVE  Lifecycle'
  <2>1. sess'.start = sess.start
    BY <1>5 DEF RunOne, Applied, TypeOK, Sessions
  <2> QED BY <1>5, <2>1 DEF RunOne, RunGoes, calls
<1>6. CASE OpenFragment
  BY <1>6 DEF OpenFragment, calls
<1>7. CASE PipelineExit \/ WatchdogExit
  BY <1>7 DEF PipelineExit, WatchdogExit, calls
<1>8. ASSUME NEW c \in Callers, StopStep(c)
      PROVE  Lifecycle'
  <2>1. CASE Call(c) \/ Sampled(c) \/ Proceed(c) \/ Finalized(c)
    BY <2>1 DEF Call, Sampled, Proceed, Finalized, session
  <2>2. CASE StopRecording(c)
    BY <2>2 DEF StopRecording, ForgetHeld, IsRecording
  <2>3. CASE Stopped(c) \/ StopTimedOut(c)
    BY <2>3 DEF Stopped, StopTimedOut, session
  <2> QED BY <1>8, <2>1, <2>2, <2>3 DEF StopStep
<1>9. CASE Restart
  BY <1>9 DEF Restart
<1>10. CASE UNCHANGED vars
  BY <1>10 DEF vars, session, calls
<1> QED
  BY <1>1, <1>2, <1>3, <1>4, <1>5, <1>6, <1>7, <1>8, <1>9, <1>10
  DEF Next, Request, Watchdog

LEMMA LabelledKept == IInv /\ [Next]_vars => Labelled'
<1> SUFFICES ASSUME TypeOK, Labelled, [Next]_vars
             PROVE  Labelled'
  BY DEF IInv
<1> USE DEF Labelled, Alive
<1>1. ASSUME NEW p \in 1 .. Phases, StartRecording(p)
      PROVE  Labelled'
  BY <1>1 DEF StartRecording
<1>2. ASSUME NEW p \in 1 .. Phases, RotateToPhase(p)
      PROVE  Labelled'
  BY <1>2 DEF RotateToPhase, Relabel, TypeOK, Sessions, None
<1>3. CASE TakePhaseSnapshot
  BY <1>3 DEF TakePhaseSnapshot, session, history
<1>4. CASE StartDive
  BY <1>4 DEF StartDive, session, history
<1>5. ASSUME NEW ok \in BOOLEAN, RunOne(ok)
      PROVE  Labelled'
  BY <1>5 DEF RunOne, Applied, TypeOK, Sessions, history
<1>6. CASE OpenFragment
  BY <1>6 DEF OpenFragment
<1>7. CASE PipelineExit \/ WatchdogExit
  BY <1>7 DEF PipelineExit, WatchdogExit, history
<1>8. ASSUME NEW c \in Callers, StopStep(c)
      PROVE  Labelled'
  BY <1>8 DEF StopStep, Call, Sampled, StopRecording, Stopped, StopTimedOut,
              Proceed, Finalized, session, history
<1>9. CASE Restart
  BY <1>9 DEF Restart
<1>10. CASE UNCHANGED vars
  BY <1>10 DEF vars, session, history
<1> QED
  BY <1>1, <1>2, <1>3, <1>4, <1>5, <1>6, <1>7, <1>8, <1>9, <1>10
  DEF Next, Request, Watchdog

\* What changes neither the dive, nor the session, nor the files.
LEMMA NumberedStays ==
    ASSUME Numbered, UNCHANGED <<dive, session, files>>
    PROVE  Numbered'
  BY DEF Numbered, Known, Earlier, OneStartPerCycle, OneStampPerDive, dive, session

\* A reset leaves every file to an older dive.
LEMMA NumberedCleared ==
    ASSUME TypeOK, Numbered, Clear, UNCHANGED <<sess, pipe, frag, files>>
    PROVE  Numbered'
<1> USE DEF TypeOK, Sessions, Files, None
<1>1. base_stamp' = 0 /\ epoch' = epoch + 1 /\ stamps' = stamps
  BY DEF Clear, ClearState
<1>2. \A f \in files : Known(f)'
  BY <1>1 DEF Numbered, Known
<1>3. sess.start > 0 => Known(sess)'
  BY <1>1 DEF Numbered, Known
<1>4. \A f \in files : Earlier(f)' <=> Earlier(f)
  BY DEF Earlier
<1>5. base_stamp' <= stamps'
  BY <1>1
<1> QED BY <1>2, <1>3, <1>4, <1>5 DEF Numbered, OneStartPerCycle, OneStampPerDive

LEMMA NumberedStart ==
    ASSUME TypeOK, Lifecycle, Numbered, NEW p \in 1 .. Phases, StartRecording(p)
    PROVE  Numbered'
<1> USE DEF TypeOK, Sessions, Files, None
<1>1. /\ sess'.stamp = Stamp /\ sess'.cyc = cycle_seq + 1
      /\ sess'.start = starts + 1 /\ sess'.epoch = epoch
      /\ base_stamp' = Stamp /\ cycle_seq' = cycle_seq + 1 /\ epoch' = epoch
      /\ pipe' = "new" /\ frag' = 0 /\ UNCHANGED files
  BY DEF StartRecording, EnsureStamp, NextCycle
<1>2. /\ stamps' \in Nat /\ stamps <= stamps'
      /\ Stamp \in 1 .. stamps'
      /\ base_stamp # 0 => Stamp = base_stamp
      /\ base_stamp = 0 => Stamp = stamps + 1
  BY DEF StartRecording, EnsureStamp, Stamp, Numbered
<1>3. ASSUME NEW f \in files
      PROVE  Known(f)' /\ (f.epoch = epoch <=> f.stamp = Stamp)
             /\ (f.stamp = Stamp => f.cyc <= cycle_seq)
  <2>1. f.stamp \in Nat /\ f.cyc \in Nat /\ f.epoch \in Nat
    BY DEF Files
  <2>2. Known(f)
    BY DEF Numbered
  <2> QED BY <1>1, <1>2, <2>1, <2>2 DEF Known
<1>4. ASSUME NEW f \in files
      PROVE  Earlier(f)'
  <2>1. f.stamp \in Nat /\ f.cyc \in Nat
    BY DEF Files
  <2> QED BY <1>1, <1>3, <2>1 DEF Earlier
<1>5. Known(sess)'
  BY <1>1, <1>2 DEF Known
<1>6. base_stamp' <= stamps' /\ sess'.start > 0
  BY <1>1, <1>2
<1> QED
  BY <1>1, <1>3, <1>4, <1>5, <1>6
  DEF Numbered, OneStartPerCycle, OneStampPerDive

LEMMA NumberedSnapshot ==
    ASSUME TypeOK, Numbered, TakePhaseSnapshot
    PROVE  Numbered'
<1> USE DEF TypeOK, Sessions, Files, None
<1>1. base_stamp <= stamps
  BY DEF Numbered
<1>2. /\ base_stamp' = Stamp
      /\ stamps' = IF base_stamp = 0 THEN stamps + 1 ELSE stamps
      /\ UNCHANGED <<cycle_seq, epoch, sess, pipe, frag, files>>
  BY DEF TakePhaseSnapshot, EnsureStamp, session, history
<1>3. /\ Stamp \in Nat /\ Stamp # 0
      /\ stamps' \in Nat /\ stamps <= stamps' /\ Stamp <= stamps'
      /\ base_stamp # 0 => Stamp = base_stamp
      /\ base_stamp = 0 => Stamp = stamps + 1
  BY <1>1, <1>2 DEF Stamp
<1>4. ASSUME NEW f \in files
      PROVE  Known(f)'
  <2>1. f.stamp \in Nat /\ f.cyc \in Nat /\ f.epoch \in Nat
    BY DEF Files
  <2>2. Known(f)
    BY DEF Numbered
  <2> QED BY <1>2, <1>3, <2>1, <2>2 DEF Known
<1>5. ASSUME sess.start > 0
      PROVE  Known(sess)'
  <2>1. Known(sess)
    BY <1>5 DEF Numbered
  <2> QED BY <1>2, <1>3, <2>1 DEF Known
<1>6. \A f \in files : Earlier(f)' <=> Earlier(f)
  BY <1>2 DEF Earlier
<1> QED
  BY <1>2, <1>3, <1>4, <1>5, <1>6
  DEF Numbered, OneStartPerCycle, OneStampPerDive

\* A request to rotate changes labels only.
LEMMA NumberedRotate ==
    ASSUME TypeOK, Numbered, NEW p \in 1 .. Phases, RotateToPhase(p)
    PROVE  Numbered'
<1> USE DEF TypeOK, Sessions
<1>1. /\ sess'.stamp = sess.stamp /\ sess'.cyc = sess.cyc
      /\ sess'.part = sess.part /\ sess'.start = sess.start
      /\ sess'.epoch = sess.epoch
  BY DEF RotateToPhase, Relabel
<1>2. UNCHANGED <<base_stamp, cycle_seq, stamps, epoch, pipe, frag, files>>
  BY DEF RotateToPhase, dive
<1>3. Known(sess)' <=> Known(sess)
  BY <1>1, <1>2 DEF Known
<1>4. \A f \in files : (Known(f)' <=> Known(f)) /\ (Earlier(f)' <=> Earlier(f))
  BY <1>1, <1>2 DEF Known, Earlier
<1> QED
  BY <1>1, <1>2, <1>3, <1>4 DEF Numbered, OneStartPerCycle, OneStampPerDive

\* A restart of the pipeline takes a part past those of its files.
LEMMA NumberedRun ==
    ASSUME TypeOK, Numbered, NEW ok \in BOOLEAN, RunOne(ok)
    PROVE  Numbered'
<1> USE DEF TypeOK, Sessions
<1>1. /\ sess'.stamp = sess.stamp /\ sess'.cyc = sess.cyc
      /\ sess'.part = NextPart /\ sess'.start = sess.start
      /\ sess'.epoch = sess.epoch
  BY DEF RunOne, Applied
<1>2. /\ UNCHANGED <<base_stamp, cycle_seq, stamps, epoch, files>>
      /\ pipe \in {"new", "down"} /\ pipe' \in {"up", "down"}
  BY DEF RunOne, RunGoes, dive, history
<1>3. Known(sess)' <=> Known(sess)
  BY <1>1, <1>2 DEF Known
<1>4. ASSUME NEW f \in files
      PROVE  (Known(f)' <=> Known(f)) /\ (Earlier(f) => Earlier(f)')
  <2>1. f.part \in Nat
    BY DEF Files
  <2>2. Known(f)' <=> Known(f)
    BY <1>2 DEF Known
  <2>3. Earlier(f) => Earlier(f)'
    BY <1>1, <1>2, <2>1 DEF Earlier, NextPart
  <2> QED BY <2>2, <2>3
<1> QED
  BY <1>1, <1>2, <1>3, <1>4 DEF Numbered, OneStartPerCycle, OneStampPerDive

LEMMA NumberedOpen ==
    ASSUME TypeOK, Lifecycle, Numbered, OpenFragment
    PROVE  Numbered'
<1> USE DEF TypeOK, Sessions
<1>0. PICK new :
         new = [stamp |-> sess.stamp, cyc |-> sess.cyc, part |-> sess.part,
                frag |-> frag, start |-> sess.start, epoch |-> sess.epoch]
  OBVIOUS
<1>1. /\ files' = files \cup {new} /\ frag' = frag + 1
      /\ pipe = "up" /\ pipe' = "up" /\ sess.start > 0
      /\ UNCHANGED <<sess, base_stamp, cycle_seq, stamps, epoch>>
  BY <1>0 DEF OpenFragment, dive, Lifecycle, Alive
<1>2. Known(sess) /\ Known(sess)'
  BY <1>1 DEF Numbered, Known
<1>3. Known(new)' /\ Earlier(new)'
  <2>1. new.stamp = sess.stamp /\ new.epoch = sess.epoch /\ new.cyc = sess.cyc
        /\ new.start = sess.start /\ new.part = sess.part /\ new.frag = frag
    BY <1>0
  <2>2. frag < frag' /\ sess.part <= sess'.part
    BY <1>1
  <2>3. Known(new)'
    BY <1>1, <1>2, <2>1 DEF Known
  <2>4. Earlier(new)'
    BY <1>1, <2>1, <2>2 DEF Earlier
  <2> QED BY <2>3, <2>4
<1>4. ASSUME NEW f \in files
      PROVE  Known(f)' /\ Earlier(f) /\ Earlier(f)'
  <2>1. f.part \in Nat /\ f.frag \in Nat
    BY DEF Files
  <2>2. Known(f) /\ Earlier(f)
    BY <1>1 DEF Numbered
  <2>3. Known(f)'
    BY <1>1, <2>2 DEF Known
  <2>4. Earlier(f)'
    BY <1>1, <2>1, <2>2 DEF Earlier
  <2> QED BY <2>2, <2>3, <2>4
<1>5. \A f \in files : f.stamp = new.stamp /\ f.cyc = new.cyc
                            => f.start = new.start
  BY <1>0, <1>4 DEF Earlier
<1>6. \A f \in files : f.epoch = new.epoch <=> f.stamp = new.stamp
  BY <1>0, <1>4 DEF Earlier
<1>7. new \in files'
  BY <1>1
<1>8. OneStartPerCycle'
  BY <1>1, <1>5 DEF Numbered, OneStartPerCycle
<1>9. OneStampPerDive'
  BY <1>1, <1>6 DEF Numbered, OneStampPerDive
<1>10. \A f \in files' : Known(f)' /\ Earlier(f)'
  BY <1>1, <1>3, <1>4
<1>11. base_stamp' <= stamps' /\ sess'.start > 0
  BY <1>1 DEF Numbered
<1> QED BY <1>2, <1>8, <1>9, <1>10, <1>11 DEF Numbered

\* An exit leaves the parts, and there is nothing left to open.
LEMMA NumberedExit ==
    ASSUME TypeOK, Numbered, UNCHANGED <<dive, sess, files>>,
           pipe' \in {"none", "down"}
    PROVE  Numbered'
<1>1. \A f \in files : Earlier(f) => Earlier(f)'
  BY DEF Earlier
<1>2. \A f \in files : Known(f)' <=> Known(f)
  BY DEF Known, dive
<1>3. Known(sess)' <=> Known(sess)
  BY DEF Known, dive
<1> QED
  BY <1>1, <1>2, <1>3 DEF Numbered, OneStartPerCycle, OneStampPerDive, dive

LEMMA NumberedKept == IInv /\ [Next]_vars => Numbered'
<1> SUFFICES ASSUME TypeOK, Lifecycle, Numbered, [Next]_vars
             PROVE  Numbered'
  BY DEF IInv
<1>1. ASSUME NEW p \in 1 .. Phases, StartRecording(p) \/ RotateToPhase(p)
      PROVE  Numbered'
  BY <1>1, NumberedStart, NumberedRotate
<1>2. CASE TakePhaseSnapshot
  BY <1>2, NumberedSnapshot
<1>3. CASE StartDive
  BY <1>3, NumberedCleared DEF StartDive, session, history
<1>4. ASSUME NEW ok \in BOOLEAN, RunOne(ok)
      PROVE  Numbered'
  BY <1>4, NumberedRun
<1>5. CASE OpenFragment
  BY <1>5, NumberedOpen
<1>6. CASE PipelineExit \/ WatchdogExit
  BY <1>6, NumberedExit DEF PipelineExit, WatchdogExit, history
<1>7. ASSUME NEW c \in Callers, StopStep(c)
      PROVE  Numbered'
  <2>1. CASE Call(c) \/ Sampled(c) \/ Proceed(c)
    BY <2>1, NumberedStays DEF Call, Sampled, Proceed, history
  <2>2. CASE StopRecording(c) \/ Stopped(c)
    <3>1. UNCHANGED <<base_stamp, cycle_seq, stamps, epoch, sess, pipe, frag, files>>
      BY <2>2 DEF StopRecording, Stopped, dive, session, history
    <3> QED
      BY <3>1 DEF Numbered, Known, Earlier, OneStartPerCycle, OneStampPerDive
  <2>3. CASE StopTimedOut(c)
    BY <2>3, NumberedExit DEF StopTimedOut, history
  <2>4. CASE Finalized(c)
    BY <2>4, NumberedStays, NumberedCleared DEF Finalized, session, history
  <2> QED BY <1>7, <2>1, <2>2, <2>3, <2>4 DEF StopStep
<1>8. CASE Restart
  <2>1. /\ base_stamp' = 0 /\ epoch' = epoch + 1 /\ stamps' = stamps
        /\ pipe' = "none" /\ UNCHANGED files
        /\ sess'.stamp = sess.stamp /\ sess'.cyc = sess.cyc
        /\ sess'.part = sess.part /\ sess'.start = sess.start
        /\ sess'.epoch = sess.epoch
    BY <1>8 DEF Restart, Clear, ClearState, None, TypeOK, Sessions, history
  <2>2. \A f \in files : Known(f)' /\ (Earlier(f) => Earlier(f)')
    BY <2>1 DEF Numbered, Known, Earlier, TypeOK, Files, None
  <2>3. sess.start > 0 => Known(sess)'
    BY <2>1 DEF Numbered, Known, TypeOK, Sessions, None
  <2>4. base_stamp' <= stamps'
    BY <2>1 DEF TypeOK
  <2> QED
    BY <2>1, <2>2, <2>3, <2>4 DEF Numbered, OneStartPerCycle, OneStampPerDive
<1>9. CASE UNCHANGED vars
  BY <1>9, NumberedStays DEF vars, history
<1> QED
  BY <1>1, <1>2, <1>3, <1>4, <1>5, <1>6, <1>7, <1>8, <1>9
  DEF Next, Request, Watchdog

LEMMA PartedKept == IInv /\ [Next]_vars => Parted'
<1> SUFFICES ASSUME TypeOK, Lifecycle, Numbered, Parted, [Next]_vars
             PROVE  Parted'
  BY DEF IInv
<1> USE DEF Parted
<1>1. ASSUME NEW f \in files
      PROVE  f.stamp \in 1 .. stamps /\ f.part \in Nat
  BY DEF Numbered, Known, TypeOK, Files
<1>2. part_offset \in Nat /\ sess.part \in Nat /\ stamps \in Nat
      /\ base_stamp \in Nat /\ timeouts \in Nat
  BY DEF TypeOK, Sessions
<1>3. ASSUME NEW p \in 1 .. Phases, StartRecording(p)
      PROVE  Parted'
  <2>1. sess'.stamp = Stamp /\ sess'.part = part_offset /\ base_stamp' = Stamp
        /\ held' /\ lock = NoCaller /\ ~held
        /\ UNCHANGED <<files, timeouts>>
    BY <1>3 DEF StartRecording, EnsureStamp, FirstPart, IsRecording, Lifecycle,
                HeldMeansRecording, calls
  <2>2. \A f \in files : f.stamp = Stamp => f.stamp = base_stamp
    BY <1>1, <1>2 DEF Stamp, None
  <2> QED BY <1>1, <1>2, <2>1, <2>2
<1>4. ASSUME NEW p \in 1 .. Phases, RotateToPhase(p)
      PROVE  Parted'
  <2>1. sess'.stamp = sess.stamp /\ sess'.part = sess.part
    BY <1>4 DEF RotateToPhase, Relabel, TypeOK, Sessions
  <2> QED BY <1>4, <2>1 DEF RotateToPhase, dive, calls
<1>5. CASE TakePhaseSnapshot
  <2>1. base_stamp' = Stamp /\ UNCHANGED <<part_offset, sess, held, lock, timeouts, files>>
    BY <1>5 DEF TakePhaseSnapshot, EnsureStamp, session, calls, history
  <2>2. \A f \in files : f.stamp = Stamp => f.stamp = base_stamp
    BY <1>1, <1>2 DEF Stamp, None
  <2> QED BY <2>1, <2>2
<1>6. ASSUME Clear, UNCHANGED <<sess, held, lock, timeouts, files>>
      PROVE  Parted'
  BY <1>1, <1>6 DEF Clear, ClearState, None
<1>7. ASSUME NEW ok \in BOOLEAN, RunOne(ok)
      PROVE  Parted'
  <2>1. sess'.stamp = sess.stamp /\ sess.part <= sess'.part /\ sess'.part \in Nat
    BY <1>2, <1>7 DEF RunOne, Applied, NextPart, TypeOK, Sessions
  <2>2. UNCHANGED <<base_stamp, part_offset, held, lock, timeouts, files>>
    BY <1>7 DEF RunOne, dive, calls, history
  <2> QED BY <1>1, <1>2, <2>1, <2>2
<1>8. CASE OpenFragment
  <2>0. PICK new :
           new = [stamp |-> sess.stamp, cyc |-> sess.cyc, part |-> sess.part,
                  frag |-> frag, start |-> sess.start, epoch |-> sess.epoch]
    OBVIOUS
  <2>1. files' = files \cup {new} /\ new.stamp = sess.stamp
        /\ new.part = sess.part
    BY <1>8, <2>0 DEF OpenFragment
  <2>2. ~held => lock # NoCaller
    BY <1>8 DEF OpenFragment, Lifecycle, Alive
  <2>3. UNCHANGED <<base_stamp, part_offset, sess, held, lock, timeouts>>
    BY <1>8 DEF OpenFragment, dive, calls
  <2> QED BY <1>2, <2>1, <2>2, <2>3
<1>9. CASE PipelineExit \/ WatchdogExit
  BY <1>9 DEF PipelineExit, WatchdogExit, dive, calls, history
<1>10. ASSUME NEW c \in Callers, StopStep(c)
       PROVE  Parted'
  <2>1. CASE Call(c) \/ Sampled(c) \/ Proceed(c)
    BY <2>1 DEF Call, Sampled, Proceed, dive, session, history
  <2>2. CASE StopRecording(c)
    <3>1. c # NoCaller
      OBVIOUS
    <3>2. ~held' /\ (held => lock' # NoCaller) /\ lock = NoCaller
          /\ UNCHANGED <<base_stamp, part_offset, sess, timeouts, files>>
      BY <2>2, <3>1 DEF StopRecording, ForgetHeld, IsRecording, Lifecycle,
                        HeldMeansRecording, dive, history
    <3> QED BY <3>2
  <2>3. CASE Stopped(c)
    BY <1>1, <1>2, <2>3 DEF Stopped, OffsetPast, session, history
  <2>4. CASE StopTimedOut(c)
    BY <1>2, <2>4 DEF StopTimedOut, dive, history
  <2>5. CASE Finalized(c)
    BY <1>6, <2>5 DEF Finalized, dive, session, history
  <2> QED BY <1>10, <2>1, <2>2, <2>3, <2>4, <2>5 DEF StopStep
<1>11. CASE Restart
  <2>1. base_stamp' = 0 /\ sess'.stamp = sess.stamp /\ sess'.part = sess.part
        /\ UNCHANGED <<timeouts, files>>
    BY <1>11 DEF Restart, Clear, ClearState, None, TypeOK, Sessions, history
  <2> QED BY <1>1, <2>1
<1>12. CASE UNCHANGED vars
  BY <1>12 DEF vars, dive, session, calls, history
<1>13. CASE StartDive
  BY <1>6, <1>13 DEF StartDive, session, calls, history
<1> QED
  BY <1>3, <1>4, <1>5, <1>7, <1>8, <1>9, <1>10, <1>11, <1>12, <1>13
  DEF Next, Request, Watchdog

-----------------------------------------------------------------------------
(***************************************************************************)
(* What follows from the invariant                                         *)
(***************************************************************************)

\* In every state the recorder's records agree with the files: each file is
\* older than what the session will open, and the next label is the last
\* phase granted.
THEOREM RecorderInvariant == Spec => []IInv
<1>1. IInv /\ [Next]_vars => IInv'
  BY StepTypes, LifecycleKept, NumberedKept, PartedKept, LabelledKept DEF IInv
<1> QED BY InitHolds, <1>1, PTL DEF Spec

\* A session on offer is neither over nor told to stop.
THEOREM HeldRecords == Spec => []HeldMeansRecording
<1>1. IInv => HeldMeansRecording
  BY DEF IInv, Lifecycle
<1> QED BY <1>1, RecorderInvariant, PTL

\* The files of a cycle come from one start.
THEOREM CycleIsOneStart == Spec => []OneStartPerCycle
<1>1. IInv => OneStartPerCycle
  BY DEF IInv, Numbered
<1> QED BY <1>1, RecorderInvariant, PTL

\* A dive's files share a stamp of their own.
THEOREM DiveIsOneStamp == Spec => []OneStampPerDive
<1>1. IInv => OneStampPerDive
  BY DEF IInv, Numbered
<1> QED BY <1>1, RecorderInvariant, PTL

\* Only OpenFragment counts a fragment.
LEMMA OpensOnly ==
    ASSUME TypeOK, [Next]_vars, frag' > frag
    PROVE  OpenFragment
<1> USE DEF TypeOK
<1>1. ASSUME NEW p \in 1 .. Phases, StartRecording(p) \/ RotateToPhase(p)
      PROVE  FALSE
  BY <1>1 DEF StartRecording, RotateToPhase
<1>2. CASE TakePhaseSnapshot \/ StartDive
  BY <1>2 DEF TakePhaseSnapshot, StartDive, session
<1>3. ASSUME NEW ok \in BOOLEAN, RunOne(ok)
      PROVE  FALSE
  BY <1>3 DEF RunOne
<1>4. CASE PipelineExit \/ WatchdogExit
  BY <1>4 DEF PipelineExit, WatchdogExit
<1>5. ASSUME NEW c \in Callers, StopStep(c)
      PROVE  FALSE
  BY <1>5 DEF StopStep, Call, Sampled, StopRecording, Stopped, StopTimedOut,
              Proceed, Finalized, session
<1>6. CASE Restart
  BY <1>6 DEF Restart
<1>7. CASE UNCHANGED vars
  BY <1>7 DEF vars, session
<1> QED
  BY <1>1, <1>2, <1>3, <1>4, <1>5, <1>6, <1>7 DEF Next, Request, Watchdog

\* No file name is used twice.
THEOREM NamesAreNew == Spec => NoClobber
<1> DEFINE Fresh ==
      frag' > frag =>
        \A f \in files : Name(f) # <<sess.stamp, sess.cyc, sess.part, frag>>
<1>1. IInv /\ [Next]_vars => [Fresh]_vars
  <2> SUFFICES ASSUME IInv, [Next]_vars, frag' > frag, NEW f \in files
               PROVE  Name(f) # <<sess.stamp, sess.cyc, sess.part, frag>>
    OBVIOUS
  <2>1. pipe = "up" /\ sess.start > 0
    BY OpensOnly DEF IInv, OpenFragment, Lifecycle, Alive
  <2>2. Earlier(f)
    BY <2>1 DEF IInv, Numbered
  <2>3. f.part \in Nat /\ f.frag \in Nat /\ sess.part \in Nat /\ frag \in Nat
    BY DEF IInv, TypeOK, Files, Sessions
  <2> QED BY <2>1, <2>2, <2>3 DEF Earlier, Name
<1>2. Spec => [][Fresh]_vars
  <2> HIDE DEF Fresh
  <2> QED BY <1>1, RecorderInvariant, PTL DEF Spec
<1> QED BY <1>2 DEF NoClobber

\* A file carries the phase last granted.
THEOREM LabelsFollow == Spec => LabelFollows
<1>1. IInv /\ [Next]_vars => [frag' > frag => sess.phase = wanted]_vars
  <2> SUFFICES ASSUME IInv, [Next]_vars, frag' > frag
               PROVE  sess.phase = wanted
    OBVIOUS
  <2>1. pipe = "up"
    BY OpensOnly DEF IInv, OpenFragment
  <2> QED BY <2>1 DEF IInv, Labelled, Alive, TypeOK
<1> QED BY <1>1, RecorderInvariant, PTL DEF Spec, LabelFollows

\* Only StartRecording counts a session.
LEMMA StartsOnly ==
    ASSUME TypeOK, [Next]_vars, starts' > starts
    PROVE  \E p \in 1 .. Phases : StartRecording(p)
<1> USE DEF TypeOK
<1>1. ASSUME NEW p \in 1 .. Phases, RotateToPhase(p)
      PROVE  FALSE
  BY <1>1 DEF RotateToPhase
<1>2. CASE TakePhaseSnapshot \/ StartDive
  BY <1>2 DEF TakePhaseSnapshot, StartDive, history
<1>3. CASE Watchdog
  BY <1>3 DEF Watchdog, RunOne, OpenFragment, PipelineExit, WatchdogExit, history
<1>4. ASSUME NEW c \in Callers, StopStep(c)
      PROVE  FALSE
  BY <1>4 DEF StopStep, Call, Sampled, StopRecording, Stopped, StopTimedOut,
              Proceed, Finalized, history
<1>5. CASE Restart \/ UNCHANGED vars
  BY <1>5 DEF Restart, vars, history
<1> QED BY <1>1, <1>2, <1>3, <1>4, <1>5 DEF Next, Request

\* A session's parts lie past all those its dive has used.
THEOREM PartsClaimed == Spec => PartsAscend
<1> DEFINE Past ==
      starts' > starts /\ timeouts = 0 =>
        \A f \in files : f.stamp = sess'.stamp => f.part < sess'.part
<1>1. IInv /\ [Next]_vars => [Past]_vars
  <2> SUFFICES ASSUME IInv, [Next]_vars, starts' > starts, timeouts = 0,
                      NEW f \in files, f.stamp = sess'.stamp
               PROVE  f.part < sess'.part
    OBVIOUS
  <2>1. PICK p \in 1 .. Phases : StartRecording(p)
    BY StartsOnly DEF IInv
  <2>2. sess'.stamp = Stamp /\ sess'.part = part_offset /\ ~held
        /\ lock = NoCaller
    BY <2>1 DEF StartRecording, FirstPart, IsRecording, IInv, Lifecycle,
                HeldMeansRecording
  <2>3. f.stamp = base_stamp
    BY <2>2 DEF Stamp, None, IInv, Numbered, Known, TypeOK
  <2> QED BY <2>2, <2>3 DEF IInv, Parted
<1>2. Spec => [][Past]_vars
  <2> HIDE DEF Past
  <2> QED BY <1>1, RecorderInvariant, PTL DEF Spec
<1> QED BY <1>2 DEF PartsAscend

=============================================================================
