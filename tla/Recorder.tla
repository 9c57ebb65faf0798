------------------------------- MODULE Recorder -------------------------------
(***************************************************************************)
(* The IP camera recorder: ip_camera_recorder.py, and the calls that       *)
(* quiesce_dive (dive_processing.py) and finalize_dive (dive_finalize.py)  *)
(* make on it.                                                             *)
(*                                                                         *)
(* One event loop runs the requests and the watchdog of a session; a step  *)
(* is what one of them does between two awaits.  start_recording awaits    *)
(* nothing under the lock, so it is one step; stop_recording holds the     *)
(* lock while the pipeline flushes.  GStreamer opens the files from a      *)
(* thread of its own.                                                      *)
(*                                                                         *)
(* Simplifications:                                                        *)
(*  - a stamp is a number, never allocated twice: the clock runs forward   *)
(*    and two dives do not begin in one second.  0 stands for None.        *)
(*  - of a file name, the open time is left out.                           *)
(*  - the requests a session gets go forward through the phases.           *)
(*  - segment lengths, the stream log, the contents of the snapshots and   *)
(*    their sequence numbers are left out.                                 *)
(***************************************************************************)
EXTENDS Naturals

CONSTANTS
    Callers,     \* identities of asyncio tasks that stop the recorder
    NoCaller,
    Job,         \* what each caller does: one of Jobs
    Phases,      \* the number of phases
    MaxStarts,   \* bound on sessions
    MaxPart,     \* bound on part indices that a restart may reach
    MaxFrag,     \* bound on fragments of a pipeline
    MaxEpochs,   \* bound on resets of the dive state
    MaxTimeouts  \* bound on stops that run out of time

\* "stop": /rec/stop or the operator's stop of a dive.
Jobs == {"stop", "quiesce", "finalize"}

ASSUME CallerAssumption ==
    NoCaller \notin Callers /\ Job \in [Callers -> Jobs]

ASSUME BoundAssumption ==
    /\ Phases \in Nat \ {0}
    /\ MaxStarts \in Nat /\ MaxPart \in Nat /\ MaxFrag \in Nat
    /\ MaxEpochs \in Nat /\ MaxTimeouts \in Nat

None == 0

VARIABLES
    base_stamp,   \* _last_base_stamp
    part_offset,  \* _session_part_offset
    cycle_seq,    \* _dive_cycle_seq
    held,         \* _session is the newest session, not None
    lock,         \* the task whose stop holds _state_lock
    sess,         \* the newest session; there is no other one alive
    user_stop,    \* its _user_stop
    pipe,         \* its pipeline and watchdog, see Pipes
    frag,         \* the next fragment id of the pipeline
    at,           \* where each caller is
    files,        \* history: the .ts files opened so far
    wanted,       \* history: the last phase a request was granted
    stamps, starts, epoch, timeouts  \* history: how many so far

dive    == <<base_stamp, part_offset, cycle_seq, stamps, epoch>>
session == <<held, sess, user_stop, pipe, frag>>
calls   == <<lock, at, timeouts>>
history == <<files, wanted, starts>>
vars    == <<dive, session, calls, history>>

\* "none": the watchdog's task is done; "new": it has not run yet; "down": it
\* waits to restart (no muxsink); "up": the pipeline exists.
Pipes  == {"none", "new", "down", "up"}
Places == {"idle", "sample", "lock", "flush", "rest", "build"}

Files == [stamp : Nat, cyc : Nat, part : Nat, frag : Nat,
          start : Nat, epoch : Nat]

Sessions == [stamp : Nat, cyc : Nat, part : Nat, phase : 1 .. Phases,
             pending : 0 .. Phases, start : Nat, epoch : Nat]

\* Every variable has its type; the lock is held by the one caller that waits
\* for a flush, and a phase is only queued while there is no pipeline.
TypeOK ==
    /\ base_stamp \in Nat /\ part_offset \in Nat /\ cycle_seq \in Nat
    /\ held \in BOOLEAN /\ lock \in Callers \cup {NoCaller}
    /\ sess \in Sessions /\ user_stop \in BOOLEAN /\ pipe \in Pipes
    /\ frag \in Nat
    /\ at \in [Callers -> Places]
    /\ files \subseteq Files /\ wanted \in 1 .. Phases
    /\ stamps \in Nat /\ starts \in Nat /\ epoch \in Nat /\ timeouts \in Nat
    /\ \A c \in Callers : at[c] = "flush" <=> lock = c
    /\ pipe = "up" => sess.pending = None

Init ==
    /\ base_stamp = None /\ part_offset = 0 /\ cycle_seq = 0
    /\ held = FALSE /\ lock = NoCaller
    /\ sess = [stamp |-> None, cyc |-> 0, part |-> 0, phase |-> 1,
               pending |-> None, start |-> 0, epoch |-> 0]
    /\ user_stop = FALSE /\ pipe = "none" /\ frag = 0
    /\ at = [c \in Callers |-> "idle"]
    /\ files = {} /\ wanted = 1
    /\ stamps = 0 /\ starts = 0 /\ epoch = 0 /\ timeouts = 0

-----------------------------------------------------------------------------
(***************************************************************************)
(* Requests                                                                *)
(***************************************************************************)

Alive == pipe # "none"
IsRecording == held /\ Alive

\* The dive's stamp, allocated if there is none.
Stamp == IF base_stamp = None THEN stamps + 1 ELSE base_stamp

EnsureStamp ==
    /\ base_stamp' = Stamp
    /\ stamps' = IF base_stamp = None THEN stamps + 1 ELSE stamps

NextCycle == cycle_seq + 1

FirstPart == part_offset

StartRecording(p) ==
    /\ lock = NoCaller /\ ~IsRecording /\ starts < MaxStarts
    /\ EnsureStamp
    /\ cycle_seq' = NextCycle
    /\ starts' = starts + 1
    /\ sess' = [stamp |-> Stamp, cyc |-> NextCycle, part |-> FirstPart,
                phase |-> p, pending |-> None,
                start |-> starts + 1, epoch |-> epoch]
    /\ held' = TRUE /\ user_stop' = FALSE /\ pipe' = "new" /\ frag' = 0
    /\ wanted' = p
    /\ UNCHANGED <<part_offset, epoch, calls, files>>

\* The phase changes at once with a pipeline, otherwise when one is built.
LosePhase(p) == [sess EXCEPT !.phase = IF pipe = "up" THEN p ELSE @]  \* mutant
Relabel(p) ==
    IF pipe = "up" THEN [sess EXCEPT !.phase = p]
                   ELSE [sess EXCEPT !.pending = p]

\* /rec/rotate, or a start while recording (with the lock free) that asks for
\* another phase.
RotateToPhase(p) ==
    /\ IsRecording /\ p >= wanted
    /\ sess' = Relabel(p)
    /\ wanted' = p
    /\ UNCHANGED <<dive, held, user_stop, pipe, frag, calls, files, starts>>

\* A snapshot needs a recorder that is not in use; it allocates the stamp.
TakePhaseSnapshot ==
    /\ ~IsRecording
    /\ EnsureStamp
    /\ UNCHANGED <<part_offset, cycle_seq, epoch, session, calls, history>>

\* clear_snapshot_state.
ClearCounters ==  \* mutant: the stamp stays
    /\ part_offset' = 0 /\ cycle_seq' = 0
    /\ UNCHANGED base_stamp
ClearState ==
    /\ base_stamp' = None /\ part_offset' = 0 /\ cycle_seq' = 0

Clear ==
    /\ epoch < MaxEpochs /\ epoch' = epoch + 1
    /\ ClearState
    /\ UNCHANGED stamps

\* The recorder's part of starting a dive.
StartDive ==
    /\ Clear
    /\ UNCHANGED <<session, calls, history>>

-----------------------------------------------------------------------------
(***************************************************************************)
(* The session: its watchdog, its pipelines and their files                *)
(***************************************************************************)

\* The part of the pipeline to come: a restart takes the next one.
SamePart == sess.part  \* mutant: a restart keeps the part
NextPart == IF pipe = "down" THEN sess.part + 1 ELSE sess.part

\* _run_one applies a queued phase, then builds the pipeline.
Applied == [sess EXCEPT !.part = NextPart,
                        !.phase = IF sess.pending = None THEN @ ELSE sess.pending,
                        !.pending = None]

GiveUp(ok)  == IF ok THEN "up" ELSE "none"  \* mutant: no retry
RunGoes(ok) == IF ok THEN "up" ELSE "down"

RunOne(ok) ==
    /\ pipe \in {"new", "down"} /\ ~user_stop
    /\ pipe = "down" => sess.part < MaxPart
    /\ sess' = Applied
    /\ pipe' = RunGoes(ok)
    /\ frag' = 0
    /\ UNCHANGED <<dive, held, user_stop, calls, history>>

\* _on_format_location, on the thread that writes.
OpenFragment ==
    /\ pipe = "up" /\ frag < MaxFrag
    /\ files' = files \cup {[stamp |-> sess.stamp, cyc |-> sess.cyc,
                             part |-> sess.part, frag |-> frag,
                             start |-> sess.start, epoch |-> sess.epoch]}
    /\ frag' = frag + 1
    /\ UNCHANGED <<dive, held, sess, user_stop, pipe, calls, wanted, starts>>

\* The camera drops the connection, or the stream cannot be recorded.
PipelineExit ==
    /\ pipe = "up"
    /\ pipe' = IF user_stop THEN "none" ELSE "down"
    /\ UNCHANGED <<dive, held, sess, user_stop, frag, calls, history>>

\* The stop event ends a flushed pipeline, or the wait for a restart.
WatchdogExit ==
    /\ user_stop /\ Alive
    /\ pipe' = "none"
    /\ UNCHANGED <<dive, held, sess, user_stop, frag, calls, history>>

-----------------------------------------------------------------------------
(***************************************************************************)
(* Stopping                                                                *)
(***************************************************************************)

Move(c, place) == at' = [at EXCEPT ![c] = place]

\* What a caller does once stop_recording has returned.
AfterStop(c) == IF Job[c] = "stop" THEN "idle" ELSE "rest"

\* finalize_dive looks at the recorder at once.
Call(c) ==
    /\ at[c] = "idle"
    /\ Move(c, CASE Job[c] = "stop" -> "lock"
                 [] Job[c] = "quiesce" -> "sample"
                 [] Job[c] = "finalize" ->
                        IF IsRecording THEN "lock" ELSE "rest")
    /\ UNCHANGED <<dive, session, lock, timeouts, history>>

\* quiesce_dive has taken its camera sample and looks at the recorder.
Sampled(c) ==
    /\ at[c] = "sample"
    /\ Move(c, IF IsRecording THEN "lock" ELSE "rest")
    /\ UNCHANGED <<dive, session, lock, timeouts, history>>

\* stop_recording forgets the session before it waits for its end.
KeepHeld   == UNCHANGED held  \* mutant: the session stays on offer
ForgetHeld == held' = FALSE

StopRecording(c) ==
    /\ at[c] = "lock" /\ lock = NoCaller
    /\ ForgetHeld
    /\ IF IsRecording
       THEN user_stop' = TRUE /\ lock' = c /\ Move(c, "flush")
       ELSE Move(c, AfterStop(c)) /\ UNCHANGED <<user_stop, lock>>
    /\ UNCHANGED <<dive, sess, pipe, frag, timeouts, history>>

OffsetPast == sess.part + 1

Stopped(c) ==
    /\ lock = c /\ ~Alive
    /\ part_offset' = OffsetPast
    /\ lock' = NoCaller
    /\ Move(c, AfterStop(c))
    /\ UNCHANGED <<base_stamp, cycle_seq, stamps, epoch, session, timeouts,
                   history>>

\* The wait runs out: the watchdog is cancelled, and awaiting it again raises
\* CancelledError through stop_recording and through its caller.
StopTimedOut(c) ==
    /\ lock = c /\ Alive /\ timeouts < MaxTimeouts
    /\ pipe' = "none"
    /\ timeouts' = timeouts + 1
    /\ lock' = NoCaller
    /\ Move(c, "idle")
    /\ UNCHANGED <<dive, held, sess, user_stop, frag, history>>

\* quiesce_dive closes the record; finalize_dive lists the files and builds.
Proceed(c) ==
    /\ at[c] = "rest"
    /\ Move(c, IF Job[c] = "quiesce" THEN "idle" ELSE "build")
    /\ UNCHANGED <<dive, session, lock, timeouts, history>>

\* finalize_dive ends with a reset, or with nothing to build or an error.
Finalized(c) ==
    /\ at[c] = "build"
    /\ Move(c, "idle")
    /\ Clear \/ UNCHANGED dive
    /\ UNCHANGED <<session, lock, timeouts, history>>

\* The backend restarts: the module's state and its pipeline are gone.
Restart ==
    /\ Clear
    /\ held' = FALSE /\ pipe' = "none" /\ user_stop' = FALSE /\ frag' = 0
    /\ sess' = [sess EXCEPT !.pending = None]
    /\ lock' = NoCaller
    /\ at' = [c \in Callers |-> "idle"]
    /\ UNCHANGED <<timeouts, history>>

-----------------------------------------------------------------------------

Request ==
    \/ \E p \in 1 .. Phases : StartRecording(p) \/ RotateToPhase(p)
    \/ TakePhaseSnapshot \/ StartDive

Watchdog ==
    \/ \E ok \in BOOLEAN : RunOne(ok)
    \/ OpenFragment \/ PipelineExit \/ WatchdogExit

StopStep(c) ==
    \/ Call(c) \/ Sampled(c) \/ StopRecording(c) \/ Stopped(c) \/ StopTimedOut(c)
    \/ Proceed(c) \/ Finalized(c)

Next ==
    \/ Request
    \/ Watchdog
    \/ \E c \in Callers : StopStep(c)
    \/ Restart

Spec == Init /\ [][Next]_vars

\* The watchdog runs, and a camera that is tried again and again answers.
FairSpec == Spec /\ SF_vars(RunOne(TRUE))

-----------------------------------------------------------------------------
(***************************************************************************)
(* Properties                                                              *)
(***************************************************************************)

Name(f) == <<f.stamp, f.cyc, f.part, f.frag>>

\* No pipeline opens a file under a name already used, over any order of
\* stops, restarts of the pipeline or the backend, resets and timeouts.
NoClobber ==
    [][frag' > frag =>
         \A f \in files :
             Name(f) # <<sess.stamp, sess.cyc, sess.part, frag>>]_vars

\* The files of one cycle of a dive come from one call of start_recording:
\* finalize_dive stitches them into one video by that number alone.
OneStartPerCycle ==
    \A f, g \in files :
        f.stamp = g.stamp /\ f.cyc = g.cyc => f.start = g.start

\* The sessions begun since the last reset share a stamp, and no other session
\* has it: a dive is one folder.
OneStampPerDive ==
    \A f, g \in files : f.epoch = g.epoch <=> f.stamp = g.stamp

\* A session claims part indices past all those its dive has used, unless the
\* stop before it ran out of time.
PartsAscend ==
    [][starts' > starts /\ timeouts = 0 =>
         \A f \in files : f.stamp = sess'.stamp => f.part < sess'.part]_vars

\* A file carries the phase last granted, even if that came while the pipeline
\* was down.
LabelFollows == [][frag' > frag => sess.phase = wanted]_vars

\* A session that start and rotate still offer is neither over nor told to
\* stop: a start during a stop never reports a recording that is ending.
HeldMeansRecording == held => Alive /\ ~user_stop

\* Whatever the camera does, a recording nobody stops gets its pipeline back,
\* unless the parts run out.
RecordingReturns ==
    (held /\ pipe # "up") ~> (~held \/ pipe = "up" \/ sess.part >= MaxPart)

=============================================================================
