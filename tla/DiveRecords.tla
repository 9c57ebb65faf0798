----------------------------- MODULE DiveRecords -----------------------------
(***************************************************************************)
(* The record of a dive and the mission state: routes/dive.py, the status  *)
(* poll and the commands of services/dive.py, services/dive_records.py and *)
(* quiesce_dive of services/dive_processing.py.                            *)
(*                                                                         *)
(* Requests run on one event loop: a step is what a request does between   *)
(* two awaits.  The stretch of a request that writes files is one step if  *)
(* it ends, and a crash may leave any prefix of its writes.  The backend   *)
(* asks the vehicle for START and STATE, but all PARAM_VALUE messages      *)
(* share one slot of mavlink2rest: a poll may find another one there.      *)
(*                                                                         *)
(* Simplifications:                                                        *)
(*  - file times are counts of the recorder's stamps: all that is asked of *)
(*    them is whether a stamp was allocated while a record was open, by a  *)
(*    clock that is right.                                                 *)
(*  - a poll that finds the parameter it asked for finds its value.        *)
(*  - dives are started with a configuration, as the page does.            *)
(*  - records are not deleted, and what processing adds to one is left     *)
(*    out; receipts, samples and positions too.                            *)
(***************************************************************************)
EXTENDS Naturals, Sequences, FiniteSetsExt

CONSTANTS
    Tasks,       \* identities of requests
    Job,         \* what each does: one of Jobs
    MaxDives,    \* bound on records
    MaxStamps,   \* bound on stamps
    MaxRestarts, \* bound on restarts of the backend
    MaxAstray    \* bound on commands lost, or whose answer is

\* "poll": /dive/status; "mission": /dive/mission, which also heals the mission.
Jobs == {"poll", "mission", "start", "stop", "quiesce"}

ASSUME JobAssumption == Job \in [Tasks -> Jobs]

ASSUME BoundAssumption ==
    /\ MaxDives \in Nat /\ MaxStamps \in Nat
    /\ MaxRestarts \in Nat /\ MaxAstray \in Nat

VARIABLES
    START, vehicle,  \* the autopilot: DORIS_START and DORIS_STATE
    last_known,      \* _last_known_value
    cooling,         \* the cooldown after _started_at runs
    recovery_seen,   \* SafeSurfaceState.recovery_seen
    stamp,           \* the recorder's _last_base_stamp, 0 for None
    at,              \* where each request is
    local,           \* the stamp (or the time) and the file it remembers
    records,         \* the files dive_NNNN.json, in order
    mission,         \* mission_state.json
    opened,          \* history: for each stamp, the record open when it came
    restarts, astray, \* history: of the backend; commands or answers lost
    torn,            \* history: a crash fell between two writes since a start
    overtaken        \* history: a dive was started during a stop or quiesce

device == <<START, vehicle>>
memory == <<last_known, cooling, recovery_seen>>
stamps == <<stamp, opened>>
tasks  == <<at, local>>
disk   == <<records, mission>>
faults == <<restarts, torn, astray, overtaken>>
vars   == <<device, memory, stamps, tasks, disk, faults>>

Vehicle  == {"config", "dive", "recovery"}
Places   == {"idle", "sent", "state", "flush"}
Terminal == {"completed", "cancelled"}

\* "garbled": the write of a new record was cut off.
Records == [status : {"active", "garbled"} \cup Terminal,
            stamp : Nat, from : Nat, to : Nat]

Missions == [status : {"none", "pending", "active"} \cup Terminal, dive : Nat]

Now == Len(opened)

\* Every variable has its type, and nothing remembers a stamp or a file that
\* does not exist.
TypeOK ==
    /\ START \in 0 .. 1 /\ vehicle \in Vehicle
    /\ last_known \in 0 .. 1 /\ cooling \in BOOLEAN /\ recovery_seen \in BOOLEAN
    /\ opened \in Seq(Nat) /\ stamp \in 0 .. Now
    /\ at \in [Tasks -> Places]
    /\ records \in Seq(Records)
    /\ local \in [Tasks -> [stamp : 0 .. Now, file : 0 .. Len(records)]]
    /\ mission \in Missions /\ mission.dive <= Len(records)
    /\ restarts \in Nat /\ astray \in Nat
    /\ torn \in BOOLEAN /\ overtaken \in BOOLEAN

Nothing == [stamp |-> 0, file |-> 0]

Init ==
    /\ START = 0 /\ vehicle = "config"
    /\ last_known = 0 /\ cooling = FALSE /\ recovery_seen = FALSE
    /\ stamp = 0 /\ opened = <<>>
    /\ at = [t \in Tasks |-> "idle"] /\ local = [t \in Tasks |-> Nothing]
    /\ records = <<>> /\ mission = [status |-> "none", dive |-> 0]
    /\ restarts = 0 /\ astray = 0
    /\ torn = FALSE /\ overtaken = FALSE

-----------------------------------------------------------------------------
(***************************************************************************)
(* The files                                                               *)
(***************************************************************************)

Active == {i \in DOMAIN records : records[i].status = "active"}
Newest(set) == IF set = {} THEN 0 ELSE Max(set)

\* update_active_dive_record: the newest record that is active, if any.
ActiveRecord == Newest(Active)

Updated(s) ==
    [i \in DOMAIN records |->
        IF i = ActiveRecord
        THEN [records[i] EXCEPT !.status = s, !.to = Now] ELSE records[i]]

\* _close_all_active_dive_records takes the time a file was last written.
Written == IF Active = {} THEN {0} ELSE records[ActiveRecord].from .. Now

StaleClosed(written) ==
    [i \in DOMAIN records |->
        IF i \in Active
        THEN [records[i] EXCEPT !.status = "completed", !.to = written]
        ELSE records[i]]

\* find_unstamped_dive_for_recording
Since(i, s)  == records[i].from < s  \* mutant: the window has no end
Within(i, s) == records[i].from < s /\ s <= records[i].to

FindUnstamped(s) ==
    Newest({i \in DOMAIN records :
              /\ s > 0 /\ records[i].status \in Terminal
              /\ records[i].stamp = 0 /\ Within(i, s)})

Annotated(rs, f, s) ==
    [i \in DOMAIN rs |->
        IF i = f /\ s > 0 THEN [rs[i] EXCEPT !.stamp = s] ELSE rs[i]]

Open == mission.status \in {"pending", "active"}

\* set_mission_terminal_status leaves a terminal mission alone.
Overwritten(s) ==  \* mutant: the last writer wins
    IF mission.status = "none" THEN mission ELSE [mission EXCEPT !.status = s]
Ended(s) == IF Open THEN [mission EXCEPT !.status = s] ELSE mission

-----------------------------------------------------------------------------
(***************************************************************************)
(* Tasks                                                                   *)
(***************************************************************************)

Goes(t, from, to) == at[t] = from /\ at' = [at EXCEPT ![t] = to]
Remember(t, s, f) == local' = [local EXCEPT ![t] = [stamp |-> s, file |-> f]]

\* The backend restarts: its memory is gone, whatever it was doing.
Forget ==
    /\ restarts < MaxRestarts /\ restarts' = restarts + 1
    /\ last_known' = 0 /\ cooling' = FALSE /\ recovery_seen' = FALSE
    /\ stamp' = 0
    /\ at' = [t \in Tasks |-> "idle"] /\ local' = [t \in Tasks |-> Nothing]
    /\ UNCHANGED <<device, opened, astray, overtaken>>

Restart == Forget /\ UNCHANGED <<disk, torn>>

\* A crash after some of the writes of a request, all before the mission's.
Cut(after) ==
    /\ records' \in after
    /\ UNCHANGED mission /\ torn' = TRUE
    /\ Forget

\* A command is lost, or the answer to it is.
Astray == astray < MaxAstray /\ astray' = astray + 1

-----------------------------------------------------------------------------
(***************************************************************************)
(* Starting a dive                                                         *)
(***************************************************************************)

\* The request takes the time, and sends DORIS_START = 1.
SendStart(t) ==
    /\ Job[t] = "start" /\ Len(records) < MaxDives
    /\ Goes(t, "idle", "sent")
    /\ Remember(t, Now, 0)
    /\ \/ START' = 1 /\ UNCHANGED astray
       \/ Astray /\ UNCHANGED START
    /\ UNCHANGED <<vehicle, memory, stamps, disk, restarts, torn, overtaken>>

\* The command was obeyed or not; the request reports an error and gives up.
StartFails(t) ==
    /\ Job[t] = "start" /\ Goes(t, "sent", "idle")
    /\ Astray
    /\ UNCHANGED <<device, memory, stamps, local, disk, restarts, torn,
                   overtaken>>

NewRecord(t) == [status |-> "active", stamp |-> 0, from |-> local[t].stamp,
                 to |-> local[t].stamp]

KeepStamp  == UNCHANGED stamp  \* mutant: the recorder is not reset
ClearStamp == stamp' = 0

Unknown == UNCHANGED last_known  \* mutant: left to the next poll
Known   == last_known' = 1

\* _next_dive_filename
LaterFile == Len(records) + 2  \* mutant: named after the record is written
NextFile  == Len(records) + 1

Started(t) ==
    /\ Job[t] = "start" /\ Goes(t, "sent", "idle")
    /\ Known /\ cooling' = TRUE
    /\ ClearStamp
    /\ \E written \in Written :
         records' = Append(StaleClosed(written), NewRecord(t))
    /\ mission' = [status |-> "pending", dive |-> NextFile]
    /\ overtaken' = (overtaken \/ \E u \in Tasks :
                        Job[u] \in {"stop", "quiesce"} /\ at[u] # "idle")
    /\ torn' = FALSE
    /\ UNCHANGED <<START, vehicle, recovery_seen, opened, local, restarts,
                   astray>>

StartCut(t) ==
    /\ Job[t] = "start" /\ at[t] = "sent"
    /\ \E written \in Written :
         LET closed == StaleClosed(written)
             cut    == [NewRecord(t) EXCEPT !.status = "garbled"]
         IN  Cut({closed, Append(closed, cut), Append(closed, NewRecord(t))})

-----------------------------------------------------------------------------
(***************************************************************************)
(* Ending a dive                                                           *)
(***************************************************************************)

SendStop(t) ==
    /\ Job[t] = "stop" /\ Goes(t, "idle", "sent")
    /\ \/ START' = 0 /\ UNCHANGED astray
       \/ Astray /\ UNCHANGED START
    /\ UNCHANGED <<vehicle, memory, stamps, local, disk, restarts, torn,
                   overtaken>>

\* Whatever the answer, the recorders are stopped next.
StopAnswered(t) ==
    /\ Job[t] = "stop" /\ Goes(t, "sent", "flush")
    /\ \/ last_known' = 0 /\ cooling' = FALSE /\ UNCHANGED astray
       \/ Astray /\ UNCHANGED <<last_known, cooling>>
    /\ UNCHANGED <<device, recovery_seen, stamps, local, disk, restarts, torn,
                   overtaken>>

Stopped(t) ==
    /\ Job[t] = "stop" /\ Goes(t, "flush", "idle")
    /\ records' = Updated("cancelled")
    /\ mission' = Ended("cancelled")
    /\ UNCHANGED <<device, memory, stamps, local, faults>>

\* quiesce_dive, for the AGT's handshake or /dive/finalize, at any time.
Quiesce(t) ==
    /\ Job[t] = "quiesce" /\ Goes(t, "idle", "flush")
    /\ Remember(t, stamp, FindUnstamped(stamp))
    /\ UNCHANGED <<device, memory, stamps, disk, faults>>

\* The record closed now, or the one found when the request began.
Target(t) == IF Active # {} THEN ActiveRecord ELSE local[t].file

Quiesced(t) ==
    /\ Job[t] = "quiesce" /\ Goes(t, "flush", "idle")
    /\ records' = Annotated(Updated("completed"), Target(t), local[t].stamp)
    /\ mission' = Ended("completed")
    /\ Remember(t, 0, 0)
    /\ UNCHANGED <<device, memory, stamps, faults>>

EndCut(t) ==
    /\ at[t] = "flush"
    /\ \/ Job[t] = "stop" /\ Cut({Updated("cancelled")})
       \/ /\ Job[t] = "quiesce"
          /\ Cut({Updated("completed"),
                  Annotated(Updated("completed"), Target(t), local[t].stamp)})

-----------------------------------------------------------------------------
(***************************************************************************)
(* Polling                                                                 *)
(***************************************************************************)

Poller(t) == Job[t] \in {"poll", "mission"}

\* get_status asks for START and, if found, keeps it; then it asks for STATE.
Deaf == last_known  \* mutant: START is never read back
Read == START

PollStart(t, found) ==
    /\ Poller(t) /\ Goes(t, "idle", "state")
    /\ last_known' = IF found THEN Read ELSE last_known
    /\ UNCHANGED <<device, cooling, recovery_seen, stamps, local, disk, faults>>

\* doris_script_state, if found.
IsActive(found) ==
    (found /\ vehicle = "dive") \/ last_known = 1 \/ cooling

\* _recovery_was_seen
RecoveryWasSeen ==
    recovery_seen \/ (Active # {} /\ records[ActiveRecord].stamp > 0)

Verdict(found) ==
    IF (found /\ vehicle = "recovery") \/ RecoveryWasSeen
    THEN "completed" ELSE "cancelled"

Ends(found) == Open /\ ~IsActive(found)

\* /dive/mission makes up for a mission state that is missing.
Healed(t) ==
    IF mission.status = "none" /\ Job[t] = "mission" /\ Active # {}
    THEN [status |-> "active", dive |-> ActiveRecord] ELSE mission

PollEnd(t, found) ==
    /\ Poller(t) /\ Goes(t, "state", "idle")
    /\ IF Ends(found)
       THEN /\ records' = Updated(Verdict(found))
            /\ mission' = Ended(Verdict(found))
       ELSE /\ mission' = IF /\ mission.status = "pending" /\ IsActive(found)
                             /\ found /\ vehicle # "config"
                          THEN [mission EXCEPT !.status = "active"]
                          ELSE Healed(t)
            /\ UNCHANGED records
    /\ UNCHANGED <<device, memory, stamps, local, faults>>

PollCut(t, found) ==
    /\ Poller(t) /\ at[t] = "state" /\ Ends(found)
    /\ Cut({Updated(Verdict(found))})

CooldownEnds ==
    /\ cooling /\ cooling' = FALSE
    /\ UNCHANGED <<device, last_known, recovery_seen, stamps, tasks, disk,
                   faults>>

\* The vehicle's STATE is heard on the MAVLink stream.
HearRecovery ==
    /\ vehicle = "recovery" /\ recovery_seen' = TRUE
    /\ UNCHANGED <<device, last_known, cooling, stamps, tasks, disk, faults>>

-----------------------------------------------------------------------------
(***************************************************************************)
(* The recorder and the vehicle                                            *)
(***************************************************************************)

\* A recording or a snapshot allocates the stamp; finalize_dive clears it.
Record ==
    /\ stamp = 0 /\ Now < MaxStamps
    /\ stamp' = Now + 1 /\ opened' = Append(opened, ActiveRecord)
    /\ UNCHANGED <<device, memory, tasks, disk, faults>>

Finalized ==
    /\ ClearStamp
    /\ UNCHANGED <<device, memory, opened, tasks, disk, faults>>

\* The script flies a dive, ends one whose START is gone, and clears START in
\* RECOVERY; the vehicle may reset.
Fly ==
    /\ \/ vehicle = "config" /\ START = 1 /\ vehicle' = "dive" /\ UNCHANGED START
       \/ vehicle = "dive" /\ START = 1 /\ vehicle' = "recovery" /\ START' = 0
       \/ vehicle # "config" /\ vehicle' = "config" /\ UNCHANGED START
    /\ UNCHANGED <<memory, stamps, tasks, disk, faults>>

-----------------------------------------------------------------------------

Request(t) ==
    \/ SendStart(t) \/ StartFails(t) \/ Started(t) \/ StartCut(t)
    \/ SendStop(t) \/ StopAnswered(t) \/ Stopped(t)
    \/ Quiesce(t) \/ Quiesced(t) \/ EndCut(t)
    \/ \E found \in BOOLEAN :
         PollStart(t, found) \/ PollEnd(t, found) \/ PollCut(t, found)

Next ==
    \/ \E t \in Tasks : Request(t)
    \/ Restart \/ CooldownEnds \/ HearRecovery
    \/ Record \/ Finalized \/ Fly

Spec == Init /\ [][Next]_vars

\* The page polls, the cooldown is a time, and a poll that asks for START
\* again and again finds it.
FairSpec ==
    /\ Spec
    /\ WF_vars(CooldownEnds)
    /\ \A t \in Tasks :
         Poller(t) =>
           /\ WF_vars(\E found \in BOOLEAN : PollEnd(t, found))
           /\ SF_vars(PollStart(t, TRUE))

-----------------------------------------------------------------------------
(***************************************************************************)
(* Properties                                                              *)
(***************************************************************************)

\* At most one dive is open, whatever is started, ended or cut off.
OneActive == \A i, j \in Active : i = j

\* A record carries a stamp that was allocated while it was the open one, also
\* if a poll closed it before the quiesce; a start that overtakes a quiesce is
\* excepted.
StampBelongs ==
    ~overtaken =>
      \A i \in DOMAIN records :
          records[i].stamp > 0 => opened[records[i].stamp] = i

\* The mission state tells of the newest record, and the same as it does,
\* unless a crash fell between the two writes; the next start mends that.
MissionAgrees ==
    ~torn =>
      /\ mission.dive = Len(records)
      /\ mission.status = "none" => Len(records) = 0
      /\ Open => records[mission.dive].status = "active"
      /\ mission.status \in Terminal =>
            records[mission.dive].status = mission.status

\* The files as a reader sees them: whatever requests overlap and wherever one is
\* cut off, they are a log of dives and what is told of the last.
Log == INSTANCE DiveLog WITH
           dives <- [i \in DOMAIN records |-> records[i].status], told <- mission

ImplementsLog == Log!Spec

\* A closed record stays closed as it was, and so does its mission: a stop or
\* a poll after the quiesce does not cancel a dive that was completed.
ForwardOnly ==
    [][/\ \A i \in DOMAIN records :
            records[i].status \in Terminal =>
                records'[i].status = records[i].status
       /\ mission.status \in Terminal /\ mission'.dive = mission.dive =>
            mission' = mission]_vars

\* A poll ends the mission, the dive it tells of being ...
PollEnds(s) ==
    /\ \E t \in Tasks : Poller(t) /\ at[t] = "state" /\ at'[t] = "idle"
    /\ Open /\ mission'.status = s

Underway ==
    /\ vehicle = "dive" /\ START = 1
    /\ \A t \in Tasks : Job[t] = "start" => at[t] = "idle"

\* ... not under way, unless the backend has restarted, a command or its answer
\* was lost, or a start overtook a stop: parameters that are not found and the
\* end of the cooldown do not end it.
PollKeepsDive ==
    [][\A s \in Terminal :
         PollEnds(s) /\ restarts = 0 /\ astray = 0 /\ ~overtaken
             => ~Underway]_vars

\* With the vehicle out of a dive and START at 0, polling ends the mission.
MissionEnds == []<>(~Open \/ vehicle = "dive" \/ START = 1)

=============================================================================
