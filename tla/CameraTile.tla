------------------------------- MODULE CameraTile -------------------------------
(***************************************************************************)
(* The camera tile of the sensor page (SensorConfiguration.vue): a preview *)
(* taken from the camera every 10 s, the state of the recorder asked every *)
(* 4 s, the buttons that start and stop a recording or restart the camera. *)
(*                                                                         *)
(* The recorder is the one of module Recorder, here recording or not, and  *)
(* it is also started and stopped by the dive script.  Requests are in     *)
(* slots; they are answered in any order, or lost.  What is shown while an *)
(* image loads or fails and the messages of commands are left out.         *)
(***************************************************************************)
EXTENDS Integers

CONSTANTS
    Slots,         \* for the polls of the recorder on their way at a time
    Shots,         \* for the images on their way at a time
    MaxMishaps     \* bound on what happens to recorder, camera and camera list by itself

ASSUME MishapsAssumption == MaxMishaps \in Nat

VARIABLES
    recording,     \* is_recording(): a session is live
    camera_up,     \* the camera answers
    mishaps,
    tile_open,     \* the page is mounted
    has_camera,    \* hasCameraModule: the intervals run
    says_recording, \* ipcamRecording
    preview,       \* snapshotUrl is set
    reachable,     \* cameraReachable
    queries,       \* requests for the recorder's state
    shots,         \* requests for an image
    command,       \* the button's request; the buttons are disabled meanwhile
    restart        \* cameraRestartBusy

camera == << recording, camera_up >>
page == << tile_open, has_camera, says_recording >>
image == << preview, reachable >>
tileVars == << camera, mishaps, page, image, queries, shots, command, restart >>

TileTypeOK ==
    /\ recording \in BOOLEAN /\ camera_up \in BOOLEAN /\ mishaps \in 0..MaxMishaps
    /\ tile_open \in BOOLEAN /\ has_camera \in BOOLEAN /\ says_recording \in BOOLEAN
    /\ preview \in BOOLEAN /\ reachable \in {"unknown", "yes", "no"}
    /\ queries \in [Slots -> {"none", "asked", "recording", "idle"}]
    /\ shots \in [Shots -> {"none", "asked", "taking", "busy", "image", "error"}]
    /\ command \in {"none", "start", "stop", "started", "stopped", "refused"}
    /\ restart \in BOOLEAN

TileInit ==
    /\ recording = FALSE /\ camera_up = TRUE /\ mishaps = 0
    /\ tile_open = FALSE /\ has_camera = FALSE /\ says_recording = FALSE
    /\ preview = FALSE /\ reachable = "unknown"
    /\ queries = [s \in Slots |-> "none"] /\ shots = [s \in Shots |-> "none"]
    /\ command = "none" /\ restart = FALSE

-----------------------------------------------------------------------------
(* The recorder and the camera.                                            *)

Mishap == mishaps < MaxMishaps /\ mishaps' = mishaps + 1

\* By the dive script, or a session that ends.
Records ==
    /\ Mishap
    /\ recording' = ~recording
    /\ UNCHANGED << camera_up, page, image, queries, shots, command, restart >>

CameraFails ==
    /\ Mishap /\ camera_up
    /\ camera_up' = FALSE
    /\ UNCHANGED << recording, page, image, queries, shots, command, restart >>

CameraReturns ==
    /\ ~camera_up
    /\ camera_up' = TRUE
    /\ UNCHANGED << recording, mishaps, page, image, queries, shots, command,
                    restart >>

-----------------------------------------------------------------------------
(* What the page does when a value changes.                                *)

\* When all slots are taken, a request is as one that never arrives.
AsksStatus ==
    IF \E s \in Slots : queries[s] = "none"
    THEN \E s \in Slots : queries[s] = "none" /\ queries' = [queries EXCEPT ![s] = "asked"]
    ELSE UNCHANGED queries

\* refreshSnapshot: not while the recorder has the camera.
Refreshes(busy) ==
    /\ preview' = (preview /\ ~busy) /\ UNCHANGED reachable
    /\ IF busy \/ \A s \in Shots : shots[s] # "none"
       THEN UNCHANGED shots
       ELSE \E s \in Shots : shots[s] = "none" /\ shots' = [shots EXCEPT ![s] = "asked"]

\* The watch on ipcamRecording.
Shows(b) ==
    /\ says_recording' = b
    /\ CASE b /\ ~says_recording -> preview' = FALSE /\ UNCHANGED << reachable, shots >>
         [] says_recording /\ ~b /\ has_camera -> Refreshes(FALSE)
         [] OTHER -> UNCHANGED << image, shots >>

-----------------------------------------------------------------------------
(* The page and its list of modules.                                       *)

OpenTile ==
    /\ ~tile_open
    /\ tile_open' = TRUE
    /\ UNCHANGED << camera, mishaps, has_camera, says_recording, image, queries, shots, command,
                    restart >>

\* What was asked of the backend may still come about.
LeaveTile ==
    /\ tile_open
    /\ tile_open' = FALSE /\ has_camera' = FALSE /\ says_recording' = FALSE
    /\ preview' = FALSE /\ reachable' = "unknown"
    /\ queries' = [s \in Slots |-> "none"] /\ shots' = [s \in Shots |-> "none"]
    /\ command' = "none" /\ restart' = FALSE
    /\ recording' \in {recording, (recording \/ command = "start") /\ command # "stop"}
    /\ camera_up' \in {camera_up, camera_up /\ ~restart}
    /\ UNCHANGED mishaps

\* startSnapshotSidecar, startIpcamSidecar.
ListsCamera ==
    /\ tile_open /\ ~has_camera
    /\ has_camera' = TRUE
    /\ AsksStatus /\ Refreshes(says_recording)
    /\ UNCHANGED << camera, mishaps, tile_open, says_recording, command, restart >>

\* The camera manager stops listing it: both intervals are cleared.
LosesCamera ==
    /\ Mishap /\ has_camera
    /\ has_camera' = FALSE /\ says_recording' = FALSE
    /\ preview' = FALSE /\ reachable' = "unknown"
    /\ UNCHANGED << camera, tile_open, queries, shots, command, restart >>

-----------------------------------------------------------------------------
(* The preview.                                                            *)

\* The interval, "Retry" and "Refresh".
RefreshSnapshot ==
    /\ has_camera
    /\ Refreshes(says_recording)
    /\ UNCHANGED << camera, mishaps, page, queries, command, restart >>

\* The backend refuses while it records, as it sees it when the request arrives.
SnapshotReaches(s) ==
    /\ shots[s] = "asked"
    /\ shots' = [shots EXCEPT ![s] = IF recording THEN "busy" ELSE "taking"]
    /\ UNCHANGED << camera, mishaps, page, image, queries, command, restart >>

\* The camera serves one at a time: a recording that began meanwhile may cost the image.
SnapshotTaken(s) ==
    /\ shots[s] = "taking"
    /\ \/ camera_up /\ shots' = [shots EXCEPT ![s] = "image"]
       \/ (~camera_up \/ recording) /\ shots' = [shots EXCEPT ![s] = "error"]
    /\ UNCHANGED << camera, mishaps, page, image, queries, command, restart >>

SnapshotLost(s) ==
    /\ shots[s] \in {"asked", "taking"}
    /\ shots' = [shots EXCEPT ![s] = "error"]
    /\ UNCHANGED << camera, mishaps, page, image, queries, command, restart >>

\* 409, an image, or an error, whatever the tile says by then.
SnapshotRead(s) ==
    /\ shots[s] \in {"busy", "image", "error"}
    /\ shots' = [shots EXCEPT ![s] = "none"]
    /\ CASE shots[s] = "busy" -> preview' = FALSE /\ UNCHANGED reachable
         [] shots[s] = "image" -> preview' = TRUE /\ reachable' = "yes"
         [] OTHER -> reachable' = "no" /\ UNCHANGED preview
    /\ UNCHANGED << camera, mishaps, page, queries, command, restart >>

-----------------------------------------------------------------------------
(* The recorder's state.                                                   *)

PollsIdle == has_camera /\ ~says_recording  \* mutant: not asked while a recording is shown
PollsStatus == has_camera

\* refreshIpcamRecordStatus, every 4 s.
PollStatus ==
    /\ PollsStatus /\ AsksStatus
    /\ UNCHANGED << camera, mishaps, page, image, shots, command, restart >>

StatusReaches(s) ==
    /\ queries[s] = "asked"
    /\ queries' = [queries EXCEPT ![s] = IF recording THEN "recording" ELSE "idle"]
    /\ UNCHANGED << camera, mishaps, page, image, shots, command, restart >>

\* The answer, or the request before it arrives; or the backend fails.
StatusLost(s) ==
    /\ queries[s] \in {"recording", "idle"}
    /\ queries' = [queries EXCEPT ![s] = "none"]
    /\ UNCHANGED << camera, mishaps, page, image, shots, command, restart >>

\* Also after a button changed what the tile says, and after the camera is gone from the list.
StatusRead(s) ==
    /\ queries[s] \in {"recording", "idle"}
    /\ queries' = [queries EXCEPT ![s] = "none"]
    /\ Shows(queries[s] = "recording")
    /\ UNCHANGED << camera, mishaps, tile_open, has_camera, command, restart >>

-----------------------------------------------------------------------------
(* The buttons.                                                            *)

StartRecording ==
    /\ has_camera /\ command = "none" /\ ~says_recording
    /\ command' = "start"
    /\ UNCHANGED << camera, mishaps, page, image, queries, shots, restart >>

StopRecording ==
    /\ has_camera /\ command = "none" /\ says_recording
    /\ command' = "stop"
    /\ UNCHANGED << camera, mishaps, page, image, queries, shots, restart >>

\* Both are idempotent; refused, or done with the answer lost, is the same to the page.
CommandReaches ==
    /\ \/ command = "start" /\ recording' = TRUE /\ command' \in {"started", "refused"}
       \/ command = "stop" /\ recording' = FALSE /\ command' \in {"stopped", "refused"}
       \/ command \in {"start", "stop"} /\ command' = "refused" /\ UNCHANGED recording
    /\ UNCHANGED << camera_up, mishaps, page, image, queries, shots, restart >>

CommandAnswered ==
    /\ command \in {"started", "stopped", "refused"}
    /\ command' = "none"
    /\ Shows(command = "started" \/ (command = "refused" /\ says_recording))
    /\ IF has_camera THEN AsksStatus ELSE UNCHANGED queries
    /\ UNCHANGED << camera, mishaps, tile_open, has_camera, restart >>

RestartCamera ==
    /\ has_camera /\ ~restart /\ Mishap
    /\ restart' = TRUE
    /\ UNCHANGED << camera, page, image, queries, shots, command >>

RestartSettles ==
    /\ restart
    /\ restart' = FALSE /\ camera_up' \in {camera_up, FALSE}
    /\ UNCHANGED << recording, mishaps, page, image, queries, shots, command >>

TileNext ==
    \/ Records
    \/ CameraFails
    \/ CameraReturns
    \/ OpenTile
    \/ LeaveTile
    \/ ListsCamera
    \/ LosesCamera
    \/ RefreshSnapshot
    \/ PollStatus
    \/ \E s \in Shots :
        SnapshotReaches(s) \/ SnapshotTaken(s) \/ SnapshotLost(s) \/ SnapshotRead(s)
    \/ \E s \in Slots : StatusReaches(s) \/ StatusLost(s) \/ StatusRead(s)
    \/ StartRecording
    \/ StopRecording
    \/ CommandReaches
    \/ CommandAnswered
    \/ RestartCamera
    \/ RestartSettles

SnapshotStep == \E s \in Shots : SnapshotReaches(s) \/ SnapshotTaken(s) \/ SnapshotRead(s)

\* The interval ticks, a request is answered or fails, and now and then one is answered.
TileSteps ==
    /\ WF_tileVars(PollStatus) /\ WF_tileVars(SnapshotStep)
    /\ WF_tileVars(\E s \in Slots : StatusReaches(s))

StatusComes == \E s \in Slots : StatusRead(s)

TileFairness == TileSteps /\ SF_tileVars(StatusComes)

TileSpec == TileInit /\ [][TileNext]_tileVars /\ TileFairness

-----------------------------------------------------------------------------
(* Properties.                                                             *)

\* cameraTileStatus.
TileStatus == IF says_recording THEN "recording" ELSE reachable

\* A tile that is left open comes to say whether the recorder records, whoever started or
\* stopped it and whatever answers are lost or overtake each other, a button's among them,
\* unless the operator is just asking for the opposite.
TileAgrees ==
    []<>(~has_camera \/ command # "none" \/ (TileStatus = "recording") = recording)
=============================================================================
