-------------------------------- MODULE MCConsole --------------------------------
(***************************************************************************)
(* The console's pages, the clock its windows set and the footage they     *)
(* have processed, each over the part of the backend that does it.         *)
(* They share no state, so a behaviour is about one of them: `part` is the *)
(* one whose steps are taken, the others stay as they were mounted.        *)
(***************************************************************************)
EXTENDS MissionEditor, HoldTests, DiveStart, ProcessingView, MediaPage, Downloads, WlanSwitch,
        IridiumTest, CameraTile, FirmwareFlash, ClockSync, DiveList, DiveVideos

CONSTANT Parts   \* those looked at

VARIABLE part

\* Bounds: the stick is in before it is pulled, and during a dive the recorder goes over to the
\* internal disk, as when the stick runs full, and not back.
RunsFull == \A s, t \in Segments : s < t /\ disk_of[s] = "inner" => disk_of[t] = "inner"

ConsoleInit ==
    /\ part \in Parts
    /\ EditorInit /\ HoldInit /\ StartInit /\ ProcInit /\ MediaInit /\ DownloadInit /\ WlanInit
    /\ IridiumInit /\ TileInit /\ FlashInit /\ ClockInit /\ DiveListInit /\ VideosInit
    /\ part # "start" => ~vehicle
    /\ part # "media" => recorded = {}
    /\ stick = "in" /\ RunsFull
    /\ part # "videos" => \A s \in Segments : disk_of[s] = "inner"

ConsoleNext ==
    \/ /\ part = "editor" /\ EditorNext
       /\ UNCHANGED << part, holdVars, startVars, procVars, mediaVars, downloadVars,
                       wlanVars, iridiumVars, tileVars, flashVars, clockVars, diveListVars,
                       videoVars >>
    \/ /\ part = "hold" /\ HoldNext
       /\ UNCHANGED << part, editorVars, startVars, procVars, mediaVars, downloadVars,
                       wlanVars, iridiumVars, tileVars, flashVars, clockVars, diveListVars,
                       videoVars >>
    \/ /\ part = "start" /\ StartNext
       /\ UNCHANGED << part, editorVars, holdVars, procVars, mediaVars, downloadVars,
                       wlanVars, iridiumVars, tileVars, flashVars, clockVars, diveListVars,
                       videoVars >>
    \/ /\ part = "processing" /\ ProcNext
       /\ UNCHANGED << part, editorVars, holdVars, startVars, mediaVars, downloadVars,
                       wlanVars, iridiumVars, tileVars, flashVars, clockVars, diveListVars,
                       videoVars >>
    \/ /\ part = "media" /\ MediaNext
       /\ UNCHANGED << part, editorVars, holdVars, startVars, procVars, downloadVars,
                       wlanVars, iridiumVars, tileVars, flashVars, clockVars, diveListVars,
                       videoVars >>
    \/ /\ part = "downloads" /\ DownloadNext
       /\ UNCHANGED << part, editorVars, holdVars, startVars, procVars, mediaVars,
                       wlanVars, iridiumVars, tileVars, flashVars, clockVars, diveListVars,
                       videoVars >>
    \/ /\ part = "network" /\ WlanNext
       /\ UNCHANGED << part, editorVars, holdVars, startVars, procVars, mediaVars,
                       downloadVars, iridiumVars, tileVars, flashVars, clockVars, diveListVars,
                       videoVars >>
    \/ /\ part = "iridium" /\ IridiumNext
       /\ UNCHANGED << part, editorVars, holdVars, startVars, procVars, mediaVars,
                       downloadVars, wlanVars, tileVars, flashVars, clockVars, diveListVars,
                       videoVars >>
    \/ /\ part = "tile" /\ TileNext
       /\ UNCHANGED << part, editorVars, holdVars, startVars, procVars, mediaVars,
                       downloadVars, wlanVars, iridiumVars, flashVars, clockVars, diveListVars,
                       videoVars >>
    \/ /\ part = "flash" /\ FlashNext
       /\ UNCHANGED << part, editorVars, holdVars, startVars, procVars, mediaVars,
                       downloadVars, wlanVars, iridiumVars, tileVars, clockVars, diveListVars,
                       videoVars >>
    \/ /\ part = "clock" /\ ClockNext
       /\ UNCHANGED << part, editorVars, holdVars, startVars, procVars, mediaVars,
                       downloadVars, wlanVars, iridiumVars, tileVars, flashVars, diveListVars,
                       videoVars >>
    \/ /\ part = "dives" /\ DiveListNext
       /\ UNCHANGED << part, editorVars, holdVars, startVars, procVars, mediaVars,
                       downloadVars, wlanVars, iridiumVars, tileVars, flashVars, clockVars,
                       videoVars >>
    \/ /\ part = "videos" /\ VideosNext
       /\ UNCHANGED << part, editorVars, holdVars, startVars, procVars, mediaVars, downloadVars,
                       wlanVars, iridiumVars, tileVars, flashVars, clockVars, diveListVars >>

consoleVars == << part, editorVars, holdVars, startVars, procVars, mediaVars, downloadVars,
                  wlanVars, iridiumVars, tileVars, flashVars, clockVars, diveListVars,
                  videoVars >>

ConsoleSpec == ConsoleInit /\ [][ConsoleNext]_consoleVars

\* A page nobody uses has no step it must take, so what is weakly fair of it may be asked
\* whichever is used; only the watchdog needs nobody.
WeakFairness ==
    /\ HoldFairness /\ ProcSteps /\ DownloadFairness /\ TileSteps /\ SwitchSteps /\ FlashFairness
    /\ WF_clockVars(Later) /\ WF_wlanVars(part = "network" /\ DogWakes)

\* What only comes about now and then.  Only one part ever takes steps: what is strongly fair of
\* a union of steps of several parts is strongly fair of the one each of them has in it.
NowAndThen ==
    /\ SF_consoleVars((AnswerComes \/ ProbeComesBack \/ StatusComes \/ FindsFix) /\ ConsoleNext)
    /\ SF_consoleVars((EndDelivered \/ DogAsserts(TRUE) \/ ReadsSoon) /\ ConsoleNext)
    /\ SF_wlanVars(StateRead(intent))

LiveSpec == ConsoleSpec /\ WeakFairness /\ NowAndThen

\* The type invariants of all parts.
ConsoleTypeOK ==
    /\ EditorTypeOK /\ HoldTypeOK /\ StartTypeOK /\ ProcTypeOK /\ MediaTypeOK /\ DownloadTypeOK
    /\ WlanTypeOK /\ IridiumTypeOK /\ TileTypeOK /\ FlashTypeOK /\ ClockTypeOK /\ DiveListTypeOK
    /\ VideosTypeOK
=============================================================================
