----------------------------- MODULE FirmwareFlash -----------------------------
(***************************************************************************)
(* Flashing the tracker: the page (ArtemisFlash.vue over useArtemis and    *)
(* useArtemisFlash) and the sessions of services/artemis.py, which stop    *)
(* the autopilot to free the serial port and start it afterwards.          *)
(*                                                                         *)
(* Sessions are numbered in their order; nothing holds a second one back.  *)
(* An upload or a start that is under way when the page is left goes on    *)
(* without it, and so may start a session; what such a page reads of it    *)
(* shows nowhere.  Ports, settings and the lines of the output are left    *)
(* out.  An answer to a poll of an earlier session may free the button     *)
(* while a new one is being started (late); presses made then are left     *)
(* out.                                                                    *)
(***************************************************************************)
EXTENDS Integers

CONSTANTS
    MaxFlashes,  \* bound on the sessions
    MaxOutages,  \* bound on restarts of the backend
    Looks        \* slots for the polls on their way at a time

ASSUME FlashesAssumption == MaxFlashes \in Nat /\ MaxOutages \in Nat

Flash == 1..MaxFlashes
Report == [of : 0..MaxFlashes, says : {"none", "asked", "running", "won", "failed", "unknown"}]
NoReport == [of |-> 0, says |-> "none"]

VARIABLES
    stage,       \* of each session; gone: forgotten by a restart
    freed,       \* autopilot_stopped
    won,         \* success
    flashes,     \* the sessions begun
    mavlink,     \* the autopilot runs, and has the port
    stranded,    \* history: it is down, and BlueOS did not do as told or the backend restarted
    outages,
    flash_open,  \* the page is mounted
    uploading,
    flashing,
    sending,     \* the request for a session
    mine,        \* the session it was given
    watching,    \* pollTimer is set
    looks,       \* polls, and what they answer
    outcome,     \* result
    adrift,      \* uploads and starts of pages that were left
    late         \* history: a session was begun while a poll of another was on its way

loader == << stage, freed, won, flashes, mavlink, stranded >>
flashPage == << flash_open, uploading, flashing, sending, mine, watching, looks, outcome, late >>
flashVars == << loader, outages, flashPage, adrift >>

FlashTypeOK ==
    /\ stage \in [Flash -> {"none", "stops", "loads", "restarts", "over", "gone"}]
    /\ freed \in [Flash -> BOOLEAN] /\ won \in [Flash -> BOOLEAN]
    /\ flashes \in 0..MaxFlashes /\ mavlink \in BOOLEAN /\ stranded \in BOOLEAN
    /\ outages \in 0..MaxOutages
    /\ flash_open \in BOOLEAN /\ uploading \in BOOLEAN /\ flashing \in BOOLEAN
    /\ sending \in {"none", "sent", "accepted"} /\ mine \in 0..MaxFlashes
    /\ watching \in BOOLEAN /\ looks \in [Looks -> Report]
    /\ outcome \in {"none", "won", "failed"} /\ adrift \in 0..MaxFlashes /\ late \in BOOLEAN

NoLooks == looks' = [l \in Looks |-> NoReport]

FlashInit ==
    /\ stage = [f \in Flash |-> "none"]
    /\ freed = [f \in Flash |-> FALSE] /\ won = [f \in Flash |-> FALSE]
    /\ flashes = 0 /\ mavlink = TRUE /\ stranded = FALSE /\ outages = 0
    /\ flash_open = FALSE /\ uploading = FALSE /\ flashing = FALSE /\ sending = "none"
    /\ mine = 0 /\ watching = FALSE /\ looks = [l \in Looks |-> NoReport] /\ outcome = "none"
    /\ adrift = 0 /\ late = FALSE

-----------------------------------------------------------------------------
(* A session.                                                              *)

\* start_flash.
BeginFlash ==
    /\ flashes < MaxFlashes
    /\ flashes' = flashes + 1 /\ stage' = [stage EXCEPT ![flashes + 1] = "stops"]
    /\ UNCHANGED << freed, won, mavlink, stranded >>

\* A refusal, and an answer that is lost, are the same to the code; it goes on after either.
StopAutopilot(f) ==
    /\ stage[f] = "stops"
    /\ stage' = [stage EXCEPT ![f] = "loads"]
    /\ \/ freed' = [freed EXCEPT ![f] = TRUE] /\ mavlink' = FALSE /\ UNCHANGED stranded
       \/ UNCHANGED << freed, mavlink, stranded >>
       \/ mavlink' = FALSE /\ stranded' = TRUE /\ UNCHANGED freed
    /\ UNCHANGED << won, flashes, outages, flashPage, adrift >>

RestartsIfWon(f, ok) == freed[f] /\ ok  \* mutant: a failure leaves the autopilot down
Restarts(f, ok) == freed[f]

\* _invoke_svl, or the exception it ends with.
LoaderEnds(f, ok) ==
    /\ stage[f] = "loads"
    /\ won' = [won EXCEPT ![f] = ok]
    /\ stage' = [stage EXCEPT ![f] = IF Restarts(f, ok) THEN "restarts" ELSE "over"]
    /\ UNCHANGED << freed, flashes, mavlink, stranded, outages, flashPage, adrift >>

StartAutopilot(f) ==
    /\ stage[f] = "restarts"
    /\ stage' = [stage EXCEPT ![f] = "over"]
    /\ \/ mavlink' = TRUE /\ stranded' = FALSE
       \/ stranded' = ~mavlink /\ UNCHANGED mavlink
    /\ UNCHANGED << freed, won, flashes, outages, flashPage, adrift >>

SessionStep(f) == StopAutopilot(f) \/ (\E ok \in BOOLEAN : LoaderEnds(f, ok)) \/ StartAutopilot(f)

\* Sessions are in memory; one that is at work ends where it is.
RestartLoader ==
    /\ outages < MaxOutages /\ outages' = outages + 1
    /\ stage' = [f \in Flash |-> IF stage[f] = "none" THEN "none" ELSE "gone"]
    /\ stranded' = ~mavlink
    /\ UNCHANGED << freed, won, flashes, mavlink, flashPage, adrift >>

-----------------------------------------------------------------------------
(* The page.                                                               *)

OpenFlash ==
    /\ ~flash_open
    /\ flash_open' = TRUE
    /\ UNCHANGED << loader, outages, uploading, flashing, sending, mine, watching, looks, outcome,
                    late, adrift >>

LeaveFlash ==
    /\ flash_open
    /\ flash_open' = FALSE /\ uploading' = FALSE /\ flashing' = FALSE /\ sending' = "none"
    /\ mine' = 0 /\ watching' = FALSE /\ NoLooks /\ outcome' = "none" /\ late' = FALSE
    /\ IF (uploading \/ sending = "sent") /\ adrift < MaxFlashes
       THEN adrift' = adrift + 1 ELSE UNCHANGED adrift
    /\ UNCHANGED << loader, outages >>

\* What the page that was left had asked for.
AdriftStarts ==
    /\ adrift > 0
    /\ adrift' = adrift - 1
    /\ BeginFlash \/ UNCHANGED loader
    /\ UNCHANGED << outages, flashPage >>

\* handleFlash.
PressFlash ==
    /\ flash_open /\ ~uploading /\ ~flashing /\ sending = "none" /\ ~watching
    /\ uploading' = TRUE
    /\ UNCHANGED << loader, outages, flash_open, flashing, sending, mine, watching, looks, outcome,
                    late, adrift >>

UploadFails ==
    /\ uploading
    /\ uploading' = FALSE
    /\ UNCHANGED << loader, outages, flash_open, flashing, sending, mine, watching, looks, outcome,
                    late, adrift >>

\* startFlash.
Uploaded ==
    /\ uploading
    /\ uploading' = FALSE /\ flashing' = TRUE /\ outcome' = "none" /\ sending' = "sent"
    /\ late' = (late \/ \E l \in Looks : looks[l].says # "none")
    /\ UNCHANGED << loader, outages, flash_open, mine, watching, looks, adrift >>

FlashReaches ==
    /\ sending = "sent"
    /\ BeginFlash
    /\ sending' = "accepted" /\ mine' = flashes + 1
    /\ UNCHANGED << outages, flash_open, uploading, flashing, watching, looks, outcome, late,
                    adrift >>

\* Refused or lost, on its way there or back.
FlashFails ==
    /\ sending \in {"sent", "accepted"}
    /\ sending' = "none" /\ flashing' = FALSE /\ mine' = 0
    /\ UNCHANGED << loader, outages, flash_open, uploading, watching, looks, outcome, late,
                    adrift >>

\* pollProgress.
FlashAccepted ==
    /\ sending = "accepted"
    /\ sending' = "none" /\ watching' = TRUE
    /\ UNCHANGED << loader, outages, flash_open, uploading, flashing, mine, looks, outcome, late,
                    adrift >>

\* The interval, every 0.5 s; it does not wait for the answer.
Look(l) ==
    /\ watching /\ looks[l].says = "none"
    /\ looks' = [looks EXCEPT ![l] = [of |-> mine, says |-> "asked"]]
    /\ UNCHANGED << loader, outages, flash_open, uploading, flashing, sending, mine, watching,
                    outcome, late, adrift >>

Newest(f) == flashes  \* mutant: the status of the latest session
Named(f) == f

ReportOn(f) == CASE stage[f] = "over" -> (IF won[f] THEN "won" ELSE "failed")
                 [] stage[f] = "gone" -> "unknown"
                 [] OTHER -> "running"

LookReaches(l) ==
    /\ looks[l].says = "asked"
    /\ looks' = [looks EXCEPT ![l].says = ReportOn(Named(looks[l].of))]
    /\ UNCHANGED << loader, outages, flash_open, uploading, flashing, sending, mine, watching,
                    outcome, late, adrift >>

LookAnswered(l) == looks' = [looks EXCEPT ![l] = NoReport]

\* Lines only.
StillRunning(l) ==
    /\ looks[l].says = "running"
    /\ LookAnswered(l)
    /\ UNCHANGED << loader, outages, flash_open, uploading, flashing, sending, mine, watching,
                    outcome, late, adrift >>

IsOver(l) ==
    /\ looks[l].says \in {"won", "failed"}
    /\ LookAnswered(l)
    /\ watching' = FALSE /\ flashing' = FALSE /\ outcome' = looks[l].says
    /\ UNCHANGED << loader, outages, flash_open, uploading, sending, mine, late, adrift >>

\* No such session, or the request fails: the page gives up.
LookFails(l) ==
    /\ looks[l].says # "none"
    /\ LookAnswered(l)
    /\ watching' = FALSE /\ flashing' = FALSE
    /\ UNCHANGED << loader, outages, flash_open, uploading, sending, mine, outcome, late, adrift >>

FlashNext ==
    \/ \E f \in Flash : SessionStep(f)
    \/ RestartLoader
    \/ OpenFlash
    \/ LeaveFlash
    \/ AdriftStarts
    \/ PressFlash
    \/ UploadFails
    \/ Uploaded
    \/ FlashReaches
    \/ FlashFails
    \/ FlashAccepted
    \/ \E l \in Looks : Look(l) \/ LookReaches(l) \/ StillRunning(l) \/ IsOver(l) \/ LookFails(l)

\* Every await of a session is bounded in time, but the loader's, which ends by itself.
FlashFairness == WF_flashVars(\E f \in Flash : SessionStep(f))

FlashSpec == FlashInit /\ [][FlashNext]_flashVars /\ FlashFairness

-----------------------------------------------------------------------------
(* Properties.                                                             *)

\* The banner says how the flashing ended that was asked for on this page, and not before it
\* ended, whatever else is flashed, lost or restarted, as long as it was not asked for while a
\* poll of the one before was still on its way.
FlashVerdict ==
    outcome # "none" /\ ~late => mine # 0 /\ stage[mine] \in {"over", "gone"}
                                 /\ (outcome = "won") = won[mine]

\* "Stop it before flashing and always start it again afterwards (even on failure) so we never
\* leave the vehicle without MAVLink" (services/artemis.py:96), whoever else flashes, unless
\* BlueOS does not do it or the backend restarts.
MavlinkReturns == []<>(mavlink \/ stranded)
=============================================================================
