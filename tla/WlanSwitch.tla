------------------------------- MODULE WlanSwitch -------------------------------
(***************************************************************************)
(* The external radio, which is a hotspot or joins another network: the    *)
(* switch and the watchdog of services/network.py and the page that asks   *)
(* for a switch (NetworkSetup.vue over useWifiNetworks).                   *)
(*                                                                         *)
(* The switch is the one over the WiFi manager's v2 interface; that of v1  *)
(* goes through the same steps with other commands.  Attempts are numbered *)
(* (their time stamps).  The manager may refuse any command, the radio may *)
(* lose its network or its hotspot (after a dive), the backend may restart.*)
(* What is written to the intent file is what is in memory, but for the    *)
(* mode, which a start resets.                                             *)
(***************************************************************************)
EXTENDS Integers, FiniteSets

CONSTANTS
    MaxAttempts, \* bound on the switches that are begun
    MaxUpsets,   \* bound on restarts and on the times the radio drops what it does
    MaxAnswers   \* bound on the states on their way to the page when it polls

ASSUME AttemptsAssumption == MaxAttempts \in Nat /\ MaxUpsets \in Nat /\ MaxAnswers \in Nat

Attempt == 0..MaxAttempts
Intent == [mode : {"ap", "sta_pending", "sta_connected"}, attempt : Attempt, failed : BOOLEAN]
AsAp(i) == [i EXCEPT !.mode = "ap"]

VARIABLES
    intent,      \* _wlan_state with its last_attempt
    radio,       \* hotspot, mute (a hotspot in name only), normal, or sta
    task,        \* where _wlan_switch_task is
    attempt,     \* the attempt it makes
    attempts,
    probe,       \* intents read by a get_wlan_state that now asks the manager
    dog,         \* where the watchdog is
    upsets,
    net_open,    \* the page is mounted
    seen,        \* wlanState of the page
    answers_due, \* intents on their way to it
    asked,       \* the dialog: showSwitchConfirm; or the request is under way
    waived       \* dismissedAttemptTimestamp

radioSide == << intent, radio, task, attempt, attempts, probe, dog, upsets >>
netPage == << net_open, seen, answers_due, asked, waived >>
wlanVars == << radioSide, netPage >>

WlanTypeOK ==
    /\ intent \in Intent /\ seen \in Intent /\ probe \subseteq Intent
    /\ radio \in {"hotspot", "mute", "normal", "sta"}
    /\ task \in {"none", "turn_off", "join", "wait", "restore", "leave", "return"}
    /\ attempt \in Attempt /\ attempts \in Attempt /\ waived \in Attempt
    /\ dog \in {"asleep", "looks", "asserts"} /\ upsets \in 0..MaxUpsets
    /\ net_open \in BOOLEAN /\ answers_due \subseteq Intent
    /\ asked \in {"no", "confirm", "sent"}

Boot == [mode |-> "ap", attempt |-> 0, failed |-> FALSE]

WlanInit ==
    /\ intent = Boot /\ radio = "hotspot"
    /\ task = "none" /\ attempt = 0 /\ attempts = 0 /\ probe = {}
    /\ dog = "asleep" /\ upsets = 0
    /\ net_open = FALSE /\ seen = Boot /\ answers_due = {} /\ asked = "no" /\ waived = 0

-----------------------------------------------------------------------------
(* The radio.                                                              *)

Upset == upsets < MaxUpsets /\ upsets' = upsets + 1

Drops ==
    /\ Upset
    /\ \/ radio = "sta" /\ radio' = "normal"
       \/ radio = "hotspot" /\ radio' \in {"mute", "normal"}
    /\ UNCHANGED << intent, task, attempt, attempts, probe, dog, netPage >>

Associates ==
    /\ task = "wait" /\ radio = "normal"
    /\ radio' = "sta"
    /\ UNCHANGED << intent, task, attempt, attempts, probe, dog, upsets, netPage >>

ByName == radio' = IF radio = "mute" THEN "mute" ELSE "hotspot"  \* mutant: a name is enough
Cycled == radio' = "hotspot"

\* _ensure_secondary_hotspot: a hotspot in name only goes through "normal" first.
Ensured(ok) ==
    IF ok THEN Cycled ELSE radio' \in {radio, "normal", "mute"} /\ radio' # "hotspot"

-----------------------------------------------------------------------------
(* The switch.                                                             *)

\* begin_switch_to_sta: refused while one is pending or a task is at work.
BeginSta ==
    /\ asked = "sent"
    /\ IF intent.mode # "sta_pending" /\ task = "none"
       THEN /\ attempts < MaxAttempts /\ attempts' = attempts + 1 /\ attempt' = attempts + 1
            /\ intent' = [intent EXCEPT !.mode = "sta_pending"] /\ task' = "turn_off"
       ELSE UNCHANGED << intent, task, attempt, attempts >>
    /\ asked' = "no" /\ answers_due' = answers_due \cup {intent'}
    /\ UNCHANGED << radio, probe, dog, upsets, net_open, seen, waived >>

BeginAp ==
    /\ net_open /\ seen.mode = "sta_connected" /\ task = "none"
    /\ task' = "leave" /\ answers_due' = answers_due \cup {intent}
    /\ UNCHANGED << intent, radio, attempt, attempts, probe, dog, upsets, net_open, seen, asked,
                    waived >>

TurnOff ==
    /\ task = "turn_off"
    /\ \/ radio' = "normal" /\ task' = "join"
       \/ task' = "restore" /\ UNCHANGED radio
    /\ UNCHANGED << intent, attempt, attempts, probe, dog, upsets, netPage >>

Join ==
    /\ task = "join"
    /\ task' \in {"wait", "restore"}
    /\ UNCHANGED << intent, radio, attempt, attempts, probe, dog, upsets, netPage >>

Connected ==
    /\ task = "wait" /\ radio = "sta"
    /\ task' = "none"
    /\ intent' = [mode |-> "sta_connected", attempt |-> attempt, failed |-> FALSE]
    /\ UNCHANGED << radio, attempt, attempts, probe, dog, upsets, netPage >>

TimesOut ==
    /\ task = "wait"
    /\ task' = "restore"
    /\ UNCHANGED << intent, radio, attempt, attempts, probe, dog, upsets, netPage >>

Failure == [mode |-> "ap", attempt |-> attempt, failed |-> TRUE]

Restore ==
    /\ task = "restore"
    /\ \E ok \in BOOLEAN : Ensured(ok)
    /\ task' = "none" /\ intent' = Failure
    /\ UNCHANGED << attempt, attempts, probe, dog, upsets, netPage >>

LeaveNetwork ==
    /\ task = "leave"
    /\ radio' \in {radio, IF radio = "sta" THEN "normal" ELSE radio}
    /\ task' = "return"
    /\ UNCHANGED << intent, attempt, attempts, probe, dog, upsets, netPage >>

ReturnToAp ==
    /\ task = "return"
    /\ \E ok \in BOOLEAN : Ensured(ok)
    /\ task' = "none" /\ intent' = AsAp(intent)
    /\ UNCHANGED << attempt, attempts, probe, dog, upsets, netPage >>

TaskStep == TurnOff \/ Join \/ Connected \/ TimesOut \/ Restore \/ LeaveNetwork \/ ReturnToAp

-----------------------------------------------------------------------------
(* get_wlan_state looks at a connection it believes in; what it read       *)
(* before it asked is written after.                                       *)

Probe ==
    /\ intent.mode = "sta_connected"
    /\ probe' = probe \cup {intent}
    /\ UNCHANGED << intent, radio, task, attempt, attempts, dog, upsets, netPage >>

\* The network is lost, or the address changed.
ProbeWrites(i) ==
    /\ i \in probe
    /\ probe' = probe \ {i}
    /\ intent' = IF radio = "sta" THEN i ELSE AsAp(i)
    /\ UNCHANGED << radio, task, attempt, attempts, dog, upsets, netPage >>

\* Nothing new, or no answer.
ProbeEnds(i) ==
    /\ i \in probe
    /\ probe' = probe \ {i}
    /\ UNCHANGED << intent, radio, task, attempt, attempts, dog, upsets, netPage >>

-----------------------------------------------------------------------------
(* The watchdog: every 60 s it reads the intent, looks at the radio and    *)
(* acts, with an await between each two.                                   *)

DogWakes ==
    /\ dog = "asleep" /\ intent.mode = "ap"
    /\ dog' = "looks"
    /\ UNCHANGED << intent, radio, task, attempt, attempts, probe, upsets, netPage >>

DogLooks ==
    /\ dog = "looks"
    /\ dog' = IF radio = "hotspot" THEN "asleep" ELSE "asserts"
    /\ UNCHANGED << intent, radio, task, attempt, attempts, probe, upsets, netPage >>

DogAsserts(ok) ==
    /\ dog = "asserts"
    /\ dog' = "asleep" /\ Ensured(ok)
    /\ UNCHANGED << intent, task, attempt, attempts, probe, upsets, netPage >>

\* A start configures the hotspot, as far as it can, and leaves any other network.
RestartNetwork ==
    /\ Upset
    /\ intent' = AsAp(intent) /\ task' = "none" /\ probe' = {} /\ dog' = "asleep"
    /\ radio' \in {"hotspot", IF radio = "sta" THEN "normal" ELSE radio}
    /\ UNCHANGED << attempt, attempts, netPage >>

-----------------------------------------------------------------------------
(* The page.                                                               *)

OpenNetwork ==
    /\ ~net_open
    /\ net_open' = TRUE
    /\ UNCHANGED << radioSide, seen, answers_due, asked, waived >>

LeaveNetworkPage ==
    /\ net_open
    /\ net_open' = FALSE /\ seen' = Boot /\ answers_due' = {} /\ asked' = "no" /\ waived' = 0
    /\ UNCHANGED radioSide

PollSwitching == net_open /\ seen.mode = "sta_pending"  \* mutant: polled during a switch only
PollsState == net_open

\* fetchWlanState, every 3 s.
PollState ==
    /\ PollsState /\ Cardinality(answers_due) < MaxAnswers
    /\ answers_due' = answers_due \cup {intent}
    /\ UNCHANGED << radioSide, net_open, seen, asked, waived >>

StateRead(i) ==
    /\ i \in answers_due
    /\ answers_due' = answers_due \ {i} /\ seen' = i
    /\ UNCHANGED << radioSide, net_open, asked, waived >>

\* "Backend may be momentarily unreachable": nothing is shown.
StateLost(i) ==
    /\ i \in answers_due
    /\ answers_due' = answers_due \ {i}
    /\ UNCHANGED << radioSide, net_open, seen, asked, waived >>

RequestSwitch ==
    /\ net_open /\ asked = "no" /\ seen.mode # "sta_pending"
    /\ asked' = "confirm"
    /\ UNCHANGED << radioSide, net_open, seen, answers_due, waived >>

ConfirmSwitch ==
    /\ asked = "confirm"
    /\ asked' = "sent"
    /\ UNCHANGED << radioSide, net_open, seen, answers_due, waived >>

CancelSwitch ==
    /\ asked = "confirm"
    /\ asked' = "no"
    /\ UNCHANGED << radioSide, net_open, seen, answers_due, waived >>

\* failureBanner.
Banner == seen.failed /\ seen.mode = "ap" /\ waived # seen.attempt

DismissBanner ==
    /\ net_open /\ Banner
    /\ waived' = seen.attempt
    /\ UNCHANGED << radioSide, net_open, seen, answers_due, asked >>

WlanNext ==
    \/ Drops
    \/ Associates
    \/ BeginSta
    \/ BeginAp
    \/ TaskStep
    \/ Probe
    \/ \E i \in probe : ProbeWrites(i) \/ ProbeEnds(i)
    \/ DogWakes
    \/ DogLooks
    \/ \E ok \in BOOLEAN : DogAsserts(ok)
    \/ RestartNetwork
    \/ OpenNetwork
    \/ LeaveNetworkPage
    \/ PollState
    \/ \E i \in answers_due : StateRead(i) \/ StateLost(i)
    \/ RequestSwitch
    \/ ConfirmSwitch
    \/ CancelSwitch
    \/ DismissBanner

\* The task goes on, each of its steps being bounded in time; the polls go on too; and now
\* and then the manager obeys, and an answer comes through.
SwitchSteps ==
    /\ WF_wlanVars(TaskStep) /\ WF_wlanVars(Probe)
    /\ WF_wlanVars(DogLooks \/ \E ok \in BOOLEAN : DogAsserts(ok))
    /\ WF_wlanVars(PollState) /\ WF_wlanVars(\E i \in answers_due : StateRead(i) \/ StateLost(i))

ProbeComesBack == \E i \in probe : ProbeWrites(i)

\* The watchdog is never stopped.
WlanFairness ==
    /\ SwitchSteps /\ WF_wlanVars(DogWakes)
    /\ SF_wlanVars(ProbeComesBack) /\ SF_wlanVars(DogAsserts(TRUE))
    /\ SF_wlanVars(StateRead(intent))

WlanSpec == WlanInit /\ [][WlanNext]_wlanVars /\ WlanFairness

-----------------------------------------------------------------------------
(* Properties.                                                             *)

\* The vehicle is reachable again and again: a hotspot, or in the network it was told to
\* join, whatever switch fails half-way, whoever overtakes whom and whatever restarts.
Reachable == []<>(radio \in {"hotspot", "sta"})

\* A failed switch comes to be shown on a page that stays open, unless this failure was
\* dismissed: "surface it once the user reconnects to the AP" (services/network.py:1398).
FailureShown ==
    []<>(~net_open \/ ~intent.failed \/ intent.mode # "ap" \/ intent.attempt = waived \/ Banner)

\* "Suppressed while WLAN intent is sta_pending or sta_connected ... re-asserting hotspot
\* mode would tear down the user's chosen connection" (services/network.py:661).
WatchdogYields == [][ (\E ok \in BOOLEAN : DogAsserts(ok)) => intent.mode = "ap" ]_wlanVars
=============================================================================
