------------------------------- MODULE DiveStart -------------------------------
(***************************************************************************)
(* The start card of the dashboard (HomeScreen.vue) over useDiveControl,   *)
(* and what the backend makes of a start (routes/dive.py, services/dive.py,*)
(* services/dive_receipt.py; the records it writes are in DiveRecords).    *)
(*                                                                         *)
(* Every configuration has a bottom time of its own and a release date of  *)
(* its own, whichever its method uses; both are named by it.  The fields   *)
(* of a start that choose nothing (names, depth, a date typed over the one *)
(* that was loaded) are left out, and so is releaseWeightBy, which tells   *)
(* the card what to show.  Requests and polls are answered in any order,   *)
(* or lost.                                                                *)
(***************************************************************************)
EXTENDS Integers, FiniteSets

CONSTANTS
    Configs,     \* the stored configurations
    ByDate,      \* those with release method "datetime"
    NoConfig,    \* no configuration, no date
    MaxCalls     \* bound on starts and cancellations

ASSUME ConfigsAssumption == ByDate \subseteq Configs /\ NoConfig \notin Configs /\ MaxCalls \in Nat

Choice == Configs \cup {NoConfig}
Call == [what : {"start", "stop"}, config : Choice, date : Choice, stage : {"sent", "ok", "failed"},
         here : BOOLEAN, hurried : BOOLEAN]
Answer == [active : BOOLEAN, frees : BOOLEAN]

VARIABLES
    home,        \* the dashboard is mounted
    picked,      \* selectedConfiguration
    date,        \* releaseWeightDate and releaseWeightTime: the configuration they are of
    fetching,    \* configurations being fetched
    busy,        \* diveLoading
    shown,       \* isDiving
    answers,     \* status snapshots on their way; frees: a start or stop waits for it
    calls,       \* starts and stops under way; here: asked for by the page now mounted
    ncalls,
    vehicle,     \* DORIS_START
    hurried      \* history: a load failed, or a choice was made before the last was loaded

card == << picked, date, fetching, hurried >>
startVars == << home, card, busy, shown, answers, calls, ncalls, vehicle >>

StartTypeOK ==
    /\ home \in BOOLEAN /\ hurried \in BOOLEAN
    /\ picked \in Choice /\ date \in Choice /\ fetching \subseteq Configs
    /\ busy \in BOOLEAN /\ shown \in BOOLEAN /\ vehicle \in BOOLEAN
    /\ answers \subseteq Answer /\ calls \subseteq Call /\ ncalls \in 0..MaxCalls

StartInit ==
    /\ home = FALSE /\ picked = NoConfig /\ date = NoConfig /\ fetching = {} /\ hurried = FALSE
    /\ busy = FALSE /\ shown = FALSE /\ answers = {} /\ calls = {} /\ ncalls = 0
    /\ vehicle \in BOOLEAN

-----------------------------------------------------------------------------
(* The card.                                                               *)

Mount ==
    /\ ~home
    /\ home' = TRUE /\ UNCHANGED << card, busy, shown, answers, calls, ncalls, vehicle >>

\* Also by choosing "New Configuration".  What the page held is gone.
Unmount ==
    /\ home
    /\ home' = FALSE
    /\ picked' = NoConfig /\ date' = NoConfig /\ fetching' = {} /\ hurried' = FALSE
    /\ busy' = FALSE /\ shown' = FALSE /\ answers' = {}
    /\ calls' = {[c EXCEPT !.here = FALSE] : c \in {d \in calls : d.stage = "sent"}}
    /\ UNCHANGED << ncalls, vehicle >>

Pick(c) ==
    /\ home /\ c # picked
    /\ picked' = c /\ fetching' = fetching \cup {c}
    /\ hurried' = (hurried \/ fetching # {})
    /\ UNCHANGED << home, date, busy, shown, answers, calls, ncalls, vehicle >>

DatesOnly(c) == IF c \in ByDate THEN c ELSE date  \* mutant: an elapsed release has no date

\* The stored date, or what the elapsed time amounts to from now.
ReleaseOf(c) == c

Loaded(c) ==
    /\ home /\ c \in fetching
    /\ fetching' = fetching \ {c} /\ date' = ReleaseOf(c)
    /\ UNCHANGED << home, picked, hurried, busy, shown, answers, calls, ncalls, vehicle >>

NotLoaded(c) ==
    /\ home /\ c \in fetching
    /\ fetching' = fetching \ {c} /\ hurried' = TRUE
    /\ UNCHANGED << home, picked, date, busy, shown, answers, calls, ncalls, vehicle >>

-----------------------------------------------------------------------------
(* Starting and cancelling.                                                *)

CallBackend(what, config, when) ==
    /\ home /\ ~busy /\ ncalls < MaxCalls
    /\ calls' = calls \cup {[what |-> what, config |-> config, date |-> when, stage |-> "sent",
                             here |-> TRUE, hurried |-> hurried \/ fetching # {}]}
    /\ busy' = TRUE /\ ncalls' = ncalls + 1
    /\ UNCHANGED << home, card, shown, answers, vehicle >>

StartDive == ~shown /\ picked # NoConfig /\ CallBackend("start", picked, date)
StopDive == shown /\ CallBackend("stop", NoConfig, NoConfig)

\* The backend refuses (no release path, no such configuration, a parameter that did not
\* stick), starts the dive, or clears DORIS_START.
Reaches(s) ==
    /\ s \in calls /\ s.stage = "sent"
    /\ \/ /\ calls' = (calls \ {s}) \cup {[s EXCEPT !.stage = "failed"]}
          /\ UNCHANGED vehicle
       \/ /\ calls' = (calls \ {s}) \cup {[s EXCEPT !.stage = "ok"]}
          /\ vehicle' = (s.what = "start")
    /\ UNCHANGED << home, card, busy, shown, answers, ncalls >>

\* A success is followed by a fetch of the status, which the button waits for.
Replied(s, lost) ==
    /\ s \in calls /\ s.here /\ (s.stage # "sent" \/ lost)
    /\ calls' = calls \ {s}
    /\ IF s.stage = "ok" /\ ~lost
       THEN answers' = answers \cup {[active |-> vehicle, frees |-> TRUE]} /\ UNCHANGED busy
       ELSE busy' = FALSE /\ UNCHANGED answers
    /\ UNCHANGED << home, card, shown, ncalls, vehicle >>

Reply(s) == \E lost \in BOOLEAN : Replied(s, lost)

\* The mission completes, or is cancelled from elsewhere.
DiveEnds ==
    /\ vehicle
    /\ vehicle' = FALSE
    /\ UNCHANGED << home, card, busy, shown, answers, calls, ncalls >>

-----------------------------------------------------------------------------
(* The status poll, every 5 s whatever is still on its way.                *)

Poll ==
    /\ home
    /\ answers' = answers \cup {[active |-> vehicle, frees |-> FALSE]}
    /\ UNCHANGED << home, card, busy, shown, calls, ncalls, vehicle >>

PollAnswered(a) ==
    /\ a \in answers
    /\ answers' = answers \ {a}
    /\ shown' = a.active /\ busy' = (busy /\ ~a.frees)
    /\ UNCHANGED << home, card, calls, ncalls, vehicle >>

PollLost(a) ==
    /\ a \in answers
    /\ answers' = answers \ {a}
    /\ busy' = (busy /\ ~a.frees)
    /\ UNCHANGED << home, card, shown, calls, ncalls, vehicle >>

StartNext ==
    \/ Mount
    \/ Unmount
    \/ \E c \in Configs : Pick(c) \/ Loaded(c) \/ NotLoaded(c)
    \/ StartDive
    \/ StopDive
    \/ \E s \in calls : Reaches(s) \/ Reply(s)
    \/ DiveEnds
    \/ Poll
    \/ \E a \in answers : PollAnswered(a) \/ PollLost(a)

StartSpec == StartInit /\ [][StartNext]_startVars

-----------------------------------------------------------------------------
(* Properties.                                                             *)

\* A start sends the release date of the configuration it names, if every choice was
\* loaded before the next and before the start.
OwnRelease ==
    \A s \in calls : s.what = "start" /\ ~s.hurried => s.date = s.config
=============================================================================
