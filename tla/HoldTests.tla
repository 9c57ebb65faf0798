------------------------------- MODULE HoldTests -------------------------------
(***************************************************************************)
(* The hold-to-test buttons of the sensor page (SensorConfiguration.vue):  *)
(* while a button is held the page asks every 1.5 s that the light, or the *)
(* weight release, be on; letting go asks twice that it be off.  The       *)
(* script on the autopilot lets go by itself some seconds after it began   *)
(* (doris.lua), so a test ends even if nothing more is heard.              *)
(*                                                                         *)
(* Requests are answered in any order, or fail.  An interval is named by   *)
(* the press that started it.  One visit of the page is modelled.          *)
(***************************************************************************)
EXTENDS Integers, FiniteSets

CONSTANTS
    Buttons,     \* "light" and "release"
    MaxPresses   \* bound on the presses of the visit

ASSUME ButtonsAssumption == Buttons \subseteq {"light", "release"} /\ MaxPresses \in Nat

VARIABLES
    on_page,     \* the page is mounted
    down,        \* the operator holds the button
    active,      \* lightTestActive, releaseTestActive
    handle,      \* lightKeepAlive, releaseKeepAlive: the press whose interval it is, or 0
    intervals,   \* the intervals that have not been cleared
    posts,       \* requests in flight; press: the press that awaits the answer, or 0
    later,       \* the second "off", due in 300 ms
    energised,   \* what the vehicle does
    presses,
    overtaken    \* history: pressed, or left, before an earlier press had its answer

holdVars == << on_page, down, active, handle, intervals, posts, later, energised, presses,
               overtaken >>

Presses == 1..MaxPresses
Post == [on : BOOLEAN, press : 0..MaxPresses]

HoldTypeOK ==
    /\ on_page \in BOOLEAN
    /\ down \in [Buttons -> BOOLEAN] /\ active \in [Buttons -> BOOLEAN]
    /\ handle \in [Buttons -> 0..MaxPresses]
    /\ intervals \in [Buttons -> SUBSET Presses]
    /\ posts \in [Buttons -> SUBSET Post]
    /\ later \in [Buttons -> BOOLEAN] /\ energised \in [Buttons -> BOOLEAN]
    /\ presses \in 0..MaxPresses
    /\ overtaken \in [Buttons -> BOOLEAN]

HoldInit ==
    /\ on_page = TRUE
    /\ down = [b \in Buttons |-> FALSE] /\ active = [b \in Buttons |-> FALSE]
    /\ handle = [b \in Buttons |-> 0] /\ intervals = [b \in Buttons |-> {}]
    /\ posts = [b \in Buttons |-> {}] /\ later = [b \in Buttons |-> FALSE]
    /\ energised = [b \in Buttons |-> FALSE]
    /\ presses = 0 /\ overtaken = [b \in Buttons |-> FALSE]

Asks(b, on, press) == posts' = [posts EXCEPT ![b] = @ \cup {[on |-> on, press |-> press]}]
Awaited(b) == {p \in posts[b] : p.press # 0}

-----------------------------------------------------------------------------
(* lightTestOn, releaseTestOn: up to the await of the first request.       *)
Press(b) ==
    /\ on_page /\ ~down[b] /\ ~active[b] /\ presses < MaxPresses
    /\ down' = [down EXCEPT ![b] = TRUE]
    /\ active' = [active EXCEPT ![b] = TRUE]
    /\ presses' = presses + 1
    /\ Asks(b, TRUE, presses + 1)
    /\ overtaken' = [overtaken EXCEPT ![b] = @ \/ Awaited(b) # {}]
    /\ UNCHANGED << on_page, handle, intervals, later, energised >>

Cleared(b) == intervals[b] \ {handle[b]}
KeptTicking(b) == intervals[b]  \* mutant: the interval is not cleared

\* clearInterval of what the handle names.
Stopped(b) == Cleared(b)

\* lightTestOff, releaseTestOff.
LetGo(b) ==
    /\ on_page /\ down[b]
    /\ down' = [down EXCEPT ![b] = FALSE]
    /\ active' = [active EXCEPT ![b] = FALSE]
    /\ intervals' = [intervals EXCEPT ![b] = Stopped(b)]
    /\ handle' = [handle EXCEPT ![b] = 0]
    /\ IF active[b]
       THEN Asks(b, FALSE, 0) /\ later' = [later EXCEPT ![b] = TRUE]
       ELSE UNCHANGED << posts, later >>
    /\ UNCHANGED << on_page, energised, presses, overtaken >>

\* The unmount: releaseTestOff, but of the light the interval only.
LeavePage ==
    /\ on_page
    /\ on_page' = FALSE
    /\ down' = [b \in Buttons |-> FALSE]
    /\ active' = [b \in Buttons |-> b = "light" /\ active[b]]
    /\ intervals' = [b \in Buttons |-> Stopped(b)]
    /\ handle' = [b \in Buttons |-> IF b = "light" THEN handle[b] ELSE 0]
    /\ posts' = [b \in Buttons |-> IF b = "release" /\ active[b]
                    THEN posts[b] \cup {[on |-> FALSE, press |-> 0]} ELSE posts[b]]
    /\ later' = [b \in Buttons |-> later[b] \/ (b = "release" /\ active[b])]
    /\ overtaken' = [b \in Buttons |-> overtaken[b] \/ (b = "light" /\ Awaited(b) # {})]
    /\ UNCHANGED << energised, presses >>

SecondOff(b) ==
    /\ later[b]
    /\ later' = [later EXCEPT ![b] = FALSE]
    /\ Asks(b, FALSE, 0)
    /\ UNCHANGED << on_page, down, active, handle, intervals, energised, presses, overtaken >>

KeepAlive(b) ==
    /\ intervals[b] # {}
    /\ Asks(b, TRUE, 0)
    /\ UNCHANGED << on_page, down, active, handle, intervals, later, energised, presses,
                    overtaken >>

HeldStill(b) == active[b]
Answered(b) == TRUE  \* mutant: the answer alone starts the interval

\* `!ok || !active` after the await.
GoesOn(b) == HeldStill(b)

\* The request reaches the vehicle, or not; the page hears so, or not.
Settled(b, p, reached, ok) ==
    /\ p \in posts[b]
    /\ ok => reached
    /\ posts' = [posts EXCEPT ![b] = @ \ {p}]
    /\ energised' = [energised EXCEPT ![b] = IF reached THEN p.on ELSE @]
    /\ CASE p.press = 0 -> UNCHANGED << active, handle, intervals >>
         [] p.press # 0 /\ ok /\ GoesOn(b) ->
              /\ intervals' = [intervals EXCEPT ![b] = @ \cup {p.press}]
              /\ handle' = [handle EXCEPT ![b] = p.press]
              /\ UNCHANGED active
         [] OTHER -> active' = [active EXCEPT ![b] = FALSE] /\ UNCHANGED << handle, intervals >>
    /\ UNCHANGED << on_page, down, later, presses, overtaken >>

\* doris.lua lets go when its time is over, asked or not.
ScriptLetsGo(b) ==
    /\ energised[b]
    /\ energised' = [energised EXCEPT ![b] = FALSE]
    /\ UNCHANGED << on_page, down, active, handle, intervals, posts, later, presses, overtaken >>

Settle(b) == \E p \in posts[b], reached, ok \in BOOLEAN : Settled(b, p, reached, ok)

HoldNext ==
    \/ LeavePage
    \/ \E b \in Buttons : Press(b) \/ LetGo(b) \/ SecondOff(b) \/ KeepAlive(b) \/ Settle(b)
                          \/ ScriptLetsGo(b)

HoldFairness == \A b \in Buttons :
    /\ WF_holdVars(SecondOff(b)) /\ WF_holdVars(Settle(b)) /\ WF_holdVars(ScriptLetsGo(b))

HoldSpec == HoldInit /\ [][HoldNext]_holdVars /\ HoldFairness

-----------------------------------------------------------------------------
(* Properties.                                                             *)

\* The page asks for a test only while its button is held on the page, unless a press or
\* the end of the visit overtook the answer to an earlier press.
AsksWhileHeld ==
    \A b \in Buttons : intervals[b] # {} /\ ~overtaken[b]
        => on_page /\ active[b] /\ intervals[b] = {handle[b]}

\* Once a button is left alone for good, what it tests goes off and stays off, with the
\* same exception, however the requests that are under way are answered.
TestEnds ==
    \A b \in Buttons : <>[](down[b] \/ overtaken[b] \/ ~energised[b])

\* "Leaving the page must not leave the release energised" (SensorConfiguration.vue:880).
LeavingLetsGo == ~on_page /\ "release" \in Buttons => intervals["release"] = {}
=============================================================================
