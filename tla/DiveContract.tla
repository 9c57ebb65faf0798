---------------------------- MODULE DiveContract ----------------------------
(***************************************************************************)
(* What the dive script promises about the weight, whatever its sensors    *)
(* say and whenever the autopilot restarts: it ascends only with the       *)
(* release energised first, it never goes back from an ascent to a dive    *)
(* without passing through the surface, and a mission's burn outlives      *)
(* neither the mission nor the keepalive that follows it.                  *)
(***************************************************************************)
VARIABLES
    phase,    \* "surface", "diving", "ascending" or "over"
    burning   \* the mission (not an on-deck test) holds the release on

vars == <<phase, burning>>

TypeOK ==
    /\ phase \in {"surface", "diving", "ascending", "over"}
    /\ burning \in BOOLEAN

Init == phase = "surface" /\ ~burning

\* A mission starts with the release off.
Start ==
    /\ phase = "surface" /\ ~burning
    /\ phase' = "diving" /\ ~burning'

\* Timer, failsafe or deadman: the release goes on as the ascent begins.
Release ==
    /\ phase \in {"surface", "diving"} /\ ~burning
    /\ phase' = "ascending" /\ burning'

\* A sustained ascent ends the burn.
EndBurn ==
    /\ phase = "ascending" /\ burning
    /\ phase' = phase /\ ~burning'

\* The surface is reached, or the release has failed.
Finish ==
    /\ phase # "over" /\ phase' = "over"
    /\ burning' => burning

\* The first keepalive tick switches a burn off that was still on.
Quieten ==
    /\ phase = "over" /\ burning
    /\ phase' = phase /\ ~burning'

\* The operator cancels, or the autopilot restarts.
Abandon == phase # "surface" /\ phase' = "surface" /\ ~burning'

Next == Start \/ Release \/ EndBurn \/ Finish \/ Quieten \/ Abandon

Spec == Init /\ [][Next]_vars
=============================================================================
