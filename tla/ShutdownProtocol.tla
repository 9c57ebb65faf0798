--------------------------- MODULE ShutdownProtocol ---------------------------
(***************************************************************************)
(* What the shutdown handshake promises while the operator leaves the      *)
(* bench policy alone: however many requests, failures, restarts and tasks *)
(* there are, it is one sequence that prepares, exchanges the ACK, is      *)
(* confirmed and halts.  The AGT begins to count only during an exchange,  *)
(* no exchange and no halt is of a vehicle that is armed or not synced,    *)
(* and the host halts only if the AGT has counted during the exchange.     *)
(***************************************************************************)
VARIABLES
    phase,    \* of the sequence: "idle", "preparing", "exchanging" or
              \* "confirmed"; "void" once the policy was changed
    agt,      \* "quiet", "asking" or "counting"
    payload,  \* "on", "halted" or "cut"
    safe,     \* the vehicle is disarmed and the disk synced
    granted   \* the AGT has counted since the exchange began

vars == <<phase, agt, payload, safe, granted>>

Init ==
    /\ phase = "idle" /\ agt = "quiet" /\ payload = "on"
    /\ safe \in BOOLEAN /\ ~granted

On == payload = "on"
Goes(from, to) == On /\ phase = from /\ phase' = to

Begin ==
    /\ Goes("idle", "preparing") /\ agt # "quiet"
    /\ UNCHANGED <<agt, payload, safe, granted>>

\* Disarming, closing the dive and syncing it, and a bench quiesce.
Work ==
    /\ On /\ phase \in {"idle", "preparing"} /\ safe' \in BOOLEAN
    /\ UNCHANGED <<phase, agt, payload, granted>>

Ready ==
    /\ Goes("preparing", "exchanging")
    /\ safe' /\ granted' = (agt = "counting")
    /\ UNCHANGED <<agt, payload>>

\* An ACK arrives.
Grant ==
    /\ On /\ phase = "exchanging" /\ agt = "asking"
    /\ agt' = "counting" /\ granted'
    /\ UNCHANGED <<phase, payload, safe>>

Confirm ==
    /\ Goes("exchanging", "confirmed") /\ granted
    /\ UNCHANGED <<agt, payload, safe, granted>>

Halt ==
    /\ Goes("confirmed", "idle") /\ payload' = "halted"
    /\ UNCHANGED <<agt, safe, granted>>

GiveUp ==
    /\ On /\ phase \in {"preparing", "exchanging", "confirmed"}
    /\ phase' = "idle"
    /\ UNCHANGED <<agt, payload, safe, granted>>

\* The AGT asks, withdraws, or cuts the power when it has counted down.
Ask ==
    /\ On /\ agt = "quiet" /\ agt' = "asking"
    /\ UNCHANGED <<phase, payload, safe, granted>>

Withdraw ==
    /\ On /\ agt # "quiet" /\ agt' = "quiet"
    /\ UNCHANGED <<phase, payload, safe, granted>>

Cut ==
    /\ agt = "counting" /\ agt' = "quiet" /\ payload' = "cut"
    /\ UNCHANGED <<phase, safe, granted>>

Restart ==
    /\ On /\ phase # "void" /\ phase' = "idle" /\ granted' = (agt = "counting")
    /\ UNCHANGED <<agt, payload, safe>>

PowerOn ==
    /\ ~On /\ phase # "void" /\ phase' = "idle"
    /\ agt' = "quiet" /\ payload' = "on" /\ safe' \in BOOLEAN /\ ~granted'

\* The policy is changed, and from then on nothing is promised.
Void == phase' = "void"

Next ==
    \/ Begin \/ Work \/ Ready \/ Grant \/ Confirm \/ Halt \/ GiveUp
    \/ Ask \/ Withdraw \/ Cut \/ Restart \/ PowerOn \/ Void

Spec == Init /\ [][Next]_vars

\* A host that halted itself is disarmed, has everything on its disk, and was
\* given leave.
HaltIsSafe == phase # "void" /\ payload = "halted" => safe /\ granted
===============================================================================
