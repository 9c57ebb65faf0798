------------------------------- MODULE DiveLog -------------------------------
(***************************************************************************)
(* What the record files and the mission state promise to whoever reads    *)
(* them: a log of dives of which only the last can be active, and what is  *)
(* told of it.  However many requests end a dive, it is closed once, what  *)
(* is told changes in the same step and with the same outcome, and neither *)
(* is rewritten.  A crash may close a dive, or begin one, and tell nothing *)
(* of it; the log is then torn until the next dive is started.             *)
(***************************************************************************)
EXTENDS Naturals, Sequences

VARIABLES
    dives,  \* the status of each dive, in order
    told,   \* the mission state: of which dive, and what
    torn    \* a crash fell between the log and what is told

vars == <<dives, told, torn>>

Outcomes == {"completed", "cancelled"}

Last == Len(dives)
Active == Last > 0 /\ dives[Last] = "active"
Open == told.status \in {"pending", "active"}

Closed(s) == IF Active THEN [dives EXCEPT ![Last] = s] ELSE dives
Tell(s)   == [told EXCEPT !.status = s]

Init == dives = <<>> /\ told = [status |-> "none", dive |-> 0] /\ torn = FALSE

\* A new dive; one that was left open is completed.
Start ==
    /\ dives' = Append(Closed("completed"), "active")
    /\ told' = [status |-> "pending", dive |-> Last + 1]
    /\ torn' = FALSE

Reach ==
    /\ told.status = "pending" /\ told' = Tell("active")
    /\ UNCHANGED <<dives, torn>>

End(s) ==
    /\ ~torn /\ Active /\ Open /\ told.dive = Last
    /\ dives' = Closed(s) /\ told' = Tell(s)
    /\ UNCHANGED torn

Tear ==
    /\ \/ \E s \in Outcomes : dives' = Closed(s)
       \/ \E s \in {"garbled", "active"} : dives' = Append(Closed("completed"), s)
    /\ torn' = TRUE
    /\ UNCHANGED told

\* An end, or a mission state that is missing, while the log is torn.
EndTorn(s) ==
    /\ torn
    /\ dives' = Closed(s) /\ told' = IF Open THEN Tell(s) ELSE told
    /\ UNCHANGED torn

Heal ==
    /\ torn /\ told.status = "none" /\ Active
    /\ told' = [status |-> "active", dive |-> Last]
    /\ UNCHANGED <<dives, torn>>

Next ==
    \/ Start \/ Reach \/ Tear \/ Heal
    \/ \E s \in Outcomes : End(s) \/ EndTorn(s)

Spec == Init /\ [][Next]_vars
=============================================================================
