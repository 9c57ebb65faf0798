----------------------------- MODULE SafeSurface -----------------------------
(***************************************************************************)
(* The handshake by which the surface tracker (AGT) shuts the payload      *)
(* down after a dive: safe_surface.py and the operator's bench policy of   *)
(* shutdown_policy.py.                                                     *)
(*                                                                         *)
(* The service reacts to the AGT's messages in one event loop and runs     *)
(* each accepted request as a task; a step of a task is what it does       *)
(* between two awaits.  The AGT is external: it asks (PWR_SHDN = 1), counts *)
(* down its final grace once it has seen an ACK (PWR_STAGE = 2), cuts the  *)
(* payload's power, or resets the handshake (PWR_SHDN = 0).                *)
(*                                                                         *)
(* Simplifications:                                                        *)
(*  - a message carries the AGT's present state or is lost, and an ACK is  *)
(*    received or lost: the serial link does not reorder.                  *)
(*  - AGT_CAP is one flag: fresh with the safe-shutdown bit, or not.       *)
(*  - a timeout may strike whenever the code waits.                        *)
(*  - of the dive's closing only its disk writes are kept.                 *)
(***************************************************************************)
EXTENDS Naturals

CONSTANTS
    Tasks,        \* identities of asyncio tasks, reused when done
    NoTask,
    MaxRestarts,  \* bound on restarts of the backend or the host
    MaxToggles,   \* bound on changes of the bench policy
    MaxAsks       \* bound on requests of the AGT

ASSUME TaskAssumption == NoTask \notin Tasks

ASSUME BoundAssumption ==
    MaxRestarts \in Nat /\ MaxToggles \in Nat /\ MaxAsks \in Nat

Steps == {"idle", "disarming", "flushing", "syncing", "acking", "halting"}
Kinds == {"bench", "full"}

VARIABLES
    bench,    \* agt_shutdown_policy.json
    latched,  \* _shutdown_request_latched
    handle,   \* _shutdown_task
    capable,  \* AGT_CAP is fresh and has the safe-shutdown bit
    stage,    \* power_shutdown_stage is at least POWER_STAGE_ACKNOWLEDGED
    acked,    \* _power_acknowledged is set
    step,     \* where each task is; "idle" is done or never started
    kind,     \* _bench_quiesce_sequence or _shutdown_sequence
    agt,      \* "quiet", "asking" or "counting"
    payload,  \* "on", "halted" by the host or "cut" by the AGT
    armed,    \* the autopilot
    synced,   \* nothing a sequence wrote is still unsynced
    asks, restarts, toggles,
    granted   \* history: the AGT counted since the ACK exchange began

tasks   == <<step, kind>>
service == <<latched, handle, capable, stage, acked, tasks>>
world   == <<agt, payload, armed, synced, granted>>
counts  == <<asks, restarts, toggles>>
vars    == <<bench, service, world, counts>>

FlagsOK ==
    /\ bench \in BOOLEAN /\ latched \in BOOLEAN /\ capable \in BOOLEAN
    /\ stage \in BOOLEAN /\ acked \in BOOLEAN
    /\ armed \in BOOLEAN /\ synced \in BOOLEAN /\ granted \in BOOLEAN

\* Every variable has its type, the bounds are kept, and the event is never
\* set beside a stage that denies it.
TypeOK ==
    /\ FlagsOK
    /\ acked => stage
    /\ handle \in Tasks \cup {NoTask}
    /\ step \in [Tasks -> Steps] /\ kind \in [Tasks -> Kinds]
    /\ agt \in {"quiet", "asking", "counting"}
    /\ payload \in {"on", "halted", "cut"}
    /\ asks \in 0 .. MaxAsks /\ restarts \in 0 .. MaxRestarts
    /\ toggles \in 0 .. MaxToggles

Init ==
    /\ bench \in BOOLEAN
    /\ latched = FALSE /\ handle = NoTask /\ capable = FALSE
    /\ stage = FALSE /\ acked = FALSE
    /\ step = [t \in Tasks |-> "idle"] /\ kind = [t \in Tasks |-> "full"]
    /\ agt = "quiet" /\ payload = "on" /\ armed = TRUE /\ synced = TRUE
    /\ granted = FALSE
    /\ asks = 0 /\ restarts = 0 /\ toggles = 0

-----------------------------------------------------------------------------
(***************************************************************************)
(* Messages of the AGT                                                     *)
(***************************************************************************)

On == payload = "on"
Busy(h) == h # NoTask /\ step[h] # "idle"

HearCapability(fresh) ==
    /\ On
    /\ capable' = fresh
    /\ UNCHANGED <<bench, latched, handle, stage, acked, tasks, world, counts>>

\* The stage sets or clears the event the sequence waits for.
Event == acked' = (agt = "counting")

HearStage ==
    /\ On
    /\ stage' = (agt = "counting")
    /\ Event
    /\ UNCHANGED <<bench, latched, handle, capable, tasks, world, counts>>

\* PWR_SHDN = 0: the latch goes, a running sequence goes on.
HearReset ==
    /\ On /\ agt = "quiet"
    /\ latched' = FALSE
    /\ handle' = IF Busy(handle) THEN handle ELSE NoTask
    /\ UNCHANGED <<bench, capable, stage, acked, tasks, world, counts>>

Start(t, k) ==
    /\ step[t] = "idle"
    /\ step' = [step EXCEPT ![t] = "disarming"]
    /\ kind' = [kind EXCEPT ![t] = k]
    /\ handle' = t
    /\ latched' = TRUE
    /\ UNCHANGED <<bench, capable, stage, acked, world, counts>>

\* PWR_SHDN = 1 in bench mode: a quiesce, whatever is still running.
StartBench(t) ==
    /\ On /\ agt # "quiet" /\ ~latched
    /\ bench
    /\ Start(t, "bench")

HandleIgnored == TRUE                 \* mutant: a running task is no bar
HandleGone    == handle = NoTask      \* mutant: a finished task is one
HandleFree    == ~Busy(handle)

StartShutdown(t) ==
    /\ On /\ agt # "quiet" /\ ~latched
    /\ ~bench
    /\ capable
    /\ HandleFree
    /\ Start(t, "full")

-----------------------------------------------------------------------------
(***************************************************************************)
(* The sequence of a task                                                  *)
(***************************************************************************)

Goes(t, from, to) ==
    /\ On /\ step[t] = from
    /\ step' = [step EXCEPT ![t] = to]
    /\ UNCHANGED <<bench, handle, capable, kind, counts>>

\* The command and the heartbeat that confirms it.
Disarm(t) ==
    /\ Goes(t, "disarming", "flushing")
    /\ armed' = FALSE
    /\ UNCHANGED <<latched, stage, acked, agt, payload, synced, granted>>

\* quiesce_dive writes the record and the mission state; a bench sequence ends
\* here and keeps its latch.
Flush(t) ==
    /\ Goes(t, "flushing", IF kind[t] = "bench" THEN "idle" ELSE "syncing")
    /\ synced' = FALSE
    /\ UNCHANGED <<latched, stage, acked, agt, payload, armed, granted>>

\* The host has synced; the confirmation to come must be a new one.
KeepConfirmation == UNCHANGED acked  \* mutant: an old confirmation counts
NewConfirmation  == acked' = FALSE

SyncUnread == synced' \in BOOLEAN  \* mutant: the return code is not read
Synced     == synced' = TRUE

Sync(t) ==
    /\ Goes(t, "syncing", "acking")
    /\ Synced
    /\ NewConfirmation
    /\ granted' = (agt = "counting")
    /\ UNCHANGED <<latched, stage, agt, payload, armed>>

\* A PWR_ACK reaches the AGT; one that is lost changes nothing.
SendAck(t) ==
    /\ On /\ step[t] = "acking"
    /\ agt = "asking"
    /\ agt' = "counting" /\ granted' = TRUE
    /\ UNCHANGED <<bench, service, payload, armed, synced, counts>>

Confirm(t) ==
    /\ acked /\ stage
    /\ Goes(t, "acking", "halting")
    /\ UNCHANGED <<latched, stage, acked, world>>

Poweroff(t) ==
    /\ Goes(t, "halting", "idle")
    /\ payload' = "halted"
    /\ UNCHANGED <<latched, stage, acked, agt, armed, synced, granted>>

\* An error lets the next PWR_SHDN = 1 try again.
ForgetLatch == UNCHANGED latched  \* mutant: the request is not retried
Unlatch     == latched' = FALSE

\* Not disarmed, not quiesced, not synced, not confirmed in time, or poweroff
\* rejected; a wait may run out just as the confirmation is heard.
Fail(t) ==
    /\ step[t] # "idle"
    /\ Goes(t, step[t], "idle")
    /\ Unlatch
    /\ UNCHANGED <<stage, acked, world>>

-----------------------------------------------------------------------------
(***************************************************************************)
(* The AGT, the operator and restarts                                      *)
(***************************************************************************)

Ask ==
    /\ agt = "quiet" /\ On /\ asks < MaxAsks
    /\ agt' = "asking" /\ asks' = asks + 1
    /\ UNCHANGED <<bench, service, payload, armed, synced, granted, restarts,
                   toggles>>

Withdraw ==
    /\ agt # "quiet" /\ On
    /\ agt' = "quiet"
    /\ UNCHANGED <<bench, service, payload, armed, synced, granted, counts>>

\* The end of the final grace, whatever the host is doing.
Cut ==
    /\ agt = "counting"
    /\ agt' = "quiet" /\ payload' = "cut"
    /\ UNCHANGED <<bench, service, armed, synced, granted, counts>>

SetBench ==
    /\ On /\ toggles < MaxToggles
    /\ bench' = ~bench /\ toggles' = toggles + 1
    /\ UNCHANGED <<service, world, asks, restarts>>

\* The service starts anew: by itself, or with the host and the autopilot.
Forget ==
    /\ restarts < MaxRestarts /\ restarts' = restarts + 1
    /\ latched' = FALSE /\ handle' = NoTask /\ capable' = FALSE
    /\ stage' = FALSE /\ acked' = FALSE
    /\ step' = [t \in Tasks |-> "idle"] /\ kind' = [t \in Tasks |-> "full"]
    /\ UNCHANGED <<bench, asks, toggles>>

Restart ==
    /\ On
    /\ Forget
    /\ granted' = (agt = "counting")
    /\ UNCHANGED <<agt, payload, armed, synced>>

PowerOn ==
    /\ ~On
    /\ Forget
    /\ agt' = "quiet" /\ payload' = "on" /\ synced' = TRUE /\ granted' = FALSE
    /\ armed' \in BOOLEAN

-----------------------------------------------------------------------------

TaskStep(t) ==
    \/ Disarm(t) \/ Flush(t) \/ Sync(t) \/ SendAck(t)
    \/ Confirm(t) \/ Poweroff(t) \/ Fail(t)

Next ==
    \/ \E fresh \in BOOLEAN : HearCapability(fresh)
    \/ HearStage \/ HearReset
    \/ \E t \in Tasks : StartBench(t) \/ StartShutdown(t) \/ TaskStep(t)
    \/ Ask \/ Withdraw \/ Cut
    \/ SetBench \/ Restart \/ PowerOn

Spec == Init /\ [][Next]_vars

\* The event loop runs and the AGT repeats its messages; each thing that can
\* fail succeeds if it is tried again and again.
HearCountdown == agt = "counting" /\ HearStage

FairSpec ==
    /\ Spec
    /\ WF_vars(HearCapability(TRUE))
    /\ SF_vars(\E t \in Tasks : step[t] = "acking" /\ HearCountdown)
    /\ SF_vars(\E t \in Tasks : StartShutdown(t))
    /\ SF_vars(\E t \in Tasks : Disarm(t))
    /\ SF_vars(\E t \in Tasks : Sync(t))
    /\ SF_vars(\E t \in Tasks : SendAck(t))
    /\ SF_vars(\E t \in Tasks : Poweroff(t))
    /\ SF_vars(\E t \in Tasks : Flush(t))
    /\ SF_vars(\E t \in Tasks : Confirm(t))

-----------------------------------------------------------------------------
(***************************************************************************)
(* Properties; those of the latch and the disk hold until the operator     *)
(* changes the policy (toggles = 0)                                        *)
(***************************************************************************)

Shutting(t) == step[t] # "idle" /\ kind[t] = "full"

\* At most one shutdown sequence runs, over any order of requests, resets,
\* failures and restarts (the guards of _handle_shutdown_request).
OneSequence ==
    toggles = 0 => \A t, u \in Tasks : Shutting(t) /\ Shutting(u) => t = u

\* A latched request has a sequence at work on it: a failure on any path
\* gives the latch back, so the AGT's next PWR_SHDN is not ignored.
RequestNotLost ==
    toggles = 0 /\ ~bench /\ On /\ latched => Busy(handle)

\* The AGT starts its countdown only when the autopilot has been disarmed and
\* everything the sequences wrote has been synced (_shutdown_sequence).
AckMeansSafe ==
    [][agt = "asking" /\ agt' = "counting" /\ toggles = 0
          => synced /\ ~armed]_vars

\* A host that is about to power off has heard of a countdown that was not
\* over before the exchange began (_confirm_power_acknowledgement).
PoweroffConfirmed ==
    [][\A t \in Tasks : step[t] = "acking" /\ step'[t] = "halting"
          => granted]_vars

\* A request ends with the payload down or withdrawn, after any failures.
ShutdownCompletes ==
    (agt # "quiet" /\ On /\ ~bench /\ toggles = 0)
        ~> (agt = "quiet" \/ ~On \/ toggles # 0)

-----------------------------------------------------------------------------
(***************************************************************************)
(* The protocol the tasks implement                                        *)
(***************************************************************************)

SequenceAt(places) == \E t \in Tasks : kind[t] = "full" /\ step[t] \in places

Phase ==
    IF toggles # 0 THEN "void"
    ELSE IF SequenceAt({"halting"}) THEN "confirmed"
    ELSE IF SequenceAt({"acking"}) THEN "exchanging"
    ELSE IF SequenceAt({"disarming", "flushing", "syncing"}) THEN "preparing"
    ELSE "idle"

Protocol == INSTANCE ShutdownProtocol WITH phase <- Phase, safe <- synced /\ ~armed

\* Whatever tasks there are and whichever of them fail, under a fixed policy the
\* service is one sequence that keeps the order of the handshake.
ImplementsProtocol == Protocol!Spec

\* A host that powered itself off under a fixed policy is disarmed and synced,
\* and the AGT had begun its countdown (_shutdown_sequence).
HaltedMeansSafe ==
    toggles = 0 /\ payload = "halted" => synced /\ ~armed /\ granted

=============================================================================
