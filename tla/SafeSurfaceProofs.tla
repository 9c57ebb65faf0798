-------------------------- MODULE SafeSurfaceProofs --------------------------
(***************************************************************************)
(* The safety of the shutdown handshake for any number of tasks and any    *)
(* bounds.                                                                 *)
(***************************************************************************)
EXTENDS SafeSurface, TLAPS

USE TaskAssumption, BoundAssumption DEF TaskAssumption, BoundAssumption

\* Under a fixed policy the running shutdown sequence is the task the service
\* holds, and bench sequences run in bench mode only.
Held ==
    /\ \A t \in Tasks : Shutting(t) => handle = t /\ ~bench
    /\ \A t \in Tasks : step[t] # "idle" /\ kind[t] = "bench" => bench

\* Only a shutdown sequence goes past the flush.
FullPastFlush ==
    \A t \in Tasks : step[t] \in {"syncing", "acking", "halting"}
                        => kind[t] = "full"

\* A sequence past its disarm runs on a disarmed vehicle.
DisarmedPast ==
    \A t \in Tasks : step[t] \in {"flushing", "syncing", "acking", "halting"}
                        => ~armed

\* What the sequences wrote is on the disk while one of them may ACK.
SyncedPast ==
    \A t \in Tasks : step[t] \in {"acking", "halting"} => synced

\* The service knows of no countdown that the history has not seen.
SeenGranted == (agt = "counting" => granted) /\ (acked => granted)

IInv ==
    /\ TypeOK
    /\ toggles = 0 => Held
    /\ FullPastFlush
    /\ DisarmedPast
    /\ toggles = 0 => SyncedPast
    /\ RequestNotLost
    /\ SeenGranted

-----------------------------------------------------------------------------

\* What a task's sequence changes, whichever step it takes.
LEMMA TaskTypes ==
    ASSUME TypeOK, NEW t \in Tasks,
           StartBench(t) \/ StartShutdown(t) \/ TaskStep(t)
    PROVE  TypeOK'
<1> USE DEF TypeOK, FlagsOK, Steps, Kinds, world, counts, tasks, service
<1>1. CASE StartBench(t)
  BY <1>1 DEF StartBench, Start
<1>2. CASE StartShutdown(t)
  BY <1>2 DEF StartShutdown, Start
<1>3. CASE Disarm(t)
  BY <1>3 DEF Disarm, Goes
<1>4. CASE Flush(t)
  BY <1>4 DEF Flush, Goes
<1>5. CASE Sync(t)
  <2>1. granted' \in BOOLEAN
    BY <1>5 DEF Sync
  <2> QED BY <1>5, <2>1 DEF Sync, Goes, Synced, NewConfirmation
<1>6. CASE SendAck(t)
  BY <1>6 DEF SendAck
<1>7. CASE Confirm(t)
  BY <1>7 DEF Confirm, Goes
<1>8. CASE Poweroff(t)
  BY <1>8 DEF Poweroff, Goes
<1>9. CASE Fail(t)
  BY <1>9 DEF Fail, Goes, Unlatch
<1> QED
  BY <1>1, <1>2, <1>3, <1>4, <1>5, <1>6, <1>7, <1>8, <1>9 DEF TaskStep

\* A service that starts anew has no task.
LEMMA ForgetTypes ==
    ASSUME TypeOK, Forget
    PROVE  /\ bench' \in BOOLEAN /\ ~latched' /\ ~capable' /\ ~stage' /\ ~acked'
           /\ handle' \in Tasks \cup {NoTask}
           /\ step' \in [Tasks -> Steps] /\ kind' \in [Tasks -> Kinds]
           /\ asks' \in 0 .. MaxAsks /\ restarts' \in 0 .. MaxRestarts
           /\ toggles' \in 0 .. MaxToggles
           /\ FlagsOK' <=> (armed' \in BOOLEAN /\ synced' \in BOOLEAN
                              /\ granted' \in BOOLEAN)
<1>1. step' \in [Tasks -> Steps] /\ kind' \in [Tasks -> Kinds]
  BY DEF Forget, Steps, Kinds
<1>2. restarts' \in 0 .. MaxRestarts
  BY DEF Forget, TypeOK
<1> QED BY <1>1, <1>2 DEF Forget, TypeOK, FlagsOK

\* Every reachable state starts from a well-typed one.
LEMMA InitTypes == Init => TypeOK
<1> SUFFICES ASSUME Init PROVE TypeOK
  OBVIOUS
<1>1. step \in [Tasks -> Steps] /\ kind \in [Tasks -> Kinds]
  BY DEF Init, Steps, Kinds
<1>2. asks \in 0 .. MaxAsks /\ restarts \in 0 .. MaxRestarts
      /\ toggles \in 0 .. MaxToggles
  BY DEF Init
<1> QED BY <1>1, <1>2 DEF Init, TypeOK, FlagsOK

\* Every step of the handshake keeps the types.
LEMMA StepTypes == TypeOK /\ [Next]_vars => TypeOK'
<1> SUFFICES ASSUME TypeOK, [Next]_vars PROVE TypeOK'
  OBVIOUS
<1> USE DEF TypeOK, FlagsOK, Steps, Kinds, world, counts, tasks, service
<1>1. ASSUME NEW fresh \in BOOLEAN, HearCapability(fresh) PROVE TypeOK'
  BY <1>1 DEF HearCapability
<1>2. CASE HearStage
  <2>1. stage' = (agt = "counting") /\ acked' = stage'
    BY <1>2 DEF HearStage, Event
  <2>2. stage' \in BOOLEAN /\ acked' \in BOOLEAN /\ (acked' => stage')
    BY <2>1
  <2> QED BY <1>2, <2>2 DEF HearStage
<1>3. CASE HearReset
  BY <1>3 DEF HearReset
<1>4. ASSUME NEW t \in Tasks, StartBench(t) \/ StartShutdown(t) \/ TaskStep(t)
      PROVE TypeOK'
  BY <1>4, TaskTypes
<1>5. CASE Ask
  BY <1>5 DEF Ask
<1>6. CASE Withdraw
  BY <1>6 DEF Withdraw
<1>7. CASE Cut
  BY <1>7 DEF Cut
<1>8. CASE SetBench
  <2>1. bench' \in BOOLEAN
    BY <1>8 DEF SetBench
  <2> QED BY <1>8, <2>1 DEF SetBench
<1>9. CASE Restart
  <2>1. granted' \in BOOLEAN
    BY <1>9 DEF Restart
  <2>2. agt' \in {"quiet", "asking", "counting"}
        /\ payload' \in {"on", "halted", "cut"}
        /\ armed' \in BOOLEAN /\ synced' \in BOOLEAN
    BY <1>9 DEF Restart
  <2>3. Forget
    BY <1>9 DEF Restart
  <2> HIDE DEF Forget, Steps, Kinds, FlagsOK
  <2> QED BY <2>1, <2>2, <2>3, ForgetTypes
<1>10. CASE PowerOn
  <2>1. Forget
    BY <1>10 DEF PowerOn
  <2>2. /\ agt' \in {"quiet", "asking", "counting"}
        /\ payload' \in {"on", "halted", "cut"}
        /\ armed' \in BOOLEAN /\ synced' \in BOOLEAN /\ granted' \in BOOLEAN
    BY <1>10 DEF PowerOn
  <2> HIDE DEF Forget, Steps, Kinds, FlagsOK
  <2> QED BY <2>1, <2>2, ForgetTypes
<1>11. CASE UNCHANGED vars
  BY <1>11 DEF vars
<1> QED
  BY <1>1, <1>2, <1>3, <1>4, <1>5, <1>6, <1>7, <1>8, <1>9, <1>10, <1>11
     DEF Next

\* Every reachable state of the handshake is well typed.
THEOREM HandshakeTypes == Spec => []TypeOK
<1> QED BY InitTypes, StepTypes, PTL DEF Spec

-----------------------------------------------------------------------------

Rest == /\ toggles = 0 => Held
        /\ FullPastFlush
        /\ DisarmedPast
        /\ toggles = 0 => SyncedPast
        /\ RequestNotLost
        /\ SeenGranted

\* Starting a task: the one held before has ended, or the mode is bench.
LEMMA StartKeeps ==
    ASSUME IInv, NEW t \in Tasks, StartBench(t) \/ StartShutdown(t)
    PROVE  Rest'
<1> USE DEF TypeOK, FlagsOK, world, counts, StartBench, StartShutdown, Start,
            Busy, Shutting, Kinds, Steps
<1>1. (toggles = 0 => Held)'
  BY DEF IInv, Held, HandleFree
<1>2. (FullPastFlush /\ DisarmedPast /\ (toggles = 0 => SyncedPast))'
  BY DEF IInv, FullPastFlush, DisarmedPast, SyncedPast
<1>3. RequestNotLost'
  BY DEF IInv, RequestNotLost
<1>4. SeenGranted'
  BY DEF IInv, SeenGranted
<1> QED BY <1>1, <1>2, <1>3, <1>4 DEF Rest

\* A step of a running task.  Under a fixed policy no other task is past its
\* flush while this one writes.
LEMMA TaskKeeps ==
    ASSUME IInv, NEW t \in Tasks, TaskStep(t)
    PROVE  Rest'
<1> USE DEF TypeOK, FlagsOK, world, counts, Goes, Busy, Shutting, Kinds, Steps
<1> USE DEF IInv
<1>1. CASE Disarm(t)
  <2> USE <1>1 DEF Disarm
  <2>1. (toggles = 0 => Held)' /\ FullPastFlush' /\ SeenGranted'
    BY DEF Held, FullPastFlush, SeenGranted
  <2>2. DisarmedPast' /\ (toggles = 0 => SyncedPast)'
    BY DEF DisarmedPast, SyncedPast
  <2>3. RequestNotLost'
    BY DEF RequestNotLost, On
  <2> QED BY <2>1, <2>2, <2>3 DEF Rest
<1>2. CASE Flush(t)
  <2> USE <1>2 DEF Flush
  <2>1. (toggles = 0 => Held)' /\ FullPastFlush' /\ SeenGranted'
    BY DEF Held, FullPastFlush, SeenGranted
  <2>2. DisarmedPast'
    BY DEF DisarmedPast
  <2>3. (toggles = 0 => SyncedPast)'
    BY DEF SyncedPast, Held, FullPastFlush
  <2>4. RequestNotLost'
    BY DEF RequestNotLost, Held, On
  <2> QED BY <2>1, <2>2, <2>3, <2>4 DEF Rest
<1>3. CASE Sync(t)
  <2> USE <1>3 DEF Sync, Synced, NewConfirmation
  <2>1. (toggles = 0 => Held)' /\ FullPastFlush' /\ SeenGranted'
    BY DEF Held, FullPastFlush, SeenGranted
  <2>2. DisarmedPast' /\ (toggles = 0 => SyncedPast)'
    BY DEF DisarmedPast, SyncedPast
  <2>3. RequestNotLost'
    BY DEF RequestNotLost, On
  <2> QED BY <2>1, <2>2, <2>3 DEF Rest
<1>4. CASE SendAck(t)
  BY <1>4 DEF SendAck, service, tasks, Rest, Held, FullPastFlush,
     DisarmedPast, SyncedPast, RequestNotLost, SeenGranted, On
<1>5. CASE Confirm(t)
  <2> USE <1>5 DEF Confirm
  <2>1. (toggles = 0 => Held)' /\ FullPastFlush' /\ SeenGranted'
    BY DEF Held, FullPastFlush, SeenGranted
  <2>2. DisarmedPast' /\ (toggles = 0 => SyncedPast)'
    BY DEF DisarmedPast, SyncedPast
  <2>3. RequestNotLost'
    BY DEF RequestNotLost, On
  <2> QED BY <2>1, <2>2, <2>3 DEF Rest
<1>6. CASE Poweroff(t)
  <2> USE <1>6 DEF Poweroff
  <2>1. (toggles = 0 => Held)' /\ FullPastFlush' /\ SeenGranted'
    BY DEF Held, FullPastFlush, SeenGranted
  <2>2. DisarmedPast' /\ (toggles = 0 => SyncedPast)'
    BY DEF DisarmedPast, SyncedPast
  <2>3. RequestNotLost'
    BY DEF RequestNotLost, On
  <2> QED BY <2>1, <2>2, <2>3 DEF Rest
<1>7. CASE Fail(t)
  <2> USE <1>7 DEF Fail, Unlatch
  <2>1. (toggles = 0 => Held)' /\ FullPastFlush' /\ SeenGranted'
    BY DEF Held, FullPastFlush, SeenGranted
  <2>2. DisarmedPast' /\ (toggles = 0 => SyncedPast)'
    BY DEF DisarmedPast, SyncedPast
  <2>3. RequestNotLost'
    BY DEF RequestNotLost, On
  <2> QED BY <2>1, <2>2, <2>3 DEF Rest
<1> QED BY <1>1, <1>2, <1>3, <1>4, <1>5, <1>6, <1>7 DEF TaskStep

\* The AGT's messages and decisions, the operator and the restarts.
LEMMA OthersKeep ==
    ASSUME IInv,
           \/ \E fresh \in BOOLEAN : HearCapability(fresh)
           \/ HearStage \/ HearReset \/ Ask \/ Withdraw \/ Cut \/ SetBench
           \/ Restart \/ PowerOn \/ UNCHANGED vars
    PROVE  Rest'
<1> USE DEF TypeOK, FlagsOK, IInv, world, counts, tasks, service, Busy,
            Shutting, Kinds, Steps, Held, FullPastFlush, DisarmedPast,
            SyncedPast, RequestNotLost, SeenGranted, On, Rest
<1>1. ASSUME NEW fresh \in BOOLEAN, HearCapability(fresh) PROVE Rest'
  BY <1>1 DEF HearCapability
<1>2. CASE HearStage
  <2>1. acked' => agt = "counting"
    BY <1>2 DEF HearStage, Event
  <2> QED BY <1>2, <2>1 DEF HearStage
<1>3. CASE HearReset
  BY <1>3 DEF HearReset
<1>4. CASE Ask
  BY <1>4 DEF Ask
<1>5. CASE Withdraw
  BY <1>5 DEF Withdraw
<1>6. CASE Cut
  BY <1>6 DEF Cut
<1>7. CASE SetBench
  BY <1>7 DEF SetBench
<1>8. CASE Restart
  <2>1. agt' = "counting" => granted'
    BY <1>8 DEF Restart
  <2> QED BY <1>8, <2>1 DEF Restart, Forget
<1>9. CASE PowerOn
  BY <1>9 DEF PowerOn, Forget
<1>10. CASE UNCHANGED vars
  BY <1>10 DEF vars
<1> QED
  BY <1>1, <1>2, <1>3, <1>4, <1>5, <1>6, <1>7, <1>8, <1>9, <1>10

\* The inductive invariant of the handshake.
THEOREM HandshakeInvariant == Spec => []IInv
<1>1. Init => IInv
  <2> SUFFICES ASSUME Init PROVE IInv
    OBVIOUS
  <2>1. \A t \in Tasks : step[t] = "idle"
    BY DEF Init
  <2> QED
    BY <2>1, InitTypes DEF Init, IInv, Held, FullPastFlush, DisarmedPast, SyncedPast,
       RequestNotLost, SeenGranted, Shutting
<1>2. IInv /\ [Next]_vars => IInv'
  <2> SUFFICES ASSUME IInv, [Next]_vars PROVE IInv'
    OBVIOUS
  <2>1. TypeOK'
    BY StepTypes DEF IInv
  <2>2. Rest'
    BY StartKeeps, TaskKeeps, OthersKeep DEF Next
  <2> QED BY <2>1, <2>2 DEF IInv, Rest
<1> QED BY <1>1, <1>2, PTL DEF Spec

-----------------------------------------------------------------------------

\* At most one shutdown sequence runs under a fixed policy.
THEOREM OneSequenceHolds == Spec => []OneSequence
<1>1. IInv => OneSequence
  BY DEF IInv, Held, OneSequence
<1> QED BY <1>1, HandshakeInvariant, PTL

\* A latched request has a sequence at work on it.
THEOREM RequestKept == Spec => []RequestNotLost
<1>1. IInv => RequestNotLost
  BY DEF IInv
<1> QED BY <1>1, HandshakeInvariant, PTL

\* The AGT's countdown starts with the vehicle disarmed and the disk synced.
THEOREM AckSafe == Spec => AckMeansSafe
<1>1. IInv /\ [Next]_vars
        => [agt = "asking" /\ agt' = "counting" /\ toggles = 0
              => synced /\ ~armed]_vars
  <2> SUFFICES ASSUME IInv, Next, agt = "asking", agt' = "counting",
                      toggles = 0
               PROVE  synced /\ ~armed
    OBVIOUS
  <2>1. PICK t \in Tasks : SendAck(t)
    BY DEF Next, TaskStep, HearCapability, HearStage, HearReset, StartBench,
       StartShutdown, Start, Disarm, Flush, Sync, Confirm, Poweroff, Fail,
       Ask, Withdraw, Cut, SetBench, Restart, PowerOn, world
  <2> QED
    BY <2>1 DEF SendAck, IInv, SyncedPast, DisarmedPast
<1> QED BY <1>1, HandshakeInvariant, PTL DEF Spec, AckMeansSafe

\* Poweroff is requested after a countdown that the exchange has seen.
THEOREM PoweroffIsConfirmed == Spec => PoweroffConfirmed
<1>1. IInv /\ [Next]_vars
        => [\A t \in Tasks : step[t] = "acking" /\ step'[t] = "halting"
              => granted]_vars
  <2> SUFFICES ASSUME IInv, Next, NEW t \in Tasks,
                      step[t] = "acking", step'[t] = "halting"
               PROVE  granted
    OBVIOUS
  <2> USE DEF IInv, TypeOK, Steps, Goes
  <2>1. Confirm(t)
    BY DEF Next, TaskStep, HearCapability, HearStage, HearReset, StartBench,
       StartShutdown, Start, Disarm, Flush, Sync, SendAck, Confirm, Poweroff,
       Fail, Ask, Withdraw, Cut, SetBench, Restart, PowerOn, Forget, tasks,
       service
  <2> QED BY <2>1 DEF Confirm, SeenGranted
<1> QED BY <1>1, HandshakeInvariant, PTL DEF Spec, PoweroffConfirmed

-----------------------------------------------------------------------------
(***************************************************************************)
(* The refinement of the protocol                                          *)
(***************************************************************************)

PhaseAt(place) ==
    CASE place = "halting" -> "confirmed"
      [] place = "acking"  -> "exchanging"
      [] place \in {"disarming", "flushing", "syncing"} -> "preparing"

\* The phase is where the one sequence is.
LEMMA PhaseOfSequence ==
    IInv /\ toggles = 0 =>
        /\ \A t \in Tasks : Shutting(t) => Phase = PhaseAt(step[t])
        /\ (\A t \in Tasks : ~Shutting(t)) => Phase = "idle"
<1> SUFFICES ASSUME IInv, toggles = 0
             PROVE  /\ \A t \in Tasks : Shutting(t) => Phase = PhaseAt(step[t])
                    /\ (\A t \in Tasks : ~Shutting(t)) => Phase = "idle"
  OBVIOUS
<1>1. step \in [Tasks -> Steps] /\ kind \in [Tasks -> Kinds]
  BY DEF IInv, TypeOK
<1>2. ASSUME NEW t \in Tasks, Shutting(t)
      PROVE  Phase = PhaseAt(step[t])
  <2>1. \A u \in Tasks : Shutting(u) => u = t
    BY <1>2 DEF IInv, Held
  <2>2. \A places : "idle" \notin places =>
           (SequenceAt(places) <=> step[t] \in places)
    BY <1>2, <2>1 DEF SequenceAt, Shutting
  <2>3. /\ SequenceAt({"halting"}) <=> step[t] = "halting"
        /\ SequenceAt({"acking"}) <=> step[t] = "acking"
        /\ SequenceAt({"disarming", "flushing", "syncing"})
             <=> step[t] \in {"disarming", "flushing", "syncing"}
    BY <2>2
  <2>4. step[t] \in Steps /\ step[t] # "idle"
    BY <1>1, <1>2 DEF Shutting
  <2> QED BY <2>3, <2>4 DEF Phase, PhaseAt, Steps
<1>3. ASSUME \A t \in Tasks : ~Shutting(t)
      PROVE  Phase = "idle"
  BY <1>3 DEF Phase, SequenceAt, Shutting
<1> QED BY <1>2, <1>3

PhaseFits ==
    IInv /\ toggles = 0 =>
        /\ \A t \in Tasks : Shutting(t) => Phase = PhaseAt(step[t])
        /\ (\A t \in Tasks : ~Shutting(t)) => Phase = "idle"

LEMMA PhaseOfSequenceNext ==
    IInv' /\ toggles' = 0 =>
        /\ \A t \in Tasks : Shutting(t)' => Phase' = PhaseAt(step'[t])
        /\ (\A t \in Tasks : ~Shutting(t)') => Phase' = "idle"
<1>1. PhaseFits
  BY PhaseOfSequence DEF PhaseFits
<1>2. PhaseFits'
  BY <1>1, PTL
<1> QED BY <1>2 DEF PhaseFits, PhaseAt

\* A step that moves no task leaves the phase.
LEMMA PhaseKept ==
    UNCHANGED <<step, kind, toggles>> => Phase' = Phase
  BY DEF Phase, SequenceAt

\* What the protocol's step is when a task starts.
LEMMA StartMaps ==
    ASSUME IInv, IInv', toggles = 0, NEW t \in Tasks,
           StartBench(t) \/ StartShutdown(t)
    PROVE  [Protocol!Next]_(Protocol!vars)
<1>1. /\ step' = [step EXCEPT ![t] = "disarming"] /\ step[t] = "idle"
      /\ On /\ agt # "quiet"
      /\ UNCHANGED <<agt, payload, armed, synced, granted, toggles>>
      /\ step \in [Tasks -> Steps] /\ kind \in [Tasks -> Kinds]
  BY DEF StartBench, StartShutdown, Start, world, counts, IInv, TypeOK
<1>2. \A u \in Tasks : ~Shutting(u)
  <2>1. CASE StartBench(t)
    BY <2>1 DEF StartBench, IInv, Held
  <2>2. CASE StartShutdown(t)
    BY <2>2 DEF StartShutdown, HandleFree, Busy, Shutting, IInv, Held, TypeOK
  <2> QED BY <2>1, <2>2
<1>3. Phase = "idle"
  BY <1>2, PhaseOfSequence
<1>4. CASE StartBench(t)
  <2>1. kind' = [kind EXCEPT ![t] = "bench"]
    BY <1>4 DEF StartBench, Start
  <2>2. \A u \in Tasks : ~Shutting(u)'
    BY <1>1, <1>2, <2>1 DEF Shutting
  <2>3. Phase' = "idle"
    BY <1>1, <2>2, PhaseOfSequenceNext
  <2> QED BY <1>1, <1>3, <2>3 DEF Protocol!vars
<1>5. CASE StartShutdown(t)
  <2>1. kind' = [kind EXCEPT ![t] = "full"]
    BY <1>5 DEF StartShutdown, Start
  <2>2. Shutting(t)' /\ step'[t] = "disarming"
    BY <1>1, <2>1 DEF Shutting
  <2>3. Phase' = "preparing"
    BY <1>1, <2>2, PhaseOfSequenceNext DEF PhaseAt
  <2>4. Protocol!Begin
    BY <1>1, <1>3, <2>3 DEF Protocol!Begin, Protocol!Goes, Protocol!On, On
  <2> QED BY <2>4 DEF Protocol!Next
<1> QED BY <1>4, <1>5

\* A task that goes on as a sequence takes the phase along; one that ends
\* leaves it idle, and a bench task has none.
LEMMA PhaseFollows ==
    ASSUME IInv, IInv', toggles = 0, NEW t \in Tasks,
           NEW from \in Steps \ {"idle"}, NEW to \in Steps, Goes(t, from, to)
    PROVE  /\ kind[t] = "full" =>
                /\ Phase = PhaseAt(from)
                /\ Phase' = IF to = "idle" THEN "idle" ELSE PhaseAt(to)
           /\ kind[t] = "bench" => Phase = "idle" /\ Phase' = "idle"
<1>1. /\ step' = [step EXCEPT ![t] = to] /\ kind' = kind /\ toggles' = 0
      /\ step[t] = from
      /\ step \in [Tasks -> Steps] /\ kind \in [Tasks -> Kinds]
  BY DEF Goes, counts, IInv, TypeOK
<1>2. CASE kind[t] = "full"
  <2>1. Shutting(t) /\ \A u \in Tasks : Shutting(u) => u = t
    BY <1>1, <1>2 DEF Shutting, IInv, Held
  <2>2. Phase = PhaseAt(from)
    BY <1>1, <2>1, PhaseOfSequence
  <2>3. CASE to = "idle"
    <3>1. \A u \in Tasks : ~Shutting(u)'
      BY <1>1, <2>1, <2>3 DEF Shutting
    <3> QED BY <1>1, <1>2, <2>2, <2>3, <3>1, PhaseOfSequenceNext
  <2>4. CASE to # "idle"
    <3>1. Shutting(t)' /\ step'[t] = to
      BY <1>1, <1>2, <2>4 DEF Shutting
    <3> QED BY <1>1, <1>2, <2>2, <2>4, <3>1, PhaseOfSequenceNext
  <2> QED BY <2>3, <2>4
<1>3. CASE kind[t] = "bench"
  <2>1. bench
    BY <1>1, <1>3 DEF IInv, Held
  <2>2. \A u \in Tasks : ~Shutting(u)
    BY <2>1 DEF IInv, Held
  <2>3. \A u \in Tasks : ~Shutting(u)'
    BY <1>1, <1>3, <2>2 DEF Shutting
  <2> QED BY <1>1, <1>3, <2>2, <2>3, PhaseOfSequence, PhaseOfSequenceNext
<1> QED BY <1>1, <1>2, <1>3 DEF Kinds

\* Disarming and flushing prepare, whichever task does it.
LEMMA WorkMaps ==
    ASSUME IInv, IInv', toggles = 0, NEW t \in Tasks, Disarm(t) \/ Flush(t)
    PROVE  Protocol!Work
<1>1. /\ On /\ UNCHANGED <<agt, payload, granted>>
      /\ (synced' /\ ~armed') \in BOOLEAN
  BY DEF Disarm, Flush, Goes
<1>2. kind[t] \in Kinds
  BY DEF IInv, TypeOK
<1>3. Phase \in {"idle", "preparing"} /\ Phase' = Phase
  <2>1. CASE Disarm(t)
    <3>1. Goes(t, "disarming", "flushing")
      BY <2>1 DEF Disarm
    <3> QED BY <1>2, <3>1, PhaseFollows DEF Steps, Kinds, PhaseAt
  <2>2. CASE Flush(t)
    <3>1. CASE kind[t] = "bench"
      <4>1. Goes(t, "flushing", "idle")
        BY <2>2, <3>1 DEF Flush
      <4> QED BY <3>1, <4>1, PhaseFollows DEF Steps
    <3>2. CASE kind[t] = "full"
      <4>1. Goes(t, "flushing", "syncing")
        BY <2>2, <3>2 DEF Flush
      <4> QED BY <3>2, <4>1, PhaseFollows DEF Steps, PhaseAt
    <3> QED BY <1>2, <3>1, <3>2 DEF Kinds
  <2> QED BY <2>1, <2>2
<1> QED BY <1>1, <1>3 DEF Protocol!Work, Protocol!On, On

\* Past the flush a task is a shutdown sequence.
LEMMA ExchangeMaps ==
    ASSUME IInv, IInv', toggles = 0, NEW t \in Tasks,
           Sync(t) \/ SendAck(t) \/ Confirm(t) \/ Poweroff(t)
    PROVE  Protocol!Next
<1>1. step[t] \in {"syncing", "acking", "halting"}
  BY DEF Sync, SendAck, Confirm, Poweroff, Goes
<1>2. kind[t] = "full" /\ ~armed
  BY <1>1 DEF IInv, FullPastFlush, DisarmedPast
<1>3. CASE Sync(t)
  <2>1. Goes(t, "syncing", "acking")
    BY <1>3 DEF Sync
  <2>2. Phase = "preparing" /\ Phase' = "exchanging"
    BY <1>2, <2>1, PhaseFollows DEF Steps, PhaseAt
  <2>3. Protocol!Ready
    BY <1>2, <1>3, <2>2 DEF Sync, Synced, Goes, On, Protocol!Ready, Protocol!Goes,
       Protocol!On
  <2> QED BY <2>3 DEF Protocol!Next
<1>4. CASE SendAck(t)
  <2>1. UNCHANGED <<step, kind, toggles>> /\ Shutting(t)
    BY <1>2, <1>4 DEF SendAck, service, tasks, counts, Shutting
  <2>2. Phase = "exchanging" /\ Phase' = "exchanging"
    BY <1>4, <2>1, PhaseOfSequence, PhaseKept DEF SendAck, PhaseAt
  <2>3. Protocol!Grant
    BY <1>4, <2>2 DEF SendAck, On, Protocol!Grant, Protocol!On
  <2> QED BY <2>3 DEF Protocol!Next
<1>5. CASE Confirm(t)
  <2>1. Goes(t, "acking", "halting") /\ granted /\ UNCHANGED world
    BY <1>5 DEF Confirm, IInv, SeenGranted
  <2>2. Phase = "exchanging" /\ Phase' = "confirmed"
    BY <1>2, <2>1, PhaseFollows DEF Steps, PhaseAt
  <2>3. Protocol!Confirm
    BY <2>1, <2>2 DEF Goes, On, world, Protocol!Confirm, Protocol!Goes, Protocol!On
  <2> QED BY <2>3 DEF Protocol!Next
<1>6. CASE Poweroff(t)
  <2>1. Goes(t, "halting", "idle")
    BY <1>6 DEF Poweroff
  <2>2. Phase = "confirmed" /\ Phase' = "idle"
    BY <1>2, <2>1, PhaseFollows DEF Steps, PhaseAt
  <2>3. Protocol!Halt
    BY <1>6, <2>2 DEF Poweroff, Goes, On, Protocol!Halt, Protocol!Goes, Protocol!On
  <2> QED BY <2>3 DEF Protocol!Next
<1> QED BY <1>3, <1>4, <1>5, <1>6

LEMMA FailMaps ==
    ASSUME IInv, IInv', toggles = 0, NEW t \in Tasks, Fail(t)
    PROVE  [Protocol!Next]_(Protocol!vars)
<1>1. /\ Goes(t, step[t], "idle") /\ step[t] # "idle" /\ On
      /\ UNCHANGED <<agt, payload, armed, synced, granted>>
  BY DEF Fail, Goes, world
<1>2. step[t] \in Steps \ {"idle"} /\ kind[t] \in Kinds /\ "idle" \in Steps
  BY <1>1 DEF IInv, TypeOK, Steps
<1>3. CASE kind[t] = "full"
  <2>1. Phase = PhaseAt(step[t]) /\ Phase' = "idle"
    BY <1>1, <1>2, <1>3, PhaseFollows
  <2>2. Phase \in {"preparing", "exchanging", "confirmed"}
    BY <1>2, <2>1 DEF PhaseAt, Steps
  <2>3. Protocol!GiveUp
    BY <1>1, <2>1, <2>2 DEF On, Protocol!GiveUp, Protocol!On
  <2> QED BY <2>3 DEF Protocol!Next
<1>4. CASE kind[t] = "bench"
  <2>1. Phase = "idle" /\ Phase' = "idle"
    BY <1>1, <1>2, <1>4, PhaseFollows
  <2> QED BY <1>1, <2>1 DEF Protocol!vars
<1> QED BY <1>2, <1>3, <1>4 DEF Kinds

LEMMA AgtMaps ==
    ASSUME IInv, IInv', toggles = 0,
           \/ \E fresh \in BOOLEAN : HearCapability(fresh)
           \/ HearStage \/ HearReset \/ Ask \/ Withdraw \/ Cut
           \/ UNCHANGED vars
    PROVE  [Protocol!Next]_(Protocol!vars)
<1>1. UNCHANGED <<step, kind, toggles, armed, synced, granted>>
  BY DEF HearCapability, HearStage, HearReset, Ask, Withdraw, Cut, service,
     tasks, world, counts, vars
<1>2. Phase' = Phase
  BY <1>1, PhaseKept
<1>3. CASE \/ \E fresh \in BOOLEAN : HearCapability(fresh)
           \/ HearStage \/ HearReset \/ UNCHANGED vars
  <2>1. UNCHANGED <<agt, payload>>
    BY <1>3 DEF HearCapability, HearStage, HearReset, world, vars
  <2> QED BY <1>1, <1>2, <2>1 DEF Protocol!vars
<1>4. CASE Ask
  <2>1. Protocol!Ask
    BY <1>1, <1>2, <1>4 DEF Ask, On, Protocol!Ask, Protocol!On
  <2> QED BY <2>1 DEF Protocol!Next
<1>5. CASE Withdraw
  <2>1. Protocol!Withdraw
    BY <1>1, <1>2, <1>5 DEF Withdraw, On, Protocol!Withdraw, Protocol!On
  <2> QED BY <2>1 DEF Protocol!Next
<1>6. CASE Cut
  <2>1. Protocol!Cut
    BY <1>1, <1>2, <1>6 DEF Cut, Protocol!Cut
  <2> QED BY <2>1 DEF Protocol!Next
<1> QED BY <1>3, <1>4, <1>5, <1>6

\* A service that starts anew has no sequence.
LEMMA RestartMaps ==
    ASSUME IInv, IInv', toggles = 0, Restart \/ PowerOn
    PROVE  Protocol!Next
<1>1. Forget
  BY DEF Restart, PowerOn
<1>2. toggles' = 0 /\ \A t \in Tasks : ~Shutting(t)'
  BY <1>1 DEF Forget, Shutting
<1>3. Phase' = "idle"
  BY <1>2, PhaseOfSequenceNext
<1>4. Phase # "void"
  BY DEF Phase
<1>5. CASE Restart
  <2>1. Protocol!Restart
    BY <1>3, <1>4, <1>5 DEF Restart, On, Protocol!Restart, Protocol!On
  <2> QED BY <2>1 DEF Protocol!Next
<1>6. CASE PowerOn
  <2>1. (synced' /\ ~armed') \in BOOLEAN
    OBVIOUS
  <2>2. Protocol!PowerOn
    BY <1>3, <1>4, <1>6, <2>1 DEF PowerOn, On, Protocol!PowerOn, Protocol!On
  <2> QED BY <2>2 DEF Protocol!Next
<1> QED BY <1>5, <1>6

\* A policy that was changed stays so for the protocol.
LEMMA VoidMaps ==
    ASSUME IInv, IInv', [Next]_vars, toggles # 0 \/ SetBench
    PROVE  Protocol!Next
<1>1. toggles \in Nat /\ (toggles' = toggles \/ toggles' = toggles + 1)
  BY DEF IInv, TypeOK, Next, HearCapability, HearStage, HearReset, StartBench,
     StartShutdown, Start, TaskStep, Disarm, Flush, Sync, SendAck, Confirm,
     Poweroff, Fail, Goes, Ask, Withdraw, Cut, SetBench, Restart, PowerOn,
     Forget, counts, vars
<1>2. toggles' # 0
  BY <1>1 DEF SetBench
<1> QED BY <1>2 DEF Phase, Protocol!Void, Protocol!Next

\* The tasks of the service implement one sequence: every step of any of them,
\* of the AGT, the operator or a restart is a step of the protocol or none.
THEOREM ProtocolHolds == Spec => ImplementsProtocol
<1>1. Init => Protocol!Init
  <2> SUFFICES ASSUME Init PROVE Protocol!Init
    OBVIOUS
  <2>1. Phase = "idle"
    BY DEF Init, Phase, SequenceAt
  <2> QED BY <2>1 DEF Init, Protocol!Init
<1>2. IInv /\ IInv' /\ [Next]_vars => [Protocol!Next]_(Protocol!vars)
  <2> SUFFICES ASSUME IInv, IInv', [Next]_vars
               PROVE  [Protocol!Next]_(Protocol!vars)
    OBVIOUS
  <2>1. CASE toggles # 0 \/ SetBench
    BY <2>1, VoidMaps
  <2>2. CASE toggles = 0 /\ ~SetBench
    BY <2>2, StartMaps, WorkMaps, ExchangeMaps, FailMaps, AgtMaps, RestartMaps
       DEF Next, TaskStep, Protocol!Next
  <2> QED BY <2>1, <2>2
<1> QED BY <1>1, <1>2, HandshakeInvariant, PTL
        DEF Spec, ImplementsProtocol, Protocol!Spec

\* What any implementation of the protocol keeps: in an exchange the vehicle is
\* safe, and a sequence is confirmed only if the AGT has counted.
ProtocolInv ==
    Phase # "void" =>
        /\ Phase \in {"exchanging", "confirmed"} => synced /\ ~armed
        /\ Phase = "confirmed" => granted
        /\ payload = "halted" => synced /\ ~armed /\ granted

LEMMA ProtocolKeeps ==
    ProtocolInv /\ [Protocol!Next]_(Protocol!vars) => ProtocolInv'
<1> SUFFICES ASSUME ProtocolInv, [Protocol!Next]_(Protocol!vars)
             PROVE  ProtocolInv'
  OBVIOUS
<1> USE DEF ProtocolInv, Protocol!On, Protocol!Goes
<1>1. CASE Protocol!Begin \/ Protocol!Work \/ Protocol!Ready \/ Protocol!Grant
  BY <1>1 DEF Protocol!Begin, Protocol!Work, Protocol!Ready, Protocol!Grant
<1>2. CASE Protocol!Confirm \/ Protocol!Halt \/ Protocol!GiveUp
  BY <1>2 DEF Protocol!Confirm, Protocol!Halt, Protocol!GiveUp
<1>3. CASE Protocol!Ask \/ Protocol!Withdraw \/ Protocol!Cut
  BY <1>3 DEF Protocol!Ask, Protocol!Withdraw, Protocol!Cut
<1>4. CASE Protocol!Restart \/ Protocol!PowerOn \/ Protocol!Void
  BY <1>4 DEF Protocol!Restart, Protocol!PowerOn, Protocol!Void
<1>5. CASE UNCHANGED Protocol!vars
  BY <1>5 DEF Protocol!vars
<1> QED BY <1>1, <1>2, <1>3, <1>4, <1>5 DEF Protocol!Next

\* A host that powers itself off under a fixed policy is disarmed, has all that
\* was written on its disk, and the AGT had begun to count: it follows from the
\* protocol alone.
THEOREM HaltIsSafe == Spec => []HaltedMeansSafe
<1>1. Init => ProtocolInv
  <2> SUFFICES ASSUME Init PROVE ProtocolInv
    OBVIOUS
  <2>1. Phase = "idle" /\ payload = "on"
    BY DEF Init, Phase, SequenceAt
  <2> QED BY <2>1 DEF ProtocolInv
<1>2. ProtocolInv => HaltedMeansSafe
  <2> SUFFICES ASSUME ProtocolInv, toggles = 0, payload = "halted"
               PROVE  synced /\ ~armed /\ granted
    BY DEF HaltedMeansSafe
  <2>1. Phase # "void"
    BY DEF Phase
  <2> QED BY <2>1 DEF ProtocolInv
<1> QED BY <1>1, <1>2, ProtocolHolds, ProtocolKeeps, PTL
        DEF Spec, ImplementsProtocol, Protocol!Spec

=============================================================================
