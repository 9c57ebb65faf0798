----------------------------- MODULE ProcessingView -----------------------------
(***************************************************************************)
(* How the console follows post-dive processing (useApi.ts, the bar of     *)
(* App.vue, the panel of AllMissions.vue) over the one job at a time the   *)
(* backend runs (services/dive_processing.py, routes/dive.py).             *)
(*                                                                         *)
(* One loaded console is modelled; others may start runs too.  Runs are    *)
(* numbered in their order, log lines by their position.  Polls overlap,   *)
(* overtake each other or are lost.                                        *)
(***************************************************************************)
EXTENDS Integers, FiniteSets

CONSTANTS
    MaxRuns,     \* bound on the runs
    MaxLines,    \* bound on the lines of a run
    MaxPolls     \* bound on the polls on their way at a time

ASSUME RunsAssumption == MaxRuns \in Nat /\ MaxLines \in Nat /\ MaxPolls \in Nat

Run == 1..MaxRuns
Lines == 1..MaxLines

\* An answer on its way, or a question: then answered is FALSE and the rest is empty.
Status == [run : 0..MaxRuns, done : BOOLEAN, total : 0..MaxLines]
Nothing == [run |-> 0, done |-> FALSE, total |-> 0]
PollOf == [target : 0..MaxRuns, from : 0..MaxLines, answered : BOOLEAN, status : Status,
           first : BOOLEAN]

VARIABLES
    sessions,    \* _sessions: the runs the backend remembers
    latest,      \* the last run that was started; _active_id while it is remembered
    total, done, \* lines and end of each run
    session,     \* processingSession: the run shown, or 0
    finished,    \* its done, as shown
    have,        \* processingLines
    cursor,      \* processingLineCursor
    ticking,     \* processingPollTimer is set
    polls,       \* polls on their way; first: a start waits for it
    starting,    \* processingStarting, and how far the start has come
    started,     \* the run an accepted start names, until the page reads it
    dismissed,   \* processingDismissedId
    doubled,     \* history: a line was shown twice
    crossed      \* history: two polls were on their way at once

job == << sessions, latest, total, done >>
view == << session, finished, have, cursor, ticking, doubled >>
procVars == << job, view, polls, starting, started, dismissed, crossed >>

ProcTypeOK ==
    /\ sessions \subseteq Run /\ latest \in 0..MaxRuns
    /\ total \in [Run -> 0..MaxLines] /\ done \in [Run -> BOOLEAN]
    /\ session \in 0..MaxRuns /\ finished \in BOOLEAN
    /\ have \subseteq Lines /\ cursor \in 0..MaxLines /\ ticking \in BOOLEAN
    /\ polls \subseteq PollOf
    /\ starting \in {"no", "sent", "accepted", "refused", "reading"} /\ started \in 0..MaxRuns
    /\ dismissed \in 0..MaxRuns /\ doubled \in BOOLEAN /\ crossed \in BOOLEAN

ProcInit ==
    /\ sessions = {} /\ latest = 0
    /\ total = [r \in Run |-> 0] /\ done = [r \in Run |-> FALSE]
    /\ session = 0 /\ finished = FALSE /\ have = {} /\ cursor = 0 /\ ticking = FALSE
    /\ polls = {} /\ starting = "no" /\ started = 0 /\ dismissed = 0
    /\ doubled = FALSE /\ crossed = FALSE

Remembered == IF latest \in sessions THEN latest ELSE 0
Running == Remembered # 0 /\ ~done[latest]

-----------------------------------------------------------------------------
(* The backend.                                                            *)

Begin ==
    /\ latest < MaxRuns
    /\ latest' = latest + 1 /\ sessions' = sessions \cup {latest + 1}
    /\ UNCHANGED << total, done >>

OtherStarts ==
    /\ ~Running /\ Begin
    /\ UNCHANGED << view, polls, starting, started, dismissed, crossed >>

\* The last line is written with the end, nothing comes in between.
Logs(ends) ==
    /\ Running /\ total[latest] < MaxLines
    /\ total' = [total EXCEPT ![latest] = @ + 1]
    /\ done' = [done EXCEPT ![latest] = ends]
    /\ UNCHANGED << sessions, latest, view, polls, starting, started, dismissed, crossed >>

JobLogs == Running /\ total[latest] < MaxLines - 1 /\ Logs(FALSE)
JobEnds == Logs(TRUE)

\* A restart forgets the runs and abandons the one that is going on.
Restart ==
    /\ sessions # {}
    /\ sessions' = {}
    /\ total' = [r \in Run |-> 0] /\ done' = [r \in Run |-> FALSE]
    /\ UNCHANGED << latest, view, polls, starting, started, dismissed, crossed >>

StatusOf(r) == IF r = 0 THEN Nothing ELSE [run |-> r, done |-> done[r], total |-> total[r]]

\* Without a run to look for, the most recent one.
AnswerPoll(p) ==
    /\ p \in polls /\ ~p.answered
    /\ polls' = (polls \ {p}) \cup
         {[p EXCEPT !.answered = TRUE,
                    !.status = StatusOf(IF p.target = 0 THEN Remembered
                                        ELSE IF p.target \in sessions THEN p.target ELSE 0)]}
    /\ UNCHANGED << job, view, starting, started, dismissed, crossed >>

-----------------------------------------------------------------------------
(* Reading the progress.                                                   *)

FromNext(r) == IF r = session /\ cursor < MaxLines THEN cursor + 1 ELSE 0  \* mutant
FromLine(r) == IF r = session THEN cursor ELSE 0

Refresh(r, first) ==
    /\ Cardinality(polls) < MaxPolls
    /\ polls' = polls \cup {[target |-> r, from |-> FromLine(r), answered |-> FALSE,
                             status |-> Nothing, first |-> first]}
    /\ crossed' = (crossed \/ polls # {})

\* A component that shows the progress is mounted.
Attach ==
    /\ Refresh(session, FALSE)
    /\ UNCHANGED << job, view, starting, started, dismissed >>

Tick ==
    /\ ticking /\ Refresh(session, FALSE)
    /\ UNCHANGED << job, view, starting, started, dismissed >>

\* applyProcessingStatus.
Apply(p) ==
    LET s == p.status
        lines == (p.from + 1)..s.total IN
    /\ session' = s.run /\ finished' = s.done /\ cursor' = s.total
    /\ IF s.run # session \/ p.from = 0
       THEN have' = lines /\ doubled' = FALSE
       ELSE have' = have \cup lines /\ doubled' = (doubled \/ have \cap lines # {})
    /\ ticking' = (s.run # 0 /\ ~s.done)

Read(p) == starting' = IF p.first THEN "no" ELSE starting

Deliver(p) ==
    /\ p \in polls /\ p.answered
    /\ polls' = polls \ {p}
    /\ Apply(p) /\ Read(p)
    /\ UNCHANGED << job, started, dismissed, crossed >>

GiveUpWatching == FALSE  \* mutant: a dropped poll ends the watch
KeepWatching == ticking

Drop(p) ==
    /\ p \in polls
    /\ polls' = polls \ {p}
    /\ ticking' = KeepWatching
    /\ Read(p)
    /\ UNCHANGED << job, session, finished, have, cursor, doubled, started, dismissed, crossed >>

-----------------------------------------------------------------------------
(* Starting a run.                                                         *)

IsProcessing == session # 0 /\ ~finished

ProcessDive ==
    /\ ~IsProcessing /\ starting = "no"
    /\ starting' = "sent"
    /\ UNCHANGED << job, view, polls, started, dismissed, crossed >>

\* 409 while one is in flight.
StartAccepted ==
    /\ starting = "sent" /\ ~Running /\ Begin
    /\ starting' = "accepted" /\ started' = latest + 1
    /\ UNCHANGED << view, polls, dismissed, crossed >>

StartRefused ==
    /\ starting = "sent" /\ Running
    /\ starting' = "refused"
    /\ UNCHANGED << job, view, polls, started, dismissed, crossed >>

StartReplied ==
    /\ starting = "accepted"
    /\ starting' = "reading" /\ dismissed' = 0
    /\ started' = 0
    /\ Refresh(started, TRUE)
    /\ UNCHANGED << job, view >>

\* Refused, or the answer never comes: the card shows an error.
StartFails ==
    /\ starting \in {"sent", "accepted", "refused"}
    /\ starting' = "no" /\ started' = 0
    /\ UNCHANGED << job, view, polls, dismissed, crossed >>

DismissProcessing ==
    /\ session # 0 /\ finished /\ dismissed # session
    /\ dismissed' = session
    /\ UNCHANGED << job, view, polls, starting, started, crossed >>

ProcNext ==
    \/ OtherStarts
    \/ JobLogs
    \/ JobEnds
    \/ Restart
    \/ \E p \in polls : AnswerPoll(p) \/ Deliver(p) \/ Drop(p)
    \/ Attach
    \/ Tick
    \/ ProcessDive
    \/ StartAccepted
    \/ StartRefused
    \/ StartReplied
    \/ StartFails
    \/ DismissProcessing

AnswerComes == \E p \in polls : AnswerPoll(p)
EndDelivered == \E p \in polls : (p.status.run # 0 => p.status.done) /\ Deliver(p)

\* The job goes on and the interval too; a poll ends some way, and now and then it is
\* answered and the answer comes through.
ProcSteps ==
    /\ WF_procVars(JobEnds)
    /\ WF_procVars(Tick)
    /\ WF_procVars(\E p \in polls : Deliver(p) \/ Drop(p))

ProcFairness == ProcSteps /\ SF_procVars(AnswerComes) /\ SF_procVars(EndDelivered)

ProcSpec == ProcInit /\ [][ProcNext]_procVars /\ ProcFairness

-----------------------------------------------------------------------------
(* Properties.                                                             *)

\* The log shown has every line up to the cursor, once, whatever polls were lost, runs were
\* started and backends restarted, as long as no two polls were on their way at once.
LogComplete == ~crossed => have = 1..cursor /\ ~doubled

\* A run shown as going on is shown to its end, or no longer shown, though polls are lost.
EndIsShown == \A r \in Run : []<>(session # r \/ finished)
=============================================================================
