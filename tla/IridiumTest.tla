------------------------------- MODULE IridiumTest -------------------------------
(***************************************************************************)
(* The Iridium test of the sensor page (SensorConfiguration.vue) over the  *)
(* buffer of tracker messages the backend keeps (services/tracker.py).     *)
(*                                                                         *)
(* The tracker (AGT) tests for minutes and says so in messages, which are  *)
(* heard while the backend listens; the page asks for those newer than the *)
(* last it saw.  Messages are numbered as they are said; the backend counts*)
(* its own from 1 and begins anew at a restart.  Polls overlap, overtake   *)
(* each other or are lost.  Messages that are not about the test, the      *)
(* transcript and the elapsed time are left out.                           *)
(***************************************************************************)
EXTENDS Integers, Sequences, FiniteSets

CONSTANTS
    MaxSaid,     \* bound on the messages
    MaxTests,    \* bound on the tests that are asked for
    MaxReads     \* bound on the polls on their way at a time

ASSUME SaidAssumption == MaxSaid \in Nat /\ MaxTests \in Nat /\ MaxReads \in Nat

Word == {"starting", "passed", "failed"}
Text == [word : Word, nr : 1..MaxSaid]
Reading == [since : 0..MaxSaid, answered : BOOLEAN, texts : Seq(Text), latest : 0..MaxSaid]

VARIABLES
    said,        \* messages said so far
    testing,     \* the AGT makes a test
    texts,       \* the buffer; a message's id is its position
    tab_open,    \* the page is mounted
    test,        \* iridiumState
    request,     \* the request of a test, with the baseline the backend takes before it asks
    baseline,
    last_seen,   \* iridiumLastSeenId
    overdue,     \* the deadline is over
    interval,    \* iridiumPollInterval is set
    readings,    \* polls on their way
    tests,
    asked_at,    \* history: the messages said when the baseline of the last test was taken
    verdict,     \* history: the message that ended it, or 0
    belated      \* history: a poll was on its way when a test was asked for, or reset

buffer == << said, testing, texts >>
tester == << test, last_seen, overdue, interval, verdict >>
trigger == << request, baseline, tests, asked_at >>
iridiumVars == << buffer, tester, trigger, tab_open, readings, belated >>

IridiumTypeOK ==
    /\ said \in 0..MaxSaid /\ testing \in BOOLEAN
    /\ texts \in Seq(Text) /\ Len(texts) <= said
    /\ tab_open \in BOOLEAN
    /\ test \in {"idle", "sending", "running", "passed", "failed"}
    /\ request \in {"none", "posted", "based", "accepted", "rejected"}
    /\ baseline \in 0..MaxSaid /\ last_seen \in 0..MaxSaid
    /\ overdue \in BOOLEAN /\ interval \in BOOLEAN
    /\ readings \subseteq Reading
    /\ tests \in 0..MaxTests /\ asked_at \in 0..MaxSaid /\ verdict \in 0..MaxSaid
    /\ belated \in BOOLEAN

IridiumInit ==
    /\ said = 0 /\ testing = FALSE /\ texts = << >>
    /\ tab_open = FALSE /\ test = "idle" /\ request = "none" /\ baseline = 0 /\ last_seen = 0
    /\ overdue = FALSE /\ interval = FALSE /\ readings = {}
    /\ tests = 0 /\ asked_at = 0 /\ verdict = 0 /\ belated = FALSE

-----------------------------------------------------------------------------
(* The tracker and the buffer.                                             *)

\* Heard, unless the backend is not connected.
Says(word) ==
    /\ testing /\ said < MaxSaid /\ said' = said + 1
    /\ testing' = (word = "starting")
    /\ texts' \in {texts, Append(texts, [word |-> word, nr |-> said + 1])}
    /\ UNCHANGED << tester, trigger, tab_open, readings, belated >>

\* A restart of the backend, which forgets what was said.
Forget ==
    /\ texts # << >>
    /\ texts' = << >>
    /\ UNCHANGED << said, testing, tester, trigger, tab_open, readings, belated >>

\* _send_agt_command: the baseline first, so that no answer comes before it.
TakeBaseline ==
    /\ request = "posted"
    /\ request' = "based" /\ baseline' = Len(texts) /\ asked_at' = said
    /\ UNCHANGED << buffer, tester, tests, tab_open, readings, belated >>

SendCommand ==
    /\ request = "based"
    /\ \/ request' = "accepted" /\ testing' = TRUE
       \/ request' = "rejected" /\ testing' \in {testing, TRUE}
    /\ UNCHANGED << said, texts, tester, baseline, tests, asked_at, tab_open, readings, belated >>

-----------------------------------------------------------------------------
(* The page.                                                               *)

OpenTab ==
    /\ ~tab_open
    /\ tab_open' = TRUE /\ UNCHANGED << buffer, tester, trigger, readings, belated >>

\* A test that was asked for goes on unwatched, the request too.
LeaveTab ==
    /\ tab_open
    /\ tab_open' = FALSE
    /\ test' = "idle" /\ last_seen' = 0 /\ overdue' = FALSE /\ interval' = FALSE
    /\ verdict' = 0 /\ readings' = {} /\ request' = "none" /\ baseline' = 0 /\ asked_at' = 0
    /\ belated' = FALSE
    /\ testing' \in {testing, testing \/ request \in {"posted", "based"}}
    /\ UNCHANGED << said, texts, tests >>

TriggerTest ==
    /\ tab_open /\ test = "idle" /\ tests < MaxTests
    /\ test' = "sending" /\ request' = "posted" /\ tests' = tests + 1
    /\ belated' = (belated \/ readings # {})
    /\ UNCHANGED << buffer, last_seen, overdue, interval, verdict, baseline, asked_at, tab_open,
                    readings >>

NoBaseline == last_seen  \* mutant: what was read before is not skipped
FromBaseline == baseline

TestAccepted ==
    /\ request = "accepted"
    /\ request' = "none"
    /\ last_seen' = FromBaseline /\ overdue' = FALSE /\ verdict' = 0
    /\ test' = "running" /\ interval' = TRUE
    /\ UNCHANGED << buffer, baseline, tests, asked_at, tab_open, readings, belated >>

\* Rejected, or the request fails at any point.
TestRefused ==
    /\ request # "none"
    /\ request' = "none" /\ test' = "failed" /\ verdict' = 0
    /\ UNCHANGED << buffer, last_seen, overdue, interval, baseline, tests, asked_at,
                    tab_open, readings, belated >>

Finish(outcome, nr) == test' = outcome /\ interval' = FALSE /\ verdict' = nr

\* Twelve minutes.
TimePasses ==
    /\ test = "running" /\ ~overdue
    /\ overdue' = TRUE
    /\ UNCHANGED << buffer, test, last_seen, interval, verdict, trigger, tab_open, readings,
                    belated >>

PollIridium ==
    /\ interval
    /\ IF overdue
       THEN Finish("failed", 0) /\ UNCHANGED readings
       ELSE /\ Cardinality(readings) < MaxReads
            /\ readings' = readings \cup
                 {[since |-> last_seen, answered |-> FALSE, texts |-> << >>, latest |-> 0]}
            /\ UNCHANGED << test, interval, verdict >>
    /\ UNCHANGED << buffer, last_seen, overdue, trigger, tab_open, belated >>

AnswerReading(r) ==
    /\ r \in readings /\ ~r.answered
    /\ readings' = (readings \ {r}) \cup
         {[r EXCEPT !.answered = TRUE, !.latest = Len(texts),
                    !.texts = SubSeq(texts, r.since + 1, Len(texts))]}
    /\ UNCHANGED << buffer, tester, trigger, tab_open, belated >>

Verdicts(r) == {i \in DOMAIN r.texts : r.texts[i].word # "starting"}

\* The first verdict counts, whatever state the test is in by then.
ReadingRead(r) ==
    /\ r \in readings /\ r.answered
    /\ readings' = readings \ {r}
    /\ last_seen' = IF r.latest > last_seen THEN r.latest ELSE last_seen
    /\ \/ Verdicts(r) = {} /\ UNCHANGED << test, interval, verdict >>
       \/ \E i \in Verdicts(r) :
            /\ \A j \in Verdicts(r) : i <= j
            /\ Finish(r.texts[i].word, r.texts[i].nr)
    /\ UNCHANGED << buffer, overdue, trigger, tab_open, belated >>

ReadingLost(r) ==
    /\ r \in readings
    /\ readings' = readings \ {r}
    /\ UNCHANGED << buffer, tester, trigger, tab_open, belated >>

\* The same button, once the test has ended.
ResetTest ==
    /\ tab_open /\ test \in {"passed", "failed"}
    /\ test' = "idle" /\ interval' = FALSE /\ overdue' = FALSE
    /\ belated' = (belated \/ readings # {})
    /\ UNCHANGED << buffer, last_seen, verdict, trigger, tab_open, readings >>

IridiumNext ==
    \/ \E word \in Word : Says(word)
    \/ Forget
    \/ TakeBaseline
    \/ SendCommand
    \/ OpenTab
    \/ LeaveTab
    \/ TriggerTest
    \/ TestAccepted
    \/ TestRefused
    \/ TimePasses
    \/ PollIridium
    \/ \E r \in readings : AnswerReading(r) \/ ReadingRead(r) \/ ReadingLost(r)
    \/ ResetTest

IridiumSpec == IridiumInit /\ [][IridiumNext]_iridiumVars

-----------------------------------------------------------------------------
(* Properties.                                                             *)

\* The verdict shown was said after the test was asked for: not that of an earlier test,
\* which may be in the buffer still, unless a poll of an earlier test was on its way.
VerdictFresh ==
    test \in {"passed", "failed"} /\ verdict # 0 /\ ~belated => verdict > asked_at
=============================================================================
