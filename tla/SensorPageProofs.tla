---------------------------- MODULE SensorPageProofs ----------------------------
(***************************************************************************)
(* The sensor page's hold-to-test buttons and its Iridium test, for any    *)
(* number of presses, messages, tests and polls.                           *)
(***************************************************************************)
EXTENDS HoldTests, IridiumTest, SequenceTheorems, TLAPS

USE ButtonsAssumption, SaidAssumption DEF ButtonsAssumption, SaidAssumption

-----------------------------------------------------------------------------
(* The hold-to-test buttons.                                               *)

\* A request is put into the set of its button.
LEMMA AsksPost ==
    ASSUME HoldTypeOK, NEW b \in Buttons, NEW on \in BOOLEAN, NEW n \in 0..MaxPresses,
           Asks(b, on, n)
    PROVE  /\ posts' \in [Buttons -> SUBSET Post]
           /\ posts'[b] = posts[b] \cup {[on |-> on, press |-> n]}
           /\ \A c \in Buttons \ {b} : posts'[c] = posts[c]
  BY DEF HoldTypeOK, Asks, Post

LEMMA AsksUnawaited ==
    ASSUME HoldTypeOK, NEW b \in Buttons, NEW on \in BOOLEAN, Asks(b, on, 0)
    PROVE  /\ posts' \in [Buttons -> SUBSET Post]
           /\ \A c \in Buttons \ {b} : posts'[c] = posts[c]
           /\ \A c \in Buttons : Awaited(c)' = Awaited(c)
<1>1. 0 \in 0..MaxPresses
  OBVIOUS
<1>2. /\ posts' \in [Buttons -> SUBSET Post]
      /\ posts'[b] = posts[b] \cup {[on |-> on, press |-> 0]}
      /\ \A c \in Buttons \ {b} : posts'[c] = posts[c]
  BY <1>1, AsksPost
<1> QED BY <1>2 DEF Awaited

LEMMA HoldInitTypes == HoldInit => HoldTypeOK
  BY DEF HoldInit, HoldTypeOK

LEMMA HoldTypes == HoldTypeOK /\ [HoldNext]_holdVars => HoldTypeOK'
<1> SUFFICES ASSUME HoldTypeOK, [HoldNext]_holdVars PROVE HoldTypeOK'
  OBVIOUS
<1>0. CASE UNCHANGED holdVars
  BY <1>0 DEF HoldTypeOK, holdVars
<1>1. CASE LeavePage
  <2>1. intervals' \in [Buttons -> SUBSET Presses]
    BY <1>1 DEF HoldTypeOK, LeavePage, Stopped, Cleared
  <2>2. handle' \in [Buttons -> 0..MaxPresses]
    BY <1>1 DEF HoldTypeOK, LeavePage
  <2>3. posts' \in [Buttons -> SUBSET Post]
    <3>1. 0 \in 0..MaxPresses
      OBVIOUS
    <3>2. [on |-> FALSE, press |-> 0] \in Post
      BY <3>1 DEF Post
    <3>3. posts \in [Buttons -> SUBSET Post]
      BY DEF HoldTypeOK
    <3> QED BY <1>1, <3>2, <3>3 DEF LeavePage
  <2>4. down' \in [Buttons -> BOOLEAN] /\ active' \in [Buttons -> BOOLEAN]
    BY <1>1, Zenon DEF HoldTypeOK, LeavePage
  <2>5. later' \in [Buttons -> BOOLEAN] /\ overtaken' \in [Buttons -> BOOLEAN]
    BY <1>1, Zenon DEF HoldTypeOK, LeavePage
  <2> QED BY <1>1, <2>1, <2>2, <2>3, <2>4, <2>5 DEF HoldTypeOK, LeavePage
<1>2. ASSUME NEW b \in Buttons, Press(b) PROVE HoldTypeOK'
  <2>1. presses + 1 \in 0..MaxPresses
    BY <1>2 DEF HoldTypeOK, Press
  <2>2. posts' \in [Buttons -> SUBSET Post]
    BY <1>2, <2>1, AsksPost DEF Press
  <2>3. overtaken' \in [Buttons -> BOOLEAN]
    BY <1>2, Zenon DEF HoldTypeOK, Press
  <2> QED BY <1>2, <2>1, <2>2, <2>3 DEF HoldTypeOK, Press
<1>3. ASSUME NEW b \in Buttons, LetGo(b) PROVE HoldTypeOK'
  <2>1. posts' \in [Buttons -> SUBSET Post] /\ later' \in [Buttons -> BOOLEAN]
    <3>1. CASE active[b]
      <4>1. Asks(b, FALSE, 0) /\ later' = [later EXCEPT ![b] = TRUE]
        BY <1>3, <3>1 DEF LetGo
      <4> QED BY <4>1, AsksUnawaited DEF HoldTypeOK
    <3>2. CASE ~active[b]
      BY <1>3, <3>2 DEF LetGo, HoldTypeOK
    <3> QED BY <3>1, <3>2
  <2>2. intervals' \in [Buttons -> SUBSET Presses]
    BY <1>3 DEF HoldTypeOK, LetGo, Stopped, Cleared
  <2> QED BY <1>3, <2>1, <2>2 DEF HoldTypeOK, LetGo
<1>4. ASSUME NEW b \in Buttons, SecondOff(b) PROVE HoldTypeOK'
  <2>1. Asks(b, FALSE, 0)
    BY <1>4 DEF SecondOff
  <2>2. posts' \in [Buttons -> SUBSET Post]
    BY <2>1, AsksUnawaited
  <2> QED BY <1>4, <2>2 DEF HoldTypeOK, SecondOff
<1>5. ASSUME NEW b \in Buttons, KeepAlive(b) PROVE HoldTypeOK'
  <2>1. Asks(b, TRUE, 0)
    BY <1>5 DEF KeepAlive
  <2>2. posts' \in [Buttons -> SUBSET Post]
    BY <2>1, AsksUnawaited
  <2> QED BY <1>5, <2>2 DEF HoldTypeOK, KeepAlive
<1>6. ASSUME NEW b \in Buttons, Settle(b) PROVE HoldTypeOK'
  <2>1. PICK p \in posts[b], reached \in BOOLEAN, ok \in BOOLEAN : Settled(b, p, reached, ok)
    BY <1>6 DEF Settle
  <2>2. p \in Post
    BY DEF HoldTypeOK
  <2>3. posts' \in [Buttons -> SUBSET Post]
    BY <2>1 DEF HoldTypeOK, Settled
  <2>4. energised' \in [Buttons -> BOOLEAN]
    BY <2>1, <2>2 DEF HoldTypeOK, Settled, Post
  <2>5. /\ active' \in [Buttons -> BOOLEAN] /\ handle' \in [Buttons -> 0..MaxPresses]
        /\ intervals' \in [Buttons -> SUBSET Presses]
    <3>1. CASE p.press = 0
      BY <2>1, <3>1 DEF HoldTypeOK, Settled
    <3>2. CASE p.press # 0 /\ ok /\ GoesOn(b)
      BY <2>1, <2>2, <3>2 DEF HoldTypeOK, Settled, Presses, Post
    <3>3. CASE p.press # 0 /\ ~(ok /\ GoesOn(b))
      BY <2>1, <3>3 DEF HoldTypeOK, Settled
    <3> QED BY <3>1, <3>2, <3>3
  <2> QED BY <2>1, <2>3, <2>4, <2>5 DEF HoldTypeOK, Settled
<1>7. ASSUME NEW b \in Buttons, ScriptLetsGo(b) PROVE HoldTypeOK'
  BY <1>7 DEF HoldTypeOK, ScriptLetsGo
<1> QED BY <1>0, <1>1, <1>2, <1>3, <1>4, <1>5, <1>6, <1>7 DEF HoldNext

\* The variables of the buttons keep their types (SensorConfiguration.vue:769).
THEOREM HoldTypeCorrect == HoldSpec => []HoldTypeOK
  BY HoldInitTypes, HoldTypes, PTL DEF HoldSpec

\* A press that is not overtaken awaits one answer, and starts its interval where no other
\* ticks; an interval is the one the handle names, and its button is active on the page.
InTurn(b) ==
    /\ \A p, q \in Awaited(b) : p = q
    /\ Awaited(b) # {} => intervals[b] = {}
    /\ Awaited(b) # {} /\ active[b] => on_page
    /\ intervals[b] # {} => on_page /\ active[b] /\ intervals[b] = {handle[b]}

HoldInv == \A b \in Buttons : ~overtaken[b] => InTurn(b)

\* What a button depends on is not changed by the others.
LEMMA OtherButton ==
    ASSUME NEW c \in Buttons, InTurn(c), on_page' = on_page, posts'[c] = posts[c],
           intervals'[c] = intervals[c], active'[c] = active[c], handle'[c] = handle[c]
    PROVE  InTurn(c)'
  BY DEF InTurn, Awaited

LEMMA HoldInTurn == HoldTypeOK /\ HoldInv /\ [HoldNext]_holdVars => HoldInv'
<1> SUFFICES ASSUME HoldTypeOK, HoldInv, [HoldNext]_holdVars,
                    NEW c \in Buttons, ~overtaken'[c]
             PROVE  InTurn(c)'
  BY DEF HoldInv
<1>0. CASE UNCHANGED holdVars
  BY <1>0 DEF HoldInv, InTurn, Awaited, holdVars
<1>1. CASE LeavePage
  <2>1. ~overtaken[c] /\ (c = "light" => Awaited(c) = {})
    BY <1>1 DEF LeavePage, HoldTypeOK
  <2>2. InTurn(c)
    BY <2>1 DEF HoldInv
  <2>3. intervals'[c] = {}
    BY <1>1, <2>2 DEF LeavePage, Stopped, Cleared, InTurn
  <2>4. Awaited(c)' = Awaited(c)
    BY <1>1 DEF LeavePage, Awaited
  <2>5. c = "release" => ~active'[c]
    BY <1>1 DEF LeavePage
  <2> QED BY <2>1, <2>2, <2>3, <2>4, <2>5 DEF InTurn
<1>2. ASSUME NEW b \in Buttons, Press(b) PROVE InTurn(c)'
  <2>1. ~overtaken[c] /\ (c = b => Awaited(c) = {})
    BY <1>2 DEF Press, HoldTypeOK
  <2>2. InTurn(c)
    BY <2>1 DEF HoldInv
  <2>3. presses + 1 \in 1..MaxPresses
    BY <1>2 DEF HoldTypeOK, Press
  <2>4. /\ posts'[b] = posts[b] \cup {[on |-> TRUE, press |-> presses + 1]}
        /\ \A a \in Buttons \ {b} : posts'[a] = posts[a]
    <3>1. Asks(b, TRUE, presses + 1)
      BY <1>2 DEF Press
    <3>2. presses + 1 \in 0..MaxPresses
      BY <2>3
    <3> QED BY <3>1, <3>2, AsksPost
  <2>5. CASE c = b
    <3>1. intervals[c] = {} /\ intervals'[c] = {}
      BY <1>2, <2>2, <2>5 DEF Press, InTurn
    <3>2. Awaited(c)' = {[on |-> TRUE, press |-> presses + 1]}
      BY <2>1, <2>3, <2>4, <2>5 DEF Awaited
    <3>3. on_page'
      BY <1>2 DEF Press
    <3> QED BY <3>1, <3>2, <3>3 DEF InTurn
  <2>6. CASE c # b
    BY <1>2, <2>2, <2>4, <2>6, OtherButton DEF Press, HoldTypeOK
  <2> QED BY <2>5, <2>6
<1>3. ASSUME NEW b \in Buttons, LetGo(b) PROVE InTurn(c)'
  <2>1. ~overtaken[c] /\ InTurn(c)
    BY <1>3 DEF LetGo, HoldInv
  <2>2. /\ \A a \in Buttons \ {b} : posts'[a] = posts[a]
        /\ \A a \in Buttons : Awaited(a)' = Awaited(a)
    <3>1. CASE active[b]
      <4>1. Asks(b, FALSE, 0)
        BY <1>3, <3>1 DEF LetGo
      <4> QED BY <4>1, AsksUnawaited
    <3>2. CASE ~active[b]
      BY <1>3, <3>2 DEF LetGo, Awaited
    <3> QED BY <3>1, <3>2
  <2>3. CASE c = b
    <3>1. intervals'[c] = {} /\ ~active'[c]
      BY <1>3, <2>1, <2>3 DEF LetGo, Stopped, Cleared, InTurn, HoldTypeOK
    <3>2. Awaited(c)' = Awaited(c)
      BY <2>2
    <3> QED BY <2>1, <3>1, <3>2 DEF InTurn
  <2>4. CASE c # b
    BY <1>3, <2>1, <2>2, <2>4, OtherButton DEF LetGo, HoldTypeOK
  <2> QED BY <2>3, <2>4
<1>4. ASSUME NEW b \in Buttons, SecondOff(b) \/ KeepAlive(b) PROVE InTurn(c)'
  <2>1. ~overtaken[c] /\ InTurn(c)
    BY <1>4 DEF SecondOff, KeepAlive, HoldInv
  <2>2. PICK on \in BOOLEAN : Asks(b, on, 0)
    BY <1>4 DEF SecondOff, KeepAlive
  <2>3. Awaited(c)' = Awaited(c)
    BY <2>2, AsksUnawaited
  <2> QED BY <1>4, <2>1, <2>3 DEF SecondOff, KeepAlive, InTurn
<1>5. ASSUME NEW b \in Buttons, Settle(b) PROVE InTurn(c)'
  <2>1. PICK p \in posts[b], reached \in BOOLEAN, ok \in BOOLEAN : Settled(b, p, reached, ok)
    BY <1>5 DEF Settle
  <2>2. ~overtaken[c] /\ InTurn(c)
    BY <2>1 DEF Settled, HoldInv
  <2>3. posts'[b] = posts[b] \ {p} /\ \A a \in Buttons \ {b} : posts'[a] = posts[a]
    BY <2>1 DEF Settled, HoldTypeOK
  <2>4. \A a \in Buttons \ {b} : /\ active'[a] = active[a] /\ handle'[a] = handle[a]
                                 /\ intervals'[a] = intervals[a]
    BY <2>1 DEF Settled, HoldTypeOK
  <2>5. on_page' = on_page
    BY <2>1 DEF Settled
  <2>6. CASE c # b
    BY <2>2, <2>3, <2>4, <2>5, <2>6, OtherButton
  <2>7. CASE c = b /\ p.press = 0
    <3>1. Awaited(c)' = Awaited(c)
      BY <2>3, <2>7 DEF Awaited
    <3>2. active' = active /\ handle' = handle /\ intervals' = intervals
      BY <2>1, <2>7 DEF Settled
    <3> QED BY <2>2, <2>5, <3>1, <3>2 DEF InTurn
  <2>8. CASE c = b /\ p.press # 0
    <3>1. p \in Awaited(c) /\ intervals[c] = {}
      BY <2>2, <2>8 DEF Awaited, InTurn
    <3>2. Awaited(c)' = {}
      BY <2>2, <2>3, <2>8, <3>1 DEF Awaited, InTurn
    <3>3. CASE ok /\ GoesOn(b)
      <4>1. /\ intervals'[c] = {p.press} /\ handle'[c] = p.press /\ active' = active
        BY <2>1, <2>8, <3>1, <3>3 DEF Settled, HoldTypeOK
      <4>2. active[c] /\ on_page
        BY <2>2, <2>8, <3>1, <3>3 DEF GoesOn, HeldStill, InTurn
      <4> QED BY <2>5, <3>2, <4>1, <4>2 DEF InTurn
    <3>4. CASE ~(ok /\ GoesOn(b))
      <4>1. intervals' = intervals
        BY <2>1, <2>8, <3>4 DEF Settled
      <4> QED BY <3>1, <3>2, <4>1 DEF InTurn
    <3> QED BY <3>3, <3>4
  <2> QED BY <2>6, <2>7, <2>8
<1>6. ASSUME NEW b \in Buttons, ScriptLetsGo(b) PROVE InTurn(c)'
  BY <1>6 DEF ScriptLetsGo, HoldInv, InTurn, Awaited
<1> QED BY <1>0, <1>1, <1>2, <1>3, <1>4, <1>5, <1>6 DEF HoldNext

\* The page asks for a light or release test only while its button is held on the page,
\* unless a press, or the end of the visit, overtook an answer (SensorConfiguration.vue:777).
THEOREM HoldAsksWhileHeld == HoldInit /\ [][HoldNext]_holdVars => []AsksWhileHeld
<1>1. HoldInit => HoldTypeOK /\ HoldInv
  BY HoldInitTypes DEF HoldInit, HoldInv, InTurn, Awaited
<1>2. HoldTypeOK /\ HoldInv /\ [HoldNext]_holdVars => (HoldTypeOK /\ HoldInv)'
  BY HoldTypes, HoldInTurn
<1>3. HoldTypeOK /\ HoldInv => AsksWhileHeld
  BY DEF HoldInv, InTurn, AsksWhileHeld
<1> QED BY <1>1, <1>2, <1>3, PTL

-----------------------------------------------------------------------------
(* The Iridium test.                                                       *)

\* What an answered poll holds: what the buffer had after the last seen message.
LEMMA Slice ==
    ASSUME IridiumTypeOK, NEW r \in readings
    PROVE  /\ SubSeq(texts, r.since + 1, Len(texts)) \in Seq(Text)
           /\ Len(texts) \in 0..MaxSaid
           /\ \A i \in DOMAIN SubSeq(texts, r.since + 1, Len(texts)) :
                  /\ i + r.since \in DOMAIN texts /\ i \in Nat /\ i > 0
                  /\ SubSeq(texts, r.since + 1, Len(texts))[i] = texts[i + r.since]
<1>1. /\ texts \in Seq(Text) /\ Len(texts) \in Nat /\ Len(texts) <= said
      /\ said \in 0..MaxSaid /\ r.since \in 0..MaxSaid
  BY DEF IridiumTypeOK, Reading
<1>2. /\ SubSeq(texts, r.since + 1, Len(texts)) \in Seq(Text)
      /\ Len(SubSeq(texts, r.since + 1, Len(texts)))
           = IF r.since + 1 <= Len(texts) THEN Len(texts) - (r.since + 1) + 1 ELSE 0
      /\ \A i \in 1 .. Len(texts) - (r.since + 1) + 1 :
             SubSeq(texts, r.since + 1, Len(texts))[i] = texts[r.since + 1 + i - 1]
  <2>1. r.since + 1 \in Int /\ Len(texts) \in Int
    BY <1>1
  <2>2. \A i \in r.since + 1 .. Len(texts) : texts[i] \in Text
    BY <1>1
  <2> QED BY <2>1, <2>2, SubSeqProperties
<1>3. DOMAIN SubSeq(texts, r.since + 1, Len(texts))
        = 1 .. Len(SubSeq(texts, r.since + 1, Len(texts)))
  BY <1>2
<1>4. ASSUME NEW i \in DOMAIN SubSeq(texts, r.since + 1, Len(texts))
      PROVE  /\ i + r.since \in DOMAIN texts /\ i \in Nat /\ i > 0
             /\ SubSeq(texts, r.since + 1, Len(texts))[i] = texts[i + r.since]
  <2>1. i \in 1 .. Len(texts) - (r.since + 1) + 1
    BY <1>1, <1>2, <1>3
  <2>2. r.since + 1 + i - 1 = i + r.since
    BY <1>1, <2>1
  <2>3. i + r.since \in 1..Len(texts)
    BY <1>1, <2>1
  <2>4. DOMAIN texts = 1..Len(texts)
    BY <1>1
  <2>5. SubSeq(texts, r.since + 1, Len(texts))[i] = texts[i + r.since]
    BY <1>2, <2>1, <2>2
  <2>6. i \in Nat /\ i > 0
    BY <1>1, <2>1
  <2> QED BY <2>3, <2>4, <2>5, <2>6
<1> QED BY <1>1, <1>2, <1>4

LEMMA IridiumInitTypes == IridiumInit => IridiumTypeOK
<1>1. << >> \in Seq(Text) /\ Len(<< >>) = 0
  OBVIOUS
<1>2. 0 \in 0..MaxSaid /\ 0 \in 0..MaxTests
  OBVIOUS
<1> SUFFICES ASSUME IridiumInit PROVE IridiumTypeOK
  OBVIOUS
<1>3. /\ testing \in BOOLEAN /\ tab_open \in BOOLEAN /\ overdue \in BOOLEAN
      /\ interval \in BOOLEAN /\ belated \in BOOLEAN
  BY DEF IridiumInit
<1>4. texts \in Seq(Text) /\ Len(texts) <= said
  BY <1>1 DEF IridiumInit
<1>5. /\ said = 0 /\ baseline = 0 /\ last_seen = 0 /\ tests = 0 /\ asked_at = 0 /\ verdict = 0
      /\ test = "idle" /\ request = "none" /\ readings = {}
  BY DEF IridiumInit
<1> QED BY <1>2, <1>3, <1>4, <1>5 DEF IridiumTypeOK

LEMMA SaysTypes ==
    ASSUME IridiumTypeOK, NEW word \in Word, Says(word)
    PROVE  IridiumTypeOK'
<1>1. said + 1 \in 1..MaxSaid /\ said' = said + 1
  BY DEF IridiumTypeOK, Says
<1>2. [word |-> word, nr |-> said + 1] \in Text
  BY <1>1 DEF Text
<1>3. texts' \in Seq(Text) /\ Len(texts') <= said'
  BY <1>1, <1>2 DEF IridiumTypeOK, Says
<1> QED BY <1>1, <1>3 DEF IridiumTypeOK, Says, tester, trigger

LEMMA AnswerTypes ==
    ASSUME IridiumTypeOK, NEW r \in readings, AnswerReading(r)
    PROVE  IridiumTypeOK'
<1> DEFINE a == [r EXCEPT !.answered = TRUE, !.latest = Len(texts),
                          !.texts = SubSeq(texts, r.since + 1, Len(texts))]
<1>1. r \in Reading
  BY DEF IridiumTypeOK
<1>2. a \in Reading
  BY <1>1, Slice DEF Reading
<1>3. readings' = (readings \ {r}) \cup {a}
  BY DEF AnswerReading
<1>4. readings' \subseteq Reading
  BY <1>2, <1>3 DEF IridiumTypeOK
<1> QED BY <1>4 DEF IridiumTypeOK, AnswerReading, buffer, tester, trigger

LEMMA ReadTypes ==
    ASSUME IridiumTypeOK, NEW r \in readings, ReadingRead(r)
    PROVE  IridiumTypeOK'
<1>1. r \in Reading
  BY DEF IridiumTypeOK
<1>2. last_seen' \in 0..MaxSaid
  BY <1>1 DEF ReadingRead, IridiumTypeOK, Reading
<1>3. /\ test' \in {"idle", "sending", "running", "passed", "failed"}
      /\ interval' \in BOOLEAN /\ verdict' \in 0..MaxSaid
  <2>1. CASE UNCHANGED << test, interval, verdict >>
    BY <2>1 DEF IridiumTypeOK
  <2>2. CASE \E i \in Verdicts(r) : Finish(r.texts[i].word, r.texts[i].nr)
    <3>1. PICK i \in Verdicts(r) : Finish(r.texts[i].word, r.texts[i].nr)
      BY <2>2
    <3>2. r.texts[i] \in Text /\ r.texts[i].word # "starting"
      BY <1>1 DEF Reading, Verdicts
    <3>3. r.texts[i].word \in {"passed", "failed"} /\ r.texts[i].nr \in 0..MaxSaid
      BY <3>2 DEF Text, Word
    <3> QED BY <3>1, <3>3 DEF Finish
  <2> QED BY <2>1, <2>2 DEF ReadingRead
<1>4. readings' \subseteq Reading
  BY DEF ReadingRead, IridiumTypeOK
<1> QED BY <1>2, <1>3, <1>4 DEF IridiumTypeOK, ReadingRead, buffer, trigger

LEMMA PollTypes == ASSUME IridiumTypeOK, PollIridium PROVE IridiumTypeOK'
<1>1. [since |-> last_seen, answered |-> FALSE, texts |-> << >>, latest |-> 0] \in Reading
  BY DEF Reading, IridiumTypeOK
<1>2. readings' \subseteq Reading
  BY <1>1 DEF PollIridium, IridiumTypeOK
<1>3. CASE overdue
  <2>1. 0 \in 0..MaxSaid
    OBVIOUS
  <2>2. interval' \in BOOLEAN
    BY <1>3 DEF PollIridium, Finish
  <2>3. /\ test' = "failed" /\ verdict' = 0
        /\ UNCHANGED << said, testing, texts, tab_open, last_seen, overdue, request, baseline,
                        tests, asked_at, belated >>
    BY <1>3 DEF PollIridium, Finish, buffer, trigger
  <2> QED BY <1>2, <2>1, <2>2, <2>3 DEF IridiumTypeOK
<1>4. CASE ~overdue
  BY <1>2, <1>4 DEF PollIridium, IridiumTypeOK, buffer, trigger
<1> QED BY <1>3, <1>4 DEF IridiumTypeOK

LEMMA IridiumTypes == IridiumTypeOK /\ [IridiumNext]_iridiumVars => IridiumTypeOK'
<1> SUFFICES ASSUME IridiumTypeOK, [IridiumNext]_iridiumVars PROVE IridiumTypeOK'
  OBVIOUS
<1> USE DEF buffer, tester, trigger
<1>0. CASE UNCHANGED iridiumVars
  BY <1>0 DEF IridiumTypeOK, iridiumVars
<1>1. CASE Forget
  BY <1>1 DEF IridiumTypeOK, Forget
<1>2. CASE TakeBaseline
  <2>1. Len(texts) \in 0..MaxSaid
    BY DEF IridiumTypeOK
  <2> QED BY <1>2, <2>1 DEF IridiumTypeOK, TakeBaseline
<1>3. CASE SendCommand
  BY <1>3 DEF IridiumTypeOK, SendCommand
<1>4. CASE OpenTab
  BY <1>4 DEF IridiumTypeOK, OpenTab
<1>5. CASE LeaveTab
  <2>1. testing' \in BOOLEAN
    BY <1>5, Zenon DEF IridiumTypeOK, LeaveTab
  <2>2. 0 \in 0..MaxSaid
    OBVIOUS
  <2>3. /\ test' = "idle" /\ request' = "none" /\ readings' = {} /\ said' = said
        /\ texts' = texts /\ tests' = tests /\ last_seen' = 0 /\ verdict' = 0
        /\ baseline' = 0 /\ asked_at' = 0
    BY <1>5 DEF LeaveTab
  <2>4. tab_open' \in BOOLEAN /\ overdue' \in BOOLEAN /\ interval' \in BOOLEAN
        /\ belated' \in BOOLEAN
    BY <1>5 DEF LeaveTab
  <2> QED BY <2>1, <2>2, <2>3, <2>4 DEF IridiumTypeOK
<1>6. CASE TriggerTest
  <2>1. belated' \in BOOLEAN
    BY <1>6, Zenon DEF IridiumTypeOK, TriggerTest
  <2> QED BY <1>6, <2>1 DEF IridiumTypeOK, TriggerTest
<1>7. CASE TestAccepted
  <2>1. 0 \in 0..MaxSaid
    OBVIOUS
  <2>2. overdue' \in BOOLEAN /\ interval' \in BOOLEAN
    BY <1>7 DEF TestAccepted
  <2>3. /\ test' = "running" /\ request' = "none" /\ last_seen' = baseline /\ verdict' = 0
        /\ UNCHANGED << said, testing, texts, tab_open, baseline, readings, tests, asked_at,
                        belated >>
    BY <1>7 DEF TestAccepted, FromBaseline
  <2> QED BY <2>1, <2>2, <2>3 DEF IridiumTypeOK
<1>8. CASE TestRefused
  BY <1>8 DEF IridiumTypeOK, TestRefused
<1>9. CASE TimePasses
  BY <1>9 DEF IridiumTypeOK, TimePasses
<1>10. CASE PollIridium
  BY <1>10, PollTypes
<1>11. CASE \E r \in readings : AnswerReading(r) \/ ReadingRead(r)
  BY <1>11, AnswerTypes, ReadTypes
<1>12. CASE \E r \in readings : ReadingLost(r)
  BY <1>12 DEF IridiumTypeOK, ReadingLost
<1>13. CASE ResetTest
  <2>1. belated' \in BOOLEAN
    BY <1>13, Zenon DEF IridiumTypeOK, ResetTest
  <2> QED BY <1>13, <2>1 DEF IridiumTypeOK, ResetTest
<1>14. CASE \E word \in Word : Says(word)
  BY <1>14, SaysTypes
<1> QED BY <1>0, <1>1, <1>2, <1>3, <1>4, <1>5, <1>6, <1>7, <1>8, <1>9, <1>10, <1>11, <1>12,
           <1>13, <1>14 DEF IridiumNext

\* The variables of the Iridium test keep their types (SensorConfiguration.vue:505).
THEOREM IridiumTypeCorrect == IridiumSpec => []IridiumTypeOK
  BY IridiumInitTypes, IridiumTypes, PTL DEF IridiumSpec

\* Past the baseline the buffer has only what was said since, also if it began anew.
FreshBuffer == \A i \in DOMAIN texts : i > baseline => texts[i].nr > asked_at

FreshReading(r) ==
    r.since >= baseline /\ \A i \in DOMAIN r.texts : r.texts[i].nr > asked_at

IridiumInv ==
    /\ asked_at <= said
    /\ FreshBuffer
    /\ interval => test = "running" /\ request = "none" /\ last_seen >= baseline
    /\ ~belated => \A r \in readings : FreshReading(r)
    /\ ~belated /\ request # "none" => readings = {} /\ test = "sending"
    /\ VerdictFresh

LEMMA FreshAnswer ==
    ASSUME IridiumTypeOK, IridiumInv, ~belated, NEW r \in readings, AnswerReading(r),
           NEW q \in readings'
    PROVE  FreshReading(q)'
<1> DEFINE a == [r EXCEPT !.answered = TRUE, !.latest = Len(texts),
                          !.texts = SubSeq(texts, r.since + 1, Len(texts))]
<1>1. readings' = (readings \ {r}) \cup {a} /\ baseline' = baseline /\ asked_at' = asked_at
  BY DEF AnswerReading, trigger
<1>2. CASE q # a
  BY <1>1, <1>2 DEF IridiumInv, FreshReading
<1>3. CASE q = a
  <2>1. r \in Reading /\ FreshReading(r) /\ baseline \in Nat
    BY DEF IridiumInv, IridiumTypeOK
  <2>2. q.since = r.since /\ q.texts = SubSeq(texts, r.since + 1, Len(texts))
    BY <1>3, <2>1 DEF Reading
  <2>3. ASSUME NEW i \in DOMAIN q.texts PROVE q.texts[i].nr > asked_at
    <3>1. /\ i + r.since \in DOMAIN texts /\ i \in Nat /\ i > 0
          /\ q.texts[i] = texts[i + r.since]
      BY <2>2, Slice
    <3>2. i + r.since > baseline
      BY <2>1, <3>1 DEF FreshReading, Reading
    <3> QED BY <3>1, <3>2 DEF IridiumInv, FreshBuffer
  <2> QED BY <1>1, <2>1, <2>2, <2>3 DEF FreshReading
<1> QED BY <1>2, <1>3

LEMMA FreshRead ==
    ASSUME IridiumTypeOK, IridiumInv, NEW r \in readings, ReadingRead(r)
    PROVE  IridiumInv'
<1>1. /\ said' = said /\ texts' = texts /\ request' = request /\ baseline' = baseline
      /\ asked_at' = asked_at /\ belated' = belated /\ readings' \subseteq readings
  BY DEF ReadingRead, buffer, trigger
<1>2. r \in Reading
  BY DEF IridiumTypeOK
<1>3. last_seen' >= last_seen
  BY <1>2 DEF ReadingRead, IridiumTypeOK, Reading
<1>4. CASE UNCHANGED << test, interval, verdict >>
  <2>1. interval' => last_seen' >= baseline'
    BY <1>1, <1>3, <1>4 DEF IridiumInv, IridiumTypeOK, ReadingRead, Reading
  <2> QED BY <1>1, <1>4, <2>1 DEF IridiumInv, FreshBuffer, FreshReading, VerdictFresh
<1>5. CASE \E i \in Verdicts(r) : Finish(r.texts[i].word, r.texts[i].nr)
  <2>1. PICK i \in Verdicts(r) : Finish(r.texts[i].word, r.texts[i].nr)
    BY <1>5
  <2>2. ~belated => verdict' > asked_at /\ request = "none"
    BY <2>1 DEF IridiumInv, FreshReading, Verdicts, Finish
  <2>3. ~interval'
    BY <2>1 DEF Finish
  <2> QED BY <1>1, <2>2, <2>3 DEF IridiumInv, FreshBuffer, FreshReading, VerdictFresh
<1> QED BY <1>4, <1>5 DEF ReadingRead

LEMMA IridiumStep == IridiumTypeOK /\ IridiumInv /\ [IridiumNext]_iridiumVars => IridiumInv'
<1> SUFFICES ASSUME IridiumTypeOK, IridiumInv, [IridiumNext]_iridiumVars PROVE IridiumInv'
  OBVIOUS
<1> USE DEF buffer, tester, trigger
<1>0. CASE UNCHANGED iridiumVars
  BY <1>0 DEF IridiumInv, FreshBuffer, FreshReading, VerdictFresh, iridiumVars
<1>1. CASE Forget
  BY <1>1 DEF IridiumInv, FreshBuffer, FreshReading, VerdictFresh, Forget
<1>2. CASE TakeBaseline
  <2>1. baseline' = Len(texts) /\ asked_at' = said /\ texts' = texts /\ ~interval
    BY <1>2 DEF TakeBaseline, IridiumInv
  <2>2. FreshBuffer'
    BY <2>1 DEF FreshBuffer, IridiumTypeOK
  <2>3. ~belated => readings = {} /\ test = "sending"
    BY <1>2 DEF TakeBaseline, IridiumInv
  <2> QED BY <1>2, <2>1, <2>2, <2>3 DEF IridiumInv, IridiumTypeOK, VerdictFresh, TakeBaseline
<1>3. CASE SendCommand
  BY <1>3 DEF IridiumInv, FreshBuffer, FreshReading, VerdictFresh, SendCommand
<1>4. CASE OpenTab
  BY <1>4 DEF IridiumInv, FreshBuffer, FreshReading, VerdictFresh, OpenTab
<1>5. CASE LeaveTab
  <2>1. FreshBuffer'
    <3>1. texts \in Seq(Text) /\ texts' = texts /\ asked_at' = 0
      BY <1>5 DEF LeaveTab, IridiumTypeOK
    <3>2. \A i \in DOMAIN texts : texts[i] \in Text
      BY <3>1
    <3>3. \A i \in DOMAIN texts : texts[i].nr > 0
      BY <3>2 DEF Text
    <3> QED BY <3>1, <3>3 DEF FreshBuffer
  <2>2. /\ request' = "none" /\ readings' = {} /\ ~interval' /\ verdict' = 0
        /\ asked_at' = 0 /\ said' = said
    BY <1>5 DEF LeaveTab
  <2> QED BY <2>1, <2>2 DEF IridiumInv, IridiumTypeOK, VerdictFresh
<1>6. CASE TriggerTest
  BY <1>6 DEF IridiumInv, FreshBuffer, FreshReading, VerdictFresh, TriggerTest
<1>7. CASE TestAccepted
  BY <1>7 DEF IridiumInv, IridiumTypeOK, FreshBuffer, FreshReading, VerdictFresh, TestAccepted,
              FromBaseline
<1>8. CASE TestRefused
  BY <1>8 DEF IridiumInv, FreshBuffer, FreshReading, VerdictFresh, TestRefused
<1>9. CASE TimePasses
  BY <1>9 DEF IridiumInv, FreshBuffer, FreshReading, VerdictFresh, TimePasses
<1>10. CASE PollIridium
  <2>1. CASE overdue
    BY <1>10, <2>1 DEF IridiumInv, FreshBuffer, FreshReading, VerdictFresh, PollIridium, Finish
  <2>2. CASE ~overdue
    <3>1. last_seen >= baseline /\ request = "none" /\ test = "running"
      BY <1>10 DEF PollIridium, IridiumInv
    <3> QED BY <1>10, <2>2, <3>1
            DEF IridiumInv, FreshBuffer, FreshReading, VerdictFresh, PollIridium
  <2> QED BY <2>1, <2>2
<1>11. ASSUME NEW r \in readings, AnswerReading(r) PROVE IridiumInv'
  <2>1. ~belated' => \A q \in readings' : FreshReading(q)'
    BY <1>11, FreshAnswer DEF AnswerReading
  <2>2. readings # {}
    OBVIOUS
  <2> QED BY <1>11, <2>1, <2>2 DEF IridiumInv, FreshBuffer, VerdictFresh, AnswerReading
<1>12. ASSUME NEW r \in readings, ReadingLost(r) PROVE IridiumInv'
  BY <1>12 DEF IridiumInv, FreshBuffer, FreshReading, VerdictFresh, ReadingLost
<1>13. CASE ResetTest
  BY <1>13 DEF IridiumInv, FreshBuffer, FreshReading, VerdictFresh, ResetTest
<1>14. ASSUME NEW word \in Word, Says(word) PROVE IridiumInv'
  <2>1. /\ said' = said + 1 /\ asked_at' = asked_at /\ baseline' = baseline
        /\ said \in Nat /\ asked_at \in Nat
    BY <1>14 DEF Says, IridiumTypeOK
  <2>2. FreshBuffer'
    <3>1. CASE texts' = texts
      BY <2>1, <3>1 DEF IridiumInv, FreshBuffer
    <3>2. CASE texts' = Append(texts, [word |-> word, nr |-> said + 1])
      <4>1. texts \in Seq(Text)
        BY DEF IridiumTypeOK
      <4>2. ASSUME NEW i \in DOMAIN texts', i > baseline PROVE texts'[i].nr > asked_at
        <5>1. CASE i \in DOMAIN texts
          BY <3>2, <4>1, <4>2, <5>1 DEF IridiumInv, FreshBuffer
        <5>2. CASE i \notin DOMAIN texts
          <6>1. texts'[i] = [word |-> word, nr |-> said + 1]
            BY <3>2, <4>1, <4>2, <5>2
          <6> QED BY <2>1, <6>1 DEF IridiumInv
        <5> QED BY <5>1, <5>2
      <4> QED BY <2>1, <4>2 DEF FreshBuffer
    <3> QED BY <1>14, <3>1, <3>2 DEF Says
  <2>3. asked_at' <= said'
    BY <2>1 DEF IridiumInv
  <2> QED BY <1>14, <2>1, <2>2, <2>3 DEF IridiumInv, FreshReading, VerdictFresh, Says
<1> QED BY <1>0, <1>1, <1>2, <1>3, <1>4, <1>5, <1>6, <1>7, <1>8, <1>9, <1>10, <1>11, <1>12,
           <1>13, <1>14, FreshRead DEF IridiumNext

\* A verdict that is shown was said after the test was asked for, though the tracker's
\* buffer keeps the verdicts of earlier tests and begins anew when the backend restarts,
\* unless a poll of an earlier test was on its way (SensorConfiguration.vue:543).
THEOREM IridiumVerdictFresh == IridiumSpec => []VerdictFresh
<1>1. IridiumInit => IridiumInv
  BY DEF IridiumInit, IridiumInv, FreshBuffer, FreshReading, VerdictFresh
<1>2. IridiumInv => VerdictFresh
  BY DEF IridiumInv
<1> QED BY <1>1, <1>2, IridiumInitTypes, IridiumTypes, IridiumStep, PTL DEF IridiumSpec
=============================================================================
