------------------------------ MODULE ConsoleProofs ------------------------------
(***************************************************************************)
(* The other pages of the console, for any files, configurations, runs,    *)
(* switches and requests under way, and the types of the whole console.    *)
(***************************************************************************)
EXTENDS MCConsole, MissionEditorProofs, SensorPageProofs

USE ConfigsAssumption, RunsAssumption, FilesAssumption, ItemsAssumption, AttemptsAssumption,
    MishapsAssumption, FlashesAssumption, ClockAssumption
    DEF ConfigsAssumption, RunsAssumption, FilesAssumption, ItemsAssumption,
        AttemptsAssumption, MishapsAssumption, FlashesAssumption, ClockAssumption

-----------------------------------------------------------------------------
(* The start card of the dashboard.                                        *)

LEMMA StartInitTypes == StartInit => StartTypeOK
<1> SUFFICES ASSUME StartInit PROVE StartTypeOK
  OBVIOUS
<1>1. 0 \in 0..MaxCalls
  OBVIOUS
<1>2. /\ home \in BOOLEAN /\ hurried \in BOOLEAN /\ busy \in BOOLEAN /\ shown \in BOOLEAN
      /\ vehicle \in BOOLEAN
  BY DEF StartInit
<1>3. /\ picked = NoConfig /\ date = NoConfig /\ fetching = {} /\ answers = {} /\ calls = {}
      /\ ncalls = 0
  BY DEF StartInit
<1> QED BY <1>1, <1>2, <1>3 DEF StartTypeOK, Choice

CardOK == /\ hurried \in BOOLEAN
          /\ picked \in Choice /\ date \in Choice /\ fetching \subseteq Configs
FlightOK == /\ home \in BOOLEAN /\ busy \in BOOLEAN /\ shown \in BOOLEAN /\ vehicle \in BOOLEAN
            /\ answers \subseteq Answer /\ calls \subseteq Call /\ ncalls \in 0..MaxCalls

LEMMA StartParts ==
    /\ StartTypeOK => CardOK /\ FlightOK
    /\ CardOK' /\ FlightOK' => StartTypeOK'
  BY DEF StartTypeOK, CardOK, FlightOK

LEMMA CardKept == CardOK /\ UNCHANGED card => CardOK'
  BY DEF CardOK, card

LEMMA AnswerAsked ==
    ASSUME NEW a \in BOOLEAN, NEW f \in BOOLEAN
    PROVE  [active |-> a, frees |-> f] \in Answer
  BY DEF Answer

LEMMA CallTypes ==
    ASSUME CardOK, FlightOK, NEW what \in {"start", "stop"}, NEW config \in Choice,
           NEW when \in Choice, CallBackend(what, config, when)
    PROVE  CardOK' /\ FlightOK'
<1> DEFINE h == hurried \/ fetching # {}
<1> DEFINE c == [what |-> what, config |-> config, date |-> when, stage |-> "sent",
                 here |-> TRUE, hurried |-> h]
<1>1. h \in BOOLEAN
  BY DEF CardOK
<1>2. c \in Call
  <2> HIDE DEF h
  <2> QED BY <1>1 DEF Call
<1>3. calls' \subseteq Call
  BY <1>2 DEF CallBackend, FlightOK
<1>4. ncalls' \in 0..MaxCalls /\ busy' \in BOOLEAN
  BY DEF CallBackend, FlightOK
<1> QED BY <1>3, <1>4, CardKept DEF CallBackend, FlightOK

LEMMA StartTypes == StartTypeOK /\ [StartNext]_startVars => StartTypeOK'
<1> SUFFICES ASSUME StartTypeOK, [StartNext]_startVars PROVE StartTypeOK'
  OBVIOUS
<1> USE StartParts
<1>0. CASE UNCHANGED startVars
  BY <1>0 DEF StartTypeOK, startVars, card
<1>1. CASE Mount \/ DiveEnds
  BY <1>1, CardKept DEF Mount, DiveEnds, FlightOK
<1>2. CASE Unmount
  <2>1. \A c \in Call : [c EXCEPT !.here = FALSE] \in Call
    BY DEF Call
  <2>2. calls' \subseteq Call
    BY <1>2, <2>1 DEF Unmount, FlightOK
  <2>3. FlightOK'
    BY <1>2, <2>2 DEF Unmount, FlightOK
  <2>4. CardOK'
    BY <1>2 DEF Unmount, CardOK, Choice
  <2> QED BY <2>3, <2>4
<1>3. ASSUME NEW c \in Configs, Pick(c) \/ Loaded(c) \/ NotLoaded(c) PROVE StartTypeOK'
  <2>1. hurried' \in BOOLEAN
    BY <1>3, Zenon DEF Pick, Loaded, NotLoaded, CardOK
  <2>2. CardOK'
    BY <1>3, <2>1 DEF Pick, Loaded, NotLoaded, ReleaseOf, CardOK, Choice
  <2>3. FlightOK'
    BY <1>3 DEF Pick, Loaded, NotLoaded, FlightOK
  <2> QED BY <2>2, <2>3
<1>4. CASE StartDive
  BY <1>4, CallTypes DEF StartDive, CardOK
<1>5. CASE StopDive
  BY <1>5, CallTypes DEF StopDive, Choice
<1>6. ASSUME NEW s \in calls, Reaches(s) PROVE StartTypeOK'
  <2>1. s \in Call
    BY DEF FlightOK
  <2>2. [s EXCEPT !.stage = "ok"] \in Call /\ [s EXCEPT !.stage = "failed"] \in Call
    BY <2>1 DEF Call
  <2>3. calls' \subseteq Call /\ vehicle' \in BOOLEAN
    BY <1>6, <2>2 DEF Reaches, FlightOK
  <2>4. FlightOK'
    BY <1>6, <2>3 DEF Reaches, FlightOK
  <2> QED BY <1>6, <2>4, CardKept DEF Reaches
<1>7. ASSUME NEW s \in calls, Reply(s) PROVE StartTypeOK'
  <2>1. PICK lost \in BOOLEAN : Replied(s, lost)
    BY <1>7 DEF Reply
  <2>2. [active |-> vehicle, frees |-> TRUE] \in Answer
    BY AnswerAsked DEF FlightOK
  <2>3. answers' \subseteq Answer /\ busy' \in BOOLEAN
    BY <2>1, <2>2 DEF Replied, FlightOK
  <2>4. FlightOK'
    BY <2>1, <2>3 DEF Replied, FlightOK
  <2> QED BY <2>1, <2>4, CardKept DEF Replied
<1>8. CASE Poll
  <2>1. [active |-> vehicle, frees |-> FALSE] \in Answer
    BY AnswerAsked DEF FlightOK
  <2> QED BY <1>8, <2>1, CardKept DEF Poll, FlightOK
<1>9. ASSUME NEW a \in answers, PollAnswered(a) \/ PollLost(a) PROVE StartTypeOK'
  <2>1. a.active \in BOOLEAN
    BY DEF FlightOK, Answer
  <2>2. busy' \in BOOLEAN
    BY <1>9, Zenon DEF PollAnswered, PollLost
  <2>3. shown' \in BOOLEAN
    BY <1>9, <2>1 DEF PollAnswered, PollLost, FlightOK
  <2>4. FlightOK'
    BY <1>9, <2>2, <2>3 DEF PollAnswered, PollLost, FlightOK
  <2> QED BY <1>9, <2>4, CardKept DEF PollAnswered, PollLost
<1> QED BY <1>0, <1>1, <1>2, <1>3, <1>4, <1>5, <1>6, <1>7, <1>8, <1>9 DEF StartNext

\* The card follows the last choice as long as choices and their loads take turns.
CardFollows ==
    ~hurried => /\ fetching \subseteq {picked}
                /\ fetching = {} /\ picked # NoConfig => date = picked

LEMMA StartStep ==
    StartTypeOK /\ CardFollows /\ OwnRelease /\ [StartNext]_startVars
      => CardFollows' /\ OwnRelease'
<1> SUFFICES ASSUME StartTypeOK, CardFollows, OwnRelease, [StartNext]_startVars
             PROVE  CardFollows' /\ OwnRelease'
  OBVIOUS
<1>k. UNCHANGED card => CardFollows'
  BY DEF card, CardFollows
<1>o. calls' \subseteq calls => OwnRelease'
  BY DEF OwnRelease
<1>0. CASE UNCHANGED startVars
  BY <1>0, <1>k, <1>o DEF startVars
<1>1. CASE Mount \/ DiveEnds \/ Poll
  BY <1>1, <1>k, <1>o DEF Mount, DiveEnds, Poll
<1>2. CASE Unmount
  <2>1. CardFollows'
    BY <1>2 DEF Unmount, CardFollows
  <2>2. ASSUME NEW s \in calls' PROVE s.what = "start" /\ ~s.hurried => s.date = s.config
    <3>1. PICK c \in calls : s = [c EXCEPT !.here = FALSE]
      BY <1>2 DEF Unmount
    <3>2. c \in Call
      BY DEF StartTypeOK
    <3> QED BY <3>1, <3>2 DEF OwnRelease, Call
  <2> QED BY <2>1, <2>2 DEF OwnRelease
<1>3. ASSUME NEW c \in Configs, Pick(c) PROVE CardFollows' /\ OwnRelease'
  BY <1>3, <1>o DEF Pick, CardFollows
<1>4. ASSUME NEW c \in Configs, Loaded(c) PROVE CardFollows' /\ OwnRelease'
  BY <1>4, <1>o DEF Loaded, ReleaseOf, CardFollows
<1>5. ASSUME NEW c \in Configs, NotLoaded(c) PROVE CardFollows' /\ OwnRelease'
  BY <1>5, <1>o DEF NotLoaded, CardFollows
<1>6. CASE StartDive
  <2>1. CardFollows'
    BY <1>6, <1>k DEF StartDive, CallBackend
  <2>2. ASSUME NEW s \in calls' \ calls PROVE ~s.hurried => s.date = s.config
    <3> DEFINE h == hurried \/ fetching # {}
    <3>1. /\ s = [what |-> "start", config |-> picked, date |-> date, stage |-> "sent",
                  here |-> TRUE, hurried |-> h]
          /\ picked # NoConfig
      BY <1>6, <2>2 DEF StartDive, CallBackend
    <3>2. ~h => date = picked
      BY <3>1 DEF CardFollows
    <3> HIDE DEF h
    <3>3. s.hurried = h /\ s.date = date /\ s.config = picked
      BY <3>1
    <3> QED BY <3>2, <3>3
  <2> QED BY <2>1, <2>2 DEF OwnRelease
<1>7. CASE StopDive
  <2>1. CardFollows'
    BY <1>7, <1>k DEF StopDive, CallBackend
  <2>2. ASSUME NEW s \in calls' \ calls PROVE s.what = "stop"
    BY <1>7, <2>2 DEF StopDive, CallBackend
  <2> QED BY <2>1, <2>2 DEF OwnRelease
<1>8. ASSUME NEW s \in calls, Reaches(s) PROVE CardFollows' /\ OwnRelease'
  <2>1. s \in Call
    BY DEF StartTypeOK
  <2>2. PICK to \in {"ok", "failed"} : calls' = (calls \ {s}) \cup {[s EXCEPT !.stage = to]}
    BY <1>8 DEF Reaches
  <2>3. OwnRelease'
    BY <2>1, <2>2 DEF OwnRelease, Call
  <2> QED BY <1>8, <1>k, <2>3 DEF Reaches
<1>9. ASSUME NEW s \in calls, Reply(s) PROVE CardFollows' /\ OwnRelease'
  BY <1>9, <1>k, <1>o DEF Reply, Replied
<1>10. ASSUME NEW a \in answers, PollAnswered(a) \/ PollLost(a) PROVE CardFollows' /\ OwnRelease'
  BY <1>10, <1>k, <1>o DEF PollAnswered, PollLost
<1> QED BY <1>0, <1>1, <1>2, <1>3, <1>4, <1>5, <1>6, <1>7, <1>8, <1>9, <1>10 DEF StartNext

\* A start sends the release date of the configuration it names (HomeScreen.vue:399), if
\* every choice was loaded before the next and before the start.
THEOREM StartOwnRelease == StartSpec => []OwnRelease
<1>1. StartInit => CardFollows /\ OwnRelease
  BY DEF StartInit, CardFollows, OwnRelease
<1> QED BY <1>1, StartInitTypes, StartTypes, StartStep, PTL DEF StartSpec

-----------------------------------------------------------------------------
(* The media page.                                                         *)

LEMMA MediaInitTypes == MediaInit => MediaTypeOK
<1> SUFFICES ASSUME MediaInit PROVE MediaTypeOK
  OBVIOUS
<1>1. 0 \in 0..MaxDeletions
  OBVIOUS
<1>2. media_open \in BOOLEAN /\ loaded \in BOOLEAN
  BY DEF MediaInit
<1>3. /\ recorded \subseteq Files /\ disk = recorded /\ media = {} /\ listings = {}
      /\ matching = Files /\ selection = {} /\ asking = "no" /\ deletions = {} /\ confirmed = 0
  BY DEF MediaInit
<1> QED BY <1>1, <1>2, <1>3 DEF MediaTypeOK

DiskOK == disk \subseteq recorded /\ recorded \subseteq Files /\ media_open \in BOOLEAN
ViewOK == /\ media \subseteq Files /\ listings \subseteq SUBSET Files /\ loaded \in BOOLEAN
          /\ matching \subseteq Files
AskOK == selection \subseteq Files /\ asking \in {"no", "delete", "erase", "erase_sure"}
LoopOK == deletions \subseteq Deletion /\ confirmed \in 0..MaxDeletions

LEMMA MediaParts ==
    /\ MediaTypeOK => DiskOK /\ ViewOK /\ AskOK /\ LoopOK
    /\ DiskOK' /\ ViewOK' /\ AskOK' /\ LoopOK' => MediaTypeOK'
  BY DEF MediaTypeOK, DiskOK, ViewOK, AskOK, LoopOK

\* What may be put into a deletion.
LEMMA DeletionFields ==
    ASSUME NEW d \in Deletion
    PROVE  /\ [d EXCEPT !.live = FALSE] \in Deletion
           /\ [d EXCEPT !.here = FALSE, !.live = FALSE] \in Deletion
           /\ \A rest \in SUBSET Files, b \in BOOLEAN :
                 [d EXCEPT !.todo = rest, !.altered = b] \in Deletion
           /\ \A rest \in SUBSET Files : [d EXCEPT !.todo = rest] \in Deletion
  BY DEF Deletion

LEMMA ReplacedTypes ==
    ASSUME LoopOK, NEW sel \in SUBSET Files, Replaced(sel)
    PROVE  selection' \subseteq Files /\ deletions' \subseteq Deletion
  BY DeletionFields DEF Replaced, LoopOK

LEMMA SelectFileTypes ==
    ASSUME MediaTypeOK, NEW f \in Files, SelectFile(f)
    PROVE  selection' \subseteq Files /\ deletions' \subseteq Deletion
<1>1. selection' \subseteq Files
  BY DEF SelectFile, MediaTypeOK
<1>2. PICK rest \in [deletions -> SUBSET Files] :
        deletions' = {[d EXCEPT !.todo = rest[d], !.altered = @ \/ d.live] : d \in deletions}
  BY DEF SelectFile
<1>3. ASSUME NEW d \in deletions
      PROVE  [d EXCEPT !.todo = rest[d], !.altered = @ \/ d.live] \in Deletion
  <2> DEFINE b == d.altered \/ d.live
  <2>1. d \in Deletion /\ rest[d] \in SUBSET Files /\ b \in BOOLEAN
    BY DEF MediaTypeOK
  <2>2. [d EXCEPT !.todo = rest[d], !.altered = @ \/ d.live] = [d EXCEPT !.todo = rest[d],
                                                                        !.altered = b]
    BY <2>1 DEF Deletion
  <2> HIDE DEF b
  <2> QED BY <2>1, <2>2, DeletionFields
<1> QED BY <1>1, <1>2, <1>3

LEMMA BeginsTypes ==
    ASSUME MediaTypeOK, NEW fs \in SUBSET Files, NEW erase \in BOOLEAN, Begins(fs, erase)
    PROVE  MediaTypeOK'
<1>1. [asked |-> fs, todo |-> fs, here |-> TRUE, erase |-> erase,
       live |-> ~erase, altered |-> FALSE] \in Deletion
  BY DEF Deletion
<1>2. deletions' \subseteq Deletion
  BY <1>1, Zenon DEF Begins, MediaTypeOK
<1>3. confirmed' \in 0..MaxDeletions
  BY DEF Begins, MediaTypeOK
<1> QED BY <1>2, <1>3 DEF Begins, MediaTypeOK, mediaView

LEMMA MediaTypes == MediaTypeOK /\ [MediaNext]_mediaVars => MediaTypeOK'
<1> SUFFICES ASSUME MediaTypeOK, [MediaNext]_mediaVars PROVE MediaTypeOK'
  OBVIOUS
<1> USE MediaParts
<1> USE DEF mediaView
<1>0. CASE UNCHANGED mediaVars
  BY <1>0 DEF MediaTypeOK, mediaVars
<1>1. ASSUME NEW f \in Files, Record(f) PROVE MediaTypeOK'
  BY <1>1 DEF Record, DiskOK, ViewOK, AskOK, LoopOK
<1>2. ASSUME NEW f \in Files, SelectFile(f) PROVE MediaTypeOK'
  <2>1. AskOK' /\ LoopOK'
    BY <1>2, SelectFileTypes DEF SelectFile, AskOK, LoopOK
  <2> QED BY <1>2, <2>1 DEF SelectFile, DiskOK, ViewOK
<1>3. ASSUME NEW f \in Files, DeleteSingle(f) PROVE MediaTypeOK'
  <2>1. {f} \in SUBSET Files
    OBVIOUS
  <2>2. AskOK' /\ LoopOK'
    BY <1>3, <2>1, ReplacedTypes DEF DeleteSingle, AskOK, LoopOK
  <2> QED BY <1>3, <2>2 DEF DeleteSingle, DiskOK, ViewOK
<1>4. CASE OpenMedia \/ PollMedia
  <2>1. disk \in SUBSET Files
    BY DEF DiskOK
  <2>2. CASE OpenMedia
    BY <2>1, <2>2 DEF OpenMedia, DiskOK, ViewOK, AskOK, LoopOK
  <2>3. CASE PollMedia
    BY <2>1, <2>3 DEF PollMedia, DiskOK, ViewOK, AskOK, LoopOK
  <2> QED BY <1>4, <2>2, <2>3
<1>5. CASE LeaveMedia
  <2>1. LoopOK'
    BY <1>5, DeletionFields DEF LeaveMedia, Elsewhere, LoopOK
  <2> QED BY <1>5, <2>1 DEF LeaveMedia, DiskOK, ViewOK, AskOK
<1>6. ASSUME NEW l \in listings, Listed(l) \/ ListingLost(l) PROVE MediaTypeOK'
  BY <1>6 DEF Listed, ListingLost, DiskOK, ViewOK, AskOK, LoopOK
<1>7. ASSUME NEW s \in Matches, SearchFor(s) PROVE MediaTypeOK'
  BY <1>7 DEF SearchFor, DiskOK, ViewOK, AskOK, LoopOK
<1>8. ASSUME NEW s \in Matches, SetStorageFilter(s) PROVE MediaTypeOK'
  <2>1. {} \in SUBSET Files /\ s \subseteq Files
    OBVIOUS
  <2>2. selection' \subseteq Files /\ LoopOK'
    BY <1>8, <2>1, ReplacedTypes DEF SetStorageFilter, LoopOK
  <2> QED BY <1>8, <2>1, <2>2 DEF SetStorageFilter, DiskOK, ViewOK, AskOK
<1>9. CASE SelectAll
  <2>1. {} \in SUBSET Files /\ Rows \in SUBSET Files
    BY DEF Rows, ViewOK
  <2>2. AskOK' /\ LoopOK'
    BY <1>9, <2>1, ReplacedTypes DEF SelectAll, AskOK, LoopOK
  <2> QED BY <1>9, <2>2 DEF SelectAll, DiskOK, ViewOK
<1>10. CASE AskDelete \/ AskErase \/ CloseDialog
  BY <1>10 DEF AskDelete, AskErase, CloseDialog, DiskOK, ViewOK, AskOK, LoopOK
<1>11. CASE ConfirmDelete
  BY <1>11, BeginsTypes DEF ConfirmDelete, AskOK
<1>12. CASE ConfirmEraseAll
  BY <1>12, BeginsTypes DEF ConfirmEraseAll, ViewOK
<1>13. ASSUME NEW d \in deletions, NEW f \in Files, DeleteFile(d, f) PROVE MediaTypeOK'
  <2>1. d \in Deletion /\ d.todo \ {f} \in SUBSET Files
    BY DEF LoopOK, Deletion
  <2>2. [d EXCEPT !.todo = @ \ {f}] \in Deletion
    BY <2>1, DeletionFields DEF Deletion
  <2>3. LoopOK'
    BY <1>13, <2>2 DEF DeleteFile, LoopOK
  <2>4. DiskOK'
    BY <1>13 DEF DeleteFile, DiskOK
  <2>5. ViewOK' /\ AskOK'
    BY <1>13 DEF DeleteFile, ViewOK, AskOK
  <2> QED BY <2>3, <2>4, <2>5
<1>14. ASSUME NEW d \in deletions, DeletionEnds(d) PROVE MediaTypeOK'
  <2>1. LoopOK' /\ DiskOK'
    BY <1>14 DEF DeletionEnds, LoopOK, DiskOK
  <2>2. disk \in SUBSET Files
    BY DEF DiskOK
  <2>3. ViewOK' /\ AskOK'
    BY <1>14, <2>2 DEF DeletionEnds, ViewOK, AskOK
  <2> QED BY <2>1, <2>3
<1> QED BY <1>0, <1>1, <1>2, <1>3, <1>4, <1>5, <1>6, <1>7, <1>8, <1>9, <1>10, <1>11, <1>12,
           <1>13, <1>14 DEF MediaNext, DeletionStep

\* A loop whose selection was left alone has nothing left but what was confirmed.
Confirmed == \A d \in deletions : d.altered \/ d.todo \subseteq d.asked

LEMMA MediaConfirmed == MediaTypeOK /\ Confirmed /\ [MediaNext]_mediaVars => Confirmed'
<1> SUFFICES ASSUME MediaTypeOK, Confirmed, [MediaNext]_mediaVars PROVE Confirmed'
  OBVIOUS
<1>t. \A d \in deletions : d \in Deletion
  BY DEF MediaTypeOK
<1>k. deletions' \subseteq deletions => Confirmed'
  BY DEF Confirmed
<1>r. ASSUME NEW sel, Replaced(sel) PROVE Confirmed'
  <2>1. ASSUME NEW e \in deletions' PROVE e.altered \/ e.todo \subseteq e.asked
    <3>1. PICK d \in deletions : e = [d EXCEPT !.live = FALSE]
      BY <1>r DEF Replaced
    <3>2. e.altered = d.altered /\ e.todo = d.todo /\ e.asked = d.asked
      BY <1>t, <3>1 DEF Deletion
    <3> QED BY <3>2 DEF Confirmed
  <2> QED BY <2>1 DEF Confirmed
<1>0. CASE UNCHANGED mediaVars
  BY <1>0, <1>k DEF mediaVars
<1>1. CASE \E f \in Files : SelectFile(f)
  <2>1. PICK f \in Files : SelectFile(f)
    BY <1>1
  <2>2. PICK rest \in [deletions -> SUBSET Files] :
          /\ \A d \in deletions : rest[d] \in (IF d.live THEN Shifted(d.todo, f) ELSE {d.todo})
          /\ deletions' = {[d EXCEPT !.todo = rest[d], !.altered = @ \/ d.live] : d \in deletions}
    BY <2>1 DEF SelectFile
  <2>3. ASSUME NEW e \in deletions' PROVE e.altered \/ e.todo \subseteq e.asked
    <3>1. PICK d \in deletions : e = [d EXCEPT !.todo = rest[d], !.altered = @ \/ d.live]
      BY <2>2
    <3>2. e.todo = rest[d] /\ e.asked = d.asked
      BY <1>t, <3>1 DEF Deletion
    <3>3. e.altered = (d.altered \/ d.live)
      BY <1>t, <3>1 DEF Deletion
    <3>4. CASE d.live
      BY <3>3, <3>4
    <3>5. CASE ~d.live
      BY <2>2, <3>2, <3>3, <3>5 DEF Confirmed
    <3> QED BY <3>4, <3>5
  <2> QED BY <2>3 DEF Confirmed
<1>2. CASE \E f \in Files : Record(f)
  BY <1>2, <1>k DEF Record
<1>3. CASE \E f \in Files : DeleteSingle(f)
  BY <1>3, <1>r DEF DeleteSingle
<1>4. CASE LeaveMedia
  <2>1. ASSUME NEW e \in deletions' PROVE e.altered \/ e.todo \subseteq e.asked
    <3>1. PICK d \in deletions : e = [d EXCEPT !.here = FALSE, !.live = FALSE]
      BY <1>4 DEF LeaveMedia, Elsewhere
    <3>2. e.altered = d.altered /\ e.todo = d.todo /\ e.asked = d.asked
      BY <1>t, <3>1 DEF Deletion
    <3> QED BY <3>2 DEF Confirmed
  <2> QED BY <2>1 DEF Confirmed
<1>5. CASE OpenMedia \/ PollMedia \/ AskDelete \/ AskErase \/ CloseDialog
  BY <1>5, <1>k DEF OpenMedia, PollMedia, AskDelete, AskErase, CloseDialog
<1>6. CASE \E l \in listings : Listed(l) \/ ListingLost(l)
  BY <1>6, <1>k DEF Listed, ListingLost
<1>7. CASE \E s \in Matches : SearchFor(s)
  BY <1>7, <1>k DEF SearchFor
<1>8. CASE SelectAll \/ \E s \in Matches : SetStorageFilter(s)
  BY <1>8, <1>r DEF SelectAll, SetStorageFilter
<1>9. CASE ConfirmDelete \/ ConfirmEraseAll
  <2>1. PICK fs, erase : Begins(fs, erase)
    BY <1>9 DEF ConfirmDelete, ConfirmEraseAll
  <2> QED BY <2>1 DEF Begins, Confirmed
<1>10. ASSUME NEW d \in deletions, NEW f \in Files, DeleteFile(d, f) PROVE Confirmed'
  <2>1. deletions' = (deletions \ {d}) \cup {[d EXCEPT !.todo = @ \ {f}]}
    BY <1>10 DEF DeleteFile
  <2> DEFINE e == [d EXCEPT !.todo = @ \ {f}]
  <2>2. e.altered = d.altered /\ e.todo = d.todo \ {f} /\ e.asked = d.asked
    BY <1>t DEF Deletion
  <2> QED BY <2>1, <2>2 DEF Confirmed
<1>11. ASSUME NEW d \in deletions, DeletionEnds(d) PROVE Confirmed'
  BY <1>11, <1>k DEF DeletionEnds
<1> QED BY <1>0, <1>1, <1>2, <1>3, <1>4, <1>5, <1>6, <1>7, <1>8, <1>9, <1>10, <1>11
        DEF MediaNext, DeletionStep

\* Only a file that was in the dialog the operator confirmed is deleted, or erased, however
\* the list changes meanwhile (MediaManager.vue:238), as long as the selection is left alone
\* during a batch.
THEOREM MediaOnlyConfirmedGo == MediaSpec => OnlyConfirmedGo
<1>1. MediaInit => Confirmed
  BY DEF MediaInit, Confirmed
<1>2. Confirmed /\ [MediaNext]_mediaVars
        => [\A f \in disk \ disk' : \E d \in deletions : f \in d.asked \/ d.altered]_mediaVars
  <2> SUFFICES ASSUME Confirmed, MediaNext, NEW f \in disk \ disk'
               PROVE  \E d \in deletions : f \in d.asked \/ d.altered
    OBVIOUS
  <2>1. CASE \E d \in deletions, g \in Files : DeleteFile(d, g)
    <3>1. PICK d \in deletions, g \in Files : DeleteFile(d, g)
      BY <2>1
    <3>2. f = g /\ g \in d.todo
      BY <3>1 DEF DeleteFile, Left
    <3> QED BY <3>2 DEF Confirmed
  <2>2. CASE \E g \in Files : Record(g)
    BY <2>2 DEF Record
  <2>3. CASE disk' = disk
    BY <2>3
  <2> QED BY <2>1, <2>2, <2>3
          DEF MediaNext, SelectFile, DeleteSingle, OpenMedia, LeaveMedia, PollMedia, Listed,
              ListingLost, SearchFor, SetStorageFilter, SelectAll, AskDelete, AskErase,
              CloseDialog, ConfirmDelete, ConfirmEraseAll, Begins, DeletionStep, DeletionEnds
<1> QED BY <1>1, <1>2, MediaInitTypes, MediaTypes, MediaConfirmed, PTL
        DEF MediaSpec, OnlyConfirmedGo

-----------------------------------------------------------------------------
(* The progress of a processing run.                                       *)

LEMMA NothingStatus == Nothing \in Status
  BY DEF Nothing, Status

LEMMA ProcInitTypes == ProcInit => ProcTypeOK
<1> SUFFICES ASSUME ProcInit PROVE ProcTypeOK
  OBVIOUS
<1>1. 0 \in 0..MaxRuns /\ 0 \in 0..MaxLines
  OBVIOUS
<1>2. finished \in BOOLEAN /\ ticking \in BOOLEAN /\ doubled \in BOOLEAN /\ crossed \in BOOLEAN
  BY DEF ProcInit
<1>3. total \in [Run -> 0..MaxLines] /\ done \in [Run -> BOOLEAN]
  BY <1>1 DEF ProcInit
<1>4. /\ sessions = {} /\ latest = 0 /\ session = 0 /\ have = {} /\ cursor = 0 /\ polls = {}
      /\ starting = "no" /\ started = 0 /\ dismissed = 0
  BY DEF ProcInit
<1> QED BY <1>1, <1>2, <1>3, <1>4 DEF ProcTypeOK

JobOK == /\ sessions \subseteq Run /\ latest \in 0..MaxRuns
         /\ total \in [Run -> 0..MaxLines] /\ done \in [Run -> BOOLEAN]
ShownOK == /\ session \in 0..MaxRuns /\ finished \in BOOLEAN
           /\ have \subseteq Lines /\ cursor \in 0..MaxLines /\ ticking \in BOOLEAN
           /\ doubled \in BOOLEAN
PollsOK == polls \subseteq PollOf /\ crossed \in BOOLEAN
BeginOK == /\ starting \in {"no", "sent", "accepted", "refused", "reading"}
           /\ started \in 0..MaxRuns /\ dismissed \in 0..MaxRuns

LEMMA ProcParts ==
    /\ ProcTypeOK => JobOK /\ ShownOK /\ PollsOK /\ BeginOK
    /\ JobOK' /\ ShownOK' /\ PollsOK' /\ BeginOK' => ProcTypeOK'
  BY DEF ProcTypeOK, JobOK, ShownOK, PollsOK, BeginOK

LEMMA JobKept == JobOK /\ UNCHANGED job => JobOK'
  BY DEF JobOK, job
LEMMA ShownKept == ShownOK /\ UNCHANGED view => ShownOK'
  BY DEF ShownOK, view

LEMMA BeginTypes == ASSUME JobOK, Begin PROVE JobOK' /\ latest + 1 \in 0..MaxRuns
<1>1. latest + 1 \in 1..MaxRuns
  BY DEF JobOK, Begin
<1>2. sessions' \subseteq Run
  BY <1>1 DEF JobOK, Begin, Run
<1> QED BY <1>1, <1>2 DEF JobOK, Begin

LEMMA RefreshTypes ==
    ASSUME PollsOK, ShownOK, NEW r \in 0..MaxRuns, NEW first \in BOOLEAN, Refresh(r, first)
    PROVE  PollsOK'
<1>1. FromLine(r) \in 0..MaxLines
  BY DEF FromLine, ShownOK
<1>2. [target |-> r, from |-> FromLine(r), answered |-> FALSE, status |-> Nothing,
       first |-> first] \in PollOf
  BY <1>1, NothingStatus DEF PollOf
<1>3. polls' \subseteq PollOf
  BY <1>2 DEF Refresh, PollsOK
<1>4. crossed' \in BOOLEAN
  BY Zenon DEF Refresh
<1> QED BY <1>3, <1>4 DEF PollsOK

LEMMA StatusTypes == ASSUME JobOK, NEW r \in 0..MaxRuns PROVE StatusOf(r) \in Status
<1>1. CASE r = 0
  BY <1>1, NothingStatus DEF StatusOf
<1>2. CASE r # 0
  <2>1. r \in Run
    BY <1>2 DEF Run
  <2>2. total[r] \in 0..MaxLines /\ done[r] \in BOOLEAN
    BY <2>1 DEF JobOK
  <2> QED BY <1>2, <2>2 DEF StatusOf, Status
<1> QED BY <1>1, <1>2

LEMMA AnswerPollTypes == ASSUME JobOK, PollsOK, NEW p \in polls, AnswerPoll(p) PROVE PollsOK'
<1> DEFINE r == IF p.target = 0 THEN Remembered
                ELSE IF p.target \in sessions THEN p.target ELSE 0
<1>1. r \in 0..MaxRuns
  <2>1. p.target \in 0..MaxRuns
    BY DEF PollsOK, PollOf
  <2>2. Remembered \in 0..MaxRuns /\ 0 \in 0..MaxRuns
    BY DEF JobOK, Remembered, Run
  <2> QED BY <2>1, <2>2
<1>2. StatusOf(r) \in Status
  BY <1>1, StatusTypes
<1>3. polls' = (polls \ {p}) \cup {[p EXCEPT !.answered = TRUE, !.status = StatusOf(r)]}
  BY DEF AnswerPoll
<1>4. p \in PollOf
  BY DEF PollsOK
<1> HIDE DEF r
<1>5. [p EXCEPT !.answered = TRUE, !.status = StatusOf(r)] \in PollOf
  BY <1>2, <1>4 DEF PollOf
<1> QED BY <1>3, <1>5 DEF PollsOK, AnswerPoll

LEMMA ApplyTypes == ASSUME ShownOK, PollsOK, NEW p \in polls, Apply(p) PROVE ShownOK'
<1>1. /\ p.from \in 0..MaxLines /\ p.status.run \in 0..MaxRuns /\ p.status.done \in BOOLEAN
      /\ p.status.total \in 0..MaxLines
  BY DEF PollsOK, PollOf, Status
<1>2. (p.from + 1)..p.status.total \subseteq Lines
  BY <1>1 DEF Lines
<1>3. /\ session' = p.status.run /\ finished' = p.status.done /\ cursor' = p.status.total
  BY DEF Apply
<1>4. have' \subseteq Lines
  BY <1>2 DEF Apply, ShownOK
<1>5. ticking' \in BOOLEAN /\ doubled' \in BOOLEAN
  BY Zenon DEF Apply
<1> QED BY <1>1, <1>3, <1>4, <1>5 DEF ShownOK

LEMMA ProcTypes == ProcTypeOK /\ [ProcNext]_procVars => ProcTypeOK'
<1> SUFFICES ASSUME ProcTypeOK, [ProcNext]_procVars PROVE ProcTypeOK'
  OBVIOUS
<1> USE ProcParts
<1>0. CASE UNCHANGED procVars
  BY <1>0 DEF ProcTypeOK, procVars, job, view
<1>1. CASE OtherStarts
  BY <1>1, BeginTypes, ShownKept DEF OtherStarts, PollsOK, BeginOK
<1>2. ASSUME NEW e \in BOOLEAN, Logs(e) PROVE ProcTypeOK'
  <2>1. latest \in Run
    BY <1>2 DEF Logs, Running, Remembered, JobOK
  <2>2. total[latest] + 1 \in 0..MaxLines
    BY <1>2, <2>1 DEF Logs, JobOK
  <2>3. JobOK'
    BY <1>2, <2>1, <2>2 DEF Logs, JobOK
  <2> QED BY <1>2, <2>3, ShownKept DEF Logs, PollsOK, BeginOK
<1>3. CASE JobLogs \/ JobEnds
  BY <1>3, <1>2 DEF JobLogs, JobEnds
<1>4. CASE Restart
  <2>1. 0 \in 0..MaxLines
    OBVIOUS
  <2>2. JobOK'
    BY <1>4, <2>1 DEF Restart, JobOK
  <2> QED BY <1>4, <2>2, ShownKept DEF Restart, PollsOK, BeginOK
<1>5. ASSUME NEW p \in polls, AnswerPoll(p) PROVE ProcTypeOK'
  <2>1. JobOK' /\ ShownOK' /\ BeginOK'
    BY <1>5, JobKept, ShownKept DEF AnswerPoll, BeginOK
  <2> QED BY <1>5, <2>1, AnswerPollTypes
<1>6. ASSUME NEW p \in polls, Deliver(p) PROVE ProcTypeOK'
  <2>1. ShownOK'
    BY <1>6, ApplyTypes DEF Deliver
  <2>2. JobOK' /\ PollsOK'
    BY <1>6, JobKept DEF Deliver, PollsOK
  <2>3. BeginOK'
    BY <1>6 DEF Deliver, Read, BeginOK
  <2> QED BY <2>1, <2>2, <2>3
<1>7. ASSUME NEW p \in polls, Drop(p) PROVE ProcTypeOK'
  <2>1. ShownOK'
    BY <1>7 DEF Drop, KeepWatching, ShownOK
  <2>2. JobOK' /\ PollsOK'
    BY <1>7, JobKept DEF Drop, PollsOK
  <2>3. BeginOK'
    BY <1>7 DEF Drop, Read, BeginOK
  <2> QED BY <2>1, <2>2, <2>3
<1>8. CASE Attach \/ Tick
  <2>1. Refresh(session, FALSE) /\ session \in 0..MaxRuns
    BY <1>8 DEF Attach, Tick, ShownOK
  <2>2. PollsOK'
    BY <2>1, RefreshTypes
  <2> QED BY <1>8, <2>2, JobKept, ShownKept DEF Attach, Tick, BeginOK
<1>9. CASE ProcessDive \/ StartRefused \/ StartFails \/ DismissProcessing
  <2>1. BeginOK'
    BY <1>9 DEF ProcessDive, StartRefused, StartFails, DismissProcessing, BeginOK, ShownOK
  <2>2. PollsOK'
    BY <1>9 DEF ProcessDive, StartRefused, StartFails, DismissProcessing, PollsOK
  <2> QED BY <1>9, <2>1, <2>2, JobKept, ShownKept
          DEF ProcessDive, StartRefused, StartFails, DismissProcessing
<1>10. CASE StartAccepted
  <2>1. JobOK' /\ latest + 1 \in 0..MaxRuns
    BY <1>10, BeginTypes DEF StartAccepted
  <2>2. BeginOK' /\ PollsOK'
    BY <1>10, <2>1 DEF StartAccepted, BeginOK, PollsOK
  <2> QED BY <1>10, <2>1, <2>2, ShownKept DEF StartAccepted
<1>11. CASE StartReplied
  <2>1. Refresh(started, TRUE) /\ started \in 0..MaxRuns
    BY <1>11 DEF StartReplied, BeginOK
  <2>2. PollsOK'
    BY <2>1, RefreshTypes
  <2>3. BeginOK'
    BY <1>11 DEF StartReplied, BeginOK
  <2> QED BY <1>11, <2>2, <2>3, JobKept, ShownKept DEF StartReplied
<1> QED BY <1>0, <1>1, <1>3, <1>4, <1>5, <1>6, <1>7, <1>8, <1>9, <1>10, <1>11 DEF ProcNext

\* Runs are remembered up to the latest; what a page or a poll knows of a run that is still
\* remembered is no more than there is.
Known ==
    /\ sessions \subseteq 1..latest /\ session <= latest
    /\ session = 0 => cursor = 0
    /\ session \in sessions => cursor <= total[session]

KnownBy(p) ==
    /\ p.status.run <= latest
    /\ p.status.run = 0 => p.status.total = 0
    /\ p.status.run \in sessions => p.status.total <= total[p.status.run]

\* A poll that asks for what comes after the cursor asks about the run that is shown.
Continues(p) ==
    \/ p.from = 0
    \/ /\ p.from = cursor /\ p.target = session /\ session # 0
       /\ ~p.answered => p.status.run = 0
       /\ p.status.run \in {0, session}
       /\ p.status.run = session => p.status.total >= cursor

ProcInv ==
    /\ Known
    /\ \A p \in polls : KnownBy(p)
    /\ ~crossed => /\ \A p, q \in polls : p = q
                   /\ \A p \in polls : Continues(p)
                   /\ have = 1..cursor /\ ~doubled

LEMMA BeginKnown ==
    ASSUME JobOK, ShownOK, Known, Begin, UNCHANGED << session, cursor >>
    PROVE  Known' /\ \A p \in PollOf : KnownBy(p) => KnownBy(p)'
<1>1. /\ latest' = latest + 1 /\ sessions' = sessions \cup {latest + 1} /\ total' = total
      /\ latest \in Nat /\ session \in Nat
  BY DEF Begin, JobOK, ShownOK
<1>2. Known'
  BY <1>1 DEF Known
<1>3. ASSUME NEW p \in PollOf, KnownBy(p) PROVE KnownBy(p)'
  <2>1. p.status.run \in Nat
    BY DEF PollOf, Status
  <2>2. p.status.run # latest + 1 /\ p.status.run <= latest'
    BY <1>1, <1>3, <2>1 DEF KnownBy
  <2> QED BY <1>1, <1>3, <2>2 DEF KnownBy
<1> QED BY <1>2, <1>3

\* Nothing that is about the polls changes.
LEMMA PollsStay ==
    ASSUME ProcInv, PollsOK, Known', \A p \in PollOf : KnownBy(p) => KnownBy(p)',
           UNCHANGED << session, cursor, have, doubled, polls, crossed >>
    PROVE  ProcInv'
  BY DEF ProcInv, Continues, PollsOK

LEMMA KnownStays ==
    ASSUME Known, UNCHANGED << job, session, cursor >>
    PROVE  Known' /\ \A p \in PollOf : KnownBy(p) => KnownBy(p)'
  BY DEF Known, KnownBy, job

LEMMA RefreshKnown ==
    ASSUME ProcInv, PollsOK, ShownOK, JobOK, NEW r \in 0..MaxRuns, NEW first \in BOOLEAN,
           Refresh(r, first), UNCHANGED << job, view >>
    PROVE  ProcInv'
<1>0. PICK n : n = [target |-> r, from |-> FromLine(r), answered |-> FALSE, status |-> Nothing,
                    first |-> first]
  OBVIOUS
<1>1. polls' = polls \cup {n} /\ crossed' = (crossed \/ polls # {})
  BY <1>0 DEF Refresh
<1>2. Known' /\ \A p \in PollOf : KnownBy(p) => KnownBy(p)'
  BY KnownStays DEF view, ProcInv
<1>3. /\ n.status.run = 0 /\ n.status.total = 0 /\ n.target = r /\ n.from = FromLine(r)
      /\ n.answered = FALSE
  BY <1>0 DEF Nothing
<1>4. KnownBy(n)'
  <2>1. latest' \in Nat /\ sessions' \subseteq 1..latest'
    BY <1>2 DEF job, JobOK, Known
  <2>2. 0 <= latest' /\ 0 \notin sessions'
    BY <2>1
  <2> QED BY <1>3, <2>2 DEF KnownBy
<1>5. session' = session /\ have' = have /\ cursor' = cursor /\ doubled' = doubled
  BY DEF view
<1>6. Continues(n)'
  <2>1. CASE r = session /\ session # 0
    BY <1>3, <1>5, <2>1 DEF FromLine, Continues
  <2>2. CASE r = session /\ session = 0
    BY <1>3, <1>5, <2>2 DEF FromLine, Continues, ProcInv, Known
  <2>3. CASE r # session
    BY <1>3, <1>5, <2>3 DEF FromLine, Continues
  <2> QED BY <2>1, <2>2, <2>3
<1>7. \A p \in polls' : KnownBy(p)'
  <2> SUFFICES ASSUME NEW p \in polls' PROVE KnownBy(p)'
    OBVIOUS
  <2>1. CASE p = n
    BY <1>4, <2>1
  <2>2. CASE p # n
    BY <1>1, <1>2, <2>2 DEF ProcInv, PollsOK
  <2> QED BY <2>1, <2>2
<1>8. ASSUME ~crossed'
      PROVE  /\ \A p, q \in polls' : p = q
             /\ \A p \in polls' : Continues(p)'
             /\ have' = 1..cursor' /\ ~doubled'
  <2>1. polls' = {n} /\ ~crossed
    BY <1>1, <1>8
  <2>2. \A p \in polls' : p = n
    BY <2>1
  <2> QED BY <1>5, <1>6, <2>1, <2>2 DEF ProcInv
<1> QED BY <1>2, <1>7, <1>8 DEF ProcInv

LEMMA AnswerKnown ==
    ASSUME ProcInv, PollsOK, ShownOK, JobOK, NEW p \in polls, AnswerPoll(p)
    PROVE  ProcInv'
<1>0. PICK r : r = IF p.target = 0 THEN Remembered
                   ELSE IF p.target \in sessions THEN p.target ELSE 0
  OBVIOUS
<1>1. PICK n : n = [p EXCEPT !.answered = TRUE, !.status = StatusOf(r)]
  OBVIOUS
<1>2. polls' = (polls \ {p}) \cup {n} /\ crossed' = crossed /\ ~p.answered
  BY <1>0, <1>1 DEF AnswerPoll
<1>3. Known' /\ \A q \in PollOf : KnownBy(q) => KnownBy(q)'
  BY KnownStays DEF AnswerPoll, view, ProcInv
<1>4. p \in PollOf /\ KnownBy(p) /\ (~crossed => Continues(p))
  BY DEF PollsOK, ProcInv
<1>5. n.status = StatusOf(r) /\ n.target = p.target /\ n.from = p.from /\ n.answered
  BY <1>1, <1>4 DEF PollOf
<1>6. r \in 0..latest /\ (r # 0 => r \in sessions /\ r \in Run) /\ latest \in Nat
  <2>1. /\ Remembered \in sessions \cup {0} /\ sessions \subseteq 1..latest /\ latest \in Nat
        /\ sessions \subseteq Run
    BY DEF Remembered, ProcInv, Known, JobOK
  <2>2. r \in sessions \cup {0}
    BY <1>0, <2>1
  <2> QED BY <2>1, <2>2
<1>7. /\ n.status.run = r /\ (r = 0 => n.status.total = 0)
      /\ (r # 0 => n.status.total = total[r])
  BY <1>5 DEF StatusOf, Nothing
<1>8. UNCHANGED << latest, sessions, total, session, cursor, have, doubled >>
  BY DEF AnswerPoll, job, view
<1>9. r # 0 => total[r] \in Nat
  BY <1>6 DEF JobOK
<1>10. KnownBy(n)'
  <2>1. n.status.run <= latest'
    BY <1>6, <1>7, <1>8
  <2>2. n.status.run \in sessions' => n.status.total <= total'[n.status.run]
    <3>1. CASE r = 0
      BY <1>7, <1>8, <3>1 DEF ProcInv, Known
    <3>2. CASE r # 0
      BY <1>7, <1>8, <1>9, <3>2
    <3> QED BY <3>1, <3>2
  <2> QED BY <1>7, <2>1, <2>2 DEF KnownBy
<1>11. ASSUME ~crossed PROVE Continues(n)'
  <2>1. CASE p.from = 0
    BY <1>5, <2>1 DEF Continues
  <2>2. CASE p.from # 0
    <3>1. p.from = cursor /\ p.target = session /\ session # 0
      BY <1>4, <1>11, <2>2 DEF Continues
    <3>2. r = session \/ r = 0
      BY <1>0, <3>1
    <3>3. r = session => n.status.total >= cursor
      BY <1>6, <1>7, <1>9, <3>1 DEF ProcInv, Known, ShownOK
    <3>4. session' = session /\ cursor' = cursor
      BY <1>8
    <3> QED BY <1>5, <1>7, <3>1, <3>2, <3>3, <3>4 DEF Continues
  <2> QED BY <2>1, <2>2
<1>12. \A q \in polls' : KnownBy(q)'
  <2> SUFFICES ASSUME NEW q \in polls' PROVE KnownBy(q)'
    OBVIOUS
  <2>1. CASE q = n
    BY <1>10, <2>1
  <2>2. CASE q # n
    BY <1>2, <1>3, <2>2 DEF ProcInv, PollsOK
  <2> QED BY <2>1, <2>2
<1>13. ASSUME ~crossed'
       PROVE  /\ \A q, s \in polls' : q = s
              /\ \A q \in polls' : Continues(q)'
              /\ have' = 1..cursor' /\ ~doubled'
  <2>1. ~crossed
    BY <1>2, <1>13
  <2>2. \A q \in polls : q = p
    BY <2>1 DEF ProcInv
  <2>3. polls' = {n}
    BY <1>2, <2>2
  <2>4. \A q \in polls' : q = n
    BY <2>3
  <2>5. have' = 1..cursor' /\ ~doubled'
    BY <1>8, <2>1 DEF ProcInv
  <2> QED BY <1>11, <2>1, <2>4, <2>5
<1> QED BY <1>3, <1>12, <1>13 DEF ProcInv

LEMMA DeliverKnown ==
    ASSUME ProcInv, PollsOK, ShownOK, JobOK, NEW p \in polls, Deliver(p)
    PROVE  ProcInv'
<1> DEFINE lines == (p.from + 1)..p.status.total
<1>1. /\ polls' = polls \ {p} /\ UNCHANGED << job, crossed >>
      /\ session' = p.status.run /\ cursor' = p.status.total
  BY DEF Deliver, Apply
<1>2. /\ KnownBy(p) /\ (~crossed => Continues(p)) /\ p.from \in Nat /\ p.status.total \in Nat
      /\ p.status.run \in Nat
  BY DEF ProcInv, PollsOK, PollOf, Status
<1>3. Known'
  BY <1>1, <1>2 DEF Known, KnownBy, ProcInv, job
<1>4. \A q \in polls' : KnownBy(q)'
  BY <1>1 DEF ProcInv, KnownBy, job
<1>5. ~crossed => polls' = {}
  BY <1>1 DEF ProcInv
<1>6. ~crossed => have' = 1..cursor' /\ ~doubled'
  <2> SUFFICES ASSUME ~crossed PROVE have' = 1..cursor' /\ ~doubled'
    OBVIOUS
  <2>1. have = 1..cursor /\ cursor \in Nat
    BY DEF ProcInv, ShownOK
  <2>2. CASE p.from = 0
    BY <1>1, <2>2 DEF Deliver, Apply
  <2>3. CASE p.from # 0 /\ p.status.run # session
    <3>1. p.status.run = 0 /\ p.status.total = 0
      BY <1>2, <2>3 DEF Continues, KnownBy
    <3>2. lines = {} /\ 1..cursor' = {}
      BY <1>1, <1>2, <3>1
    <3>3. have' = lines /\ doubled' = FALSE
      BY <2>3 DEF Deliver, Apply
    <3> QED BY <3>2, <3>3
  <2>4. CASE p.from # 0 /\ p.status.run = session
    <3>1. p.from = cursor /\ p.status.total >= cursor
      BY <1>2, <2>4 DEF Continues
    <3>2. have' = have \cup lines /\ doubled' = (doubled \/ have \cap lines # {})
      BY <2>4 DEF Deliver, Apply
    <3>3. have \cup lines = 1..cursor' /\ have \cap lines = {}
      BY <1>1, <1>2, <2>1, <3>1
    <3>4. ~doubled
      BY DEF ProcInv
    <3> QED BY <3>2, <3>3, <3>4
  <2> QED BY <2>2, <2>3, <2>4
<1> QED BY <1>1, <1>3, <1>4, <1>5, <1>6 DEF ProcInv

LEMMA ProcStep == ProcTypeOK /\ ProcInv /\ [ProcNext]_procVars => ProcInv'
<1> SUFFICES ASSUME ProcTypeOK, ProcInv, [ProcNext]_procVars PROVE ProcInv'
  OBVIOUS
<1>p. JobOK /\ ShownOK /\ PollsOK /\ BeginOK /\ Known
  BY ProcParts DEF ProcInv
<1>0. CASE UNCHANGED procVars
  BY <1>0, <1>p, PollsStay, KnownStays DEF procVars, view
<1>1. CASE OtherStarts \/ StartAccepted
  <2>1. Begin /\ UNCHANGED << view, polls, crossed >>
    BY <1>1 DEF OtherStarts, StartAccepted
  <2> QED BY <1>p, <2>1, BeginKnown, PollsStay DEF view
<1>2. ASSUME NEW e \in BOOLEAN, Logs(e) PROVE ProcInv'
  <2>1. /\ total' = [total EXCEPT ![latest] = @ + 1] /\ latest \in Run
        /\ UNCHANGED << sessions, latest, view, polls, crossed >>
    BY <1>p, <1>2 DEF Logs, Running, Remembered, JobOK
  <2>2. \A q \in Run : total'[q] \in Nat /\ total[q] \in Nat /\ total'[q] >= total[q]
    BY <1>p, <2>1 DEF JobOK
  <2>3. Known'
    BY <1>p, <2>1, <2>2 DEF Known, JobOK, ShownOK, view
  <2>4. ASSUME NEW p \in PollOf, KnownBy(p) PROVE KnownBy(p)'
    <3>1. p.status.total \in Nat
      BY DEF PollOf, Status
    <3> QED BY <1>p, <2>1, <2>2, <2>4, <3>1 DEF KnownBy, JobOK
  <2> QED BY <1>p, <2>1, <2>3, <2>4, PollsStay DEF view
<1>3. CASE JobLogs \/ JobEnds
  BY <1>2, <1>3 DEF JobLogs, JobEnds
<1>4. CASE Restart
  <2>1. sessions' = {} /\ UNCHANGED << latest, view, polls, crossed >>
    BY <1>4 DEF Restart
  <2>2. Known' /\ \A p \in PollOf : KnownBy(p) => KnownBy(p)'
    BY <1>p, <2>1 DEF Known, KnownBy, view
  <2> QED BY <1>p, <2>1, <2>2, PollsStay DEF view
<1>5. CASE \E p \in polls : AnswerPoll(p) \/ Deliver(p)
  BY <1>5, <1>p, AnswerKnown, DeliverKnown
<1>6. ASSUME NEW p \in polls, Drop(p) PROVE ProcInv'
  <2>1. polls' \subseteq polls /\ UNCHANGED << job, session, cursor, have, doubled, crossed >>
    BY <1>6 DEF Drop
  <2>2. Known' /\ \A q \in PollOf : KnownBy(q) => KnownBy(q)'
    BY <1>p, <2>1, KnownStays
  <2> QED BY <1>p, <2>1, <2>2 DEF ProcInv, Continues, PollsOK
<1>7. CASE Attach \/ Tick
  <2>1. Refresh(session, FALSE) /\ session \in 0..MaxRuns /\ UNCHANGED << job, view >>
    BY <1>7, <1>p DEF Attach, Tick, ShownOK
  <2> QED BY <1>p, <2>1, RefreshKnown
<1>8. CASE StartReplied
  <2>1. Refresh(started, TRUE) /\ started \in 0..MaxRuns /\ UNCHANGED << job, view >>
    BY <1>8, <1>p DEF StartReplied, BeginOK
  <2> QED BY <1>p, <2>1, RefreshKnown
<1>9. CASE ProcessDive \/ StartRefused \/ StartFails \/ DismissProcessing
  <2>1. UNCHANGED << job, view, polls, crossed >>
    BY <1>9 DEF ProcessDive, StartRefused, StartFails, DismissProcessing
  <2> QED BY <1>p, <2>1, PollsStay, KnownStays DEF view
<1> QED BY <1>0, <1>1, <1>3, <1>4, <1>5, <1>6, <1>7, <1>8, <1>9 DEF ProcNext

\* The log on the page has every line of the run up to the cursor, once, whatever polls were
\* lost and whatever was started or restarted (useApi.ts:1061), as long as no two polls were
\* on their way at once.
THEOREM ProcLogComplete == ProcInit /\ [][ProcNext]_procVars => []LogComplete
<1>1. ProcInit => ProcInv
  <2> SUFFICES ASSUME ProcInit PROVE ProcInv
    OBVIOUS
  <2>1. /\ sessions = {} /\ latest = 0 /\ session = 0 /\ cursor = 0 /\ polls = {} /\ have = {}
        /\ ~doubled
    BY DEF ProcInit
  <2> QED BY <2>1 DEF ProcInv, Known
<1>2. ProcInv => LogComplete
  BY DEF ProcInv, LogComplete
<1> QED BY <1>1, <1>2, ProcInitTypes, ProcTypes, ProcStep, PTL

-----------------------------------------------------------------------------
(* The types of the remaining parts.                                       *)

LEMMA DownloadInitTypes == DownloadInit => DownloadTypeOK
  BY DEF DownloadInit, DownloadTypeOK, Phase

LEMMA EnqueueTypes ==
    ASSUME DownloadTypeOK, NEW j \in Job, Enqueue(j)
    PROVE  phase' \in [Job -> Phase] /\ queue' \subseteq Job
<1>1. "preparing" \in Phase
  BY DEF Phase
<1> QED BY <1>1 DEF Enqueue, DownloadTypeOK

LEMMA DownloadTypes == DownloadTypeOK /\ [DownloadNext]_downloadVars => DownloadTypeOK'
<1> SUFFICES ASSUME DownloadTypeOK, [DownloadNext]_downloadVars PROVE DownloadTypeOK'
  OBVIOUS
<1>0. CASE UNCHANGED downloadVars
  BY <1>0 DEF DownloadTypeOK, downloadVars
<1>1. ASSUME NEW f \in Items, DownloadSingle(f) PROVE DownloadTypeOK'
  <2>1. << "single", f >> \in Job
    BY <1>1 DEF DownloadSingle, Job
  <2>2. phase' \in [Job -> Phase] /\ queue' \subseteq Job
    BY <1>1, <2>1, EnqueueTypes DEF DownloadSingle
  <2> QED BY <1>1, <2>2 DEF DownloadSingle, DownloadTypeOK
<1>2. ASSUME NEW j \in Job, JobStep(j) PROVE DownloadTypeOK'
  <2>1. {"starting", "error", "streaming", "done"} \subseteq Phase
    BY DEF Phase
  <2>2. CASE Preflight(j)
    BY <2>1, <2>2 DEF Preflight, Prune, DownloadTypeOK
  <2>3. CASE Streams(j)
    BY <2>1, <2>3 DEF Streams, DownloadTypeOK
  <2>4. CASE Settles(j)
    BY <2>1, <2>4 DEF Settles, Prune, DownloadTypeOK
  <2> QED BY <1>2, <2>2, <2>3, <2>4 DEF JobStep
<1>3. ASSUME NEW b \in Batches, PressDownload(b) PROVE DownloadTypeOK'
  BY <1>3 DEF PressDownload, DownloadTypeOK
<1>4. ASSUME NEW b \in Batches, NEW files \in SUBSET Items, FilesFound(b, files)
      PROVE  DownloadTypeOK'
  BY <1>4 DEF FilesFound, DownloadTypeOK
<1>5. ASSUME NEW b \in Batches, NextFile(b) PROVE DownloadTypeOK'
  <2>1. left[b] \subseteq Items
    BY DEF DownloadTypeOK
  <2>2. PICK f \in left[b] : Enqueue(<< b, f >>) /\ left' = [left EXCEPT ![b] = @ \ {f}]
    BY <1>5 DEF NextFile
  <2>3. << b, f >> \in Job
    BY <2>1 DEF Job
  <2>4. phase' \in [Job -> Phase] /\ queue' \subseteq Job
    BY <2>2, <2>3, EnqueueTypes
  <2>5. left' \in [Batches -> SUBSET Items]
    BY <2>2 DEF DownloadTypeOK
  <2> QED BY <1>5, <2>4, <2>5 DEF NextFile, DownloadTypeOK
<1>6. ASSUME NEW b \in Batches, BatchOver(b) PROVE DownloadTypeOK'
  BY <1>6 DEF BatchOver, DownloadTypeOK
<1> QED BY <1>0, <1>1, <1>2, <1>3, <1>4, <1>5, <1>6 DEF DownloadNext, BatchStep

LEMMA WlanInitTypes == WlanInit => WlanTypeOK
<1> SUFFICES ASSUME WlanInit PROVE WlanTypeOK
  OBVIOUS
<1>1. 0 \in Attempt /\ 0 \in 0..MaxUpsets
  BY AttemptsAssumption DEF Attempt
<1>2. Boot \in Intent
  BY <1>1 DEF Boot, Intent
<1>3. net_open \in BOOLEAN
  BY DEF WlanInit
<1> QED BY <1>1, <1>2, <1>3 DEF WlanInit, WlanTypeOK

RadioOK ==
    /\ intent \in Intent /\ probe \subseteq Intent
    /\ radio \in {"hotspot", "mute", "normal", "sta"}
    /\ task \in {"none", "turn_off", "join", "wait", "restore", "leave", "return"}
    /\ attempt \in Attempt /\ attempts \in Attempt
    /\ dog \in {"asleep", "looks", "asserts"} /\ upsets \in 0..MaxUpsets
PageOK ==
    /\ seen \in Intent /\ answers_due \subseteq Intent /\ waived \in Attempt
    /\ net_open \in BOOLEAN /\ asked \in {"no", "confirm", "sent"}

LEMMA WlanParts ==
    /\ WlanTypeOK => RadioOK /\ PageOK
    /\ RadioOK' /\ PageOK' => WlanTypeOK'
  BY DEF WlanTypeOK, RadioOK, PageOK

LEMMA RadioKept == RadioOK /\ UNCHANGED radioSide => RadioOK'
  BY DEF RadioOK, radioSide
LEMMA PageKept == PageOK /\ UNCHANGED netPage => PageOK'
  BY DEF PageOK, netPage

LEMMA AsApType == ASSUME NEW i \in Intent PROVE AsAp(i) \in Intent
  BY DEF AsAp, Intent

LEMMA EnsuredTypes ==
    ASSUME radio \in {"hotspot", "mute", "normal", "sta"}, NEW ok \in BOOLEAN, Ensured(ok)
    PROVE  radio' \in {"hotspot", "mute", "normal", "sta"}
  BY DEF Ensured, Cycled

LEMMA UpsetTypes == ASSUME RadioOK, Upset PROVE upsets' \in 0..MaxUpsets
  BY AttemptsAssumption DEF Upset, RadioOK

LEMMA TaskTypes == ASSUME RadioOK, TaskStep PROVE RadioOK' /\ UNCHANGED netPage
<1>0. UNCHANGED netPage
  BY DEF TaskStep, TurnOff, Join, Connected, TimesOut, Restore, LeaveNetwork, ReturnToAp
<1>1. CASE TurnOff
  BY <1>1 DEF TurnOff, RadioOK
<1>2. CASE Join
  BY <1>2 DEF Join, RadioOK
<1>3. CASE Connected
  <2>1. [mode |-> "sta_connected", attempt |-> attempt, failed |-> FALSE] \in Intent
    BY DEF RadioOK, Intent
  <2> QED BY <1>3, <2>1 DEF Connected, RadioOK
<1>4. CASE TimesOut
  BY <1>4 DEF TimesOut, RadioOK
<1>5. CASE Restore
  <2>1. Failure \in Intent
    BY DEF Failure, RadioOK, Intent
  <2>2. radio' \in {"hotspot", "mute", "normal", "sta"}
    BY <1>5, EnsuredTypes DEF Restore, RadioOK
  <2> QED BY <1>5, <2>1, <2>2 DEF Restore, RadioOK
<1>6. CASE LeaveNetwork
  BY <1>6 DEF LeaveNetwork, RadioOK
<1>7. CASE ReturnToAp
  <2>1. AsAp(intent) \in Intent
    BY AsApType DEF RadioOK
  <2>2. radio' \in {"hotspot", "mute", "normal", "sta"}
    BY <1>7, EnsuredTypes DEF ReturnToAp, RadioOK
  <2> QED BY <1>7, <2>1, <2>2 DEF ReturnToAp, RadioOK
<1> QED BY <1>0, <1>1, <1>2, <1>3, <1>4, <1>5, <1>6, <1>7 DEF TaskStep

LEMMA WlanTypes == WlanTypeOK /\ [WlanNext]_wlanVars => WlanTypeOK'
<1> SUFFICES ASSUME WlanTypeOK, [WlanNext]_wlanVars PROVE WlanTypeOK'
  OBVIOUS
<1>p. RadioOK /\ PageOK
  BY WlanParts
<1> USE WlanParts
<1>0. CASE UNCHANGED wlanVars
  BY <1>0, <1>p, RadioKept, PageKept DEF wlanVars
<1>1. CASE Drops
  <2>1. RadioOK'
    BY <1>1, <1>p, UpsetTypes DEF Drops, RadioOK
  <2> QED BY <1>1, <1>p, <2>1, PageKept DEF Drops
<1>2. CASE Associates
  <2>1. RadioOK'
    BY <1>2, <1>p DEF Associates, RadioOK
  <2> QED BY <1>2, <1>p, <2>1, PageKept DEF Associates
<1>3. CASE BeginSta
  <2>1. attempts' \in Attempt /\ attempt' \in Attempt
    BY <1>3, <1>p DEF BeginSta, RadioOK, Attempt
  <2>2. intent' \in Intent /\ task' \in {task, "turn_off"}
    BY <1>3, <1>p DEF BeginSta, RadioOK, Intent
  <2>3. RadioOK'
    BY <1>3, <1>p, <2>1, <2>2 DEF BeginSta, RadioOK
  <2>4. PageOK'
    BY <1>3, <1>p, <2>2 DEF BeginSta, PageOK
  <2> QED BY <2>3, <2>4
<1>4. CASE BeginAp
  <2>1. RadioOK' /\ PageOK'
    BY <1>4, <1>p DEF BeginAp, RadioOK, PageOK
  <2> QED BY <2>1
<1>5. CASE TaskStep
  BY <1>5, <1>p, TaskTypes, PageKept
<1>6. CASE Probe \/ DogWakes \/ DogLooks
  <2>1. RadioOK'
    BY <1>6, <1>p DEF Probe, DogWakes, DogLooks, RadioOK
  <2> QED BY <1>6, <1>p, <2>1, PageKept DEF Probe, DogWakes, DogLooks
<1>7. ASSUME NEW i \in probe, ProbeWrites(i) \/ ProbeEnds(i) PROVE WlanTypeOK'
  <2>1. i \in Intent /\ AsAp(i) \in Intent
    BY <1>p, AsApType DEF RadioOK
  <2>2. RadioOK'
    BY <1>7, <1>p, <2>1 DEF ProbeWrites, ProbeEnds, RadioOK
  <2> QED BY <1>7, <1>p, <2>2, PageKept DEF ProbeWrites, ProbeEnds
<1>8. ASSUME NEW ok \in BOOLEAN, DogAsserts(ok) PROVE WlanTypeOK'
  <2>1. radio' \in {"hotspot", "mute", "normal", "sta"}
    BY <1>8, <1>p, EnsuredTypes DEF DogAsserts, RadioOK
  <2>2. RadioOK'
    BY <1>8, <1>p, <2>1 DEF DogAsserts, RadioOK
  <2> QED BY <1>8, <1>p, <2>2, PageKept DEF DogAsserts
<1>9. CASE RestartNetwork
  <2>1. AsAp(intent) \in Intent
    BY <1>p, AsApType DEF RadioOK
  <2>2. RadioOK'
    BY <1>9, <1>p, <2>1, UpsetTypes DEF RestartNetwork, RadioOK
  <2> QED BY <1>9, <1>p, <2>2, PageKept DEF RestartNetwork
<1>10. CASE LeaveNetworkPage
  <2>1. 0 \in Attempt
    BY AttemptsAssumption DEF Attempt
  <2>2. Boot \in Intent
    BY <2>1 DEF Boot, Intent
  <2>3. net_open' \in BOOLEAN
    BY <1>10 DEF LeaveNetworkPage
  <2>4. PageOK'
    BY <1>10, <2>1, <2>2, <2>3 DEF LeaveNetworkPage, PageOK
  <2> QED BY <1>10, <1>p, <2>4, RadioKept DEF LeaveNetworkPage
<1>11. CASE OpenNetwork \/ PollState
  <2>1. PageOK'
    BY <1>11, <1>p DEF OpenNetwork, PollState, PageOK, RadioOK
  <2> QED BY <1>11, <1>p, <2>1, RadioKept DEF OpenNetwork, PollState
<1>12. ASSUME NEW i \in answers_due, StateRead(i) \/ StateLost(i) PROVE WlanTypeOK'
  <2>1. PageOK'
    BY <1>12, <1>p DEF StateRead, StateLost, PageOK
  <2> QED BY <1>12, <1>p, <2>1, RadioKept DEF StateRead, StateLost
<1>13. CASE RequestSwitch \/ ConfirmSwitch \/ CancelSwitch
  <2>1. PageOK'
    BY <1>13, <1>p DEF RequestSwitch, ConfirmSwitch, CancelSwitch, PageOK
  <2> QED BY <1>13, <1>p, <2>1, RadioKept DEF RequestSwitch, ConfirmSwitch, CancelSwitch
<1>14. CASE DismissBanner
  <2>1. seen.attempt \in Attempt
    BY <1>p DEF PageOK, Intent
  <2>2. PageOK'
    BY <1>14, <1>p, <2>1 DEF DismissBanner, PageOK
  <2> QED BY <1>14, <1>p, <2>2, RadioKept DEF DismissBanner
<1> QED BY <1>0, <1>1, <1>2, <1>3, <1>4, <1>5, <1>6, <1>7, <1>8, <1>9, <1>10, <1>11, <1>12,
           <1>13, <1>14 DEF WlanNext

CameraOK ==
    /\ recording \in BOOLEAN /\ camera_up \in BOOLEAN /\ mishaps \in 0..MaxMishaps
    /\ command \in {"none", "start", "stop", "started", "stopped", "refused"}
    /\ restart \in BOOLEAN
TilePageOK ==
    /\ tile_open \in BOOLEAN /\ has_camera \in BOOLEAN /\ says_recording \in BOOLEAN
ImageOK ==
    /\ preview \in BOOLEAN /\ reachable \in {"unknown", "yes", "no"}
    /\ shots \in [Shots -> {"none", "asked", "taking", "busy", "image", "error"}]
QueriesOK == queries \in [Slots -> {"none", "asked", "recording", "idle"}]

LEMMA TileParts ==
    /\ TileTypeOK => CameraOK /\ TilePageOK /\ ImageOK /\ QueriesOK
    /\ CameraOK' /\ TilePageOK' /\ ImageOK' /\ QueriesOK' => TileTypeOK'
  BY DEF TileTypeOK, CameraOK, TilePageOK, ImageOK, QueriesOK

LEMMA TileInitTypes == TileInit => TileTypeOK
<1> SUFFICES ASSUME TileInit PROVE TileTypeOK
  OBVIOUS
<1>1. 0 \in 0..MaxMishaps
  BY MishapsAssumption
<1>2. /\ recording \in BOOLEAN /\ camera_up \in BOOLEAN /\ restart \in BOOLEAN
      /\ preview \in BOOLEAN /\ tile_open \in BOOLEAN /\ has_camera \in BOOLEAN
      /\ says_recording \in BOOLEAN
  BY DEF TileInit
<1>3. /\ queries \in [Slots -> {"none", "asked", "recording", "idle"}]
      /\ shots \in [Shots -> {"none", "asked", "taking", "busy", "image", "error"}]
  BY DEF TileInit
<1>4. mishaps = 0 /\ command = "none" /\ reachable = "unknown"
  BY DEF TileInit
<1> QED BY <1>1, <1>2, <1>3, <1>4 DEF TileTypeOK

LEMMA CameraKept ==
    CameraOK /\ UNCHANGED << camera, mishaps, command, restart >> => CameraOK'
  BY DEF CameraOK, camera
LEMMA TilePageKept == TilePageOK /\ UNCHANGED page => TilePageOK'
  BY DEF TilePageOK, page
LEMMA ImageKept == ImageOK /\ UNCHANGED << image, shots >> => ImageOK'
  BY DEF ImageOK, image
LEMMA QueriesKept == QueriesOK /\ UNCHANGED queries => QueriesOK'
  BY DEF QueriesOK

LEMMA MishapTypes == ASSUME CameraOK, Mishap PROVE mishaps' \in 0..MaxMishaps
  BY MishapsAssumption DEF Mishap, CameraOK

LEMMA AsksTypes == QueriesOK /\ AsksStatus => QueriesOK'
  BY DEF QueriesOK, AsksStatus

LEMMA RefreshesTypes == ASSUME ImageOK, NEW b \in BOOLEAN, Refreshes(b) PROVE ImageOK'
<1>1. preview' \in BOOLEAN
  BY DEF Refreshes
<1>2. shots' \in [Shots -> {"none", "asked", "taking", "busy", "image", "error"}]
  BY DEF Refreshes, ImageOK
<1> QED BY <1>1, <1>2 DEF Refreshes, ImageOK

LEMMA ShowsTypes ==
    ASSUME TilePageOK, ImageOK, NEW b \in BOOLEAN, Shows(b)
    PROVE  ImageOK' /\ says_recording' \in BOOLEAN
<1>1. says_recording' \in BOOLEAN
  BY DEF Shows
<1>2. CASE b /\ ~says_recording
  BY <1>2 DEF Shows, ImageOK
<1>3. CASE says_recording /\ ~b /\ has_camera
  <2>1. Refreshes(FALSE)
    BY <1>3 DEF Shows
  <2> QED BY <1>1, <2>1, RefreshesTypes
<1>4. CASE ~(b /\ ~says_recording) /\ ~(says_recording /\ ~b /\ has_camera)
  <2>1. UNCHANGED << image, shots >>
    BY <1>4 DEF Shows
  <2> QED BY <1>1, <2>1, ImageKept
<1> QED BY <1>2, <1>3, <1>4

LEMMA CommandTypes ==
    ASSUME CameraOK,
           RestartCamera \/ RestartSettles \/ CommandReaches \/ StartRecording \/ StopRecording
    PROVE  CameraOK' /\ UNCHANGED << page, image, shots, queries >>
<1>1. CASE RestartCamera
  BY <1>1, MishapTypes DEF RestartCamera, CameraOK, camera, page, image
<1>2. CASE RestartSettles
  BY <1>2 DEF RestartSettles, CameraOK, camera, page, image
<1>3. CASE CommandReaches
  <2>1. recording' \in BOOLEAN
    BY <1>3 DEF CommandReaches, CameraOK
  <2>2. command' \in {"none", "start", "stop", "started", "stopped", "refused"}
    BY <1>3 DEF CommandReaches
  <2> QED BY <1>3, <2>1, <2>2 DEF CommandReaches, CameraOK, page, image
<1>4. CASE StartRecording \/ StopRecording
  BY <1>4 DEF StartRecording, StopRecording, CameraOK, camera, page, image
<1> QED BY <1>1, <1>2, <1>3, <1>4

LEMMA TileTypes == TileTypeOK /\ [TileNext]_tileVars => TileTypeOK'
<1> SUFFICES ASSUME TileTypeOK, [TileNext]_tileVars PROVE TileTypeOK'
  OBVIOUS
<1>p. CameraOK /\ TilePageOK /\ ImageOK /\ QueriesOK
  BY TileParts
<1> USE TileParts
<1>0. CASE UNCHANGED tileVars
  BY <1>0, <1>p, CameraKept, TilePageKept, ImageKept, QueriesKept DEF tileVars
<1>1. CASE Records \/ CameraFails \/ CameraReturns
  <2>1. CameraOK'
    BY <1>1, <1>p, MishapTypes DEF Records, CameraFails, CameraReturns, CameraOK
  <2> QED BY <1>1, <1>p, <2>1, TilePageKept, ImageKept, QueriesKept
          DEF Records, CameraFails, CameraReturns
<1>2. CASE OpenTile
  <2>1. TilePageOK'
    BY <1>2, <1>p DEF OpenTile, TilePageOK
  <2> QED BY <1>2, <1>p, <2>1, CameraKept, ImageKept, QueriesKept DEF OpenTile
<1>3. CASE LeaveTile
  <2>1. recording' \in BOOLEAN /\ camera_up' \in BOOLEAN /\ restart' \in BOOLEAN
    BY <1>3, <1>p DEF LeaveTile, CameraOK
  <2>2. tile_open' \in BOOLEAN /\ has_camera' \in BOOLEAN /\ says_recording' \in BOOLEAN
        /\ preview' \in BOOLEAN
    BY <1>3 DEF LeaveTile
  <2>3. CameraOK' /\ TilePageOK'
    BY <1>3, <1>p, <2>1, <2>2 DEF LeaveTile, CameraOK, TilePageOK
  <2>4. ImageOK' /\ QueriesOK'
    BY <1>3, <2>2 DEF LeaveTile, ImageOK, QueriesOK
  <2> QED BY <2>3, <2>4
<1>4. CASE ListsCamera
  <2>1. TilePageOK'
    BY <1>4, <1>p DEF ListsCamera, TilePageOK
  <2>2. ImageOK'
    BY <1>4, <1>p, RefreshesTypes DEF ListsCamera, TilePageOK
  <2>3. CameraOK' /\ QueriesOK'
    BY <1>4, <1>p, CameraKept, AsksTypes DEF ListsCamera
  <2> QED BY <2>1, <2>2, <2>3
<1>5. CASE LosesCamera
  <2>1. /\ recording' = recording /\ camera_up' = camera_up /\ command' = command
        /\ restart' = restart /\ mishaps' \in 0..MaxMishaps
    BY <1>5, <1>p, MishapTypes DEF LosesCamera, camera
  <2>2. CameraOK'
    BY <1>p, <2>1 DEF CameraOK
  <2>3. TilePageOK' /\ ImageOK'
    BY <1>5, <1>p DEF LosesCamera, TilePageOK, ImageOK
  <2> QED BY <1>5, <1>p, <2>2, <2>3, QueriesKept DEF LosesCamera
<1>6. CASE RefreshSnapshot
  <2>1. ImageOK'
    BY <1>6, <1>p, RefreshesTypes DEF RefreshSnapshot, TilePageOK
  <2> QED BY <1>6, <1>p, <2>1, CameraKept, TilePageKept, QueriesKept DEF RefreshSnapshot
<1>7. CASE PollStatus
  BY <1>7, <1>p, AsksTypes, CameraKept, TilePageKept, ImageKept DEF PollStatus
<1>8. ASSUME NEW s \in Shots,
             SnapshotReaches(s) \/ SnapshotTaken(s) \/ SnapshotLost(s) \/ SnapshotRead(s)
      PROVE  TileTypeOK'
  <2>1. preview' \in BOOLEAN
    BY <1>8, <1>p DEF SnapshotReaches, SnapshotTaken, SnapshotLost, SnapshotRead, ImageOK, image
  <2>2. reachable' \in {"unknown", "yes", "no"}
    BY <1>8, <1>p DEF SnapshotReaches, SnapshotTaken, SnapshotLost, SnapshotRead, ImageOK, image
  <2>3. shots' \in [Shots -> {"none", "asked", "taking", "busy", "image", "error"}]
    BY <1>8, <1>p DEF SnapshotReaches, SnapshotTaken, SnapshotLost, SnapshotRead, ImageOK
  <2>4. ImageOK'
    BY <2>1, <2>2, <2>3 DEF ImageOK
  <2> QED BY <1>8, <1>p, <2>4, CameraKept, TilePageKept, QueriesKept
          DEF SnapshotReaches, SnapshotTaken, SnapshotLost, SnapshotRead
<1>9. ASSUME NEW s \in Slots, StatusReaches(s) \/ StatusLost(s) PROVE TileTypeOK'
  <2>1. QueriesOK'
    BY <1>9, <1>p DEF StatusReaches, StatusLost, QueriesOK
  <2> QED BY <1>9, <1>p, <2>1, CameraKept, TilePageKept, ImageKept DEF StatusReaches, StatusLost
<1>10. ASSUME NEW s \in Slots, StatusRead(s) PROVE TileTypeOK'
  <2>1. QueriesOK'
    BY <1>10, <1>p DEF StatusRead, QueriesOK
  <2>2. Shows(queries[s] = "recording") /\ (queries[s] = "recording") \in BOOLEAN
    BY <1>10 DEF StatusRead
  <2>3. ImageOK' /\ says_recording' \in BOOLEAN
    BY <1>p, <2>2, ShowsTypes
  <2>4. TilePageOK'
    BY <1>10, <1>p, <2>3 DEF StatusRead, TilePageOK
  <2> QED BY <1>10, <1>p, <2>1, <2>3, <2>4, CameraKept DEF StatusRead
<1>11. CASE StartRecording \/ StopRecording \/ CommandReaches \/ RestartCamera \/ RestartSettles
  BY <1>11, <1>p, CommandTypes, TilePageKept, ImageKept, QueriesKept
<1>12. CASE CommandAnswered
  <2>1. QueriesOK'
    BY <1>12, <1>p, AsksTypes, QueriesKept DEF CommandAnswered
  <2>2. PICK b \in BOOLEAN : Shows(b)
    BY <1>12 DEF CommandAnswered
  <2>3. ImageOK' /\ says_recording' \in BOOLEAN
    BY <1>p, <2>2, ShowsTypes
  <2>4. TilePageOK'
    BY <1>12, <1>p, <2>3 DEF CommandAnswered, TilePageOK
  <2>5. CameraOK'
    BY <1>12, <1>p DEF CommandAnswered, CameraOK, camera
  <2> QED BY <2>1, <2>3, <2>4, <2>5
<1> QED BY <1>0, <1>1, <1>2, <1>3, <1>4, <1>5, <1>6, <1>7, <1>8, <1>9, <1>10, <1>11, <1>12
        DEF TileNext

-----------------------------------------------------------------------------
(* The downloads: what the queue and the buttons keep.                     *)

Busy == {"preparing", "starting", "streaming"}

\* Of a press for several files, one is taken at a time: "Drives the queue serially with a
\* small gap between saves so Safari/Chromium don't silently cancel the prior one"
\* (useDownloads.ts:154).
OneFileAtATime ==
    \A b \in Batches : \A f, g \in Items :
        phase[<< b, f >>] \in Busy /\ phase[<< b, g >>] \in Busy => f = g

\* What is under way is listed: the jobs that leave the list to make room are over.
BusyListed == \A j \in Job : phase[j] \in Busy => j \in queue

\* What is still to be enqueued was not tried yet.
Ahead ==
    \A b \in Batches : \A f \in Items :
        progress[b] \in {"idle", "listing"} \/ f \in left[b] => phase[<< b, f >>] = "none"

\* A button comes back with each file of its batch tried and none of them under way.
OverRested ==
    \A b \in Batches :
        /\ progress[b] # "running" => left[b] = {}
        /\ progress[b] = "over" => Rested(b)

DownloadInv == OneFileAtATime /\ BusyListed /\ Ahead /\ OverRested

\* A file is asked of the vehicle once per press: what is over stays over.
TriedOnce ==
    [][ \A j \in Job : phase[j] \in {"done", "error"} => phase'[j] = phase[j] ]_downloadVars

LEMMA BatchJobs == \A b \in Batches, f \in Items : << b, f >> \in Job /\ b # "single"
  BY DEF Job

LEMMA EndedIsNotBusy == \A p \in Phase : p \in Ended <=> p \notin Busy
  BY DEF Phase, Ended, Busy

\* A step of one job, forward, which leaves the buttons alone.
LEMMA JobForward ==
    ASSUME DownloadTypeOK, DownloadInv, NEW j \in Job, phase[j] \in Busy,
           UNCHANGED << progress, left >>,
           NEW p \in Phase \ {"none"}, phase' = [phase EXCEPT ![j] = p],
           \A i \in Job : phase'[i] \in Busy => i \in queue'
    PROVE  DownloadInv'
<1>1. \A i \in Job : phase'[i] = IF i = j THEN p ELSE phase[i]
  BY DEF DownloadTypeOK
<1>2. \A i \in Job : phase'[i] \in Busy => phase[i] \in Busy
  BY <1>1
<1>3. phase[j] # "none"
  BY DEF Busy
<1>4. OneFileAtATime'
  BY <1>2, BatchJobs DEF DownloadInv, OneFileAtATime
<1>5. Ahead'
  BY <1>1, <1>3, BatchJobs DEF DownloadInv, Ahead
<1>6. OverRested'
  <2>1. \A b \in Batches : Rested(b) => Rested(b)'
    <3> SUFFICES ASSUME NEW b \in Batches, Rested(b), NEW f \in Items
                 PROVE  phase'[<< b, f >>] \in Ended
      BY DEF Rested
    <3>1. phase[<< b, f >>] \in Ended /\ << b, f >> \in Job /\ phase[j] \in Phase
      BY BatchJobs DEF Rested, DownloadTypeOK
    <3>2. << b, f >> # j
      BY <3>1, EndedIsNotBusy
    <3> QED BY <3>1, <3>2, <1>1
  <2> QED BY <2>1 DEF DownloadInv, OverRested
<1>7. BusyListed'
  BY DEF BusyListed
<1> QED BY <1>4, <1>5, <1>6, <1>7 DEF DownloadInv

\* The list makes room for a job, and what is under way stays in it.
LEMMA EnqueueLists ==
    ASSUME DownloadTypeOK, BusyListed, NEW j \in Job, Enqueue(j)
    PROVE  BusyListed' /\ \A i \in Job : phase'[i] = IF i = j THEN "preparing" ELSE phase[i]
<1>1. \A i \in Job : phase'[i] = IF i = j THEN "preparing" ELSE phase[i]
  BY DEF Enqueue, DownloadTypeOK
<1>2. ASSUME NEW i \in Job, phase'[i] \in Busy PROVE i \in queue'
  BY <1>1, <1>2 DEF Enqueue, Finished, BusyListed, Busy
<1> QED BY <1>1, <1>2 DEF BusyListed

LEMMA DownloadStep == DownloadTypeOK /\ DownloadInv /\ [DownloadNext]_downloadVars => DownloadInv'
<1> SUFFICES ASSUME DownloadTypeOK, DownloadInv, [DownloadNext]_downloadVars PROVE DownloadInv'
  OBVIOUS
<1> USE DEF DownloadInv
<1>0. CASE UNCHANGED downloadVars
  BY <1>0 DEF downloadVars, OneFileAtATime, BusyListed, Ahead, OverRested, Rested
<1>1. ASSUME NEW f \in Items, DownloadSingle(f) PROVE DownloadInv'
  <2>1. << "single", f >> \in Job
    BY <1>1 DEF DownloadSingle, Job
  <2>2. BusyListed' /\ \A b \in Batches, g \in Items : phase'[<< b, g >>] = phase[<< b, g >>]
    BY <1>1, <2>1, EnqueueLists, BatchJobs DEF DownloadSingle
  <2>3. UNCHANGED << progress, left >>
    BY <1>1 DEF DownloadSingle
  <2>4. OneFileAtATime' /\ Ahead'
    BY <2>2, <2>3 DEF OneFileAtATime, Ahead
  <2>5. OverRested'
    BY <2>2, <2>3 DEF OverRested, Rested
  <2> QED BY <2>2, <2>4, <2>5
<1>2. ASSUME NEW j \in Job, JobStep(j) PROVE DownloadInv'
  <2>0. UNCHANGED << progress, left >> /\ phase[j] \in Busy
    BY <1>2 DEF JobStep, Preflight, Streams, Settles, Busy
  <2>1. {"starting", "error", "streaming", "done"} \subseteq Phase \ {"none"}
    BY DEF Phase
  <2>2. ASSUME NEW p \in Phase \ {"none"}, phase' = [phase EXCEPT ![j] = p],
               NEW old \in SUBSET (Finished(queue) \cup {j}), Prune(old),
               p \in {"done", "error"}
        PROVE  DownloadInv'
    <3>1. ASSUME NEW i \in Job, phase'[i] \in Busy PROVE i \in queue'
      <4>1. i # j /\ phase[i] \in Busy
        BY <2>2, <3>1 DEF DownloadTypeOK, Busy
      <4>2. i \in queue /\ i \notin Finished(queue)
        BY <4>1 DEF BusyListed, Finished, Busy
      <4> QED BY <2>2, <4>1, <4>2 DEF Prune
    <3> QED BY <2>0, <2>2, <3>1, JobForward
  <2>3. ASSUME NEW p \in Phase \ {"none"}, phase' = [phase EXCEPT ![j] = p], UNCHANGED queue
        PROVE  DownloadInv'
    <3>1. ASSUME NEW i \in Job, phase'[i] \in Busy PROVE i \in queue'
      BY <2>0, <2>3, <3>1 DEF BusyListed, DownloadTypeOK
    <3> QED BY <2>0, <2>3, <3>1, JobForward
  <2>4. CASE Preflight(j)
    <3>1. CASE phase' = [phase EXCEPT ![j] = "starting"] /\ UNCHANGED queue
      BY <2>1, <2>3, <3>1
    <3>2. CASE phase' = [phase EXCEPT ![j] = "error"]
               /\ \E old \in SUBSET (Finished(queue) \cup {j}) : Prune(old)
      BY <2>1, <2>2, <3>2
    <3> QED BY <2>4, <3>1, <3>2 DEF Preflight
  <2>5. CASE Streams(j)
    BY <2>1, <2>3, <2>5 DEF Streams
  <2>6. CASE Settles(j)
    BY <2>1, <2>2, <2>6 DEF Settles
  <2> QED BY <1>2, <2>4, <2>5, <2>6 DEF JobStep
<1>3. ASSUME NEW b \in Batches, PressDownload(b) PROVE DownloadInv'
  <2>1. UNCHANGED << phase, queue, left >> /\ progress[b] = "idle"
        /\ \A c \in Batches : progress'[c] = IF c = b THEN "listing" ELSE progress[c]
    BY <1>3 DEF PressDownload, DownloadTypeOK
  <2>2. OneFileAtATime' /\ BusyListed'
    BY <2>1 DEF OneFileAtATime, BusyListed
  <2>3. Ahead'
    BY <2>1 DEF Ahead
  <2>4. OverRested'
    BY <2>1 DEF OverRested, Rested
  <2> QED BY <2>2, <2>3, <2>4
<1>4. ASSUME NEW b \in Batches, NEW files \in SUBSET Items, FilesFound(b, files)
      PROVE  DownloadInv'
  <2>1. UNCHANGED << phase, queue >> /\ progress[b] = "listing"
        /\ \A c \in Batches :
            /\ progress'[c] = IF c = b THEN IF files = {} THEN "over" ELSE "running"
                              ELSE progress[c]
            /\ left'[c] = IF c = b THEN files ELSE left[c]
    BY <1>4 DEF FilesFound, DownloadTypeOK
  <2>2. OneFileAtATime' /\ BusyListed'
    BY <2>1 DEF OneFileAtATime, BusyListed
  <2>3. Ahead'
    BY <2>1 DEF Ahead
  <2>4. Rested(b)
    BY <2>1 DEF Ahead, Rested, Ended
  <2>5. OverRested'
    BY <2>1, <2>4 DEF OverRested, Rested
  <2> QED BY <2>2, <2>3, <2>5
<1>5. ASSUME NEW b \in Batches, NextFile(b) PROVE DownloadInv'
  <2>1. left[b] \subseteq Items
    BY DEF DownloadTypeOK
  <2>2. PICK f \in left[b] : Enqueue(<< b, f >>) /\ left' = [left EXCEPT ![b] = @ \ {f}]
    BY <1>5 DEF NextFile
  <2>3. << b, f >> \in Job /\ f \in Items
    BY <2>1 DEF Job
  <2>4. BusyListed' /\ \A i \in Job : phase'[i] = IF i = << b, f >> THEN "preparing" ELSE phase[i]
    BY <2>2, <2>3, EnqueueLists
  <2>5. \A c \in Batches, g \in Items :
            phase'[<< c, g >>] = IF c = b /\ g = f THEN "preparing" ELSE phase[<< c, g >>]
    BY <2>4, BatchJobs
  <2>6. /\ UNCHANGED progress /\ progress[b] = "running" /\ Rested(b)
        /\ \A c \in Batches : left'[c] = IF c = b THEN left[b] \ {f} ELSE left[c]
    BY <1>5, <2>2 DEF NextFile, DownloadTypeOK
  <2>7. \A g \in Items : phase[<< b, g >>] \notin Busy
    BY <2>6, EndedIsNotBusy, BatchJobs DEF Rested, DownloadTypeOK
  <2>8. OneFileAtATime'
    BY <2>5, <2>7 DEF OneFileAtATime
  <2>9. Ahead'
    BY <2>5, <2>6 DEF Ahead
  <2>10. OverRested'
    BY <2>5, <2>6 DEF OverRested, Rested
  <2> QED BY <2>4, <2>8, <2>9, <2>10
<1>6. ASSUME NEW b \in Batches, BatchOver(b) PROVE DownloadInv'
  <2>1. /\ UNCHANGED << phase, queue >> /\ progress[b] = "running" /\ Rested(b)
        /\ \A c \in Batches :
            /\ progress'[c] = IF c = b THEN "over" ELSE progress[c]
            /\ left'[c] = IF c = b THEN {} ELSE left[c]
    BY <1>6 DEF BatchOver, DownloadTypeOK
  <2>2. OneFileAtATime' /\ BusyListed' /\ Ahead'
    BY <2>1 DEF OneFileAtATime, BusyListed, Ahead
  <2>3. OverRested'
    BY <2>1 DEF OverRested, Rested
  <2> QED BY <2>2, <2>3
<1> QED BY <1>0, <1>1, <1>2, <1>3, <1>4, <1>5, <1>6 DEF DownloadNext, BatchStep

\* A file that is over is not touched again.
LEMMA OverStays ==
    DownloadTypeOK /\ DownloadInv /\ [DownloadNext]_downloadVars =>
        \A j \in Job : phase[j] \in {"done", "error"} => phase'[j] = phase[j]
<1> SUFFICES ASSUME DownloadTypeOK, DownloadInv, [DownloadNext]_downloadVars,
                    NEW i \in Job, phase[i] \in {"done", "error"}
             PROVE  phase'[i] = phase[i]
  OBVIOUS
<1>0. CASE UNCHANGED downloadVars
  BY <1>0 DEF downloadVars
<1>1. ASSUME NEW f \in Items, DownloadSingle(f) PROVE phase'[i] = phase[i]
  BY <1>1 DEF DownloadSingle, Enqueue, DownloadTypeOK
<1>2. ASSUME NEW j \in Job, JobStep(j) PROVE phase'[i] = phase[i]
  <2>1. phase[j] \in Busy
    BY <1>2 DEF JobStep, Preflight, Streams, Settles, Busy
  <2>2. i # j
    BY <2>1 DEF Busy
  <2> QED BY <1>2, <2>2 DEF JobStep, Preflight, Streams, Settles, DownloadTypeOK
<1>3. ASSUME NEW b \in Batches, NextFile(b) PROVE phase'[i] = phase[i]
  <2>1. left[b] \subseteq Items
    BY DEF DownloadTypeOK
  <2>2. PICK f \in left[b] : Enqueue(<< b, f >>)
    BY <1>3 DEF NextFile
  <2>3. phase[<< b, f >>] = "none"
    BY <2>1 DEF DownloadInv, Ahead
  <2>4. i # << b, f >>
    BY <2>3
  <2> QED BY <2>2, <2>4 DEF Enqueue, DownloadTypeOK
<1>4. ASSUME NEW b \in Batches, PressDownload(b) \/ BatchOver(b)
                                \/ \E files \in SUBSET Items : FilesFound(b, files)
      PROVE  phase'[i] = phase[i]
  BY <1>4 DEF PressDownload, BatchOver, FilesFound
<1> QED BY <1>0, <1>1, <1>2, <1>3, <1>4 DEF DownloadNext, BatchStep

\* Whatever is pressed meanwhile and whichever file fails, the files of a press are taken one
\* after the other, each once, what is under way is in the list, and the button comes back
\* with nothing of its batch under way.
THEOREM DownloadsOrderly ==
    DownloadInit /\ [][DownloadNext]_downloadVars => []DownloadInv /\ TriedOnce
<1>1. DownloadInit => DownloadTypeOK /\ DownloadInv
  <2> SUFFICES ASSUME DownloadInit PROVE DownloadInv
    BY DownloadInitTypes
  <2>1. \A j \in Job : phase[j] = "none"
    BY DEF DownloadInit
  <2>2. \A b \in Batches : progress[b] = "idle" /\ left[b] = {}
    BY DEF DownloadInit
  <2>3. OneFileAtATime /\ BusyListed /\ Ahead
    BY <2>1, BatchJobs DEF OneFileAtATime, BusyListed, Ahead, Busy
  <2>4. OverRested
    BY <2>2 DEF OverRested
  <2> QED BY <2>3, <2>4 DEF DownloadInv
<1>2. DownloadTypeOK /\ DownloadInv /\ [DownloadNext]_downloadVars
      => (DownloadTypeOK /\ DownloadInv)'
  BY DownloadTypes, DownloadStep
<1>3. DownloadTypeOK /\ DownloadInv /\ [DownloadNext]_downloadVars
      => [ \A j \in Job : phase[j] \in {"done", "error"} => phase'[j] = phase[j] ]_downloadVars
  BY OverStays
<1> QED BY <1>1, <1>2, <1>3, PTL DEF TriedOnce

-----------------------------------------------------------------------------
(* The switch of the radio: what its numbered attempts keep.               *)

Switching == task \in {"turn_off", "join", "wait", "restore"}
KnownIntents == {intent, seen} \cup probe \cup answers_due

\* A switch is pending only while its task is at work: nothing that ends the task, not a
\* restart nor an answer of the manager to an older question, leaves the mode at sta_pending,
\* in which begin_switch_to_sta refuses every other switch (services/network.py).
PendingWorked == intent.mode = "sta_pending" => Switching

\* What is known of earlier attempts, also on its way, is of earlier attempts.
AttemptsInOrder ==
    /\ waived <= attempts
    /\ \A i \in KnownIntents : i.attempt <= attempts
    /\ Switching =>
        /\ attempt = attempts /\ waived < attempts
        /\ \A i \in KnownIntents : i.attempt < attempts

WlanInv ==
    /\ PendingWorked /\ AttemptsInOrder
    /\ \A i \in probe : i.mode = "sta_connected"

\* No failure is dismissed before it happens: the banner that was dismissed is that of an
\* earlier attempt, however late the page learns of either.
NewFailureShows == [][ Restore => waived' < intent'.attempt ]_wlanVars

LEMMA AttemptsAreInts == Attempt \subseteq Int /\ \A i \in Intent : i.attempt \in Int
  BY DEF Attempt, Intent

LEMMA AsApAttempt == \A i \in Intent : AsAp(i).attempt = i.attempt /\ AsAp(i).mode = "ap"
  BY DEF AsAp, Intent

\* What a step may do to what is known: it says no more of the attempts than was said.
LEMMA OrderKept ==
    ASSUME WlanTypeOK, AttemptsInOrder, UNCHANGED << attempt, attempts >>,
           task' = task \/ Switching \/ ~Switching',
           waived' = waived \/ (waived' = 0 /\ 0 <= attempts /\ (Switching => 0 < attempts))
                            \/ waived' = seen.attempt,
           \A i \in KnownIntents' : \E k \in KnownIntents \cup {Boot} : i.attempt = k.attempt,
           Boot.attempt <= attempts /\ (Switching => Boot.attempt < attempts)
    PROVE  AttemptsInOrder'
<1>1. Switching' => Switching
  BY DEF Switching
<1>2. seen \in KnownIntents
  BY DEF KnownIntents
<1>3. waived' <= attempts /\ (Switching => waived' < attempts)
  BY <1>2 DEF AttemptsInOrder
<1>4. \A i \in KnownIntents' : i.attempt <= attempts /\ (Switching => i.attempt < attempts)
  BY DEF AttemptsInOrder
<1> QED BY <1>1, <1>3, <1>4 DEF AttemptsInOrder

LEMMA WlanStep == WlanTypeOK /\ WlanInv /\ [WlanNext]_wlanVars => WlanInv'
<1> SUFFICES ASSUME WlanTypeOK, WlanInv, [WlanNext]_wlanVars PROVE WlanInv'
  OBVIOUS
<1>a. /\ attempt \in Nat /\ attempts \in Nat /\ waived \in Nat /\ probe \subseteq Intent
      /\ intent \in Intent /\ seen \in Intent /\ answers_due \subseteq Intent
  BY DEF WlanTypeOK, Attempt
<1>b. Boot.attempt = 0 /\ Boot.mode = "ap" /\ 0 <= attempts /\ (Switching => 0 < attempts)
  BY <1>a DEF Boot, WlanInv, AttemptsInOrder
<1>k. \A k \in KnownIntents : \E i \in KnownIntents \cup {Boot} : k.attempt = i.attempt
  OBVIOUS
<1>0. CASE UNCHANGED wlanVars
  BY <1>0 DEF wlanVars, radioSide, netPage, WlanInv, PendingWorked, AttemptsInOrder,
              Switching, KnownIntents
<1>1. CASE Drops \/ Associates \/ DogWakes \/ DogLooks \/ \E ok \in BOOLEAN : DogAsserts(ok)
  <2>1. UNCHANGED << intent, task, attempt, attempts, probe, netPage >>
    BY <1>1 DEF Drops, Associates, DogWakes, DogLooks, DogAsserts
  <2> QED BY <2>1 DEF netPage, WlanInv, PendingWorked, AttemptsInOrder, Switching, KnownIntents
<1>2. CASE BeginSta
  <2>1. UNCHANGED << probe, seen, waived >> /\ answers_due' = answers_due \cup {intent'}
    BY <1>2 DEF BeginSta
  <2>2. CASE intent.mode # "sta_pending" /\ task = "none"
    <3>1. /\ attempts' = attempts + 1 /\ attempt' = attempts + 1 /\ task' = "turn_off"
          /\ intent'.attempt = intent.attempt
      BY <1>2, <2>2, <1>a DEF BeginSta, Intent
    <3>2. \A i \in KnownIntents' : \E k \in KnownIntents : i.attempt = k.attempt
      BY <2>1, <3>1 DEF KnownIntents
    <3>3. \A i \in KnownIntents' : i.attempt <= attempts
      BY <3>2 DEF WlanInv, AttemptsInOrder
    <3>4. \A i \in KnownIntents' : i.attempt \in Int
      <4>1. intent' \in Intent
        BY <1>2, <2>2, <1>a DEF BeginSta, Intent
      <4> QED BY <4>1, <1>a, <2>1, AttemptsAreInts DEF KnownIntents
    <3>5. AttemptsInOrder'
      BY <3>1, <3>3, <3>4, <2>1, <1>a DEF WlanInv, AttemptsInOrder
    <3>6. PendingWorked'
      BY <3>1 DEF PendingWorked, Switching
    <3> QED BY <3>5, <3>6, <2>1 DEF WlanInv
  <2>3. CASE ~(intent.mode # "sta_pending" /\ task = "none")
    <3>1. UNCHANGED << intent, task, attempt, attempts >>
      BY <1>2, <2>3 DEF BeginSta
    <3>2. KnownIntents' = KnownIntents \cup {intent}
      BY <3>1, <2>1 DEF KnownIntents
    <3>3. KnownIntents' = KnownIntents
      BY <3>2 DEF KnownIntents
    <3>4. AttemptsInOrder'
      BY <3>1, <3>3, <2>1 DEF WlanInv, AttemptsInOrder, Switching
    <3> QED BY <3>1, <3>4, <2>1 DEF WlanInv, PendingWorked, Switching
  <2> QED BY <2>2, <2>3
<1>3. CASE BeginAp
  <2>1. /\ UNCHANGED << intent, attempt, attempts, probe, seen, waived >>
        /\ task = "none" /\ task' = "leave" /\ answers_due' = answers_due \cup {intent}
    BY <1>3 DEF BeginAp
  <2>2. KnownIntents' = KnownIntents
    BY <2>1 DEF KnownIntents
  <2> QED BY <2>1, <2>2 DEF WlanInv, PendingWorked, AttemptsInOrder, Switching
<1>4. CASE TurnOff \/ Join \/ TimesOut \/ LeaveNetwork
  <2>1. /\ UNCHANGED << intent, attempt, attempts, probe, netPage >>
        /\ Switching => Switching'
        /\ Switching' => Switching
    BY <1>4 DEF TurnOff, Join, TimesOut, LeaveNetwork, Switching
  <2> QED BY <2>1 DEF netPage, WlanInv, PendingWorked, AttemptsInOrder, KnownIntents
<1>5. CASE Connected \/ Restore
  <2>1. /\ UNCHANGED << attempt, attempts, probe, netPage >> /\ task' = "none"
        /\ intent'.attempt = attempt /\ intent'.mode # "sta_pending" /\ Switching
    BY <1>5 DEF Connected, Restore, Failure, Switching
  <2>2. \A i \in KnownIntents' : i.attempt <= attempts
    BY <2>1, <1>a DEF netPage, KnownIntents, WlanInv, AttemptsInOrder
  <2> QED BY <2>1, <2>2 DEF netPage, WlanInv, PendingWorked, AttemptsInOrder, Switching
<1>6. CASE ReturnToAp \/ RestartNetwork
  <2>1. /\ UNCHANGED << attempt, attempts, netPage >> /\ task' = "none"
        /\ probe' \subseteq probe /\ intent' = AsAp(intent)
    BY <1>6 DEF ReturnToAp, RestartNetwork
  <2>2. intent'.attempt = intent.attempt /\ intent'.mode = "ap"
    BY <2>1, <1>a, AsApAttempt
  <2>3. \A i \in KnownIntents' : \E k \in KnownIntents \cup {Boot} : i.attempt = k.attempt
    BY <2>1, <2>2 DEF netPage, KnownIntents
  <2>4. AttemptsInOrder'
    BY <2>1, <2>3, <1>b, OrderKept DEF netPage, WlanInv, Switching
  <2> QED BY <2>1, <2>2, <2>4 DEF WlanInv, PendingWorked
<1>7. CASE Probe
  <2>1. /\ UNCHANGED << intent, task, attempt, attempts, netPage >>
        /\ probe' = probe \cup {intent} /\ intent.mode = "sta_connected"
    BY <1>7 DEF Probe
  <2>2. KnownIntents' = KnownIntents
    BY <2>1 DEF netPage, KnownIntents
  <2> QED BY <2>1, <2>2 DEF netPage, WlanInv, PendingWorked, AttemptsInOrder, Switching
<1>8. ASSUME NEW i \in probe, ProbeWrites(i) \/ ProbeEnds(i) PROVE WlanInv'
  <2>1. /\ UNCHANGED << task, attempt, attempts, netPage >>
        /\ probe' \subseteq probe /\ intent' \in {intent, i, AsAp(i)}
    BY <1>8 DEF ProbeWrites, ProbeEnds
  <2>2. i \in Intent /\ AsAp(i).attempt = i.attempt /\ AsAp(i).mode = "ap"
        /\ i.mode = "sta_connected"
    BY <1>a, AsApAttempt DEF WlanInv
  <2>3. \A j \in KnownIntents' : \E k \in KnownIntents \cup {Boot} : j.attempt = k.attempt
    BY <2>1, <2>2 DEF netPage, KnownIntents
  <2>4. AttemptsInOrder'
    BY <2>1, <2>3, <1>b, OrderKept DEF netPage, WlanInv
  <2>5. PendingWorked'
    BY <2>1, <2>2 DEF WlanInv, PendingWorked, Switching
  <2> QED BY <2>1, <2>4, <2>5 DEF WlanInv
<1>9. CASE LeaveNetworkPage
  <2>1. UNCHANGED radioSide /\ seen' = Boot /\ answers_due' = {} /\ waived' = 0
    BY <1>9 DEF LeaveNetworkPage
  <2>2. \A j \in KnownIntents' : \E k \in KnownIntents \cup {Boot} : j.attempt = k.attempt
    BY <2>1 DEF radioSide, KnownIntents
  <2>3. AttemptsInOrder'
    BY <2>1, <2>2, <1>b, OrderKept DEF radioSide, WlanInv
  <2> QED BY <2>1, <2>3 DEF radioSide, WlanInv, PendingWorked, Switching
<1>10. ASSUME UNCHANGED << radioSide, waived >>, KnownIntents' \subseteq KnownIntents
       PROVE  WlanInv'
  <2>1. AttemptsInOrder'
    BY <1>10, <1>b, <1>k, OrderKept DEF radioSide, WlanInv
  <2> QED BY <1>10, <2>1 DEF radioSide, WlanInv, PendingWorked, Switching
<1>11. CASE OpenNetwork \/ PollState \/ RequestSwitch \/ ConfirmSwitch \/ CancelSwitch
  <2>1. UNCHANGED << radioSide, seen, waived >> /\ answers_due' \subseteq answers_due \cup {intent}
    BY <1>11 DEF OpenNetwork, PollState, RequestSwitch, ConfirmSwitch, CancelSwitch
  <2>2. KnownIntents' \subseteq KnownIntents
    BY <2>1 DEF radioSide, KnownIntents
  <2> QED BY <1>10, <2>1, <2>2
<1>12. ASSUME NEW i \in answers_due, StateRead(i) \/ StateLost(i) PROVE WlanInv'
  <2>1. UNCHANGED << radioSide, waived >> /\ seen' \in {seen, i}
        /\ answers_due' \subseteq answers_due
    BY <1>12 DEF StateRead, StateLost
  <2>2. KnownIntents' \subseteq KnownIntents
    BY <2>1 DEF radioSide, KnownIntents
  <2> QED BY <1>10, <2>1, <2>2
<1>13. CASE DismissBanner
  <2>1. UNCHANGED << radioSide, seen, answers_due >> /\ waived' = seen.attempt
    BY <1>13 DEF DismissBanner
  <2>2. KnownIntents' = KnownIntents
    BY <2>1 DEF radioSide, KnownIntents
  <2>3. AttemptsInOrder'
    BY <2>1, <2>2, <1>b, <1>k, OrderKept DEF radioSide, WlanInv
  <2> QED BY <2>1, <2>3 DEF radioSide, WlanInv, PendingWorked, Switching
<1> QED BY <1>0, <1>1, <1>2, <1>3, <1>4, <1>5, <1>6, <1>7, <1>8, <1>9, <1>11, <1>12, <1>13
        DEF WlanNext, TaskStep

\* Whatever the manager refuses, whenever the backend restarts, and however late answers come,
\* a pending switch is one that is worked at, and its failure is not dismissed beforehand.
THEOREM SwitchesEnd ==
    WlanInit /\ [][WlanNext]_wlanVars => []PendingWorked /\ NewFailureShows
<1>1. WlanInit => WlanTypeOK /\ WlanInv
  <2> SUFFICES ASSUME WlanInit PROVE WlanInv
    BY WlanInitTypes
  <2>1. /\ intent = Boot /\ seen = Boot /\ probe = {} /\ answers_due = {} /\ task = "none"
        /\ attempts = 0 /\ waived = 0
    BY DEF WlanInit
  <2>2. Boot.mode = "ap" /\ Boot.attempt = 0
    BY DEF Boot
  <2> QED BY <2>1, <2>2 DEF WlanInv, PendingWorked, AttemptsInOrder, Switching, KnownIntents
<1>2. WlanTypeOK /\ WlanInv /\ [WlanNext]_wlanVars => (WlanTypeOK /\ WlanInv)'
  BY WlanTypes, WlanStep
<1>3. WlanInv => PendingWorked
  BY DEF WlanInv
<1>4. WlanTypeOK /\ WlanInv /\ [WlanNext]_wlanVars
      => [Restore => waived' < intent'.attempt]_wlanVars
  <2> SUFFICES ASSUME WlanInv, Restore PROVE waived' < intent'.attempt
    OBVIOUS
  <2>1. waived' = waived /\ intent'.attempt = attempt /\ Switching
    BY DEF Restore, netPage, Failure, Switching
  <2> QED BY <2>1 DEF WlanInv, AttemptsInOrder
<1> QED BY <1>1, <1>2, <1>3, <1>4, PTL DEF NewFailureShows

-----------------------------------------------------------------------------
(* Flashing the tracker.                                                   *)

LEMMA ReportType ==
    /\ NoReport \in Report
    /\ \A n \in 0..MaxFlashes : [of |-> n, says |-> "asked"] \in Report
    /\ \A r \in Report, s \in {"none", "asked", "running", "won", "failed", "unknown"} :
          [r EXCEPT !.says = s] \in Report
  BY DEF Report, NoReport

LoaderOK ==
    /\ stage \in [Flash -> {"none", "stops", "loads", "restarts", "over", "gone"}]
    /\ freed \in [Flash -> BOOLEAN] /\ won \in [Flash -> BOOLEAN]
    /\ flashes \in 0..MaxFlashes /\ mavlink \in BOOLEAN /\ stranded \in BOOLEAN
FlashPageOK ==
    /\ flash_open \in BOOLEAN /\ uploading \in BOOLEAN /\ flashing \in BOOLEAN
    /\ sending \in {"none", "sent", "accepted"} /\ mine \in 0..MaxFlashes
    /\ watching \in BOOLEAN /\ looks \in [Looks -> Report]
    /\ outcome \in {"none", "won", "failed"} /\ late \in BOOLEAN
AroundOK == outages \in 0..MaxOutages /\ adrift \in 0..MaxFlashes

LEMMA FlashParts ==
    /\ FlashTypeOK => LoaderOK /\ FlashPageOK /\ AroundOK
    /\ LoaderOK' /\ FlashPageOK' /\ AroundOK' => FlashTypeOK'
  BY DEF FlashTypeOK, LoaderOK, FlashPageOK, AroundOK

LEMMA LoaderKept == LoaderOK /\ UNCHANGED loader => LoaderOK'
  BY DEF LoaderOK, loader
LEMMA FlashPageKept == FlashPageOK /\ UNCHANGED flashPage => FlashPageOK'
  BY DEF FlashPageOK, flashPage
LEMMA AroundKept == AroundOK /\ UNCHANGED << outages, adrift >> => AroundOK'
  BY DEF AroundOK

LEMMA FlashInitTypes == FlashInit => FlashTypeOK
<1> SUFFICES ASSUME FlashInit PROVE FlashTypeOK
  OBVIOUS
<1>1. 0 \in 0..MaxFlashes /\ 0 \in 0..MaxOutages
  OBVIOUS
<1>2. looks \in [Looks -> Report]
  BY ReportType DEF FlashInit
<1>3. /\ stage \in [Flash -> {"none", "stops", "loads", "restarts", "over", "gone"}]
      /\ freed \in [Flash -> BOOLEAN] /\ won \in [Flash -> BOOLEAN]
  BY DEF FlashInit
<1>4. /\ mavlink \in BOOLEAN /\ stranded \in BOOLEAN /\ flash_open \in BOOLEAN
      /\ uploading \in BOOLEAN /\ flashing \in BOOLEAN /\ watching \in BOOLEAN /\ late \in BOOLEAN
  BY DEF FlashInit
<1>5. /\ flashes = 0 /\ outages = 0 /\ sending = "none" /\ mine = 0 /\ outcome = "none"
      /\ adrift = 0
  BY DEF FlashInit
<1> QED BY <1>1, <1>2, <1>3, <1>4, <1>5 DEF FlashTypeOK

LEMMA BeginFlashTypes ==
    ASSUME LoaderOK, BeginFlash
    PROVE  LoaderOK' /\ flashes + 1 \in 1..MaxFlashes
  BY DEF LoaderOK, BeginFlash, Flash

LEMMA SessionTypes ==
    ASSUME LoaderOK, NEW f \in Flash, SessionStep(f)
    PROVE  LoaderOK' /\ UNCHANGED << outages, flashPage, adrift >>
<1>1. CASE StopAutopilot(f)
  <2>1. mavlink' \in BOOLEAN /\ stranded' \in BOOLEAN
    BY <1>1 DEF StopAutopilot, LoaderOK
  <2>2. freed' \in [Flash -> BOOLEAN]
    BY <1>1 DEF StopAutopilot, LoaderOK
  <2> QED BY <1>1, <2>1, <2>2 DEF StopAutopilot, LoaderOK
<1>2. CASE \E ok \in BOOLEAN : LoaderEnds(f, ok)
  BY <1>2 DEF LoaderEnds, LoaderOK
<1>3. CASE StartAutopilot(f)
  <2>1. mavlink' \in BOOLEAN /\ stranded' \in BOOLEAN
    BY <1>3 DEF StartAutopilot, LoaderOK
  <2> QED BY <1>3, <2>1 DEF StartAutopilot, LoaderOK
<1> QED BY <1>1, <1>2, <1>3 DEF SessionStep

LEMMA ReportOnType == ASSUME NEW f PROVE ReportOn(f) \in {"won", "failed", "unknown", "running"}
  BY DEF ReportOn

LEMMA LookTypes ==
    ASSUME FlashPageOK, NEW l \in Looks,
           Look(l) \/ LookReaches(l) \/ StillRunning(l) \/ IsOver(l) \/ LookFails(l)
    PROVE  FlashPageOK' /\ UNCHANGED << loader, outages, adrift >>
<1>1. looks' \in [Looks -> Report]
  <2>1. CASE Look(l)
    BY <2>1, ReportType DEF Look, FlashPageOK
  <2>2. CASE LookReaches(l)
    <3>1. [looks[l] EXCEPT !.says = ReportOn(Named(looks[l].of))] \in Report
      BY ReportOnType, ReportType DEF FlashPageOK
    <3> QED BY <2>2, <3>1 DEF LookReaches, FlashPageOK
  <2>3. CASE StillRunning(l) \/ IsOver(l) \/ LookFails(l)
    BY <2>3, ReportType DEF StillRunning, IsOver, LookFails, LookAnswered, FlashPageOK
  <2> QED BY <2>1, <2>2, <2>3
<1>2. outcome' \in {"none", "won", "failed"} /\ watching' \in BOOLEAN /\ flashing' \in BOOLEAN
  BY DEF Look, LookReaches, StillRunning, IsOver, LookFails, FlashPageOK
<1>3. UNCHANGED << loader, outages, flash_open, uploading, sending, mine, late, adrift >>
  BY DEF Look, LookReaches, StillRunning, IsOver, LookFails
<1> QED BY <1>1, <1>2, <1>3 DEF FlashPageOK

LEMMA FlashTypes == FlashTypeOK /\ [FlashNext]_flashVars => FlashTypeOK'
<1> SUFFICES ASSUME FlashTypeOK, [FlashNext]_flashVars PROVE FlashTypeOK'
  OBVIOUS
<1>p. LoaderOK /\ FlashPageOK /\ AroundOK
  BY FlashParts
<1> USE FlashParts
<1>0. CASE UNCHANGED flashVars
  BY <1>0, <1>p, LoaderKept, FlashPageKept, AroundKept DEF flashVars
<1>1. ASSUME NEW f \in Flash, SessionStep(f) PROVE FlashTypeOK'
  BY <1>1, <1>p, SessionTypes, FlashPageKept, AroundKept
<1>2. CASE RestartLoader
  <2>1. LoaderOK' /\ outages' \in 0..MaxOutages
    BY <1>2, <1>p DEF RestartLoader, LoaderOK, AroundOK
  <2> QED BY <1>2, <1>p, <2>1, FlashPageKept DEF RestartLoader, AroundOK
<1>3. CASE LeaveFlash
  <2>1. adrift' \in 0..MaxFlashes
    BY <1>3, <1>p DEF LeaveFlash, AroundOK
  <2>2. 0 \in 0..MaxFlashes /\ looks' \in [Looks -> Report]
    BY <1>3, ReportType DEF LeaveFlash, NoLooks
  <2>3. FlashPageOK'
    BY <1>3, <2>2 DEF LeaveFlash, FlashPageOK
  <2> QED BY <1>3, <1>p, <2>1, <2>3, LoaderKept DEF LeaveFlash, AroundOK
<1>4. CASE AdriftStarts
  <2>1. LoaderOK' /\ adrift' \in 0..MaxFlashes
    BY <1>4, <1>p, BeginFlashTypes, LoaderKept DEF AdriftStarts, AroundOK
  <2> QED BY <1>4, <1>p, <2>1, FlashPageKept DEF AdriftStarts, AroundOK
<1>5. CASE FlashReaches
  <2>1. LoaderOK' /\ mine' \in 0..MaxFlashes
    BY <1>5, <1>p, BeginFlashTypes DEF FlashReaches
  <2>2. FlashPageOK'
    BY <1>5, <1>p, <2>1 DEF FlashReaches, FlashPageOK
  <2> QED BY <1>5, <1>p, <2>1, <2>2, AroundKept DEF FlashReaches
<1>6. CASE OpenFlash \/ PressFlash \/ UploadFails \/ FlashAccepted
  <2>1. FlashPageOK'
    BY <1>6, <1>p DEF OpenFlash, PressFlash, UploadFails, FlashAccepted, FlashPageOK
  <2> QED BY <1>6, <1>p, <2>1, LoaderKept, AroundKept
          DEF OpenFlash, PressFlash, UploadFails, FlashAccepted
<1>7. CASE Uploaded
  <2>1. late' \in BOOLEAN
    BY <1>7 DEF Uploaded
  <2>2. FlashPageOK'
    BY <1>7, <1>p, <2>1 DEF Uploaded, FlashPageOK
  <2> QED BY <1>7, <1>p, <2>2, LoaderKept, AroundKept DEF Uploaded
<1>8. CASE FlashFails
  <2>0. mine' \in 0..MaxFlashes
    BY <1>8 DEF FlashFails
  <2>1. FlashPageOK'
    BY <1>8, <1>p, <2>0 DEF FlashFails, FlashPageOK
  <2> QED BY <1>8, <1>p, <2>1, LoaderKept, AroundKept DEF FlashFails
<1>9. ASSUME NEW l \in Looks,
             Look(l) \/ LookReaches(l) \/ StillRunning(l) \/ IsOver(l) \/ LookFails(l)
      PROVE  FlashTypeOK'
  BY <1>9, <1>p, LookTypes, LoaderKept, AroundKept
<1> QED BY <1>0, <1>1, <1>2, <1>3, <1>4, <1>5, <1>6, <1>7, <1>8, <1>9 DEF FlashNext

\* What was said of a session stays true of it: a session over stays so, or is forgotten.
SessionOver(f) == stage[f] \in {"over", "gone"}

\* What was asked or said is of the session of this page, none while a new one is asked for.
SessionsInOrder == \A f \in Flash : f > flashes => stage[f] = "none"
AskInOrder ==
    /\ uploading => sending = "none" /\ ~watching
    /\ sending # "none" => ~watching
    /\ sending = "accepted" \/ watching => mine # 0
SeenTrue ==
    \A l \in Looks :
        /\ looks[l].says # "none" => looks[l].of # 0
        /\ looks[l].says # "none" /\ ~late => sending = "none" /\ looks[l].of = mine
        /\ looks[l].says \in {"won", "failed"} =>
               /\ SessionOver(looks[l].of)
               /\ (looks[l].says = "won") = won[looks[l].of]
NoOutcomeYet == sending # "none" /\ ~late => outcome = "none"

FlashInv == SessionsInOrder /\ AskInOrder /\ SeenTrue /\ NoOutcomeYet /\ FlashVerdict

LEMMA SessionsEnd ==
    ASSUME FlashTypeOK, SessionsInOrder,
           (\E f \in Flash : SessionStep(f)) \/ RestartLoader \/ BeginFlash \/ UNCHANGED loader
    PROVE  /\ SessionsInOrder'
           /\ \A f \in Flash : SessionOver(f) => SessionOver(f)' /\ won'[f] = won[f]
<1>t. /\ stage \in [Flash -> {"none", "stops", "loads", "restarts", "over", "gone"}]
      /\ won \in [Flash -> BOOLEAN] /\ flashes \in 0..MaxFlashes
  BY DEF FlashTypeOK
<1>1. ASSUME NEW f \in Flash, SessionStep(f)
      PROVE  /\ SessionsInOrder'
             /\ \A g \in Flash : SessionOver(g) => SessionOver(g)' /\ won'[g] = won[g]
  <2>1. /\ stage[f] \in {"stops", "loads", "restarts"} /\ flashes' = flashes
        /\ \E s \in {"loads", "restarts", "over"} : stage' = [stage EXCEPT ![f] = s]
        /\ \A g \in Flash : g # f => won'[g] = won[g]
    BY <1>1, <1>t DEF SessionStep, StopAutopilot, LoaderEnds, StartAutopilot
  <2> QED BY <1>t, <2>1 DEF SessionsInOrder, SessionOver
<1>2. CASE RestartLoader
  <2>1. /\ stage' = [f \in Flash |-> IF stage[f] = "none" THEN "none" ELSE "gone"]
        /\ UNCHANGED << won, flashes >>
    BY <1>2 DEF RestartLoader
  <2> QED BY <1>t, <2>1 DEF SessionsInOrder, SessionOver
<1>3. CASE BeginFlash
  <2>1. /\ flashes + 1 \in Flash /\ flashes' = flashes + 1
        /\ stage' = [stage EXCEPT ![flashes + 1] = "stops"] /\ won' = won
    BY <1>3, <1>t DEF BeginFlash, Flash
  <2>2. stage[flashes + 1] = "none"
    BY <2>1, <1>t DEF SessionsInOrder
  <2>3. SessionsInOrder'
    BY <1>t, <2>1 DEF SessionsInOrder, Flash
  <2> QED BY <1>t, <2>1, <2>2, <2>3 DEF SessionOver
<1>4. CASE UNCHANGED loader
  BY <1>4 DEF loader, SessionsInOrder, SessionOver
<1> QED BY <1>1, <1>2, <1>3, <1>4

\* A step of the backend alone leaves all that was said of sessions true.
LEMMA SaidStays ==
    ASSUME FlashTypeOK, SessionsInOrder, SeenTrue, FlashVerdict,
           \A f \in Flash : SessionOver(f) => SessionOver(f)' /\ won'[f] = won[f],
           UNCHANGED << looks, mine, outcome, late, sending >>
    PROVE  SeenTrue' /\ FlashVerdict'
<1>1. \A l \in Looks : looks[l] \in Report
  BY DEF FlashTypeOK
<1>2. ASSUME NEW l \in Looks, looks[l].says \in {"won", "failed"}
      PROVE  SessionOver(looks[l].of)' /\ (looks[l].says = "won") = won'[looks[l].of]
  <2>1. looks[l].of \in Flash
    BY <1>1, <1>2 DEF SeenTrue, Report, Flash
  <2> QED BY <1>2, <2>1 DEF SeenTrue
<1>3. SeenTrue'
  BY <1>2 DEF SeenTrue, SessionOver
<1>4. outcome # "none" /\ ~late => mine \in Flash
  BY DEF FlashVerdict, FlashTypeOK, Flash
<1> QED BY <1>3, <1>4 DEF FlashVerdict, SessionOver

LEMMA FlashStep == FlashTypeOK /\ FlashInv /\ [FlashNext]_flashVars => FlashInv'
<1> SUFFICES ASSUME FlashTypeOK, FlashInv, [FlashNext]_flashVars PROVE FlashInv'
  OBVIOUS
<1>b. SessionsInOrder /\ AskInOrder /\ SeenTrue /\ NoOutcomeYet /\ FlashVerdict
  BY DEF FlashInv
<1>t. /\ looks \in [Looks -> Report] /\ flashes \in 0..MaxFlashes /\ mine \in 0..MaxFlashes
      /\ \A l \in Looks : looks[l] \in Report
  BY DEF FlashTypeOK
<1>s. UNCHANGED flashPage => AskInOrder' /\ NoOutcomeYet'
  BY <1>b DEF flashPage, AskInOrder, NoOutcomeYet
\* Steps of the page that leave the sessions and what was read alone.
<1>p. UNCHANGED << loader, looks, mine, outcome, late, sending >>
        => SessionsInOrder' /\ SeenTrue' /\ FlashVerdict'
  BY <1>b DEF loader, SessionsInOrder, SeenTrue, SessionOver, FlashVerdict
<1>0. CASE UNCHANGED flashVars
  BY <1>0, <1>s, <1>p DEF flashVars, flashPage, FlashInv
<1>1. CASE (\E f \in Flash : SessionStep(f)) \/ RestartLoader \/ AdriftStarts
  <2>1. UNCHANGED flashPage
    BY <1>1 DEF SessionStep, StopAutopilot, LoaderEnds, StartAutopilot, RestartLoader, AdriftStarts
  <2>2. (\E f \in Flash : SessionStep(f)) \/ RestartLoader \/ BeginFlash \/ UNCHANGED loader
    BY <1>1 DEF AdriftStarts
  <2>3. SessionsInOrder' /\ \A f \in Flash : SessionOver(f) => SessionOver(f)' /\ won'[f] = won[f]
    BY <1>b, <2>2, SessionsEnd
  <2>4. SeenTrue' /\ FlashVerdict'
    BY <1>b, <2>1, <2>3, SaidStays DEF flashPage
  <2> QED BY <1>s, <2>1, <2>3, <2>4 DEF FlashInv
<1>2. CASE OpenFlash \/ UploadFails
  <2>1. UNCHANGED << loader, looks, mine, outcome, late, sending, watching >>
    BY <1>2 DEF OpenFlash, UploadFails
  <2>2. AskInOrder' /\ NoOutcomeYet'
    BY <1>2, <1>b, <2>1 DEF OpenFlash, UploadFails, AskInOrder, NoOutcomeYet
  <2> QED BY <1>p, <2>1, <2>2 DEF FlashInv
<1>3. CASE PressFlash
  <2>1. UNCHANGED << loader, looks, mine, outcome, late, sending, watching >>
    BY <1>3 DEF PressFlash
  <2>2. AskInOrder' /\ NoOutcomeYet'
    BY <1>3, <1>b, <2>1 DEF PressFlash, AskInOrder, NoOutcomeYet
  <2> QED BY <1>p, <2>1, <2>2 DEF FlashInv
<1>4. CASE LeaveFlash
  <2>1. /\ ~uploading' /\ sending' = "none" /\ ~watching' /\ outcome' = "none"
        /\ UNCHANGED loader /\ looks' = [l \in Looks |-> NoReport]
    BY <1>4 DEF LeaveFlash, NoLooks
  <2>2. \A l \in Looks : looks'[l].says = "none"
    BY <2>1 DEF NoReport
  <2>3. SessionsInOrder' /\ AskInOrder' /\ NoOutcomeYet' /\ FlashVerdict'
    BY <1>b, <2>1 DEF loader, SessionsInOrder, AskInOrder, NoOutcomeYet, FlashVerdict
  <2> QED BY <2>2, <2>3 DEF SeenTrue, FlashInv
<1>5. CASE Uploaded
  <2>1. /\ uploading /\ ~uploading' /\ outcome' = "none" /\ sending' = "sent"
        /\ UNCHANGED << loader, mine, watching, looks >>
        /\ late' = (late \/ \E l \in Looks : looks[l].says # "none")
    BY <1>5 DEF Uploaded
  <2>2. SessionsInOrder' /\ AskInOrder' /\ NoOutcomeYet' /\ FlashVerdict'
    BY <1>b, <2>1 DEF loader, SessionsInOrder, AskInOrder, NoOutcomeYet, FlashVerdict
  <2>3. SeenTrue'
    BY <1>b, <2>1 DEF loader, SeenTrue, SessionOver
  <2> QED BY <2>2, <2>3 DEF FlashInv
<1>6. CASE FlashReaches
  <2>1. /\ sending = "sent" /\ sending' = "accepted" /\ mine' = flashes + 1 /\ BeginFlash
        /\ UNCHANGED << uploading, watching, looks, outcome, late >>
    BY <1>6 DEF FlashReaches
  <2>2. SessionsInOrder' /\ \A f \in Flash : SessionOver(f) => SessionOver(f)' /\ won'[f] = won[f]
    BY <1>b, <2>1, SessionsEnd
  <2>3. AskInOrder' /\ NoOutcomeYet' /\ FlashVerdict'
    BY <1>b, <1>t, <2>1 DEF AskInOrder, NoOutcomeYet, FlashVerdict
  <2>4. ASSUME NEW l \in Looks
        PROVE  /\ looks'[l].says # "none" => looks'[l].of # 0 /\ late'
               /\ looks'[l].says \in {"won", "failed"} =>
                      /\ stage'[looks'[l].of] \in {"over", "gone"}
                      /\ (looks'[l].says = "won") = won'[looks'[l].of]
    <3>1. looks[l].says # "none" => looks[l].of \in Flash
      BY <1>b, <1>t DEF SeenTrue, Report, Flash
    <3>2. looks[l].says # "none" => late
      BY <1>b, <1>t, <2>1 DEF SeenTrue, Report, Flash
    <3>3. looks' = looks /\ (looks[l].says # "none" => looks[l].of # 0)
      BY <1>b, <2>1 DEF SeenTrue
    <3>4. ASSUME looks[l].says \in {"won", "failed"}
          PROVE  /\ stage'[looks[l].of] \in {"over", "gone"}
                 /\ (looks[l].says = "won") = won'[looks[l].of]
      <4>1. looks[l].of \in Flash
        BY <3>1, <3>4
      <4>2. SessionOver(looks[l].of) /\ (looks[l].says = "won") = won[looks[l].of]
        BY <1>b, <3>4 DEF SeenTrue
      <4>3. \A f \in Flash :
              SessionOver(f) => stage'[f] \in {"over", "gone"} /\ won'[f] = won[f]
        BY <2>2 DEF SessionOver
      <4> QED BY <4>1, <4>2, <4>3
    <3>5. looks'[l].says # "none" => looks'[l].of # 0 /\ late'
      BY <2>1, <3>3, <3>2
    <3>6. looks'[l].says \in {"won", "failed"} =>
              /\ stage'[looks'[l].of] \in {"over", "gone"}
              /\ (looks'[l].says = "won") = won'[looks'[l].of]
      BY <3>3, <3>4
    <3> QED BY <3>5, <3>6
  <2>5. SeenTrue'
    BY <2>1, <2>4 DEF SeenTrue, SessionOver
  <2> QED BY <2>2, <2>3, <2>5 DEF FlashInv
<1>7. CASE FlashFails
  <2>1. /\ sending # "none" /\ sending' = "none" /\ mine' = 0
        /\ UNCHANGED << loader, uploading, watching, looks, outcome, late >>
    BY <1>7 DEF FlashFails
  <2>2. SessionsInOrder' /\ AskInOrder' /\ NoOutcomeYet' /\ FlashVerdict'
    BY <1>b, <2>1 DEF loader, SessionsInOrder, AskInOrder, NoOutcomeYet, FlashVerdict
  <2>3. SeenTrue'
    BY <1>b, <2>1 DEF loader, SeenTrue, SessionOver
  <2> QED BY <2>2, <2>3 DEF FlashInv
<1>8. CASE FlashAccepted
  <2>1. /\ sending = "accepted" /\ sending' = "none" /\ watching'
        /\ UNCHANGED << loader, uploading, looks, outcome, late, mine >>
    BY <1>8 DEF FlashAccepted
  <2>2. SessionsInOrder' /\ AskInOrder' /\ NoOutcomeYet' /\ FlashVerdict'
    BY <1>b, <2>1 DEF loader, SessionsInOrder, AskInOrder, NoOutcomeYet, FlashVerdict
  <2>3. SeenTrue'
    BY <1>b, <2>1 DEF loader, SeenTrue, SessionOver
  <2> QED BY <2>2, <2>3 DEF FlashInv
<1>9. ASSUME NEW l \in Looks, Look(l) \/ LookReaches(l) PROVE FlashInv'
  <2>1. UNCHANGED << loader, uploading, sending, mine, watching, outcome, late >>
    BY <1>9 DEF Look, LookReaches
  <2>2. SessionsInOrder' /\ AskInOrder' /\ NoOutcomeYet' /\ FlashVerdict'
    BY <1>b, <2>1 DEF loader, SessionsInOrder, AskInOrder, NoOutcomeYet, FlashVerdict
  <2>3. \A k \in Looks : k # l => looks'[k] = looks[k]
    BY <1>9, <1>t DEF Look, LookReaches
  <2>4. CASE Look(l)
    <3>1. looks'[l] = [of |-> mine, says |-> "asked"] /\ watching
      BY <1>t, <2>4 DEF Look
    <3>2. mine # 0 /\ sending = "none"
      BY <1>b, <3>1 DEF AskInOrder
    <3>3. SeenTrue'
      BY <1>b, <2>1, <2>3, <3>1, <3>2 DEF loader, SeenTrue, SessionOver
    <3> QED BY <2>2, <3>3 DEF FlashInv
  <2>5. CASE LookReaches(l)
    <3>1. /\ looks[l].says = "asked"
          /\ looks'[l] = [looks[l] EXCEPT !.says = ReportOn(looks[l].of)]
      BY <1>t, <2>5 DEF LookReaches, Named
    <3>2. looks'[l].of = looks[l].of /\ looks'[l].says = ReportOn(looks[l].of)
      BY <1>t, <3>1 DEF Report
    <3>3. looks[l].of \in Flash /\ won[looks[l].of] \in BOOLEAN
      <4>1. looks[l].of \in Flash
        BY <1>b, <1>t, <3>1 DEF SeenTrue, Report, Flash
      <4> QED BY <4>1 DEF FlashTypeOK
    <3>4. looks'[l].says \in {"won", "failed"} =>
              /\ stage[looks[l].of] = "over"
              /\ (looks'[l].says = "won") = won[looks[l].of]
      BY <3>2, <3>3 DEF ReportOn
    <3>5. SeenTrue'
      BY <1>b, <2>1, <2>3, <3>1, <3>2, <3>4 DEF loader, SeenTrue, SessionOver
    <3> QED BY <2>2, <3>5 DEF FlashInv
  <2> QED BY <1>9, <2>4, <2>5
<1>10. ASSUME NEW l \in Looks, StillRunning(l) \/ IsOver(l) \/ LookFails(l) PROVE FlashInv'
  <2>1. /\ UNCHANGED << loader, uploading, sending, mine, late >>
        /\ looks' = [looks EXCEPT ![l] = NoReport]
        /\ watching' => watching
    BY <1>10 DEF StillRunning, IsOver, LookFails, LookAnswered
  <2>2. SessionsInOrder' /\ AskInOrder'
    BY <1>b, <2>1 DEF loader, SessionsInOrder, AskInOrder
  <2>3. looks'[l].says = "none" /\ \A k \in Looks : k # l => looks'[k] = looks[k]
    BY <1>t, <2>1 DEF NoReport
  <2>4. SeenTrue'
    BY <1>b, <2>1, <2>3 DEF loader, SeenTrue, SessionOver
  <2>5. NoOutcomeYet' /\ FlashVerdict'
    <3>1. CASE IsOver(l)
      <4>1. looks[l].says \in {"won", "failed"} /\ outcome' = looks[l].says
        BY <3>1 DEF IsOver
      <4> QED BY <1>b, <2>1, <4>1 DEF loader, SeenTrue, SessionOver, NoOutcomeYet, FlashVerdict
    <3>2. CASE StillRunning(l) \/ LookFails(l)
      <4>1. outcome' = outcome
        BY <3>2 DEF StillRunning, LookFails
      <4> QED BY <1>b, <2>1, <4>1 DEF loader, NoOutcomeYet, FlashVerdict
    <3> QED BY <1>10, <3>1, <3>2
  <2> QED BY <2>2, <2>4, <2>5 DEF FlashInv
<1> QED BY <1>0, <1>1, <1>2, <1>3, <1>4, <1>5, <1>6, <1>7, <1>8, <1>9, <1>10 DEF FlashNext

LEMMA FlashInitInv == FlashInit => FlashInv
<1> SUFFICES ASSUME FlashInit PROVE FlashInv
  OBVIOUS
<1>1. SessionsInOrder /\ AskInOrder /\ NoOutcomeYet /\ FlashVerdict
  BY DEF FlashInit, SessionsInOrder, AskInOrder, NoOutcomeYet, FlashVerdict
<1>2. \A l \in Looks : looks[l].says = "none"
  BY DEF FlashInit, NoReport
<1> QED BY <1>1, <1>2 DEF SeenTrue, FlashInv

\* The banner says how this page's flashing ended, and not before it did, whatever else is
\* flashed, lost or restarted, for any number of sessions, restarts and polls.
THEOREM FlashVerdictTrue == FlashInit /\ [][FlashNext]_flashVars => []FlashVerdict
<1>1. FlashInv => FlashVerdict
  BY DEF FlashInv
<1> QED BY <1>1, FlashInitInv, FlashInitTypes, FlashTypes, FlashStep, PTL

\* Whoever flashes meanwhile and whatever fails, an autopilot that is down is one that a
\* session took down and has still to start again, unless BlueOS did not do as it was told or
\* the backend restarted: no session ends, fails or overtakes another and forgets it
\* (services/artemis.py:96).
AutopilotDue ==
    ~mavlink /\ ~stranded => \E f \in Flash : freed[f] /\ stage[f] \in {"loads", "restarts"}

LEMMA AutopilotDueStep ==
    FlashTypeOK /\ SessionsInOrder /\ AutopilotDue /\ [FlashNext]_flashVars => AutopilotDue'
<1> SUFFICES ASSUME FlashTypeOK, SessionsInOrder, AutopilotDue, [FlashNext]_flashVars
             PROVE  AutopilotDue'
  OBVIOUS
<1>t. /\ stage \in [Flash -> {"none", "stops", "loads", "restarts", "over", "gone"}]
      /\ freed \in [Flash -> BOOLEAN] /\ flashes \in 0..MaxFlashes
      /\ mavlink \in BOOLEAN /\ stranded \in BOOLEAN
  BY DEF FlashTypeOK
<1>0. ASSUME UNCHANGED loader PROVE AutopilotDue'
  BY <1>0 DEF loader, AutopilotDue
<1>1. ASSUME NEW f \in Flash, StopAutopilot(f) PROVE AutopilotDue'
  <2>1. stage[f] = "stops" /\ stage'[f] = "loads" /\ \A g \in Flash : g # f => stage'[g] = stage[g]
    BY <1>1, <1>t DEF StopAutopilot
  <2>2. CASE freed' = [freed EXCEPT ![f] = TRUE] /\ mavlink' = FALSE /\ UNCHANGED stranded
    BY <2>1, <2>2, <1>t DEF AutopilotDue
  <2>3. CASE UNCHANGED << freed, mavlink, stranded >>
    BY <2>1, <2>3, <1>t DEF AutopilotDue
  <2>4. CASE stranded' = TRUE
    BY <2>4 DEF AutopilotDue
  <2> QED BY <1>1, <2>2, <2>3, <2>4 DEF StopAutopilot
<1>2. ASSUME NEW f \in Flash, NEW ok \in BOOLEAN, LoaderEnds(f, ok) PROVE AutopilotDue'
  <2>1. UNCHANGED << freed, mavlink, stranded >> /\ (freed[f] => stage'[f] = "restarts")
    BY <1>2, <1>t DEF LoaderEnds, Restarts
  <2>2. \A g \in Flash : g # f => stage'[g] = stage[g]
    BY <1>2, <1>t DEF LoaderEnds
  <2>3. ASSUME NEW g \in Flash, freed[g], stage[g] \in {"loads", "restarts"}
        PROVE  freed'[g] /\ stage'[g] \in {"loads", "restarts"}
    <3>1. stage'[g] = stage[g] \/ stage'[g] = "restarts"
      BY <2>1, <2>2, <2>3
    <3>2. freed'[g]
      BY <2>1, <2>3
    <3> QED BY <3>1, <3>2, <2>3
  <2> QED BY <2>1, <2>3, Zenon DEF AutopilotDue
<1>3. ASSUME NEW f \in Flash, StartAutopilot(f) PROVE AutopilotDue'
  <2>1. mavlink' = TRUE \/ (stranded' = ~mavlink /\ mavlink' = mavlink)
    BY <1>3 DEF StartAutopilot
  <2> QED BY <2>1, <1>t DEF AutopilotDue
<1>4. CASE RestartLoader
  BY <1>4, <1>t DEF RestartLoader, AutopilotDue
<1>5. CASE BeginFlash
  <2>1. /\ UNCHANGED << freed, mavlink, stranded >> /\ flashes + 1 \in Flash
        /\ \A g \in Flash : g # flashes + 1 => stage'[g] = stage[g]
    BY <1>5, <1>t DEF BeginFlash, Flash
  <2>2. stage[flashes + 1] = "none"
    BY <2>1, <1>t DEF SessionsInOrder
  <2> QED BY <2>1, <2>2 DEF AutopilotDue
<1> QED BY <1>0, <1>1, <1>2, <1>3, <1>4, <1>5
        DEF FlashNext, SessionStep, flashVars, OpenFlash, LeaveFlash, AdriftStarts, PressFlash,
            UploadFails, Uploaded, FlashReaches, FlashFails, FlashAccepted, Look, LookReaches,
            StillRunning, IsOver, LookFails

\* The safety half of MavlinkReturns, for any number of sessions at once: what is left to
\* fairness is that such a session goes on.
THEOREM AutopilotComesBack == FlashInit /\ [][FlashNext]_flashVars => []AutopilotDue
<1>1. FlashInit => FlashTypeOK /\ FlashInv /\ AutopilotDue
  <2>1. FlashInit => AutopilotDue
    BY DEF FlashInit, AutopilotDue
  <2>2. FlashInit => FlashTypeOK /\ FlashInv
    BY FlashInitTypes, FlashInitInv
  <2> QED BY <2>1, <2>2
<1>2. FlashTypeOK /\ FlashInv /\ AutopilotDue /\ [FlashNext]_flashVars
      => (FlashTypeOK /\ FlashInv /\ AutopilotDue)'
  <2>1. FlashInv => SessionsInOrder
    BY DEF FlashInv
  <2> QED BY <2>1, FlashTypes, FlashStep, AutopilotDueStep
<1> QED BY <1>1, <1>2, PTL

-----------------------------------------------------------------------------
(* The clock.                                                              *)

LEMMA ClockInitTypes == ClockInit => ClockTypeOK
<1> SUFFICES ASSUME ClockInit PROVE ClockTypeOK
  OBVIOUS
<1>1. 0 \in 0..MaxBoots /\ Oldest \in 0..Oldest /\ 0 \in Int /\ -Years \in Error
  BY DEF Error
<1>2. clock_failed \in [Browsers -> BOOLEAN]
  BY DEF ClockInit
<1>3. fix \in BOOLEAN /\ synced \in BOOLEAN /\ offers \subseteq Browsers
  BY DEF ClockInit
<1>4. /\ skew = -Years /\ age = Oldest /\ shift = 0 /\ source = "none" /\ floor = -Years
      /\ sync = "asleep" /\ boots = 0
  BY DEF ClockInit
<1> QED BY <1>1, <1>2, <1>3, <1>4 DEF ClockTypeOK

TrackerOK == age \in 0..Oldest /\ fix \in BOOLEAN /\ shift \in Int
TimeOK == /\ skew \in Error /\ synced \in BOOLEAN
          /\ source \in {"none", "floor", "browser", "gps"} /\ floor \in Error
LoopsOK == /\ sync \in {"asleep", "has_fix"} /\ boots \in 0..MaxBoots
           /\ offers \subseteq Browsers /\ clock_failed \in [Browsers -> BOOLEAN]

LEMMA ClockParts ==
    /\ ClockTypeOK => TrackerOK /\ TimeOK /\ LoopsOK
    /\ TrackerOK' /\ TimeOK' /\ LoopsOK' => ClockTypeOK'
  BY DEF ClockTypeOK, TrackerOK, TimeOK, LoopsOK

LEMMA ErrorsAreInts == Error \subseteq Int /\ Browsers \subseteq Error /\ 0 \in Error
                       /\ \A a \in 0..Oldest : -a \in Error
  BY DEF Error

LEMMA StepTypes == ASSUME TimeOK, TrackerOK, NEW to \in Error, Steps(to)
                   PROVE  skew' \in Error /\ shift' \in Int
  BY ErrorsAreInts DEF Steps, TimeOK, TrackerOK

LEMMA StartsTypes ==
    ASSUME TimeOK, LoopsOK, NEW from \in Error, NEW ok \in BOOLEAN, Starts(from, ok)
    PROVE  TimeOK' /\ LoopsOK'
<1>1. boots' \in 0..MaxBoots
  BY DEF Starts, LoopsOK
<1>2. skew' \in Error /\ source' \in {"none", "floor", "browser", "gps"}
  BY DEF Starts, TimeOK
<1>3. synced' \in BOOLEAN /\ offers' \subseteq Browsers
  BY DEF Starts
<1> QED BY <1>1, <1>2, <1>3 DEF Starts, TimeOK, LoopsOK

LEMMA TakesOfferTypes ==
    ASSUME TimeOK, TrackerOK, NEW b \in Browsers, NEW ok \in BOOLEAN, TakesOffer(b, ok)
    PROVE  TimeOK' /\ shift' \in Int
<1>1. b \in Error
  BY ErrorsAreInts
<1>2. CASE b = skew
  BY <1>1, <1>2 DEF TakesOffer, RecordsGood, TimeOK, TrackerOK
<1>3. CASE b # skew /\ ~(source = "gps" /\ synced) /\ ok
  BY <1>1, <1>3, StepTypes DEF TakesOffer, RecordsGood, TimeOK
<1>4. CASE b # skew /\ ~(~(source = "gps" /\ synced) /\ ok)
  BY <1>4 DEF TakesOffer, TimeOK, TrackerOK, sources
<1> QED BY <1>2, <1>3, <1>4

LEMMA ClockTypes == ClockTypeOK /\ [ClockNext]_clockVars => ClockTypeOK'
<1> SUFFICES ASSUME ClockTypeOK, [ClockNext]_clockVars PROVE ClockTypeOK'
  OBVIOUS
<1>p. TrackerOK /\ TimeOK /\ LoopsOK
  BY ClockParts
<1> USE ClockParts
<1>0. CASE UNCHANGED clockVars
  BY <1>0, <1>p DEF clockVars, cache, sources, TrackerOK, TimeOK, LoopsOK
<1>1. CASE Later
  <2>1. age' \in 0..Oldest /\ floor' \in Error
    BY <1>1, <1>p DEF Later, TrackerOK, TimeOK, Error
  <2> QED BY <1>1, <1>p, <2>1 DEF Later, sources, TrackerOK, TimeOK, LoopsOK
<1>2. CASE \E f \in BOOLEAN : Hears(f)
  BY <1>2, <1>p DEF Hears, sources, TrackerOK, TimeOK, LoopsOK
<1>3. CASE FindsFix \/ TimeLost
  BY <1>3, <1>p DEF FindsFix, TimeLost, cache, sources, TrackerOK, TimeOK, LoopsOK
<1>4. ASSUME NEW ok \in BOOLEAN, ReadsTime(ok) PROVE ClockTypeOK'
  <2>1. -age \in Error
    BY <1>p, ErrorsAreInts DEF TrackerOK
  <2>2. TimeOK' /\ shift' \in Int
    <3>1. CASE Fresh /\ fix /\ (skew = -age \/ ok)
      BY <1>4, <1>p, <2>1, <3>1, StepTypes DEF ReadsTime, RecordsGood, TimeOK
    <3>2. CASE ~(Fresh /\ fix /\ (skew = -age \/ ok))
      BY <1>4, <1>p, <3>2 DEF ReadsTime, sources, TimeOK, TrackerOK
    <3> QED BY <3>1, <3>2
  <2>3. TrackerOK' /\ LoopsOK'
    BY <1>4, <1>p, <2>2 DEF ReadsTime, TrackerOK, LoopsOK
  <2> QED BY <2>2, <2>3
<1>5. ASSUME NEW ok \in BOOLEAN, RestartClock(ok) PROVE ClockTypeOK'
  <2>1. skew \in Error
    BY <1>p DEF TimeOK
  <2>2. TimeOK' /\ LoopsOK'
    BY <1>5, <1>p, <2>1, StartsTypes DEF RestartClock
  <2>3. shift' \in Int
    BY <1>5, <1>p, <2>1, <2>2, ErrorsAreInts DEF RestartClock, TrackerOK, TimeOK
  <2> QED BY <1>5, <1>p, <2>2, <2>3 DEF RestartClock, TrackerOK
<1>6. ASSUME NEW from \in Error, NEW ok \in BOOLEAN, PowerCut(from, ok) PROVE ClockTypeOK'
  <2>1. TimeOK' /\ LoopsOK'
    BY <1>6, <1>p, StartsTypes DEF PowerCut
  <2>2. Oldest \in 0..Oldest /\ 0 \in Int
    OBVIOUS
  <2>3. age' = Oldest /\ shift' = 0 /\ fix' = FALSE
    BY <1>6 DEF PowerCut
  <2>4. TrackerOK'
    BY <2>2, <2>3 DEF TrackerOK
  <2> QED BY <2>1, <2>4
<1>7. ASSUME NEW b \in Browsers, AsksTime(b) \/ OfferLost(b) PROVE ClockTypeOK'
  <2>1. clock_failed' \in [Browsers -> BOOLEAN]
    BY <1>7, <1>p DEF AsksTime, OfferLost, LoopsOK
  <2>2. LoopsOK'
    BY <1>7, <1>p, <2>1 DEF AsksTime, OfferLost, LoopsOK
  <2> QED BY <1>7, <1>p, <2>2 DEF AsksTime, OfferLost, cache, sources, TrackerOK, TimeOK
<1>8. ASSUME NEW b \in Browsers, NEW ok \in BOOLEAN, OffersTime(b, ok) PROVE ClockTypeOK'
  <2>1. TimeOK' /\ shift' \in Int
    BY <1>8, <1>p, TakesOfferTypes DEF OffersTime
  <2>2. Sane' \in BOOLEAN
    BY DEF Sane
  <2>3. clock_failed' \in [Browsers -> BOOLEAN]
    BY <1>8, <1>p, <2>2 DEF OffersTime, LoopsOK
  <2>4. LoopsOK' /\ TrackerOK'
    BY <1>8, <1>p, <2>1, <2>3 DEF OffersTime, LoopsOK, TrackerOK
  <2> QED BY <2>1, <2>4
<1> QED BY <1>0, <1>1, <1>2, <1>3, <1>4, <1>5, <1>6, <1>7, <1>8 DEF ClockNext

\* What the console says of the clock: one set by GPS is behind by no more than the age at
\* which a message is stale, and never ahead; and its source is the tracker alone.
GpsClock == source = "gps" => synced /\ skew \in -Oldest..0

\* A browser never takes over a clock that GPS has set, only the tracker steps it, and a start
\* forgets where it came from: "already synced from GPS" (services/timesync.py:344).
GpsStands ==
    [][ source = "gps" =>
            /\ source' # "browser"
            /\ (source' = "gps" /\ skew' # skew) => (sync = "has_fix" /\ skew' = -age) ]_clockVars

LEMMA NewSource ==
    ClockTypeOK /\ [ClockNext]_clockVars =>
        \/ UNCHANGED << skew, sources >>
        \/ sync = "has_fix" /\ skew' = -age /\ synced' = TRUE /\ source' = "gps"
        \/ ~(source = "gps" /\ synced) /\ synced' = TRUE /\ source' = "browser"
        \/ /\ skew' = skew /\ synced' = TRUE
           /\ source' = source \/ (source = "none" /\ source' = "browser")
        \/ source' \in {"none", "floor"}
<1> SUFFICES ASSUME ClockTypeOK, ClockNext, ~UNCHANGED << skew, sources >>
             PROVE  \/ sync = "has_fix" /\ skew' = -age /\ synced' = TRUE /\ source' = "gps"
                    \/ ~(source = "gps" /\ synced) /\ synced' = TRUE /\ source' = "browser"
                    \/ /\ skew' = skew /\ synced' = TRUE
                       /\ source' = source \/ (source = "none" /\ source' = "browser")
                    \/ source' \in {"none", "floor"}
  BY DEF clockVars
<1>1. CASE Later \/ (\E f \in BOOLEAN : Hears(f)) \/ FindsFix \/ TimeLost
           \/ \E b \in Browsers : AsksTime(b) \/ OfferLost(b)
  BY <1>1 DEF Later, Hears, FindsFix, TimeLost, AsksTime, OfferLost, cache
<1>2. ASSUME NEW ok \in BOOLEAN, ReadsTime(ok)
      PROVE  sync = "has_fix" /\ skew' = -age /\ synced' = TRUE /\ source' = "gps"
  BY <1>2 DEF ReadsTime, Steps, RecordsGood
<1>3. ASSUME NEW ok \in BOOLEAN, NEW from \in Error, Starts(from, ok)
      PROVE  source' \in {"none", "floor"}
  BY <1>3 DEF Starts
<1>4. skew \in Error
  BY DEF ClockTypeOK
<1>5. ASSUME NEW b \in Browsers, NEW ok \in BOOLEAN, OffersTime(b, ok)
      PROVE  \/ ~(source = "gps" /\ synced) /\ synced' = TRUE /\ source' = "browser"
             \/ /\ skew' = skew /\ synced' = TRUE
                /\ source' = source \/ (source = "none" /\ source' = "browser")
  BY <1>5 DEF OffersTime, TakesOffer, Steps, RecordsGood
<1> QED BY <1>1, <1>2, <1>3, <1>4, <1>5 DEF ClockNext, RestartClock, PowerCut

\* The clock keeps what it says of itself, whatever browsers offer, in any order with the
\* tracker's messages, steps of the clock and starts.
THEOREM GpsClockKept == ClockInit /\ [][ClockNext]_clockVars => []GpsClock /\ GpsStands
<1>1. ClockInit => ClockTypeOK /\ GpsClock
  BY ClockInitTypes DEF ClockInit, GpsClock
<1>2. ClockTypeOK /\ GpsClock /\ [ClockNext]_clockVars => (ClockTypeOK /\ GpsClock)'
  <2> SUFFICES ASSUME ClockTypeOK, GpsClock, [ClockNext]_clockVars, source' = "gps"
               PROVE  synced' /\ skew' \in -Oldest..0
    BY ClockTypes DEF GpsClock
  <2>1. age \in 0..Oldest
    BY DEF ClockTypeOK
  <2>2. -age \in -Oldest..0
    BY <2>1
  <2> QED BY <2>2, NewSource DEF GpsClock, sources
<1>3. ClockTypeOK /\ GpsClock /\ [ClockNext]_clockVars
      => [source = "gps" =>
            /\ source' # "browser"
            /\ (source' = "gps" /\ skew' # skew) => (sync = "has_fix" /\ skew' = -age) ]_clockVars
  BY NewSource DEF GpsClock, sources
<1> QED BY <1>1, <1>2, <1>3, PTL DEF GpsStands

-----------------------------------------------------------------------------
(* DiveList.                                                               *)

LEMMA DiveListInitTypes == DiveListInit => DiveListTypeOK
<1> SUFFICES ASSUME DiveListInit PROVE DiveListTypeOK
  OBVIOUS
<1>1. 0 \in 0..MaxDived /\ NoDives \in Lists
  BY DiveListAssumption DEF NoDives, Lists
<1> QED BY <1>1 DEF DiveListInit, DiveListTypeOK

RecordsOK == /\ kept \in Lists /\ owner \in Lists /\ dived \in 0 .. MaxDived
             /\ again \in BOOLEAN /\ undone \in BOOLEAN
WorkOK == work \in {0} \cup Numbers /\ work_dive \in 0 .. MaxDived
ListOK == dives_open \in BOOLEAN /\ dives \in Lists /\ histories \subseteq Lists
ChoiceOK == /\ chosen \in {0} \cup Numbers /\ chosen_dive \in 0 .. MaxDived
            /\ removing \in BOOLEAN
RemovalsOK == removals \subseteq Removal

LEMMA DiveListParts ==
    /\ DiveListTypeOK => RecordsOK /\ WorkOK /\ ListOK /\ ChoiceOK /\ RemovalsOK
    /\ RecordsOK' /\ WorkOK' /\ ListOK' /\ ChoiceOK' /\ RemovalsOK' => DiveListTypeOK'
  BY DEF DiveListTypeOK, RecordsOK, WorkOK, ListOK, ChoiceOK, RemovalsOK

LEMMA DiveListKept ==
    /\ RecordsOK /\ WorkOK /\ UNCHANGED diskVars => RecordsOK' /\ WorkOK'
    /\ WorkOK /\ UNCHANGED jobVars => WorkOK'
    /\ ListOK /\ ChoiceOK /\ UNCHANGED pageVars => ListOK' /\ ChoiceOK'
    /\ ChoiceOK /\ UNCHANGED dialogVars => ChoiceOK'
    /\ RemovalsOK /\ UNCHANGED removals => RemovalsOK'
  BY DEF diskVars, pageVars, dialogVars, jobVars, RecordsOK, WorkOK, ListOK, ChoiceOK, RemovalsOK

LEMMA ListChange == ASSUME NEW l \in Lists, NEW n \in Numbers, NEW d \in 0 .. MaxDived
                    PROVE  [l EXCEPT ![n] = d] \in Lists
  BY DEF Lists

LEMMA UnlinkTypes == ASSUME RecordsOK, WorkOK, NEW n \in Numbers, Unlink(n)
                     PROVE  RecordsOK' /\ WorkOK'
<1>1. 0 \in 0 .. MaxDived
  BY DiveListAssumption
<1>2. kept' \in Lists
  BY <1>1, ListChange DEF Unlink, RecordsOK
<1> QED BY <1>2 DEF Unlink, RecordsOK, WorkOK, jobVars

LEMMA MovedTypes ==
    ASSUME RemovalsOK, NEW r \in removals, NEW to \in {"gone", "failed"}, Moved(r, to)
    PROVE  RemovalsOK'
  BY DEF Moved, RemovalsOK, Removal

LEMMA DiveListTypes == DiveListTypeOK /\ [DiveListNext]_diveListVars => DiveListTypeOK'
<1> SUFFICES ASSUME DiveListTypeOK, [DiveListNext]_diveListVars PROVE DiveListTypeOK'
  OBVIOUS
<1>p. RecordsOK /\ WorkOK /\ ListOK /\ ChoiceOK /\ RemovalsOK
  BY DiveListParts
<1>z. 0 \in 0 .. MaxDived /\ NoDives \in Lists
  BY DiveListAssumption DEF NoDives, Lists
<1> USE DiveListParts, DiveListKept
<1>0. CASE UNCHANGED diveListVars
  BY <1>0, <1>p DEF diveListVars
<1>1. ASSUME NEW n \in Numbers, RecordDive(n) PROVE DiveListTypeOK'
  <2>1. dived + 1 \in 0 .. MaxDived
    BY <1>1, <1>p, DiveListAssumption DEF RecordDive, RecordsOK
  <2>2. kept' \in Lists /\ owner' \in Lists
    BY <1>1, <1>p, <2>1, ListChange DEF RecordDive, RecordsOK
  <2>3. RecordsOK'
    BY <1>1, <1>p, <2>1, <2>2 DEF RecordDive, RecordsOK
  <2> QED BY <1>1, <1>p, <2>3 DEF RecordDive
<1>2. ASSUME NEW n \in Numbers, BeginJob(n) PROVE DiveListTypeOK'
  <2>1. kept[n] \in 0 .. MaxDived
    BY <1>p DEF RecordsOK, Lists
  <2>2. RecordsOK' /\ WorkOK'
    BY <1>2, <1>p, <2>1 DEF BeginJob, RecordsOK, WorkOK
  <2> QED BY <1>2, <1>p, <2>2 DEF BeginJob
<1>3. ASSUME NEW n \in Numbers, RemovedElsewhere(n) PROVE DiveListTypeOK'
  BY <1>3, <1>p, UnlinkTypes DEF RemovedElsewhere
<1>4. ASSUME NEW n \in Numbers, ChooseDive(n) PROVE DiveListTypeOK'
  <2>1. dives[n] \in 0 .. MaxDived
    BY <1>p DEF ListOK, Lists
  <2>2. ListOK' /\ ChoiceOK'
    BY <1>4, <1>p, <2>1 DEF ChooseDive, ListOK, ChoiceOK
  <2> QED BY <1>4, <1>p, <2>2 DEF ChooseDive
<1>5. CASE JobReloads
  <2>1. kept[work] \in 0 .. MaxDived
    BY <1>5, <1>p DEF JobReloads, Shown, RecordsOK, Lists
  <2>2. RecordsOK' /\ WorkOK'
    BY <1>5, <1>p, <2>1 DEF JobReloads, RecordsOK, WorkOK
  <2> QED BY <1>5, <1>p, <2>2 DEF JobReloads
<1>6. CASE JobDone
  <2>1. kept' \in Lists
    BY <1>6, <1>p, ListChange DEF JobDone, RecordsOK, WorkOK
  <2>2. RecordsOK' /\ WorkOK'
    BY <1>6, <1>p, <1>z, <2>1 DEF JobDone, RecordsOK, WorkOK
  <2> QED BY <1>6, <1>p, <2>2 DEF JobDone
<1>7. CASE OpenDives
  <2>1. ListOK'
    BY <1>7, <1>p, <1>z DEF OpenDives, ListOK, RecordsOK
  <2>2. ChoiceOK'
    BY <1>7, <1>z DEF OpenDives, ChoiceOK
  <2> QED BY <1>7, <1>p, <2>1, <2>2 DEF OpenDives
<1>8. CASE LeaveDives
  <2>1. ListOK'
    BY <1>8, <1>p DEF LeaveDives, ListOK
  <2>2. RemovalsOK'
    BY <1>8, <1>p DEF LeaveDives, RemovalsOK, Removal
  <2> QED BY <1>8, <1>p, <2>1, <2>2 DEF LeaveDives
<1>9. CASE PollDives
  <2>1. ListOK'
    BY <1>9, <1>p DEF PollDives, ListOK, RecordsOK
  <2> QED BY <1>9, <1>p, <2>1 DEF PollDives
<1>10. ASSUME NEW l \in histories, HistoryRead(l) \/ HistoryLost(l) PROVE DiveListTypeOK'
  <2>1. ListOK'
    BY <1>10, <1>p DEF HistoryRead, HistoryLost, ListOK
  <2> QED BY <1>10, <1>p, <2>1 DEF HistoryRead, HistoryLost
<1>11. CASE CancelRemoval
  <2>1. ListOK' /\ ChoiceOK'
    BY <1>11, <1>p, <1>z DEF CancelRemoval, ListOK, ChoiceOK
  <2> QED BY <1>11, <1>p, <2>1 DEF CancelRemoval
<1>12. CASE ConfirmRemoval
  <2>1. ListOK' /\ ChoiceOK'
    BY <1>12, <1>p DEF ConfirmRemoval, ListOK, ChoiceOK
  <2>2. chosen \in Numbers /\ chosen_dive \in 0 .. MaxDived
    BY <1>12, <1>p DEF ConfirmRemoval, ChoiceOK
  <2>3. [number |-> chosen, of |-> chosen_dive, here |-> TRUE, stage |-> "sent"] \in Removal
    BY <2>2 DEF Removal
  <2>4. RemovalsOK'
    BY <1>12, <1>p, <2>3 DEF ConfirmRemoval, RemovalsOK
  <2> QED BY <1>12, <1>p, <2>1, <2>4 DEF ConfirmRemoval
<1>13. ASSUME NEW r \in removals, RemovalFails(r) PROVE DiveListTypeOK'
  <2>1. RemovalsOK'
    BY <1>13, <1>p, MovedTypes DEF RemovalFails
  <2> QED BY <1>13, <1>p, <2>1 DEF RemovalFails
<1>14. ASSUME NEW r \in removals, RemovalReaches(r) PROVE DiveListTypeOK'
  <2>1. RemovalsOK' /\ r.number \in Numbers
    BY <1>14, <1>p, MovedTypes DEF RemovalReaches, RemovalsOK, Removal
  <2>2. RecordsOK' /\ WorkOK'
    BY <1>14, <1>p, <2>1, UnlinkTypes DEF RemovalReaches
  <2> QED BY <1>14, <1>p, <2>1, <2>2 DEF RemovalReaches
<1>15. ASSUME NEW r \in removals, RemovalAnswered(r) PROVE DiveListTypeOK'
  <2>1. r.number \in Numbers /\ RemovalsOK'
    BY <1>15, <1>p DEF RemovalAnswered, RemovalsOK, Removal
  <2>2. CASE r.here /\ r.stage = "gone"
    <3>1. dives' \in Lists
      BY <1>15, <1>p, <1>z, <2>1, <2>2, ListChange DEF RemovalAnswered, ListOK
    <3>2. ListOK' /\ ChoiceOK'
      BY <1>15, <1>p, <1>z, <2>2, <3>1 DEF RemovalAnswered, ListOK, ChoiceOK
    <3> QED BY <1>15, <1>p, <2>1, <3>2 DEF RemovalAnswered
  <2>3. CASE ~(r.here /\ r.stage = "gone")
    <3>1. ListOK' /\ ChoiceOK'
      BY <1>15, <1>p, <2>3 DEF RemovalAnswered, ListOK, ChoiceOK, dialogVars
    <3> QED BY <1>15, <1>p, <2>1, <3>1 DEF RemovalAnswered
  <2> QED BY <2>2, <2>3
<1> QED BY <1>0, <1>1, <1>2, <1>3, <1>4, <1>5, <1>6, <1>7, <1>8, <1>9, <1>10, <1>11, <1>12,
           <1>13, <1>14, <1>15 DEF DiveListNext

(***************************************************************************)
(* As long as no number is given twice, whatever remembers a number        *)
(* remembers the dive it was given to; and as long as nothing is deleted   *)
(* under the job, its file still holds what it copied.                     *)
(***************************************************************************)
OwnersOf(list) == \A n \in Numbers : list[n] \in {0, owner[n]}
Owned == OwnersOf(kept) /\ OwnersOf(dives) /\ \A l \in histories : OwnersOf(l)
Meant == chosen # 0 => chosen_dive # 0 /\ chosen_dive = owner[chosen]
Asked == \A r \in removals : r.of # 0 /\ r.of = owner[r.number]
Worked == work # 0 => /\ work_dive # 0 /\ work_dive = owner[work]
                      /\ undone \/ kept[work] = work_dive

DiveListInv == again \/ (Owned /\ Meant /\ Asked /\ Worked)

\* What a step that gives no number twice must leave true.
LEMMA RecordDiveInv ==
    ASSUME DiveListTypeOK, DiveListInv, NEW n \in Numbers, RecordDive(n)
    PROVE  DiveListInv'
<1> SUFFICES ASSUME ~again' PROVE (Owned /\ Meant /\ Asked /\ Worked)'
  BY DEF DiveListInv
<1>1. ~again /\ owner[n] = 0 /\ Owned /\ Meant /\ Asked /\ Worked
  BY DEF DiveListInv, RecordDive
<1>2. /\ kept' = [kept EXCEPT ![n] = dived + 1] /\ owner' = [owner EXCEPT ![n] = dived + 1]
      /\ kept \in Lists /\ owner \in Lists
  BY DEF RecordDive, DiveListTypeOK
<1>3. kept'[n] = owner'[n] /\ \A m \in Numbers \ {n} : kept'[m] = kept[m] /\ owner'[m] = owner[m]
  BY <1>2 DEF Lists
<1>4. UNCHANGED << dives, histories, chosen, chosen_dive, removals, work, work_dive, undone >>
  BY DEF RecordDive, jobVars, pageVars, dialogVars
<1>5. OwnersOf(kept)'
  BY <1>1, <1>3 DEF Owned, OwnersOf
<1>6. ASSUME NEW l, OwnersOf(l) PROVE \A m \in Numbers : l[m] \in {0, owner'[m]}
  BY <1>1, <1>3, <1>6 DEF OwnersOf
<1>7. Owned'
  BY <1>1, <1>4, <1>5, <1>6 DEF Owned, OwnersOf
<1>8. Meant'
  <2>1. chosen # n \/ chosen = 0
    BY <1>1 DEF Meant
  <2>2. chosen # 0 => chosen \in Numbers
    BY DEF DiveListTypeOK
  <2> QED BY <1>1, <1>3, <1>4, <2>1, <2>2 DEF Meant
<1>9. Asked'
  <2>1. \A r \in removals : r.number \in Numbers \ {n}
    BY <1>1 DEF Asked, DiveListTypeOK, Removal
  <2> QED BY <1>1, <1>3, <1>4, <2>1 DEF Asked
<1>10. Worked'
  <2>1. work # 0 => work \in Numbers \ {n}
    BY <1>1 DEF Worked, DiveListTypeOK
  <2> QED BY <1>1, <1>3, <1>4, <2>1 DEF Worked
<1> QED BY <1>7, <1>8, <1>9, <1>10

LEMMA UnlinkInv ==
    ASSUME DiveListTypeOK, NEW n \in Numbers, Unlink(n)
    PROVE  (OwnersOf(kept) => OwnersOf(kept)') /\ (Worked => Worked')
<1>1. kept' = [kept EXCEPT ![n] = 0] /\ kept \in Lists
  BY DEF Unlink, DiveListTypeOK
<1>2. kept'[n] = 0 /\ \A m \in Numbers \ {n} : kept'[m] = kept[m]
  BY <1>1 DEF Lists
<1>3. owner' = owner /\ work' = work /\ work_dive' = work_dive /\ undone' = (undone \/ work = n)
  BY DEF Unlink, jobVars
<1>4. OwnersOf(kept) => OwnersOf(kept)'
  BY <1>2, <1>3 DEF OwnersOf
<1>5. work # 0 => work \in Numbers
  BY DEF DiveListTypeOK
<1>6. Worked => Worked'
  BY <1>2, <1>3, <1>5 DEF Worked
<1> QED BY <1>4, <1>6

LEMMA OwnersKept ==
    /\ Owned /\ UNCHANGED << kept, owner, dives, histories >> => Owned'
    /\ Meant /\ UNCHANGED << chosen, chosen_dive, owner >> => Meant'
    /\ Asked /\ UNCHANGED << removals, owner >> => Asked'
    /\ Worked /\ UNCHANGED << work, work_dive, kept, undone, owner >> => Worked'
    /\ \A l : OwnersOf(l) /\ UNCHANGED owner => \A n \in Numbers : l[n] \in {0, owner'[n]}
  BY DEF Owned, Meant, Asked, Worked, OwnersOf

LEMMA DiveListStep == DiveListTypeOK /\ DiveListInv /\ [DiveListNext]_diveListVars => DiveListInv'
<1> SUFFICES ASSUME DiveListTypeOK, DiveListInv, [DiveListNext]_diveListVars PROVE DiveListInv'
  OBVIOUS
<1>1. ASSUME NEW n \in Numbers, RecordDive(n) PROVE DiveListInv'
  BY <1>1, RecordDiveInv
<1>2. CASE ~\E n \in Numbers : RecordDive(n)
  <2>1. CASE again
    <3>1. again'
      BY <1>2, <2>1 DEF DiveListNext, diveListVars, diskVars, jobVars, BeginJob, RemovedElsewhere,
         ChooseDive, JobReloads, JobDone, OpenDives, LeaveDives, PollDives, HistoryRead,
         HistoryLost, CancelRemoval, ConfirmRemoval, RemovalFails, RemovalReaches,
         RemovalAnswered, Unlink
    <3> QED BY <3>1 DEF DiveListInv
  <2>2. CASE ~again
    <3>p. Owned /\ Meant /\ Asked /\ Worked
      BY <2>2 DEF DiveListInv
    <3> SUFFICES (Owned /\ Meant /\ Asked /\ Worked)'
      BY DEF DiveListInv
    <3> USE OwnersKept DEF diskVars, jobVars, pageVars, dialogVars
    <3>0. CASE UNCHANGED diveListVars
      BY <3>0, <3>p DEF diveListVars
    <3>1. ASSUME NEW n \in Numbers, BeginJob(n) PROVE (Owned /\ Meant /\ Asked /\ Worked)'
      <4>1. kept[n] # 0 /\ kept[n] = owner[n]
        BY <3>1, <3>p DEF BeginJob, Shown, Owned, OwnersOf
      <4>2. Worked'
        BY <3>1, <4>1 DEF BeginJob, Worked
      <4> QED BY <3>1, <3>p, <4>2 DEF BeginJob
    <3>2. ASSUME NEW n \in Numbers, RemovedElsewhere(n)
          PROVE  (Owned /\ Meant /\ Asked /\ Worked)'
      <4>1. OwnersOf(kept)' /\ Worked'
        BY <3>2, <3>p, UnlinkInv DEF RemovedElsewhere, Owned
      <4>2. Owned'
        BY <3>2, <3>p, <4>1 DEF RemovedElsewhere, Unlink, Owned, OwnersOf
      <4> QED BY <3>2, <3>p, <4>1, <4>2 DEF RemovedElsewhere, Unlink
    <3>3. ASSUME NEW n \in Numbers, ChooseDive(n) PROVE (Owned /\ Meant /\ Asked /\ Worked)'
      <4>1. dives[n] # 0 /\ dives[n] = owner[n]
        BY <3>3, <3>p DEF ChooseDive, Shown, Owned, OwnersOf
      <4>2. Meant'
        BY <3>3, <4>1 DEF ChooseDive, Meant
      <4> QED BY <3>3, <3>p, <4>2 DEF ChooseDive
    <3>4. CASE JobReloads
      <4>1. work \in Numbers /\ kept[work] # 0 /\ kept[work] = owner[work]
        BY <3>4, <3>p DEF JobReloads, Shown, Owned, OwnersOf
      <4>2. Worked'
        BY <3>4, <4>1 DEF JobReloads, Worked
      <4> QED BY <3>4, <3>p, <4>2 DEF JobReloads
    <3>5. CASE JobDone
      <4>1. work \in Numbers /\ work_dive = owner[work] /\ kept \in Lists
        BY <3>5, <3>p DEF JobDone, Worked, DiveListTypeOK
      <4>2. \A m \in Numbers : kept'[m] \in {kept[m], owner[m]}
        BY <3>5, <4>1 DEF JobDone, Lists
      <4>3. Owned'
        BY <3>5, <3>p, <4>2 DEF JobDone, Owned, OwnersOf
      <4>4. Worked'
        BY <3>5 DEF JobDone, Worked
      <4> QED BY <3>5, <3>p, <4>3, <4>4 DEF JobDone
    <3>6. CASE OpenDives
      <4>1. OwnersOf(dives)'
        BY <3>6 DEF OpenDives, OwnersOf, NoDives
      <4>2. Owned' /\ Meant'
        BY <3>6, <3>p, <4>1 DEF OpenDives, Owned, Meant, OwnersOf
      <4> QED BY <3>6, <3>p, <4>2 DEF OpenDives
    <3>7. CASE LeaveDives
      <4>1. Owned'
        BY <3>7, <3>p DEF LeaveDives, Owned, OwnersOf
      <4>2. \A r \in removals : [r EXCEPT !.here = FALSE].of = r.of
                               /\ [r EXCEPT !.here = FALSE].number = r.number
        BY DEF DiveListTypeOK, Removal
      <4>3. removals' = {[r EXCEPT !.here = FALSE] : r \in removals} /\ owner' = owner
        BY <3>7 DEF LeaveDives
      <4>4. ASSUME NEW s \in removals' PROVE s.of # 0 /\ s.of = owner'[s.number]
        <5>1. PICK r \in removals : s = [r EXCEPT !.here = FALSE]
          BY <4>3, <4>4
        <5> QED BY <3>p, <4>2, <4>3, <5>1 DEF Asked
      <4>5. Asked'
        BY <4>4 DEF Asked
      <4> QED BY <3>7, <3>p, <4>1, <4>5 DEF LeaveDives
    <3>8. CASE PollDives
      <4>1. Owned'
        BY <3>8, <3>p DEF PollDives, Owned, OwnersOf
      <4> QED BY <3>8, <3>p, <4>1 DEF PollDives
    <3>9. ASSUME NEW l \in histories, HistoryRead(l) \/ HistoryLost(l)
          PROVE  (Owned /\ Meant /\ Asked /\ Worked)'
      <4>1. Owned'
        BY <3>9, <3>p DEF HistoryRead, HistoryLost, Owned, OwnersOf
      <4> QED BY <3>9, <3>p, <4>1 DEF HistoryRead, HistoryLost
    <3>10. CASE CancelRemoval
      <4>1. Meant'
        BY <3>10 DEF CancelRemoval, Meant
      <4> QED BY <3>10, <3>p, <4>1 DEF CancelRemoval
    <3>11. CASE ConfirmRemoval
      <4>1. chosen_dive # 0 /\ chosen_dive = owner[chosen]
        BY <3>11, <3>p DEF ConfirmRemoval, Meant
      <4>2. Asked'
        BY <3>11, <3>p, <4>1 DEF ConfirmRemoval, Asked
      <4> QED BY <3>11, <3>p, <4>2 DEF ConfirmRemoval
    <3>12. ASSUME NEW r \in removals, NEW to \in {"gone", "failed"}, Moved(r, to), UNCHANGED owner
           PROVE  Asked'
      <4>1. [r EXCEPT !.stage = to].of = r.of /\ [r EXCEPT !.stage = to].number = r.number
        BY DEF DiveListTypeOK, Removal
      <4> QED BY <3>12, <3>p, <4>1 DEF Moved, Asked
    <3>13. ASSUME NEW r \in removals, RemovalFails(r) PROVE (Owned /\ Meant /\ Asked /\ Worked)'
      <4>1. Asked'
        BY <3>12, <3>13 DEF RemovalFails
      <4> QED BY <3>13, <3>p, <4>1 DEF RemovalFails
    <3>14. ASSUME NEW r \in removals, RemovalReaches(r)
           PROVE  (Owned /\ Meant /\ Asked /\ Worked)'
      <4>1. Asked'
        BY <3>12, <3>14 DEF RemovalReaches, Unlink
      <4>2. r.number \in Numbers
        BY <3>14 DEF RemovalReaches, Shown
      <4>3. OwnersOf(kept)' /\ Worked'
        BY <3>14, <3>p, <4>2, UnlinkInv DEF RemovalReaches, Owned
      <4>4. Owned'
        BY <3>14, <3>p, <4>3 DEF RemovalReaches, Unlink, Owned, OwnersOf
      <4> QED BY <3>14, <3>p, <4>1, <4>3, <4>4 DEF RemovalReaches, Unlink
    <3>15. ASSUME NEW r \in removals, RemovalAnswered(r)
           PROVE  (Owned /\ Meant /\ Asked /\ Worked)'
      <4>1. Asked'
        BY <3>15, <3>p DEF RemovalAnswered, Asked
      <4>2. dives' = dives \/ dives' = [dives EXCEPT ![r.number] = 0]
        BY <3>15 DEF RemovalAnswered
      <4>3. dives \in Lists /\ r.number \in Numbers
        BY DEF DiveListTypeOK, Removal
      <4>4. \A m \in Numbers : dives'[m] \in {0, dives[m]}
        BY <4>2, <4>3 DEF Lists
      <4>5. Owned'
        BY <3>15, <3>p, <4>4 DEF RemovalAnswered, Owned, OwnersOf
      <4>6. Meant'
        BY <3>15, <3>p DEF RemovalAnswered, Meant
      <4> QED BY <3>15, <3>p, <4>1, <4>5, <4>6 DEF RemovalAnswered
    <3> QED BY <1>2, <3>0, <3>1, <3>2, <3>3, <3>4, <3>5, <3>6, <3>7, <3>8, <3>9, <3>10, <3>11,
               <3>13, <3>14, <3>15 DEF DiveListNext
  <2> QED BY <2>1, <2>2
<1> QED BY <1>1, <1>2

\* What one step does to a record.
LEMMA RecordStep ==
    ASSUME DiveListTypeOK, DiveListInv, DiveListNext, NEW m \in Numbers, kept'[m] # kept[m],
           ~again, ~undone
    PROVE  \/ kept[m] = 0 /\ kept'[m] = dived' /\ dived' # dived
           \/ /\ kept'[m] = 0
              /\ RemovedElsewhere(m) \/ \E r \in removals : r.number = m /\ r.of = kept[m]
<1>p. Owned /\ Asked /\ Worked /\ kept \in Lists
  BY DEF DiveListInv, DiveListTypeOK
<1>1. ASSUME NEW n \in Numbers, RecordDive(n)
      PROVE  kept[m] = 0 /\ kept'[m] = dived' /\ dived' # dived
  <2>1. m = n /\ kept'[n] = dived + 1 /\ dived' = dived + 1 /\ dived \in Nat
    BY <1>1, <1>p DEF RecordDive, Lists, DiveListTypeOK
  <2>2. n \notin Shown(kept)
    BY <1>1 DEF RecordDive, IsNext, Numbers
  <2> QED BY <2>1, <2>2 DEF Shown
<1>2. ASSUME NEW n \in Numbers, Unlink(n) PROVE m = n /\ kept'[m] = 0
  BY <1>2, <1>p DEF Unlink, Lists
<1>3. ASSUME NEW r \in removals, RemovalReaches(r)
      PROVE  kept'[m] = 0 /\ r.number = m /\ r.of = kept[m]
  <2>1. r.number \in Numbers /\ Unlink(r.number) /\ kept[r.number] # 0
    BY <1>3 DEF RemovalReaches, Shown
  <2>2. kept[r.number] = r.of
    BY <1>p, <2>1 DEF Owned, OwnersOf, Asked
  <2> QED BY <1>2, <2>1, <2>2
<1>4. ~JobDone
  BY <1>p DEF JobDone, Worked, Lists, DiveListTypeOK
<1>5. CASE \E n \in Numbers : RemovedElsewhere(n)
  BY <1>2, <1>5 DEF RemovedElsewhere
<1>6. CASE \/ \E n \in Numbers : BeginJob(n) \/ ChooseDive(n)
           \/ JobReloads \/ OpenDives \/ LeaveDives \/ PollDives
           \/ \E l \in histories : HistoryRead(l) \/ HistoryLost(l)
           \/ CancelRemoval \/ ConfirmRemoval
           \/ \E r \in removals : RemovalFails(r) \/ RemovalAnswered(r)
  BY <1>6 DEF BeginJob, ChooseDive, JobReloads, OpenDives, LeaveDives, PollDives, HistoryRead,
     HistoryLost, CancelRemoval, ConfirmRemoval, RemovalFails, RemovalAnswered, diskVars
<1> QED BY <1>1, <1>3, <1>4, <1>5, <1>6 DEF DiveListNext

\* The record of a dive goes only when that dive was chosen and its deletion confirmed, and stays
\* gone, for any numbers of dives, lists and deletions: unless a number was given twice, or a
\* record was deleted under a job.
THEOREM DiveRecordsKept == DiveListSpec => RecordsKept
<1>1. DiveListInit => DiveListTypeOK /\ DiveListInv
  <2>1. DiveListInit => Owned /\ Meant /\ Asked /\ Worked
    BY DEF DiveListInit, Owned, OwnersOf, NoDives, Meant, Asked, Worked
  <2> QED BY <2>1, DiveListInitTypes DEF DiveListInv
<1>2. DiveListTypeOK /\ DiveListInv /\ [DiveListNext]_diveListVars
      => (DiveListTypeOK /\ DiveListInv)'
  BY DiveListTypes, DiveListStep
<1>3. DiveListTypeOK /\ DiveListInv /\ [DiveListNext]_diveListVars
      => [ \A n \in Numbers :
             \/ kept'[n] = kept[n]
             \/ kept[n] = 0 /\ kept'[n] = dived' /\ dived' # dived
             \/ /\ kept'[n] = 0
                /\ RemovedElsewhere(n) \/ \E r \in removals : r.number = n /\ r.of = kept[n]
             \/ again \/ undone ]_diveListVars
  BY RecordStep
<1> QED BY <1>1, <1>2, <1>3, PTL DEF DiveListSpec, RecordsKept

-----------------------------------------------------------------------------
(* The footage of a processed dive.                                        *)

LEMMA VideosInitTypes == VideosInit => VideosTypeOK
<1> SUFFICES ASSUME VideosInit PROVE VideosTypeOK
  OBVIOUS
<1>1. Blank \in [Segments -> SUBSET Segments]
  BY DEF Blank
<1>2. disk_of \in [Segments -> Disks]
  BY VideosAssumption DEF VideosInit
<1>3. 0 \in 0 .. MaxJobs /\ 0 \in 0 .. MaxPulls
  BY VideosAssumption
<1> QED BY <1>1, <1>2, <1>3 DEF VideosInit, VideosTypeOK, Roots, JobSteps

FootageOK ==
    /\ disk_of \in [Segments -> Disks] /\ raw \subseteq Segments /\ made \subseteq Segments
    /\ shows \in [Segments -> SUBSET Segments] /\ noted \subseteq Disks
BundleOK ==
    /\ bundled \in [{"stick", "bare"} -> SUBSET Segments]
    /\ copies \in [{"stick", "bare"} -> [Segments -> SUBSET Segments]]
ContextOK ==
    /\ dive_dir \in Roots \cup {"none"} /\ usb \in BOOLEAN
    /\ base \in Roots /\ unmuxed \subseteq Segments
    /\ video_outputs \subseteq Segments /\ pending_deletions \subseteq Segments
    /\ found \subseteq Segments /\ copied \subseteq Segments
MarksOK ==
    /\ stick \in {"in", "lost", "out"} /\ doing \in JobSteps /\ safe \in BOOLEAN
    /\ stuck \in BOOLEAN /\ moved \in BOOLEAN /\ jobs \in 0 .. MaxJobs /\ pulls \in 0 .. MaxPulls

LEMMA VideosParts ==
    /\ VideosTypeOK => FootageOK /\ BundleOK /\ ContextOK /\ MarksOK
    /\ FootageOK' /\ BundleOK' /\ ContextOK' /\ MarksOK' => VideosTypeOK'
  BY DEF VideosTypeOK, FootageOK, BundleOK, ContextOK, MarksOK

LEMMA VideosKept ==
    /\ FootageOK /\ UNCHANGED footage => FootageOK'
    /\ BundleOK /\ UNCHANGED bundle => BundleOK'
    /\ ContextOK /\ UNCHANGED context => ContextOK'
    /\ Forgotten => ContextOK' /\ doing' \in JobSteps /\ moved' \in BOOLEAN
  BY DEF FootageOK, BundleOK, ContextOK, footage, bundle, context, finalizing, Forgotten,
     FinalizeForgotten, Roots, JobSteps

LEMMA VideoWriteTypes ==
    ASSUME FootageOK, NEW n \in Segments, NEW what \in SUBSET Segments, WriteVideo(n, what)
    PROVE  made' \subseteq Segments /\ shows' \in [Segments -> SUBSET Segments]
  BY DEF FootageOK, WriteVideo

LEMMA VideosTypes == VideosTypeOK /\ [VideosNext]_videoVars => VideosTypeOK'
<1> SUFFICES ASSUME VideosTypeOK, [VideosNext]_videoVars PROVE VideosTypeOK'
  OBVIOUS
<1>p. FootageOK /\ BundleOK /\ ContextOK /\ MarksOK
  BY VideosParts
<1> USE VideosParts, VideosKept
<1>0. CASE UNCHANGED videoVars
  <2>1. UNCHANGED << footage, bundle, context >> /\ UNCHANGED << stick, doing, safe, jobs >>
        /\ UNCHANGED << stuck, moved, pulls >>
    BY <1>0 DEF videoVars, videoFaults
  <2>2. MarksOK'
    BY <2>1, <1>p DEF MarksOK
  <2> QED BY <2>1, <2>2, <1>p
<1>1. CASE StickPulled \/ StickUnmounts \/ StickMounts
  <2>1. StickPulled => pulls + 1 \in 0 .. MaxPulls
    BY <1>p, VideosAssumption DEF StickPulled, MarksOK
  <2>2. Checked \in BOOLEAN
    BY DEF Checked
  <2>3. MarksOK'
    BY <1>1, <1>p, <2>1, <2>2
       DEF StickPulled, StickUnmounts, StickMounts, MarksOK, videoFaults
  <2> QED BY <1>1, <1>p, <2>3 DEF StickPulled, StickUnmounts, StickMounts
<1>2. CASE StartJob
  <2>1. jobs + 1 \in 0 .. MaxJobs
    BY <1>2, <1>p, VideosAssumption DEF StartJob, MarksOK
  <2>2. MarksOK'
    BY <1>2, <1>p, <2>1 DEF StartJob, MarksOK, JobSteps, videoFaults
  <2> QED BY <1>2, <1>p, <2>2 DEF StartJob
<1>3. CASE JobBreaks \/ Flush \/ EndWithoutUsb
  <2>1. MarksOK'
    BY <1>3, <1>p DEF JobBreaks, Flush, EndWithoutUsb, MarksOK
  <2> QED BY <1>3, <1>p, <2>1 DEF JobBreaks, Flush, EndWithoutUsb
<1>4. ASSUME NEW room \in BOOLEAN, StepPreflight(room) PROVE VideosTypeOK'
  <2>1. ContextOK' /\ MarksOK'
    BY <1>4, <1>p
       DEF StepPreflight, Resolved, ContextOK, MarksOK, finalizing, videoFaults, Roots, JobSteps
  <2> QED BY <1>4, <1>p, <2>1 DEF StepPreflight
<1>5. ASSUME NEW room \in BOOLEAN, ListSegments(room) PROVE VideosTypeOK'
  <2>1. base' \in Roots /\ unmuxed' \subseteq Segments
    BY <1>5, <1>p DEF ListSegments, On, FootageOK, Roots
  <2>2. ContextOK' /\ MarksOK'
    BY <1>5, <1>p, <2>1 DEF ListSegments, ContextOK, MarksOK, videoFaults, JobSteps
  <2> QED BY <1>5, <1>p, <2>2 DEF ListSegments
<1>6. ASSUME NEW g \in Groups, NEW n \in Segments, Muxed(g, n) \/ MuxFails(g, n)
      PROVE VideosTypeOK'
  <2>1. g \cap unmuxed \in SUBSET Segments /\ {} \in SUBSET Segments
    BY <1>p DEF ContextOK
  <2>2. FootageOK'
    BY <1>6, <1>p, <2>1, VideoWriteTypes DEF Muxed, MuxFails, FootageOK
  <2>3. ContextOK'
    BY <1>6, <1>p DEF Muxed, MuxFails, AllPending, ContextOK
  <2>4. MarksOK'
    BY <1>6, <1>p DEF Muxed, MuxFails, MarksOK, videoFaults
  <2> QED BY <1>6, <1>p, <2>2, <2>3, <2>4 DEF Muxed, MuxFails
<1>7. CASE Finalized
  <2>1. FootageOK' /\ MarksOK'
    BY <1>7, <1>p DEF Finalized, FootageOK, MarksOK, videoFaults, JobSteps
  <2> QED BY <1>7, <1>p, <2>1 DEF Finalized
<1>8. ASSUME NEW gone \in SUBSET pending_deletions, ReleaseSegments(gone) PROVE VideosTypeOK'
  <2>1. FootageOK' /\ ContextOK'
    BY <1>8, <1>p DEF ReleaseSegments, FinalizeForgotten, FootageOK, ContextOK, Roots
  <2>2. MarksOK'
    BY <1>8, <1>p DEF ReleaseSegments, InOrder, MarksOK, JobSteps
  <2> QED BY <1>8, <1>p, <2>1, <2>2 DEF ReleaseSegments
<1>9. CASE ListMedia
  <2>1. ContextOK' /\ MarksOK'
    BY <1>9, <1>p
       DEF ListMedia, On, FootageOK, ContextOK, MarksOK, finalizing, videoFaults, JobSteps
  <2> QED BY <1>9, <1>p, <2>1 DEF ListMedia
<1>10. ASSUME NEW n \in found, CopyVideo(n) PROVE VideosTypeOK'
  <2>1. Mounted \in {"stick", "bare"} /\ n \in Segments /\ shows[n] \subseteq Segments
    BY <1>10, <1>p DEF CopyVideo, Mounted, ContextOK, FootageOK
  <2>2. BundleOK'
    BY <1>10, <1>p, <2>1 DEF CopyVideo, BundleOK
  <2>3. ContextOK' /\ MarksOK'
    BY <1>10, <1>p, <2>1 DEF CopyVideo, ContextOK, MarksOK, finalizing, videoFaults
  <2> QED BY <1>10, <1>p, <2>2, <2>3 DEF CopyVideo
<1>11. CASE CheckCopies \/ KeepFolder
  <2>1. MarksOK'
    BY <1>11, <1>p DEF CheckCopies, KeepFolder, MarksOK, videoFaults, JobSteps
  <2> QED BY <1>11, <1>p, <2>1 DEF CheckCopies, KeepFolder
<1>12. ASSUME NEW gone \in SUBSET On("mount", raw \cup made), ClearFolder(gone)
       PROVE VideosTypeOK'
  <2>1. shows' \in [Segments -> SUBSET Segments]
    BY <1>12, <1>p DEF ClearFolder, FootageOK
  <2>2. FootageOK' /\ MarksOK'
    BY <1>12, <1>p, <2>1 DEF ClearFolder, FootageOK, MarksOK, videoFaults, JobSteps
  <2> QED BY <1>12, <1>p, <2>2 DEF ClearFolder
<1> QED
  BY <1>0, <1>1, <1>2, <1>3, <1>4, <1>5, <1>6, <1>7, <1>8, <1>9, <1>10, <1>11, <1>12
     DEF VideosNext

\* Segments that make a video together.
Mates(s, t) == disk_of[s] = disk_of[t] /\ \E g \in Groups : s \in g /\ t \in g

\* What shows what: a video begins with the segment it is named after, shows mates of it only,
\* and as long as that segment is left, so are the others.
BeginsIn(clip) ==
    \A n \in Segments : \A s \in clip[n] :
        n <= s /\ Mates(n, s) /\ (n \in raw => s \in raw)
Beginnings == BeginsIn(shows) /\ BeginsIn(copies["stick"]) /\ BeginsIn(copies["bare"])

\* A video whose segments are gone, or may go, shows all that its copies do.
Covers(clip) ==
    \A n \in made : n \notin raw \/ n \in pending_deletions => clip[n] \subseteq shows[n]
Covering == Covers(copies["stick"]) /\ Covers(copies["bare"])

\* Of the mates that are left, only the first ever gives a video its name.
FirstsOnly == \A s \in made \cap raw, t \in raw : Mates(s, t) => s <= t

\* What is listed, and what may be deleted, has all its mates that are left with it.
ListedWhole ==
    /\ unmuxed \subseteq raw
    /\ \A s \in unmuxed, t \in raw : Mates(s, t) => t \in unmuxed
    /\ \A s \in unmuxed, t \in unmuxed : disk_of[s] = disk_of[t]
PendingWhole ==
    /\ pending_deletions \subseteq raw /\ pending_deletions \cap unmuxed = {}
    /\ \A s \in pending_deletions, t \in raw : Mates(s, t) => t \in pending_deletions
    /\ \A s \in pending_deletions : \E n \in Segments \ unmuxed : s \in shows[n]

\* What a job knows, it knows at its own steps only.
OwnStep ==
    /\ doing \notin {"mux", "verify"} => unmuxed = {} /\ pending_deletions = {}
    /\ doing \notin {"copy", "clear", "flush"} => copied = {}
    /\ doing = "copy" => found \subseteq made /\ copied \subseteq found

NoFileShowsNothing == \A n \in Segments : n \notin made => shows[n] = {}

FootageInv ==
    stuck \/ /\ Beginnings /\ Covering /\ FirstsOnly /\ ListedWhole /\ PendingWhole
             /\ NoFileShowsNothing /\ FootageKept

\* Once the copies are checked and as long as the stick stays where it was.
CheckedInv ==
    Checked /\ ~moved =>
        \A n \in found :
            Mounted # "none" /\ n \in bundled[Mounted] /\ shows[n] \subseteq copies[Mounted][n]

LEMMA OwnSteps == VideosTypeOK /\ OwnStep /\ [VideosNext]_videoVars => OwnStep'
<1> SUFFICES ASSUME VideosTypeOK, OwnStep, [VideosNext]_videoVars PROVE OwnStep'
  OBVIOUS
<1>0. CASE \/ UNCHANGED videoVars
           \/ StickPulled \/ StickUnmounts \/ StickMounts \/ StartJob
           \/ JobBreaks \/ Flush \/ EndWithoutUsb
           \/ \E room \in BOOLEAN : StepPreflight(room) \/ ListSegments(room)
           \/ Finalized \/ CheckCopies \/ KeepFolder
  BY <1>0 DEF OwnStep, videoVars, context, finalizing, footage, StickPulled, StickUnmounts,
     StickMounts, StartJob, JobBreaks, Flush, EndWithoutUsb, Forgotten, FinalizeForgotten,
     StepPreflight, ListSegments, Finalized, CheckCopies, KeepFolder
<1>1. CASE \/ \E g \in Groups, n \in Segments : Muxed(g, n) \/ MuxFails(g, n)
           \/ \E gone \in SUBSET pending_deletions : ReleaseSegments(gone)
           \/ \E gone \in SUBSET On("mount", raw \cup made) : ClearFolder(gone)
  BY <1>1 DEF OwnStep, context, finalizing, FinalizeForgotten, Muxed, MuxFails, Muxing,
     ReleaseSegments, ClearFolder
<1>2. CASE ListMedia
  BY <1>2 DEF OwnStep, ListMedia, On, footage, finalizing
<1>3. CASE \E n \in found : CopyVideo(n)
  BY <1>3 DEF OwnStep, CopyVideo, footage, finalizing
<1> QED BY <1>0, <1>1, <1>2, <1>3 DEF VideosNext

\* A step that touches no file may at most forget what the job knew.
LEMMA FilesAlone ==
    ASSUME FootageInv, UNCHANGED << disk_of, raw, made, shows, copies, stuck >>,
           \/ UNCHANGED << unmuxed, pending_deletions >>
           \/ unmuxed' = {} /\ pending_deletions' = {}
    PROVE  FootageInv'
<1>1. CASE stuck
  BY <1>1 DEF FootageInv
<1>2. CASE ~stuck
  <2>1. Beginnings' /\ FirstsOnly' /\ NoFileShowsNothing'
    BY <1>2 DEF FootageInv, Beginnings, BeginsIn, Mates, FirstsOnly, NoFileShowsNothing
  <2>2. Covering'
    BY <1>2 DEF FootageInv, Covering, Covers
  <2>3. ListedWhole' /\ PendingWhole'
    BY <1>2 DEF FootageInv, ListedWhole, PendingWhole, Mates
  <2>4. FootageKept'
    BY <1>2 DEF FootageInv, FootageKept
  <2> QED BY <2>1, <2>2, <2>3, <2>4 DEF FootageInv
<1> QED BY <1>1, <1>2

LEMMA GroupOfMates ==
    ASSUME NEW g \in Groups, NEW s \in g, NEW t, Mates(s, t)
    PROVE  t \in g
  BY VideosAssumption DEF Mates

\* ffmpeg runs on the segments of a group that are left, all of them, and its output replaces
\* at most a video of some of these.
LEMMA MuxingKeeps ==
    ASSUME VideosTypeOK, FootageInv, ~stuck,
           NEW g \in Groups, NEW n \in Segments, Muxed(g, n) \/ MuxFails(g, n)
    PROVE  FootageInv'
<1> DEFINE group == g \cap unmuxed
<1>g. n \in group /\ n \in unmuxed /\ n \in raw /\ \A s \in group : n <= s
  BY DEF Muxed, MuxFails, Muxing, First, FootageInv, ListedWhole
<1>m. \A s \in group : Mates(n, s) /\ s \in raw /\ s \in Segments
  BY <1>g DEF Mates, FootageInv, ListedWhole, VideosTypeOK
<1>w. \A t \in raw : Mates(n, t) => t \in group
  BY <1>g, GroupOfMates DEF FootageInv, ListedWhole
<1>u. UNCHANGED << disk_of, raw, copies, stuck >> /\ unmuxed' = unmuxed \ g
  BY DEF Muxed, MuxFails, bundle, videoFaults
<1>s. /\ \A s \in Segments \ {n} : shows'[s] = shows[s]
      /\ shows'[n] \in {shows[n], {}, group}
      /\ made \subseteq made' /\ made' \subseteq made \cup {n}
      /\ shows'[n] # shows[n] => n \in made'
  BY DEF Muxed, MuxFails, WriteVideo, VideosTypeOK
<1>p. \/ pending_deletions' = pending_deletions
      \/ pending_deletions' = pending_deletions \cup group /\ shows'[n] = group /\ n \in made'
  BY DEF Muxed, MuxFails, WriteVideo, AllPending, VideosTypeOK
<1>o. n \notin pending_deletions
  BY <1>g DEF FootageInv, PendingWhole
<1>1. BeginsIn(shows)'
  BY <1>g, <1>m, <1>u, <1>s DEF BeginsIn, Beginnings, FootageInv, Mates
<1>2. Beginnings'
  BY <1>1, <1>u DEF BeginsIn, Beginnings, FootageInv, Mates
<1>3. FirstsOnly'
  BY <1>g, <1>m, <1>w, <1>u, <1>s DEF FirstsOnly, FootageInv, Mates
<1>4. NoFileShowsNothing'
  BY <1>s DEF NoFileShowsNothing, FootageInv
<1>5. ListedWhole'
  <2>1. ASSUME NEW s \in unmuxed', NEW t \in raw, Mates(s, t) PROVE t \in unmuxed'
    <3>1. t \in unmuxed
      BY <1>u, <2>1 DEF FootageInv, ListedWhole
    <3>2. t \notin g
      BY <1>u, <2>1, VideosAssumption DEF Mates
    <3> QED BY <3>1, <3>2, <1>u
  <2> QED BY <2>1, <1>u DEF FootageInv, ListedWhole, Mates
<1>6. PendingWhole'
  <2>1. ASSUME NEW s \in group, NEW t \in raw, Mates(s, t) PROVE t \in group
    BY <2>1, GroupOfMates DEF FootageInv, ListedWhole
  <2>2. \A s \in pending_deletions', t \in raw : Mates(s, t) => t \in pending_deletions'
    BY <2>1, <1>p DEF FootageInv, PendingWhole
  <2>3. pending_deletions' \subseteq raw /\ pending_deletions' \cap unmuxed' = {}
    BY <1>m, <1>p, <1>u DEF FootageInv, PendingWhole
  <2>4. \A s \in pending_deletions : \E k \in Segments \ unmuxed' : s \in shows'[k]
    BY <1>g, <1>s, <1>u DEF FootageInv, PendingWhole
  <2>5. \A s \in pending_deletions' : \E k \in Segments \ unmuxed' : s \in shows'[k]
    BY <2>4, <1>g, <1>p, <1>u
  <2> QED BY <2>2, <2>3, <2>5, <1>u DEF PendingWhole, Mates
<1>7. Covering'
  <2>1. ASSUME NEW c, BeginsIn(c), Covers(c), c \in [Segments -> SUBSET Segments],
               NEW k \in made', k \notin raw \/ k \in pending_deletions'
        PROVE  c[k] \subseteq shows'[k]
    <3>1. CASE k = n
      <4>1. shows'[n] = group
        BY <1>g, <1>o, <1>p, <2>1, <3>1
      <4>2. c[n] \subseteq group
        BY <1>g, <1>w, <2>1 DEF BeginsIn
      <4> QED BY <3>1, <4>1, <4>2
    <3>2. CASE k # n /\ (k \notin raw \/ k \in pending_deletions)
      BY <3>2, <1>s, <2>1 DEF Covers, VideosTypeOK
    <3>3. CASE k # n /\ k \in group
      <4>1. k \in made /\ k \in raw /\ Mates(k, n)
        BY <3>3, <1>s, <1>m DEF Mates
      <4>2. k <= n /\ n <= k /\ k \in Nat /\ n \in Nat
        BY <3>3, <4>1, <1>g, <1>m, VideosAssumption DEF FootageInv, FirstsOnly
      <4> QED BY <3>3, <4>2
    <3> QED BY <3>1, <3>2, <3>3, <2>1, <1>p
  <2>2. \A k \in made' : k \notin raw \/ k \in pending_deletions'
            => copies["stick"][k] \subseteq shows'[k]
    BY <2>1 DEF FootageInv, Covering, Beginnings, VideosTypeOK
  <2>3. \A k \in made' : k \notin raw \/ k \in pending_deletions'
            => copies["bare"][k] \subseteq shows'[k]
    BY <2>1 DEF FootageInv, Covering, Beginnings, VideosTypeOK
  <2> QED BY <2>2, <2>3, <1>u DEF Covering, Covers
<1>8. FootageKept'
  <2>1. ASSUME NEW s \in Segments, s \notin raw PROVE s \notin shows[n]
    BY <1>g, <2>1 DEF FootageInv, Beginnings, BeginsIn
  <2> QED BY <2>1, <1>u, <1>s DEF FootageInv, FootageKept
<1> QED BY <1>2, <1>3, <1>4, <1>5, <1>6, <1>7, <1>8 DEF FootageInv

\* Only segments that a video shows go, and none that a video begins with before it.
LEMMA ReleaseKeeps ==
    ASSUME VideosTypeOK, FootageInv, ~stuck,
           NEW gone \in SUBSET pending_deletions, ReleaseSegments(gone)
    PROVE  FootageInv'
<1> SUFFICES ASSUME ~stuck' PROVE FootageInv'
  BY DEF FootageInv
<1>u. /\ UNCHANGED << disk_of, made, shows, copies >> /\ raw' = raw \ gone
      /\ unmuxed' = {} /\ pending_deletions' = {} /\ InOrder(gone)
  BY DEF ReleaseSegments, FinalizeForgotten, bundle
<1>1. ASSUME NEW c, BeginsIn(c), NEW n \in Segments, NEW s \in c[n], n \in raw', s \in gone
      PROVE  FALSE
  <2>1. n <= s /\ n \in raw /\ Mates(s, n) /\ n \notin gone /\ s \in raw /\ s \in Segments
    BY <1>1, <1>u DEF BeginsIn, Mates, FootageInv, PendingWhole, VideosTypeOK
  <2>2. n \in pending_deletions
    BY <1>1, <2>1 DEF FootageInv, PendingWhole
  <2>3. n \in Nat /\ s \in Nat /\ n < s
    BY <1>1, <2>1, VideosAssumption
  <2> QED BY <1>1, <1>u, <2>1, <2>2, <2>3 DEF InOrder
<1>2. ASSUME NEW c, BeginsIn(c), NEW n \in Segments, NEW s \in c[n]
      PROVE  n <= s /\ Mates(n, s) /\ (n \in raw' => s \in raw')
  BY <1>1, <1>2, <1>u DEF BeginsIn
<1>3. Beginnings'
  BY <1>2, <1>u DEF FootageInv, Beginnings, BeginsIn, Mates
<1>4. Covering'
  BY <1>u DEF FootageInv, Covering, Covers
<1>5. FirstsOnly' /\ ListedWhole' /\ PendingWhole' /\ NoFileShowsNothing'
  BY <1>u DEF FootageInv, FirstsOnly, ListedWhole, PendingWhole, NoFileShowsNothing, Mates
<1>6. FootageKept'
  BY <1>u DEF FootageInv, FootageKept, PendingWhole
<1> QED BY <1>3, <1>4, <1>5, <1>6 DEF FootageInv

\* A copy replaces another that shows no more, unless all of it is left.
LEMMA CopyKeeps ==
    ASSUME VideosTypeOK, OwnStep, FootageInv, ~stuck, NEW n \in found, CopyVideo(n)
    PROVE  FootageInv'
<1>n. n \in Segments /\ n \in made /\ pending_deletions = {} /\ Mounted \in {"stick", "bare"}
  BY DEF OwnStep, CopyVideo, VideosTypeOK, Mounted
<1>u. UNCHANGED << disk_of, raw, made, shows, unmuxed, pending_deletions, stuck >>
  BY DEF CopyVideo, footage, finalizing, videoFaults
<1>c. \A d \in {"stick", "bare"} :
        /\ \A k \in Segments \ {n} : copies'[d][k] = copies[d][k]
        /\ copies'[d][n] \in {copies[d][n], shows[n]}
  BY <1>n DEF CopyVideo, VideosTypeOK
<1>1. Beginnings'
  BY <1>n, <1>u, <1>c DEF FootageInv, Beginnings, BeginsIn, Mates
<1>2. Covering'
  BY <1>n, <1>u, <1>c DEF FootageInv, Covering, Covers, VideosTypeOK
<1>3. FirstsOnly' /\ ListedWhole' /\ PendingWhole' /\ NoFileShowsNothing'
  BY <1>u DEF FootageInv, FirstsOnly, ListedWhole, PendingWhole, NoFileShowsNothing, Mates
<1>4. FootageKept'
  <2>1. ASSUME NEW s \in Segments, s \notin raw, NEW d \in {"stick", "bare"}, s \in copies[d][n]
        PROVE  s \in shows[n]
    BY <1>n, <2>1 DEF FootageInv, Covering, Covers, Beginnings, BeginsIn
  <2> QED BY <2>1, <1>n, <1>u, <1>c DEF FootageInv, FootageKept
<1> QED BY <1>1, <1>2, <1>3, <1>4, <1>u DEF FootageInv

\* What is removed with the folder lies in the bundle.
LEMMA ClearKeeps ==
    ASSUME VideosTypeOK, OwnStep, FootageInv, ~stuck,
           NEW gone \in SUBSET On("mount", raw \cup made), ClearFolder(gone)
    PROVE  FootageInv'
<1>n. unmuxed = {} /\ pending_deletions = {}
  BY DEF OwnStep, ClearFolder
<1>g. gone \cap raw = {} /\ gone \subseteq made /\ \A n \in gone : Bundled(n)
  BY DEF ClearFolder, Releasable, On
<1>u. /\ UNCHANGED << disk_of, raw, copies, unmuxed, pending_deletions, stuck >>
      /\ made' = made \ gone
      /\ \A n \in Segments : shows'[n] = IF n \in gone THEN {} ELSE shows[n]
  BY <1>g DEF ClearFolder, bundle, context, finalizing, videoFaults
<1>1. Beginnings'
  BY <1>u DEF FootageInv, Beginnings, BeginsIn, Mates
<1>2. Covering'
  BY <1>n, <1>u DEF FootageInv, Covering, Covers, VideosTypeOK
<1>3. FirstsOnly' /\ ListedWhole' /\ PendingWhole'
  BY <1>n, <1>u DEF FootageInv, FirstsOnly, ListedWhole, PendingWhole, Mates
<1>4. NoFileShowsNothing'
  BY <1>u DEF FootageInv, NoFileShowsNothing
<1>5. FootageKept'
  <2>1. ASSUME NEW n \in gone, NEW s \in shows[n]
        PROVE  s \in copies["stick"][n] \/ s \in copies["bare"][n]
    BY <2>1, <1>g DEF Bundled, Mounted
  <2> QED BY <2>1, <1>g, <1>u DEF FootageInv, FootageKept
<1> QED BY <1>1, <1>2, <1>3, <1>4, <1>5, <1>u DEF FootageInv

LEMMA FootageStep ==
    VideosTypeOK /\ OwnStep /\ FootageInv /\ [VideosNext]_videoVars => FootageInv'
<1> SUFFICES ASSUME VideosTypeOK, OwnStep, FootageInv, [VideosNext]_videoVars PROVE FootageInv'
  OBVIOUS
<1>s. stuck => stuck'
  BY DEF VideosNext, videoVars, videoFaults, StickPulled, StickUnmounts, StickMounts, StartJob,
     JobBreaks, Flush, EndWithoutUsb, StepPreflight, ListSegments, Muxed, MuxFails, Finalized,
     ReleaseSegments, ListMedia, CopyVideo, CheckCopies, ClearFolder, KeepFolder
<1> SUFFICES ASSUME ~stuck PROVE FootageInv'
  BY <1>s DEF FootageInv
<1>1. CASE \/ UNCHANGED videoVars
           \/ StickPulled \/ StickUnmounts \/ StickMounts \/ StartJob
           \/ JobBreaks \/ Flush \/ EndWithoutUsb
           \/ \E room \in BOOLEAN : StepPreflight(room)
           \/ Finalized \/ ListMedia \/ CheckCopies \/ KeepFolder
  <2>1. UNCHANGED << disk_of, raw, made, shows, copies, stuck >>
    BY <1>1 DEF videoVars, footage, bundle, videoFaults, StickPulled, StickUnmounts, StickMounts,
       StartJob, JobBreaks, Flush, EndWithoutUsb, StepPreflight, Finalized, ListMedia,
       CheckCopies, KeepFolder
  <2>2. \/ UNCHANGED << unmuxed, pending_deletions >>
        \/ unmuxed' = {} /\ pending_deletions' = {}
    BY <1>1 DEF videoVars, context, finalizing, Forgotten, FinalizeForgotten, StickPulled,
       StickUnmounts, StickMounts, StartJob, JobBreaks, Flush, EndWithoutUsb, StepPreflight,
       Finalized, ListMedia, CheckCopies, KeepFolder
  <2> QED BY <2>1, <2>2, FilesAlone
<1>2. ASSUME NEW room \in BOOLEAN, ListSegments(room) PROVE FootageInv'
  <2>u. /\ UNCHANGED << disk_of, raw, made, shows, copies, pending_deletions, stuck >>
        /\ pending_deletions = {} /\ unmuxed' = On(base', raw)
        /\ stick' = stick
    BY <1>2 DEF ListSegments, OwnStep, footage, bundle, videoFaults
  <2>1. /\ unmuxed' \subseteq raw
        /\ \A s \in unmuxed' : disk_of[s] = Disk(base')
        /\ \A s \in raw : disk_of[s] = Disk(base') => s \in unmuxed'
    BY <2>u DEF On
  <2>2. ListedWhole'
    BY <2>u, <2>1 DEF ListedWhole, Mates
  <2>3. PendingWhole'
    BY <2>u DEF PendingWhole
  <2>4. Beginnings' /\ FirstsOnly' /\ NoFileShowsNothing'
    BY <2>u DEF FootageInv, Beginnings, BeginsIn, Mates, FirstsOnly, NoFileShowsNothing
  <2>5. Covering' /\ FootageKept'
    BY <2>u DEF FootageInv, Covering, Covers, FootageKept
  <2> QED BY <2>2, <2>3, <2>4, <2>5 DEF FootageInv
<1>3. CASE \E g \in Groups, n \in Segments : Muxed(g, n) \/ MuxFails(g, n)
  BY <1>3, MuxingKeeps
<1>4. CASE \E gone \in SUBSET pending_deletions : ReleaseSegments(gone)
  BY <1>4, ReleaseKeeps
<1>5. CASE \E n \in found : CopyVideo(n)
  BY <1>5, CopyKeeps
<1>6. CASE \E gone \in SUBSET On("mount", raw \cup made) : ClearFolder(gone)
  BY <1>6, ClearKeeps
<1> QED BY <1>1, <1>2, <1>3, <1>4, <1>5, <1>6 DEF VideosNext

\* Whatever breaks, is pulled, fails or is done again, no footage is lost, for any groups of
\* segments, disks, jobs and pulls: unless a segment could not be deleted and a later one could.
THEOREM FootageIsKept == VideosSpec => []FootageKept
<1>1. VideosInit => VideosTypeOK /\ OwnStep /\ FootageInv
  <2> SUFFICES ASSUME VideosInit PROVE OwnStep /\ FootageInv
    BY VideosInitTypes
  <2>1. OwnStep
    BY DEF VideosInit, OwnStep
  <2>2. \A n \in Segments : shows[n] = {} /\ copies["stick"][n] = {} /\ copies["bare"][n] = {}
    BY DEF VideosInit, Blank
  <2>3. Beginnings /\ Covering
    BY <2>2 DEF VideosInit, Beginnings, BeginsIn, Covering, Covers
  <2>4. FirstsOnly /\ ListedWhole /\ PendingWhole /\ NoFileShowsNothing /\ FootageKept
    BY <2>2 DEF VideosInit, FirstsOnly, ListedWhole, PendingWhole, NoFileShowsNothing,
       FootageKept
  <2> QED BY <2>1, <2>3, <2>4 DEF FootageInv
<1>2. VideosTypeOK /\ OwnStep /\ FootageInv /\ [VideosNext]_videoVars
      => (VideosTypeOK /\ OwnStep /\ FootageInv)'
  BY VideosTypes, OwnSteps, FootageStep
<1>3. FootageInv => FootageKept
  BY DEF FootageInv, FootageKept
<1> QED BY <1>1, <1>2, <1>3, PTL DEF VideosSpec

\* Between the check of the copies and the flush nothing is muxed or copied, and the folder of
\* the dive may only lose videos.
LEMMA CheckedStep ==
    VideosTypeOK /\ CheckedInv /\ [VideosNext]_videoVars => CheckedInv'
<1> SUFFICES ASSUME VideosTypeOK, CheckedInv, [VideosNext]_videoVars, Checked', ~moved',
                    NEW n \in found'
             PROVE  Mounted' # "none" /\ n \in bundled'[Mounted']
                      /\ shows'[n] \subseteq copies'[Mounted'][n]
  BY DEF CheckedInv
<1>1. CASE UNCHANGED videoVars
  BY <1>1 DEF CheckedInv, Checked, Mounted, videoVars, footage, bundle, context, videoFaults
<1>2. CASE StickPulled \/ StickMounts
  BY <1>2 DEF StickPulled, StickMounts, Checked
<1>3. CASE StickUnmounts
  BY <1>3 DEF StickUnmounts, CheckedInv, Checked, Mounted, context, videoFaults
<1>4. CASE \/ StartJob \/ JobBreaks \/ Flush \/ EndWithoutUsb \/ Finalized \/ ListMedia
           \/ \E room \in BOOLEAN : StepPreflight(room) \/ ListSegments(room)
           \/ \E g \in Groups, k \in Segments : Muxed(g, k) \/ MuxFails(g, k)
           \/ \E gone \in SUBSET pending_deletions : ReleaseSegments(gone)
           \/ \E k \in found : CopyVideo(k)
  BY <1>4 DEF Checked, StartJob, JobBreaks, Flush, EndWithoutUsb, Forgotten, Finalized, ListMedia,
     StepPreflight, ListSegments, Muxed, MuxFails, Muxing, ReleaseSegments, CopyVideo
<1>5. CASE CheckCopies
  BY <1>5 DEF CheckCopies, Landed, Bundled, Mounted, footage, bundle, context
<1>6. CASE KeepFolder
  BY <1>6 DEF KeepFolder, CheckedInv, Checked, Mounted, footage, bundle, context, videoFaults
<1>7. ASSUME NEW gone \in SUBSET On("mount", raw \cup made), ClearFolder(gone)
      PROVE  Mounted' # "none" /\ n \in bundled'[Mounted']
               /\ shows'[n] \subseteq copies'[Mounted'][n]
  <2>1. n \in found /\ Mounted' = Mounted /\ UNCHANGED << bundled, copies >>
    BY <1>7 DEF ClearFolder, Mounted, bundle, context
  <2>2. Mounted # "none" /\ n \in bundled[Mounted] /\ shows[n] \subseteq copies[Mounted][n]
    BY <1>7, <2>1 DEF ClearFolder, CheckedInv, Checked, videoFaults
  <2>3. shows'[n] \subseteq shows[n]
    BY <1>7, <2>1 DEF ClearFolder, VideosTypeOK
  <2> QED BY <2>1, <2>2, <2>3
<1> QED BY <1>1, <1>2, <1>3, <1>4, <1>5, <1>6, <1>7 DEF VideosNext

\* For any segments, jobs and pulls: a stick that is said to be safe to remove and was not moved
\* since its copies were checked holds every video that was found, complete.
THEOREM SafeToRemoveMeansBundled == VideosSpec => SafeMeansBundled
<1>1. VideosInit => VideosTypeOK /\ CheckedInv
  BY VideosInitTypes DEF VideosInit, CheckedInv, Checked
<1>2. VideosTypeOK /\ CheckedInv /\ [VideosNext]_videoVars => (VideosTypeOK /\ CheckedInv)'
  BY VideosTypes, CheckedStep
<1>3. CheckedInv /\ [VideosNext]_videoVars
      => [ safe' /\ ~safe /\ ~moved =>
             \A n \in found :
                /\ Mounted # "none"
                /\ n \in bundled[Mounted] /\ shows[n] \subseteq copies[Mounted][n] ]_videoVars
  <2> SUFFICES ASSUME CheckedInv, [VideosNext]_videoVars, safe', ~safe, ~moved
               PROVE  \A n \in found :
                        /\ Mounted # "none"
                        /\ n \in bundled[Mounted] /\ shows[n] \subseteq copies[Mounted][n]
    OBVIOUS
  <2>1. Flush
    BY DEF VideosNext, videoVars, videoFaults, StickPulled, StickUnmounts, StickMounts, StartJob,
       JobBreaks, Flush, EndWithoutUsb, StepPreflight, ListSegments, Muxed, MuxFails, Finalized,
       ReleaseSegments, ListMedia, CopyVideo, CheckCopies, ClearFolder, KeepFolder
  <2> QED BY <2>1 DEF Flush, Checked, CheckedInv
<1> QED BY <1>1, <1>2, <1>3, PTL DEF VideosSpec, SafeMeansBundled

-----------------------------------------------------------------------------
(* The pages together.                                                     *)

LEMMA StepOfOne ==
    [ConsoleNext]_consoleVars =>
        /\ [EditorNext]_editorVars /\ [HoldNext]_holdVars /\ [StartNext]_startVars
        /\ [ProcNext]_procVars /\ [MediaNext]_mediaVars /\ [DownloadNext]_downloadVars
        /\ [WlanNext]_wlanVars /\ [IridiumNext]_iridiumVars /\ [TileNext]_tileVars
        /\ [FlashNext]_flashVars /\ [ClockNext]_clockVars /\ [DiveListNext]_diveListVars
        /\ [VideosNext]_videoVars
  BY DEF ConsoleNext, consoleVars

\* Each part of the console keeps to its types, whichever is used, for any number of files,
\* runs, attempts and answers on their way.
THEOREM ConsoleTypeCorrect == ConsoleSpec => []ConsoleTypeOK
<1>1. ConsoleInit => ConsoleTypeOK
  BY EditorInitTypes, HoldInitTypes, StartInitTypes, ProcInitTypes, MediaInitTypes,
     DownloadInitTypes, WlanInitTypes, IridiumInitTypes, TileInitTypes,
     FlashInitTypes, ClockInitTypes, DiveListInitTypes, VideosInitTypes
     DEF ConsoleInit, ConsoleTypeOK
<1>2. ConsoleTypeOK /\ [ConsoleNext]_consoleVars => ConsoleTypeOK'
  BY StepOfOne, EditorTypes, HoldTypes, StartTypes, ProcTypes, MediaTypes, DownloadTypes,
     WlanTypes, IridiumTypes, TileTypes, FlashTypes, ClockTypes, DiveListTypes,
     VideosTypes
     DEF ConsoleTypeOK
<1> QED BY <1>1, <1>2, PTL DEF ConsoleSpec

LEMMA InitOfAll ==
    ConsoleInit =>
        /\ EditorInit /\ HoldInit /\ StartInit /\ ProcInit /\ MediaInit /\ DownloadInit
        /\ WlanInit /\ IridiumInit /\ TileInit /\ FlashInit /\ ClockInit /\ DiveListInit
        /\ VideosInit
  BY DEF ConsoleInit

\* A behaviour of the console is one of each part whose safety is proved above.
LEMMA ConsoleImplementsParts ==
    ConsoleSpec =>
        /\ EditorSpec /\ StartSpec /\ MediaSpec /\ IridiumSpec /\ DiveListSpec /\ VideosSpec
        /\ HoldInit /\ [][HoldNext]_holdVars
        /\ ProcInit /\ [][ProcNext]_procVars
        /\ DownloadInit /\ [][DownloadNext]_downloadVars
        /\ WlanInit /\ [][WlanNext]_wlanVars
        /\ FlashInit /\ [][FlashNext]_flashVars
        /\ ClockInit /\ [][ClockNext]_clockVars
  BY InitOfAll, StepOfOne, PTL
     DEF ConsoleSpec, EditorSpec, StartSpec, MediaSpec, IridiumSpec, DiveListSpec, VideosSpec

\* The console as it is run, with all its parts and whichever of them is used, keeps every
\* safety property of each of them: what the page shows, asks, saves and deletes, what the job
\* does to the footage, and what the downloads, the radio, the flashing and the clock keep.
THEOREM ConsoleSafe ==
    ConsoleSpec =>
        /\ [](/\ CleanMeansSaved /\ AsksWhileHeld /\ OwnRelease /\ LogComplete
              /\ VerdictFresh /\ FlashVerdict /\ FootageKept)
        /\ [](DownloadInv /\ PendingWorked /\ AutopilotDue /\ GpsClock)
        /\ EditsKept /\ OnlyConfirmedGo /\ RecordsKept /\ SafeMeansBundled
        /\ TriedOnce /\ NewFailureShows /\ GpsStands
<1>1. ConsoleSpec => /\ []CleanMeansSaved /\ []AsksWhileHeld /\ []OwnRelease
                     /\ []LogComplete /\ []VerdictFresh /\ []FlashVerdict /\ []FootageKept
  BY ConsoleImplementsParts, EditorCleanMeansSaved, HoldAsksWhileHeld, StartOwnRelease,
     ProcLogComplete, IridiumVerdictFresh, FlashVerdictTrue, FootageIsKept
<1>2. ConsoleSpec => EditsKept /\ OnlyConfirmedGo /\ RecordsKept /\ SafeMeansBundled
  BY ConsoleImplementsParts, EditorEditsKept, MediaOnlyConfirmedGo, DiveRecordsKept,
     SafeToRemoveMeansBundled
<1>3. ConsoleSpec => /\ []DownloadInv /\ []PendingWorked /\ []AutopilotDue /\ []GpsClock
                     /\ TriedOnce /\ NewFailureShows /\ GpsStands
  BY ConsoleImplementsParts, DownloadsOrderly, SwitchesEnd, AutopilotComesBack, GpsClockKept
<1> QED BY <1>1, <1>2, <1>3, PTL
=============================================================================
