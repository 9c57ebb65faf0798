--------------------------------- MODULE DiveList ---------------------------------
(***************************************************************************)
(* The Previous Dives page over the records it lists: AllMissions.vue,     *)
(* useDiveHistory of useApi.ts and the history routes of routes/dive.py,   *)
(* with the number start_dive gives a record and what a processing job     *)
(* does to the file it was begun for.                                      *)
(*                                                                         *)
(* A record is a file dive_NNNN.json; what matters of it is which dive it  *)
(* tells of.  Dives are counted, so no two are the same; their numbers may *)
(* be.  A list is what is read of all files at once.                       *)
(*                                                                         *)
(* Simplifications:                                                        *)
(*  - the backend reads the files when it is asked; only answers take time *)
(*  - the other windows of the console act at once.                        *)
(*  - filter, order, export and the links to media are left out, and the   *)
(*    progress of a job is in ProcessingView.                              *)
(***************************************************************************)
EXTENDS Naturals, FiniteSets

CONSTANTS
    MaxNumbers,   \* bound on the numbers of records
    MaxDived,     \* bound on dives
    MaxHistories, \* bound on lists on their way
    MaxRemovals   \* bound on deletions not answered

ASSUME DiveListAssumption ==
    /\ MaxNumbers \in Nat /\ MaxDived \in Nat
    /\ MaxHistories \in Nat /\ MaxRemovals \in Nat

Numbers == 1 .. MaxNumbers
Lists == [Numbers -> 0 .. MaxDived]
NoDives == [n \in Numbers |-> 0]

\* handleDeleteMission, from the confirmation to the answer: the number that is sent, the dive
\* the operator chose, whether the page is still the one that asked.
Removal == [number : Numbers, of : 0 .. MaxDived, here : BOOLEAN,
            stage : {"sent", "gone", "failed"}]

VARIABLES
    kept,        \* the dive each file tells of, 0 for no file
    dived,       \* dives started so far
    dives_open,  \* the page is mounted
    dives,       \* its list
    histories,   \* answers to fetchDives on their way
    chosen,      \* selectedMission, 0 for null
    chosen_dive, \* history: the dive whose button was pressed
    removing,    \* isDeleting
    removals,    \* deletions not answered
    work,        \* the job's file, 0 for none
    work_dive,   \* the dive in the job's copy of the record
    owner,       \* history: the last dive each number was given to
    again,       \* history: a number was given twice
    undone       \* history: a record was deleted under a job

jobVars == << work, work_dive >>
diskVars == << kept, dived, owner, again, undone, jobVars >>
dialogVars == << chosen, chosen_dive, removing >>
pageVars == << dives_open, dives, histories, dialogVars >>
diveListVars == << diskVars, pageVars, removals >>

DiveListInit ==
    /\ kept = NoDives /\ dived = 0 /\ owner = NoDives
    /\ work = 0 /\ work_dive = 0
    /\ dives_open = FALSE /\ dives = NoDives /\ histories = {}
    /\ chosen = 0 /\ chosen_dive = 0 /\ removing = FALSE /\ removals = {}
    /\ again = FALSE /\ undone = FALSE

DiveListTypeOK ==
    /\ kept \in Lists /\ owner \in Lists /\ dived \in 0 .. MaxDived
    /\ work \in {0} \cup Numbers /\ work_dive \in 0 .. MaxDived
    /\ dives_open \in BOOLEAN /\ dives \in Lists /\ histories \subseteq Lists
    /\ chosen \in {0} \cup Numbers /\ chosen_dive \in 0 .. MaxDived /\ removing \in BOOLEAN
    /\ removals \subseteq Removal
    /\ again \in BOOLEAN /\ undone \in BOOLEAN

Shown(list) == {n \in Numbers : list[n] # 0}

-----------------------------------------------------------------------------
(* The records.                                                            *)

\* _next_dive_filename: one more than the highest there is.
AsMany(n) == n = Cardinality(Shown(kept)) + 1  \* mutant: one more than there are
IsNext(n) == Shown(kept) \subseteq 1 .. n - 1 /\ (n = 1 \/ n - 1 \in Shown(kept))

\* The record start_dive writes under it.
RecordDive(n) ==
    /\ IsNext(n) /\ dived < MaxDived
    /\ dived' = dived + 1
    /\ kept' = [kept EXCEPT ![n] = dived + 1]
    /\ owner' = [owner EXCEPT ![n] = dived + 1]
    /\ again' = (again \/ owner[n] # 0)
    /\ UNCHANGED << undone, jobVars, pageVars, removals >>

\* The job keeps its own copy of the record.
BeginJob(n) ==
    /\ work = 0 /\ n \in Shown(kept)
    /\ work' = n /\ work_dive' = kept[n]
    /\ UNCHANGED << kept, dived, owner, again, undone, pageVars, removals >>

\* After the CSV export it reads its file again.
JobReloads ==
    /\ work \in Shown(kept)
    /\ work_dive' = kept[work]
    /\ UNCHANGED << kept, dived, owner, again, undone, work, pageVars, removals >>

\* It writes its copy, whatever has become of the file; or the disk refuses, or
\* a restart of the backend forgets the job.
JobDone ==
    /\ work # 0
    /\ kept' \in {kept, [kept EXCEPT ![work] = work_dive]}
    /\ work' = 0 /\ work_dive' = 0
    /\ UNCHANGED << dived, owner, again, undone, pageVars, removals >>

\* delete_dive_record_file.
Unlink(n) ==
    /\ kept' = [kept EXCEPT ![n] = 0]
    /\ undone' = (undone \/ work = n)
    /\ UNCHANGED << dived, owner, again, jobVars >>

RemovedElsewhere(n) == n \in Shown(kept) /\ Unlink(n) /\ UNCHANGED << pageVars, removals >>

-----------------------------------------------------------------------------
(* The list.                                                               *)

\* The list, the dialog and the flags are the component's: they begin anew.
OpenDives ==
    /\ ~dives_open
    /\ dives_open' = TRUE
    /\ dives' = NoDives /\ histories' = {kept}
    /\ chosen' = 0 /\ chosen_dive' = 0 /\ removing' = FALSE
    /\ UNCHANGED << diskVars, removals >>

\* By the menu, or as the window is loaded again.
LeaveDives ==
    /\ dives_open
    /\ dives_open' = FALSE /\ histories' = {}
    /\ removals' = {[r EXCEPT !.here = FALSE] : r \in removals}
    /\ UNCHANGED << diskVars, dives, dialogVars >>

\* Every 15 s, and when a job is seen to end.
PollDives ==
    /\ dives_open /\ Cardinality(histories \cup {kept}) <= MaxHistories
    /\ histories' = histories \cup {kept}
    /\ UNCHANGED << diskVars, dives_open, dives, dialogVars, removals >>

\* In whatever order they come.
HistoryRead(l) ==
    /\ l \in histories
    /\ dives' = l /\ histories' = histories \ {l}
    /\ UNCHANGED << diskVars, dives_open, dialogVars, removals >>

HistoryLost(l) ==
    /\ l \in histories /\ histories' = histories \ {l}
    /\ UNCHANGED << diskVars, dives_open, dives, dialogVars, removals >>

-----------------------------------------------------------------------------
(* Deleting.                                                               *)

ChooseDive(n) ==
    /\ dives_open /\ chosen = 0 /\ n \in Shown(dives)
    /\ chosen' = n /\ chosen_dive' = dives[n]
    /\ UNCHANGED << diskVars, dives_open, dives, histories, removing, removals >>

\* Cancel, or a click beside the dialog; also while the deletion runs.
CancelRemoval ==
    /\ chosen # 0 /\ dives_open
    /\ chosen' = 0 /\ chosen_dive' = 0
    /\ UNCHANGED << diskVars, dives_open, dives, histories, removing, removals >>

ConfirmRemoval ==
    /\ dives_open /\ chosen # 0 /\ ~removing /\ Cardinality(removals) < MaxRemovals
    /\ removing' = TRUE
    /\ removals' = removals \cup
                     {[number |-> chosen, of |-> chosen_dive, here |-> TRUE, stage |-> "sent"]}
    /\ UNCHANGED << diskVars, dives_open, dives, histories, chosen, chosen_dive >>

Moved(r, to) == removals' = (removals \ {r}) \cup {[r EXCEPT !.stage = to]}

\* There is no such file, or nothing gets through.
RemovalFails(r) ==
    /\ r \in removals /\ r.stage = "sent"
    /\ Moved(r, "failed")
    /\ UNCHANGED << diskVars, pageVars >>

\* The file goes, and the page may not hear of it.
RemovalReaches(r) ==
    /\ r \in removals /\ r.stage = "sent" /\ r.number \in Shown(kept)
    /\ Unlink(r.number)
    /\ Moved(r, "gone") \/ Moved(r, "failed")
    /\ UNCHANGED pageVars

\* The dialog closes after a success, whichever dive it is about by now.
RemovalAnswered(r) ==
    /\ r \in removals /\ r.stage # "sent"
    /\ removals' = removals \ {r}
    /\ IF r.here
       THEN /\ removing' = FALSE
            /\ IF r.stage = "gone"
               THEN /\ dives' = [dives EXCEPT ![r.number] = 0]
                    /\ chosen' = 0 /\ chosen_dive' = 0
               ELSE UNCHANGED << dives, chosen, chosen_dive >>
       ELSE UNCHANGED << dives, dialogVars >>
    /\ UNCHANGED << diskVars, dives_open, histories >>

DiveListNext ==
    \/ \E n \in Numbers : RecordDive(n) \/ BeginJob(n) \/ RemovedElsewhere(n)
                            \/ ChooseDive(n)
    \/ JobReloads
    \/ JobDone
    \/ OpenDives
    \/ LeaveDives
    \/ PollDives
    \/ \E l \in histories : HistoryRead(l) \/ HistoryLost(l)
    \/ CancelRemoval
    \/ ConfirmRemoval
    \/ \E r \in removals : RemovalFails(r) \/ RemovalReaches(r) \/ RemovalAnswered(r)

DiveListSpec == DiveListInit /\ [][DiveListNext]_diveListVars

-----------------------------------------------------------------------------
(* Properties.                                                             *)

\* The record of a dive goes only when that dive was chosen and its deletion confirmed, here
\* or in another window, and it does not come back: as long as no number is given twice and
\* nothing is deleted under a job.
RecordsKept ==
    [][ \A n \in Numbers :
          \/ kept'[n] = kept[n]
          \/ kept[n] = 0 /\ kept'[n] = dived' /\ dived' # dived
          \/ /\ kept'[n] = 0
             /\ RemovedElsewhere(n) \/ \E r \in removals : r.number = n /\ r.of = kept[n]
          \/ again \/ undone ]_diveListVars
=============================================================================
