------------------------------- MODULE MediaPage -------------------------------
(***************************************************************************)
(* The page that lists, deletes and erases recorded files                  *)
(* (MediaManager.vue over useMedia).                                       *)
(*                                                                         *)
(* The list is polled every 15 s; answers overtake each other or are lost. *)
(* A deletion asks for one file after another and goes on when its dialog  *)
(* is closed or the page is left.  A batch walks the selection itself: what*)
(* is selected or deselected meanwhile changes what is left, until the     *)
(* selection is replaced as a whole.  Sorting and paging say which rows are*)
(* in sight, not which files they are, and are left out; the search and the*)
(* storage filter are the set of files that match both.                    *)
(***************************************************************************)
EXTENDS Integers, FiniteSets

CONSTANTS
    Files,       \* recorded files
    Matches,     \* what a search or a storage filter may let through
    MaxDeletions,\* bound on confirmed deletions
    MaxListings  \* bound on the lists on their way at a time

ASSUME FilesAssumption ==
    Matches \subseteq SUBSET Files /\ MaxDeletions \in Nat /\ MaxListings \in Nat

\* asked: what was confirmed; todo: what the loop has still to ask for; live: the loop
\* walks the present selection; altered: the selection changed under it.
Deletion == [asked : SUBSET Files, todo : SUBSET Files, here : BOOLEAN, erase : BOOLEAN,
             live : BOOLEAN, altered : BOOLEAN]

VARIABLES
    disk,        \* files on the vehicle
    recorded,    \* files that have come to be
    media_open,  \* the page is mounted
    media,       \* files, as listed
    listings,    \* lists on their way
    loaded,      \* initialLoadDone: the interval is set
    matching,    \* what the search and the filter let through
    selection,   \* selectedFiles
    asking,      \* the dialog: showDeleteConfirm, showEraseAllConfirm with its step
    deletions,   \* deletions under way; here: of the page now open
    confirmed    \* how many were

mediaView == << media, listings, loaded, matching >>
mediaVars == << disk, recorded, media_open, mediaView, selection, asking, deletions, confirmed >>

MediaTypeOK ==
    /\ disk \subseteq recorded /\ recorded \subseteq Files
    /\ media_open \in BOOLEAN /\ loaded \in BOOLEAN
    /\ media \subseteq Files /\ matching \subseteq Files /\ selection \subseteq Files
    /\ listings \subseteq SUBSET Files
    /\ asking \in {"no", "delete", "erase", "erase_sure"}
    /\ deletions \subseteq Deletion /\ confirmed \in 0..MaxDeletions

MediaInit ==
    /\ recorded \in SUBSET Files /\ disk = recorded
    /\ media_open = FALSE /\ media = {} /\ listings = {} /\ loaded = FALSE
    /\ matching = Files /\ selection = {} /\ asking = "no"
    /\ deletions = {} /\ confirmed = 0

\* isDeleting.
Deleting == \E d \in deletions : d.here
Elsewhere == {[d EXCEPT !.here = FALSE, !.live = FALSE] : d \in deletions}

-----------------------------------------------------------------------------
(* The list.                                                               *)

Record(f) ==
    /\ f \notin recorded
    /\ recorded' = recorded \cup {f} /\ disk' = disk \cup {f}
    /\ UNCHANGED << media_open, mediaView, selection, asking, deletions, confirmed >>

OpenMedia ==
    /\ ~media_open
    /\ media_open' = TRUE /\ listings' = {disk}
    /\ UNCHANGED << disk, recorded, media, loaded, matching, selection, asking, deletions,
                    confirmed >>

\* What the page held is gone, the loop of a deletion is not.
LeaveMedia ==
    /\ media_open
    /\ media_open' = FALSE /\ media' = {} /\ loaded' = FALSE /\ listings' = {}
    /\ matching' = Files /\ selection' = {} /\ asking' = "no"
    /\ deletions' = Elsewhere
    /\ UNCHANGED << disk, recorded, confirmed >>

PollMedia ==
    /\ media_open /\ loaded /\ Cardinality(listings) < MaxListings
    /\ listings' = listings \cup {disk}
    /\ UNCHANGED << disk, recorded, media_open, media, loaded, matching, selection, asking,
                    deletions, confirmed >>

\* The selection keeps what the new list no longer has.
Listed(l) ==
    /\ l \in listings
    /\ listings' = listings \ {l} /\ media' = l /\ loaded' = TRUE
    /\ UNCHANGED << disk, recorded, media_open, matching, selection, asking, deletions,
                    confirmed >>

ListingLost(l) ==
    /\ l \in listings
    /\ listings' = listings \ {l} /\ loaded' = TRUE
    /\ UNCHANGED << disk, recorded, media_open, media, matching, selection, asking, deletions,
                    confirmed >>

-----------------------------------------------------------------------------
(* Selecting.                                                              *)

Clear == media_open /\ asking = "no"
Rows == media \cap matching

\* A batch that walks the selection keeps walking the old one.
Replaced(sel) ==
    /\ selection' = sel
    /\ deletions' = {[d EXCEPT !.live = FALSE] : d \in deletions}

SearchFor(s) ==
    /\ Clear /\ s # matching
    /\ matching' = s
    /\ UNCHANGED << disk, recorded, media_open, media, listings, loaded, selection, asking,
                    deletions, confirmed >>

SetStorageFilter(s) ==
    /\ Clear
    /\ matching' = s /\ Replaced({})
    /\ UNCHANGED << disk, recorded, media_open, media, listings, loaded, asking, confirmed >>

\* Removing one the batch has dealt with makes it skip another.
Shifted(todo, f) ==
    IF f \in selection
    THEN IF f \in todo \/ todo = {} THEN {todo \ {f}} ELSE {todo \ {g} : g \in todo}
    ELSE {todo \cup {f}}

SelectFile(f) ==
    /\ Clear /\ f \in Rows
    /\ selection' = IF f \in selection THEN selection \ {f} ELSE selection \cup {f}
    /\ \E rest \in [deletions -> SUBSET Files] :
        /\ \A d \in deletions :
               rest[d] \in (IF d.live THEN Shifted(d.todo, f) ELSE {d.todo})
        /\ deletions' = {[d EXCEPT !.todo = rest[d], !.altered = @ \/ d.live] : d \in deletions}
    /\ UNCHANGED << disk, recorded, media_open, mediaView, asking, confirmed >>

\* As many as there are rows counts as all of them.
SelectAll ==
    /\ Clear
    /\ Replaced(IF Cardinality(selection) = Cardinality(Rows) THEN {} ELSE Rows)
    /\ UNCHANGED << disk, recorded, media_open, mediaView, asking, confirmed >>

-----------------------------------------------------------------------------
(* Dialogs.                                                                *)

AskDelete ==
    /\ Clear /\ selection # {}
    /\ asking' = "delete"
    /\ UNCHANGED << disk, recorded, media_open, mediaView, selection, deletions, confirmed >>

DeleteSingle(f) ==
    /\ Clear /\ f \in Rows
    /\ asking' = "delete" /\ Replaced({f})
    /\ UNCHANGED << disk, recorded, media_open, mediaView, confirmed >>

AskErase ==
    /\ media_open /\ asking \in {"no", "erase"}
    /\ asking' = IF asking = "no" THEN "erase" ELSE "erase_sure"
    /\ UNCHANGED << disk, recorded, media_open, mediaView, selection, deletions, confirmed >>

\* Also the click beside the dialog, and also during the deletion.
CloseDialog ==
    /\ media_open /\ asking # "no"
    /\ asking' = "no"
    /\ UNCHANGED << disk, recorded, media_open, mediaView, selection, deletions, confirmed >>

Begins(files, erase) ==
    /\ ~Deleting /\ confirmed < MaxDeletions /\ confirmed' = confirmed + 1
    /\ deletions' = deletions \cup
         {[asked |-> files, todo |-> files, here |-> TRUE, erase |-> erase,
           live |-> ~erase, altered |-> FALSE]}
    /\ UNCHANGED << disk, recorded, media_open, mediaView, selection, asking >>

ConfirmDelete == media_open /\ asking = "delete" /\ Begins(selection, FALSE)
ConfirmEraseAll == media_open /\ asking = "erase_sure" /\ Begins(media, TRUE)

-----------------------------------------------------------------------------
(* Deleting.                                                               *)

LeftNow(d) == IF d.erase THEN media ELSE d.todo  \* mutant: erases what is listed by then
Left(d) == d.todo

\* One request: refused, or the file goes, and the page hears so or not.
DeleteFile(d, f) ==
    /\ d \in deletions /\ f \in Left(d)
    /\ deletions' = (deletions \ {d}) \cup {[d EXCEPT !.todo = @ \ {f}]}
    /\ \/ UNCHANGED << disk, media >>
       \/ disk' = disk \ {f} /\ UNCHANGED media
       \/ disk' = disk \ {f} /\ media' = IF d.here THEN media \ {f} ELSE media
    /\ UNCHANGED << recorded, media_open, listings, loaded, matching, selection, asking,
                    confirmed >>

\* Whatever is selected and asked by now.
DeletionEnds(d) ==
    /\ d \in deletions /\ Left(d) = {}
    /\ deletions' = deletions \ {d}
    /\ IF d.here
       THEN /\ selection' = {} /\ listings' = listings \cup {disk}
            /\ asking' = IF (asking = "delete") # d.erase THEN "no" ELSE asking
       ELSE UNCHANGED << selection, listings, asking >>
    /\ UNCHANGED << disk, recorded, media_open, media, loaded, matching, confirmed >>

DeletionStep(d) == (\E f \in Files : DeleteFile(d, f)) \/ DeletionEnds(d)

MediaNext ==
    \/ \E f \in Files : Record(f) \/ SelectFile(f) \/ DeleteSingle(f)
    \/ OpenMedia
    \/ LeaveMedia
    \/ PollMedia
    \/ \E l \in listings : Listed(l) \/ ListingLost(l)
    \/ \E s \in Matches : SearchFor(s) \/ SetStorageFilter(s)
    \/ SelectAll
    \/ AskDelete
    \/ AskErase
    \/ CloseDialog
    \/ ConfirmDelete
    \/ ConfirmEraseAll
    \/ \E d \in deletions : DeletionStep(d)

MediaSpec == MediaInit /\ [][MediaNext]_mediaVars

-----------------------------------------------------------------------------
(* Properties.                                                             *)

\* A file goes only if the operator saw it in the dialog that was confirmed: not one that
\* was recorded or listed since, as long as the selection is left alone during a batch.
OnlyConfirmedGo ==
    [][ \A f \in disk \ disk' :
            \E d \in deletions : f \in d.asked \/ d.altered ]_mediaVars
=============================================================================
