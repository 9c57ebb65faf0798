----------------------------- MODULE MissionEditor -----------------------------
(***************************************************************************)
(* The page that edits deployment configurations (MissionProgramming.vue)  *)
(* over useConfigurations and the configurations the backend stores.       *)
(*                                                                         *)
(* The fields whose edits raise "unsaved changes" are one bit, `marked`;   *)
(* the others (delays and pauses of the bottom phase, sleep timers, the    *)
(* date and unit of the release, the estimated depth) raise nothing and    *)
(* are left out.  `of` is history: the configuration whose content it is.  *)
(* Dialogs cover the page, so there is one at a time; a save goes on when  *)
(* its dialog is closed.                                                   *)
(***************************************************************************)
EXTENDS Integers, FiniteSets

CONSTANTS
    Names,       \* names a configuration can have
    Stored,      \* those stored at first
    New,         \* the entry "New Configuration" of the list
    None,        \* the empty string: no selection, no name, nothing pending
    MaxSaves,    \* bound on saves and deletions
    MaxOpens     \* bound on openings of the page

ASSUME NamesAssumption ==
    /\ Stored \subseteq Names
    /\ New \notin Names /\ None \notin Names /\ New # None
    /\ MaxSaves \in Nat /\ MaxOpens \in Nat

Content == [of : Names \cup {New}, marked : BOOLEAN]
Choices == Names \cup {New, None}
Save == [name : Names, content : Content, renames : BOOLEAN, here : BOOLEAN]
Pristine(n) == [of |-> n, marked |-> FALSE]

VARIABLES
    stored,      \* the backend's configurations
    page_open,   \* the page is mounted
    listed,      \* savedConfigurations
    form,        \* the fields
    selected,    \* selectedConfiguration
    unsaved,     \* hasUnsavedChanges
    modal,       \* the dialog that covers the page
    typed,       \* configurationName
    pending,     \* pendingConfigurationChange
    loads,       \* configurations whose content is being fetched
    saves,       \* saves under way; here: asked for by the page now open
    deleting,    \* the configuration a confirmed deletion names
    writes, opens,
    blurred      \* history: a load failed, or the form or the store changed during a request

doc == << form, selected, unsaved >>
dialog == << modal, typed, pending >>
requests == << loads, saves, deleting >>
world == << stored, page_open, listed, writes, opens >>
editorVars == << doc, dialog, requests, world, blurred >>

EditorTypeOK ==
    /\ DOMAIN stored \subseteq Names /\ \A n \in DOMAIN stored : stored[n] \in Content
    /\ page_open \in BOOLEAN /\ unsaved \in BOOLEAN
    /\ blurred \in BOOLEAN
    /\ listed \subseteq Names /\ loads \subseteq Names /\ saves \subseteq Save
    /\ form \in Content /\ selected \in Choices /\ pending \in Choices
    /\ typed \in Names \cup {None} /\ deleting \in Names \cup {None}
    /\ modal \in {"none", "warn", "save", "delete"}
    /\ writes \in 0..MaxSaves /\ opens \in 0..MaxOpens

EditorInit ==
    /\ stored = [n \in Stored |-> Pristine(n)]
    /\ page_open = FALSE /\ listed = {}
    /\ form = Pristine(New) /\ selected = None /\ unsaved = FALSE
    /\ modal = "none" /\ typed = None /\ pending = None
    /\ loads = {} /\ saves = {} /\ deleting = None
    /\ writes = 0 /\ opens = 0 /\ blurred = FALSE

Mine == {s \in saves : s.here}

-----------------------------------------------------------------------------
(* The page: mounted with the dashboard's selection, left, its list.       *)

\* What the dashboard selected is selected here too, but the form is not filled.
Open(dashboard) ==
    /\ ~page_open /\ opens < MaxOpens
    /\ page_open' = TRUE /\ opens' = opens + 1
    /\ selected' = dashboard /\ form' = Pristine(New) /\ unsaved' = FALSE
    /\ modal' = "none" /\ typed' = None /\ pending' = None
    /\ listed' = {} /\ loads' = {} /\ deleting' = None
    /\ blurred' = (saves # {})
    /\ UNCHANGED << stored, writes, saves >>

\* The banner asks to save before, nothing prevents it.
LeaveEditor ==
    /\ page_open /\ deleting = None
    /\ page_open' = FALSE
    /\ saves' = {[s EXCEPT !.here = FALSE] : s \in saves}
    /\ UNCHANGED << doc, dialog, stored, listed, writes, opens, loads, deleting,
                    blurred >>

ListAnswered ==
    /\ page_open /\ listed # DOMAIN stored
    /\ listed' = DOMAIN stored
    /\ UNCHANGED << doc, dialog, requests, stored, page_open, writes, opens, blurred >>

-----------------------------------------------------------------------------
(* Edits.  A field raises the flag in its own handler or through the       *)
(* watch, which looks for a selection.                                     *)

Uncovered == page_open /\ modal = "none"

Edit ==
    /\ Uncovered
    /\ form' = [form EXCEPT !.marked = ~@]
    /\ blurred' = (blurred \/ loads # {} \/ Mine # {})
    /\ UNCHANGED << selected, dialog, requests, world >>

WatchNothing == unsaved  \* mutant: the watch misses the field
WatchFlags == unsaved \/ selected # None

Flags == {TRUE, WatchFlags}

EditDescent == Edit /\ unsaved' \in Flags
EditBottom == Edit /\ unsaved' \in Flags
EditAscent == Edit /\ unsaved' \in Flags

-----------------------------------------------------------------------------
(* Choosing another configuration.                                         *)

\* resetToDefaults.
Reset ==
    /\ form' = Pristine(New) /\ selected' = New /\ unsaved' = FALSE
    /\ blurred' = (Mine # {})

Fetched(v) == Names \cap {v}

\* The selection changes at once, the form when the answer comes.
Switch(v) ==
    \/ /\ v = New
       /\ Reset
       /\ UNCHANGED loads
    \/ /\ v # New
       /\ selected' = v /\ unsaved' = FALSE
       /\ loads' = loads \cup Fetched(v)
       /\ UNCHANGED << form, blurred >>

Offered == listed \cup {New, None}
WarnOnNew == unsaved /\ selected = New  \* mutant: only a new configuration is warned about
MustWarn == unsaved

SelectWarned(v) ==
    /\ Uncovered /\ v \in Offered \ {selected}
    /\ MustWarn
    /\ pending' = v /\ modal' = "warn"
    /\ UNCHANGED << doc, typed, requests, world, blurred >>

Select(v) ==
    /\ Uncovered /\ v \in Offered \ {selected}
    /\ ~MustWarn
    /\ Switch(v)
    /\ UNCHANGED << dialog, saves, deleting, world >>

CancelNavigation ==
    /\ page_open /\ modal = "warn"
    /\ modal' = "none" /\ pending' = None
    /\ UNCHANGED << doc, typed, requests, world, blurred >>

DiscardChanges ==
    /\ page_open /\ modal = "warn"
    /\ modal' = "none" /\ pending' = None
    /\ Switch(pending)
    /\ UNCHANGED << typed, saves, deleting, world >>

\* applyConfig, whatever is selected or was edited by now.
LoadAnswered(n) ==
    /\ page_open /\ n \in loads /\ n \in DOMAIN stored
    /\ loads' = loads \ {n}
    /\ form' = stored[n] /\ unsaved' = FALSE
    /\ blurred' = (saves # {})
    /\ UNCHANGED << selected, dialog, saves, deleting, world >>

\* The form keeps what it had, under the new name.
LoadFailed(n) ==
    /\ page_open /\ n \in loads
    /\ loads' = loads \ {n}
    /\ blurred' = TRUE
    /\ UNCHANGED << doc, dialog, saves, deleting, world >>

-----------------------------------------------------------------------------
(* Saving.                                                                 *)

\* Also the way "Save" of the warning goes on: what is pending stays pending.
OpenSaveModal ==
    /\ page_open /\ modal \in {"none", "warn"}
    /\ modal' = "save" /\ typed' = None
    /\ UNCHANGED << doc, pending, requests, world, blurred >>

CloseSaveModal ==
    /\ page_open /\ modal = "save"
    /\ modal' = "none"
    /\ UNCHANGED << doc, typed, pending, requests, world, blurred >>

AsksOverwrite == selected \in Names /\ typed = None

\* generateNextConfigName: a name that is not in the list.
SaveAsNew(n) ==
    /\ page_open /\ modal = "save" /\ AsksOverwrite
    /\ n \in Names \ (listed \cup {selected})
    /\ typed' = n
    /\ UNCHANGED << doc, modal, pending, requests, world, blurred >>

Type(n) ==
    /\ page_open /\ modal = "save" /\ ~AsksOverwrite /\ n # typed
    /\ typed' = n
    /\ UNCHANGED << doc, modal, pending, requests, world, blurred >>

Send(name, renames) ==
    /\ writes < MaxSaves /\ writes' = writes + 1
    /\ saves' = saves \cup
         {[name |-> name, content |-> form, renames |-> renames, here |-> TRUE]}
    /\ UNCHANGED << doc, dialog, loads, deleting, stored, page_open, listed, opens, blurred >>

\* Under a name the operator typed or accepted: the content is that name's from then on.
SaveConfiguration ==
    /\ page_open /\ modal = "save" /\ typed # None
    /\ Send(typed, TRUE)

OverwriteSave ==
    /\ page_open /\ modal = "save" /\ AsksOverwrite
    /\ Send(selected, FALSE)

Written(s) == IF s.renames THEN [s.content EXCEPT !.of = s.name] ELSE s.content

Write(s) ==
    stored' = [m \in DOMAIN stored \cup {s.name} |-> IF m = s.name THEN Written(s) ELSE stored[m]]

\* The switch that waited for the save is made; nothing is loaded for it.
Resume(s) ==
    /\ typed' = None /\ pending' = None
    /\ modal' = IF modal = "save" \/ (modal = "warn" /\ pending # None) THEN "none" ELSE modal
    /\ IF pending = New
       THEN Reset
       ELSE /\ selected' = IF pending # None THEN pending
                           ELSE IF s.renames THEN s.name ELSE selected
            /\ form' = IF s.renames /\ form.of = s.content.of
                       THEN [form EXCEPT !.of = s.name] ELSE form
            /\ unsaved' = FALSE
            /\ blurred' = (blurred \/ form # s.content)

SaveAnswered(s) ==
    /\ page_open /\ s \in Mine
    /\ Write(s) /\ Resume(s)
    /\ saves' = saves \ {s}
    /\ listed' \in {listed, DOMAIN stored'}     \* the list is fetched again, if it can be
    /\ UNCHANGED << page_open, writes, opens, loads, deleting >>

\* Refused, or the answer is lost: the error is shown, the dialog stays.
SaveFailed(s) ==
    /\ s \in saves
    /\ \/ UNCHANGED stored
       \/ Write(s)
    /\ saves' = saves \ {s}
    /\ blurred' = (blurred \/ stored' # stored)
    /\ UNCHANGED << doc, dialog, page_open, listed, writes, opens, loads, deleting >>

-----------------------------------------------------------------------------
(* Deleting.                                                               *)

RequestDelete ==
    /\ Uncovered /\ selected \in Names
    /\ modal' = "delete"
    /\ UNCHANGED << doc, typed, pending, requests, world, blurred >>

CancelDelete ==
    /\ page_open /\ modal = "delete" /\ deleting = None
    /\ modal' = "none"
    /\ UNCHANGED << doc, typed, pending, requests, world, blurred >>

\* The name is read when the deletion is confirmed.
ConfirmDeletion ==
    /\ page_open /\ modal = "delete" /\ deleting = None
    /\ IF selected \in Names
       THEN /\ writes < MaxSaves /\ writes' = writes + 1
            /\ deleting' = selected /\ UNCHANGED modal
       ELSE modal' = "none" /\ UNCHANGED << writes, deleting >>
    /\ UNCHANGED << doc, typed, pending, loads, saves, stored, page_open, listed, opens,
                    blurred >>

DeleteAnswered ==
    /\ page_open /\ deleting # None
    /\ stored' = [m \in DOMAIN stored \ {deleting} |-> stored[m]]
    /\ listed' = listed \ {deleting}
    /\ modal' = "none" /\ deleting' = None
    /\ Reset
    /\ UNCHANGED << typed, pending, loads, saves, page_open, writes, opens >>

DeleteFailed ==
    /\ page_open /\ deleting # None
    /\ deleting' = None
    /\ UNCHANGED << doc, dialog, loads, saves, world, blurred >>

-----------------------------------------------------------------------------
PageStep == \/ \E d \in Choices : Open(d)
            \/ LeaveEditor
            \/ ListAnswered
EditStep == EditDescent \/ EditBottom \/ EditAscent
ChoiceStep == \/ \E v \in Choices : Select(v) \/ SelectWarned(v)
              \/ CancelNavigation
              \/ DiscardChanges
              \/ \E n \in Names : LoadAnswered(n) \/ LoadFailed(n)
SaveStep == \/ OpenSaveModal
            \/ CloseSaveModal
            \/ \E n \in Names : SaveAsNew(n) \/ Type(n)
            \/ SaveConfiguration
            \/ OverwriteSave
            \/ \E s \in saves : SaveAnswered(s) \/ SaveFailed(s)
DeleteStep == \/ RequestDelete
              \/ CancelDelete
              \/ ConfirmDeletion
              \/ DeleteAnswered
              \/ DeleteFailed

EditorNext == PageStep \/ EditStep \/ ChoiceStep \/ SaveStep \/ DeleteStep
EditorSpec == EditorInit /\ [][EditorNext]_editorVars

-----------------------------------------------------------------------------
(* Properties.                                                             *)

\* No request is under way that could still change the form or what is stored.
Quiet == loads = {} /\ saves = {} /\ deleting = None

\* "Overwrite: Replace the existing configuration with your updated settings."
\* (MissionProgramming.vue:2314): what is stored under a name was loaded from it, or saved
\* as it by name.
OwnContent == \A n \in DOMAIN stored : stored[n].of = n

\* A page that shows no unsaved changes holds, in the fields that are marked, what is
\* stored under the name it shows, if that is where the form came from and nothing was
\* edited while a request was under way.
CleanMeansSaved ==
    (page_open /\ Quiet /\ ~unsaved /\ ~blurred /\ OwnContent
       /\ selected \in DOMAIN stored /\ form.of = selected)
    => form.marked = stored[selected].marked

\* Changes announced as unsaved are replaced by another content only when the operator
\* discarded them or deleted the configuration, or when a save of them was answered.
EditsKept ==
    [][ (page_open /\ page_open' /\ unsaved /\ ~blurred /\ form'.of # form.of)
        => modal = "warn" \/ deleting # None \/ saves' # saves ]_editorVars
=============================================================================
