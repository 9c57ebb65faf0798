--------------------------- MODULE MissionEditorProofs ---------------------------
(***************************************************************************)
(* The configuration editor, for any configurations and any number of     *)
(* requests under way.                                                     *)
(***************************************************************************)
EXTENDS MissionEditor, TLAPS

USE NamesAssumption DEF NamesAssumption

-----------------------------------------------------------------------------
(* Types.                                                                  *)

LEMMA PristineContent == Pristine(New) \in Content
  BY DEF Pristine, Content

LEMMA EditorInitTypes == EditorInit => EditorTypeOK
<1> SUFFICES ASSUME EditorInit PROVE EditorTypeOK
  OBVIOUS
<1>1. \A n \in Stored : Pristine(n) \in Content
  BY DEF Pristine, Content
<1>2. DOMAIN stored \subseteq Names /\ \A n \in DOMAIN stored : stored[n] \in Content
  BY <1>1 DEF EditorInit
<1>3. 0 \in 0..MaxSaves /\ 0 \in 0..MaxOpens
  OBVIOUS
<1>4. page_open \in BOOLEAN /\ unsaved \in BOOLEAN /\ blurred \in BOOLEAN
  BY DEF EditorInit
<1>5. selected = None /\ pending = None /\ typed = None /\ deleting = None /\ modal = "none"
  BY DEF EditorInit
<1>6. form \in Content /\ listed = {} /\ loads = {} /\ saves = {} /\ writes = 0 /\ opens = 0
  BY PristineContent DEF EditorInit
<1> QED BY <1>2, <1>3, <1>4, <1>5, <1>6 DEF EditorTypeOK, Choices

\* The types of what one group of the page's variables holds.
StoreOK == DOMAIN stored \subseteq Names /\ \A n \in DOMAIN stored : stored[n] \in Content
DocOK == form \in Content /\ selected \in Choices /\ unsaved \in BOOLEAN
DialogOK == /\ modal \in {"none", "warn", "save", "delete"}
            /\ typed \in Names \cup {None} /\ pending \in Choices
RequestsOK == loads \subseteq Names /\ saves \subseteq Save /\ deleting \in Names \cup {None}
WorldOK == /\ page_open \in BOOLEAN /\ listed \subseteq Names
           /\ writes \in 0..MaxSaves /\ opens \in 0..MaxOpens

LEMMA EditorParts ==
    /\ EditorTypeOK => /\ StoreOK /\ DocOK /\ DialogOK /\ RequestsOK /\ WorldOK
                       /\ blurred \in BOOLEAN
    /\ /\ StoreOK' /\ DocOK' /\ DialogOK' /\ RequestsOK' /\ WorldOK' /\ blurred' \in BOOLEAN
       => EditorTypeOK'
  BY DEF EditorTypeOK, StoreOK, DocOK, DialogOK, RequestsOK, WorldOK

\* Untouched groups keep their types.
LEMMA DocKept == DocOK /\ UNCHANGED doc => DocOK'
  BY DEF DocOK, doc
LEMMA DialogKept == DialogOK /\ UNCHANGED dialog => DialogOK'
  BY DEF DialogOK, dialog
LEMMA RequestsKept == RequestsOK /\ UNCHANGED requests => RequestsOK'
  BY DEF RequestsOK, requests
LEMMA WorldKept == StoreOK /\ WorldOK /\ UNCHANGED world => StoreOK' /\ WorldOK'
  BY DEF StoreOK, WorldOK, world

LEMMA ResetTypes == Reset => DocOK' /\ blurred' \in BOOLEAN
  BY PristineContent, Zenon DEF Reset, DocOK, Choices

LEMMA SwitchTypes ==
    ASSUME DocOK, RequestsOK, blurred \in BOOLEAN, NEW v \in Choices, Switch(v)
    PROVE  DocOK' /\ loads' \subseteq Names /\ blurred' \in BOOLEAN
<1>1. CASE v = New
  BY <1>1, ResetTypes DEF Switch, RequestsOK
<1>2. CASE v # New
  BY <1>2 DEF Switch, Fetched, DocOK, RequestsOK
<1> QED BY <1>1, <1>2

LEMMA WrittenContent ==
    ASSUME NEW s \in Save
    PROVE  Written(s) \in Content
  BY DEF Written, Save, Content

LEMMA WriteTypes ==
    ASSUME StoreOK, NEW s \in Save, Write(s)
    PROVE  StoreOK'
<1>1. s.name \in Names /\ Written(s) \in Content
  BY WrittenContent DEF Save
<1> QED BY <1>1 DEF StoreOK, Write

LEMMA ResumeTypes ==
    ASSUME DocOK, DialogOK, blurred \in BOOLEAN, NEW s \in Save, Resume(s)
    PROVE  DocOK' /\ DialogOK' /\ blurred' \in BOOLEAN
<1>1. DialogOK'
  BY DEF Resume, DialogOK, Choices
<1>2. CASE pending = New
  BY <1>1, <1>2, ResetTypes DEF Resume
<1>3. CASE pending # New
  <2>1. s.name \in Names
    BY DEF Save
  <2>2. form' \in Content
    BY <1>3, <2>1 DEF Resume, DocOK, Content
  <2>3. selected' \in Choices
    BY <1>3, <2>1 DEF Resume, DocOK, DialogOK, Choices
  <2>4. unsaved' \in BOOLEAN /\ blurred' \in BOOLEAN
    BY <1>3 DEF Resume
  <2> QED BY <1>1, <2>2, <2>3, <2>4 DEF DocOK
<1> QED BY <1>2, <1>3

LEMMA SendTypes ==
    ASSUME StoreOK, DocOK, RequestsOK, WorldOK, NEW n \in Names, NEW r \in BOOLEAN, Send(n, r)
    PROVE  StoreOK' /\ RequestsOK' /\ WorldOK'
<1>1. [name |-> n, content |-> form, renames |-> r, here |-> TRUE] \in Save
  BY DEF Save, DocOK
<1>2. saves' \subseteq Save
  BY <1>1 DEF Send, RequestsOK
<1>3. writes' \in 0..MaxSaves
  BY DEF Send, WorldOK
<1> QED BY <1>2, <1>3 DEF Send, StoreOK, RequestsOK, WorldOK

LEMMA PageTypes == ASSUME EditorTypeOK, PageStep PROVE EditorTypeOK'
<1> USE EditorParts
<1>1. ASSUME NEW d \in Choices, Open(d) PROVE EditorTypeOK'
  <2>1. opens' \in 0..MaxOpens /\ blurred' \in BOOLEAN
    BY <1>1 DEF Open, WorldOK
  <2>2. StoreOK' /\ DocOK' /\ WorldOK'
    BY <1>1, <2>1, PristineContent DEF Open, StoreOK, DocOK, WorldOK
  <2>3. DialogOK' /\ RequestsOK'
    BY <1>1 DEF Open, DialogOK, RequestsOK, Choices
  <2> QED BY <2>1, <2>2, <2>3
<1>2. CASE LeaveEditor
  <2>1. \A s \in Save : [s EXCEPT !.here = FALSE] \in Save
    BY DEF Save
  <2>2. saves' \subseteq Save
    BY <1>2, <2>1 DEF LeaveEditor, RequestsOK
  <2>3. StoreOK' /\ RequestsOK' /\ WorldOK' /\ blurred' \in BOOLEAN
    BY <1>2, <2>2 DEF LeaveEditor, StoreOK, RequestsOK, WorldOK
  <2> QED BY <1>2, <2>3, DocKept, DialogKept DEF LeaveEditor
<1>3. CASE ListAnswered
  <2>1. StoreOK' /\ WorldOK' /\ blurred' \in BOOLEAN
    BY <1>3 DEF ListAnswered, StoreOK, WorldOK
  <2> QED BY <1>3, <2>1, DocKept, DialogKept, RequestsKept DEF ListAnswered
<1> QED BY <1>1, <1>2, <1>3 DEF PageStep

LEMMA EditTypes == ASSUME EditorTypeOK, EditStep PROVE EditorTypeOK'
<1> USE EditorParts
<1>1. Edit /\ unsaved' \in Flags
  BY DEF EditStep, EditDescent, EditBottom, EditAscent
<1>2. form' \in Content /\ selected' = selected
  BY <1>1 DEF Edit, DocOK, Content
<1>3. blurred' \in BOOLEAN /\ unsaved' \in BOOLEAN
  BY <1>1, Zenon DEF Edit, Flags, WatchFlags, DocOK
<1> QED BY <1>1, <1>2, <1>3, DialogKept, RequestsKept, WorldKept DEF Edit, DocOK

LEMMA ChoiceTypes == ASSUME EditorTypeOK, ChoiceStep PROVE EditorTypeOK'
<1> USE EditorParts
<1>1. ASSUME NEW v \in Choices, Select(v) PROVE EditorTypeOK'
  <2>1. DocOK' /\ RequestsOK' /\ blurred' \in BOOLEAN
    BY <1>1, SwitchTypes DEF Select, RequestsOK
  <2> QED BY <1>1, <2>1, DialogKept, WorldKept DEF Select
<1>2. ASSUME NEW v \in Choices, SelectWarned(v) PROVE EditorTypeOK'
  <2>1. DialogOK' /\ blurred' \in BOOLEAN
    BY <1>2 DEF SelectWarned, DialogOK
  <2> QED BY <1>2, <2>1, DocKept, RequestsKept, WorldKept DEF SelectWarned
<1>3. CASE CancelNavigation
  <2>1. DialogOK' /\ blurred' \in BOOLEAN
    BY <1>3 DEF CancelNavigation, DialogOK, Choices
  <2> QED BY <1>3, <2>1, DocKept, RequestsKept, WorldKept DEF CancelNavigation
<1>4. CASE DiscardChanges
  <2>1. DialogOK'
    BY <1>4 DEF DiscardChanges, DialogOK, Choices
  <2>2. DocOK' /\ RequestsOK' /\ blurred' \in BOOLEAN
    BY <1>4, SwitchTypes DEF DiscardChanges, DialogOK, RequestsOK
  <2> QED BY <1>4, <2>1, <2>2, WorldKept DEF DiscardChanges
<1>5. ASSUME NEW n \in Names, LoadAnswered(n) PROVE EditorTypeOK'
  <2>1. DocOK' /\ RequestsOK' /\ blurred' \in BOOLEAN
    BY <1>5 DEF LoadAnswered, StoreOK, DocOK, RequestsOK
  <2> QED BY <1>5, <2>1, DialogKept, WorldKept DEF LoadAnswered
<1>6. ASSUME NEW n \in Names, LoadFailed(n) PROVE EditorTypeOK'
  <2>1. RequestsOK' /\ blurred' \in BOOLEAN
    BY <1>6 DEF LoadFailed, RequestsOK
  <2> QED BY <1>6, <2>1, DocKept, DialogKept, WorldKept DEF LoadFailed
<1> QED BY <1>1, <1>2, <1>3, <1>4, <1>5, <1>6 DEF ChoiceStep

LEMMA SaveTypes == ASSUME EditorTypeOK, SaveStep PROVE EditorTypeOK'
<1> USE EditorParts
<1>1. CASE OpenSaveModal
  <2>1. DialogOK' /\ blurred' \in BOOLEAN
    BY <1>1 DEF OpenSaveModal, DialogOK
  <2> QED BY <1>1, <2>1, DocKept, RequestsKept, WorldKept DEF OpenSaveModal
<1>2. CASE CloseSaveModal
  <2>1. DialogOK' /\ blurred' \in BOOLEAN
    BY <1>2 DEF CloseSaveModal, DialogOK
  <2> QED BY <1>2, <2>1, DocKept, RequestsKept, WorldKept DEF CloseSaveModal
<1>3. ASSUME NEW n \in Names, SaveAsNew(n) \/ Type(n) PROVE EditorTypeOK'
  <2>1. DialogOK' /\ blurred' \in BOOLEAN
    BY <1>3 DEF SaveAsNew, Type, DialogOK
  <2> QED BY <1>3, <2>1, DocKept, RequestsKept, WorldKept DEF SaveAsNew, Type
<1>4. ASSUME NEW n \in Names, NEW r \in BOOLEAN, Send(n, r) PROVE EditorTypeOK'
  BY <1>4, SendTypes, DocKept, DialogKept DEF Send
<1>5. CASE SaveConfiguration \/ OverwriteSave
  <2>1. PICK n \in Names, r \in BOOLEAN : Send(n, r)
    BY <1>5 DEF SaveConfiguration, OverwriteSave, AsksOverwrite, DialogOK
  <2> QED BY <2>1, <1>4
<1>6. ASSUME NEW s \in saves, SaveAnswered(s) PROVE EditorTypeOK'
  <2>1. s \in Save
    BY DEF RequestsOK
  <2>2. StoreOK'
    BY <1>6, <2>1, WriteTypes DEF SaveAnswered
  <2>3. DocOK' /\ DialogOK' /\ blurred' \in BOOLEAN
    BY <1>6, <2>1, ResumeTypes DEF SaveAnswered
  <2>4. RequestsOK' /\ WorldOK'
    BY <1>6, <2>2 DEF SaveAnswered, StoreOK, RequestsOK, WorldOK
  <2> QED BY <2>2, <2>3, <2>4
<1>7. ASSUME NEW s \in saves, SaveFailed(s) PROVE EditorTypeOK'
  <2>1. StoreOK'
    BY <1>7, WriteTypes DEF SaveFailed, StoreOK, RequestsOK
  <2>2. blurred' \in BOOLEAN
    BY <1>7, Zenon DEF SaveFailed
  <2>3. RequestsOK' /\ WorldOK'
    BY <1>7 DEF SaveFailed, RequestsOK, WorldOK
  <2> QED BY <1>7, <2>1, <2>2, <2>3, DocKept, DialogKept DEF SaveFailed
<1> QED BY <1>1, <1>2, <1>3, <1>5, <1>6, <1>7 DEF SaveStep

LEMMA DeleteTypes == ASSUME EditorTypeOK, DeleteStep PROVE EditorTypeOK'
<1> USE EditorParts
<1>1. CASE RequestDelete \/ CancelDelete
  <2>1. DialogOK' /\ blurred' \in BOOLEAN
    BY <1>1 DEF RequestDelete, CancelDelete, DialogOK
  <2> QED BY <1>1, <2>1, DocKept, RequestsKept, WorldKept DEF RequestDelete, CancelDelete
<1>2. CASE ConfirmDeletion
  <2>1. DialogOK' /\ RequestsOK'
    BY <1>2 DEF ConfirmDeletion, DialogOK, RequestsOK
  <2>2. writes' \in 0..MaxSaves
    BY <1>2 DEF ConfirmDeletion, WorldOK
  <2>3. StoreOK' /\ WorldOK' /\ blurred' \in BOOLEAN
    BY <1>2, <2>2 DEF ConfirmDeletion, StoreOK, WorldOK
  <2> QED BY <1>2, <2>1, <2>3, DocKept DEF ConfirmDeletion
<1>3. CASE DeleteAnswered
  <2>1. StoreOK' /\ DialogOK' /\ RequestsOK' /\ WorldOK'
    BY <1>3 DEF DeleteAnswered, StoreOK, DialogOK, RequestsOK, WorldOK
  <2> QED BY <1>3, <2>1, ResetTypes DEF DeleteAnswered
<1>4. CASE DeleteFailed
  <2>1. RequestsOK' /\ blurred' \in BOOLEAN
    BY <1>4 DEF DeleteFailed, RequestsOK
  <2> QED BY <1>4, <2>1, DocKept, DialogKept, WorldKept DEF DeleteFailed
<1> QED BY <1>1, <1>2, <1>3, <1>4 DEF DeleteStep

LEMMA EditorTypes == EditorTypeOK /\ [EditorNext]_editorVars => EditorTypeOK'
<1>1. EditorTypeOK /\ UNCHANGED editorVars => EditorTypeOK'
  BY DEF EditorTypeOK, editorVars, doc, dialog, requests, world
<1> QED BY <1>1, PageTypes, EditTypes, ChoiceTypes, SaveTypes, DeleteTypes DEF EditorNext

\* The variables of the editor keep their types (MissionProgramming.vue:39).
THEOREM EditorTypeCorrect == EditorSpec => []EditorTypeOK
  BY EditorInitTypes, EditorTypes, PTL DEF EditorSpec

-----------------------------------------------------------------------------
(* What the form holds.                                                    *)

\* A load under way would replace nothing that is announced as unsaved.
LoadHarmless == unsaved /\ loads # {} => blurred

\* What CleanMeansSaved says of a page, whichever saves and deletions are under way: the
\* form changes when they are answered, and then it is compared.
Agreed ==
    (page_open /\ loads = {} /\ ~unsaved /\ ~blurred /\ OwnContent
       /\ selected \in DOMAIN stored /\ form.of = selected)
    => form.marked = stored[selected].marked

EditorInv == LoadHarmless /\ Agreed

\* A form that was reset is that of no stored configuration.
LEMMA ResetAgrees ==
    ASSUME Reset, DOMAIN stored' \subseteq Names
    PROVE  EditorInv'
  BY DEF Reset, EditorInv, LoadHarmless, Agreed

LEMMA SwitchAgrees ==
    ASSUME EditorTypeOK, NEW v \in Choices, Switch(v), stored' = stored
    PROVE  EditorInv'
<1>1. DOMAIN stored' \subseteq Names
  BY DEF EditorTypeOK
<1>2. CASE v = New
  BY <1>1, <1>2, ResetAgrees DEF Switch
<1>3. CASE v # New /\ v \in Names
  BY <1>3 DEF Switch, Fetched, EditorInv, LoadHarmless, Agreed
<1>4. CASE v # New /\ v \notin Names
  BY <1>1, <1>4 DEF Switch, EditorInv, LoadHarmless, Agreed
<1> QED BY <1>2, <1>3, <1>4

\* The form that was saved is compared with the one there is.
LEMMA ResumeAgrees ==
    ASSUME EditorTypeOK, NEW s \in Save, Write(s), Resume(s)
    PROVE  EditorInv'
<1>1. s.name \in Names /\ DOMAIN stored \subseteq Names /\ form \in Content
  BY DEF Save, EditorTypeOK
<1>2. DOMAIN stored' = DOMAIN stored \cup {s.name} /\ stored'[s.name] = Written(s)
  BY DEF Write
<1>3. CASE pending = New
  BY <1>1, <1>2, <1>3, ResetAgrees DEF Resume
<1>4. CASE pending # New
  <2>1. ~unsaved' /\ (blurred' \/ form = s.content)
    BY <1>4 DEF Resume
  <2>2. ASSUME form = s.content PROVE form' = Written(s)
    BY <1>4, <2>2 DEF Resume, Written
  <2>3. ASSUME ~blurred', OwnContent', form'.of = selected'
        PROVE  form' = stored'[selected']
    <3>1. form' = stored'[s.name]
      BY <1>2, <2>1, <2>2, <2>3
    <3>2. form'.of = s.name
      BY <1>2, <2>3, <3>1 DEF OwnContent
    <3> QED BY <2>3, <3>1, <3>2
  <2> QED BY <2>1, <2>3 DEF EditorInv, LoadHarmless, Agreed
<1> QED BY <1>3, <1>4

\* A step that changes neither the document nor what it is compared with.
LEMMA Untouched ==
    ASSUME EditorInv, UNCHANGED << doc, stored, loads >>, page_open' => page_open,
           blurred => blurred'
    PROVE  EditorInv'
  BY DEF EditorInv, LoadHarmless, Agreed, OwnContent, doc

LEMMA EditorStep == EditorTypeOK /\ EditorInv /\ [EditorNext]_editorVars => EditorInv'
<1> SUFFICES ASSUME EditorTypeOK, EditorInv, [EditorNext]_editorVars PROVE EditorInv'
  OBVIOUS
<1>0. CASE UNCHANGED editorVars
  BY <1>0, Untouched DEF editorVars, requests, world
<1>1. CASE PageStep
  <2>1. ASSUME NEW d \in Choices, Open(d) PROVE EditorInv'
    <3>1. /\ form' = Pristine(New) /\ ~unsaved' /\ DOMAIN stored' \subseteq Names
      BY <2>1 DEF Open, EditorTypeOK
    <3> QED BY <3>1 DEF EditorInv, LoadHarmless, Agreed, Pristine
  <2>2. CASE LeaveEditor \/ ListAnswered
    BY <2>2, Untouched DEF LeaveEditor, ListAnswered, requests
  <2> QED BY <1>1, <2>1, <2>2 DEF PageStep
<1>2. CASE EditStep
  <2>1. Edit /\ unsaved' \in Flags
    BY <1>2 DEF EditStep, EditDescent, EditBottom, EditAscent
  <2>2. /\ selected' = selected /\ loads' = loads /\ stored' = stored
        /\ blurred' = (blurred \/ loads # {} \/ Mine # {})
    BY <2>1 DEF Edit, requests, world
  <2>3. unsaved' \/ selected = None
    BY <2>1 DEF Flags, WatchFlags
  <2>4. None \notin DOMAIN stored
    BY DEF EditorTypeOK
  <2> QED BY <2>2, <2>3, <2>4 DEF EditorInv, LoadHarmless, Agreed
<1>3. CASE ChoiceStep
  <2>1. ASSUME NEW v \in Choices, Select(v) PROVE EditorInv'
    BY <2>1, SwitchAgrees DEF Select, world
  <2>2. ASSUME NEW v \in Choices, SelectWarned(v) PROVE EditorInv'
    BY <2>2, Untouched DEF SelectWarned, requests, world
  <2>3. CASE CancelNavigation
    BY <2>3, Untouched DEF CancelNavigation, requests, world
  <2>4. CASE DiscardChanges
    BY <2>4, SwitchAgrees DEF DiscardChanges, world, EditorTypeOK
  <2>5. ASSUME NEW n \in Names, LoadAnswered(n) PROVE EditorInv'
    <3>1. form' = stored'[n] /\ n \in DOMAIN stored' /\ ~unsaved'
      BY <2>5 DEF LoadAnswered, world
    <3>2. OwnContent' => form'.of = n
      BY <3>1 DEF OwnContent
    <3> QED BY <3>1, <3>2 DEF EditorInv, LoadHarmless, Agreed
  <2>6. ASSUME NEW n \in Names, LoadFailed(n) PROVE EditorInv'
    BY <2>6 DEF LoadFailed, EditorInv, LoadHarmless, Agreed
  <2> QED BY <1>3, <2>1, <2>2, <2>3, <2>4, <2>5, <2>6 DEF ChoiceStep
<1>4. CASE SaveStep
  <2>1. CASE OpenSaveModal \/ CloseSaveModal
    BY <2>1, Untouched DEF OpenSaveModal, CloseSaveModal, requests, world
  <2>2. ASSUME NEW n \in Names, SaveAsNew(n) \/ Type(n) PROVE EditorInv'
    BY <2>2, Untouched DEF SaveAsNew, Type, requests, world
  <2>3. CASE SaveConfiguration \/ OverwriteSave
    BY <2>3, Untouched DEF SaveConfiguration, OverwriteSave, Send
  <2>4. ASSUME NEW s \in saves, SaveAnswered(s) PROVE EditorInv'
    <3>1. s \in Save
      BY DEF EditorTypeOK
    <3> QED BY <2>4, <3>1, ResumeAgrees DEF SaveAnswered
  <2>5. ASSUME NEW s \in saves, SaveFailed(s) PROVE EditorInv'
    <3>1. CASE stored' = stored
      BY <2>5, <3>1, Untouched DEF SaveFailed
    <3>2. CASE stored' # stored
      BY <2>5, <3>2 DEF SaveFailed, EditorInv, LoadHarmless, Agreed
    <3> QED BY <3>1, <3>2
  <2> QED BY <1>4, <2>1, <2>2, <2>3, <2>4, <2>5 DEF SaveStep
<1>5. CASE DeleteStep
  <2>1. CASE RequestDelete \/ CancelDelete
    BY <2>1, Untouched DEF RequestDelete, CancelDelete, requests, world
  <2>2. CASE ConfirmDeletion \/ DeleteFailed
    BY <2>2, Untouched DEF ConfirmDeletion, DeleteFailed, world
  <2>3. CASE DeleteAnswered
    BY <2>3, ResetAgrees DEF DeleteAnswered, EditorTypeOK
  <2> QED BY <1>5, <2>1, <2>2, <2>3 DEF DeleteStep
<1> QED BY <1>0, <1>1, <1>2, <1>3, <1>4, <1>5 DEF EditorNext

LEMMA EditorInductive == EditorSpec => [](EditorTypeOK /\ EditorInv)
<1>1. EditorInit => EditorInv
  BY DEF EditorInit, EditorInv, LoadHarmless, Agreed
<1> QED BY <1>1, EditorInitTypes, EditorTypes, EditorStep, PTL DEF EditorSpec

\* A page that shows no unsaved changes shows what is stored, whatever loads overtook each
\* other and whatever was saved or deleted meanwhile (MissionProgramming.vue:511), with the
\* exceptions the property names.
THEOREM EditorCleanMeansSaved == EditorSpec => []CleanMeansSaved
<1>1. EditorInv => CleanMeansSaved
  BY DEF EditorInv, Agreed, CleanMeansSaved, Quiet
<1> QED BY <1>1, EditorInductive, PTL

\* A step that replaces the content of the form.
LEMMA Replaces ==
    ASSUME EditorTypeOK, EditorInv, EditorNext, page_open, page_open', unsaved, ~blurred,
           form'.of # form.of
    PROVE  modal = "warn" \/ deleting # None \/ saves' # saves
<1>1. CASE PageStep
  BY <1>1 DEF PageStep, Open, LeaveEditor, ListAnswered, doc
<1>2. CASE EditStep
  BY <1>2 DEF EditStep, EditDescent, EditBottom, EditAscent, Edit, EditorTypeOK, Content
<1>3. CASE ChoiceStep
  <2>1. CASE \E v \in Choices : Select(v) \/ SelectWarned(v)
    BY <2>1 DEF Select, SelectWarned, MustWarn, doc
  <2>2. CASE CancelNavigation \/ DiscardChanges
    BY <2>2 DEF CancelNavigation, DiscardChanges
  <2>3. CASE \E n \in Names : LoadAnswered(n)
    BY <2>3 DEF LoadAnswered, EditorInv, LoadHarmless
  <2>4. CASE \E n \in Names : LoadFailed(n)
    BY <2>4 DEF LoadFailed, doc
  <2> QED BY <1>3, <2>1, <2>2, <2>3, <2>4 DEF ChoiceStep
<1>4. CASE SaveStep
  <2>1. CASE \E s \in saves : SaveAnswered(s)
    BY <2>1 DEF SaveAnswered
  <2>2. CASE form' = form
    BY <2>2
  <2> QED BY <1>4, <2>1, <2>2
          DEF SaveStep, OpenSaveModal, CloseSaveModal, SaveAsNew, Type, SaveConfiguration,
              OverwriteSave, Send, SaveFailed, doc
<1>5. CASE DeleteStep
  BY <1>5 DEF DeleteStep, RequestDelete, CancelDelete, ConfirmDeletion, DeleteAnswered,
              DeleteFailed, doc
<1> QED BY <1>1, <1>2, <1>3, <1>4, <1>5 DEF EditorNext

\* Changes announced as unsaved are replaced only when the operator discarded them or
\* deleted the configuration, or when a save was answered: no load that is still under way
\* does so (MissionProgramming.vue:1072).
THEOREM EditorEditsKept == EditorSpec => EditsKept
<1>1. EditorTypeOK /\ EditorInv /\ [EditorNext]_editorVars
        => [ (page_open /\ page_open' /\ unsaved /\ ~blurred /\ form'.of # form.of)
                => modal = "warn" \/ deleting # None \/ saves' # saves ]_editorVars
  BY Replaces
<1> QED BY <1>1, EditorInductive, PTL DEF EditorSpec, EditsKept
=============================================================================
