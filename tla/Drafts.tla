-------------------------------- MODULE Drafts --------------------------------
(***************************************************************************)
(* The draft of one recording's post, written by several devices at once:  *)
(* by field from the event page (save_draft_fields) and whole over the API *)
(* (save_draft), as models.py and recording_service.py do it, one step per *)
(* transaction.  A text is the number of the edit that typed it; 0 is what *)
(* a recording starts with.  Through are the fields that are the           *)
(* recording's own name and description: saved there as well, and shown    *)
(* from there.                                                             *)
(***************************************************************************)
EXTENDS Naturals

CONSTANTS
    Device,         \* pages and scripts, each with one save under way
    Field, Through, \* DRAFT_FIELDS, and the two _write_through knows
    MaxEdits        \* bound: edits ever made

ASSUME DraftsAssumption ==
    /\ Through \subseteq Field /\ MaxEdits \in Nat

VARIABLES
    recording,  \* what the recording has of the fields in Through
    row,        \* the row of post_drafts: stored (its blocks are not NULL),
                \*   fields, revision and field_revisions
    owned,      \* post_state is WordPress's
    doing,         \* of each device's request
    edit,       \* its changes: [field -> text]
    read,       \* the draft it was given before the write
    base,       \* the revision a whole save is based on
    edits,      \* edits ever made
    accepted    \* history: the text of the last save of each field to be
                \*   accepted

draftVars == <<recording, row, owned, doing, edit, read, base, edits, accepted>>

Text == 0..MaxEdits
Draft == [Field -> Text]
NoRow == [stored |-> FALSE, fields |-> [f \in Field |-> 0], revision |-> 0,
          revisions |-> [f \in Field |-> 0]]

DraftsInit ==
    /\ recording = [f \in Through |-> 0]
    /\ row = NoRow
    /\ owned = FALSE
    /\ doing = [d \in Device |-> "idle"]
    /\ edit = [d \in Device |-> [f \in {} |-> 0]]
    /\ read = [d \in Device |-> [f \in Field |-> 0]]
    /\ base = [d \in Device |-> 0]
    /\ edits = 0
    /\ accepted = [f \in Field |-> 0]

\* The stored draft or what a new one starts as, with the recording's own
\* name and description
get_draft ==
    [f \in Field |-> IF f \in Through THEN recording[f] ELSE row.fields[f]]

Moves(d, from, to) == doing[d] = from /\ doing' = [doing EXCEPT ![d] = to]
With(draft, changes) ==
    [f \in Field |-> IF f \in DOMAIN changes THEN changes[f] ELSE draft[f]]

-----------------------------------------------------------------------------
\* The crew type something: one field on the page, any of them over the API.
\* The API's user has looked at the draft, and sends the revision they saw
Asks(d, to, fields) ==
    /\ Moves(d, "idle", to)
    /\ edits < MaxEdits /\ edits' = edits + 1
    /\ edit' = [edit EXCEPT ![d] = [f \in fields |-> edits']]

EditField(d) ==
    /\ \E f \in Field : Asks(d, "check field", {f})
    /\ UNCHANGED <<recording, row, owned, read, base, accepted>>

EditWhole(d) ==
    /\ \E fields \in (SUBSET Field) \ {{}} : Asks(d, "check whole", fields)
    /\ base' = [base EXCEPT ![d] = row.revision]
    /\ UNCHANGED <<recording, row, owned, read, accepted>>

\* WordPress has the post: change it there
Refused(d) ==
    /\ \/ Moves(d, "check field", "idle")
       \/ Moves(d, "check whole", "idle")
    /\ owned
    /\ UNCHANGED <<recording, row, owned, edit, read, base, edits, accepted>>

Checked(d) ==
    /\ \/ Moves(d, "check field", "write through")
       \/ Moves(d, "check whole", "read whole")
    /\ ~owned
    /\ UNCHANGED <<recording, row, owned, edit, read, base, edits, accepted>>

\* A title or description is the recording's as well, in a transaction of its own
Overwritten(d) ==
    [f \in Through |-> IF f \in DOMAIN edit[d] THEN edit[d][f] ELSE recording[f]]

WriteThrough(d) ==
    /\ \/ Moves(d, "write through", "read field")
       \/ Moves(d, "write through whole", "idle")
    /\ recording' = Overwritten(d)
    /\ UNCHANGED <<row, owned, edit, read, base, edits, accepted>>

ReadDraft(d) ==
    /\ \/ Moves(d, "read field", "store field")
       \/ Moves(d, "read whole", "store whole")
    /\ read' = [read EXCEPT ![d] = get_draft]
    /\ UNCHANGED <<recording, row, owned, edit, base, edits, accepted>>

-----------------------------------------------------------------------------
Accepts(d) == accepted' = With(accepted, edit[d])

\* Mutant: the draft is read before the lock, and written whole
StoreFieldOfRead(d) ==
    /\ Moves(d, "store field", "idle")
    /\ LET revision == row.revision + 1 IN
       row' = [stored |-> TRUE, revision |-> revision,
               fields |-> With(read[d], edit[d]),
               revisions |-> With(row.revisions, [f \in DOMAIN edit[d] |-> revision])]
    /\ Accepts(d)
    /\ UNCHANGED <<recording, owned, edit, read, base, edits>>

\* The write lock, then the read: only its own fields, each with the revision
\* it changed at.  A first save stores what the draft started as as well
StoreField(d) ==
    /\ Moves(d, "store field", "idle")
    /\ LET revision == row.revision + 1 IN
       row' = [stored |-> TRUE, revision |-> revision,
               fields |-> With(IF row.stored THEN row.fields ELSE read[d], edit[d]),
               revisions |-> With(row.revisions, [f \in DOMAIN edit[d] |-> revision])]
    /\ Accepts(d)
    /\ UNCHANGED <<recording, owned, edit, read, base, edits>>

\* Mutant: the revision it is based on is not asked about
StoreWholeAnyway(d) ==
    /\ Moves(d, "store whole", "write through whole")
    /\ row' = [row EXCEPT !.stored = TRUE, !.revision = @ + 1,
                          !.fields = With(read[d], edit[d])]
    /\ Accepts(d)
    /\ UNCHANGED <<recording, owned, edit, read, base, edits>>

\* The whole draft, if nobody has saved since: the check and the write are one
\* statement.  The fields' own revisions stay as they were
StoreWhole(d) ==
    /\ row.revision = base[d]
    /\ Moves(d, "store whole", "write through whole")
    /\ row' = [row EXCEPT !.stored = TRUE, !.revision = @ + 1,
                          !.fields = With(read[d], edit[d])]
    /\ Accepts(d)
    /\ UNCHANGED <<recording, owned, edit, read, base, edits>>

\* Changed elsewhere
Conflict(d) ==
    /\ row.revision # base[d]
    /\ Moves(d, "store whole", "idle")
    /\ UNCHANGED <<recording, row, owned, edit, read, base, edits, accepted>>

-----------------------------------------------------------------------------
\* A publish ends: the post is WordPress's
Own ==
    /\ ~owned /\ owned' = TRUE
    /\ UNCHANGED <<recording, row, doing, edit, read, base, edits, accepted>>

\* An outage: every request is gone, wherever it was
RequestsDie ==
    /\ \E d \in Device : doing[d] # "idle"
    /\ doing' = [d \in Device |-> "idle"]
    /\ UNCHANGED <<recording, row, owned, edit, read, base, edits, accepted>>

DraftsNext ==
    \/ \E d \in Device :
        \/ EditField(d) \/ EditWhole(d) \/ Refused(d) \/ Checked(d)
        \/ WriteThrough(d) \/ ReadDraft(d)
        \/ StoreField(d) \/ StoreWhole(d) \/ Conflict(d)
    \/ Own \/ RequestsDie

DraftsSpec == DraftsInit /\ [][DraftsNext]_draftVars
-----------------------------------------------------------------------------
\* Every field of the stored draft is what the last save of it that was
\* accepted made it, whichever device saved, whole or by field: no save undoes
\* another's ("so the phone's title and the iPad's story never undo each
\* other"; "two devices saving at once cannot both win")
FieldIsLastSaved ==
    row.stored => \A f \in Field \ Through : row.fields[f] = accepted[f]

\* The name of the recording is the title last saved.  It is not so where two
\* title saves cross between the recording and the draft, or a save dies there
NameIsLastSaved ==
    (\A d \in Device : doing[d] = "idle") /\ row.stored
        => \A f \in Through : recording[f] = accepted[f]
===============================================================================
