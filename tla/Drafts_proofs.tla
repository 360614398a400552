----------------------------- MODULE Drafts_proofs -----------------------------
(***************************************************************************)
(* That no save of a draft undoes another's, for any number of devices,    *)
(* fields and edits.  What a save read before its write may be old by the  *)
(* time it is written: a whole save is then of an older revision, and a    *)
(* save by field uses it only while there is no row at all.  And that what *)
(* the event page shows is true, whatever went on while it was put         *)
(* together: what is kept of a recording's lines is what it was kept as,   *)
(* and what a request read of a recording is what it then was.  And that   *)
(* the pictures on it are those of the last drawing.                       *)
(***************************************************************************)
EXTENDS Drafts, EventPage, Drawing, FiniteSetTheorems, SequenceTheorems, TLAPS

Doing == {"idle", "check field", "check whole", "write through", "write through whole",
          "read field", "read whole", "store field", "store whole"}
Changes == UNION {[fields -> Text] : fields \in SUBSET Field}

TypeOK ==
    /\ recording \in [Through -> Text]
    /\ row \in [stored : BOOLEAN, fields : Draft, revision : Nat, revisions : [Field -> Nat]]
    /\ owned \in BOOLEAN
    /\ doing \in [Device -> Doing]
    /\ edit \in [Device -> Changes]
    /\ read \in [Device -> Draft]
    /\ base \in [Device -> Nat]
    /\ edits \in Text
    /\ accepted \in Draft

\* A draft agrees with what was accepted, in the fields that are its own
Agrees(draft) == \A f \in Field \ Through : draft[f] = accepted[f]

\* Before the first save everything is as a recording starts
NothingBefore == ~row.stored => Agrees(row.fields)

BaseWasThere == \A d \in Device : base[d] <= row.revision

\* What a save is about to write over, or into, is up to date if it is used
ReadIsCurrent ==
    \A d \in Device :
        \/ doing[d] = "store whole" /\ base[d] = row.revision
        \/ doing[d] = "store field" /\ ~row.stored
        => Agrees(read[d])

DraftInv ==
    /\ TypeOK
    /\ FieldIsLastSaved
    /\ NothingBefore
    /\ BaseWasThere
    /\ ReadIsCurrent

-----------------------------------------------------------------------------
\* What is saved is one of the drafts there are, with the changes in it
LEMMA WithIsDraft ==
    ASSUME NEW draft \in Draft, NEW changes \in Changes
    PROVE  With(draft, changes) \in Draft
  BY DEF With, Draft, Changes

\* Of two drafts that agree, what a save makes does
LEMMA WithAgrees ==
    ASSUME NEW draft, NEW changes, Agrees(draft),
           accepted' = With(accepted, changes)
    PROVE  \A f \in Field \ Through : With(draft, changes)[f] = accepted'[f]
  BY DEF Agrees, With

\* The draft a request is given agrees with what was accepted
LEMMA DraftAgrees ==
    ASSUME DraftInv
    PROVE  get_draft \in Draft /\ Agrees(get_draft)
  <1>1. get_draft \in Draft
    BY DEF DraftInv, TypeOK, get_draft, Draft
  <1>2. Agrees(row.fields)
    BY DEF DraftInv, FieldIsLastSaved, NothingBefore, Agrees
  <1>3. Agrees(get_draft)
    BY <1>2 DEF Agrees, get_draft
  <1> QED BY <1>1, <1>3

-----------------------------------------------------------------------------
LEMMA DraftsStart == DraftsInit => DraftInv
  <1> SUFFICES ASSUME DraftsInit PROVE DraftInv
    OBVIOUS
  <1> USE DraftsAssumption
  <1>1. 0 \in Text /\ [f \in Field |-> 0] \in Draft
    BY DEF Text, Draft
  <1>2. [f \in {} |-> 0] \in Changes
    <2>1. [f \in {} |-> 0] \in [{} -> Text]
      OBVIOUS
    <2> QED BY <2>1 DEF Changes
  <1>3. TypeOK
    BY <1>1, <1>2 DEF DraftsInit, TypeOK, NoRow, Doing
  <1>4. FieldIsLastSaved /\ NothingBefore /\ BaseWasThere /\ ReadIsCurrent
    BY DEF DraftsInit, FieldIsLastSaved, NothingBefore, BaseWasThere, ReadIsCurrent,
           NoRow, Agrees
  <1> QED BY <1>3, <1>4 DEF DraftInv

\* What moves a request on and leaves the stored draft alone
LEMMA RequestMoves ==
    ASSUME DraftInv, NEW d \in Device, TypeOK',
           UNCHANGED <<row, accepted>>,
           \A e \in Device \ {d} : doing'[e] = doing[e] /\ read'[e] = read[e] /\ base'[e] = base[e],
           base'[d] <= row.revision,
           doing'[d] \notin {"store whole", "store field"} \/ Agrees(read'[d])
    PROVE  DraftInv'
  <1>1. FieldIsLastSaved' /\ NothingBefore'
    BY DEF DraftInv, FieldIsLastSaved, NothingBefore, Agrees
  <1>2. BaseWasThere'
    BY DEF DraftInv, BaseWasThere
  <1>3. ReadIsCurrent'
    BY DEF DraftInv, ReadIsCurrent, Agrees
  <1> QED BY <1>1, <1>2, <1>3 DEF DraftInv

\* A save: what was accepted is what is stored, and every other save that had
\* read the draft is of an older revision now
LEMMA SaveStores ==
    ASSUME DraftInv, NEW d \in Device, TypeOK', NEW draft, Agrees(draft),
           row'.stored, row'.revision = row.revision + 1,
           row'.fields = With(draft, edit[d]), Accepts(d),
           UNCHANGED <<read, base>>
    PROVE  DraftInv'
  <1>1. FieldIsLastSaved'
    BY WithAgrees DEF Accepts, FieldIsLastSaved
  <1>2. NothingBefore'
    BY DEF NothingBefore
  <1>3. BaseWasThere'
    BY DEF DraftInv, BaseWasThere, TypeOK
  <1>4. \A e \in Device : base'[e] # row'.revision
    BY DEF DraftInv, BaseWasThere, TypeOK
  <1>5. ReadIsCurrent'
    BY <1>4 DEF ReadIsCurrent
  <1> QED BY <1>1, <1>2, <1>3, <1>5 DEF DraftInv

-----------------------------------------------------------------------------
LEMMA EditsAreText ==
    ASSUME TypeOK, NEW d \in Device, NEW to, NEW fields, Asks(d, to, fields)
    PROVE  edits' \in Text
  <1>1. edits \in 0..MaxEdits /\ edits < MaxEdits /\ edits' = edits + 1
    BY DEF Asks, TypeOK, Text
  <1>2. MaxEdits \in Nat
    BY DraftsAssumption
  <1> QED BY <1>1, <1>2 DEF Text

LEMMA AskingKeeps ==
    ASSUME DraftInv, NEW d \in Device, EditField(d) \/ EditWhole(d)
    PROVE  DraftInv'
  <1> USE DraftsAssumption
  <1> USE DEF DraftInv
  <1>1. CASE EditField(d)
    <2>1. PICK f \in Field : Asks(d, "check field", {f})
      BY <1>1 DEF EditField
    <2>2. edits' \in Text /\ [g \in {f} |-> edits'] \in Changes
      <3>1. edits' \in Text
        BY <2>1, EditsAreText
      <3>2. [g \in {f} |-> edits'] \in [{f} -> Text]
        BY <3>1
      <3> QED BY <3>1, <3>2 DEF Changes
    <2>3. TypeOK'
      BY <1>1, <2>1, <2>2 DEF EditField, Asks, Moves, TypeOK, Doing
    <2> QED BY <1>1, <2>1, <2>3, RequestMoves
            DEF EditField, Asks, Moves, TypeOK, BaseWasThere
  <1>2. CASE EditWhole(d)
    <2>1. PICK fields \in SUBSET Field : Asks(d, "check whole", fields)
      BY <1>2 DEF EditWhole
    <2>2. edits' \in Text /\ [g \in fields |-> edits'] \in Changes
      <3>1. edits' \in Text
        BY <2>1, EditsAreText
      <3>2. [g \in fields |-> edits'] \in [fields -> Text]
        BY <3>1
      <3> QED BY <3>1, <3>2 DEF Changes
    <2>3. TypeOK'
      BY <1>2, <2>1, <2>2 DEF EditWhole, Asks, Moves, TypeOK, Doing
    <2>4. base'[d] = row.revision /\ \A e \in Device \ {d} : base'[e] = base[e]
      BY <1>2 DEF EditWhole, TypeOK
    <2>5. row.revision \in Nat
      BY DEF TypeOK
    <2>6. doing'[d] = "check whole" /\ \A e \in Device \ {d} : doing'[e] = doing[e]
      BY <2>1 DEF Asks, Moves, TypeOK
    <2>7. UNCHANGED <<row, accepted, read>>
      BY <1>2 DEF EditWhole
    <2>8. base'[d] <= row.revision
      BY <2>4, <2>5
    <2> HIDE DEF DraftInv
    <2> QED BY <2>3, <2>4, <2>6, <2>7, <2>8, RequestMoves
  <1> QED BY <1>1, <1>2

LEMMA CheckingKeeps ==
    ASSUME DraftInv, NEW d \in Device, Refused(d) \/ Checked(d) \/ Conflict(d)
    PROVE  DraftInv'
  <1>1. TypeOK'
    BY DEF DraftInv, TypeOK, Refused, Checked, Conflict, Moves, Doing
  <1>2. UNCHANGED <<row, accepted, read, base>>
    BY DEF Refused, Checked, Conflict
  <1>3. /\ doing'[d] \notin {"store whole", "store field"}
        /\ \A e \in Device \ {d} : doing'[e] = doing[e]
    BY DEF Refused, Checked, Conflict, Moves, DraftInv, TypeOK
  <1>4. base'[d] <= row.revision
    BY <1>2 DEF DraftInv, BaseWasThere
  <1> QED BY <1>1, <1>2, <1>3, <1>4, RequestMoves

LEMMA WriteThroughKeeps ==
    ASSUME DraftInv, NEW d \in Device, WriteThrough(d)
    PROVE  DraftInv'
  <1>1. Overwritten(d) \in [Through -> Text]
    BY DraftsAssumption DEF Overwritten, DraftInv, TypeOK, Changes
  <1>2. TypeOK'
    BY <1>1 DEF DraftInv, TypeOK, WriteThrough, Moves, Doing
  <1>3. /\ doing'[d] \notin {"store whole", "store field"}
        /\ \A e \in Device \ {d} : doing'[e] = doing[e]
    BY DEF WriteThrough, Moves, DraftInv, TypeOK
  <1>4. base'[d] <= row.revision
    BY DEF WriteThrough, DraftInv, BaseWasThere
  <1> QED BY <1>2, <1>3, <1>4, RequestMoves DEF WriteThrough

LEMMA ReadDraftKeeps ==
    ASSUME DraftInv, NEW d \in Device, ReadDraft(d)
    PROVE  DraftInv'
  <1>1. get_draft \in Draft /\ Agrees(get_draft)
    BY DraftAgrees
  <1>2. TypeOK'
    BY <1>1 DEF DraftInv, TypeOK, ReadDraft, Moves, Doing
  <1>3. read'[d] = get_draft /\ \A e \in Device \ {d} : read'[e] = read[e]
    BY DEF ReadDraft, DraftInv, TypeOK
  <1>4. \A e \in Device \ {d} : doing'[e] = doing[e]
    BY DEF ReadDraft, Moves, DraftInv, TypeOK
  <1>5. base'[d] <= row.revision
    BY DEF ReadDraft, DraftInv, BaseWasThere
  <1> QED BY <1>1, <1>2, <1>3, <1>4, <1>5, RequestMoves DEF ReadDraft

LEMMA StoreFieldKeeps ==
    ASSUME DraftInv, NEW d \in Device, StoreField(d)
    PROVE  DraftInv'
  <1> DEFINE draft == IF row.stored THEN row.fields ELSE read[d]
             revision == row.revision + 1
  <1>1. doing[d] = "store field"
    BY DEF StoreField, Moves
  <1>2. Agrees(draft)
    BY <1>1 DEF DraftInv, FieldIsLastSaved, ReadIsCurrent, Agrees
  <1>3. With(draft, edit[d]) \in Draft /\ With(accepted, edit[d]) \in Draft
    BY WithIsDraft DEF DraftInv, TypeOK
  <1>4. With(row.revisions, [f \in DOMAIN edit[d] |-> revision]) \in [Field -> Nat]
    BY DEF With, DraftInv, TypeOK
  <1>5. row' = [stored |-> TRUE, revision |-> revision, fields |-> With(draft, edit[d]),
                revisions |-> With(row.revisions, [f \in DOMAIN edit[d] |-> revision])]
    BY DEF StoreField
  <1> HIDE DEF draft
  <1>6. row' \in [stored : BOOLEAN, fields : Draft, revision : Nat, revisions : [Field -> Nat]]
    BY <1>3, <1>4, <1>5 DEF DraftInv, TypeOK
  <1>7. TypeOK'
    BY <1>3, <1>6 DEF DraftInv, TypeOK, StoreField, Moves, Accepts, Doing
  <1>8. row'.stored /\ row'.revision = row.revision + 1 /\ row'.fields = With(draft, edit[d])
    BY <1>5
  <1> QED BY <1>2, <1>7, <1>8, SaveStores DEF StoreField

LEMMA StoreWholeKeeps ==
    ASSUME DraftInv, NEW d \in Device, StoreWhole(d)
    PROVE  DraftInv'
  <1>1. doing[d] = "store whole" /\ base[d] = row.revision
    BY DEF StoreWhole, Moves
  <1>2. Agrees(read[d])
    BY <1>1 DEF DraftInv, ReadIsCurrent
  <1>3. With(read[d], edit[d]) \in Draft /\ With(accepted, edit[d]) \in Draft
    BY WithIsDraft DEF DraftInv, TypeOK
  <1>4. row' = [row EXCEPT !.stored = TRUE, !.revision = row.revision + 1,
                           !.fields = With(read[d], edit[d])]
    BY DEF StoreWhole
  <1>5. row' \in [stored : BOOLEAN, fields : Draft, revision : Nat, revisions : [Field -> Nat]]
    <2>1. row \in [stored : BOOLEAN, fields : Draft, revision : Nat, revisions : [Field -> Nat]]
      BY DEF DraftInv, TypeOK
    <2>2. row.revision + 1 \in Nat
      BY <2>1
    <2> HIDE DEF Draft
    <2> QED BY <1>3, <1>4, <2>1, <2>2
  <1>6. TypeOK'
    BY <1>3, <1>5 DEF DraftInv, TypeOK, StoreWhole, Moves, Accepts, Doing
  <1>7. row'.stored /\ row'.revision = row.revision + 1 /\ row'.fields = With(read[d], edit[d])
    BY <1>4 DEF DraftInv, TypeOK
  <1> QED BY <1>2, <1>6, <1>7, SaveStores DEF StoreWhole

LEMMA OthersKeep ==
    ASSUME DraftInv, Own \/ RequestsDie
    PROVE  DraftInv'
  <1>1. TypeOK'
    BY DEF DraftInv, TypeOK, Own, RequestsDie, Doing
  <1>2. UNCHANGED <<row, accepted, read, base>>
    BY DEF Own, RequestsDie
  <1>3. \A d \in Device : doing'[d] \in {doing[d], "idle"}
    BY DEF Own, RequestsDie
  <1>4. FieldIsLastSaved' /\ NothingBefore' /\ BaseWasThere'
    BY <1>2 DEF DraftInv, FieldIsLastSaved, NothingBefore, BaseWasThere, Agrees
  <1>5. ReadIsCurrent'
    BY <1>2, <1>3 DEF DraftInv, ReadIsCurrent, Agrees
  <1> QED BY <1>1, <1>4, <1>5 DEF DraftInv

LEMMA StutteringKeeps ==
    ASSUME DraftInv, UNCHANGED draftVars
    PROVE  DraftInv'
  BY DEF DraftInv, draftVars, TypeOK, FieldIsLastSaved, NothingBefore, BaseWasThere,
         ReadIsCurrent, Agrees

-----------------------------------------------------------------------------
\* The state is well typed and what each save relies on holds, in every state
\* (models.py save_draft, save_draft_fields)
THEOREM DraftsAreSound == DraftsSpec => []DraftInv
  <1>1. DraftInv /\ [DraftsNext]_draftVars => DraftInv'
    <2> SUFFICES ASSUME DraftInv, [DraftsNext]_draftVars PROVE DraftInv'
      OBVIOUS
    <2>1. ASSUME NEW d \in Device, EditField(d) \/ EditWhole(d) PROVE DraftInv'
      BY <2>1, AskingKeeps
    <2>2. ASSUME NEW d \in Device, Refused(d) \/ Checked(d) \/ Conflict(d) PROVE DraftInv'
      BY <2>2, CheckingKeeps
    <2>3. ASSUME NEW d \in Device, WriteThrough(d) PROVE DraftInv'
      BY <2>3, WriteThroughKeeps
    <2>4. ASSUME NEW d \in Device, ReadDraft(d) PROVE DraftInv'
      BY <2>4, ReadDraftKeeps
    <2>5. ASSUME NEW d \in Device, StoreField(d) PROVE DraftInv'
      BY <2>5, StoreFieldKeeps
    <2>6. ASSUME NEW d \in Device, StoreWhole(d) PROVE DraftInv'
      BY <2>6, StoreWholeKeeps
    <2>7. CASE Own \/ RequestsDie
      BY <2>7, OthersKeep
    <2>8. CASE UNCHANGED draftVars
      BY <2>8, StutteringKeeps
    <2> QED BY <2>1, <2>2, <2>3, <2>4, <2>5, <2>6, <2>7, <2>8 DEF DraftsNext
  <1> QED BY DraftsStart, <1>1, PTL DEF DraftsSpec

\* No save of a field undoes another device's, for any devices, fields and edits
THEOREM NoSaveIsUndone == DraftsSpec => []FieldIsLastSaved
  <1>1. DraftInv => FieldIsLastSaved
    BY DEF DraftInv
  <1> QED BY DraftsAreSound, <1>1, PTL

-----------------------------------------------------------------------------
(* What the event page shows                                               *)

Status == {"none", "active", "stopped"}
Row == [status : Status, start : Int, end : Int, owned : BOOLEAN]
WorkedOutAnswer == [wind : Nat, time : Int \X Int, categories : Nat \X Int]
Memo == [is : BOOLEAN, at : Int, identity : Status \X Int \X Int, answer : WorkedOutAnswer]
Asked == [at : {"idle", "chosen", "read", "keep", "answer"}, byChoice : BOOLEAN,
          candidates : SUBSET Listed, running : SUBSET Listed, r : Listed \cup {Nobody},
          copy : Row, looked : Int, answer : WorkedOutAnswer]

PageTypeOK ==
    /\ passed \in Nat /\ moved \in Nat
    /\ recs \in [Listed -> Row]
    /\ unsaved \in [Listed -> Nat]
    /\ saved \in [Listed -> Seq(Int)]
    /\ kept \in [Listed -> Memo]
    /\ asking \in [Request -> Asked]
    /\ late \subseteq Listed

\* An answer that was worked out of a recording at a time, when the recording was as
\* given: of one that has stopped it is of all rows, of one in progress of all rows
\* that were stored before
IsOf(r, status, start, end, asOf, answer) ==
    /\ asOf <= passed
    /\ status = "stopped" =>
        /\ recs[r].status = "stopped"
        /\ answer.time = <<start, end>> /\ answer.categories = <<answer.wind, start>>
        /\ r \notin late => answer.wind = Len(saved[r])
    /\ status = "active" =>
        \A i \in DOMAIN saved[r] : i > answer.wind => asOf <= saved[r][i]

\* What is kept is what it was kept as
KeptIsOf ==
    \A r \in Listed : kept[r].is =>
        IsOf(r, kept[r].identity[1], kept[r].identity[2], kept[r].identity[3], kept[r].at,
             kept[r].answer)

\* A request is about a recording there is, as it was when it was read
PageIsOf(page) ==
    /\ page.at # "idle" => page.r \in Listed /\ recs[page.r].status # "none"
    /\ page.at \in {"read", "keep", "answer"} => page.copy.status \in {"active", "stopped"}
    /\ page.at = "read" /\ page.copy.status = "stopped" => recs[page.r].status = "stopped"
    /\ page.at = "keep" =>
        IsOf(page.r, page.copy.status, page.copy.start, page.copy.end, page.looked, page.answer)
    /\ page.at = "answer" =>
        IsOf(page.r, page.copy.status, page.copy.start, page.copy.end,
             page.looked - COMPUTED_SECONDS + 1, page.answer)

\* What could be opened is of one outing, or is what was being recorded
PageWasChosen(page) ==
    page.at # "idle" =>
        /\ \A c \in page.candidates : recs[c].status # "none"
        /\ page.running # {} => page.candidates = page.running
        /\ page.byChoice => page.r \in page.candidates
        /\ page.byChoice /\ page.running = {} =>
            \A c \in page.candidates : recs[c].start - recs[page.r].start <= SAME_OUTING

PagesAreOf == \A q \in Request : PageIsOf(asking[q]) /\ PageWasChosen(asking[q])

PageInv == PageTypeOK /\ KeptIsOf /\ PagesAreOf

-----------------------------------------------------------------------------
\* What the recordings do meanwhile: time goes on, what has stopped stays so and gets
\* rows only late, rows come behind the others as of now, and starts move together
WorldGoesOn ==
    /\ passed <= passed' /\ late \subseteq late'
    /\ \A r \in Listed :
        /\ recs[r].status = "stopped" => recs'[r].status = "stopped"
        /\ recs[r].status # "none" => recs'[r].status # "none"
        /\ r \notin late' /\ recs[r].status = "stopped" => saved'[r] = saved[r]
        /\ \A i \in DOMAIN saved'[r] :
            (i \in DOMAIN saved[r] /\ saved'[r][i] = saved[r][i]) \/ saved'[r][i] = passed
    /\ \A r, s \in Listed : recs[r].status # "none" /\ recs[s].status # "none" =>
            recs'[r].start - recs'[s].start = recs[r].start - recs[s].start

LEMMA StaysIsOf ==
    ASSUME PageTypeOK, WorldGoesOn, passed' \in Nat, saved' \in [Listed -> Seq(Int)],
           NEW r \in Listed, NEW status, NEW start, NEW end, NEW asOf \in Int,
           NEW answer \in WorkedOutAnswer,
           IsOf(r, status, start, end, asOf, answer)
    PROVE  IsOf(r, status, start, end, asOf, answer)'
  <1>1. asOf <= passed'
    BY DEF IsOf, WorldGoesOn, PageTypeOK
  <1>2. ASSUME status = "stopped"
        PROVE  /\ recs'[r].status = "stopped"
               /\ answer.time = <<start, end>> /\ answer.categories = <<answer.wind, start>>
               /\ r \notin late' => answer.wind = Len(saved'[r])
    BY <1>2 DEF IsOf, WorldGoesOn
  <1>3. ASSUME status = "active", NEW i \in DOMAIN saved'[r], i > answer.wind
        PROVE  asOf <= saved'[r][i]
    <2>1. CASE i \in DOMAIN saved[r] /\ saved'[r][i] = saved[r][i]
      BY <1>3, <2>1 DEF IsOf
    <2>2. CASE saved'[r][i] = passed
      BY <2>2 DEF IsOf
    <2> QED  BY <2>1, <2>2 DEF WorldGoesOn
  <1> QED  BY <1>1, <1>2, <1>3 DEF IsOf

LEMMA StaysTrue ==
    ASSUME PageInv, PageTypeOK', WorldGoesOn, UNCHANGED <<kept, asking>>
    PROVE  PageInv'
  <1> USE DEF PageInv
  <1>1. passed' \in Nat /\ saved' \in [Listed -> Seq(Int)]
    BY DEF PageTypeOK
  <1>2. KeptIsOf'
    <2> SUFFICES ASSUME NEW r \in Listed, kept[r].is
                 PROVE  IsOf(r, kept[r].identity[1], kept[r].identity[2], kept[r].identity[3],
                             kept[r].at, kept[r].answer)'
      BY DEF KeptIsOf
    <2>1. kept[r].at \in Int /\ kept[r].answer \in WorkedOutAnswer
      BY DEF PageTypeOK, Memo
    <2>2. IsOf(r, kept[r].identity[1], kept[r].identity[2], kept[r].identity[3],
               kept[r].at, kept[r].answer)
      BY DEF KeptIsOf
    <2>3. kept'[r] = kept[r]
      OBVIOUS
    <2> QED  BY <1>1, <2>1, <2>2, <2>3, StaysIsOf
  <1>3. PagesAreOf'
    <2> SUFFICES ASSUME NEW q \in Request PROVE PageIsOf(asking[q])' /\ PageWasChosen(asking[q])'
      BY DEF PagesAreOf
    <2> DEFINE page == asking[q]
    <2>1. page \in Asked /\ page' = page /\ PageIsOf(page) /\ PageWasChosen(page)
      BY DEF PageTypeOK, PagesAreOf
    <2> HIDE DEF page
    <2>2. /\ page.looked \in Int /\ page.looked - COMPUTED_SECONDS + 1 \in Int
          /\ page.answer \in WorkedOutAnswer /\ page.candidates \subseteq Listed
      BY <2>1, PageAssumption DEF Asked
    <2>3. page.at # "idle" => page.r \in Listed /\ recs'[page.r].status # "none"
      BY <2>1 DEF PageIsOf, WorldGoesOn
    <2>4. page.at = "read" /\ page.copy.status = "stopped" => recs'[page.r].status = "stopped"
      BY <2>1, <2>3 DEF PageIsOf, WorldGoesOn
    <2>5. page.at = "keep" =>
            IsOf(page.r, page.copy.status, page.copy.start, page.copy.end, page.looked,
                 page.answer)'
      <3> SUFFICES ASSUME page.at = "keep"
                   PROVE  IsOf(page.r, page.copy.status, page.copy.start, page.copy.end,
                               page.looked, page.answer)'
        OBVIOUS
      <3>1. page.r \in Listed
            /\ IsOf(page.r, page.copy.status, page.copy.start, page.copy.end, page.looked,
                    page.answer)
        BY <2>1 DEF PageIsOf
      <3> QED  BY <1>1, <2>1, <2>2, <3>1, StaysIsOf
    <2>6. page.at = "answer" =>
            IsOf(page.r, page.copy.status, page.copy.start, page.copy.end,
                 page.looked - COMPUTED_SECONDS + 1, page.answer)'
      <3> SUFFICES ASSUME page.at = "answer"
                   PROVE  IsOf(page.r, page.copy.status, page.copy.start, page.copy.end,
                               page.looked - COMPUTED_SECONDS + 1, page.answer)'
        OBVIOUS
      <3>1. page.r \in Listed
            /\ IsOf(page.r, page.copy.status, page.copy.start, page.copy.end,
                    page.looked - COMPUTED_SECONDS + 1, page.answer)
        BY <2>1 DEF PageIsOf
      <3> QED  BY <1>1, <2>1, <2>2, <3>1, StaysIsOf
    <2>7. PageIsOf(page)'
      BY <2>1, <2>3, <2>4, <2>5, <2>6 DEF PageIsOf
    <2>8. PageWasChosen(page)'
      <3> SUFFICES ASSUME page.at # "idle"
                   PROVE  /\ \A c \in page.candidates : recs'[c].status # "none"
                          /\ page.running # {} => page.candidates = page.running
                          /\ page.byChoice => page.r \in page.candidates
                          /\ page.byChoice /\ page.running = {} =>
                              \A c \in page.candidates :
                                 recs'[c].start - recs'[page.r].start <= SAME_OUTING
        BY <2>1 DEF PageWasChosen
      <3>1. \A c \in page.candidates : recs[c].status # "none" /\ recs'[c].status # "none"
        BY <2>1, <2>2 DEF PageWasChosen, WorldGoesOn
      <3>2. page.r \in Listed /\ recs[page.r].status # "none"
        BY <2>1 DEF PageIsOf
      <3>3. \A c \in page.candidates :
              recs'[c].start - recs'[page.r].start = recs[c].start - recs[page.r].start
        BY <2>2, <3>1, <3>2 DEF WorldGoesOn
      <3> QED  BY <2>1, <3>1, <3>3 DEF PageWasChosen
    <2> QED  BY <2>7, <2>8 DEF page
  <1> QED  BY <1>2, <1>3

-----------------------------------------------------------------------------
(* Every step keeps it                                                     *)

LEMMA PageInvInit == EventPageInit => PageInv
  <1> SUFFICES ASSUME EventPageInit PROVE PageInv
    OBVIOUS
  <1> USE PageAssumption DEF EventPageInit
  <1>1. NotYet \in Row /\ NotYet.status = "none"
    BY DEF NotYet, Row, Status
  <1>2. NoAnswer \in WorkedOutAnswer
    BY DEF NoAnswer, WorkedOutAnswer
  <1>3. NotKept \in Memo /\ ~NotKept.is
    BY <1>2 DEF NotKept, Memo, Status
  <1>4. Idle \in Asked /\ Idle.at = "idle"
    BY <1>1, <1>2 DEF Idle, Asked
  <1>5. saved \in [Listed -> Seq(Int)]
    OBVIOUS
  <1>6. PageTypeOK
    BY <1>1, <1>3, <1>4, <1>5 DEF PageTypeOK
  <1>7. KeptIsOf
    BY <1>3 DEF KeptIsOf
  <1>8. PagesAreOf
    BY <1>4 DEF PagesAreOf, PageIsOf, PageWasChosen
  <1> QED  BY <1>6, <1>7, <1>8 DEF PageInv

\* What is stored comes behind what was, as of now, and is late of what has stopped
LEMMA StoredBehind ==
    ASSUME PageTypeOK, StoreAll
    PROVE  /\ saved' \in [Listed -> Seq(Int)] /\ unsaved' \in [Listed -> Nat]
           /\ late' \subseteq Listed /\ late \subseteq late'
           /\ \A r \in Listed :
                /\ r \notin late' /\ recs[r].status = "stopped" => saved'[r] = saved[r]
                /\ \A i \in DOMAIN saved'[r] :
                    (i \in DOMAIN saved[r] /\ saved'[r][i] = saved[r][i]) \/ saved'[r][i] = passed
  <1> USE DEF StoreAll, PageTypeOK
  <1>1. ASSUME NEW r \in Listed
        PROVE  LET more == [i \in 1..unsaved[r] |-> passed]
               IN /\ saved[r] \in Seq(Int) /\ more \in Seq(Int) /\ Len(more) = unsaved[r]
                  /\ saved'[r] = saved[r] \o more
    <2> DEFINE more == [i \in 1..unsaved[r] |-> passed]
    <2>1. unsaved[r] \in Nat /\ passed \in Int
      OBVIOUS
    <2>2. more \in Seq(Int) /\ Len(more) = unsaved[r]
      BY <2>1
    <2>3. saved[r] \in Seq(Int) /\ saved'[r] = saved[r] \o more
      OBVIOUS
    <2> QED  BY <2>2, <2>3
  <1>2. saved' \in [Listed -> Seq(Int)]
    <2>1. \A r \in Listed : saved'[r] \in Seq(Int)
      BY <1>1, ConcatProperties
    <2> QED  BY <2>1
  <1>3. ASSUME NEW r \in Listed, NEW i \in DOMAIN saved'[r]
        PROVE  (i \in DOMAIN saved[r] /\ saved'[r][i] = saved[r][i]) \/ saved'[r][i] = passed
    <2> DEFINE more == [j \in 1..unsaved[r] |-> passed]
    <2>1. saved[r] \in Seq(Int) /\ more \in Seq(Int) /\ saved'[r] = saved[r] \o more
          /\ Len(more) = unsaved[r] /\ unsaved[r] \in Nat
      BY <1>1
    <2>2. \A j \in 1..Len(more) : more[j] = passed
      BY <2>1
    <2> HIDE DEF more
    <2>3. DOMAIN saved'[r] = 1..(Len(saved[r]) + Len(more)) /\ DOMAIN saved[r] = 1..Len(saved[r])
      BY <2>1, ConcatProperties, LenProperties
    <2>4. CASE i <= Len(saved[r])
      BY <2>1, <2>3, <2>4, ConcatProperties
    <2>5. CASE ~(i <= Len(saved[r]))
      <3>1. i - Len(saved[r]) \in 1..Len(more)
        BY <2>1, <2>3, <2>5, LenProperties
      <3>2. saved'[r][i] = more[i - Len(saved[r])]
        BY <2>1, <2>3, <2>5, ConcatProperties, LenProperties
      <3> QED  BY <2>2, <3>1, <3>2
    <2> QED  BY <2>4, <2>5
  <1>4. ASSUME NEW r \in Listed, r \notin late', recs[r].status = "stopped"
        PROVE  saved'[r] = saved[r]
    <2>1. unsaved[r] = 0
      BY <1>4
    <2> DEFINE more == [j \in 1..unsaved[r] |-> passed]
    <2>2. more = <<>>
      BY <2>1
    <2>3. saved[r] \in Seq(Int) /\ saved'[r] = saved[r] \o more
      BY <1>1
    <2> HIDE DEF more
    <2> QED  BY <2>2, <2>3, ConcatEmptySeq
  <1> QED  BY <1>2, <1>3, <1>4

\* The recordings, with their time and their clock, go on
LEMMA WorldSteps ==
    ASSUME PageInv,
           \/ TimeGoes \/ Flushes \/ ClockSteps
           \/ \E r \in Listed : Starts(r) \/ Comes(r) \/ Stops(r) \/ IsPublished(r)
    PROVE  PageTypeOK' /\ WorldGoesOn /\ UNCHANGED <<kept, asking>>
  <1> USE DEF PageInv
  <1>1. \A r \in Listed : saved[r] \in Seq(Int) /\ recs[r] \in Row
    BY DEF PageTypeOK
  <1>2. CASE TimeGoes
    BY <1>2, <1>1 DEF TimeGoes, Others, PageTypeOK, WorldGoesOn
  <1>3. CASE Flushes
    BY <1>3, StoredBehind DEF Flushes, Others, PageTypeOK, WorldGoesOn
  <1>4. CASE ClockSteps
    <2>1. \A r \in Listed :
            /\ recs'[r] \in Row /\ recs'[r].status = recs[r].status
            /\ recs[r].status # "none" => recs'[r].start = recs[r].start + 1
      <3> SUFFICES ASSUME NEW r \in Listed
                   PROVE  /\ recs'[r] \in Row /\ recs'[r].status = recs[r].status
                          /\ recs[r].status # "none" => recs'[r].start = recs[r].start + 1
        OBVIOUS
      <3>1. recs'[r] = IF recs[r].status = "none" THEN recs[r]
                       ELSE [recs[r] EXCEPT !.start = @ + 1, !.end = @ + 1]
        BY <1>4 DEF ClockSteps
      <3>2. recs[r] \in Row /\ recs[r].start \in Int /\ recs[r].end \in Int
        BY <1>1 DEF Row
      <3> DEFINE once == [recs[r] EXCEPT !.start = @ + 1]
      <3>3. once \in Row /\ once.status = recs[r].status /\ once.start = recs[r].start + 1
            /\ once.end = recs[r].end
        BY <3>2 DEF Row
      <3>4. [recs[r] EXCEPT !.start = @ + 1, !.end = @ + 1] = [once EXCEPT !.end = @ + 1]
        BY <3>2 DEF Row
      <3> HIDE DEF once
      <3>5. [once EXCEPT !.end = @ + 1] \in Row
        BY <3>2, <3>3 DEF Row
      <3>6. [once EXCEPT !.end = @ + 1].status = once.status
            /\ [once EXCEPT !.end = @ + 1].start = once.start
        BY <3>3 DEF Row
      <3> QED  BY <3>1, <3>2, <3>3, <3>4, <3>5, <3>6
    <2>2. recs' \in [Listed -> Row]
      BY <1>4, <2>1 DEF ClockSteps
    <2>3. moved' \in Nat
      <3>1. moved \in Nat /\ moved' = moved + 1
        BY <1>4 DEF ClockSteps, PageTypeOK
      <3> QED  BY <3>1
    <2>4. \A r, s \in Listed : recs[r].status # "none" /\ recs[s].status # "none" =>
            recs'[r].start - recs'[s].start = recs[r].start - recs[s].start
      BY <1>1, <2>1 DEF Row
    <2>5. UNCHANGED <<passed, unsaved, saved, late, kept, asking>>
      BY <1>4 DEF ClockSteps, Others
    <2>6. PageTypeOK'
      BY <2>2, <2>3, <2>5 DEF PageTypeOK
    <2>7. WorldGoesOn
      BY <1>1, <2>1, <2>4, <2>5 DEF WorldGoesOn, PageTypeOK
    <2> QED  BY <2>5, <2>6, <2>7
  <1>5. ASSUME NEW r \in Listed, Starts(r)
        PROVE  PageTypeOK' /\ WorldGoesOn /\ UNCHANGED <<kept, asking>>
    <2>1. recs'[r] \in Row /\ recs[r].status = "none"
          /\ \A s \in Listed \ {r} : recs'[s] = recs[s]
      <3>1. wall \in Int /\ recs[r] \in Row
        BY <1>1 DEF wall, PageTypeOK
      <3>2. recs' = [recs EXCEPT ![r].status = "active", ![r].start = wall]
            /\ recs \in [Listed -> Row] /\ recs[r].status = "none"
        BY <1>5 DEF Starts, PageTypeOK
      <3>3. recs'[r] = [[recs[r] EXCEPT !.status = "active"] EXCEPT !.start = wall]
        BY <3>2
      <3>4. [recs[r] EXCEPT !.status = "active"] \in Row
        BY <3>1 DEF Row, Status
      <3>5. recs'[r] \in Row
        BY <3>1, <3>3, <3>4 DEF Row
      <3> QED  BY <3>2, <3>5
    <2>2. recs' \in [Listed -> Row]
      BY <1>5, <2>1, <1>1 DEF Starts, PageTypeOK
    <2> QED  BY <1>5, <1>1, <2>1, <2>2 DEF Starts, Others, PageTypeOK, WorldGoesOn
  <1>6. ASSUME NEW r \in Listed, Comes(r)
        PROVE  PageTypeOK' /\ WorldGoesOn /\ UNCHANGED <<kept, asking>>
    BY <1>6, <1>1 DEF Comes, Others, PageTypeOK, WorldGoesOn
  <1>7. ASSUME NEW r \in Listed, Stops(r)
        PROVE  PageTypeOK' /\ WorldGoesOn /\ UNCHANGED <<kept, asking>>
    <2>1. /\ recs'[r] \in Row /\ recs[r].status = "active" /\ recs'[r].status = "stopped"
          /\ recs'[r].start = recs[r].start
          /\ \A s \in Listed \ {r} : recs'[s] = recs[s]
      <3>1. wall \in Int /\ recs[r] \in Row
        BY <1>1 DEF wall, PageTypeOK
      <3>2. recs' = [recs EXCEPT ![r].status = "stopped", ![r].end = wall]
            /\ recs \in [Listed -> Row] /\ recs[r].status = "active"
        BY <1>7 DEF Stops, PageTypeOK
      <3> DEFINE once == [recs[r] EXCEPT !.status = "stopped"]
      <3>3. recs'[r] = [once EXCEPT !.end = wall]
        BY <3>2
      <3>4. once \in Row /\ once.status = "stopped" /\ once.start = recs[r].start
        BY <3>1 DEF Row, Status
      <3> HIDE DEF once
      <3>5. recs'[r] \in Row /\ recs'[r].status = "stopped" /\ recs'[r].start = recs[r].start
        BY <3>1, <3>3, <3>4 DEF Row
      <3> QED  BY <3>2, <3>5
    <2>2. recs' \in [Listed -> Row]
      BY <1>7, <2>1, <1>1 DEF Stops, PageTypeOK
    <2>3. /\ saved' \in [Listed -> Seq(Int)] /\ unsaved' \in [Listed -> Nat]
          /\ late' \subseteq Listed /\ late \subseteq late'
          /\ \A s \in Listed :
               /\ s \notin late' /\ recs[s].status = "stopped" => saved'[s] = saved[s]
               /\ \A i \in DOMAIN saved'[s] :
                   (i \in DOMAIN saved[s] /\ saved'[s][i] = saved[s][i]) \/ saved'[s][i] = passed
      <3>1. CASE StoreAll
        BY <3>1, StoredBehind
      <3>2. CASE UNCHANGED <<unsaved, saved, late>>
        BY <3>2 DEF PageTypeOK
      <3> QED  BY <1>7, <3>1, <3>2 DEF Stops
    <2>4. \A s \in Listed : recs'[s].start = recs[s].start
            /\ (recs[s].status = "stopped" => recs'[s].status = "stopped")
            /\ (recs[s].status # "none" => recs'[s].status # "none")
      BY <2>1
    <2>5. UNCHANGED <<passed, moved, kept, asking>>
      BY <1>7 DEF Stops, Others
    <2>6. PageTypeOK'
      BY <2>2, <2>3, <2>5 DEF PageTypeOK
    <2>7. WorldGoesOn
      BY <1>1, <2>3, <2>4, <2>5 DEF WorldGoesOn, PageTypeOK
    <2> QED  BY <2>5, <2>6, <2>7
  <1>8. ASSUME NEW r \in Listed, IsPublished(r)
        PROVE  PageTypeOK' /\ WorldGoesOn /\ UNCHANGED <<kept, asking>>
    <2>1. /\ recs'[r] \in Row /\ recs'[r].status = recs[r].status /\ recs'[r].start = recs[r].start
          /\ \A s \in Listed \ {r} : recs'[s] = recs[s]
      BY <1>8, <1>1 DEF IsPublished, PageTypeOK, Row
    <2>2. recs' \in [Listed -> Row]
      BY <1>8, <2>1, <1>1 DEF IsPublished, PageTypeOK
    <2> QED  BY <1>8, <1>1, <2>1, <2>2 DEF IsPublished, Others, PageTypeOK, WorldGoesOn
  <1> QED  BY <1>2, <1>3, <1>4, <1>5, <1>6, <1>7, <1>8

\* Only what one request knows changes, and that to what is true
LEMMA RequestSteps ==
    ASSUME PageInv, UNCHANGED World, NEW q \in Request, NEW page \in Asked,
           asking' = [asking EXCEPT ![q] = page], kept' = kept,
           PageIsOf(page), PageWasChosen(page)
    PROVE  PageInv'
  <1> USE DEF PageInv, World
  <1>1. PageTypeOK'
    BY DEF PageTypeOK
  <1>2. KeptIsOf'
    BY DEF KeptIsOf, IsOf
  <1>3. ASSUME NEW p \in Request PROVE PageIsOf(asking[p])' /\ PageWasChosen(asking[p])'
    <2>1. asking'[p] = IF p = q THEN page ELSE asking[p]
      BY DEF PageTypeOK
    <2>2. PageIsOf(asking'[p]) /\ PageWasChosen(asking'[p])
      BY <2>1 DEF PagesAreOf
    <2> QED  BY <2>2 DEF PageIsOf, PageWasChosen, IsOf
  <1> QED  BY <1>1, <1>2, <1>3 DEF PagesAreOf

\* The candidates are what is being recorded, or of one outing
LEMMA PoolIsOneOuting ==
    ASSUME PageTypeOK
    PROVE  /\ pool \subseteq Listed /\ Ongoing \subseteq Listed
           /\ \A c \in pool : recs[c].status # "none"
           /\ Ongoing # {} => pool = Ongoing
           /\ Ongoing = {} => \A r, c \in pool : recs[c].start - recs[r].start <= SAME_OUTING
  BY DEF pool, Ongoing, Unpublished

LEMMA ChoosesKeeps ==
    ASSUME PageInv, NEW q \in Request, NEW id \in Id, Chooses(q, id)
    PROVE  PageInv'
  <1> USE DEF PageInv
  <1>1. PICK r \in Listed :
          /\ IF id = Nobody THEN editor_choice(r) ELSE r = id /\ recs[r].status # "none"
          /\ asking' = [asking EXCEPT ![q] =
                [Idle EXCEPT !.at = "chosen", !.byChoice = (id = Nobody), !.candidates = pool,
                             !.running = Ongoing, !.r = r]]
    BY DEF Chooses
  <1> DEFINE page == [Idle EXCEPT !.at = "chosen", !.byChoice = (id = Nobody), !.candidates = pool,
                                  !.running = Ongoing, !.r = r]
  <1>2. /\ page.at = "chosen" /\ (page.byChoice <=> id = Nobody) /\ page.candidates = pool
        /\ page.running = Ongoing /\ page.r = r
    BY DEF Idle
  <1>3. page \in Asked
    <2> DEFINE one == [[Idle EXCEPT !.at = "chosen"] EXCEPT !.byChoice = (id = Nobody)]
               two == [[one EXCEPT !.candidates = pool] EXCEPT !.running = Ongoing]
    <2>1. Idle \in Asked
      BY DEF Idle, Asked, NotYet, Row, Status, NoAnswer, WorkedOutAnswer
    <2>2. pool \subseteq Listed /\ Ongoing \subseteq Listed
      BY PoolIsOneOuting
    <2>3. [Idle EXCEPT !.at = "chosen"] \in Asked
      BY <2>1 DEF Asked
    <2>4. one \in Asked
      BY <2>3, Zenon DEF Asked
    <2> HIDE DEF one
    <2>5. [one EXCEPT !.candidates = pool] \in Asked
      BY <2>2, <2>4 DEF Asked
    <2>6. two \in Asked
      BY <2>2, <2>5 DEF Asked
    <2> HIDE DEF two
    <2>7. [two EXCEPT !.r = r] \in Asked
      BY <2>6 DEF Asked
    <2>8. page = [two EXCEPT !.r = r]
      BY DEF two, one
    <2> QED  BY <2>7, <2>8
  <1>4. asking' = [asking EXCEPT ![q] = page]
    BY <1>1
  <1> HIDE DEF page
  <1>5. recs[r].status # "none" /\ (id = Nobody => r \in pool)
    BY <1>1, PoolIsOneOuting DEF editor_choice
  <1>6. PageIsOf(page)
    BY <1>2, <1>5 DEF PageIsOf
  <1>7. PageWasChosen(page)
    BY <1>2, <1>5, PoolIsOneOuting DEF PageWasChosen
  <1> QED  BY <1>3, <1>4, <1>6, <1>7, RequestSteps DEF Chooses

LEMMA ReadsKeeps ==
    ASSUME PageInv, NEW q \in Request, Reads(q)
    PROVE  PageInv'
  <1> USE DEF PageInv
  <1> DEFINE was == asking[q]
  <1> DEFINE page == [[was EXCEPT !.at = "read"] EXCEPT !.copy = recs[was.r]]
  <1>1. was \in Asked /\ was.at = "chosen" /\ PageIsOf(was) /\ PageWasChosen(was)
    BY DEF Reads, PageTypeOK, PagesAreOf
  <1>2. was.r \in Listed /\ recs[was.r] \in Row /\ recs[was.r].status \in {"active", "stopped"}
    BY <1>1 DEF PageIsOf, PageTypeOK, Row, Status
  <1>3. asking' = [asking EXCEPT ![q] = page]
    BY DEF Reads, PageTypeOK
  <1> HIDE DEF was
  <1>4. page \in Asked
    <2>1. [was EXCEPT !.at = "read"] \in Asked
      BY <1>1 DEF Asked
    <2> QED  BY <1>2, <2>1 DEF Asked
  <1>5. /\ page.at = "read" /\ page.copy = recs[was.r] /\ page.r = was.r
        /\ page.candidates = was.candidates /\ page.running = was.running
        /\ page.byChoice = was.byChoice
    BY <1>1 DEF Asked
  <1> HIDE DEF page
  <1>6. PageIsOf(page) /\ PageWasChosen(page)
    BY <1>1, <1>2, <1>5 DEF PageIsOf, PageWasChosen
  <1> QED  BY <1>3, <1>4, <1>6, RequestSteps DEF Reads, was

LEMMA AnswersKeeps ==
    ASSUME PageInv, NEW q \in Request, Answers(q)
    PROVE  PageInv'
  <1>1. Idle \in Asked /\ Idle.at = "idle"
    BY DEF Idle, Asked, NotYet, Row, Status, NoAnswer, WorkedOutAnswer
  <1>2. PageIsOf(Idle) /\ PageWasChosen(Idle)
    BY <1>1 DEF PageIsOf, PageWasChosen
  <1> QED  BY <1>1, <1>2, RequestSteps DEF Answers

\* What is worked out now is of all the rows there are
LEMMA WorkedOutNow ==
    ASSUME PageTypeOK, NEW r \in Listed, NEW copy \in Row,
           copy.status = "stopped" => recs[r].status = "stopped"
    PROVE  /\ WorkedOut(r, copy) \in WorkedOutAnswer
           /\ IsOf(r, copy.status, copy.start, copy.end, passed, WorkedOut(r, copy))
  <1> DEFINE rows == Len(saved[r])
  <1>1. saved[r] \in Seq(Int) /\ rows \in Nat /\ DOMAIN saved[r] = 1..rows
    BY DEF PageTypeOK
  <1>2. WorkedOut(r, copy) = [wind |-> rows, time |-> <<copy.start, copy.end>>,
                              categories |-> <<rows, copy.start>>]
    BY DEF WorkedOut, wind_line, log_time_line, suggest_categories
  <1>3. copy.start \in Int /\ copy.end \in Int /\ passed \in Int
    BY DEF Row, PageTypeOK
  <1>4. WorkedOut(r, copy) \in WorkedOutAnswer
    <2> HIDE DEF rows
    <2> QED  BY <1>1, <1>2, <1>3 DEF WorkedOutAnswer
  <1>5. WorkedOut(r, copy).wind = rows /\ WorkedOut(r, copy).time = <<copy.start, copy.end>>
        /\ WorkedOut(r, copy).categories = <<rows, copy.start>>
    BY <1>2
  <1> QED  BY <1>1, <1>3, <1>4, <1>5 DEF IsOf

LEMMA LooksKeeps ==
    ASSUME PageInv, NEW q \in Request, Looks(q)
    PROVE  PageInv'
  <1> USE DEF PageInv
  <1> DEFINE was == asking[q]
  <1> DEFINE found(place, answer) == [was EXCEPT !.at = place, !.looked = passed, !.answer = answer]
  <1>1. was \in Asked /\ was.at = "read" /\ PageIsOf(was) /\ PageWasChosen(was)
    BY DEF Looks, PageTypeOK, PagesAreOf
  <1>2. was.r \in Listed /\ was.copy \in Row /\ was.copy.status \in {"active", "stopped"}
        /\ (was.copy.status = "stopped" => recs[was.r].status = "stopped")
    BY <1>1 DEF PageIsOf, Asked
  <1>3. asking' = [asking EXCEPT ![q] =
            IF Holds(was.copy, was.r, passed) THEN found("answer", kept[was.r].answer)
            ELSE found("keep", WorkedOut(was.r, was.copy))]
        /\ UNCHANGED World /\ kept' = kept
    BY DEF Looks
  <1>4. passed \in Int /\ kept[was.r] \in Memo
    BY <1>2 DEF PageTypeOK
  <1> HIDE DEF was
  <1>5. ASSUME NEW place \in {"answer", "keep"}, NEW answer \in WorkedOutAnswer
        PROVE  LET page == found(place, answer)
               IN /\ page \in Asked /\ page.at = place /\ page.looked = passed
                  /\ page.answer = answer /\ page.r = was.r /\ page.copy = was.copy /\ PageWasChosen(page)
    <2> DEFINE page == [[[was EXCEPT !.at = place] EXCEPT !.looked = passed]
                          EXCEPT !.answer = answer]
    <2>1. page = found(place, answer)
      BY <1>1 DEF Asked
    <2>2. [was EXCEPT !.at = place] \in Asked
      BY <1>1 DEF Asked
    <2>3. [[was EXCEPT !.at = place] EXCEPT !.looked = passed] \in Asked
      BY <1>4, <2>2 DEF Asked
    <2>4. page \in Asked
      BY <2>3 DEF Asked
    <2>5. /\ page.at = place /\ page.looked = passed /\ page.answer = answer
          /\ page.r = was.r /\ page.copy = was.copy
          /\ page.candidates = was.candidates /\ page.running = was.running
          /\ page.byChoice = was.byChoice
      BY <1>1 DEF Asked
    <2> HIDE DEF page
    <2>6. PageWasChosen(page)
      BY <1>1, <2>5 DEF PageWasChosen
    <2> QED  BY <2>1, <2>4, <2>5, <2>6
  <1> HIDE DEF found
  <1>6. CASE Holds(was.copy, was.r, passed)
    <2> DEFINE memo == kept[was.r]
    <2> DEFINE page == found("answer", memo.answer)
    <2>1. memo.answer \in WorkedOutAnswer /\ memo.at \in Int
      BY <1>4 DEF Memo
    <2>2. /\ page \in Asked /\ page.at = "answer" /\ page.looked = passed
          /\ page.answer = memo.answer /\ page.r = was.r /\ page.copy = was.copy /\ PageWasChosen(page)
      BY <1>5, <2>1
    <2>3. /\ memo.identity = Identity(was.copy)
          /\ IsOf(was.r, memo.identity[1], memo.identity[2], memo.identity[3], memo.at, memo.answer)
          /\ was.copy.status # "active" \/ passed - memo.at < COMPUTED_SECONDS
      BY <1>2, <1>6 DEF Holds, KeptIsOf
    <2>4. /\ memo.identity[1] = was.copy.status /\ memo.identity[2] = was.copy.start
          /\ was.copy.status = "stopped" => memo.identity[3] = was.copy.end
      BY <2>3 DEF Identity
    <2> HIDE DEF memo
    <2>5. IsOf(was.r, was.copy.status, was.copy.start, was.copy.end,
               passed - COMPUTED_SECONDS + 1, memo.answer)
      <3>1. passed - COMPUTED_SECONDS + 1 <= passed
        BY <1>4, PageAssumption
      <3>2. ASSUME was.copy.status = "stopped"
            PROVE  /\ recs[was.r].status = "stopped"
                   /\ memo.answer.time = <<was.copy.start, was.copy.end>>
                   /\ memo.answer.categories = <<memo.answer.wind, was.copy.start>>
                   /\ was.r \notin late => memo.answer.wind = Len(saved[was.r])
        BY <2>3, <2>4, <3>2 DEF IsOf
      <3>3. ASSUME was.copy.status = "active", NEW i \in DOMAIN saved[was.r], i > memo.answer.wind
            PROVE  passed - COMPUTED_SECONDS + 1 <= saved[was.r][i]
        <4>1. memo.at <= saved[was.r][i]
          BY <2>3, <2>4, <3>3 DEF IsOf
        <4>2. passed - memo.at < COMPUTED_SECONDS
          BY <2>3, <3>3
        <4>3. saved[was.r][i] \in Int
          BY <1>2, <3>3 DEF PageTypeOK
        <4> QED  BY <1>4, <2>1, <4>1, <4>2, <4>3, PageAssumption
      <3> QED  BY <3>1, <3>2, <3>3 DEF IsOf
    <2> HIDE DEF page
    <2>6. PageIsOf(page)
      BY <1>1, <1>2, <2>2, <2>5 DEF PageIsOf
    <2>7. asking' = [asking EXCEPT ![q] = page]
      BY <1>3, <1>6 DEF page, memo
    <2> QED  BY <1>3, <2>2, <2>6, <2>7, RequestSteps
  <1>7. CASE ~Holds(was.copy, was.r, passed)
    <2> DEFINE page == found("keep", WorkedOut(was.r, was.copy))
    <2>1. WorkedOut(was.r, was.copy) \in WorkedOutAnswer
          /\ IsOf(was.r, was.copy.status, was.copy.start, was.copy.end, passed,
                  WorkedOut(was.r, was.copy))
      BY <1>2, WorkedOutNow
    <2>2. /\ page \in Asked /\ page.at = "keep" /\ page.looked = passed
          /\ page.answer = WorkedOut(was.r, was.copy)
          /\ page.r = was.r /\ page.copy = was.copy /\ PageWasChosen(page)
      BY <1>5, <2>1
    <2> HIDE DEF page
    <2>3. PageIsOf(page)
      BY <1>1, <1>2, <2>1, <2>2 DEF PageIsOf
    <2>4. asking' = [asking EXCEPT ![q] = page]
      BY <1>3, <1>7 DEF page
    <2> QED  BY <1>3, <2>2, <2>3, <2>4, RequestSteps
  <1> QED  BY <1>6, <1>7

LEMMA KeepsKeeps ==
    ASSUME PageInv, NEW q \in Request, Keeps(q)
    PROVE  PageInv'
  <1> USE DEF PageInv
  <1> DEFINE was == asking[q]
  <1> DEFINE memo == [is |-> TRUE, at |-> was.looked, identity |-> Identity(was.copy),
                      answer |-> was.answer]
  <1>1. was \in Asked /\ was.at = "keep" /\ PageIsOf(was)
    BY DEF Keeps, PageTypeOK, PagesAreOf
  <1>2. was.r \in Listed /\ was.copy \in Row /\ was.looked \in Int /\ was.answer \in WorkedOutAnswer
        /\ IsOf(was.r, was.copy.status, was.copy.start, was.copy.end, was.looked, was.answer)
    BY <1>1 DEF PageIsOf, Asked
  <1>3. kept' = [kept EXCEPT ![was.r] = memo] /\ asking' = [asking EXCEPT ![q] = Idle]
        /\ UNCHANGED World
    BY DEF Keeps
  <1> HIDE DEF was
  <1>4. /\ Identity(was.copy) \in Status \X Int \X Int
        /\ Identity(was.copy)[1] = was.copy.status /\ Identity(was.copy)[2] = was.copy.start
        /\ was.copy.status = "stopped" => Identity(was.copy)[3] = was.copy.end
    <2>1. was.copy.status \in Status /\ was.copy.start \in Int /\ was.copy.end \in Int
      BY <1>2 DEF Row
    <2> QED  BY <2>1 DEF Identity
  <1>5. memo \in Memo
    BY <1>2, <1>4 DEF Memo
  <1>6. Idle \in Asked /\ Idle.at = "idle"
    BY DEF Idle, Asked, NotYet, Row, Status, NoAnswer, WorkedOutAnswer
  <1>7. PageTypeOK'
    BY <1>3, <1>5, <1>6 DEF PageTypeOK, World
  <1>8. KeptIsOf'
    <2> SUFFICES ASSUME NEW r \in Listed, kept'[r].is
                 PROVE  IsOf(r, kept'[r].identity[1], kept'[r].identity[2], kept'[r].identity[3],
                             kept'[r].at, kept'[r].answer)
      BY <1>3 DEF KeptIsOf, IsOf, World
    <2>1. CASE r = was.r
      <3>1. kept'[r] = memo
        BY <1>3, <2>1 DEF PageTypeOK
      <3>2. IsOf(r, memo.identity[1], memo.identity[2], memo.identity[3], memo.at, memo.answer)
        BY <1>2, <1>4, <2>1 DEF IsOf
      <3> QED  BY <3>1, <3>2
    <2>2. CASE r # was.r
      <3>1. kept'[r] = kept[r]
        BY <1>3, <2>2 DEF PageTypeOK
      <3> QED  BY <3>1 DEF KeptIsOf
    <2> QED  BY <2>1, <2>2
  <1>9. ASSUME NEW p \in Request PROVE PageIsOf(asking[p])' /\ PageWasChosen(asking[p])'
    <2>1. asking'[p] = IF p = q THEN Idle ELSE asking[p]
      BY <1>3 DEF PageTypeOK
    <2>2. PageIsOf(asking'[p]) /\ PageWasChosen(asking'[p])
      BY <1>6, <2>1 DEF PagesAreOf, PageIsOf, PageWasChosen
    <2> QED  BY <1>3, <2>2 DEF PageIsOf, PageWasChosen, IsOf, World
  <1> QED  BY <1>7, <1>8, <1>9 DEF PagesAreOf

LEMMA PageInvStep == PageInv /\ [EventPageNext]_pageVars => PageInv'
  <1> SUFFICES ASSUME PageInv, [EventPageNext]_pageVars PROVE PageInv'
    OBVIOUS
  <1>1. CASE \/ TimeGoes \/ Flushes \/ ClockSteps
             \/ \E r \in Listed : Starts(r) \/ Comes(r) \/ Stops(r) \/ IsPublished(r)
    BY <1>1, WorldSteps, StaysTrue
  <1>2. ASSUME NEW q \in Request,
               (\E id \in Id : Chooses(q, id)) \/ Reads(q) \/ Looks(q) \/ Keeps(q) \/ Answers(q)
        PROVE  PageInv'
    BY <1>2, ChoosesKeeps, ReadsKeeps, LooksKeeps, KeepsKeeps, AnswersKeeps
  <1>3. CASE UNCHANGED pageVars
    BY <1>3 DEF pageVars, PageInv, PageTypeOK, KeptIsOf, PagesAreOf, PageIsOf, PageWasChosen, IsOf
  <1> QED  BY <1>1, <1>2, <1>3 DEF EventPageNext

\* What is kept of a recording's lines, and what each request knows of it, was worked
\* out of the recording as it then was (recording_service.py:799)
THEOREM PageKnows == EventPageSpec => []PageInv
  <1> QED  BY PageInvInit, PageInvStep, PTL DEF EventPageSpec

-----------------------------------------------------------------------------
(* What it is for                                                          *)

LEMMA FinalIsOfAll ==
    ASSUME PageInv, NEW q \in Request, asking[q].at \in {"keep", "answer"}
    PROVE  FinalIsOfAllRows(asking[q])
  <1> DEFINE page == asking[q]
  <1> SUFFICES ASSUME page.copy.status = "stopped", Identity(recs[page.r]) = Identity(page.copy),
                      page.r \notin late
               PROVE  page.answer = WorkedOut(page.r, recs[page.r])
    BY DEF FinalIsOfAllRows
  <1>1. page \in Asked /\ PageIsOf(page)
    BY DEF PageInv, PageTypeOK, PagesAreOf
  <1> HIDE DEF page
  <1>2. /\ recs[page.r].status = "stopped"
        /\ page.answer.time = <<page.copy.start, page.copy.end>>
        /\ page.answer.categories = <<page.answer.wind, page.copy.start>>
        /\ page.answer.wind = Len(saved[page.r])
    BY <1>1 DEF PageIsOf, IsOf, page
  <1>3. recs[page.r].start = page.copy.start /\ recs[page.r].end = page.copy.end
    BY <1>2 DEF Identity
  <1>4. page.answer \in WorkedOutAnswer
    BY <1>1 DEF Asked
  <1>5. page.answer = [wind |-> page.answer.wind, time |-> page.answer.time,
                       categories |-> page.answer.categories]
    BY <1>4 DEF WorkedOutAnswer
  <1> QED  BY <1>2, <1>3, <1>5 DEF WorkedOut, wind_line, log_time_line, suggest_categories

LEMMA RunningIs ==
    ASSUME PageInv, NEW q \in Request, asking[q].at \in {"keep", "answer"}
    PROVE  RunningIsFresh(asking[q])
  <1> DEFINE page == asking[q]
  <1>1. page \in Asked /\ PageIsOf(page) /\ page.r \in Listed
    BY DEF PageInv, PageTypeOK, PagesAreOf, PageIsOf
  <1> SUFFICES ASSUME page.copy.status = "active", NEW i \in DOMAIN saved[page.r],
                      saved[page.r][i] <= page.looked - COMPUTED_SECONDS, ~(i <= page.answer.wind)
               PROVE  FALSE
    BY DEF RunningIsFresh
  <1>2. page.looked \in Int /\ page.answer.wind \in Nat /\ COMPUTED_SECONDS \in Nat \ {0}
    BY <1>1, PageAssumption DEF Asked, WorkedOutAnswer
  <1>3. saved[page.r] \in Seq(Int) /\ saved[page.r][i] \in Int /\ i \in Int
    BY <1>1 DEF PageInv, PageTypeOK
  <1> HIDE DEF page
  <1>4. i > page.answer.wind
    BY <1>2, <1>3
  <1>5. page.looked <= saved[page.r][i] \/ page.looked - COMPUTED_SECONDS + 1 <= saved[page.r][i]
    BY <1>1, <1>4 DEF PageIsOf, IsOf, page
  <1> QED  BY <1>2, <1>3, <1>5

LEMMA OpensOuting ==
    ASSUME PageInv, NEW q \in Request, asking[q].at \in {"keep", "answer"}
    PROVE  OpensTheOuting(asking[q])
  <1>1. PageWasChosen(asking[q])
    BY DEF PageInv, PagesAreOf
  <1> QED  BY <1>1 DEF PageWasChosen, OpensTheOuting

LEMMA PickerHas ==
    ASSUME PageInv, NEW q \in Request, asking[q].at \in {"keep", "answer"}
    PROVE  PickerHasWhatRuns(asking[q])
  <1> DEFINE page == asking[q]
  <1>1. page \in Asked /\ PageWasChosen(page)
    BY DEF PageInv, PageTypeOK, PagesAreOf
  <1>2. page.at # "idle"
    OBVIOUS
  <1> HIDE DEF page
  <1> DEFINE current == page.r
             candidates == page.candidates
             others == Ongoing \cup {r \in Unpublished : wall - recs[r].start <= PICKER_DAYS}
             Before(a, b) ==
                \/ a = current
                \/ b # current /\ a \in candidates /\ (b \in candidates => Precedes(a, b))
                \/ b # current /\ a \notin candidates /\ b \notin candidates /\ Newer(a, b)
             all == {current} \cup candidates \cup others
             ahead(r) == {a \in all \ {r} : Before(a, r)}
  <1>3. pickable(page.r, page.candidates) = {r \in all : Cardinality(ahead(r)) < PICKER_MAX}
    BY DEF pickable
  <1>4. page.running \subseteq Listed /\ IsFiniteSet(page.running)
    BY <1>1, PageAssumption, FS_Subset DEF Asked
  <1>5. page.r \in pickable(page.r, page.candidates)
    <2>1. ahead(current) = {}
      OBVIOUS
    <2> HIDE DEF ahead
    <2>2. Cardinality(ahead(current)) = 0
      BY <2>1, FS_EmptySet
    <2>3. Cardinality(ahead(current)) < PICKER_MAX
      BY <2>2, PageAssumption
    <2>4. current \in all
      OBVIOUS
    <2> HIDE DEF all
    <2> QED  BY <1>3, <2>3, <2>4
  <1>6. ASSUME Cardinality(page.running) < PICKER_MAX,
               NEW r \in page.running \cap Ongoing, r # current
        PROVE  r \in pickable(page.r, page.candidates)
    <2>1. candidates = page.running
      BY <1>1, <1>2, <1>6 DEF PageWasChosen
    <2> DEFINE rest == page.running \ {r}
    <2>2. ahead(r) \subseteq rest \cup {current}
      BY <2>1, <1>6
    <2>3. /\ IsFiniteSet(rest) /\ Cardinality(rest) = Cardinality(page.running) - 1
          /\ Cardinality(page.running) \in Nat /\ Cardinality(rest) \in Nat
      BY <1>4, FS_RemoveElement, FS_CardinalityType
    <2>4. /\ IsFiniteSet(rest \cup {current})
          /\ Cardinality(rest \cup {current}) <= Cardinality(rest) + 1
          /\ Cardinality(rest \cup {current}) \in Nat
      <3>1. IsFiniteSet(rest \cup {current})
            /\ Cardinality(rest \cup {current})
                 = IF current \in rest THEN Cardinality(rest) ELSE Cardinality(rest) + 1
        BY <2>3, FS_AddElement
      <3> HIDE DEF rest
      <3> QED  BY <2>3, <3>1
    <2> HIDE DEF ahead, rest
    <2>5. Cardinality(ahead(r)) <= Cardinality(rest \cup {current}) /\ Cardinality(ahead(r)) \in Nat
      BY <2>2, <2>4, FS_Subset, FS_CardinalityType
    <2>6. Cardinality(ahead(r)) < PICKER_MAX
      BY <1>6, <2>3, <2>4, <2>5, PageAssumption
    <2> QED  BY <1>3, <1>6, <2>1, <2>6
  <1>7. Cardinality(page.running) < PICKER_MAX =>
            page.running \cap Ongoing \subseteq pickable(page.r, page.candidates)
    BY <1>5, <1>6
  <1> QED  BY <1>5, <1>7 DEF PickerHasWhatRuns, page

\* Whatever goes on while the page is put together, by however many requests: the lines
\* of a recording that has stopped are worked out of all its rows and of its times as
\* they are, but for rows stored late; those of one in progress miss only the last
\* minute; with no id it is what was being recorded, or of the last outing; and what
\* goes on being recorded can be picked (recording_service.py:677, :774, :1079)
THEOREM PageTrue == EventPageSpec => []PageIsTrue
  <1>1. PageInv => PageIsTrue
    BY FinalIsOfAll, RunningIs, OpensOuting, PickerHas DEF PageIsTrue
  <1> QED  BY <1>1, PageKnows, PTL

-----------------------------------------------------------------------------
(***************************************************************************)
(* What is on the page of a recording when its drawings are over, for any  *)
(* plans, threads and photos.                                              *)
(***************************************************************************)

Stage == {"idle", "clear rows", "clear files", "plan", "draw", "note", "end"}
ChartFiles(S) == {StemOf(plan.charts[i]) : i \in S}

DrawingTypeOK ==
    /\ topics \in Recorded
    /\ at \in [Worker -> Stage]
    /\ DOMAIN left = Worker
    /\ overlapped \in BOOLEAN

PlanIsOfIt == plan.config \in Config /\ plan.charts = Plan(topics, plan.config)

\* The pictures, and the rows, are those of the charts in S
FilesAreOf(S) ==
    files = [stem \in ChartFiles(S) |-> plan.charts[Max(SharersIn(S, stem))].topics]
RowsAreOf(S) ==
    plotRows = [stem \in ChartFiles(S) |-> Cardinality(SharersIn(S, stem))]

\* What a worker has left is the end of the plan, and what was drawn and noted is
\* before it; there are no pictures and rows but theirs
IsUnderWay(w) ==
    LET done == Len(plan.charts) - Len(left[w]) IN
    /\ PlanIsOfIt /\ maps = {}
    /\ left[w] \in Seq(ToSet(plan.charts)) /\ done >= 0
    /\ \A i \in 1..Len(left[w]) : left[w][i] = plan.charts[done + i]
    /\ at[w] = "note" => left[w] # <<>>
    /\ drawn \subseteq 1..(done + One(at[w] = "note")) /\ noted \subseteq 1..done
    /\ FilesAreOf(drawn) /\ RowsAreOf(noted)

IsWhole == PlanIsOfIt /\ maps = {} /\ IsWhatWasDrawn /\ IsWhatWasNoted

WorkerIsAt(w) ==
    /\ at[w] = "clear files" => plotRows = Nothing
    /\ at[w] = "plan" => plotRows = Nothing /\ files = Nothing /\ maps = {}
    /\ at[w] \in {"draw", "note"} => IsUnderWay(w)
    /\ at[w] = "end" => IsWhole

OneDraws ==
    ~overlapped => \A v, w \in Worker : at[v] # "idle" /\ at[w] # "idle" => v = w

DrawingInv ==
    /\ DrawingTypeOK /\ OneDraws /\ PhotosAreKept
    /\ ~overlapped => \A w \in Worker : WorkerIsAt(w)
    /\ Finished => IsWhole

-----------------------------------------------------------------------------

\* A worker that moves is the only one that draws, or drawings overlap
LEMMA OthersIdle ==
  ASSUME DrawingTypeOK, OneDraws, NEW w \in Worker, at[w] # "idle", NEW to \in Stage,
         at' = [at EXCEPT ![w] = to], overlapped' = overlapped
  PROVE  /\ at' \in [Worker -> Stage] /\ OneDraws' /\ at'[w] = to
         /\ ~overlapped => \A v \in Worker \ {w} : at'[v] = "idle"
         /\ Finished' => to = "idle" /\ artefacts' = "fresh" /\ ~overlapped
  BY DEF DrawingTypeOK, OneDraws, Finished, Quiet

\* It is then enough to look at that one
LEMMA MoverKeeps ==
  ASSUME DrawingInv, NEW w \in Worker, at[w] # "idle", NEW to \in Stage,
         at' = [at EXCEPT ![w] = to], UNCHANGED <<overlapped, topics>>, DOMAIN left' = Worker,
         PhotosAreKept',
         ~overlapped => WorkerIsAt(w)',
         to = "idle" /\ artefacts' = "fresh" /\ ~overlapped => IsWhole'
  PROVE  DrawingInv'
  <1>1. /\ at' \in [Worker -> Stage] /\ OneDraws' /\ at'[w] = to
        /\ ~overlapped => \A v \in Worker \ {w} : at'[v] = "idle"
        /\ Finished' => to = "idle" /\ artefacts' = "fresh" /\ ~overlapped
    BY OthersIdle DEF DrawingInv
  <1>2. DrawingTypeOK'
    BY <1>1 DEF DrawingInv, DrawingTypeOK
  <1>3. ASSUME ~overlapped, NEW v \in Worker PROVE WorkerIsAt(v)'
    <2>1. CASE v = w BY <1>3, <2>1
    <2>2. CASE v # w
      <3>1. at'[v] = "idle" BY <1>1, <1>3, <2>2
      <3> QED BY <3>1 DEF WorkerIsAt
    <2> QED BY <2>1, <2>2
  <1> QED BY <1>1, <1>2, <1>3 DEF DrawingInv

LEMMA DrawingInitKeeps ==
  ASSUME DrawingInit
  PROVE  DrawingInv
  <1> USE DEF DrawingInit
  <1>1. DrawingTypeOK
    BY DEF DrawingTypeOK, Stage
  <1>2. OneDraws /\ PhotosAreKept /\ ~Finished
    BY DEF OneDraws, PhotosAreKept, Photos, Finished
  <1>3. \A w \in Worker : WorkerIsAt(w)
    BY DEF WorkerIsAt
  <1> QED BY <1>1, <1>2, <1>3 DEF DrawingInv

-----------------------------------------------------------------------------
\* A chart beyond those of S is the last of those that share its file, and one more
LEMMA OneMoreSharer ==
  ASSUME NEW n \in Nat, NEW S \in SUBSET (1..(n - 1)), NEW stem
  PROVE  /\ StemOf(plan.charts[n]) # stem => SharersIn(S \cup {n}, stem) = SharersIn(S, stem)
         /\ StemOf(plan.charts[n]) = stem =>
                /\ Max(SharersIn(S \cup {n}, stem)) = n
                /\ Cardinality(SharersIn(S \cup {n}, stem)) = Cardinality(SharersIn(S, stem)) + 1
         /\ Cardinality(SharersIn(S, stem)) \in Nat
         /\ SharersIn(S, stem) = {} => Cardinality(SharersIn(S, stem)) = 0
  <1> DEFINE T == SharersIn(S, stem)
  <1>1. /\ StemOf(plan.charts[n]) # stem => SharersIn(S \cup {n}, stem) = T
        /\ StemOf(plan.charts[n]) = stem => SharersIn(S \cup {n}, stem) = T \cup {n}
    BY DEF SharersIn
  <1>2. T \in SUBSET (1..(n - 1)) /\ n \notin T /\ \A i \in T : i \in Nat /\ i <= n
    <2>1. T \subseteq S
      BY DEF SharersIn
    <2> HIDE DEF T
    <2> QED BY <2>1
  <1>3. IsFiniteSet(T)
    <2>1. IsFiniteSet(1..(n - 1)) BY FS_Interval
    <2> QED BY <1>2, <2>1, FS_Subset
  <1> HIDE DEF T
  <1>4. Cardinality(T) \in Nat /\ (T = {} => Cardinality(T) = 0)
    BY <1>3, FS_CardinalityType, FS_EmptySet
  <1>5. Cardinality(T \cup {n}) = Cardinality(T) + 1
    BY <1>2, <1>3, FS_AddElement
  <1>6. Max(T \cup {n}) = n
    <2>1. n \in T \cup {n} /\ \A y \in T \cup {n} : n >= y
      BY <1>2
    <2>2. \A x \in T \cup {n} : (\A y \in T \cup {n} : x >= y) => x = n
      BY <1>2
    <2> QED BY <2>1, <2>2 DEF Max
  <1> QED BY <1>1, <1>4, <1>5, <1>6 DEF T

\* With its picture over whatever its file had
LEMMA OneMorePicture ==
  ASSUME NEW n \in Nat, NEW S \in SUBSET (1..(n - 1)), FilesAreOf(S), plan' = plan,
         files' = Put(files, StemOf(plan.charts[n]), plan.charts[n].topics),
         drawn' = S \cup {n}
  PROVE  FilesAreOf(drawn)'
  <1> DEFINE new == StemOf(plan.charts[n])
             of(R) == [stem \in ChartFiles(R) |-> plan.charts[Max(SharersIn(R, stem))].topics]
  <1>1. ChartFiles(S \cup {n}) = ChartFiles(S) \cup {new}
    BY DEF ChartFiles
  <1>2. DOMAIN files = ChartFiles(S)
        /\ \A stem \in ChartFiles(S) : files[stem] = of(S)[stem]
    BY DEF FilesAreOf
  <1>3. ASSUME NEW stem \in ChartFiles(S), stem # new
        PROVE  SharersIn(S \cup {n}, stem) = SharersIn(S, stem)
    BY <1>3, OneMoreSharer
  <1>4. Max(SharersIn(S \cup {n}, new)) = n
    BY OneMoreSharer
  <1>5. files' = of(S \cup {n})
    BY <1>1, <1>2, <1>3, <1>4 DEF Put
  <1>6. ChartFiles(drawn)' = ChartFiles(S \cup {n})
        /\ \A stem : SharersIn(drawn, stem)' = SharersIn(S \cup {n}, stem)
    BY DEF ChartFiles, SharersIn
  <1> QED BY <1>5, <1>6 DEF FilesAreOf

\* And a row more for its file
LEMMA OneMoreRow ==
  ASSUME NEW n \in Nat, NEW S \in SUBSET (1..(n - 1)), RowsAreOf(S), plan' = plan,
         plotRows' = Put(plotRows, StemOf(plan.charts[n]), Count(StemOf(plan.charts[n])) + 1),
         noted' = S \cup {n}
  PROVE  RowsAreOf(noted)'
  <1> DEFINE new == StemOf(plan.charts[n])
             of(R) == [stem \in ChartFiles(R) |-> Cardinality(SharersIn(R, stem))]
  <1>1. ChartFiles(S \cup {n}) = ChartFiles(S) \cup {new}
    BY DEF ChartFiles
  <1>2. DOMAIN plotRows = ChartFiles(S)
        /\ \A stem \in ChartFiles(S) : plotRows[stem] = of(S)[stem]
    BY DEF RowsAreOf
  <1>3. ASSUME NEW stem \in ChartFiles(S), stem # new
        PROVE  SharersIn(S \cup {n}, stem) = SharersIn(S, stem)
    BY <1>3, OneMoreSharer
  <1>4. Cardinality(SharersIn(S \cup {n}, new)) = Count(new) + 1
    <2>1. new \notin ChartFiles(S) => SharersIn(S, new) = {}
      BY DEF ChartFiles, SharersIn
    <2>2. Count(new) = Cardinality(SharersIn(S, new))
      BY <1>2, <2>1, OneMoreSharer DEF Count
    <2> QED BY <2>2, OneMoreSharer
  <1>5. plotRows' = of(S \cup {n})
    BY <1>1, <1>2, <1>3, <1>4 DEF Put
  <1>6. ChartFiles(noted)' = ChartFiles(S \cup {n})
        /\ \A stem : SharersIn(noted, stem)' = SharersIn(S \cup {n}, stem)
    BY DEF ChartFiles, SharersIn
  <1> QED BY <1>5, <1>6 DEF RowsAreOf

-----------------------------------------------------------------------------
\* A plan that was made is a sequence
LEMMA PlanIsSequence ==
  ASSUME PlansAreSequences, topics \in Recorded, PlanIsOfIt
  PROVE  plan.charts \in Seq(ToSet(plan.charts)) /\ Len(plan.charts) \in Nat
  <1>1. plan.charts \in Seq(ToSet(plan.charts))
    BY Zenon DEF PlansAreSequences, PlanIsOfIt
  <1> QED BY <1>1

\* The chart that is drawn next is the first beyond those done with
LEMMA NextChart ==
  ASSUME PlansAreSequences, topics \in Recorded, NEW w \in Worker, IsUnderWay(w), left[w] # <<>>
  PROVE  LET done == Len(plan.charts) - Len(left[w]) IN
         done \in Nat /\ Head(left[w]) = plan.charts[done + 1]
  <1> DEFINE P == plan.charts
             L == left[w]
             done == Len(P) - Len(L)
  <1>1. /\ L \in Seq(ToSet(P)) /\ done >= 0 /\ L # <<>>
        /\ \A i \in 1..Len(L) : L[i] = P[done + i]
    BY DEF IsUnderWay
  <1>2. Len(P) \in Nat
    BY PlanIsSequence DEF IsUnderWay
  <1> HIDE DEF P, L
  <1>3. Len(L) \in Nat \ {0} /\ Head(L) = L[1]
    BY <1>1
  <1>4. done \in Nat /\ Head(L) = P[done + 1]
    BY <1>1, <1>2, <1>3
  <1> QED BY <1>4 DEF P, L, done

\* The next chart done with, the rest is left
LEMMA GoesOn ==
  ASSUME PlansAreSequences, topics \in Recorded, NEW w \in Worker, IsUnderWay(w), left[w] # <<>>,
         UNCHANGED <<topics, plan, maps>>, left'[w] = Tail(left[w]), at'[w] # "note",
         drawn' \subseteq 1..(Len(plan.charts) - Len(left[w]) + 1),
         noted' \subseteq 1..(Len(plan.charts) - Len(left[w]) + 1),
         FilesAreOf(drawn)', RowsAreOf(noted)'
  PROVE  IsUnderWay(w)'
  <1> DEFINE P == plan.charts
             L == left[w]
             N == left'[w]
             done == Len(P) - Len(L)
  <1>1. /\ L \in Seq(ToSet(P)) /\ done >= 0 /\ L # <<>>
        /\ \A i \in 1..Len(L) : L[i] = P[done + i]
        /\ N = Tail(L) /\ plan'.charts = P
    BY DEF IsUnderWay
  <1>2. Len(P) \in Nat
    BY PlanIsSequence DEF IsUnderWay
  <1>3. drawn' \subseteq 1..(done + 1) /\ noted' \subseteq 1..(done + 1)
    OBVIOUS
  <1>4. PlanIsOfIt' /\ maps' = {}
    BY DEF IsUnderWay, PlanIsOfIt
  <1> HIDE DEF P, L, N
  <1>5. /\ N \in Seq(ToSet(P)) /\ Len(N) = Len(L) - 1 /\ Len(L) \in Nat \ {0}
        /\ \A i \in 1..Len(N) : N[i] = L[i + 1]
    BY <1>1
  <1>6. Len(P) - Len(N) = done + 1 /\ done + 1 >= 0
    BY <1>1, <1>2, <1>5
  <1>7. \A i \in 1..Len(N) : N[i] = P[done + 1 + i]
    <2> SUFFICES ASSUME NEW i \in 1..Len(N) PROVE N[i] = P[done + 1 + i] OBVIOUS
    <2>1. i + 1 \in 1..Len(L) /\ done + (i + 1) = done + 1 + i
      BY <1>2, <1>5
    <2> HIDE DEF done
    <2> QED BY <1>1, <1>5, <2>1
  <1>8. One(FALSE) = 0 /\ (at[w] = "note")' = FALSE
    BY DEF One
  <1>9. /\ \A i \in 1..Len(N) : N[i] = P[Len(P) - Len(N) + i]
        /\ drawn' \subseteq 1..(Len(P) - Len(N) + 0) /\ noted' \subseteq 1..(Len(P) - Len(N))
        /\ Len(P) - Len(N) >= 0
    BY <1>3, <1>6, <1>7
  <1> HIDE DEF done
  <1>10. /\ \A i \in 1..Len(N) : N[i] = plan'.charts[Len(plan'.charts) - Len(N) + i]
         /\ drawn' \subseteq 1..(Len(plan'.charts) - Len(N) + One((at[w] = "note")'))
         /\ noted' \subseteq 1..(Len(plan'.charts) - Len(N))
         /\ Len(plan'.charts) - Len(N) >= 0 /\ N \in Seq(ToSet(plan'.charts))
    BY <1>1, <1>5, <1>8, <1>9
  <1> QED BY <1>4, <1>8, <1>10, Zenon DEF IsUnderWay, N

-----------------------------------------------------------------------------
\* A drawing begins: none other is under way, or they overlap from now on
LEMMA BeginKeeps ==
  ASSUME DrawingInv, NEW w \in Worker, Begin(w)
  PROVE  DrawingInv'
  <1> USE DEF Begin, Goes, pastVars, filesVars
  <1>1. at' \in [Worker -> Stage] /\ overlapped' \in BOOLEAN /\ ~Finished'
    BY DEF DrawingInv, DrawingTypeOK, Stage, Finished
  <1>2. DrawingTypeOK' /\ PhotosAreKept'
    BY <1>1 DEF DrawingInv, DrawingTypeOK, PhotosAreKept, Photos
  <1>3. ~overlapped' => \A v \in Worker : at'[v] = IF v = w THEN "clear rows" ELSE "idle"
    BY DEF DrawingInv, DrawingTypeOK, Quiet
  <1>4. OneDraws'
    BY <1>3 DEF OneDraws
  <1>5. ASSUME ~overlapped', NEW v \in Worker PROVE WorkerIsAt(v)'
    <2>1. at'[v] \in {"clear rows", "idle"}
      BY <1>3, <1>5
    <2> QED BY <2>1 DEF WorkerIsAt
  <1> QED BY <1>1, <1>2, <1>4, <1>5 DEF DrawingInv

\* The last drawing's rows and files are cleared, and this one's plan is made
LEMMA ClearKeeps ==
  ASSUME PlansAreSequences, DrawingInv, NEW w \in Worker,
         ClearRows(w) \/ ClearFiles(w) \/ MakePlan(w)
  PROVE  DrawingInv'
  <1> DEFINE to == at'[w]
  <1>1. /\ at[w] # "idle" /\ to \in Stage /\ at' = [at EXCEPT ![w] = to] /\ to # "idle"
    BY DEF ClearRows, ClearFiles, MakePlan, Goes, DrawingInv, DrawingTypeOK, Stage
  <1>2. UNCHANGED <<overlapped, topics, added, removed, photoRows, photoFiles>>
    BY DEF ClearRows, ClearFiles, MakePlan, pastVars, rowVars, filesVars
  <1>3. PhotosAreKept' /\ DOMAIN left' = Worker
    BY <1>2 DEF PhotosAreKept, Photos, DrawingInv, DrawingTypeOK, ClearRows, ClearFiles, MakePlan
  <1>4. ASSUME ~overlapped PROVE WorkerIsAt(w)'
    <2>0. WorkerIsAt(w) /\ topics \in Recorded
      BY <1>4 DEF DrawingInv, DrawingTypeOK
    <2>1. CASE ClearRows(w)
      <3>1. to = "clear files" /\ plotRows' = Nothing
        BY <1>1, <2>1 DEF ClearRows, Goes, DrawingInv, DrawingTypeOK
      <3> QED BY <3>1 DEF WorkerIsAt
    <2>2. CASE ClearFiles(w)
      <3>1. to = "plan" /\ plotRows' = Nothing /\ files' = Nothing /\ maps' = {}
        BY <1>1, <2>0, <2>2 DEF ClearFiles, Goes, WorkerIsAt, rowVars, DrawingInv, DrawingTypeOK
      <3> QED BY <3>1 DEF WorkerIsAt
    <2>3. CASE MakePlan(w)
      <3>1. /\ to = "draw" /\ plotRows' = Nothing /\ maps' = {} /\ topics' = topics
            /\ left' = [left EXCEPT ![w] = plan'.charts]
        BY <1>1, <2>0, <2>3 DEF MakePlan, Goes, WorkerIsAt, rowVars, filesVars,
                                DrawingInv, DrawingTypeOK
      <3>2. PICK config \in Config : plan' = [charts |-> Plan(topics, config), config |-> config]
        BY <2>3 DEF MakePlan
      <3>3. plan'.config = config /\ plan'.charts = Plan(topics, config)
        BY <3>2
      <3>4. PlanIsOfIt'
        BY <3>1, <3>3 DEF PlanIsOfIt
      <3>5. left'[w] = plan'.charts
        BY <3>1 DEF DrawingInv, DrawingTypeOK
      <3> DEFINE P == plan'.charts
      <3>6. P \in Seq(ToSet(P))
        BY <2>0, <3>3, Zenon DEF PlansAreSequences
      <3>7. /\ Len(P) \in Nat /\ to # "note" /\ drawn' = {} /\ noted' = {}
            /\ plotRows' = Nothing /\ files' = Nothing
        BY <2>0, <2>3, <3>1, <3>6 DEF MakePlan, Goes, WorkerIsAt, rowVars, filesVars
      <3>8. IsUnderWay(w)'
        <4> HIDE DEF P
        <4>1. Len(P) - Len(P) = 0 /\ \A i \in 1..Len(P) : P[i] = P[0 + i]
          BY <3>7
        <4>2. /\ Len(P) - Len(P) >= 0
              /\ \A i \in 1..Len(P) : P[i] = P[Len(P) - Len(P) + i]
          BY <3>7, <4>1
        <4>3. FilesAreOf(drawn)' /\ RowsAreOf(noted)'
          BY <3>7 DEF FilesAreOf, RowsAreOf, ChartFiles, Nothing
        <4> QED BY <3>1, <3>4, <3>5, <3>6, <3>7, <4>2, <4>3 DEF IsUnderWay, P
      <3> QED BY <3>1, <3>8 DEF WorkerIsAt
    <2> QED BY <2>1, <2>2, <2>3
  <1> HIDE DEF to
  <1> QED BY <1>1, <1>2, <1>3, <1>4, MoverKeeps

\* A chart is drawn, noted, or missed: it is done with
LEMMA ChartKeeps ==
  ASSUME PlansAreSequences, DrawingInv, NEW w \in Worker,
         DrawChart(w) \/ Misses(w) \/ NoteChart(w)
  PROVE  DrawingInv'
  <1> DEFINE to == at'[w]
  <1>1. /\ at[w] \in {"draw", "note"} /\ to \in {"draw", "note"}
        /\ at' = [at EXCEPT ![w] = to]
    BY DEF DrawChart, Misses, NoteChart, Goes, DrawingInv, DrawingTypeOK
  <1>2. UNCHANGED <<overlapped, topics, added, removed, photoRows, photoFiles, plan, maps>>
    BY DEF DrawChart, Misses, NoteChart, pastVars, chartVars, rowVars, filesVars
  <1>3. PhotosAreKept' /\ DOMAIN left' = Worker
    BY <1>2 DEF PhotosAreKept, Photos, DrawingInv, DrawingTypeOK, DrawChart, Misses, NoteChart
  <1>4. ASSUME ~overlapped PROVE WorkerIsAt(w)'
    <2> DEFINE done == Len(plan.charts) - Len(left[w])
               n == done + 1
    <2>1. WorkerIsAt(w) /\ IsUnderWay(w) /\ topics \in Recorded
      BY <1>1, <1>4 DEF DrawingInv, DrawingTypeOK, WorkerIsAt
    <2>2. left[w] # <<>>
      BY <2>1 DEF DrawChart, Misses, NoteChart, Goes, IsUnderWay
    <2>3. done \in Nat /\ Head(left[w]) = plan.charts[n] /\ Number(w) = n
      BY <2>1, <2>2, NextChart DEF Number
    <2>4. /\ drawn \subseteq 1..(done + One(at[w] = "note")) /\ noted \subseteq 1..done
          /\ FilesAreOf(drawn) /\ RowsAreOf(noted)
      BY <2>1 DEF IsUnderWay
    <2> HIDE DEF done
    <2>5. /\ n \in Nat /\ 1..(n - 1) = 1..done
          /\ drawn \subseteq 1..n /\ noted \subseteq 1..n /\ n \in 1..n
      <3>1. n \in Nat /\ n - 1 = done /\ n \in 1..n /\ 1..done \subseteq 1..n
        BY <2>3
      <3>2. done + One(at[w] = "note") \in {done, n}
        BY <2>3 DEF One
      <3> HIDE DEF n
      <3> QED BY <2>4, <3>1, <3>2
    <2>6. CASE DrawChart(w)
      <3>1. /\ to = "note" /\ at[w] = "draw" /\ UNCHANGED <<left, plotRows, noted>>
            /\ files' = Put(files, StemOf(plan.charts[n]), plan.charts[n].topics)
            /\ drawn' = drawn \cup {n}
        BY <1>1, <2>3, <2>6 DEF DrawChart, Goes, rowVars, DrawingInv, DrawingTypeOK
      <3>2. One(at[w] = "note") = 0 /\ One(TRUE) = 1
        BY <3>1 DEF One
      <3>3. drawn \subseteq 1..done
        BY <2>3, <2>4, <3>2
      <3>4. FilesAreOf(drawn)'
        <4> HIDE DEF n
        <4> QED BY <1>2, <2>4, <2>5, <3>1, <3>3, OneMorePicture
      <3>5. RowsAreOf(noted)'
        BY <1>2, <2>4, <3>1 DEF RowsAreOf, ChartFiles, SharersIn
      <3>6. drawn' \subseteq 1..(done + One(TRUE))
        BY <2>5, <3>1, <3>2
      <3>7. (at[w] = "note")' = TRUE /\ left'[w] # <<>>
        BY <2>2, <3>1
      <3>8. IsUnderWay(w)'
        BY <1>2, <2>1, <2>4, <3>1, <3>4, <3>5, <3>6, <3>7 DEF IsUnderWay, PlanIsOfIt, done
      <3> QED BY <3>1, <3>8 DEF WorkerIsAt
    <2>7. CASE Misses(w)
      <3>1. /\ to = "draw" /\ UNCHANGED <<files, plotRows, drawn, noted>>
            /\ left'[w] = Tail(left[w])
        BY <1>1, <2>7 DEF Misses, rowVars, filesVars, pastVars, chartVars, DrawingInv, DrawingTypeOK
      <3>2. FilesAreOf(drawn)' /\ RowsAreOf(noted)'
        BY <1>2, <2>4, <3>1 DEF FilesAreOf, RowsAreOf, ChartFiles, SharersIn
      <3>3. IsUnderWay(w)'
        BY <1>2, <2>1, <2>2, <2>5, <3>1, <3>2, GoesOn DEF done
      <3> QED BY <3>1, <3>3 DEF WorkerIsAt
    <2>8. CASE NoteChart(w)
      <3>1. /\ to = "draw" /\ UNCHANGED <<files, drawn>> /\ noted' = noted \cup {n}
            /\ plotRows' = Put(plotRows, StemOf(plan.charts[n]), Count(StemOf(plan.charts[n])) + 1)
            /\ left'[w] = Tail(left[w])
        BY <1>1, <2>3, <2>8 DEF NoteChart, Goes, filesVars, DrawingInv, DrawingTypeOK
      <3>2. FilesAreOf(drawn)'
        BY <1>2, <2>4, <3>1 DEF FilesAreOf, ChartFiles, SharersIn
      <3>3. RowsAreOf(noted)'
        <4> HIDE DEF n
        <4> QED BY <1>2, <2>4, <2>5, <3>1, OneMoreRow
      <3>4. noted' \subseteq 1..n /\ drawn' \subseteq 1..n
        BY <2>5, <3>1
      <3>5. IsUnderWay(w)'
        BY <1>2, <2>1, <2>2, <3>1, <3>2, <3>3, <3>4, GoesOn DEF done
      <3> QED BY <3>1, <3>5 DEF WorkerIsAt
    <2> QED BY <2>6, <2>7, <2>8
  <1>5. at[w] # "idle" /\ to \in Stage /\ to # "idle"
    BY <1>1 DEF Stage
  <1> HIDE DEF to
  <1> QED BY <1>1, <1>2, <1>3, <1>4, <1>5, MoverKeeps

\* With none left the table is drawn, and the drawing is over, or has failed
LEMMA EndKeeps ==
  ASSUME PlansAreSequences, DrawingInv, NEW w \in Worker,
         DrawTable(w) \/ End(w) \/ Fails(w)
  PROVE  DrawingInv'
  <1> DEFINE to == at'[w]
  <1>1. /\ at[w] # "idle" /\ to \in {"end", "idle"} /\ at' = [at EXCEPT ![w] = to]
    BY DEF DrawTable, End, Fails, Goes, DrawingInv, DrawingTypeOK
  <1>2. UNCHANGED <<overlapped, topics, added, removed, photoRows, photoFiles, plan, maps, drawn, noted, left>>
    BY DEF DrawTable, End, Fails, pastVars, chartVars, filesVars
  <1>3. PhotosAreKept' /\ DOMAIN left' = Worker
    BY <1>2 DEF PhotosAreKept, Photos, DrawingInv, DrawingTypeOK
  <1>4. ASSUME ~overlapped, DrawTable(w) PROVE IsWhole'
    <2>1. IsUnderWay(w) /\ left[w] = <<>> /\ topics \in Recorded
      BY <1>4 DEF DrawTable, Goes, DrawingInv, DrawingTypeOK, WorkerIsAt
    <2>2. /\ FilesAreOf(drawn) /\ RowsAreOf(noted) /\ PlanIsOfIt /\ maps = {}
          /\ noted \subseteq 1..Len(plan.charts) /\ Len(plan.charts) \in Nat
      <3>1. Len(plan.charts) \in Nat
        BY <2>1, PlanIsSequence DEF IsUnderWay
      <3>2. Len(plan.charts) - Len(left[w]) = Len(plan.charts)
        BY <2>1, <3>1
      <3> QED BY <2>1, <3>1, <3>2 DEF IsUnderWay
    <2>3. /\ files' = Put(files, Statistics, topics)
          /\ plotRows' = Put(plotRows, Statistics, Count(Statistics) + 1)
      BY <1>4 DEF DrawTable
    <2>4. \A S : FilesOf(S) = ChartFiles(S) \cup {Statistics}
      BY DEF FilesOf, ChartFiles
    <2>5. files' = [stem \in FilesOf(drawn) |->
                      IF stem = Statistics THEN topics
                      ELSE plan.charts[Max(SharersIn(drawn, stem))].topics]
      BY <2>2, <2>3, <2>4 DEF FilesAreOf, Put
    <2>6. IsWhatWasDrawn'
      BY <1>2, <2>5 DEF IsWhatWasDrawn, FilesOf, SharersIn
    <2>7. \A stem : Cardinality(SharersIn(noted, stem)) \in Nat
                    /\ (SharersIn(noted, stem) = {} => Cardinality(SharersIn(noted, stem)) = 0)
      <3> DEFINE n == Len(plan.charts) + 1
      <3>1. n \in Nat /\ noted \in SUBSET (1..(n - 1))
        BY <2>2
      <3> HIDE DEF n
      <3> QED BY <3>1, OneMoreSharer
    <2>8. Count(Statistics) = Cardinality(SharersIn(noted, Statistics))
      <3>1. Statistics \notin ChartFiles(noted) => SharersIn(noted, Statistics) = {}
        BY DEF ChartFiles, SharersIn
      <3> QED BY <2>2, <2>7, <3>1 DEF RowsAreOf, Count
    <2>9. plotRows' = [stem \in FilesOf(noted) |->
                         Cardinality(SharersIn(noted, stem)) + One(stem = Statistics)]
      BY <2>2, <2>3, <2>4, <2>7, <2>8 DEF RowsAreOf, Put, One
    <2>10. IsWhatWasNoted'
      BY <1>2, <2>9 DEF IsWhatWasNoted, FilesOf, SharersIn
    <2> QED BY <1>2, <2>2, <2>6, <2>10 DEF IsWhole, PlanIsOfIt
  <1>5. ASSUME ~overlapped, End(w) PROVE IsWhole'
    <2>1. IsWhole /\ UNCHANGED <<files, plotRows>>
      BY <1>5 DEF End, Goes, filesVars, DrawingInv, WorkerIsAt
    <2> QED BY <1>2, <2>1 DEF IsWhole, PlanIsOfIt, IsWhatWasDrawn, IsWhatWasNoted, FilesOf,
                              SharersIn
  <1>6. ~overlapped => WorkerIsAt(w)'
    <2>1. to = "end" => DrawTable(w)
      BY DEF DrawTable, End, Fails, Goes, DrawingInv, DrawingTypeOK
    <2> QED BY <1>1, <1>4, <2>1 DEF WorkerIsAt
  <1>7. to = "idle" /\ artefacts' = "fresh" /\ ~overlapped => IsWhole'
    <2>1. to = "idle" /\ artefacts' = "fresh" => End(w)
      BY DEF DrawTable, End, Fails, Goes, DrawingInv, DrawingTypeOK
    <2> QED BY <1>5, <2>1
  <1>8. to \in Stage
    BY <1>1 DEF Stage
  <1> HIDE DEF to
  <1> QED BY <1>1, <1>2, <1>3, <1>6, <1>7, <1>8, MoverKeeps

\* The crew's photos are told in once they are there, and nothing else is touched
LEMMA PhotosKeep ==
  ASSUME DrawingInv, NEW p \in Photo,
         AddPhoto(p) \/ NotePhoto(p) \/ RemovePhoto(p) \/ ForgetPhoto(p)
  PROVE  DrawingInv'
  <1>1. UNCHANGED <<topics, files, maps, artefacts, plotRows, drawVars, chartVars, overlapped>>
    BY DEF AddPhoto, NotePhoto, RemovePhoto, ForgetPhoto, rowVars, filesVars, pastVars
  <1>2. PhotosAreKept'
    BY DEF DrawingInv, PhotosAreKept, Photos, AddPhoto, NotePhoto, RemovePhoto, ForgetPhoto,
           rowVars, filesVars, pastVars
  <1>3. IsWhole' = IsWhole /\ \A w \in Worker : WorkerIsAt(w)' = WorkerIsAt(w)
    BY <1>1 DEF drawVars, chartVars, WorkerIsAt, IsUnderWay, FilesAreOf, RowsAreOf, ChartFiles,
                IsWhole, PlanIsOfIt, IsWhatWasDrawn, IsWhatWasNoted, FilesOf, SharersIn
  <1>4. DrawingTypeOK' /\ OneDraws' /\ Finished' = Finished
    BY <1>1 DEF drawVars, DrawingInv, DrawingTypeOK, OneDraws, Finished, Quiet
  <1> QED BY <1>1, <1>2, <1>3, <1>4 DEF DrawingInv

-----------------------------------------------------------------------------
\* Through drawings, drawings again, failures and photos, in any order and by
\* any number of threads
THEOREM DrawingKeeps ==
  ASSUME PlansAreSequences
  PROVE  DrawingSpec => []DrawingInv
  <1>1. DrawingInit => DrawingInv
    BY DrawingInitKeeps
  <1>2. DrawingInv /\ [DrawingNext]_drawingVars => DrawingInv'
    <2> SUFFICES ASSUME DrawingInv, [DrawingNext]_drawingVars PROVE DrawingInv' OBVIOUS
    <2>1. ASSUME NEW w \in Worker, Begin(w) PROVE DrawingInv'
      BY <2>1, BeginKeeps
    <2>2. ASSUME NEW w \in Worker, ClearRows(w) \/ ClearFiles(w) \/ MakePlan(w) PROVE DrawingInv'
      BY <2>2, ClearKeeps
    <2>3. ASSUME NEW w \in Worker, DrawChart(w) \/ Misses(w) \/ NoteChart(w) PROVE DrawingInv'
      BY <2>3, ChartKeeps
    <2>4. ASSUME NEW w \in Worker, DrawTable(w) \/ End(w) \/ Fails(w) PROVE DrawingInv'
      BY <2>4, EndKeeps
    <2>5. ASSUME NEW p \in Photo,
                 AddPhoto(p) \/ NotePhoto(p) \/ RemovePhoto(p) \/ ForgetPhoto(p)
          PROVE  DrawingInv'
      BY <2>5, PhotosKeep
    <2>6. CASE UNCHANGED drawingVars
      <3>1. IsWhole' = IsWhole /\ \A w \in Worker : WorkerIsAt(w)' = WorkerIsAt(w)
        BY <2>6 DEF drawingVars, filesVars, rowVars, drawVars, pastVars, chartVars, WorkerIsAt,
                    IsUnderWay, FilesAreOf, RowsAreOf, ChartFiles, IsWhole, PlanIsOfIt,
                    IsWhatWasDrawn, IsWhatWasNoted, FilesOf, SharersIn
      <3>2. DrawingTypeOK' /\ OneDraws' /\ Finished' = Finished /\ PhotosAreKept'
        BY <2>6 DEF drawingVars, filesVars, rowVars, drawVars, pastVars, DrawingInv,
                    DrawingTypeOK, OneDraws, Finished, Quiet, PhotosAreKept, Photos
      <3>3. overlapped' = overlapped
        BY <2>6 DEF drawingVars, pastVars
      <3> QED BY <3>1, <3>2, <3>3 DEF DrawingInv
    <2> QED BY <2>1, <2>2, <2>3, <2>4, <2>5, <2>6 DEF DrawingNext
  <1> QED BY <1>1, <1>2, PTL DEF DrawingSpec

\* When the drawings of a recording are over, and the last began with none about,
\* the plots on disk are those of the charts it drew, for any titles: of those that
\* go to one file, the last; a row is there of each it noted and of no other; no old
\* map is left, nor anything of an earlier drawing, of those that failed or
\* overlapped too; and what was planned is of what was recorded.  Through all of
\* them no photo of the crew's goes.  For any charts and titles, any number of
\* threads, drawings and photos (process_recording)
THEOREM LastDrawingIsThere ==
  ASSUME PlansAreSequences
  PROVE  DrawingSpec =>
            [](PhotosAreKept /\ (Finished =>
                /\ IsWhatWasDrawn /\ IsWhatWasNoted /\ maps = {}
                /\ plan.charts = Plan(topics, plan.config)))
  <1>1. DrawingInv =>
            PhotosAreKept /\ (Finished =>
                /\ IsWhatWasDrawn /\ IsWhatWasNoted /\ maps = {}
                /\ plan.charts = Plan(topics, plan.config))
    BY DEF DrawingInv, IsWhole, PlanIsOfIt
  <1> QED BY <1>1, DrawingKeeps, PTL
================================================================================
