------------------------------ MODULE EventPage ------------------------------
(***************************************************************************)
(* What the event page is told each time it asks (page_state in            *)
(* recording_service.py): the recording it opens, those it can change to,  *)
(* and the lines worked out of the recorded data, which are kept           *)
(* (_cached).  A request is answered in steps, each of which reads the     *)
(* database by itself; requests run side by side, and beside the           *)
(* recordings.  Of the data only how much of it there was is kept.         *)
(***************************************************************************)
EXTENDS Integers, Sequences, FiniteSets

CONSTANTS
    Listed,             \* ids of recordings, in the order in which they start
    Default,            \* those whose event is marked editor_default
    Request,            \* requests at one time, numbered as they come
    Id,                 \* what is asked for: recordings, or Nobody
    SAME_OUTING, PICKER_DAYS, PICKER_MAX,
    COMPUTED_SECONDS,
    MaxPassed, MaxRows, MaxMoves    \* bounds

VARIABLES
    passed,     \* the time that passes,
    moved,      \*   and what the wall clock shows beyond it
    recs,       \* the rows of the recordings
    unsaved,    \* messages of each still in memory
    saved,      \* when each of the stored ones was stored
    kept,       \* _computed_cache: when, for what identity, which answer
    asking,     \* the requests
    late        \* history: recordings that had rows stored after they stopped

pageVars == <<passed, moved, recs, unsaved, saved, kept, asking, late>>

Nobody == 0
ASSUME PageAssumption ==
    /\ Listed \subseteq Nat \ {Nobody} /\ IsFiniteSet(Listed) /\ Id \subseteq Listed \cup {Nobody}
    /\ Request \subseteq Nat /\ SAME_OUTING \in Nat /\ PICKER_DAYS \in Nat
    /\ PICKER_MAX \in Nat \ {0} /\ COMPUTED_SECONDS \in Nat \ {0}
    /\ MaxPassed \in Nat /\ MaxRows \in Nat /\ MaxMoves \in Nat

NotYet == [status |-> "none", start |-> 0, end |-> 0, owned |-> FALSE]
NoAnswer == [wind |-> 0, time |-> <<0, 0>>, categories |-> <<0, 0>>]
NotKept == [is |-> FALSE, at |-> 0, identity |-> <<"none", 0, 0>>, answer |-> NoAnswer]
Idle == [at |-> "idle", byChoice |-> FALSE, candidates |-> {}, running |-> {}, r |-> Nobody,
         copy |-> NotYet, looked |-> 0, answer |-> NoAnswer]

EventPageInit ==
    /\ passed = 0 /\ moved = 0 /\ late = {}
    /\ recs = [r \in Listed |-> NotYet]
    /\ unsaved = [r \in Listed |-> 0] /\ saved = [r \in Listed |-> <<>>]
    /\ kept = [r \in Listed |-> NotKept]
    /\ asking = [q \in Request |-> Idle]

-----------------------------------------------------------------------------
(* The recordings, meanwhile                                               *)

Others == <<kept, asking>>
wall == passed + moved

TimeGoes == /\ passed < MaxPassed /\ passed' = passed + 1
          /\ UNCHANGED <<moved, recs, unsaved, saved, late, Others>>

\* At most one a moment, in the order of their ids
Starts(r) ==
    /\ recs[r].status = "none"
    /\ \A other \in Listed : other < r => recs[other].status # "none" /\ recs[other].start < wall
    /\ recs' = [recs EXCEPT ![r].status = "active", ![r].start = wall]
    /\ UNCHANGED <<passed, moved, unsaved, saved, late, Others>>

Comes(r) ==
    /\ recs[r].status = "active" /\ unsaved[r] + Len(saved[r]) < MaxRows
    /\ unsaved' = [unsaved EXCEPT ![r] = @ + 1]
    /\ UNCHANGED <<passed, moved, recs, saved, late, Others>>

StoreAll == /\ saved' = [r \in Listed |-> saved[r] \o [i \in 1..unsaved[r] |-> passed]]
          /\ unsaved' = [r \in Listed |-> 0]
          /\ late' = late \cup {r \in Listed : recs[r].status = "stopped" /\ unsaved[r] > 0}

Flushes == StoreAll /\ unsaved' # unsaved /\ UNCHANGED <<passed, moved, recs, Others>>

\* The buffer goes first, unless the database is locked; then the end is written
Stops(r) ==
    /\ recs[r].status = "active"
    /\ StoreAll \/ UNCHANGED <<unsaved, saved, late>>
    /\ recs' = [recs EXCEPT ![r].status = "stopped", ![r].end = wall]
    /\ UNCHANGED <<passed, moved, Others>>

\* The clock is put right, and the times of what was recorded before with it
ClockSteps ==
    /\ moved < MaxMoves /\ moved' = moved + 1
    /\ recs' = [r \in Listed |->
            IF recs[r].status = "none" THEN recs[r]
            ELSE [recs[r] EXCEPT !.start = @ + 1, !.end = @ + 1]]
    /\ UNCHANGED <<passed, unsaved, saved, late, Others>>

\* Published, or taken for a draft of WordPress's own
IsPublished(r) ==
    /\ recs[r].status = "stopped" /\ ~recs[r].owned
    /\ recs' = [recs EXCEPT ![r].owned = TRUE]
    /\ UNCHANGED <<passed, moved, unsaved, saved, late, Others>>

-----------------------------------------------------------------------------
(* Which recording the page opens, and what it offers instead              *)

Ongoing == {r \in Listed : recs[r].status = "active"}
Unpublished == {r \in Listed : recs[r].status = "stopped" /\ ~recs[r].owned}

\* Mutants: what has stopped is in it too; the outing of another day
poolOfAll == Ongoing \cup Unpublished
poolOfAnyDay == IF Ongoing # {} THEN Ongoing ELSE Unpublished

\* What is being recorded, or else what came of the last outing
pool ==
    IF Ongoing # {} THEN Ongoing
    ELSE {r \in Unpublished :
            \A other \in Unpublished : recs[other].start - recs[r].start <= SAME_OUTING}

\* Newest first, and of the candidates the default event's before the others; a
\* clock put right moves all of them, so this order stays
Newer(a, b) == recs[a].start > recs[b].start
Precedes(a, b) == IF a \in Default <=> b \in Default THEN Newer(a, b) ELSE a \in Default
editor_choice(r) == r \in pool /\ \A other \in pool \ {r} : Precedes(r, other)

\* The one open, the candidates, and whatever else is on or waits to be published,
\* as many as there is room for
pickable(current, candidates) ==
    LET others == Ongoing \cup {r \in Unpublished : wall - recs[r].start <= PICKER_DAYS}
        Before(a, b) ==
            \/ a = current
            \/ b # current /\ a \in candidates /\ (b \in candidates => Precedes(a, b))
            \/ b # current /\ a \notin candidates /\ b \notin candidates /\ Newer(a, b)
        all == {current} \cup candidates \cup others
    IN {r \in all : Cardinality({a \in all \ {r} : Before(a, r)}) < PICKER_MAX}

-----------------------------------------------------------------------------
(* A request                                                               *)

World == <<passed, moved, recs, unsaved, saved, late>>

\* What could be opened is read first; with no id, the first of it is
Chooses(q, id) ==
    /\ asking[q] = Idle /\ \A other \in Request : other < q => asking[other] # Idle
    /\ \E r \in Listed :
        /\ IF id = Nobody THEN editor_choice(r) ELSE r = id /\ recs[r].status # "none"
        /\ asking' = [asking EXCEPT ![q] =
                [Idle EXCEPT !.at = "chosen", !.byChoice = (id = Nobody), !.candidates = pool,
                             !.running = Ongoing, !.r = r]]
    /\ UNCHANGED <<World, kept>>

\* get_draft reads the recording by itself
Reads(q) ==
    /\ asking[q].at = "chosen"
    /\ asking' = [asking EXCEPT ![q].at = "read", ![q].copy = recs[asking[q].r]]
    /\ UNCHANGED <<World, kept>>

\* What is worked out depends on the rows there are, and on the times of the
\* recording: the wind, the time line, and what each rule for a category reads
wind_line(r) == Len(saved[r])
log_time_line(copy) == <<copy.start, copy.end>>
suggest_categories(r, copy) == <<Len(saved[r]), copy.start>>
WorkedOut(r, copy) ==
    [wind |-> wind_line(r), time |-> log_time_line(copy),
     categories |-> suggest_categories(r, copy)]

Identity(copy) == <<copy.status, copy.start, IF copy.status = "stopped" THEN copy.end ELSE 0>>

\* Mutants: the identity of a stopped recording is its being stopped; what is
\* kept of one in progress holds like that of one that has stopped
HoldsOnceStopped(copy, r, at) ==
    kept[r].is /\ kept[r].identity[1] = copy.status
        /\ (copy.status # "active" \/ at - kept[r].at < COMPUTED_SECONDS)
HoldsAlways(copy, r, at) == kept[r].is /\ kept[r].identity = Identity(copy)

\* While recording for a while, and then as long as it is the same
Holds(copy, r, at) ==
    kept[r].is /\ kept[r].identity = Identity(copy)
        /\ (copy.status # "active" \/ at - kept[r].at < COMPUTED_SECONDS)

\* _cached, with what was read of the recording: the answer that is kept, or one
\* worked out of the data there is by passed.  The lines and the categories have a
\* cache each, of which one is modelled: they are asked, and hold, alike
Looks(q) ==
    /\ asking[q].at = "read"
    /\ LET r == asking[q].r
           copy == asking[q].copy
           found(place, answer) ==
               [asking[q] EXCEPT !.at = place, !.looked = passed, !.answer = answer]
       IN asking' = [asking EXCEPT ![q] =
            IF Holds(copy, r, passed) THEN found("answer", kept[r].answer)
            ELSE found("keep", WorkedOut(r, copy))]
    /\ UNCHANGED <<World, kept>>

\* What was worked out is kept, over what another request may have kept meanwhile,
\* and is the answer
Keeps(q) ==
    /\ asking[q].at = "keep"
    /\ kept' = [kept EXCEPT ![asking[q].r] =
            [is |-> TRUE, at |-> asking[q].looked, identity |-> Identity(asking[q].copy),
             answer |-> asking[q].answer]]
    /\ asking' = [asking EXCEPT ![q] = Idle]
    /\ UNCHANGED World

Answers(q) ==
    /\ asking[q].at = "answer"
    /\ asking' = [asking EXCEPT ![q] = Idle]
    /\ UNCHANGED <<World, kept>>

EventPageNext ==
    \/ TimeGoes \/ Flushes \/ ClockSteps
    \/ \E r \in Listed : Starts(r) \/ Comes(r) \/ Stops(r) \/ IsPublished(r)
    \/ \E q \in Request :
        \/ \E id \in Id : Chooses(q, id)
        \/ Reads(q) \/ Looks(q) \/ Keeps(q) \/ Answers(q)

EventPageSpec == EventPageInit /\ [][EventPageNext]_pageVars

-----------------------------------------------------------------------------
\* What is worked out of a recording that has stopped is of all its rows and of
\* its times as they are: "Once stopped, the data cannot change".  (It can, if the
\* database was locked when the recording stopped)
FinalIsOfAllRows(page) ==
    page.copy.status = "stopped" /\ Identity(recs[page.r]) = Identity(page.copy)
        /\ page.r \notin late
    => page.answer = WorkedOut(page.r, recs[page.r])

\* Of one in progress it leaves nothing out that was saved a minute before
RunningIsFresh(page) ==
    page.copy.status = "active" =>
        \A i \in DOMAIN saved[page.r] :
            saved[page.r][i] <= page.looked - COMPUTED_SECONDS => i <= page.answer.wind

\* With no id the page is of what was being recorded, or else of the last outing:
\* "a week-old unpublished anchor recording is not what today's crew want"
OpensTheOuting(page) ==
    page.byChoice =>
        IF page.running # {} THEN page.r \in page.running
        ELSE \A r \in page.candidates :
                recs[r].start - recs[page.r].start <= SAME_OUTING

\* The picker has what is open, and all that went on being recorded while the page
\* was put together, though it is cut
PickerHasWhatRuns(page) ==
    LET picker == pickable(page.r, page.candidates)
    IN /\ page.r \in picker
       /\ Cardinality(page.running) < PICKER_MAX => page.running \cap Ongoing \subseteq picker

(***************************************************************************)
(* What the event page shows, whatever else went on while it was being     *)
(* put together (recording_service.py:677, :774, :1079).                   *)
(***************************************************************************)
PageIsTrue ==
    \A q \in Request : asking[q].at \in {"keep", "answer"} =>
        LET page == asking[q]
        IN FinalIsOfAllRows(page) /\ RunningIsFresh(page) /\ OpensTheOuting(page)
              /\ PickerHasWhatRuns(page)

\* Not so if the last rows were saved after the recording stopped
AlwaysOfAllRows ==
    \A q \in Request :
        asking[q].at \in {"keep", "answer"} /\ asking[q].copy.status = "stopped"
            /\ Identity(recs[asking[q].r]) = Identity(asking[q].copy)
        => asking[q].answer = WorkedOut(asking[q].r, recs[asking[q].r])
===============================================================================
