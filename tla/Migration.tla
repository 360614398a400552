------------------------------- MODULE Migration -------------------------------
(***************************************************************************)
(* A database of an older release opened by this one: _migrate_database    *)
(* and what it calls in models.py, run at every start, with outages on the *)
(* way and the crew at work between the starts.                            *)
(*                                                                         *)
(* sqlite3 opens a transaction at the first INSERT, UPDATE or DELETE; what *)
(* changes the schema before that is committed statement by statement, and *)
(* what comes after, schema or not, is committed at the end or not at all. *)
(***************************************************************************)
EXTENDS Naturals, FiniteSets

CONSTANTS
    Kept,           \* recordings
    Ghost,          \* recordings deleted before foreign keys were enforced
    AnyMoment,      \* whether an outage may fall after a part of a start is
                    \*   committed, and before the rest is
    MaxStarts, MaxNames     \* bounds

VARIABLES
    disk, work,     \* the file, and what this connection sees
    start,          \* where a start is, or "up", or "down"
    open,           \* a transaction is open
    starts, names,
    old, before,    \* history: the file the release found, and the one this
                    \*   start found
    touched, wrote  \* history: recordings the service has worked on since,
                    \*   and the name the crew last gave each

migrationVars == <<disk, work, start, open, starts, names, old, before, touched, wrote>>

Name == 0..MaxNames         \* 0 is none typed
Gone == [status |-> "gone", error |-> "none", link |-> FALSE, name |-> 0,
         artefacts |-> "none", key |-> "none"]
NoRows == [r \in Kept |-> Gone]
NewWords == {"active", "stopped", "failed"}

\* What stage_of says of a recording
stage_of(row, post) ==
    IF row.status \in {"active", "failed"} THEN row.status
    ELSE IF post.state # "none"
    THEN CASE post.state = "publishing" -> "publishing"
           [] post.state \in {"wp_draft", "published"} -> "published"
           [] post.state = "publish_failed" -> "failed"
    ELSE CASE row.artefacts \in {"processing", "failed"} -> row.artefacts
           [] row.artefacts \in {"fresh", "stale"} -> "processed"
           [] row.artefacts = "none" -> "stopped"

-----------------------------------------------------------------------------
(* The releases: what their files have                                     *)

Release == {"first", "processed", "linked", "split"}
NoPost == [id |-> FALSE, wp |-> "none", state |-> "none", title |-> 0]
OldStatus(release) ==
    {"active", "stopped", "processing", "published", "failed"}
        \cup (IF release = "first" THEN {} ELSE {"processed"})

\* One word for all, and the error that tells the three kinds of failure apart
OldRow(release) ==
    {row \in [status : OldStatus(release), error : {"none", "no data", "WordPress", "other"},
              link : BOOLEAN, name : {1}, artefacts : {"none"}, key : {"none"}] :
        /\ (row.error # "none") <=> (row.status = "failed")
        /\ row.status = "published" => row.link
        /\ row.link => row.status \in {"published", "processed"} \/ row.error = "WordPress"}

\* Three states, but the title still on the draft
SplitRow ==
    [status : {"stopped"}, error : {"none"}, link : {FALSE}, name : {1},
     artefacts : {"none", "fresh"}, key : {"none"}]

OldPost(release, row) ==
    CASE release = "linked" /\ row.link ->
            [id : {TRUE}, wp : {"draft", "publish"}, state : {"none"}, title : {0}]
      [] release = "split" ->
            {post \in [id : BOOLEAN, wp : {"publish"},
                       state : {"none", "published", "publish_failed"}, title : {0, 2}] :
                post.id <=> post.state # "none"}
      [] OTHER -> {NoPost}

Columns(release) == IF release = "split" THEN {"state", "draft"} ELSE {}

OldRows(release) == [Kept -> IF release = "split" THEN SplitRow ELSE OldRow(release)]
OldPosts(release, rows) ==
    {posts \in [Kept -> UNION {OldPost(release, rows[r]) : r \in Kept}] :
        \A r \in Kept : posts[r] \in OldPost(release, rows[r])}

FileOf(release, rows, posts, dangling) ==
    [words |-> release # "first", table |-> TRUE, aside |-> NoRows,
     rows |-> rows, posts |-> posts, columns |-> Columns(release),
     data |-> Kept \cup Ghost, dangling |-> dangling, settings |-> {}]

OldFile ==
    \E release \in Release : \E rows \in OldRows(release) :
        \E posts \in OldPosts(release, rows),
           dangling \in IF release = "first" THEN {FALSE} ELSE BOOLEAN :
            disk = FileOf(release, rows, posts, dangling)

MigrationInit ==
    /\ OldFile /\ work = disk /\ start = "down" /\ open = FALSE
    /\ starts = 0 /\ names = 2
    /\ old = disk /\ before = disk /\ touched = {}
    /\ wrote = [r \in Kept |-> IF disk.posts[r].title = 0 THEN disk.rows[r].name
                               ELSE disk.posts[r].title]

Of(r, row) == IF work.rows[r] = Gone THEN Gone ELSE row
Recordings == {r \in Kept : work.rows[r] # Gone}

-----------------------------------------------------------------------------
(* The statements.  Goes commits at once where no transaction is open      *)

Goes(from, to, db) ==
    /\ start = from /\ start' = to /\ work' = db
    /\ disk' = IF open THEN disk ELSE db
    /\ UNCHANGED <<open, starts, names, old, before, touched, wrote>>

\* One that opens the transaction
Writes(from, to, db) ==
    /\ start = from /\ start' = to /\ work' = db
    /\ open' = TRUE
    /\ UNCHANGED <<disk, starts, names, old, before, touched, wrote>>

Skips(from, to) == Goes(from, to, work)

Start ==
    /\ start = "down" /\ starts < MaxStarts /\ starts' = starts + 1
    /\ start' = "words" /\ work' = disk /\ before' = disk
    /\ UNCHANGED <<disk, open, names, old, touched, wrote>>

\* The CHECK of recordings has no 'processed': a new table, and the rows over
Rename ==
    /\ work.table /\ ~work.words
    /\ Goes("words", "recreate",
            [work EXCEPT !.aside = work.rows, !.rows = NoRows, !.table = FALSE])
Recreate == Goes("recreate", "copy", [work EXCEPT !.table = TRUE, !.words = TRUE])
Copy == Writes("copy", "tables", [work EXCEPT !.rows = work.aside, !.aside = NoRows])

HasWords ==
    /\ work.table => work.words
    /\ Skips("words", "tables")

\* References an earlier release's rename left to a table it dropped
RepairsReferences == Writes("tables", "columns", [work EXCEPT !.dangling = FALSE])

\* Tables that are missing, and what is dangling
Tables == IF work.dangling THEN RepairsReferences ELSE Skips("tables", "columns")

\* Columns that are missing.  There is nothing to add them to without a table:
\* the start fails, and every one after it
AddColumns ==
    IF work.table
    THEN Goes("columns", "split", [work EXCEPT !.columns = @ \cup {"state", "draft"}])
    ELSE /\ start = "columns" /\ start' = "down" /\ open' = FALSE /\ work' = disk
         /\ UNCHANGED <<disk, starts, names, old, before, touched, wrote>>

\* What the one status said, moved into the three.  In the order of the
\* UPDATEs: posts that have an id, published, processed with a link, failed
SplitPost(row, post) ==
    LET tracked == [post EXCEPT !.state =
            IF post.id /\ @ = "none"
            THEN IF post.wp = "draft" THEN "wp_draft" ELSE "published"
            ELSE @]
    IN CASE row.status = "published" -> [tracked EXCEPT !.state = "published"]
         [] row.status = "processed" /\ row.link /\ tracked.state = "none" ->
                [tracked EXCEPT !.state = "published"]
         [] row.status = "failed" /\ row.error = "WordPress" ->
                [tracked EXCEPT !.state = "publish_failed"]
         [] OTHER -> tracked

SplitRecording(row) ==
    CASE row.status \in {"published", "processed"} -> [row EXCEPT !.status = "stopped", !.artefacts = "fresh"]
      [] row.status = "processing" -> [row EXCEPT !.status = "stopped", !.artefacts = "none"]
      [] row.status = "failed" /\ row.error = "WordPress" ->
            [row EXCEPT !.status = "stopped", !.artefacts = "fresh"]
      [] row.status = "failed" /\ row.error \notin {"no data", "WordPress"} ->
            [row EXCEPT !.status = "stopped", !.artefacts = "failed"]
      [] OTHER -> row

\* Mutant: a failure is the recording's, whatever failed
SplitRecordingKeepsFailed(row) ==
    CASE row.status \in {"published", "processed", "processing"} ->
            [row EXCEPT !.status = "stopped", !.artefacts = "fresh"]
      [] OTHER -> row

Splits ==
    LET db == [work EXCEPT !.rows = [r \in Kept |-> SplitRecording(work.rows[r])],
                           !.posts = [r \in Kept |-> SplitPost(work.rows[r], work.posts[r])]]
    IN IF db = work THEN Skips("split", "key") ELSE Writes("split", "key", db)

\* Which event a recording is of, from the name it was made with
AddEventKey ==
    IF "key" \in work.columns \/ Recordings = {}
    THEN Goes("key", "titles", [work EXCEPT !.columns = @ \cup {"key"}])
    ELSE Writes("key", "titles",
            [work EXCEPT !.columns = @ \cup {"key"},
                         !.rows = [r \in Kept |-> Of(r, [@[r] EXCEPT !.key = "event"])]])

Titled(r) ==
    Of(r, [work.rows[r] EXCEPT !.name = IF work.posts[r].title = 0 THEN @
                                        ELSE work.posts[r].title])

\* Mutant: a title on a draft goes to the recording at every start
UnifyEachTime ==
    Writes("titles", "orphans",
        [work EXCEPT !.rows = [r \in Kept |-> Titled(r)]])

\* Once: a title typed into a draft is the recording's name
Unify ==
    IF "titles_unified" \in work.settings
    THEN Skips("titles", "orphans")
    ELSE Writes("titles", "orphans",
            [work EXCEPT !.settings = @ \cup {"titles_unified"},
                         !.rows = [r \in Kept |-> Titled(r)]])

\* Once: rows of recordings that are not there
RemoveOrphans ==
    IF "orphans_removed" \in work.settings
    THEN Skips("orphans", "commit")
    ELSE Writes("orphans", "commit",
            [work EXCEPT !.settings = @ \cup {"orphans_removed"}, !.data = @ \cap Recordings])

Commit ==
    /\ start = "commit" /\ start' = "up"
    /\ disk' = work /\ open' = FALSE
    /\ UNCHANGED <<work, starts, names, old, before, touched, wrote>>

-----------------------------------------------------------------------------
(* Between the starts                                                      *)

Works(r, row, post) ==
    /\ start = "up" /\ r \in Recordings
    /\ work' = [work EXCEPT !.rows[r] = row, !.posts[r] = post] /\ disk' = work'
    /\ touched' = touched \cup {r}
    /\ UNCHANGED <<start, open, starts, old, before>>

\* The crew type a name: on the recording, and then on the draft
CrewNames(r) ==
    /\ names < MaxNames /\ names' = names + 1
    /\ \E title \in {work.posts[r].title, names'} :
          Works(r, [work.rows[r] EXCEPT !.name = names'],
                   [work.posts[r] EXCEPT !.title = title])
    /\ wrote' = [wrote EXCEPT ![r] = names']

Publishes(r) ==
    /\ work.rows[r].status = "stopped"
    /\ \E state \in {"wp_draft", "published", "publish_failed"}, id \in BOOLEAN :
        /\ state # "publish_failed" => id
        /\ work.posts[r].id => id
        /\ Works(r, work.rows[r], [work.posts[r] EXCEPT !.state = state, !.id = id])
    /\ UNCHANGED <<names, wrote>>

PowerCut ==
    /\ start # "down"
    /\ AnyMoment \/ start = "up" \/ disk = before
    /\ start' = "down" /\ open' = FALSE /\ work' = disk
    /\ UNCHANGED <<disk, starts, names, old, before, touched, wrote>>

MigrationNext ==
    \/ Start \/ Rename \/ Recreate \/ Copy \/ HasWords \/ Tables \/ AddColumns
    \/ Splits \/ AddEventKey \/ Unify \/ RemoveOrphans \/ Commit \/ PowerCut
    \/ \E r \in Kept : CrewNames(r) \/ Publishes(r)

MigrationSpec == MigrationInit /\ [][MigrationNext]_migrationVars
-----------------------------------------------------------------------------
HasPost(file, r) == file.posts[r].id \/ file.rows[r].link

\* What the one status used to say, of which the dashboard's labels are made
OldStage(file, r) ==
    LET row == file.rows[r] IN
    IF "state" \in file.columns THEN stage_of(row, file.posts[r])
    ELSE IF row.status \in {"active", "failed"} THEN row.status
    ELSE IF HasPost(file, r) THEN "published"
    ELSE IF row.status = "processing" THEN "stopped" ELSE row.status

\* A recording of an older release is listed as what it was, however often
\* starts were interrupted before one came through, and a later start changes
\* nothing of what the service has made of the file since ("Derived from the
\* three states, never stored ... The values are the ones the single status
\* field used to hold"; "Runs on every start and does nothing once there is
\* nothing left to move")
StageIsKept ==
    /\ start = "up" =>
        \A r \in Recordings :
            /\ work.rows[r].status \in NewWords
            /\ r \notin touched => stage_of(work.rows[r], work.posts[r]) = OldStage(old, r)
    /\ start = "commit" /\ "orphans_removed" \in before.settings => work = before

\* No recording is lost, nor a row of one, nor a name the crew gave it; and
\* what deleted recordings left behind is gone ("so nothing the crew wrote is
\* lost by the change"; "SQLite database manager with WAL mode for crash
\* resilience").  It is not so where an outage falls after recordings has been
\* created anew and before the transaction that fills it is committed: the next
\* start finds a good table with nothing in it, and removes every row as an
\* orphan
NothingIsLost ==
    start = "up" => /\ Recordings = Kept
                    /\ work.data = Kept
                    /\ ~work.dangling
                    /\ \A r \in Kept : work.rows[r].name = wrote[r]

\* Where no outage falls there, a start leaves every recording what it was
MigrationKeepsAll == StageIsKept /\ NothingIsLost
===============================================================================
