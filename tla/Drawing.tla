------------------------------- MODULE Drawing -------------------------------
(***************************************************************************)
(* A stopped recording drawn, drawn again and shown: process_recording in  *)
(* data_processor.py, by several threads at once if they are asked, the    *)
(* crew's photos, and what a post is made of (_gather in                   *)
(* recording_service.py).  Charts says what is to be drawn.                *)
(***************************************************************************)
EXTENDS Charts

CONSTANTS
    Config,         \* the event's plots and skip_feeds, as they may be edited
    Recorded,       \* the sets of topics a recording may have
    Photo,          \* photos the crew may add
    Worker,         \* threads that draw
    MaxDrawings     \* bound: drawings ever begun

VARIABLES
    topics,     \* what was recorded
    artefacts,  \* of the recording: none, processing, fresh, failed
    files,      \* the plots on disk: [stem -> topics the picture shows]
    maps,       \* stems of the HTML maps an older version drew
    plotRows,   \* rows of recording_images of type plot: [stem -> how many]
    photoFiles, photoRows,
    table,      \* the statistics as JSON are there
    at, left,   \* of each worker: where it is, and the charts it has left
    drawings,
    plan,       \* history: the charts of the last drawing, and the config it read
    drawn, noted, \* history: charts of it whose picture, whose row was written
    overlapped, \* history: it began or went on beside another drawing
    added, removed  \* history: photos the crew was told are in, or took out

filesVars == <<files, maps, table, photoFiles>>
rowVars == <<artefacts, plotRows, photoRows>>
drawVars == <<at, left, drawings>>
chartVars == <<plan, drawn, noted>>
pastVars == <<chartVars, overlapped, added, removed>>
drawingVars == <<topics, filesVars, rowVars, drawVars, pastVars>>

Nothing == [s \in {} |-> 0]
Route == title_to_stem(<<"Route", "Map">>)
Statistics == title_to_stem(<<"statistics", "summary">>)
StemOf(spec) == title_to_stem(spec.title)

DrawingInit ==
    /\ topics \in Recorded
    /\ artefacts = "none" /\ files = Nothing /\ maps \in {{}, {Route}} /\ table = FALSE
    /\ plotRows = Nothing /\ photoFiles = {} /\ photoRows = {}
    /\ at = [w \in Worker |-> "idle"] /\ left = [w \in Worker |-> <<>>] /\ drawings = 0
    /\ plan = [charts |-> <<>>, config |-> [plots |-> <<>>, skip_feeds |-> {}]]
    /\ drawn = {} /\ noted = {} /\ overlapped = FALSE /\ added = {} /\ removed = {}

Goes(w, from, to) == at[w] = from /\ at' = [at EXCEPT ![w] = to]
Put(function, key, value) ==
    [k \in DOMAIN function \cup {key} |-> IF k = key THEN value ELSE function[k]]
Count(stem) == IF stem \in DOMAIN plotRows THEN plotRows[stem] ELSE 0
Quiet == \A w \in Worker : at[w] = "idle"

-----------------------------------------------------------------------------
Begin(w) ==
    /\ Goes(w, "idle", "clear rows")
    /\ drawings < MaxDrawings /\ drawings' = drawings + 1
    /\ artefacts' = "processing"
    /\ overlapped' = ~Quiet
    /\ UNCHANGED <<topics, filesVars, plotRows, photoRows, left, chartVars, added, removed>>

\* The rows of the last drawing, not the crew's photos
ClearRows(w) ==
    /\ Goes(w, "clear rows", "clear files")
    /\ plotRows' = Nothing
    /\ UNCHANGED <<topics, artefacts, photoRows, filesVars, left, drawings, pastVars>>

\* Mutant: a map under an old name stays
ClearFilesNotMaps(w) ==
    /\ Goes(w, "clear files", "plan")
    /\ files' = Nothing
    /\ UNCHANGED <<topics, rowVars, maps, table, photoFiles, left, drawings, pastVars>>

ClearFiles(w) ==
    /\ Goes(w, "clear files", "plan")
    /\ files' = Nothing /\ maps' = {}
    /\ UNCHANGED <<topics, rowVars, table, photoFiles, left, drawings, pastVars>>

\* The event's config is read, as it is by then
MakePlan(w) ==
    /\ Goes(w, "plan", "draw")
    /\ \E config \in Config : plan' = [charts |-> Plan(topics, config), config |-> config]
    /\ left' = [left EXCEPT ![w] = plan'.charts]
    /\ drawn' = {} /\ noted' = {}
    /\ UNCHANGED <<topics, filesVars, rowVars, drawings, overlapped, added, removed>>

\* One chart's picture, the one of its number on the plan
Number(w) == Len(plan.charts) - Len(left[w]) + 1

DrawChart(w) ==
    /\ left[w] # <<>> /\ Goes(w, "draw", "note")
    /\ files' = Put(files, StemOf(Head(left[w])), Head(left[w]).topics)
    /\ drawn' = drawn \cup {Number(w)}
    /\ UNCHANGED <<topics, rowVars, maps, table, photoFiles, left, drawings, plan, noted,
                   overlapped, added, removed>>

\* A chart that cannot be drawn, or its row not written, is logged and left out
Misses(w) ==
    /\ at[w] \in {"draw", "note"} /\ left[w] # <<>>
    /\ at' = [at EXCEPT ![w] = "draw"]
    /\ left' = [left EXCEPT ![w] = Tail(@)]
    /\ UNCHANGED <<topics, filesVars, rowVars, drawings, pastVars>>

NoteChart(w) ==
    /\ Goes(w, "note", "draw")
    /\ LET stem == StemOf(Head(left[w])) IN plotRows' = Put(plotRows, stem, Count(stem) + 1)
    /\ noted' = noted \cup {Number(w)}
    /\ left' = [left EXCEPT ![w] = Tail(@)]
    /\ UNCHANGED <<topics, artefacts, photoRows, filesVars, drawings, plan, drawn, overlapped,
                   added, removed>>

\* The table is a picture for the dashboard, and the numbers for the post
DrawTable(w) ==
    /\ left[w] = <<>> /\ Goes(w, "draw", "end")
    /\ files' = Put(files, Statistics, topics)
    /\ plotRows' = Put(plotRows, Statistics, Count(Statistics) + 1)
    /\ table' \in {table, TRUE}
    /\ UNCHANGED <<topics, artefacts, photoRows, maps, photoFiles, left, drawings, pastVars>>

End(w) ==
    /\ Goes(w, "end", "idle")
    /\ artefacts' = "fresh"
    /\ UNCHANGED <<topics, plotRows, photoRows, filesVars, left, drawings, pastVars>>

\* Anything that raises outside one chart: the database locked, a disk full
Fails(w) ==
    /\ at[w] \in {"clear rows", "clear files", "plan", "end"} /\ at' = [at EXCEPT ![w] = "idle"]
    /\ artefacts' = "failed"
    /\ UNCHANGED <<topics, plotRows, photoRows, filesVars, left, drawings, pastVars>>

-----------------------------------------------------------------------------
(* The crew                                                                *)

AddPhoto(p) ==
    /\ p \notin photoFiles \cup removed
    /\ photoFiles' = photoFiles \cup {p}
    /\ UNCHANGED <<topics, files, maps, table, rowVars, drawVars, pastVars>>

NotePhoto(p) ==
    /\ p \in photoFiles \ (photoRows \cup removed)
    /\ photoRows' = photoRows \cup {p} /\ added' = added \cup {p}
    /\ UNCHANGED <<topics, filesVars, artefacts, plotRows, drawVars, chartVars, overlapped, removed>>

RemovePhoto(p) ==
    /\ p \in photoRows /\ p \in photoFiles
    /\ photoFiles' = photoFiles \ {p} /\ removed' = removed \cup {p}
    /\ UNCHANGED <<topics, files, maps, table, rowVars, drawVars, chartVars, overlapped, added>>

ForgetPhoto(p) ==
    /\ p \in photoRows \ photoFiles
    /\ photoRows' = photoRows \ {p}
    /\ UNCHANGED <<topics, filesVars, artefacts, plotRows, drawVars, pastVars>>

DrawingNext ==
    \/ \E w \in Worker :
        \/ Begin(w) \/ ClearRows(w) \/ ClearFiles(w) \/ MakePlan(w)
        \/ DrawChart(w) \/ Misses(w) \/ NoteChart(w) \/ DrawTable(w) \/ End(w) \/ Fails(w)
    \/ \E p \in Photo : AddPhoto(p) \/ NotePhoto(p) \/ RemovePhoto(p) \/ ForgetPhoto(p)

DrawingSpec == DrawingInit /\ [][DrawingNext]_drawingVars
-----------------------------------------------------------------------------
(* What a post is made of: rows whose file is there, but for the table's   *)
(* picture where there are numbers, and a map's where there is an HTML     *)

Pictures ==
    {s \in DOMAIN plotRows : s \in DOMAIN files /\ s \notin maps /\ ~(table /\ s = Statistics)}
Photos == photoRows \cap photoFiles

\* A feed recorded is on a chart, unless the config does not want it or it is
\* a coordinate a map shows; an automatic chart and another share none
EveryFeedIsOnAChart ==
    LET on(t) == {i \in DOMAIN plan.charts : t \in plan.charts[i].topics}
        declared == Len(resolve_declared(topics, plan.config.plots))
    IN \A t \in topics :
        \/ on(t) # {} /\ (Cardinality(on(t)) > 1 => \A i \in on(t) : i <= declared)
        \/ t \in plan.config.skip_feeds /\ on(t) = {}
        \/ \E s \in find_gps_streams(topics) : t \in stream_coordinate_topics(topics, s)

\* No drawing is under way, and the last began and ended with no other about
Finished == artefacts = "fresh" /\ Quiet /\ ~overlapped

\* The charts of S that go to one file, and the files of S and of the table
SharersIn(S, stem) == {i \in S : StemOf(plan.charts[i]) = stem}
FilesOf(S) == {StemOf(plan.charts[i]) : i \in S} \cup {Statistics}
One(condition) == IF condition THEN 1 ELSE 0

\* The plots on disk are those of the charts drawn, and of the table: where
\* several go to one file, the last of them
IsWhatWasDrawn ==
    files = [stem \in FilesOf(drawn) |->
                IF stem = Statistics THEN topics
                ELSE plan.charts[Max(SharersIn(drawn, stem))].topics]

\* A chart noted is listed once, and nothing else is
IsWhatWasNoted ==
    plotRows = [stem \in FilesOf(noted) |->
                   Cardinality(SharersIn(noted, stem)) + One(stem = Statistics)]

\* "No two charts may share a title", of the automatic ones
TitlesAreApart ==
    LET declared == Len(resolve_declared(topics, plan.config.plots))
    IN \A i, j \in DOMAIN plan.charts : declared < i /\ i < j =>
          plan.charts[i].title # plan.charts[j].title

\* No drawing takes the crew's photos
PhotosAreKept == added \ removed \subseteq Photos

\* The last drawing, if no other was about, leaves what it drew and nothing of
\* any before it, those that overlapped or failed included, and every feed is on
\* a chart with a title of its own ("Clear the previous run's generated artefacts
\* so re-processing replaces them rather than adding to them"; "No two charts
\* may share a title")
LeavesWhatItDrew ==
    /\ IsWhatWasDrawn /\ IsWhatWasNoted /\ maps = {}
    /\ EveryFeedIsOnAChart /\ TitlesAreApart

FreshIsTheLastDrawing == PhotosAreKept /\ (Finished => LeavesWhatItDrew)

\* A plan is a sequence of charts
PlansAreSequences ==
    \A recorded \in Recorded, config \in Config :
        Plan(recorded, config) \in Seq(ToSet(Plan(recorded, config)))

\* It is not so of drawings that overlap, nor of two charts whose titles make one
\* file: a chart is listed and posted twice, or in another's place
ListedOnce == \A s \in DOMAIN plotRows : plotRows[s] <= 1
===============================================================================
