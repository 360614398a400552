------------------------------ MODULE MCRecorder ------------------------------
(***************************************************************************)
(* What goes on around a recording, for TLC: the trigger that starts and   *)
(* stops it, a clock put right under it, the draft of its post, its        *)
(* drawing, a file of it on its way to WordPress, its exports, what it     *)
(* hears, what its event page shows, and the database it was left in by an *)
(* older release.  They share no state; each is run by itself, and part    *)
(* says which.                                                             *)
(***************************************************************************)
EXTENDS TriggeredRecordings, ClockStep, Drafts, Subscriptions, Uploads, Migration, EventPage

VARIABLES
    part,
    topics, artefacts, files, maps, plotRows, photoFiles, photoRows, table, at, left,
    drawings, plan, drawn, noted, overlapped, added, removed,
    subscribed, recorded, clock, putBacks

-----------------------------------------------------------------------------
\* Nine topics in the order of their names: two temperatures of two nodes, a
\* position with an envelope, course and latitude of the same unit without one,
\* of an IMU a component and a heading, and the speed of the wind with an envelope
\* and without, whose titles differ and whose files do not
NineTopics == 1..9
Enveloped(node, sub, group, field) ==
    [named |-> TRUE, node |-> node, sub |-> sub, group |-> group, field |-> field,
     path |-> <<"emon", node>>]
Bare(path) == [named |-> FALSE, path |-> path]
Described ==
    <<Enveloped("bms", "", <<>>, <<"temperature">>),
      Enveloped("gps", "0", <<>>, <<"position">>),
      Enveloped("mwv", "", <<>>, <<"temperature">>),
      Bare(<<"gps", "course", "0">>), Bare(<<"gps", "latitude", "0">>),
      Bare(<<"imu", "0", "acc", "1">>), Bare(<<"imu", "0", "heading">>),
      Enveloped("mwv", "", <<"Wind">>, <<"speed">>), Bare(<<"windSpeed", "0">>)>>

D == INSTANCE Drawing WITH
    Topic <- NineTopics, Info <- Described, Digit <- {"0", "1"},
    Merged <- {"heading", "course"},
    Readable <- [name \in {"imu", "windSpeed"} |->
                    IF name = "imu" THEN <<"IMU">> ELSE <<"Wind", "Speed">>],
    Lower <- [word \in {"IMU", "Map", "Route", "Speed", "Wind", "/"} |->
                CASE word = "IMU" -> "imu" [] word = "Map" -> "map" [] word = "Route" -> "route"
                  [] word = "Speed" -> "speed" [] word = "Wind" -> "wind" [] OTHER -> ""],
    Config <- {[plots |-> <<>>, skip_feeds |-> {}],
               [plots |-> <<[title |-> <<"ours">>, topics |-> {1, 6}]>>,
                skip_feeds |-> {7}]},
    Recorded <- {{1, 2, 3, 5}, {1, 3, 4, 6, 7}, {1, 8, 9}},
    Photo <- {"p1"}, Worker <- {"w1", "w2"}, MaxDrawings <- 3

\* What the Drawing theorems take of a plan
ASSUME PlansAreMade == D!PlansAreSequences

drawingVars ==
    <<topics, artefacts, files, maps, plotRows, photoFiles, photoRows, table, at, left,
      drawings, plan, drawn, noted, overlapped, added, removed>>
T == INSTANCE Tracks WITH
    rows <- recorded, now <- clock,
    Recorded <- {{<<"position", 0>>, <<"speed", 0>>, <<"course", 0>>},
                 {<<"position", 0>>, <<"position", 1>>, <<"course", 0>>},
                 {<<"acc", axis>> : axis \in 0..2}, {<<"position", 0>>, <<"power", 0>>}},
    GPS_MATCH_TOLERANCE <- 1, MaxRows <- 3, MaxNow <- 2, MaxPutBacks <- 1

tracksVars == <<subscribed, recorded, clock, putBacks>>
\* One thread draws twice; or a second begins beside its first drawing, and it draws
\* once more after both, where it was the wind that was recorded
Draws ==
    \/ at'["w2"] = "idle" /\ drawings' <= 2
    \/ /\ topics = {1, 8, 9} /\ maps' = {} /\ plan'.config.plots = <<>>
       /\ added' \cup photoFiles' = {}
       /\ at["w2"] # at'["w2"] /\ at["w2"] = "idle" => at["w1"] # "idle" /\ drawings = 1

\* Two recordings to choose from, one under a clock that is put right, and two
\* requests at once
Alone == recs'[2] = NotYet /\ \A q \in Request : ~asking'[q].byChoice
PageParts ==
    \/ part = "choice" /\ asking'[2] = Idle /\ UNCHANGED <<moved, unsaved>>
    \/ part = "step" /\ asking'[2] = Idle /\ Alone
    \/ part = "lines" /\ passed' < 2 /\ UNCHANGED moved /\ Alone

recorderVars == <<part, vars, clockStepVars, draftVars, uploadVars, drawingVars,
      migrationVars, tracksVars, subscriptionVars, pageVars>>

-----------------------------------------------------------------------------
ThreeRecordings == 1..3
\* The clock right, behind by more than the threshold, and by less
Offsets == {0, 1, 5}
TwoDrawings == 1..2
Lengths == <<4, 7>>
TwoEntries == 1..2
Levels == {<<"gps">>, <<"gps", "speed">>, <<"gps", "speed", "0">>,
           <<"bms", "power">>, <<"bms", "0", "power">>}
Patterns == {{<<"gps", "#">>}, {<<"gps", "#">>, <<"bms", "power">>}, {<<"+", "power">>},
             {<<"+", "speed", "#">>, <<"gps", "speed", "+">>}}
SomeFile ==
    LET rowsBefore == CHOOSE f \in OldRows("split") : TRUE
    IN FileOf("split", rowsBefore, CHOOSE f \in OldPosts("split", rowsBefore) : TRUE, FALSE)

\* A part that does not run is in one state of its own
RecorderInit ==
    /\ part \in {"trigger", "clock", "drafts", "drawing", "uploads", "migration", "tracks",
                "subscriptions", "choice", "step", "lines"}
    /\ Init /\ ClockStepInit /\ DraftsInit /\ D!DrawingInit /\ UploadsInit
    /\ MigrationInit /\ T!TracksInit /\ SubscriptionsInit
    /\ EventPageInit
    /\ part # "trigger" => ~away
    /\ part # "clock" => offset = 0
    /\ part # "uploads" => local = 1 /\ ~wide
    /\ part # "drawing" => topics = {1, 2, 3, 5} /\ maps = {}
    /\ part # "migration" => disk = SomeFile
    /\ part # "tracks" => subscribed = {<<"position", 0>>, <<"power", 0>>}

RecorderNext ==
    /\ UNCHANGED part
    /\ \/ part = "trigger" /\ Next
          /\ UNCHANGED <<clockStepVars, draftVars, drawingVars, uploadVars, migrationVars, tracksVars,
                         subscriptionVars, pageVars>>
       \/ part = "clock" /\ ClockStepNext
          /\ UNCHANGED <<vars, draftVars, drawingVars, uploadVars, migrationVars, tracksVars,
                         subscriptionVars, pageVars>>
       \/ part = "drafts" /\ DraftsNext
          /\ UNCHANGED <<vars, clockStepVars, drawingVars, uploadVars, migrationVars, tracksVars,
                         subscriptionVars, pageVars>>
       \/ part = "drawing" /\ D!DrawingNext /\ Draws
          /\ UNCHANGED <<vars, clockStepVars, draftVars, uploadVars, migrationVars, tracksVars,
                         subscriptionVars, pageVars>>
       \/ part = "uploads" /\ UploadsNext
          /\ UNCHANGED <<vars, clockStepVars, draftVars, drawingVars, migrationVars, tracksVars,
                         subscriptionVars, pageVars>>
       \/ part = "migration" /\ MigrationNext
          /\ UNCHANGED <<vars, clockStepVars, draftVars, drawingVars, uploadVars, tracksVars,
                         subscriptionVars, pageVars>>
       \/ part = "tracks" /\ T!TracksNext
          /\ UNCHANGED <<vars, clockStepVars, draftVars, drawingVars, uploadVars, migrationVars,
                         subscriptionVars, pageVars>>
       \/ part = "subscriptions" /\ SubscriptionsNext
          /\ UNCHANGED <<vars, clockStepVars, draftVars, drawingVars, uploadVars, migrationVars,
                         tracksVars, pageVars>>
       \/ EventPageNext /\ PageParts
          /\ UNCHANGED <<vars, clockStepVars, draftVars, drawingVars, uploadVars, migrationVars,
                         tracksVars, subscriptionVars>>

\* The fairness of TriggeredRecordings, for the part that is its
OfTrigger(A) == part = "trigger" /\ A
RecorderSpec ==
    /\ RecorderInit /\ [][RecorderNext]_recorderVars
    /\ WF_vars(OfTrigger(TriggerStep)) /\ WF_vars(OfTrigger(CrewStep))
    /\ WF_vars(OfTrigger(MainStep))
    /\ WF_vars(OfTrigger(StopFires)) /\ WF_vars(OfTrigger(StartFires))

\* A plot that is fresh is what the last drawing drew (Drawing)
FreshIsTheLastDrawing == D!FreshIsTheLastDrawing
\* What is exported and told is what was recorded (Tracks)
TracksAreTheRecording == T!TracksAreTheRecording
===============================================================================
