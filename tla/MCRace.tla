-------------------------------- MODULE MCRace --------------------------------
(***************************************************************************)
(* The race for TLC, its events on their way to the broker, and the        *)
(* waypoint beside it, and the documents its courses are read from.  They  *)
(* share no state that matters to the others: each is run by itself, and   *)
(* part says which.                                                        *)
(***************************************************************************)
EXTENDS RaceApp, RaceEvents, RaceWaypoint, Courses, SequencesExt

VARIABLE part

partVars == <<part, vars, eventVars, waypointVars, coursesVars>>

-----------------------------------------------------------------------------
\* A line, two marks close on either side of it and three places: one on either side
\* of it, and one outside its outer end
Inner == <<0, 0>>
Outer == <<2, 0>>
Places == {<<1, 1>>, <<1, -1>>, <<3, -1>>}
Marks == [north |-> <<1, 2>>, south |-> <<1, -2>>, line |-> <<1, 0>>,
          east |-> <<2, 1>>, west |-> <<2, -3>>]
RaceLegs == [short |-> <<"north", "line">>, long |-> <<"south", "north", "line">>]
NoCross == <<<<"east", "west">>>>
CourseIds == DOMAIN RaceLegs
Hooters == {1}
Nudges == {1}

North == <<0, 1>>
South == <<0, -1>>
FixesSeen == [at : Places, cog : {North, South}, slow : {FALSE}]
               \cup [at : {<<1, 1>>}, cog : {North, None}, slow : {TRUE}]

\* For a waypoint, a place beside another and one out of reach of both
Spots == {<<0, 0>>, <<0, 1>>, <<2, 0>>}
Headings == {North, South}

\* Two courses of two marks and the finish, on a river ten long; the slips that
\* are made over them
Turn(id, rounding) == [finish |-> FALSE, mark |-> id, line |-> "none",
                         rounding |-> rounding, removed |-> FALSE]
Home == [finish |-> TRUE, mark |-> "none", line |-> "start_finish", rounding |-> "port",
         removed |-> FALSE]
TwoCourses ==
    [marks |-> <<[id |-> "a", at |-> 4, rounding |-> "port"],
                 [id |-> "b", at |-> 9, rounding |-> "starboard"],
                 [id |-> "x", at |-> 6, rounding |-> "none"]>>,
     lines |-> [inner |-> 0, outer |-> 2, gates |-> FALSE, no_cross |-> {{"a", "x"}}],
     courses |-> <<[id |-> 1, series |-> "club", printed |-> 16, shortened |-> -1,
                    legs |-> <<Turn("a", "port"), Turn("b", "starboard"), Home>>],
                   [id |-> 2, series |-> "club", printed |-> 6, shortened |-> 1,
                    legs |-> <<Turn("a", "port"), Home>>]>>]

MarkSlips(d) ==
    UNION {{[d EXCEPT !.marks = RemoveAt(@, i)], [d EXCEPT !.marks[i].at = -2],
            [d EXCEPT !.marks[i].id = d.marks[1].id],
            [d EXCEPT !.marks[i].rounding = "starboard"]} : i \in DOMAIN d.marks}
LineSlips(d) ==
    {[d EXCEPT !.lines.inner = end] : end \in {-1, -2, 2}}
        \cup {[d EXCEPT !.lines.outer = -1], [d EXCEPT !.lines.gates = TRUE],
              [d EXCEPT !.lines.no_cross = {{"a"}}]}
LegSlips(d, k) ==
    UNION {{[d EXCEPT !.courses[k].legs = RemoveAt(@, i)],
            [d EXCEPT !.courses[k].legs[i].mark = "b"],
            [d EXCEPT !.courses[k].legs[i].mark = "none"],
            [d EXCEPT !.courses[k].legs[i].rounding = "left"],
            [d EXCEPT !.courses[k].legs[i].line = "gate"],
            [d EXCEPT !.courses[k].legs[i].removed = TRUE],
            [d EXCEPT !.courses[k].legs = Append(RemoveAt(@, i), @[i])]}
           : i \in DOMAIN d.courses[k].legs}
CourseSlips(d) ==
    UNION {LegSlips(d, k) \cup
           {[d EXCEPT !.courses[k].id = 1], [d EXCEPT !.courses[k].series = "other"],
            [d EXCEPT !.courses[k].printed = 0], [d EXCEPT !.courses[k].shortened = 2],
            [d EXCEPT !.courses[k].legs = <<>>]} : k \in DOMAIN d.courses}
Slips(d) == MarkSlips(d) \cup LineSlips(d) \cup CourseSlips(d)

-----------------------------------------------------------------------------
PartsInit ==
    part \in {"race", "events", "waypoint", "courses"}
    /\ Init /\ EventsInit /\ WaypointInit /\ CoursesInit

PartsNext ==
    \/ part = "race" /\ Next /\ UNCHANGED <<part, eventVars, waypointVars, coursesVars>>
    \/ part = "events" /\ EventsNext /\ UNCHANGED <<part, vars, waypointVars, coursesVars>>
    \/ part = "waypoint" /\ WaypointNext /\ UNCHANGED <<part, vars, eventVars, coursesVars>>
    \/ part = "courses" /\ CoursesNext /\ UNCHANGED <<part, vars, eventVars, waypointVars>>

PartsSpec ==
    /\ PartsInit /\ [][PartsNext]_partVars
    /\ part = "race" => WF_vars(Poll) /\ WF_vars(Tick)
    /\ part = "events" => EventsFairness
===============================================================================
