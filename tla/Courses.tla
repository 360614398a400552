------------------------------- MODULE Courses -------------------------------
(***************************************************************************)
(* The config documents of the racing display, edited by hand between      *)
(* starts of the service: engine/course.py, which finds what is wrong with *)
(* them, and what app.py then serves.  Places lie on a line.               *)
(*                                                                         *)
(*   marks     [id, at, rounding], in the order of the file                *)
(*   lines     the ends of the start and finish line, whether there is a   *)
(*             "gates" key, and the no_cross_lines, each its marks         *)
(*   courses   [id, series, printed, legs, shortened], a leg               *)
(*             [finish, mark, line, rounding, removed]: removed is whether *)
(*             it has a key of the earlier model                           *)
(***************************************************************************)
EXTENDS Integers, Sequences, FiniteSets

CONSTANTS
    Documents,          \* as they are before anybody edits them
    series,             \* the series there are
    tolerance,          \* of a printed distance
    Fault(_),           \* the documents after any one slip of a hand
    MaxEdits

VARIABLES
    docs,               \* on disk
    loaded,             \* what load_config made of them, or "down"
    edits

coursesVars == <<docs, loaded, edits>>

Missing == -1           \* no such end, no such leg
Unplaced == -2          \* there, but without a position
Absent == "none"        \* no such mark, no rounding
ROUNDINGS == {"port", "starboard"}
has_position(at) == at >= 0

\* What the documents hold, right or wrong: every mark and course has an id
Nobody == 0
Mark == [id : STRING, at : Int, rounding : STRING]
Lines == [inner : Int, outer : Int, gates : BOOLEAN, no_cross : SUBSET SUBSET STRING]
CourseLeg == [finish : BOOLEAN, mark : STRING, line : STRING, rounding : STRING,
              removed : BOOLEAN]
CourseRead == [id : Nat \ {Nobody}, series : STRING, printed : Int, legs : Seq(CourseLeg),
               shortened : Int]
Document == [marks : Seq(Mark), lines : Lines, courses : Seq(CourseRead)]

ASSUME DocumentsAssumption == Documents \in Document

Far(p, q) == IF p < q THEN q - p ELSE p - q

-----------------------------------------------------------------------------
(* Interpreting a course                                                   *)

ids(marks) == {marks[i].id : i \in DOMAIN marks}
\* Of two with one id the first
marked(marks, id) == marks[CHOOSE i \in DOMAIN marks : marks[i].id = id
                                   /\ \A j \in DOMAIN marks : marks[j].id = id => i <= j]

start_point(lines) == (lines.inner + lines.outer) \div 2
target(d, leg) == IF leg.finish THEN start_point(d.lines) ELSE marked(d.marks, leg.mark).at

leg_distances(d, legs) ==
    LET from(i) == IF i = 1 THEN start_point(d.lines) ELSE target(d, legs[i - 1])
    IN [i \in DOMAIN legs |-> Far(from(i), target(d, legs[i]))]
\* The rows of the page of a course: the way of each leg, and the way so far
leg_table(d, legs) ==
    LET total[i \in 0..Len(legs)] == IF i = 0 THEN 0 ELSE total[i - 1] + leg_distances(d, legs)[i]
    IN [i \in DOMAIN legs |-> [distance |-> leg_distances(d, legs)[i], cumulative |-> total[i]]]
course_distance(d, legs) == IF legs = <<>> THEN 0 ELSE leg_table(d, legs)[Len(legs)].cumulative

\* Every leg can be steered for
Steerable(d, legs) ==
    /\ has_position(d.lines.inner) /\ has_position(d.lines.outer)
    /\ \A i \in DOMAIN legs :
        \/ legs[i].finish
        \/ /\ legs[i].mark \in ids(d.marks)
           /\ has_position(marked(d.marks, legs[i].mark).at)

-----------------------------------------------------------------------------
(* Validation: the findings, each of a course or of none                   *)

Error(code, course, leg) == [severity |-> "error", code |-> code, course |-> course, leg |-> leg]
Warning(code, course, leg) == [Error(code, course, leg) EXCEPT !.severity = "warning"]
If(condition, finding) == IF condition THEN {finding} ELSE {}

validate_marks(marks) ==
    UNION {If(\E j \in 1..(i - 1) : marks[j].id = marks[i].id,
              Error("duplicate-mark-id", Nobody, i))
           \cup If(~has_position(marks[i].at), Error("mark-no-position", Nobody, i))
           : i \in DOMAIN marks}

\* Ends that are there are measured before it is known that they are placed
Raises(lines) ==
    Missing \notin {lines.inner, lines.outer} /\ Unplaced \in {lines.inner, lines.outer}

validate_lines(lines, marks) ==
    If(~has_position(lines.inner), Error("start-finish-end", Nobody, 1))
    \cup If(~has_position(lines.outer), Error("start-finish-end", Nobody, 2))
    \cup If(lines.inner = lines.outer /\ has_position(lines.inner),
            Error("start-finish-degenerate", Nobody, 0))
    \cup If(lines.gates, Error("gates-removed", Nobody, 0))
    \cup UNION {If(Cardinality(marksOf) # 2, Error("no-cross-marks", Nobody, 0))
                \cup If(~(marksOf \subseteq ids(marks)), Error("unknown-mark", Nobody, 0))
                : marksOf \in lines.no_cross}

\* Mutant: a finish anywhere will do
FinishesNot(c) ==
    LET finishes == {i \in DOMAIN c.legs : c.legs[i].finish}
    IN If(finishes = {}, Error("no-finish", c.id, 0))
       \cup If(Cardinality(finishes) > 1, Error("many-finishes", c.id, 0))

\* One leg is the finish, and that is the last
Finishes(c) ==
    LET finishes == {i \in DOMAIN c.legs : c.legs[i].finish}
    IN If(finishes = {}, Error("no-finish", c.id, 0))
       \cup If(Cardinality(finishes) > 1, Error("many-finishes", c.id, 0))
       \cup If(Cardinality(finishes) = 1 /\ ~c.legs[Len(c.legs)].finish,
               Error("finish-not-last", c.id, 0))

LegProblems(c, i, marks) ==
    LET leg == c.legs[i]
        known == leg.mark \in ids(marks)
    IN If(leg.removed, Error("gates-removed", c.id, i))
       \cup If(leg.finish /\ leg.line # "start_finish", Error("unknown-line", c.id, i))
       \cup If(leg.finish /\ leg.mark # Absent, Error("leg-shape", c.id, i))
       \cup If(~leg.finish /\ leg.mark = Absent, Error("leg-shape", c.id, i))
       \cup If(~leg.finish /\ leg.mark # Absent /\ ~known, Error("unknown-mark", c.id, i))
       \cup If(leg.rounding \notin ROUNDINGS, Error("bad-rounding", c.id, i))
       \cup If(/\ leg.rounding \in ROUNDINGS /\ ~leg.finish /\ known
               /\ marked(marks, leg.mark).rounding \in ROUNDINGS \ {leg.rounding},
               Warning("rounding-mismatch", c.id, i))
validate_legs(c, marks) == Finishes(c) \cup UNION {LegProblems(c, i, marks) : i \in DOMAIN c.legs}

\* Mutant: where all of its marks are known
MismatchNot(d, c) ==
    If(/\ c.printed > 0
       /\ \A i \in DOMAIN c.legs : c.legs[i].finish \/ c.legs[i].mark \in ids(d.marks)
       /\ Far(course_distance(d, c.legs), c.printed) > tolerance,
       Warning("distance-mismatch", c.id, 0))

\* What is printed is compared only where all of it can be measured
Mismatch(d, c) ==
    If(/\ c.printed > 0 /\ Steerable(d, c.legs)
       /\ Far(course_distance(d, c.legs), c.printed) > tolerance,
       Warning("distance-mismatch", c.id, 0))

validate_course(d, k) ==
    LET c == d.courses[k]
    IN If(\E j \in 1..(k - 1) : d.courses[j].id = c.id, Error("duplicate-course-id", c.id, 0))
       \cup If(c.series \notin series, Error("unknown-series", c.id, 0))
       \cup If(c.printed <= 0, Error("bad-distance", c.id, 0))
       \cup IF c.legs = <<>> THEN {Error("no-legs", c.id, 0)}
          ELSE validate_legs(c, d.marks)
                 \cup If(c.shortened \notin {Missing} \cup 0..(Len(c.legs) - 1),
                         Error("bad-shortened-at", c.id, 0))
                 \cup Mismatch(d, c)

validate(d) ==
    validate_marks(d.marks) \cup validate_lines(d.lines, d.marks)
    \cup UNION {validate_course(d, k) : k \in DOMAIN d.courses}

-----------------------------------------------------------------------------
\* Mutant: whatever is found, a warning too
unraceableByWarnings(problems) == {p.course : p \in problems} \ {Nobody}

\* The courses an error names
unraceable(problems) == {p.course : p \in {q \in problems : q.severity = "error"}} \ {Nobody}

\* Read once, when the service starts; a finding that raises stops it
load_config ==
    /\ loaded' = IF Raises(docs.lines) THEN [up |-> FALSE]
                 ELSE [up |-> TRUE, docs |-> docs, problems |-> validate(docs),
                       unraceable |-> unraceable(validate(docs))]
    /\ UNCHANGED <<docs, edits>>

Edits == /\ edits < MaxEdits /\ edits' = edits + 1
         /\ \E after \in Fault(docs) : after \in Document /\ docs' = after
         /\ UNCHANGED loaded

CoursesInit == docs = Documents /\ loaded = [up |-> FALSE] /\ edits = 0
CoursesNext == Edits \/ load_config
CoursesSpec == CoursesInit /\ [][CoursesNext]_coursesVars

\* api_select: what comes of choosing a course, of which the first with its id
\* is found
api_select(c) == IF c.id \in loaded.unraceable THEN "refused"
                 ELSE IF Steerable(loaded.docs, c.legs) THEN "chosen" ELSE "raises"

-----------------------------------------------------------------------------
\* An error of no course: of the marks, the line, or the lines not to cross
DocumentWide == {p \in loaded.problems : p.severity = "error" /\ p.course = Nobody}

(***************************************************************************)
(* A course that is not refused can be raced: its legs lead from mark to   *)
(* mark to the one finish, it may be shortened at one of them, and what it *)
(* adds up to is what is printed or is remarked upon ("app.py should       *)
(* refuse to serve a course with errors").  While an error is of no        *)
(* course, no course is refused for it, and choosing one may raise         *)
(* (app.py:127).                                                           *)
(***************************************************************************)
ServedIsRaceable ==
    loaded.up => \A k \in DOMAIN loaded.docs.courses :
        LET c == loaded.docs.courses[k]
            legs == c.legs
        IN c.id \notin loaded.unraceable =>
            /\ legs # <<>> /\ {i \in DOMAIN legs : legs[i].finish} = {Len(legs)}
            /\ c.shortened # Missing => c.shortened + 1 \in DOMAIN legs
            /\ DocumentWide = {} => api_select(c) = "chosen"
            /\ api_select(c) = "chosen"
                  /\ Far(course_distance(loaded.docs, legs), c.printed) > tolerance =>
                Warning("distance-mismatch", c.id, 0) \in loaded.problems

\* A course is refused for an error of its own, never for a doubt, and not for
\* what is wrong with another
RefusedIsBroken ==
    loaded.up => \A k \in DOMAIN loaded.docs.courses :
        LET c == loaded.docs.courses[k]
            d == [loaded.docs EXCEPT !.courses = <<c>>]
            alone == {p \in validate(d) : p.severity = "error" /\ p.course = c.id}
            again == Cardinality({j \in DOMAIN loaded.docs.courses :
                                    loaded.docs.courses[j].id = c.id}) > 1
        IN c.id \in loaded.unraceable <=> again \/ alone # {}

\* "One fault should produce one finding": no distance is doubted of a course
\* of which a position is known to be missing, at an end of the line or for want
\* of a mark of its own
OneFaultOneFinding ==
    loaded.up => \A k \in DOMAIN loaded.docs.courses :
        LET own == validate_course(loaded.docs, k)
        IN \A p \in own, q \in own \cup DocumentWide :
            ~(p.code = "distance-mismatch"
                /\ (q.code = "start-finish-end" \/ (q.code = "unknown-mark" /\ q \in own)))

(***************************************************************************)
(* What is served of the courses is what can be raced and no less          *)
(* (course.py:318, app.py:108).                                            *)
(***************************************************************************)
CoursesAreRaceable == ServedIsRaceable /\ RefusedIsBroken /\ OneFaultOneFinding

\* Not so: "Never raises on bad data", and every course that can be chosen can
\* be raced
ValidateReturns == ~Raises(docs.lines)
ChosenIsSteerable ==
    loaded.up => \A k \in DOMAIN loaded.docs.courses : api_select(loaded.docs.courses[k]) # "raises"
===============================================================================
