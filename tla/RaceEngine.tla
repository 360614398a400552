------------------------------ MODULE RaceEngine ------------------------------
(***************************************************************************)
(* python/enchantee_racing/engine/race.py and engine/waypoint.py: the race *)
(* as pure functions of a state, a course, a fix and the time.  Each gives *)
(* the new state and the kinds of the events that happened, as the code    *)
(* does.  Left out: the two counters nothing decides by (ignored_crossings *)
(* and breaches, the second of which is told by its events).               *)
(*                                                                         *)
(* A fix is a position, a course over ground or None, and whether the boat *)
(* is too slow for that course to mean anything.                           *)
(***************************************************************************)
EXTENDS Integers, Sequences, FiniteSets

CONSTANTS
    None,
    inner, outer,           \* the start and finish line
    MarkAt,                 \* of each mark, its position
    Legs,                   \* of each course, its marks in order; the finish last
    noCrossLines,           \* pairs of marks
    arming_radius, arrival_radius, astern_fixes, suppress_after_advance,
    position_stale, early_start_warning, breach_end_margin

-------------------------------------------------------------------------------
(***************************************************************************)
(* python/enchantee_racing/engine/nav.py in the plane of one line: what a  *)
(* fix has crossed, on which side of it the boat is, and whether a mark is *)
(* near or abaft the beam.  Positions are <<east, north>> in whole units   *)
(* of the plane enu() projects to, courses are directions; no division is  *)
(* made, every comparison is multiplied out.                               *)
(***************************************************************************)

enu(origin, point) == <<point[1] - origin[1], point[2] - origin[2]>>
Dot(u, v) == u[1] * v[1] + u[2] * v[2]
Cross(u, v) == u[1] * v[2] - u[2] * v[1]

\* distance_m(p, q) <= metres
Within(p, q, metres) == Dot(enu(p, q), enu(p, q)) <= metres * metres

\* How far left of the line a -> b, times its length
Offset(a, b, p) == Cross(enu(a, b), enu(a, p))

\* +1 left, -1 right, and 0 on the line, which is no side
side(a, b, p) == CASE Offset(a, b, p) > 0 -> 1
                   [] Offset(a, b, p) < 0 -> -1
                   [] OTHER -> 0

\* The side a track came from: on the line counts as left
FromSide(a, b, p) == IF Offset(a, b, p) >= 0 THEN 1 ELSE -1

\* Where along a -> b the track p -> q meets the line is Met / Whole
Whole(a, b, p, q) == (Offset(a, b, p) - Offset(a, b, q)) * Dot(enu(a, b), enu(a, b))
Met(a, b, p, q) == Offset(a, b, p) * Dot(enu(a, q), enu(a, b))
                     - Offset(a, b, q) * Dot(enu(a, p), enu(a, b))

Between(x, y, z) == x <= y /\ y <= z

\* The track p -> q went from one side to the other between the ends
crossing(a, b, p, q) ==
    /\ FromSide(a, b, p) # FromSide(a, b, q)
    /\ \/ Between(0, Met(a, b, p, q), Whole(a, b, p, q))
       \/ Between(Whole(a, b, p, q), Met(a, b, p, q), 0)

\* ... within metres of either end
NearEnd(a, b, p, q, metres) ==
    LET Sq(x) == x * x
        met == Met(a, b, p, q)
        whole == Whole(a, b, p, q)
        len == Dot(enu(a, b), enu(a, b))
    IN \/ Sq(met) * len < Sq(metres * whole)
       \/ Sq(whole - met) * len < Sq(metres * whole)

\* abs(relative_bearing(bearing(p, mark), course)) > 90; to where the boat
\* already is, bearing() is north
Abaft(p, mark, course) ==
    LET ahead == IF p = mark THEN <<0, 1>> ELSE enu(p, mark)
    IN Dot(ahead, course) < 0

-------------------------------------------------------------------------------
\* The race
IDLE == "idle"
PRESTART == "prestart"
RACING == "racing"
FINISHED == "finished"

initial == [mode |-> IDLE, course |-> None, leg |-> 0, start_at |-> None,
            finished_at |-> None, armed_leg |-> None, astern |-> 0,
            suppress_until |-> 0, finish_armed |-> FALSE, finish_side |-> None,
            shortened |-> FALSE, previous_fix |-> None]

last_leg(c) == Len(Legs[c]) - 1
leg_target(c, leg) == MarkAt[Legs[c][leg + 1]]

Result(s, events) == [state |-> s, events |-> events]
Unmoved(s) == Result(s, <<>>)
Then(r, next) == Result(next.state, r.events \o next.events)

---------------------------------------------------------------------------
(* What the crew commands *)

select(s, c) ==
    Result([s EXCEPT !.course = c, !.leg = 0, !.armed_leg = None, !.astern = 0,
                     !.finish_armed = FALSE, !.finish_side = None,
                     !.shortened = FALSE, !.finished_at = None, !.mode = PRESTART],
           <<"select">>)

\* A hooter, minutes before the gun; None takes a mis-tap back
set_timer(s, minutes, now) ==
    IF minutes = None
    THEN Result([s EXCEPT !.mode = IDLE, !.start_at = None], <<"timer">>)
    ELSE Result([s EXCEPT !.mode = PRESTART, !.start_at = now + minutes,
                          !.finished_at = None], <<"timer">>)

nudge_timer(s, seconds) ==
    IF s.start_at = None THEN Unmoved(s)
    ELSE Result([s EXCEPT !.start_at = @ + seconds], <<"timer">>)

\* Mutant: the approach is not forgotten
at_legKeepsArmed(s, c, leg, now) ==
    LET armed == s.shortened \/ leg >= last_leg(c)
    IN [s EXCEPT !.leg = leg, !.suppress_until = now + suppress_after_advance,
                 !.finish_armed = armed,
                 !.finish_side = IF armed = s.finish_armed THEN @ ELSE None]

\* Moving to a leg clears what was detected on the one before
at_leg(s, c, leg, now) ==
    LET armed == s.shortened \/ leg >= last_leg(c)
    IN [s EXCEPT !.leg = leg, !.armed_leg = None, !.astern = 0,
                 !.suppress_until = now + suppress_after_advance,
                 !.finish_armed = armed,
                 !.finish_side = IF armed = s.finish_armed THEN @ ELSE None]

finish(s, now) == Result([s EXCEPT !.mode = FINISHED, !.finished_at = now], <<"finish">>)

\* Mutant: only from above
ClampAbove(leg, c) == IF leg > last_leg(c) THEN last_leg(c) ELSE leg

Clamp(leg, c) == IF leg < 0 THEN 0 ELSE IF leg > last_leg(c) THEN last_leg(c) ELSE leg

advance(s, c, dir, now) ==
    LET to == Clamp(s.leg + dir, c)
    IN CASE s.mode \notin {RACING, PRESTART} -> Unmoved(s)
         [] s.mode = RACING /\ dir = 1 /\ s.leg >= last_leg(c) -> finish(s, now)
         [] s.mode = PRESTART /\ dir = 1 /\ s.leg >= last_leg(c) -> Unmoved(s)
         [] s.mode \in {RACING, PRESTART} /\ ~(dir = 1 /\ s.leg >= last_leg(c)) ->
              IF to = s.leg THEN Unmoved(s)
              ELSE Result(at_leg(s, c, to, now),
                          <<IF dir = 1 THEN "rounded" ELSE "back">>)

\* Mutant: the side seen for the finish as it was stays
shortenKeepsSide(s) ==
    IF s.mode # RACING THEN Unmoved(s)
    ELSE Result([s EXCEPT !.shortened = TRUE, !.finish_armed = TRUE], <<"shorten">>)

shorten(s) ==
    IF s.mode # RACING THEN Unmoved(s)
    ELSE Result([s EXCEPT !.shortened = TRUE, !.finish_armed = TRUE, !.finish_side = None],
                <<"shorten">>)

reset(s) == Result([initial EXCEPT !.course = s.course], <<"reset">>)

---------------------------------------------------------------------------
(* The clock *)

StartIsDue(s, now) == s.mode = PRESTART /\ s.start_at # None /\ now >= s.start_at

on_clock(s, c, now) ==
    IF ~StartIsDue(s, now) THEN Unmoved(s)
    ELSE Result([s EXCEPT !.mode = RACING, !.leg = 0, !.armed_leg = None, !.astern = 0,
                          !.suppress_until = 0, !.finish_armed = (last_leg(c) = 0)],
                <<"start">>)

---------------------------------------------------------------------------
(* Every fix *)

CrossedLine(previous, p) == crossing(inner, outer, previous, p)

check_early_start(s, previous, p, now) ==
    IF /\ s.start_at # None
       /\ s.start_at - now \in 0..early_start_warning
       /\ CrossedLine(previous, p)
    THEN Result(s, <<"early">>)
    ELSE Unmoved(s)

\* One event for every forbidden line the track went through
check_breaches(s, previous, p) ==
    LET breached(line) ==
            LET a == MarkAt[line[1]]
                b == MarkAt[line[2]]
            IN /\ crossing(a, b, previous, p)
               /\ ~NearEnd(a, b, previous, p, breach_end_margin)
        number == Cardinality({i \in DOMAIN noCrossLines : breached(noCrossLines[i])})
    IN Result(s, [i \in 1..number |-> "breach"])

\* Mutant: whichever way the line was crossed
check_finishEitherWay(s, previous, p, now) ==
    IF s.finish_armed /\ s.finish_side # None /\ CrossedLine(previous, p)
    THEN finish(s, now)
    ELSE Unmoved(s)

check_finish(s, previous, p, now) ==
    IF /\ s.finish_armed /\ s.finish_side # None
       /\ CrossedLine(previous, p)
       /\ FromSide(inner, outer, previous) = s.finish_side
    THEN finish(s, now)
    ELSE Unmoved(s)

note_finish_side(s, p) ==
    IF s.finish_armed /\ s.finish_side = None /\ side(inner, outer, p) # 0
    THEN [s EXCEPT !.finish_side = side(inner, outer, p)]
    ELSE s

check_rounding(s, c, fix, now) ==
    LET mark == leg_target(c, s.leg)
    IN CASE now < s.suppress_until \/ s.leg >= last_leg(c) -> Unmoved(s)
         [] OTHER ->
       IF s.armed_leg # s.leg
       THEN IF Within(fix.at, mark, arming_radius)
            THEN Unmoved([s EXCEPT !.armed_leg = s.leg, !.astern = 0])
            ELSE Unmoved(s)
       ELSE CASE fix.cog = None -> Unmoved(s)
              [] fix.cog # None /\ (fix.slow \/ ~Abaft(fix.at, mark, fix.cog)) ->
                   Unmoved([s EXCEPT !.astern = 0])
              [] OTHER ->
                   IF s.astern + 1 < astern_fixes
                   THEN Unmoved([s EXCEPT !.astern = @ + 1])
                   ELSE Result(at_leg(s, c, s.leg + 1, now), <<"rounded">>)

\* ts is when the fix came
on_fix(s, c, fix, ts, now) ==
    LET previous == s.previous_fix
        moved == [s EXCEPT !.previous_fix = fix.at]
        noted == note_finish_side(moved, fix.at)
        breached == check_breaches(noted, previous, fix.at)
        judged == Then(breached, check_finish(noted, previous, fix.at, now))
        tracked == IF previous = None THEN Unmoved(noted) ELSE judged
    IN CASE now - ts > position_stale -> Unmoved([s EXCEPT !.previous_fix = None])
         [] now - ts <= position_stale /\ s.mode \in {IDLE, FINISHED} -> Unmoved(moved)
         [] now - ts <= position_stale /\ s.mode = PRESTART ->
              IF previous = None THEN Unmoved(moved)
              ELSE check_early_start(moved, previous, fix.at, now)
         [] now - ts <= position_stale /\ s.mode = RACING ->
              IF tracked.state.mode = FINISHED THEN tracked
              ELSE Then(tracked, check_rounding(tracked.state, c, fix, now))

---------------------------------------------------------------------------
(* The waypoint dropped on the chart: None, or where, and how near it came *)

drop(p) == [at |-> p, armed |-> FALSE, astern |-> 0]

\* None once it is reached, or left astern
waypoint_on_fix(wp, fix) ==
    CASE wp = None -> None
      [] wp # None /\ Within(fix.at, wp.at, arrival_radius) -> None
      [] OTHER ->
    IF ~wp.armed
    THEN IF Within(fix.at, wp.at, arming_radius)
         THEN [wp EXCEPT !.armed = TRUE, !.astern = 0]
         ELSE wp
    ELSE CASE fix.cog = None -> wp
           [] fix.cog # None /\ (fix.slow \/ ~Abaft(fix.at, wp.at, fix.cog)) ->
                [wp EXCEPT !.astern = 0]
           [] OTHER -> IF wp.astern + 1 < astern_fixes
                       THEN [wp EXCEPT !.astern = @ + 1]
                       ELSE None
===============================================================================
