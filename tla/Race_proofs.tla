----------------------------- MODULE Race_proofs -----------------------------
(***************************************************************************)
(* What TLAPS proves of the race and of its events, for every course,      *)
(* fleet of devices, fix and time: the buttons, the clock and the fixes    *)
(* keep the types; the course is the one that was chosen; legs and races   *)
(* end by what the boat did; every event is at one place, in order; a      *)
(* waypoint goes when it was reached; what is served of the courses is     *)
(* what can be raced.                                                      *)
(*                                                                         *)
(* First what the engine answers (engine/race.py), one lemma for each of   *)
(* its functions; then, one lemma for each action, the invariants of       *)
(* store.py and app.py; then the events, and the waypoint; last the        *)
(* documents the courses are read from (engine/course.py).                 *)
(***************************************************************************)
EXTENDS RaceApp, RaceEvents, RaceWaypoint, Courses, FiniteSetTheorems, SequenceTheorems, TLAPS

\* What the engine answers, and whether it tells of an event of some kinds
Kind == {"select", "timer", "rounded", "back", "shorten", "reset", "start", "early", "breach",
         "finish"}
Answer == [state : RaceState, events : Seq(Kind)]
Tells(r, kinds) == \E i \in 1..Len(r.events) : r.events[i] \in kinds

\* The events that begin a leg, and those that arm the finish anew
LegBegins == {"select", "start", "rounded", "back"}
Arming == {"shorten", "start"}

-----------------------------------------------------------------------------
(* What the engine answers                                                 *)

\* A course has a leg before its last
LEMMA CourseIsLong ==
    ASSUME NEW c \in Course
    PROVE  Len(Legs[c]) \in Nat /\ last_leg(c) \in Nat \ {0}
  <1>1. Legs[c] \in Seq(DOMAIN MarkAt) /\ Len(Legs[c]) > 1
    BY RaceSettingsAssumption
  <1>2. Len(Legs[c]) \in Nat
    BY <1>1, LenProperties
  <1> DEFINE n == Len(Legs[c])
  <1>3. n \in Nat /\ n > 1 /\ last_leg(c) = n - 1
    BY <1>1, <1>2 DEF last_leg
  <1> HIDE DEF n
  <1>4. last_leg(c) \in Nat \ {0}
    BY <1>3
  <1> QED BY <1>2, <1>4

\* The race before anything was pressed
LEMMA InitialIs == initial \in RaceState
  BY RaceSettingsAssumption DEF initial, RaceState, IDLE, PRESTART, RACING, FINISHED

\* One event, or none
LEMMA OneEvent ==
    ASSUME NEW s \in RaceState, NEW kind \in Kind
    PROVE  /\ Result(s, <<kind>>) \in Answer /\ Result(s, <<kind>>).state = s
           /\ Unmoved(s) \in Answer /\ Unmoved(s).state = s
           /\ \A kinds : /\ Tells(Result(s, <<kind>>), kinds) <=> kind \in kinds
                        /\ ~Tells(Unmoved(s), kinds)
  <1>1. /\ Result(s, <<kind>>).state = s /\ Unmoved(s).state = s
        /\ Result(s, <<kind>>).events = <<kind>> /\ Unmoved(s).events = <<>>
    BY DEF Result, Unmoved
  <1>2. \A kinds : /\ Tells(Result(s, <<kind>>), kinds) <=> kind \in kinds
                  /\ ~Tells(Unmoved(s), kinds)
    <2> DEFINE r == Result(s, <<kind>>)
               u == Unmoved(s)
    <2>1. r.events = <<kind>> /\ u.events = <<>>
      BY <1>1
    <2> HIDE DEF r, u
    <2>2. \A kinds : Tells(r, kinds) <=> kind \in kinds
      BY <2>1 DEF Tells
    <2>3. \A kinds : ~Tells(u, kinds)
      BY <2>1 DEF Tells
    <2> QED BY <2>2, <2>3 DEF r, u
  <1>3. <<kind>> \in Seq(Kind) /\ <<>> \in Seq(Kind)
    OBVIOUS
  <1>4. Result(s, <<kind>>) \in Answer /\ Unmoved(s) \in Answer
    BY <1>3 DEF Result, Unmoved, Answer
  <1> QED BY <1>1, <1>2, <1>4

\* Which kinds begin a leg, and which arm the finish
LEMMA Kinds ==
    /\ {"select", "timer", "rounded", "back", "shorten", "reset", "start", "early", "breach",
         "finish"} \subseteq Kind
    /\ "select" \in LegBegins /\ "start" \in LegBegins
    /\ "rounded" \in LegBegins /\ "back" \in LegBegins
    /\ "timer" \notin LegBegins /\ "shorten" \notin LegBegins /\ "finish" \notin LegBegins
    /\ "breach" \notin LegBegins /\ "early" \notin LegBegins
    /\ "shorten" \in Arming /\ "start" \in Arming
    /\ "timer" \notin Arming /\ "rounded" \notin Arming /\ "back" \notin Arming
    /\ "finish" \notin Arming /\ "breach" \notin Arming /\ "early" \notin Arming
  BY DEF LegBegins, Arming, Kind

\* The events of two answers, one after the other
LEMMA ThenTells ==
    ASSUME NEW r \in Answer, NEW next \in Answer, NEW kinds
    PROVE  /\ Then(r, next) \in Answer /\ Then(r, next).state = next.state
           /\ Tells(Then(r, next), kinds) <=> Tells(r, kinds) \/ Tells(next, kinds)
  <1> DEFINE e == r.events
             f == next.events
             g == e \o f
  <1>1. e \in Seq(Kind) /\ f \in Seq(Kind) /\ next.state \in RaceState
    BY DEF Answer
  <1> HIDE DEF e, f
  <1>2. /\ g \in Seq(Kind) /\ Len(g) = Len(e) + Len(f)
        /\ \A i \in 1..(Len(e) + Len(f)) : g[i] = IF i <= Len(e) THEN e[i] ELSE f[i - Len(e)]
        /\ Len(e) \in Nat /\ Len(f) \in Nat
    BY <1>1, ConcatProperties, LenProperties
  <1> HIDE DEF g
  <1>3. Then(r, next).state = next.state /\ Then(r, next).events = g
    BY DEF Then, Result, e, f, g
  <1>4. (\E i \in 1..Len(g) : g[i] \in kinds)
          <=> (\E i \in 1..Len(e) : e[i] \in kinds) \/ (\E i \in 1..Len(f) : f[i] \in kinds)
    <2>1. ASSUME NEW i \in 1..Len(g), g[i] \in kinds
          PROVE  (\E j \in 1..Len(e) : e[j] \in kinds) \/ (\E j \in 1..Len(f) : f[j] \in kinds)
      <3>1. CASE i <= Len(e)
        BY <1>2, <2>1, <3>1
      <3>2. CASE i > Len(e)
        <4>1. i - Len(e) \in 1..Len(f) /\ f[i - Len(e)] \in kinds
          BY <1>2, <2>1, <3>2
        <4> QED BY <4>1
      <3> QED BY <1>2, <3>1, <3>2
    <2>2. ASSUME NEW i \in 1..Len(e), e[i] \in kinds
          PROVE  \E j \in 1..Len(g) : g[j] \in kinds
      <3>1. i \in 1..(Len(e) + Len(f)) /\ i <= Len(e)
        BY <1>2
      <3>2. i \in 1..Len(g) /\ g[i] = e[i]
        BY <1>2, <3>1
      <3> QED BY <2>2, <3>2
    <2>3. ASSUME NEW i \in 1..Len(f), f[i] \in kinds
          PROVE  \E j \in 1..Len(g) : g[j] \in kinds
      <3> DEFINE k == Len(e) + i
      <3>1. k \in 1..(Len(e) + Len(f)) /\ ~(k <= Len(e)) /\ k - Len(e) = i
        BY <1>2
      <3> HIDE DEF k
      <3>2. k \in 1..Len(g) /\ g[k] = f[i]
        BY <1>2, <3>1
      <3> QED BY <2>3, <3>2
    <2> QED BY <2>1, <2>2, <2>3
  <1>5. Then(r, next) \in Answer
    BY <1>1, <1>2, <1>3 DEF Answer, Then, Result
  <1>6. Tells(Then(r, next), kinds) <=> \E i \in 1..Len(g) : g[i] \in kinds
    BY <1>3 DEF Tells
  <1>7. /\ Tells(r, kinds) <=> \E i \in 1..Len(e) : e[i] \in kinds
        /\ Tells(next, kinds) <=> \E i \in 1..Len(f) : f[i] \in kinds
    BY DEF Tells, e, f
  <1> QED BY <1>3, <1>4, <1>5, <1>6, <1>7

\* A leg begins, and the finish is armed anew, as the events tell
LEMMA HistoryTells ==
    ASSUME NEW r \in Answer
    PROVE  /\ BeginsLeg(r) <=> Tells(r, LegBegins)
           /\ Arms(r) <=> (r.state.finish_armed /\ ~race.finish_armed) \/ Tells(r, Arming)
  <1>1. DOMAIN r.events = 1..Len(r.events)
    BY LenProperties DEF Answer
  <1> QED BY <1>1 DEF BeginsLeg, Arms, Tells, LegBegins, Arming

-----------------------------------------------------------------------------
(* The buttons                                                             *)

\* A choice of a course: the race is before its start, on that course
LEMMA SelectIs ==
    ASSUME NEW s \in RaceState, NEW c \in Course
    PROVE  /\ select(s, c) \in Answer /\ select(s, c).state.course = c
           /\ select(s, c).state.mode = PRESTART
  <1> DEFINE t == [s EXCEPT !.course = c, !.leg = 0, !.armed_leg = None, !.astern = 0,
                            !.finish_armed = FALSE, !.finish_side = None,
                            !.shortened = FALSE, !.finished_at = None, !.mode = PRESTART]
  <1>1. t \in RaceState /\ t.course = c /\ t.mode = PRESTART
    <2>1. 0 \in 0..(astern_fixes - 1)
      BY RaceSettingsAssumption
    <2> QED BY <2>1 DEF RaceState
  <1>2. select(s, c) = Result(t, <<"select">>)
    BY DEF select
  <1> HIDE DEF t
  <1> QED BY <1>1, <1>2, OneEvent, Kinds

\* A hooter: the race is before its start, or idle
LEMMA TimerIs ==
    ASSUME NEW s \in RaceState, NEW minutes \in Hooter \cup {None}, NEW t \in Nat
    PROVE  LET r == set_timer(s, minutes, t)
           IN /\ r \in Answer /\ r.state.course = s.course
              /\ r.state.mode \in {IDLE, PRESTART}
  <1> DEFINE back == [s EXCEPT !.mode = IDLE, !.start_at = None]
             set == [s EXCEPT !.mode = PRESTART, !.start_at = t + minutes, !.finished_at = None]
  <1>1. back \in RaceState /\ back.mode = IDLE /\ back.course = s.course
    BY DEF RaceState
  <1>2. CASE minutes = None
    <2>1. set_timer(s, minutes, t) = Result(back, <<"timer">>)
      BY <1>2 DEF set_timer
    <2> HIDE DEF back
    <2> QED BY <1>1, <2>1, OneEvent, Kinds
  <1>3. CASE minutes # None
    <2>1. t + minutes \in Int
      BY <1>3, RaceAppAssumption
    <2>2. set \in RaceState /\ set.mode = PRESTART /\ set.course = s.course
      BY <2>1 DEF RaceState
    <2>3. set_timer(s, minutes, t) = Result(set, <<"timer">>)
      BY <1>3 DEF set_timer
    <2> HIDE DEF set
    <2> QED BY <2>2, <2>3, OneEvent, Kinds
  <1> QED BY <1>2, <1>3

\* A nudge moves the start, and nothing else
LEMMA NudgeIs ==
    ASSUME NEW s \in RaceState, NEW seconds \in NudgeStep
    PROVE  LET r == nudge_timer(s, seconds)
           IN /\ r \in Answer
              /\ r.state = [s EXCEPT !.start_at = r.state.start_at]
              /\ ~Tells(r, LegBegins) /\ ~Tells(r, Arming)
  <1> DEFINE t == [s EXCEPT !.start_at = @ + seconds]
  <1>1. CASE s.start_at = None
    <2>1. nudge_timer(s, seconds) = Unmoved(s)
      BY <1>1 DEF nudge_timer
    <2>2. s = [s EXCEPT !.start_at = s.start_at]
      BY DEF RaceState
    <2> DEFINE u == Unmoved(s)
    <2>3. u \in Answer /\ u.state = s /\ ~Tells(u, LegBegins) /\ ~Tells(u, Arming)
      BY OneEvent, Kinds
    <2> HIDE DEF u
    <2>4. u.state = [s EXCEPT !.start_at = u.state.start_at]
      BY <2>2, <2>3
    <2>5. nudge_timer(s, seconds) = u
      BY <2>1 DEF u
    <2> QED BY <2>3, <2>4, <2>5
  <1>2. CASE s.start_at # None
    <2>1. s.start_at + seconds \in Int
      BY <1>2, RaceAppAssumption DEF RaceState
    <2>2. t \in RaceState /\ t = [s EXCEPT !.start_at = t.start_at]
      BY <2>1 DEF RaceState
    <2>3. nudge_timer(s, seconds) = Result(t, <<"timer">>)
      BY <1>2 DEF nudge_timer
    <2> HIDE DEF t
    <2> QED BY <2>2, <2>3, OneEvent, Kinds
  <1> QED BY <1>1, <1>2

\* A leg is moved to with nothing known of it
LEMMA AtLegIs ==
    ASSUME NEW s \in RaceState, NEW c \in Course, NEW leg \in Nat, NEW t \in Nat
    PROVE  LET moved == at_leg(s, c, leg, t)
           IN /\ moved \in RaceState
              /\ moved.mode = s.mode /\ moved.course = s.course
              /\ moved.leg = leg /\ moved.armed_leg = None
              /\ moved.finish_side = IF moved.finish_armed = s.finish_armed THEN s.finish_side
                                     ELSE None
  <1> DEFINE armed == (s.shortened \/ leg >= last_leg(c))
             until == t + suppress_after_advance
             known == IF armed = s.finish_armed THEN s.finish_side ELSE None
             moved == [s EXCEPT !.leg = leg, !.armed_leg = None, !.astern = 0,
                                !.suppress_until = until, !.finish_armed = armed,
                                !.finish_side = known]
  <1>1. armed \in BOOLEAN
    OBVIOUS
  <1>2. until \in Nat /\ 0 \in 0..(astern_fixes - 1)
    BY RaceSettingsAssumption
  <1>3. known \in {-1, 1, None}
    BY DEF RaceState
  <1>4. at_leg(s, c, leg, t) = moved
    BY DEF at_leg, RaceState
  <1> HIDE DEF armed, until
  <1>5. known = IF armed = s.finish_armed THEN s.finish_side ELSE None
    OBVIOUS
  <1> HIDE DEF known
  <1>6. moved \in RaceState
    BY <1>1, <1>2, <1>3 DEF RaceState
  <1>7. /\ moved.mode = s.mode /\ moved.course = s.course
        /\ moved.leg = leg /\ moved.armed_leg = None
        /\ moved.finish_armed = armed /\ moved.finish_side = known
    BY DEF RaceState
  <1> HIDE DEF moved
  <1> QED BY <1>4, <1>5, <1>6, <1>7

\* A finish ends the race, and changes nothing else
LEMMA FinishIs ==
    ASSUME NEW s \in RaceState, NEW t \in Nat
    PROVE  LET r == finish(s, t)
           IN /\ r \in Answer /\ r.state = [s EXCEPT !.mode = FINISHED, !.finished_at = t]
              /\ ~Tells(r, LegBegins) /\ ~Tells(r, Arming)
  <1> DEFINE f == [s EXCEPT !.mode = FINISHED, !.finished_at = t]
  <1>1. f \in RaceState /\ finish(s, t) = Result(f, <<"finish">>)
    BY DEF finish, RaceState
  <1> HIDE DEF f
  <1>2. LET r == finish(s, t)
        IN r \in Answer /\ r.state = f /\ ~Tells(r, LegBegins) /\ ~Tells(r, Arming)
    BY <1>1, OneEvent, Kinds
  <1> QED BY <1>2 DEF f

\* A leg put forward or taken back by the crew: nothing happens, the race ends, or a
\* leg begins with no approach known
LEMMA AdvanceIs ==
    ASSUME NEW s \in RaceState, NEW c \in Course, NEW dir \in {-1, 1}, NEW t \in Nat
    PROVE  LET r == advance(s, c, dir, t)
           IN /\ r \in Answer /\ r.state.course = s.course
              /\ \/ r = Unmoved(s)
                 \/ r.state.mode = FINISHED
                 \/ /\ r.state.mode = s.mode /\ r.state.armed_leg = None
                    /\ r.state.finish_side = IF r.state.finish_armed = s.finish_armed
                                             THEN s.finish_side ELSE None
                    /\ Tells(r, LegBegins) /\ ~Tells(r, Arming)
  <1> DEFINE to == Clamp(s.leg + dir, c)
             kind == IF dir = 1 THEN "rounded" ELSE "back"
             leg == at_leg(s, c, to, t)
  <1>1. to \in Nat
    <2>1. s.leg \in Nat
      BY DEF RaceState
    <2> QED BY <2>1, CourseIsLong DEF Clamp
  <1>2. Unmoved(s) \in Answer /\ Unmoved(s).state = s
    BY OneEvent, Kinds
  <1>3. /\ finish(s, t) \in Answer /\ finish(s, t).state.mode = FINISHED
        /\ finish(s, t).state.course = s.course
    BY FinishIs DEF RaceState
  <1>4. kind \in Kind /\ kind \in LegBegins /\ kind \notin Arming
    BY Kinds
  <1>5. advance(s, c, dir, t) \in {Unmoved(s), finish(s, t), Result(leg, <<kind>>)}
    BY DEF advance
  <1> HIDE DEF to, kind
  <1>6. leg \in RaceState
    BY <1>1, AtLegIs
  <1>7. /\ leg.mode = s.mode /\ leg.course = s.course /\ leg.armed_leg = None
        /\ leg.finish_side = IF leg.finish_armed = s.finish_armed THEN s.finish_side ELSE None
    BY <1>1, AtLegIs
  <1> HIDE DEF leg
  <1>8. LET r == Result(leg, <<kind>>)
        IN r \in Answer /\ r.state = leg /\ Tells(r, LegBegins) /\ ~Tells(r, Arming)
    BY <1>4, <1>6, OneEvent, Kinds
  <1> QED BY <1>2, <1>3, <1>5, <1>7, <1>8

\* A shortened course: the finish is armed anew, and no side is noted
LEMMA ShortenIs ==
    ASSUME NEW s \in RaceState
    PROVE  LET r == shorten(s)
           IN /\ r \in Answer
              /\ \/ r = Unmoved(s) /\ s.mode # RACING
                 \/ /\ r.state = [s EXCEPT !.shortened = TRUE, !.finish_armed = TRUE,
                                           !.finish_side = None]
                    /\ ~Tells(r, LegBegins) /\ Tells(r, Arming)
  <1> DEFINE t == [s EXCEPT !.shortened = TRUE, !.finish_armed = TRUE, !.finish_side = None]
  <1>1. t \in RaceState
    BY DEF RaceState
  <1>2. shorten(s) = IF s.mode # RACING THEN Unmoved(s) ELSE Result(t, <<"shorten">>)
    BY DEF shorten
  <1> HIDE DEF t
  <1>3. \/ shorten(s) = Unmoved(s) /\ s.mode # RACING /\ Unmoved(s) \in Answer
        \/ /\ shorten(s) \in Answer /\ shorten(s).state = t
           /\ ~Tells(shorten(s), LegBegins) /\ Tells(shorten(s), Arming)
    BY <1>1, <1>2, OneEvent, Kinds
  <1> QED BY <1>3 DEF t

\* A reset leaves the course only
LEMMA ResetIs ==
    ASSUME NEW s \in RaceState
    PROVE  /\ reset(s) \in Answer
           /\ reset(s).state.mode = IDLE /\ reset(s).state.course = s.course
  <1> DEFINE t == [initial EXCEPT !.course = s.course]
  <1>1. s.course \in Course \cup {None}
    BY DEF RaceState
  <1>2. t \in RaceState /\ t.course = s.course
    BY <1>1, InitialIs DEF RaceState
  <1>3. t.mode = IDLE
    BY DEF initial
  <1>4. reset(s) = Result(t, <<"reset">>)
    BY DEF reset
  <1> HIDE DEF t
  <1> QED BY <1>2, <1>3, <1>4, OneEvent, Kinds

\* The clock starts a race that is due: from its first leg, with the finish not armed
LEMMA ClockIs ==
    ASSUME NEW s \in RaceState, NEW c \in Course, NEW t \in Nat
    PROVE  LET r == on_clock(s, c, t)
           IN /\ r \in Answer /\ r.state.course = s.course
              /\ \/ r = Unmoved(s)
                 \/ /\ s.mode = PRESTART /\ r.state.mode = RACING
                    /\ r.state.leg = 0 /\ r.state.armed_leg = None
                    /\ ~r.state.finish_armed
                    /\ Tells(r, LegBegins) /\ Tells(r, Arming)
  <1> DEFINE f == (last_leg(c) = 0)
             g == [s EXCEPT !.mode = RACING, !.leg = 0, !.armed_leg = None, !.astern = 0,
                            !.suppress_until = 0, !.finish_armed = f]
  <1>1. f = FALSE
    BY CourseIsLong
  <1>2. /\ s.mode = PRESTART /\ on_clock(s, c, t) = Result(g, <<"start">>)
        \/ on_clock(s, c, t) = Unmoved(s)
    BY DEF on_clock, StartIsDue
  <1> HIDE DEF f
  <1>3. /\ g \in RaceState /\ g.course = s.course /\ g.mode = RACING
        /\ g.leg = 0 /\ g.armed_leg = None /\ ~g.finish_armed
    <2>1. 0 \in 0..(astern_fixes - 1)
      BY RaceSettingsAssumption
    <2> QED BY <1>1, <2>1 DEF RaceState
  <1> HIDE DEF g
  <1> QED BY <1>2, <1>3, OneEvent, Kinds

-----------------------------------------------------------------------------
(* A fix                                                                   *)

\* A side of the line is 1 or -1, and the sides that are compared for a crossing
\* are those that are noted
LEMMA SideIs ==
    ASSUME NEW p \in Position
    PROVE  /\ side(inner, outer, p) \in {-1, 0, 1}
           /\ side(inner, outer, p) # 0 => FromSide(inner, outer, p) = side(inner, outer, p)
           /\ Seen(p) \in {-1, 1, None}
  <1>1. Offset(inner, outer, p) \in Int
    BY RaceSettingsAssumption DEF Offset, Cross, enu
  <1> DEFINE o == Offset(inner, outer, p)
  <1>2. o \in Int
    BY <1>1
  <1> HIDE DEF o
  <1>3. side(inner, outer, p) = CASE o > 0 -> 1 [] o < 0 -> -1 [] OTHER -> 0
    BY DEF side, o
  <1>4. FromSide(inner, outer, p) = IF o >= 0 THEN 1 ELSE -1
    BY DEF FromSide, o
  <1>5. side(inner, outer, p) \in {-1, 0, 1}
    BY <1>2, <1>3
  <1>6. side(inner, outer, p) # 0 => FromSide(inner, outer, p) = side(inner, outer, p)
    BY <1>2, <1>3, <1>4
  <1> QED BY <1>5, <1>6 DEF Seen

\* The side the boat is seen on is noted while there is none
NotedSide(s, p) ==
    IF s.finish_armed /\ s.finish_side = None THEN Seen(p) ELSE s.finish_side

\* Noting the side changes the side only
LEMMA NoteIs ==
    ASSUME NEW s \in RaceState, NEW p \in Position
    PROVE  LET n == note_finish_side(s, p)
           IN n \in RaceState /\ n = [s EXCEPT !.finish_side = NotedSide(s, p)]
  <1> DEFINE n == note_finish_side(s, p)
             k == side(inner, outer, p)
  <1>1. k \in {-1, 0, 1}
    BY SideIs
  <1>2. n = IF s.finish_armed /\ s.finish_side = None /\ k # 0
            THEN [s EXCEPT !.finish_side = k] ELSE s
    BY DEF note_finish_side
  <1>3. Seen(p) = IF k = 0 THEN None ELSE k
    BY DEF Seen
  <1> HIDE DEF n, k
  <1>4. n = [s EXCEPT !.finish_side = NotedSide(s, p)]
    BY <1>2, <1>3 DEF NotedSide, RaceState
  <1>5. n \in RaceState
    BY <1>1, <1>2 DEF RaceState
  <1> QED BY <1>4, <1>5 DEF n

\* The forbidden lines are told, one by one, and change nothing
LEMMA BreachesAre ==
    ASSUME NEW s \in RaceState, NEW previous, NEW p
    PROVE  LET r == check_breaches(s, previous, p)
           IN r \in Answer /\ r.state = s /\ ~Tells(r, LegBegins) /\ ~Tells(r, Arming)
  <1> DEFINE through(line) == /\ crossing(MarkAt[line[1]], MarkAt[line[2]], previous, p)
                              /\ ~NearEnd(MarkAt[line[1]], MarkAt[line[2]], previous, p,
                                          breach_end_margin)
             lines == {i \in DOMAIN noCrossLines : through(noCrossLines[i])}
             n == Cardinality(lines)
             e == [i \in 1..n |-> "breach"]
  <1>1. n \in Nat
    <2>1. DOMAIN noCrossLines = 1..Len(noCrossLines) /\ Len(noCrossLines) \in Nat
      BY RaceSettingsAssumption, LenProperties
    <2>2. IsFiniteSet(DOMAIN noCrossLines)
      BY <2>1, FS_Interval
    <2>3. lines \subseteq DOMAIN noCrossLines
      OBVIOUS
    <2> HIDE DEF lines
    <2> QED BY <2>2, <2>3, FS_Subset, FS_CardinalityType
  <1>2. check_breaches(s, previous, p) = Result(s, e)
    BY DEF check_breaches
  <1> HIDE DEF n
  <1>3. e \in Seq(Kind) /\ Len(e) = n /\ \A i \in 1..n : e[i] = "breach"
    BY <1>1, Kinds
  <1> HIDE DEF e
  <1>4. Result(s, e).state = s /\ Result(s, e).events = e /\ Result(s, e) \in Answer
    BY <1>3 DEF Result, Answer
  <1>5. ~Tells(Result(s, e), LegBegins) /\ ~Tells(Result(s, e), Arming)
    BY <1>3, <1>4, Kinds DEF Tells
  <1> QED BY <1>2, <1>4, <1>5

\* A finish by a fix: the line is crossed, from the side that was noted
LEMMA CheckFinishIs ==
    ASSUME NEW s \in RaceState, NEW previous, NEW p, NEW t \in Nat
    PROVE  LET r == check_finish(s, previous, p, t)
           IN /\ r \in Answer /\ ~Tells(r, LegBegins) /\ ~Tells(r, Arming)
              /\ r.state = s \/ r.state = finish(s, t).state
              /\ r.state # s => /\ s.finish_armed /\ s.finish_side # None
                               /\ CrossedLine(previous, p)
                               /\ FromSide(inner, outer, previous) = s.finish_side
  BY OneEvent, FinishIs, Kinds DEF check_finish

\* What a fix makes of the leg: nothing, an approach to its mark, or its end
LEMMA RoundingIs ==
    ASSUME NEW s \in RaceState, NEW c \in Course, NEW fix \in Fixes, NEW t \in Nat
    PROVE  LET r == check_rounding(s, c, fix, t)
               mark == leg_target(c, s.leg)
           IN /\ r \in Answer /\ ~Tells(r, Arming)
              /\ r.state.mode = s.mode /\ r.state.course = s.course
              /\ \/ /\ ~Tells(r, LegBegins)
                    /\ r.state.leg = s.leg /\ r.state.finish_armed = s.finish_armed
                    /\ r.state.finish_side = s.finish_side
                    /\ \/ r.state.armed_leg = s.armed_leg
                       \/ s.leg <= last_leg(c) /\ Within(fix.at, mark, arming_radius)
                 \/ /\ r.state.leg = s.leg + 1 /\ r.state.armed_leg = None
                    /\ r.state.finish_side = IF r.state.finish_armed = s.finish_armed
                                             THEN s.finish_side ELSE None
                    /\ t >= s.suppress_until /\ s.armed_leg = s.leg
                    /\ fix.cog # None /\ Abaft(fix.at, mark, fix.cog)
  <1> DEFINE mark == leg_target(c, s.leg)
             r == check_rounding(s, c, fix, t)
             near == [s EXCEPT !.armed_leg = s.leg, !.astern = 0]
             ahead == [s EXCEPT !.astern = 0]
             counted == [s EXCEPT !.astern = @ + 1]
             next == at_leg(s, c, s.leg + 1, t)
  <1>1. /\ s.leg \in Nat /\ s.astern \in 0..(astern_fixes - 1) /\ s.suppress_until \in Nat
        /\ last_leg(c) \in Nat /\ astern_fixes \in Nat \ {0}
    BY CourseIsLong, RaceSettingsAssumption DEF RaceState
  <1>2. 0 \in 0..(astern_fixes - 1) /\ s.leg \in Nat
    BY <1>1
  <1>10. /\ near \in RaceState
         /\ near.leg = s.leg /\ near.mode = s.mode /\ near.course = s.course
         /\ near.finish_armed = s.finish_armed /\ near.finish_side = s.finish_side
    BY <1>2 DEF RaceState
  <1>11. /\ ahead \in RaceState
         /\ ahead.leg = s.leg /\ ahead.mode = s.mode /\ ahead.course = s.course
         /\ ahead.finish_armed = s.finish_armed /\ ahead.finish_side = s.finish_side
         /\ ahead.armed_leg = s.armed_leg
    BY <1>2 DEF RaceState
  <1>3. s.astern + 1 < astern_fixes =>
        /\ counted \in RaceState
        /\ counted.leg = s.leg /\ counted.mode = s.mode /\ counted.course = s.course
        /\ counted.finish_armed = s.finish_armed /\ counted.finish_side = s.finish_side
        /\ counted.armed_leg = s.armed_leg
    <2> SUFFICES ASSUME s.astern + 1 < astern_fixes PROVE <1>3!2
      OBVIOUS
    <2>1. s.astern + 1 \in 0..(astern_fixes - 1)
      BY <1>1
    <2> QED BY <2>1 DEF RaceState
  <1>4. /\ next \in RaceState /\ next.mode = s.mode /\ next.course = s.course
        /\ next.leg = s.leg + 1 /\ next.armed_leg = None
        /\ next.finish_side = IF next.finish_armed = s.finish_armed THEN s.finish_side ELSE None
    <2> DEFINE leg == s.leg + 1
               to == at_leg(s, c, leg, t)
    <2>1. leg \in Nat
      BY <1>1
    <2> HIDE DEF leg
    <2>2. to \in RaceState
      BY <2>1, AtLegIs
    <2>3. /\ to.mode = s.mode /\ to.course = s.course /\ to.leg = leg /\ to.armed_leg = None
          /\ to.finish_side = IF to.finish_armed = s.finish_armed THEN s.finish_side ELSE None
      BY <2>1, AtLegIs
    <2>4. next = to
      BY DEF leg
    <2> HIDE DEF to, next
    <2> QED BY <2>2, <2>3, <2>4 DEF leg
  <1>5. \/ r = Unmoved(s) \/ r = Unmoved(ahead)
        \/ /\ r = Unmoved(near)
           /\ ~(s.leg >= last_leg(c)) /\ Within(fix.at, mark, arming_radius)
        \/ r = Unmoved(counted) /\ s.astern + 1 < astern_fixes
        \/ /\ r = Result(next, <<"rounded">>)
           /\ ~(t < s.suppress_until) /\ s.armed_leg = s.leg
           /\ fix.cog # None /\ Abaft(fix.at, mark, fix.cog)
    <2> HIDE DEF near, ahead, counted, next, mark
    <2>1. CASE t < s.suppress_until \/ s.leg >= last_leg(c)
      BY <2>1 DEF check_rounding
    <2>2. CASE ~(t < s.suppress_until \/ s.leg >= last_leg(c)) /\ s.armed_leg # s.leg
      BY <2>2 DEF check_rounding, near, mark
    <2>3. CASE ~(t < s.suppress_until \/ s.leg >= last_leg(c)) /\ s.armed_leg = s.leg
      BY <2>3 DEF check_rounding, ahead, counted, next, mark
    <2> QED BY <2>1, <2>2, <2>3
  <1> HIDE DEF near, ahead, counted, next, mark, r
  <1>6. CASE r = Unmoved(s) \/ r = Unmoved(ahead)
    <2>3. Unmoved(s) \in Answer /\ Unmoved(s).state = s
            /\ ~Tells(Unmoved(s), LegBegins) /\ ~Tells(Unmoved(s), Arming)
      BY OneEvent, Kinds
    <2>4. Unmoved(ahead) \in Answer /\ Unmoved(ahead).state = ahead
            /\ ~Tells(Unmoved(ahead), LegBegins) /\ ~Tells(Unmoved(ahead), Arming)
      BY <1>11, OneEvent, Kinds
    <2>1. r \in Answer /\ r.state \in {s, ahead} /\ ~Tells(r, LegBegins) /\ ~Tells(r, Arming)
      BY <1>6, <2>3, <2>4
    <2>2. /\ r.state.leg = s.leg /\ r.state.finish_armed = s.finish_armed
          /\ r.state.finish_side = s.finish_side /\ r.state.armed_leg = s.armed_leg
          /\ r.state.mode = s.mode /\ r.state.course = s.course
      BY <2>1, <1>11
    <2> QED BY <2>1, <2>2 DEF r
  <1>7. CASE /\ r = Unmoved(near)
             /\ ~(s.leg >= last_leg(c)) /\ Within(fix.at, mark, arming_radius)
    <2>1. r \in Answer /\ r.state = near /\ ~Tells(r, LegBegins) /\ ~Tells(r, Arming)
      BY <1>7, <1>10, OneEvent, Kinds
    <2>2. s.leg <= last_leg(c)
      BY <1>1, <1>7
    <2> QED BY <2>1, <2>2, <1>7, <1>10 DEF r, mark
  <1>8. CASE r = Unmoved(counted) /\ s.astern + 1 < astern_fixes
    <2>1. r \in Answer /\ r.state = counted /\ ~Tells(r, LegBegins) /\ ~Tells(r, Arming)
      BY <1>8, <1>3, OneEvent, Kinds
    <2> QED BY <2>1, <1>8, <1>3 DEF r
  <1>9. CASE /\ r = Result(next, <<"rounded">>)
             /\ ~(t < s.suppress_until) /\ s.armed_leg = s.leg
             /\ fix.cog # None /\ Abaft(fix.at, mark, fix.cog)
    BY <1>1, <1>4, <1>9, OneEvent, Kinds DEF r, mark
  <1> QED BY <1>5, <1>6, <1>7, <1>8, <1>9

\* A crossing before the start is told, and changes nothing
LEMMA EarlyStartIs ==
    ASSUME NEW s \in RaceState, NEW previous, NEW p, NEW t \in Nat
    PROVE  LET r == check_early_start(s, previous, p, t)
           IN r \in Answer /\ r.state = s /\ ~Tells(r, LegBegins) /\ ~Tells(r, Arming)
  BY OneEvent, Kinds DEF check_early_start

\* A fix that comes while no race is on, or too late, only moves the boat
LEMMA IdleFixIs ==
    ASSUME NEW s \in RaceState, NEW c \in Course, NEW fix \in Fixes, NEW ts \in Nat, NEW t \in Nat,
           s.mode # RACING \/ t - ts > position_stale
    PROVE  LET r == on_fix(s, c, fix, ts, t)
           IN /\ r \in Answer /\ ~Tells(r, LegBegins) /\ ~Tells(r, Arming)
              /\ r.state = [s EXCEPT !.previous_fix = r.state.previous_fix]
  <1> DEFINE moved == [s EXCEPT !.previous_fix = fix.at]
             gone == [s EXCEPT !.previous_fix = None]
             r == on_fix(s, c, fix, ts, t)
  <1>1. fix.at \in Position
    BY RaceAppAssumption
  <1>2. /\ moved \in RaceState /\ moved = [s EXCEPT !.previous_fix = moved.previous_fix]
        /\ gone \in RaceState /\ gone = [s EXCEPT !.previous_fix = gone.previous_fix]
    BY <1>1 DEF RaceState
  <1>3. r \in {Unmoved(gone), Unmoved(moved), check_early_start(moved, s.previous_fix, fix.at, t)}
    <2> HIDE DEF moved, gone
    <2>1. CASE t - ts > position_stale
      <3>1. ~(t - ts <= position_stale)
        BY <2>1, RaceSettingsAssumption
      <3>2. r = Unmoved([s EXCEPT !.previous_fix = None])
        BY <2>1, <3>1 DEF on_fix
      <3> HIDE DEF r
      <3> QED BY <3>2 DEF gone
    <2>2. CASE ~(t - ts > position_stale) /\ s.mode # RACING
      <3>1. t - ts <= position_stale
        BY <2>2, RaceSettingsAssumption
      <3>2. s.mode \in {IDLE, FINISHED} \/ s.mode = PRESTART
        BY <2>2 DEF RaceState
      <3> QED BY <2>2, <3>1, <3>2 DEF on_fix, moved
    <2> QED BY <2>1, <2>2
  <1> HIDE DEF moved, gone
  <1>4. /\ r \in Answer /\ ~Tells(r, LegBegins) /\ ~Tells(r, Arming)
        /\ r.state \in {gone, moved}
    <2> DEFINE early == check_early_start(moved, s.previous_fix, fix.at, t)
    <2> HIDE DEF r
    <2>1. LET u == Unmoved(gone)
          IN u \in Answer /\ u.state = gone /\ ~Tells(u, LegBegins) /\ ~Tells(u, Arming)
      BY <1>2, OneEvent, Kinds
    <2>2. LET u == Unmoved(moved)
          IN u \in Answer /\ u.state = moved /\ ~Tells(u, LegBegins) /\ ~Tells(u, Arming)
      BY <1>2, OneEvent, Kinds
    <2>3. /\ early \in Answer /\ early.state = moved
          /\ ~Tells(early, LegBegins) /\ ~Tells(early, Arming)
      BY <1>2, EarlyStartIs
    <2> HIDE DEF early
    <2>4. r \in {Unmoved(gone), Unmoved(moved), early}
      BY <1>3 DEF early
    <2> QED BY <2>1, <2>2, <2>3, <2>4
  <1> QED BY <1>2, <1>4

\* A fix in a race.  Either it ends it, over the line and from the side the boat
\* was first seen on; or the side is noted, and the leg goes on or ends
LEMMA RacingFixIs ==
    ASSUME NEW s \in RaceState, NEW c \in Course, NEW fix \in Fixes, NEW ts \in Nat, NEW t \in Nat,
           s.mode = RACING, t - ts <= position_stale
    PROVE  LET r == on_fix(s, c, fix, ts, t)
               mark == leg_target(c, s.leg)
               seen == NotedSide(s, fix.at)
           IN /\ r \in Answer /\ ~Tells(r, Arming) /\ r.state.course = s.course
              /\ \/ /\ r.state.mode = FINISHED /\ r.state.leg = s.leg
                    /\ s.finish_armed /\ seen # None
                    /\ CrossedLine(s.previous_fix, fix.at)
                    /\ FromSide(inner, outer, s.previous_fix) = seen
                 \/ /\ r.state.mode = RACING
                    /\ ~Tells(r, LegBegins)
                    /\ r.state.leg = s.leg /\ r.state.finish_armed = s.finish_armed
                    /\ r.state.finish_side = seen
                    /\ \/ r.state.armed_leg = s.armed_leg
                       \/ s.leg <= last_leg(c) /\ Within(fix.at, mark, arming_radius)
                 \/ /\ r.state.mode = RACING
                    /\ r.state.leg = s.leg + 1 /\ r.state.armed_leg = None
                    /\ r.state.finish_side = IF r.state.finish_armed = s.finish_armed
                                             THEN seen ELSE None
                    /\ t >= s.suppress_until /\ s.armed_leg = s.leg
                    /\ fix.cog # None /\ Abaft(fix.at, mark, fix.cog)
  <1> DEFINE previous == s.previous_fix
             moved == [s EXCEPT !.previous_fix = fix.at]
             noted == note_finish_side(moved, fix.at)
             breached == check_breaches(noted, previous, fix.at)
             judged == Then(breached, check_finish(noted, previous, fix.at, t))
             tracked == IF previous = None THEN Unmoved(noted) ELSE judged
             seen == NotedSide(s, fix.at)
             r == on_fix(s, c, fix, ts, t)
  <1>1. fix.at \in Position
    BY RaceAppAssumption
  <1>2. /\ moved \in RaceState /\ moved.mode = s.mode /\ moved.course = s.course
        /\ moved.leg = s.leg /\ moved.armed_leg = s.armed_leg
        /\ moved.suppress_until = s.suppress_until
        /\ moved.finish_armed = s.finish_armed /\ moved.finish_side = s.finish_side
    BY <1>1 DEF RaceState
  <1>3. r = IF tracked.state.mode = FINISHED THEN tracked
            ELSE Then(tracked, check_rounding(tracked.state, c, fix, t))
    BY DEF on_fix, IDLE, PRESTART, RACING, FINISHED
  <1> HIDE DEF r, moved
  <1>4. /\ noted \in RaceState /\ noted.mode = s.mode /\ noted.course = s.course
        /\ noted.leg = s.leg /\ noted.armed_leg = s.armed_leg
        /\ noted.suppress_until = s.suppress_until
        /\ noted.finish_armed = s.finish_armed /\ noted.finish_side = seen
    <2>1. noted \in RaceState /\ noted = [moved EXCEPT !.finish_side = NotedSide(moved, fix.at)]
      BY <1>1, <1>2, NoteIs
    <2>2. NotedSide(moved, fix.at) = seen
      BY <1>2 DEF NotedSide
    <2> HIDE DEF noted, seen
    <2> QED BY <1>2, <2>1, <2>2 DEF RaceState
  <1> HIDE DEF noted, seen
  <1>5. /\ tracked \in Answer /\ ~Tells(tracked, LegBegins) /\ ~Tells(tracked, Arming)
        /\ \/ tracked.state = noted
           \/ /\ tracked.state = [noted EXCEPT !.mode = FINISHED, !.finished_at = t]
              /\ noted.finish_armed /\ noted.finish_side # None
              /\ CrossedLine(previous, fix.at)
              /\ FromSide(inner, outer, previous) = noted.finish_side
    <2>1. CASE previous = None
      BY <2>1, <1>4, OneEvent, Kinds
    <2>2. CASE previous # None
      <3> DEFINE f == check_finish(noted, previous, fix.at, t)
      <3>1. /\ breached \in Answer /\ breached.state = noted
            /\ ~Tells(breached, LegBegins) /\ ~Tells(breached, Arming)
        BY <1>4, BreachesAre
      <3>2. /\ f \in Answer /\ ~Tells(f, LegBegins) /\ ~Tells(f, Arming)
            /\ \/ f.state = noted
               \/ /\ f.state = [noted EXCEPT !.mode = FINISHED, !.finished_at = t]
                  /\ noted.finish_armed /\ noted.finish_side # None
                  /\ CrossedLine(previous, fix.at)
                  /\ FromSide(inner, outer, previous) = noted.finish_side
        <4> HIDE DEF noted, previous, breached, judged, tracked, f
        <4>1. f = check_finish(noted, previous, fix.at, t)
          BY DEF f
        <4>2. f \in Answer /\ ~Tells(f, LegBegins) /\ ~Tells(f, Arming)
          BY <1>4, <4>1, CheckFinishIs
        <4>3. f.state = noted \/ f.state = finish(noted, t).state
          BY <1>4, <4>1, CheckFinishIs
        <4>4. f.state # noted => /\ noted.finish_armed /\ noted.finish_side # None
                                 /\ CrossedLine(previous, fix.at)
                                 /\ FromSide(inner, outer, previous) = noted.finish_side
          BY <1>4, <4>1, CheckFinishIs
        <4>5. finish(noted, t).state = [noted EXCEPT !.mode = FINISHED, !.finished_at = t]
          BY <1>4, FinishIs
        <4> QED BY <4>2, <4>3, <4>4, <4>5
      <3>3. tracked = Then(breached, f)
        BY <2>2
      <3> HIDE DEF breached, f
      <3>4. /\ tracked \in Answer /\ tracked.state = f.state
            /\ ~Tells(tracked, LegBegins) /\ ~Tells(tracked, Arming)
        BY <3>1, <3>2, <3>3, ThenTells
      <3> QED BY <3>2, <3>4
    <2> QED BY <2>1, <2>2
  <1> HIDE DEF tracked, previous
  <1>6. CASE tracked.state.mode = FINISHED
    <2>1. tracked.state # noted
      BY <1>4, <1>6 DEF RACING, FINISHED
    <2>2. r = tracked
      BY <1>3, <1>6
    <2>3. tracked.state.leg = noted.leg /\ tracked.state.course = noted.course
      BY <1>4, <1>5, <2>1 DEF RaceState
    <2> QED BY <1>4, <1>5, <1>6, <2>1, <2>2, <2>3 DEF r, seen, previous
  <1>7. CASE tracked.state.mode # FINISHED
    <2> DEFINE q == check_rounding(noted, c, fix, t)
               mark == leg_target(c, s.leg)
    <2>1. tracked.state = noted
      BY <1>4, <1>5, <1>7 DEF RaceState
    <2>2. r = Then(tracked, q)
      BY <1>3, <1>7, <2>1
    <2>3. /\ q \in Answer /\ ~Tells(q, Arming)
          /\ q.state.mode = RACING /\ q.state.course = s.course
          /\ \/ /\ ~Tells(q, LegBegins)
                /\ q.state.leg = s.leg /\ q.state.finish_armed = s.finish_armed
                /\ q.state.finish_side = seen
                /\ \/ q.state.armed_leg = s.armed_leg
                   \/ s.leg <= last_leg(c) /\ Within(fix.at, mark, arming_radius)
             \/ /\ q.state.leg = s.leg + 1 /\ q.state.armed_leg = None
                /\ q.state.finish_side = IF q.state.finish_armed = s.finish_armed
                                         THEN seen ELSE None
                /\ t >= s.suppress_until /\ s.armed_leg = s.leg
                /\ fix.cog # None /\ Abaft(fix.at, mark, fix.cog)
      BY <1>4, RoundingIs
    <2> HIDE DEF q
    <2>4. /\ r \in Answer /\ r.state = q.state /\ ~Tells(r, Arming)
          /\ Tells(r, LegBegins) <=> Tells(q, LegBegins)
      BY <1>5, <2>2, <2>3, ThenTells
    <2> QED BY <2>3, <2>4 DEF r, seen
  <1> QED BY <1>6, <1>7

-----------------------------------------------------------------------------
(* Every step keeps the types                                              *)

\* What is stored of an answer
LEMMA ApplyTypeOK ==
    ASSUME TypeOK, NEW r \in Answer, Apply(r)
    PROVE  race' \in RaceState /\ approached' \in BOOLEAN /\ firstSide' \in {-1, 1, None}
  <1>1. race' \in RaceState
    BY DEF Apply, Answer
  <1>2. approached' \in BOOLEAN
    BY Zenon DEF Apply
  <1>3. firstSide' \in {-1, 1, None}
    BY DEF Apply, TypeOK
  <1> QED BY <1>1, <1>2, <1>3

\* A button keeps the types, if the engine answers it
LEMMA PressTypeOK ==
    ASSUME TypeOK, NEW r \in Answer, Press(r)
    PROVE  TypeOK'
  <1>1. race' \in RaceState /\ approached' \in BOOLEAN /\ firstSide' \in {-1, 1, None}
    BY ApplyTypeOK DEF Press
  <1> QED BY <1>1 DEF Press, TypeOK, choiceVars

\* What every button and every fix finds
LEMMA Found ==
    ASSUME TypeOK
    PROVE  /\ now \in Nat /\ race \in RaceState
           /\ context # None => context \in Course
           /\ \A evaluated \in now..MaxTime : evaluated \in Nat
  <1>1. MaxTime \in Nat
    BY RaceAppAssumption
  <1> QED BY <1>1 DEF TypeOK

\* Every button, and the poll, keep the types
LEMMA ButtonsTypeOK ==
    ASSUME TypeOK, Timer \/ Nudge \/ Advance \/ Shorten \/ Reset \/ Poll
    PROVE  TypeOK'
  <1>1. CASE Timer
    <2>1. PICK minutes \in Hooter \cup {None} : Press(set_timer(race, minutes, now))
      BY <1>1 DEF Timer
    <2>2. set_timer(race, minutes, now) \in Answer
      BY Found, TimerIs
    <2> QED BY <2>1, <2>2, PressTypeOK
  <1>2. CASE Nudge
    <2>1. PICK seconds \in NudgeStep : Press(nudge_timer(race, seconds))
      BY <1>2 DEF Nudge
    <2>2. nudge_timer(race, seconds) \in Answer
      BY Found, NudgeIs
    <2> QED BY <2>1, <2>2, PressTypeOK
  <1>3. CASE Advance
    <2>1. PICK dir \in {-1, 1} : context # None /\ Press(advance(race, context, dir, now))
      BY <1>3 DEF Advance
    <2>2. advance(race, context, dir, now) \in Answer
      BY <2>1, Found, AdvanceIs
    <2> QED BY <2>1, <2>2, PressTypeOK
  <1>4. CASE Shorten
    <2>1. shorten(race) \in Answer
      BY Found, ShortenIs
    <2> QED BY <1>4, <2>1, PressTypeOK DEF Shorten
  <1>5. CASE Reset
    <2>1. reset(race) \in Answer
      BY Found, ResetIs
    <2> QED BY <1>5, <2>1, PressTypeOK DEF Reset
  <1>6. CASE Poll
    <2>1. on_clock(race, context, now) \in Answer
      BY <1>6, Found, ClockIs DEF Poll
    <2>2. Press(on_clock(race, context, now))
      BY <1>6 DEF Poll, Press
    <2> QED BY <2>1, <2>2, PressTypeOK
  <1> QED BY <1>1, <1>2, <1>3, <1>4, <1>5, <1>6

\* The choice of a course keeps the types
LEMMA ChoosingTypeOK ==
    ASSUME TypeOK, NEW d \in Device, NEW c \in Course,
           Choose(d, c) \/ ChooseContext(d) \/ ChooseSelect(d)
    PROVE  TypeOK'
  <1>1. CASE Choose(d, c)
    <2>1. race' \in RaceState /\ approached' \in BOOLEAN /\ firstSide' \in {-1, 1, None}
      <3>1. CASE UNCHANGED engineVars
        BY <3>1 DEF engineVars, TypeOK
      <3>2. CASE Apply(reset(race))
        <4>1. reset(race) \in Answer
          BY Found, ResetIs
        <4> QED BY <3>2, <4>1, ApplyTypeOK
      <3> QED BY <1>1, <3>1, <3>2 DEF Choose
    <2> QED BY <1>1, <2>1 DEF Choose, TypeOK
  <1>2. CASE ChooseContext(d)
    BY <1>2 DEF ChooseContext, TypeOK, engineVars
  <1>3. CASE ChooseSelect(d)
    <2>1. select(race, want[d]) \in Answer
      BY <1>3, Found, SelectIs DEF ChooseSelect, TypeOK
    <2>2. race' \in RaceState /\ approached' \in BOOLEAN /\ firstSide' \in {-1, 1, None}
      BY <1>3, <2>1, ApplyTypeOK DEF ChooseSelect
    <2> QED BY <1>3, <2>2 DEF ChooseSelect, TypeOK
  <1> QED BY <1>1, <1>2, <1>3

\* A fix in two halves: the clock first, then the fix
Started(evaluated) == on_clock(race, context, evaluated)
Moved(fix, evaluated) == on_fix(Started(evaluated).state, context, fix, now, evaluated)

\* What a fix makes of a race: it may start it, and then moves it
LEMMA FixIs ==
    ASSUME TypeOK, context # None,
           NEW fix \in Fixes, NEW evaluated \in now..MaxTime, Fix(fix, evaluated)
    PROVE  LET started == Started(evaluated)
               moved == Moved(fix, evaluated)
               r == Then(started, moved)
               usable == evaluated - now <= position_stale
           IN /\ started \in Answer /\ moved \in Answer /\ r \in Answer
              /\ r.state = moved.state /\ race' = moved.state /\ now' = evaluated
              /\ Tells(r, Arming) <=> Tells(started, Arming) \/ Tells(moved, Arming)
              /\ approached' = /\ ~Tells(moved, LegBegins) /\ race'.mode = RACING
                               /\ \/ approached /\ ~Tells(started, LegBegins)
                                  \/ usable /\ Approaches(started.state, fix)
              /\ firstSide' = CASE Arms(r) \/ ~FinishWatched(race') -> None
                                [] ~Arms(r) /\ FinishWatched(race') /\ usable
                                     /\ firstSide = None -> Seen(fix.at)
                                [] OTHER -> firstSide
  <1> DEFINE started == Started(evaluated)
             moved == Moved(fix, evaluated)
             r == Then(started, moved)
  <1>1. started \in Answer
    BY Found, ClockIs DEF Started
  <1> DEFINE s == started.state
  <1>2. s \in RaceState
    BY <1>1 DEF Answer
  <1>3. moved = on_fix(s, context, fix, now, evaluated)
    BY DEF Moved
  <1> HIDE DEF started, moved, s
  <1>4. moved \in Answer
    <2>1. CASE s.mode # RACING \/ evaluated - now > position_stale
      BY <1>2, <1>3, <2>1, Found, IdleFixIs
    <2>2. CASE s.mode = RACING /\ ~(evaluated - now > position_stale)
      <3>1. evaluated - now <= position_stale
        BY <2>2, Found, RaceSettingsAssumption
      <3> QED BY <1>2, <1>3, <2>2, <3>1, Found, RacingFixIs
    <2> QED BY <2>1, <2>2
  <1>5. /\ r \in Answer /\ r.state = moved.state
        /\ Tells(r, Arming) <=> Tells(started, Arming) \/ Tells(moved, Arming)
    BY <1>1, <1>4, ThenTells
  <1>6. /\ BeginsLeg(started) <=> Tells(started, LegBegins)
        /\ BeginsLeg(moved) <=> Tells(moved, LegBegins)
    BY <1>1, <1>4, HistoryTells
  <1>7. /\ now' = evaluated /\ race' = r.state
        /\ approached' = /\ ~BeginsLeg(moved) /\ r.state.mode = RACING
                         /\ \/ approached /\ ~BeginsLeg(started)
                            \/ evaluated - now <= position_stale /\ Approaches(started.state, fix)
        /\ firstSide' = CASE Arms(r) \/ ~FinishWatched(r.state) -> None
                          [] ~Arms(r) /\ FinishWatched(r.state) /\ evaluated - now <= position_stale
                               /\ firstSide = None -> Seen(fix.at)
                          [] OTHER -> firstSide
    BY DEF Fix, Started, Moved, started, moved
  <1> HIDE DEF r
  <1>8. approached' = /\ ~Tells(moved, LegBegins) /\ race'.mode = RACING
                      /\ \/ approached /\ ~Tells(started, LegBegins)
                         \/ evaluated - now <= position_stale /\ Approaches(started.state, fix)
    BY <1>6, <1>7
  <1>9. firstSide' = CASE Arms(r) \/ ~FinishWatched(race') -> None
                       [] ~Arms(r) /\ FinishWatched(race') /\ evaluated - now <= position_stale
                            /\ firstSide = None -> Seen(fix.at)
                       [] OTHER -> firstSide
    BY <1>7
  <1> QED BY <1>1, <1>4, <1>5, <1>7, <1>8, <1>9 DEF r, started, moved

\* A fix keeps the types
LEMMA OnPositionTypeOK ==
    ASSUME TypeOK, OnPosition
    PROVE  TypeOK'
  <1>1. PICK fix \in Fixes, evaluated \in now..MaxTime : Fix(fix, evaluated)
    BY DEF OnPosition
  <1>2. now' \in 0..MaxTime /\ fixAt' \in Nat \cup {None} /\ UNCHANGED <<context, choiceVars>>
    <2>1. now' = evaluated /\ UNCHANGED <<context, choiceVars>> /\ fixAt' \in {fixAt, now, None}
      BY <1>1 DEF Fix
    <2> QED BY <2>1, Found DEF TypeOK
  <1>3. race' \in RaceState /\ approached' \in BOOLEAN /\ firstSide' \in {-1, 1, None}
    <2>1. CASE context = None
      BY <1>1, <2>1 DEF Fix, engineVars, TypeOK
    <2>2. CASE context # None
      <3> DEFINE started == Started(evaluated)
                 moved == Moved(fix, evaluated)
      <3>1. moved \in Answer /\ race' = moved.state
        BY <1>1, <2>2, FixIs
      <3>2. approached' = /\ ~Tells(moved, LegBegins) /\ race'.mode = RACING
                          /\ \/ approached /\ ~Tells(started, LegBegins)
                             \/ evaluated - now <= position_stale
                                  /\ Approaches(started.state, fix)
        BY <1>1, <2>2, FixIs
      <3>3. firstSide' \in {None, Seen(fix.at), firstSide}
        BY <1>1, <2>2, FixIs
      <3>4. fix.at \in Position
        BY RaceAppAssumption
      <3> HIDE DEF started, moved
      <3>5. race' \in RaceState
        BY <3>1 DEF Answer
      <3>6. approached' \in BOOLEAN
        BY <3>2, Zenon
      <3>7. firstSide' \in {-1, 1, None}
        BY <3>3, <3>4, SideIs DEF TypeOK
      <3> QED BY <3>5, <3>6, <3>7
    <2> QED BY <2>1, <2>2
  <1> QED BY <1>2, <1>3 DEF TypeOK, choiceVars

\* Every step keeps the types
LEMMA TypeOKNext ==
    ASSUME TypeOK, [Next]_vars
    PROVE  TypeOK'
  <1>1. CASE Timer \/ Nudge \/ Advance \/ Shorten \/ Reset \/ Poll
    BY <1>1, ButtonsTypeOK
  <1>2. ASSUME NEW d \in Device,
               (\E c \in Course : Choose(d, c)) \/ ChooseContext(d) \/ ChooseSelect(d)
        PROVE  TypeOK'
    <2>1. CASE \E c \in Course : Choose(d, c)
      BY <2>1, ChoosingTypeOK
    <2>2. CASE ChooseContext(d) \/ ChooseSelect(d)
      <3>1. want[d] \in Course
        BY <2>2 DEF ChooseContext, ChooseSelect, TypeOK
      <3> QED BY <2>2, <3>1, ChoosingTypeOK
    <2> QED BY <1>2, <2>1, <2>2
  <1>3. CASE OnPosition
    BY <1>3, OnPositionTypeOK
  <1>4. CASE Tick
    <2>1. now' \in 0..MaxTime
      BY <1>4, RaceAppAssumption DEF Tick, TypeOK
    <2> QED BY <1>4, <2>1 DEF Tick, TypeOK, engineVars, choiceVars
  <1>5. CASE UNCHANGED vars
    BY <1>5 DEF TypeOK, vars, engineVars, choiceVars
  <1> QED BY <1>1, <1>2, <1>3, <1>4, <1>5 DEF Next

\* The variables of the race keep their types
THEOREM RaceTypeOK == Spec => []TypeOK
  <1>1. Init => TypeOK
    <2> SUFFICES ASSUME Init PROVE TypeOK
      OBVIOUS
    <2>1. 0 \in 0..MaxTime
      BY RaceAppAssumption
    <2> QED BY <2>1, InitialIs DEF Init, TypeOK
  <1>2. TypeOK /\ [Next]_vars => TypeOK'
    BY TypeOKNext
  <1> QED BY <1>1, <1>2, PTL DEF Spec

-----------------------------------------------------------------------------
(* The choice of a course                                                  *)

\* While the last choice began with none under way, it is the only one, and what
\* it has put in is there
ChoiceInv ==
    chosen # None =>
        /\ \A d, e \in Device : pc[d] # "free" /\ pc[e] # "free" => d = e
        /\ \A d \in Device : pc[d] # "free" => want[d] = chosen
        /\ \A d \in Device : pc[d] = "select" => context = chosen
        /\ (\A d \in Device : pc[d] = "free") => race.course = chosen /\ context = chosen

\* Nothing but the choice of a course changes it
LEMMA CourseStays ==
    ASSUME TypeOK, Timer \/ Nudge \/ Advance \/ Shorten \/ Reset \/ Poll \/ OnPosition \/ Tick
    PROVE  race'.course = race.course /\ UNCHANGED <<context, pc, want, chosen>>
  <1>1. ASSUME NEW r, r.state.course = race.course, Press(r)
        PROVE  race'.course = race.course /\ UNCHANGED <<context, pc, want, chosen>>
    BY <1>1 DEF Press, Apply, choiceVars
  <1>2. CASE Timer
    <2>1. PICK minutes \in Hooter \cup {None} : Press(set_timer(race, minutes, now))
      BY <1>2 DEF Timer
    <2>2. set_timer(race, minutes, now).state.course = race.course
      BY Found, TimerIs
    <2> QED BY <1>1, <2>1, <2>2
  <1>3. CASE Nudge
    <2>1. PICK seconds \in NudgeStep : Press(nudge_timer(race, seconds))
      BY <1>3 DEF Nudge
    <2> DEFINE r == nudge_timer(race, seconds)
    <2>2. r.state = [race EXCEPT !.start_at = r.state.start_at]
      BY Found, NudgeIs
    <2> HIDE DEF r
    <2>3. r.state.course = race.course
      BY <2>2, Found DEF RaceState
    <2> QED BY <1>1, <2>1, <2>3 DEF r
  <1>4. CASE Advance
    <2>1. PICK dir \in {-1, 1} : context # None /\ Press(advance(race, context, dir, now))
      BY <1>4 DEF Advance
    <2>2. advance(race, context, dir, now).state.course = race.course
      BY <2>1, Found, AdvanceIs
    <2> QED BY <1>1, <2>1, <2>2
  <1>5. CASE Shorten
    <2> DEFINE r == shorten(race)
    <2>1. \/ r = Unmoved(race)
          \/ r.state = [race EXCEPT !.shortened = TRUE, !.finish_armed = TRUE,
                                    !.finish_side = None]
      BY Found, ShortenIs
    <2>2. Unmoved(race).state = race
      BY DEF Unmoved, Result
    <2> HIDE DEF r
    <2>3. r.state.course = race.course
      BY <2>1, <2>2, Found DEF RaceState
    <2> QED BY <1>1, <1>5, <2>3 DEF r, Shorten
  <1>6. CASE Reset
    <2>1. reset(race).state.course = race.course
      BY Found, ResetIs
    <2> QED BY <1>1, <1>6, <2>1 DEF Reset
  <1>7. CASE Poll
    <2>1. on_clock(race, context, now).state.course = race.course
      BY <1>7, Found, ClockIs DEF Poll
    <2> QED BY <1>7, <2>1 DEF Poll, Apply, choiceVars
  <1>8. CASE OnPosition
    <2>1. PICK fix \in Fixes, evaluated \in now..MaxTime : Fix(fix, evaluated)
      BY <1>8 DEF OnPosition
    <2>2. UNCHANGED <<context, pc, want, chosen>>
      BY <2>1 DEF Fix, choiceVars
    <2>3. CASE context = None
      BY <2>1, <2>2, <2>3 DEF Fix, engineVars
    <2>4. CASE context # None
      <3> DEFINE s == Started(evaluated).state
                 r == on_fix(s, context, fix, now, evaluated)
      <3>1. s \in RaceState /\ s.course = race.course
        BY <2>4, Found, ClockIs DEF Started, Answer
      <3>2. race' = r.state
        BY <2>1, <2>4, FixIs DEF Moved
      <3> HIDE DEF s
      <3>3. r.state.course = s.course
        <4>1. CASE s.mode # RACING \/ evaluated - now > position_stale
          <5>1. r.state = [s EXCEPT !.previous_fix = r.state.previous_fix]
            BY <2>4, <3>1, <4>1, Found, IdleFixIs
          <5> HIDE DEF r
          <5> QED BY <3>1, <5>1 DEF RaceState
        <4>2. CASE s.mode = RACING /\ ~(evaluated - now > position_stale)
          <5>1. evaluated - now <= position_stale
            BY <4>2, Found, RaceSettingsAssumption
          <5> QED BY <2>4, <3>1, <4>2, <5>1, Found, RacingFixIs
        <4> QED BY <4>1, <4>2
      <3> HIDE DEF r
      <3> QED BY <2>2, <3>1, <3>2, <3>3
    <2> QED BY <2>3, <2>4
  <1>9. CASE Tick
    BY <1>9 DEF Tick, engineVars, choiceVars
  <1> QED BY <1>2, <1>3, <1>4, <1>5, <1>6, <1>7, <1>8, <1>9

\* Every step keeps what is known of the choice
LEMMA ChoiceNext ==
    ASSUME TypeOK, ChoiceInv, [Next]_vars
    PROVE  ChoiceInv'
  <1>1. ASSUME race'.course = race.course, UNCHANGED <<context, pc, want, chosen>>
        PROVE  ChoiceInv'
    BY <1>1 DEF ChoiceInv
  <1>2. CASE Timer \/ Nudge \/ Advance \/ Shorten \/ Reset \/ Poll \/ OnPosition \/ Tick
    BY <1>1, <1>2, CourseStays
  <1>3. ASSUME NEW d \in Device, NEW c \in Course, Choose(d, c)
        PROVE  ChoiceInv'
    <2> SUFFICES ASSUME chosen' # None PROVE ChoiceInv'
      BY DEF ChoiceInv
    <2>1. /\ \A e \in Device : pc[e] = "free"
          /\ chosen' = c
          /\ pc' = [pc EXCEPT ![d] = "context"] /\ want' = [want EXCEPT ![d] = c]
      BY <1>3 DEF Choose
    <2>2. /\ pc \in [Device -> {"free", "context", "select"}]
          /\ want \in [Device -> Course \cup {None}]
      BY DEF TypeOK
    <2> QED BY <2>1, <2>2 DEF ChoiceInv
  <1>4. ASSUME NEW d \in Device, ChooseContext(d)
        PROVE  ChoiceInv'
    <2> SUFFICES ASSUME chosen' # None PROVE ChoiceInv'
      BY DEF ChoiceInv
    <2>1. /\ pc[d] = "context" /\ context' = want[d]
          /\ pc' = [pc EXCEPT ![d] = "select"] /\ UNCHANGED <<race, want, chosen>>
      BY <1>4 DEF ChooseContext, engineVars
    <2>2. pc \in [Device -> {"free", "context", "select"}]
      BY DEF TypeOK
    <2> QED BY <2>1, <2>2 DEF ChoiceInv
  <1>5. ASSUME NEW d \in Device, ChooseSelect(d)
        PROVE  ChoiceInv'
    <2> SUFFICES ASSUME chosen' # None PROVE ChoiceInv'
      BY DEF ChoiceInv
    <2>1. /\ pc[d] = "select" /\ want[d] = chosen /\ context = chosen
          /\ \A e \in Device : pc[e] # "free" => e = d
          /\ pc' = [pc EXCEPT ![d] = "free"] /\ want' = [want EXCEPT ![d] = None]
          /\ UNCHANGED <<context, chosen>>
      BY <1>5 DEF ChooseSelect, ChoiceInv
    <2>2. /\ pc \in [Device -> {"free", "context", "select"}]
          /\ want \in [Device -> Course \cup {None}] /\ want[d] \in Course
      BY <2>1 DEF TypeOK
    <2>3. race'.course = want[d]
      BY <1>5, <2>2, Found, SelectIs DEF ChooseSelect, Apply
    <2> QED BY <2>1, <2>2, <2>3 DEF ChoiceInv
  <1>6. CASE UNCHANGED vars
    BY <1>1, <1>6 DEF vars, engineVars, choiceVars
  <1> QED BY <1>2, <1>3, <1>4, <1>5, <1>6 DEF Next

\* While a race is on, the course it is steered by is the one that was chosen
THEOREM CourseChosen == Spec => []CourseIsTheOneChosen
  <1>1. Init => ChoiceInv
    BY DEF Init, ChoiceInv
  <1>2. TypeOK /\ ChoiceInv /\ [Next]_vars => ChoiceInv'
    BY ChoiceNext
  <1>3. ChoiceInv => CourseIsTheOneChosen
    BY DEF ChoiceInv, CourseIsTheOneChosen
  <1> QED BY <1>1, <1>2, <1>3, RaceTypeOK, PTL DEF Spec

-----------------------------------------------------------------------------
(* Legs and races end by what the boat did                                 *)

\* In a race, the mark of a leg is only taken for rounded after an approach on it
ApproachIsKnown == race.mode = RACING /\ race.armed_leg = race.leg => approached

\* The two that every step keeps together
RaceInv == FinishSideIsFresh /\ ApproachIsKnown

\* What keeps the two: the leg goes on with what was known of it and of the finish,
\* or what was known is gone
LEMMA ApplyInv ==
    ASSUME TypeOK, RaceInv, NEW r \in Answer, Apply(r),
           r.state.mode = RACING =>
             /\ \/ race.mode = RACING /\ r.state.leg = race.leg
                     /\ r.state.armed_leg = race.armed_leg /\ ~Tells(r, LegBegins)
                \/ r.state.armed_leg = None
             /\ \/ ~r.state.finish_armed \/ (r.state.finish_side = None /\ Arms(r))
                \/ /\ race.mode = RACING /\ ~Tells(r, Arming)
                   /\ r.state.finish_side = IF r.state.finish_armed = race.finish_armed
                                            THEN race.finish_side ELSE None
    PROVE  RaceInv'
  <1>1. /\ race' = r.state
        /\ BeginsLeg(r) <=> Tells(r, LegBegins)
        /\ Arms(r) <=> (race'.finish_armed /\ ~race.finish_armed) \/ Tells(r, Arming)
    BY HistoryTells DEF Apply
  <1>2. approached' = (approached /\ ~Tells(r, LegBegins) /\ race'.mode = RACING)
    BY <1>1 DEF Apply
  <1>3. firstSide' = IF Arms(r) \/ ~FinishWatched(race') THEN None ELSE firstSide
    BY <1>1 DEF Apply
  <1>4. race' \in RaceState
    BY <1>1 DEF Answer
  <1>5. ApproachIsKnown'
    <2> SUFFICES ASSUME race'.mode = RACING, race'.armed_leg = race'.leg PROVE approached'
      BY DEF ApproachIsKnown
    <2>1. race'.leg # None
      BY <1>4, RaceAppAssumption DEF RaceState
    <2>2. /\ race.mode = RACING /\ race.armed_leg = race.leg /\ ~Tells(r, LegBegins)
      BY <1>1, <2>1
    <2> QED BY <1>2, <2>2 DEF RaceInv, ApproachIsKnown
  <1>6. FinishSideIsFresh'
    <2> SUFFICES ASSUME race'.mode = RACING, race'.finish_armed
                 PROVE  race'.finish_side = firstSide'
      BY DEF FinishSideIsFresh
    <2>1. FinishWatched(race')
      BY DEF FinishWatched
    <2>2. CASE Arms(r) /\ race'.finish_side = None
      BY <1>3, <2>2
    <2>3. CASE /\ race.mode = RACING /\ ~Tells(r, Arming)
               /\ race'.finish_side = IF race'.finish_armed = race.finish_armed
                                      THEN race.finish_side ELSE None
      <3>1. CASE race.finish_armed
        <4>1. ~Arms(r) /\ race'.finish_side = race.finish_side
          BY <1>1, <1>4, <2>3, <3>1, Found DEF RaceState
        <4> QED BY <1>3, <2>1, <2>3, <3>1, <4>1 DEF RaceInv, FinishSideIsFresh
      <3>2. CASE ~race.finish_armed
        BY <1>1, <1>3, <2>3, <3>2
      <3> QED BY <3>1, <3>2
    <2> QED BY <1>1, <2>2, <2>3
  <1> QED BY <1>5, <1>6 DEF RaceInv

\* Nothing said is nothing changed
LEMMA UnmovedInv ==
    ASSUME TypeOK, RaceInv, Apply(Unmoved(race))
    PROVE  RaceInv'
  <1> DEFINE r == Unmoved(race)
  <1>1. r \in Answer /\ r.state = race /\ ~Tells(r, LegBegins) /\ ~Tells(r, Arming)
    BY Found, OneEvent, Kinds
  <1>2. Apply(r)
    OBVIOUS
  <1> HIDE DEF r
  <1> QED BY <1>1, <1>2, ApplyInv

\* The clock, when a page polls
LEMMA ClockInv ==
    ASSUME TypeOK, RaceInv, context # None, Apply(on_clock(race, context, now))
    PROVE  RaceInv'
  <1> DEFINE r == on_clock(race, context, now)
  <1>1. /\ r \in Answer
        /\ \/ r = Unmoved(race)
           \/ r.state.armed_leg = None /\ ~r.state.finish_armed
    BY Found, ClockIs
  <1>2. Apply(r)
    OBVIOUS
  <1> HIDE DEF r
  <1>3. CASE r = Unmoved(race)
    BY <1>2, <1>3, UnmovedInv
  <1>4. CASE r.state.armed_leg = None /\ ~r.state.finish_armed
    <2>1. r.state.mode = RACING =>
            /\ \/ race.mode = RACING /\ r.state.leg = race.leg
                    /\ r.state.armed_leg = race.armed_leg /\ ~Tells(r, LegBegins)
               \/ r.state.armed_leg = None
            /\ \/ ~r.state.finish_armed \/ (r.state.finish_side = None /\ Arms(r))
               \/ /\ race.mode = RACING /\ ~Tells(r, Arming)
                  /\ r.state.finish_side = IF r.state.finish_armed = race.finish_armed
                                           THEN race.finish_side ELSE None
      BY <1>4, Zenon
    <2> QED BY <1>1, <1>2, <2>1, ApplyInv
  <1> QED BY <1>1, <1>3, <1>4

\* The buttons keep the two: what moves the leg forgets the approach, what arms the
\* finish forgets the side
LEMMA ButtonsInv ==
    ASSUME TypeOK, RaceInv, Timer \/ Nudge \/ Advance \/ Shorten \/ Reset \/ Poll
    PROVE  RaceInv'
  <1>1. CASE Timer
    <2>1. PICK minutes \in Hooter \cup {None} : Press(set_timer(race, minutes, now))
      BY <1>1 DEF Timer
    <2> DEFINE r == set_timer(race, minutes, now)
    <2>2. r \in Answer /\ r.state.mode \in {IDLE, PRESTART}
      BY Found, TimerIs
    <2>3. Apply(r)
      BY <2>1 DEF Press
    <2> HIDE DEF r
    <2>4. r.state.mode # RACING
      BY <2>2 DEF IDLE, PRESTART, RACING
    <2> QED BY <2>2, <2>3, <2>4, ApplyInv
  <1>2. CASE Nudge
    <2>1. PICK seconds \in NudgeStep : Press(nudge_timer(race, seconds))
      BY <1>2 DEF Nudge
    <2> DEFINE r == nudge_timer(race, seconds)
    <2>2. /\ r \in Answer /\ ~Tells(r, LegBegins) /\ ~Tells(r, Arming)
          /\ r.state = [race EXCEPT !.start_at = r.state.start_at]
      BY Found, NudgeIs
    <2>3. Apply(r)
      BY <2>1 DEF Press
    <2> HIDE DEF r
    <2>4. /\ r.state.mode = race.mode /\ r.state.leg = race.leg
          /\ r.state.armed_leg = race.armed_leg /\ r.state.finish_side = race.finish_side
          /\ r.state.finish_armed = race.finish_armed
      BY <2>2, Found DEF RaceState
    <2> QED BY <2>2, <2>3, <2>4, ApplyInv
  <1>3. CASE Advance
    <2>1. PICK dir \in {-1, 1} : context # None /\ Press(advance(race, context, dir, now))
      BY <1>3 DEF Advance
    <2> DEFINE r == advance(race, context, dir, now)
    <2>2. r \in Answer
      BY <2>1, Found, AdvanceIs
    <2>3. \/ r = Unmoved(race)
          \/ r.state.mode = FINISHED
          \/ /\ r.state.mode = race.mode /\ r.state.armed_leg = None
             /\ r.state.finish_side = IF r.state.finish_armed = race.finish_armed
                                      THEN race.finish_side ELSE None
             /\ ~Tells(r, Arming)
      BY <2>1, Found, AdvanceIs
    <2>4. Apply(r)
      BY <2>1 DEF Press
    <2> HIDE DEF r
    <2>5. CASE r = Unmoved(race)
      BY <2>4, <2>5, UnmovedInv
    <2>6. CASE r.state.mode = FINISHED
      <3>1. r.state.mode # RACING
        BY <2>6 DEF RACING, FINISHED
      <3> QED BY <2>2, <2>4, <3>1, ApplyInv
    <2>7. CASE /\ r.state.mode = race.mode /\ r.state.armed_leg = None
               /\ r.state.finish_side = IF r.state.finish_armed = race.finish_armed
                                        THEN race.finish_side ELSE None
               /\ ~Tells(r, Arming)
      BY <2>2, <2>4, <2>7, ApplyInv
    <2> QED BY <2>3, <2>5, <2>6, <2>7
  <1>4. CASE Shorten
    <2> DEFINE r == shorten(race)
    <2>1. /\ r \in Answer
          /\ \/ r = Unmoved(race)
             \/ /\ r.state = [race EXCEPT !.shortened = TRUE, !.finish_armed = TRUE,
                                          !.finish_side = None]
                /\ ~Tells(r, LegBegins) /\ Tells(r, Arming)
      BY Found, ShortenIs
    <2>2. Apply(r)
      BY <1>4 DEF Shorten, Press
    <2> HIDE DEF r
    <2>3. CASE r = Unmoved(race)
      BY <2>2, <2>3, UnmovedInv
    <2>4. CASE /\ r.state = [race EXCEPT !.shortened = TRUE, !.finish_armed = TRUE,
                                         !.finish_side = None]
               /\ ~Tells(r, LegBegins) /\ Tells(r, Arming)
      <3>1. /\ r.state.mode = race.mode /\ r.state.leg = race.leg
            /\ r.state.armed_leg = race.armed_leg /\ r.state.finish_side = None
        BY <2>4, Found DEF RaceState
      <3>2. Arms(r)
        BY <2>1, <2>4, HistoryTells
      <3> QED BY <2>1, <2>2, <2>4, <3>1, <3>2, ApplyInv
    <2> QED BY <2>1, <2>3, <2>4
  <1>5. CASE Reset
    <2> DEFINE r == reset(race)
    <2>1. r \in Answer /\ r.state.mode # RACING
      BY Found, ResetIs DEF IDLE, RACING
    <2>2. Apply(r)
      BY <1>5 DEF Reset, Press
    <2> HIDE DEF r
    <2> QED BY <2>1, <2>2, ApplyInv
  <1>6. CASE Poll
    BY <1>6, ClockInv DEF Poll
  <1> QED BY <1>1, <1>2, <1>3, <1>4, <1>5, <1>6

\* The choice of a course keeps the two, since no race is on after it
LEMMA ChoosingInv ==
    ASSUME TypeOK, RaceInv, NEW d \in Device, NEW c \in Course,
           Choose(d, c) \/ ChooseContext(d) \/ ChooseSelect(d)
    PROVE  RaceInv'
  <1>1. CASE UNCHANGED engineVars
    BY <1>1 DEF engineVars, RaceInv, FinishSideIsFresh, ApproachIsKnown
  <1>2. CASE Apply(reset(race))
    <2> DEFINE r == reset(race)
    <2>1. r \in Answer /\ r.state.mode # RACING
      BY Found, ResetIs DEF IDLE, RACING
    <2>2. Apply(r)
      BY <1>2
    <2> HIDE DEF r
    <2> QED BY <2>1, <2>2, ApplyInv
  <1>3. CASE ChooseSelect(d)
    <2> DEFINE r == select(race, want[d])
    <2>1. want[d] \in Course
      BY <1>3 DEF ChooseSelect, TypeOK
    <2>2. r \in Answer /\ r.state.mode # RACING
      BY <2>1, Found, SelectIs DEF PRESTART, RACING
    <2>3. Apply(r)
      BY <1>3 DEF ChooseSelect
    <2> HIDE DEF r
    <2> QED BY <2>2, <2>3, ApplyInv
  <1> QED BY <1>1, <1>2, <1>3 DEF Choose, ChooseContext

\* What a fix finds when a race is on after it: it was on before, and nothing was
\* said, or it has started by the clock, and nothing is known yet
LEMMA StartedIs ==
    ASSUME TypeOK, context # None, NEW evaluated \in now..MaxTime
    PROVE  LET started == Started(evaluated)
               s == started.state
           IN /\ s \in RaceState
              /\ \/ s = race /\ ~Tells(started, LegBegins) /\ ~Tells(started, Arming)
                 \/ /\ race.mode = PRESTART /\ s.armed_leg = None /\ ~s.finish_armed
                    /\ Tells(started, Arming)
  <1> DEFINE started == Started(evaluated)
  <1>1. /\ started \in Answer
        /\ \/ started = Unmoved(race)
           \/ /\ race.mode = PRESTART /\ started.state.armed_leg = None
              /\ ~started.state.finish_armed /\ Tells(started, Arming)
    BY Found, ClockIs DEF Started
  <1>2. LET u == Unmoved(race)
        IN u.state = race /\ ~Tells(u, LegBegins) /\ ~Tells(u, Arming)
    BY Found, OneEvent, Kinds
  <1> HIDE DEF started
  <1>3. started.state \in RaceState
    BY <1>1 DEF Answer
  <1> QED BY <1>1, <1>2, <1>3 DEF started

\* What a fix leaves when a race is on after it
LEMMA MovedIs ==
    ASSUME TypeOK, context # None,
           NEW fix \in Fixes, NEW evaluated \in now..MaxTime, Fix(fix, evaluated),
           race'.mode = RACING
    PROVE  LET moved == Moved(fix, evaluated)
               s == Started(evaluated).state
               usable == evaluated - now <= position_stale
               seen == IF usable THEN NotedSide(s, fix.at) ELSE s.finish_side
           IN /\ race' \in RaceState /\ s.mode = RACING /\ ~Tells(moved, Arming)
              /\ \/ /\ ~Tells(moved, LegBegins) /\ race'.leg = s.leg
                    /\ race'.armed_leg = s.armed_leg \/ (usable /\ Approaches(s, fix))
                 \/ race'.armed_leg = None
              /\ race'.finish_side = IF race'.finish_armed = s.finish_armed
                                     THEN seen ELSE None
  <1> DEFINE moved == Moved(fix, evaluated)
             s == Started(evaluated).state
             usable == evaluated - now <= position_stale
             seen == IF usable THEN NotedSide(s, fix.at) ELSE s.finish_side
  <1>1. s \in RaceState
    BY StartedIs
  <1>2. moved \in Answer /\ race' = moved.state
    BY FixIs
  <1>3. moved = on_fix(s, context, fix, now, evaluated)
    BY DEF Moved
  <1> HIDE DEF s, moved
  <1>4. race' \in RaceState
    BY <1>2 DEF Answer
  <1>5. CASE s.mode # RACING \/ ~usable
    <2>1. s.mode # RACING \/ evaluated - now > position_stale
      BY <1>5, Found, RaceSettingsAssumption
    <2>2. /\ ~Tells(moved, LegBegins) /\ ~Tells(moved, Arming)
          /\ race' = [s EXCEPT !.previous_fix = race'.previous_fix]
      BY <1>1, <1>2, <1>3, <2>1, Found, IdleFixIs
    <2>3. /\ race'.mode = s.mode /\ race'.leg = s.leg /\ race'.armed_leg = s.armed_leg
          /\ race'.finish_armed = s.finish_armed /\ race'.finish_side = s.finish_side
      BY <1>1, <2>2 DEF RaceState
    <2>4. ~usable
      BY <1>5, <2>3
    <2>5. s.mode = RACING /\ race'.finish_side = IF race'.finish_armed = s.finish_armed
                                                 THEN seen ELSE None
      BY <2>3, <2>4
    <2> HIDE DEF seen
    <2> QED BY <1>4, <2>2, <2>3, <2>5 DEF s, moved, seen
  <1>6. CASE s.mode = RACING /\ usable
    <2>1. ~Tells(moved, Arming)
      BY <1>1, <1>3, <1>6, Found, RacingFixIs
    <2>2. \/ /\ ~Tells(moved, LegBegins) /\ race'.leg = s.leg
             /\ race'.finish_armed = s.finish_armed
             /\ race'.finish_side = NotedSide(s, fix.at)
             /\ \/ race'.armed_leg = s.armed_leg
                \/ /\ s.leg <= last_leg(context)
                   /\ Within(fix.at, leg_target(context, s.leg), arming_radius)
          \/ /\ race'.armed_leg = None
             /\ race'.finish_side = IF race'.finish_armed = s.finish_armed
                                    THEN NotedSide(s, fix.at) ELSE None
      <3>1. race'.mode # FINISHED
        BY DEF RACING, FINISHED
      <3> QED BY <1>1, <1>2, <1>3, <1>6, <3>1, Found, RacingFixIs
    <2>3. /\ \/ /\ ~Tells(moved, LegBegins) /\ race'.leg = s.leg
                /\ race'.armed_leg = s.armed_leg \/ (usable /\ Approaches(s, fix))
             \/ race'.armed_leg = None
      BY <1>6, <2>2 DEF Approaches
    <2>4. race'.finish_side = IF race'.finish_armed = s.finish_armed THEN seen ELSE None
      BY <1>6, <2>2
    <2> HIDE DEF seen
    <2> QED BY <1>4, <1>6, <2>1, <2>3, <2>4 DEF s, moved, seen
  <1> QED BY <1>5, <1>6

\* A fix keeps the two
LEMMA OnPositionInv ==
    ASSUME TypeOK, RaceInv, OnPosition
    PROVE  RaceInv'
  <1>1. PICK fix \in Fixes, evaluated \in now..MaxTime : Fix(fix, evaluated)
    BY DEF OnPosition
  <1>2. CASE context = None
    BY <1>1, <1>2 DEF Fix, engineVars, RaceInv, FinishSideIsFresh, ApproachIsKnown
  <1>3. CASE context # None /\ race'.mode # RACING
    BY <1>3 DEF RaceInv, FinishSideIsFresh, ApproachIsKnown
  <1>4. CASE context # None /\ race'.mode = RACING
    <2> DEFINE started == Started(evaluated)
               moved == Moved(fix, evaluated)
               r == Then(started, moved)
               s == started.state
               usable == evaluated - now <= position_stale
    <2>1. /\ s \in RaceState
          /\ \/ s = race /\ ~Tells(started, LegBegins) /\ ~Tells(started, Arming)
             \/ /\ race.mode = PRESTART /\ s.armed_leg = None /\ ~s.finish_armed
                /\ Tells(started, Arming)
      BY <1>4, StartedIs
    <2>2. /\ race' \in RaceState /\ s.mode = RACING /\ ~Tells(moved, Arming)
          /\ \/ /\ ~Tells(moved, LegBegins) /\ race'.leg = s.leg
                /\ race'.armed_leg = s.armed_leg \/ (usable /\ Approaches(s, fix))
             \/ race'.armed_leg = None
      BY <1>1, <1>4, MovedIs
    <2>3. race'.finish_side = IF race'.finish_armed = s.finish_armed
                              THEN IF usable THEN NotedSide(s, fix.at) ELSE s.finish_side
                              ELSE None
      BY <1>1, <1>4, MovedIs
    <2>4. /\ r \in Answer /\ race' = r.state
          /\ Tells(r, Arming) <=> Tells(started, Arming) \/ Tells(moved, Arming)
      BY <1>1, <1>4, FixIs
    <2>5. approached' = /\ ~Tells(moved, LegBegins) /\ race'.mode = RACING
                        /\ \/ approached /\ ~Tells(started, LegBegins)
                           \/ usable /\ Approaches(s, fix)
      BY <1>1, <1>4, FixIs
    <2>6. firstSide' = CASE Arms(r) \/ ~FinishWatched(race') -> None
                         [] ~Arms(r) /\ FinishWatched(race') /\ usable
                              /\ firstSide = None -> Seen(fix.at)
                         [] OTHER -> firstSide
      BY <1>1, <1>4, FixIs
    <2> HIDE DEF moved, r
    <2>7. Arms(r) <=> (race'.finish_armed /\ ~race.finish_armed) \/ Tells(r, Arming)
      BY <2>4, HistoryTells
    <2> HIDE DEF started, s, usable
    <2>8. ApproachIsKnown'
      <3> SUFFICES ASSUME race'.armed_leg = race'.leg PROVE approached'
        BY DEF ApproachIsKnown
      <3>1. race'.armed_leg # None /\ s.leg # None
        BY <2>1, <2>2, RaceAppAssumption DEF RaceState
      <3>2. /\ ~Tells(moved, LegBegins) /\ race'.leg = s.leg
            /\ race'.armed_leg = s.armed_leg \/ (usable /\ Approaches(s, fix))
        BY <2>2, <3>1
      <3>3. CASE usable /\ Approaches(s, fix)
        BY <1>4, <2>5, <3>2, <3>3
      <3>4. CASE race'.armed_leg = s.armed_leg
        <4>1. s = race /\ ~Tells(started, LegBegins)
          BY <2>1, <3>1, <3>4
        <4>2. approached
          BY <2>2, <3>2, <3>4, <4>1 DEF RaceInv, ApproachIsKnown
        <4> QED BY <1>4, <2>5, <3>2, <4>1, <4>2
      <3> QED BY <3>2, <3>3, <3>4
    <2>9. FinishSideIsFresh'
      <3> SUFFICES ASSUME race'.finish_armed PROVE race'.finish_side = firstSide'
        BY DEF FinishSideIsFresh
      <3>1. FinishWatched(race')
        BY <1>4 DEF FinishWatched
      <3>2. CASE s = race /\ ~Tells(started, Arming)
        <4>1. CASE race.finish_armed
          <5>1. ~Arms(r) /\ race.finish_side = firstSide
            BY <2>2, <2>4, <2>7, <3>2, <4>1 DEF RaceInv, FinishSideIsFresh
          <5>2. race'.finish_side = IF usable THEN NotedSide(race, fix.at)
                                              ELSE race.finish_side
            BY <2>1, <2>2, <2>3, <3>2, <4>1 DEF RaceState
          <5> QED BY <2>6, <3>1, <4>1, <5>1, <5>2 DEF NotedSide
        <4>2. CASE ~race.finish_armed
          <5>1. Arms(r)
            BY <2>7, <4>2
          <5>2. race'.finish_side = None
            BY <2>3, <3>2, <4>2
          <5> QED BY <2>6, <5>1, <5>2
        <4> QED BY <4>1, <4>2
      <3>3. CASE ~s.finish_armed /\ Tells(started, Arming)
        <4>1. Arms(r)
          BY <2>4, <2>7, <3>3
        <4>2. race'.finish_side = None
          BY <2>3, <3>3
        <4> QED BY <2>6, <4>1, <4>2
      <3> QED BY <2>1, <3>2, <3>3
    <2> QED BY <2>8, <2>9 DEF RaceInv
  <1> QED BY <1>2, <1>3, <1>4

\* Every step keeps the two
LEMMA RaceInvNext ==
    ASSUME TypeOK, RaceInv, [Next]_vars
    PROVE  RaceInv'
  <1>1. CASE Timer \/ Nudge \/ Advance \/ Shorten \/ Reset \/ Poll
    BY <1>1, ButtonsInv
  <1>2. ASSUME NEW d \in Device,
               (\E c \in Course : Choose(d, c)) \/ ChooseContext(d) \/ ChooseSelect(d)
        PROVE  RaceInv'
    <2>1. CASE \E c \in Course : Choose(d, c)
      BY <2>1, ChoosingInv
    <2>2. CASE ChooseContext(d) \/ ChooseSelect(d)
      <3>1. want[d] \in Course
        BY <2>2 DEF ChooseContext, ChooseSelect, TypeOK
      <3> QED BY <2>2, <3>1, ChoosingInv
    <2> QED BY <1>2, <2>1, <2>2
  <1>3. CASE OnPosition
    BY <1>3, OnPositionInv
  <1>4. CASE UNCHANGED engineVars
    BY <1>4 DEF engineVars, RaceInv, FinishSideIsFresh, ApproachIsKnown
  <1> QED BY <1>1, <1>2, <1>3, <1>4 DEF Next, Tick, vars

\* The side is fresh and the approach is known in every state
LEMMA RaceInvariance == Spec => [](TypeOK /\ RaceInv)
  <1>1. Init => RaceInv
    <2> SUFFICES ASSUME Init PROVE RaceInv
      OBVIOUS
    <2>1. race.mode # RACING
      BY DEF Init, initial, IDLE, RACING
    <2> QED BY <2>1 DEF RaceInv, FinishSideIsFresh, ApproachIsKnown
  <1>2. TypeOK /\ RaceInv /\ [Next]_vars => RaceInv'
    BY RaceInvNext
  <1> QED BY <1>1, <1>2, RaceTypeOK, PTL DEF Spec

\* A race that is on is not started again by the fix that comes
LEMMA RacingStarted ==
    ASSUME TypeOK, race.mode = RACING, context # None, NEW evaluated \in now..MaxTime
    PROVE  Started(evaluated).state = race
  <1>1. race.mode # PRESTART
    BY DEF RACING, PRESTART
  <1> QED BY <1>1, StartedIs

\* The side the boat is seen on is the one she came from by the line's own measure
LEMMA SidesDiffer ==
    ASSUME NEW p, NEW q \in Position, CrossedLine(p, q)
    PROVE  side(inner, outer, q) # FromSide(inner, outer, p)
  <1>1. FromSide(inner, outer, p) # FromSide(inner, outer, q)
    BY DEF CrossedLine, crossing
  <1>2. FromSide(inner, outer, p) # 0
    BY DEF FromSide
  <1> QED BY <1>1, <1>2, SideIs

\* A fix that ends the race crosses the line away from the side first seen: the
\* side cannot be noted by the fix that crosses, for it is the one she comes to
LEMMA FinishStep ==
    ASSUME TypeOK, RaceInv, NEW fix \in Fixes, NEW evaluated \in now..MaxTime,
           race.mode = RACING, race'.mode = FINISHED, Fix(fix, evaluated)
    PROVE  /\ CrossedLine(race.previous_fix, fix.at)
           /\ firstSide # None /\ side(inner, outer, fix.at) # firstSide
  <1> DEFINE r == on_fix(race, context, fix, now, evaluated)
             previous == race.previous_fix
  <1>1. context # None
    BY DEF Fix, engineVars, RACING, FINISHED
  <1>2. race' = r.state /\ fix.at \in Position
    BY <1>1, FixIs, RacingStarted, RaceAppAssumption DEF Moved
  <1> HIDE DEF r
  <1>3. evaluated - now <= position_stale
    <2> SUFFICES ASSUME evaluated - now > position_stale PROVE FALSE
      BY Found, RaceSettingsAssumption
    <2>1. race' = [race EXCEPT !.previous_fix = race'.previous_fix]
      BY <1>1, <1>2, Found, IdleFixIs DEF r
    <2>2. race'.mode = race.mode
      BY <2>1, Found DEF RaceState
    <2> QED BY <2>2 DEF RACING, FINISHED
  <1>4. /\ race.finish_armed /\ NotedSide(race, fix.at) # None
        /\ CrossedLine(previous, fix.at)
        /\ FromSide(inner, outer, previous) = NotedSide(race, fix.at)
    <2>1. race'.mode # RACING
      BY DEF RACING, FINISHED
    <2> QED BY <1>1, <1>2, <1>3, <2>1, Found, RacingFixIs DEF r
  <1>5. race.finish_side = firstSide
    BY <1>4 DEF RaceInv, FinishSideIsFresh
  <1>6. side(inner, outer, fix.at) # FromSide(inner, outer, previous)
    BY <1>2, <1>4, SidesDiffer
  <1>7. race.finish_side # None
    BY <1>4, <1>6 DEF NotedSide, Seen
  <1> QED BY <1>4, <1>5, <1>6, <1>7 DEF NotedSide

\* A step that moves the race takes no time, or as much as makes the fix too late
LEMMA RaceTakesNoTime ==
    ASSUME TypeOK, [Next]_vars, race' # race
    PROVE  now' \in {now, now + position_stale + 1}
  <1>1. CASE Timer \/ Nudge \/ Advance \/ Shorten \/ Reset \/ Poll
    BY <1>1 DEF Timer, Nudge, Advance, Shorten, Reset, Poll, Press
  <1>2. CASE OnPosition
    BY <1>2 DEF OnPosition, Fix
  <1>3. CASE \E d \in Device : \/ \E c \in Course : Choose(d, c)
                               \/ ChooseContext(d) \/ ChooseSelect(d)
    BY <1>3 DEF Choose, ChooseContext, ChooseSelect
  <1>4. ~Tick /\ ~UNCHANGED vars
    BY DEF Tick, vars, engineVars
  <1> QED BY <1>1, <1>2, <1>3, <1>4 DEF Next

\* A fix that ends the leg comes after an approach on it, and is judged at the time
\* it comes
LEMMA RoundingStep ==
    ASSUME TypeOK, RaceInv, [Next]_vars, NEW fix \in Fixes, NEW evaluated \in now..MaxTime,
           race.mode = RACING, race'.leg # race.leg, Fix(fix, evaluated)
    PROVE  /\ race'.leg = race.leg + 1
           /\ approached /\ now >= race.suppress_until
           /\ fix.cog # None /\ Abaft(fix.at, leg_target(context, race.leg), fix.cog)
  <1> DEFINE r == on_fix(race, context, fix, now, evaluated)
             mark == leg_target(context, race.leg)
  <1>1. context # None
    BY DEF Fix, engineVars
  <1>2. race' = r.state /\ now' = evaluated
    BY <1>1, FixIs, RacingStarted DEF Moved
  <1> HIDE DEF r
  <1>3. evaluated - now <= position_stale
    <2> SUFFICES ASSUME evaluated - now > position_stale PROVE FALSE
      BY Found, RaceSettingsAssumption
    <2>1. race' = [race EXCEPT !.previous_fix = race'.previous_fix]
      BY <1>1, <1>2, Found, IdleFixIs DEF r
    <2> QED BY <2>1, Found DEF RaceState
  <1>4. evaluated = now
    <2>1. evaluated \in {now, now + position_stale + 1}
      BY <1>2, RaceTakesNoTime
    <2> QED BY <1>3, <2>1, Found, RaceSettingsAssumption
  <1>5. /\ race'.leg = race.leg + 1
        /\ evaluated >= race.suppress_until /\ race.armed_leg = race.leg
        /\ fix.cog # None /\ Abaft(fix.at, mark, fix.cog)
    BY <1>1, <1>2, <1>3, Found, RacingFixIs DEF r
  <1>6. approached
    BY <1>5 DEF RaceInv, ApproachIsKnown
  <1> QED BY <1>4, <1>5, <1>6

\* Neither a leg nor the race ends but by what the boat did since the leg began,
\* and since the finish was armed
THEOREM EndsEarned == Spec => EndsAreEarned
  <1>1. TypeOK /\ RaceInv /\ [Next]_vars =>
          [\A fix \in Fixes, evaluated \in now..MaxTime :
             race.mode = RACING /\ race'.mode = FINISHED /\ Fix(fix, evaluated) =>
                 /\ CrossedLine(race.previous_fix, fix.at)
                 /\ firstSide # None /\ side(inner, outer, fix.at) # firstSide]_vars
    BY FinishStep
  <1>2. TypeOK /\ RaceInv /\ [Next]_vars =>
          [\A fix \in Fixes, evaluated \in now..MaxTime :
             race.mode = RACING /\ race'.leg # race.leg /\ Fix(fix, evaluated) =>
                 /\ race'.leg = race.leg + 1
                 /\ approached /\ now >= race.suppress_until
                 /\ fix.cog # None /\ Abaft(fix.at, leg_target(context, race.leg), fix.cog)]_vars
    BY RoundingStep
  <1>3. RaceInv => FinishSideIsFresh
    BY DEF RaceInv
  <1> QED BY <1>1, <1>2, <1>3, RaceInvariance, PTL
          DEF Spec, EndsAreEarned, FinishIsACrossing, RoundingIsEarned

-----------------------------------------------------------------------------
(* The events of the race on their way to the broker                       *)

\* The variables of the events keep their types
EventsTypeOK ==
    /\ pending \in Seq(Nat)
    /\ step \in [Thread -> {"idle", "drain"}]
    /\ hand \in [Thread -> Seq(Nat)]
    /\ connected \in BOOLEAN
    /\ made \in Nat
    /\ sent \in SUBSET Nat /\ lost \in SUBSET Nat /\ dropped \in SUBSET Nat

\* Older events before newer ones
InOrder(q) == \A i, j \in 1..Len(q) : i < j => q[i] < q[j]

\* What a thread took is still in the order in which it was queued
HandsInOrder == \A t \in Thread : InOrder(hand[t])

\* A thread drains with nothing in its hands: it published what it took before
DrainsEmptyHanded == \A t \in Thread : step[t] = "drain" => hand[t] = <<>>

\* What every step of a thread keeps, the order of what is held included: a queue
\* that is cut loses the oldest only because what is appended is newer
EventsInv ==
    /\ EventsTypeOK
    /\ HandsInOrder
    /\ DrainsEmptyHanded
    /\ OldestGoFirst
    /\ EventsAreConserved

-----------------------------------------------------------------------------
\* The elements of a sequence are those at its positions
LEMMA ElementsOf ==
    ASSUME NEW q \in Seq(Nat)
    PROVE  /\ Elements(q) \in SUBSET Nat
           /\ \A e : e \in Elements(q) <=> \E i \in 1..Len(q) : e = q[i]
  <1>1. DOMAIN q = 1..Len(q) /\ \A i \in 1..Len(q) : q[i] \in Nat
    BY LenProperties, ElementOfSeq
  <1>2. QED
    BY <1>1 DEF Elements

\* The burst a transition adds: the events that follow those made
LEMMA BurstIs ==
    ASSUME NEW m \in Nat, NEW n \in Nat
    PROVE  LET burst == [i \in 1..n |-> m + i]
           IN /\ burst \in Seq(Nat) /\ Len(burst) = n
              /\ InOrder(burst)
              /\ Elements(burst) = (m + 1)..(m + n)
  <1> DEFINE burst == [i \in 1..n |-> m + i]
  <1>1. burst \in Seq(Nat) /\ Len(burst) = n
    OBVIOUS
  <1>2. InOrder(burst)
    BY <1>1 DEF InOrder
  <1>3. Elements(burst) = (m + 1)..(m + n)
    <2>1. \A e \in (m + 1)..(m + n) : e - m \in 1..n /\ burst[e - m] = e
      OBVIOUS
    <2>2. \A e : e \in Elements(burst) <=> \E i \in 1..n : e = burst[i]
      BY DEF Elements
    <2>3. \A i \in 1..n : burst[i] \in (m + 1)..(m + n)
      OBVIOUS
    <2>4. \A e : e \in Elements(burst) <=> e \in (m + 1)..(m + n)
      <3> HIDE DEF burst
      <3> TAKE e
      <3>1. CASE e \in (m + 1)..(m + n)
        BY <2>1, <2>2, <3>1
      <3>2. CASE e \in Elements(burst)
        BY <2>2, <2>3, <3>2
      <3> QED BY <3>1, <3>2
    <2> QED BY <2>4
  <1> QED BY <1>1, <1>2, <1>3

\* Newer events behind older ones leave the queue in order
LEMMA ConcatInOrder ==
    ASSUME NEW p \in Seq(Nat), NEW q \in Seq(Nat), InOrder(p), InOrder(q),
           \A e \in Elements(p), f \in Elements(q) : e < f
    PROVE  /\ p \o q \in Seq(Nat)
           /\ InOrder(p \o q)
           /\ Elements(p \o q) = Elements(p) \cup Elements(q)
  <1>1. /\ p \o q \in Seq(Nat) /\ Len(p \o q) = Len(p) + Len(q)
        /\ \A i \in 1..(Len(p) + Len(q)) :
              (p \o q)[i] = IF i <= Len(p) THEN p[i] ELSE q[i - Len(p)]
        /\ Len(p) \in Nat /\ Len(q) \in Nat
    BY ConcatProperties, LenProperties
  <1>2. \A i \in 1..Len(p), j \in 1..Len(q) : p[i] < q[j]
    BY ElementsOf
  <1>3. InOrder(p \o q)
    <2> SUFFICES ASSUME NEW i \in 1..(Len(p) + Len(q)), NEW j \in 1..(Len(p) + Len(q)), i < j
                 PROVE  (p \o q)[i] < (p \o q)[j]
      BY <1>1 DEF InOrder
    <2>1. CASE j <= Len(p)
      BY <1>1, <2>1 DEF InOrder
    <2>2. CASE i <= Len(p) /\ j > Len(p)
      <3>1. j - Len(p) \in 1..Len(q) /\ i \in 1..Len(p)
        BY <1>1, <2>2
      <3> QED BY <1>1, <1>2, <2>2, <3>1
    <2>3. CASE i > Len(p)
      <3>1. i - Len(p) \in 1..Len(q) /\ j - Len(p) \in 1..Len(q) /\ i - Len(p) < j - Len(p)
        BY <1>1, <2>3
      <3>2. q[i - Len(p)] < q[j - Len(p)]
        BY <3>1 DEF InOrder
      <3>3. (p \o q)[i] = q[i - Len(p)] /\ (p \o q)[j] = q[j - Len(p)]
        BY <1>1, <2>3
      <3> QED BY <3>2, <3>3
    <2> QED BY <1>1, <2>1, <2>2, <2>3
  <1>4. \A e : e \in Elements(p \o q) <=> e \in Elements(p) \/ e \in Elements(q)
    <2> TAKE e
    <2>1. e \in Elements(p \o q) <=> \E i \in 1..(Len(p) + Len(q)) : e = (p \o q)[i]
      <3> DEFINE r == p \o q
      <3>1. r \in Seq(Nat) /\ Len(r) = Len(p) + Len(q)
        BY <1>1
      <3> HIDE DEF r
      <3>2. e \in Elements(r) <=> \E i \in 1..Len(r) : e = r[i]
        BY <3>1, ElementsOf
      <3>3. e \in Elements(r) <=> \E i \in 1..(Len(p) + Len(q)) : e = r[i]
        BY <3>1, <3>2
      <3> QED BY <3>3 DEF r
    <2>2. ASSUME NEW i \in 1..(Len(p) + Len(q)), e = (p \o q)[i]
          PROVE  e \in Elements(p) \/ e \in Elements(q)
      <3>1. CASE i <= Len(p)
        BY <1>1, <2>2, <3>1, ElementsOf
      <3>2. CASE i > Len(p)
        <4>1. i - Len(p) \in 1..Len(q) /\ e = q[i - Len(p)]
          BY <1>1, <2>2, <3>2
        <4> QED BY <4>1, ElementsOf
      <3> QED BY <1>1, <3>1, <3>2
    <2>3. ASSUME NEW i \in 1..Len(p), e = p[i]
          PROVE  e \in Elements(p \o q)
      BY <1>1, <2>1, <2>3
    <2>4. ASSUME NEW i \in 1..Len(q), e = q[i]
          PROVE  e \in Elements(p \o q)
      <3>1. Len(p) + i \in 1..(Len(p) + Len(q)) /\ (p \o q)[Len(p) + i] = e
        BY <1>1, <2>4
      <3> QED BY <2>1, <3>1
    <2> QED BY <2>1, <2>2, <2>3, <2>4, ElementsOf
  <1> QED BY <1>1, <1>3, <1>4

\* What is kept of a queue in order is its newest part, in order
LEMMA NewestIs ==
    ASSUME NEW q \in Seq(Nat), InOrder(q)
    PROVE  /\ Newest(q) \in Seq(Nat) /\ InOrder(Newest(q))
           /\ Len(Newest(q)) <= PENDING_EVENTS_MAX
           /\ Elements(Newest(q)) \subseteq Elements(q)
           /\ \A e \in Elements(q) \ Elements(Newest(q)) :
                 \A f \in Elements(Newest(q)) : e < f
  <1> USE RaceEventsAssumption
  <1>1. Len(q) \in Nat
    BY LenProperties
  <1>2. CASE Len(q) <= PENDING_EVENTS_MAX
    BY <1>1, <1>2 DEF Newest
  <1>3. CASE Len(q) > PENDING_EVENTS_MAX
    <2> DEFINE k == Len(q) - PENDING_EVENTS_MAX
               s == SubSeq(q, k + 1, Len(q))
    <2>1. k \in Nat /\ Newest(q) = s
      BY <1>1, <1>3 DEF Newest
    <2>2. /\ s \in Seq(Nat) /\ Len(s) = PENDING_EVENTS_MAX
          /\ \A i \in 1..PENDING_EVENTS_MAX : s[i] = q[k + i]
      <3>1. \A i \in (k + 1)..Len(q) : q[i] \in Nat
        BY <1>1, <2>1, ElementOfSeq
      <3>2. k + 1 \in Int /\ Len(q) \in Int /\ k + 1 <= Len(q)
        BY <1>1, <1>3
      <3>3. /\ s \in Seq(Nat) /\ Len(s) = Len(q) - (k + 1) + 1
            /\ \A i \in 1..(Len(q) - (k + 1) + 1) : s[i] = q[(k + 1) + i - 1]
        BY <3>1, <3>2, SubSeqProperties
      <3> QED BY <1>1, <1>3, <3>3
    <2>3. InOrder(s)
      BY <1>1, <2>1, <2>2 DEF InOrder
    <2>4. \A e \in Elements(s) : \E i \in 1..PENDING_EVENTS_MAX : e = q[k + i]
      <3> HIDE DEF s, k
      <3>1. \A e : e \in Elements(s) <=> \E i \in 1..Len(s) : e = s[i]
        BY <2>2, ElementsOf
      <3> QED BY <2>2, <3>1
    <2>5. \A i \in 1..PENDING_EVENTS_MAX : k + i \in 1..Len(q)
      BY <1>1, <1>3
    <2>6. Elements(s) \subseteq Elements(q)
      BY <2>4, <2>5, ElementsOf
    <2>7. ASSUME NEW e \in Elements(q) \ Elements(s), NEW f \in Elements(s)
          PROVE  e < f
      <3>1. PICK i \in 1..Len(q) : e = q[i]
        BY ElementsOf
      <3>2. PICK j \in 1..PENDING_EVENTS_MAX : f = q[k + j]
        BY <2>4
      <3>3. ~(i > k)
        <4> SUFFICES ASSUME i > k PROVE FALSE
          OBVIOUS
        <4>1. i - k \in 1..PENDING_EVENTS_MAX /\ s[i - k] = e
          BY <1>1, <1>3, <2>2, <3>1
        <4>2. e \in Elements(s)
          BY <4>1, <2>2, ElementsOf
        <4> QED BY <4>2
      <3> QED BY <1>1, <2>5, <3>1, <3>2, <3>3 DEF InOrder
    <2> HIDE DEF s, k
    <2> QED BY <2>1, <2>2, <2>3, <2>6, <2>7, <1>1
  <1> QED BY <1>1, <1>2, <1>3

\* Of what is in order the head is none of the rest
LEMMA HeadLeaves ==
    ASSUME NEW q \in Seq(Nat), InOrder(q), q # <<>>
    PROVE  /\ Tail(q) \in Seq(Nat) /\ InOrder(Tail(q)) /\ Head(q) \in Nat
           /\ Elements(q) = {Head(q)} \cup Elements(Tail(q))
           /\ Head(q) \notin Elements(Tail(q))
  <1>1. Len(q) \in Nat \ {0}
    BY EmptySeq
  <1>2. /\ Tail(q) \in Seq(Nat) /\ Len(Tail(q)) = Len(q) - 1
        /\ \A i \in 1..(Len(q) - 1) : Tail(q)[i] = q[i + 1]
        /\ Head(q) = q[1] /\ Head(q) \in Nat
    BY HeadTailProperties
  <1>3. InOrder(Tail(q))
    BY <1>1, <1>2 DEF InOrder
  <1>4. \A e : e \in Elements(Tail(q)) <=> \E i \in 1..(Len(q) - 1) : e = q[i + 1]
    <2> DEFINE r == Tail(q)
    <2>1. /\ r \in Seq(Nat) /\ Len(r) = Len(q) - 1
          /\ \A i \in 1..(Len(q) - 1) : r[i] = q[i + 1]
      BY <1>2
    <2> HIDE DEF r
    <2>2. \A e : e \in Elements(r) <=> \E i \in 1..Len(r) : e = r[i]
      BY <2>1, ElementsOf
    <2>3. \A e : e \in Elements(r) <=> \E i \in 1..(Len(q) - 1) : e = q[i + 1]
      BY <2>1, <2>2
    <2> QED BY <2>3 DEF r
  <1>5. Head(q) \notin Elements(Tail(q))
    BY <1>1, <1>2, <1>4 DEF InOrder
  <1>6. \A e : e \in Elements(q) <=> e = Head(q) \/ e \in Elements(Tail(q))
    <2> TAKE e
    <2>1. ASSUME NEW i \in 1..Len(q), e = q[i], i # 1
          PROVE  e \in Elements(Tail(q))
      <3>1. i - 1 \in 1..(Len(q) - 1) /\ (i - 1) + 1 = i
        BY <1>1, <2>1
      <3> QED BY <3>1, <1>4, <2>1
    <2>2. \A i \in 1..(Len(q) - 1) : i + 1 \in 1..Len(q)
      BY <1>1
    <2> QED BY <1>1, <1>2, <1>4, <2>1, <2>2, ElementsOf
  <1> QED BY <1>2, <1>3, <1>5, <1>6

-----------------------------------------------------------------------------
\* OldestGoFirst of a queue by its elements
LEMMA OldestGoFirstIs ==
    pending \in Seq(Nat) =>
        (OldestGoFirst <=>
            /\ Len(pending) <= PENDING_EVENTS_MAX
            /\ InOrder(pending)
            /\ \A f \in Elements(pending), e \in dropped : e < f)
  <1> HAVE pending \in Seq(Nat)
  <1>1. DOMAIN pending = 1..Len(pending)
    BY LenProperties
  <1>2. \A f : f \in Elements(pending) <=> \E i \in 1..Len(pending) : f = pending[i]
    BY ElementsOf
  <1> QED BY <1>1, <1>2 DEF OldestGoFirst, InOrder

\* ... and after a step
LEMMA OldestGoFirstIsNext ==
    (pending \in Seq(Nat) =>
        (OldestGoFirst <=>
            /\ Len(pending) <= PENDING_EVENTS_MAX
            /\ InOrder(pending)
            /\ \A f \in Elements(pending), e \in dropped : e < f))'
  BY OldestGoFirstIs, PTL

\* Where an event is, for each event by itself
Away == sent \cup lost \cup dropped

Somewhere(e) ==
    \/ \E t \in Thread : e \in Elements(hand[t])
    \/ e \in Elements(pending)
    \/ e \in Away

\* No event is at two places
Apart ==
    /\ \A t \in Thread : \A e \in Elements(hand[t]) : e \notin Elements(pending) /\ e \notin Away
    /\ \A t, u \in Thread : t # u => \A e \in Elements(hand[t]) : e \notin Elements(hand[u])
    /\ \A e \in Elements(pending) : e \notin Away
    /\ \A e \in sent : e \notin lost /\ e \notin dropped
    /\ \A e \in lost : e \notin dropped

\* Events are conserved when each is somewhere, and at one place only
LEMMA ConservedIs == EventsAreConserved <=> (\A e : e \in Event <=> Somewhere(e)) /\ Apart
  <1> DEFINE parts == [t \in Thread |-> Elements(hand[t])]
  <1>1. \A e : e \in UNION {parts[t] : t \in Thread} <=> \E t \in Thread : e \in Elements(hand[t])
    OBVIOUS
  <1>2. Event = (UNION {parts[t] : t \in Thread}) \cup Elements(pending)
                  \cup sent \cup lost \cup dropped
          <=> \A e : e \in Event <=> Somewhere(e)
    <2> DEFINE held == UNION {parts[t] : t \in Thread}
    <2>0. held = UNION {parts[t] : t \in Thread}
      BY DEF held
    <2>1. \A e : e \in held <=> \E t \in Thread : e \in Elements(hand[t])
      BY <1>1
    <2> HIDE DEF held
    <2>2. (Event = held \cup Elements(pending) \cup sent \cup lost \cup dropped)
            <=> \A e : e \in Event <=> Somewhere(e)
      BY <2>1 DEF Somewhere, Away
    <2> QED BY <2>0, <2>2
  <1>3. \A t \in Thread : parts[t] = Elements(hand[t])
    OBVIOUS
  <1>4. Apart <=>
          /\ \A t \in Thread :
                parts[t] \cap (Elements(pending) \cup sent \cup lost \cup dropped) = {}
          /\ \A t, u \in Thread : t # u => parts[t] \cap parts[u] = {}
          /\ Elements(pending) \cap (sent \cup lost \cup dropped) = {}
          /\ sent \cap (lost \cup dropped) = {} /\ lost \cap dropped = {}
    <2> HIDE DEF parts
    <2> QED BY <1>3 DEF Apart, Away
  <1> HIDE DEF parts
  <1> QED BY <1>2, <1>4 DEF EventsAreConserved, parts

\* ... and after a step
LEMMA ConservedIsNext ==
    EventsAreConserved' <=> (\A e : e \in Event <=> Somewhere(e))' /\ Apart'
  BY ConservedIs, PTL

-----------------------------------------------------------------------------
(* One lemma for each action                                               *)

\* Before the first event nothing is held
LEMMA EventsInitInv == EventsInit => EventsInv
  <1> SUFFICES ASSUME EventsInit PROVE EventsInv
    OBVIOUS
  <1>1. EventsTypeOK
    BY EmptySeq DEF EventsInit, EventsTypeOK
  <1>2. pending = <<>> /\ Elements(pending) = {} /\ \A t \in Thread : Elements(hand[t]) = {}
    BY DEF EventsInit, Elements
  <1>3. HandsInOrder
    BY DEF EventsInit, HandsInOrder, InOrder
  <1>4. OldestGoFirst
    BY RaceEventsAssumption DEF EventsInit, OldestGoFirst
  <1>5. EventsAreConserved
    BY <1>2, ConservedIs DEF EventsInit, Event, Somewhere, Apart, Away
  <1>6. DrainsEmptyHanded
    BY DEF EventsInit, DrainsEmptyHanded
  <1> QED BY <1>1, <1>3, <1>4, <1>5, <1>6 DEF EventsInv

\* Every event is one of those made
LEMMA MadeBefore ==
    ASSUME EventsInv
    PROVE  /\ \A e \in Elements(pending) : e \in Nat /\ e <= made
           /\ \A e \in Away : e \in Nat /\ e <= made
           /\ \A t \in Thread : \A e \in Elements(hand[t]) : e \in Nat /\ e <= made
  <1>1. \A e : Somewhere(e) => e \in Event
    BY ConservedIs DEF EventsInv
  <1>2. \A e \in Event : e \in Nat /\ e <= made
    BY DEF EventsInv, EventsTypeOK, Event
  <1> QED BY <1>1, <1>2 DEF Somewhere

\* A change of the race queues its events, and drops the oldest for them
LEMMA TransitionInv ==
    ASSUME EventsInv, NEW t \in Thread, Transition(t)
    PROVE  EventsInv'
  <1> USE DEF EventsInv
  <1>1. PICK n \in 1..MaxBurst :
            made' = made + n /\ Queue(pending \o [i \in 1..n |-> made + i])
    BY DEF Transition
  <1>2. n \in Nat /\ made \in Nat /\ pending \in Seq(Nat)
    BY <1>1, RaceEventsAssumption DEF EventsTypeOK
  <1> DEFINE burst == [i \in 1..n |-> made + i]
             q == pending \o burst
  <1>3. burst \in Seq(Nat) /\ InOrder(burst) /\ Elements(burst) = (made + 1)..(made + n)
    BY <1>2, BurstIs
  <1>4. /\ InOrder(pending) /\ Len(pending) <= PENDING_EVENTS_MAX
        /\ \A f \in Elements(pending), e \in dropped : e < f
    BY <1>2, OldestGoFirstIs
  <1>5. \A e \in Elements(pending), f \in Elements(burst) : e < f
    <2> HIDE DEF burst
    <2> QED BY <1>2, <1>3, MadeBefore
  <1>6. q \in Seq(Nat) /\ InOrder(q) /\ Elements(q) = Elements(pending) \cup Elements(burst)
    <2> HIDE DEF burst
    <2> QED BY <1>2, <1>3, <1>4, <1>5, ConcatInOrder
  <1>7. pending' = Newest(q) /\ dropped' = dropped \cup (Elements(q) \ Elements(Newest(q)))
    BY <1>1 DEF Queue
  <1> HIDE DEF burst, q
  <1>8. /\ pending' \in Seq(Nat) /\ InOrder(pending')
        /\ Len(pending') <= PENDING_EVENTS_MAX
        /\ Elements(pending') \subseteq Elements(q)
        /\ \A e \in Elements(q) \ Elements(pending'), f \in Elements(pending') : e < f
    BY <1>6, <1>7, NewestIs
  <1>9. Elements(q) \in SUBSET Nat /\ dropped' = dropped \cup (Elements(q) \ Elements(pending'))
    BY <1>6, <1>7, ElementsOf
  <1>10. EventsTypeOK'
    <2>1. made' \in Nat
      BY <1>1, <1>2
    <2>3. dropped' \in SUBSET Nat
      BY <1>9 DEF EventsTypeOK
    <2>2. step' \in [Thread -> {"idle", "drain"}]
      BY DEF EventsTypeOK, Transition
    <2> QED BY <1>8, <2>1, <2>2, <2>3 DEF EventsTypeOK, Transition
  <1>11. HandsInOrder'
    BY DEF HandsInOrder, Transition
  <1>12. \A f \in Elements(pending'), e \in dropped : e < f
    <2> SUFFICES ASSUME NEW f \in Elements(pending'), NEW e \in dropped PROVE e < f
      OBVIOUS
    <2>1. CASE f \in Elements(pending)
      BY <1>4, <2>1
    <2>2. CASE f \in Elements(burst)
      <3>1. e \in Nat /\ e <= made
        BY MadeBefore DEF Away
      <3> QED BY <1>2, <1>3, <2>2, <3>1
    <2> QED BY <1>6, <1>8, <2>1, <2>2
  <1>13. OldestGoFirst'
    <2>1. \A f \in Elements(pending'), e \in dropped' : e < f
      BY <1>8, <1>9, <1>12
    <2> QED BY <1>8, <2>1, OldestGoFirstIsNext
  <1>14. \A u \in Thread : hand'[u] = hand[u]
    BY DEF Transition
  <1>15. sent' = sent /\ lost' = lost
    BY DEF Transition
  <1>16. \A e \in Elements(burst) : e \in Nat /\ e > made
    BY <1>2, <1>3
  <1>17. \A e : e \in Event' <=> e \in Event \/ e \in Elements(burst)
    BY <1>1, <1>2, <1>3 DEF Event
  <1>18. \A e : e \in Elements(pending') \/ e \in Away' <=> e \in Elements(q) \/ e \in Away
    BY <1>8, <1>9, <1>15 DEF Away
  <1>19. (\A e : e \in Event <=> Somewhere(e)) /\ Apart
    BY ConservedIs
  <1>20. (\A e : e \in Event <=> Somewhere(e))'
    BY <1>6, <1>14, <1>17, <1>18, <1>19 DEF Somewhere
  <1>21. \A e \in Elements(burst) :
            e \notin Away /\ \A u \in Thread : e \notin Elements(hand[u])
    BY <1>2, <1>16, MadeBefore
  <1>22. Apart'
    <2>1. \A u \in Thread : \A e \in Elements(hand'[u]) :
            e \notin Elements(pending') /\ e \notin Away'
      BY <1>6, <1>14, <1>18, <1>19, <1>21 DEF Apart
    <2>2. \A u, w \in Thread : u # w => \A e \in Elements(hand'[u]) : e \notin Elements(hand'[w])
      BY <1>14, <1>19 DEF Apart
    <2>3. \A e \in Elements(pending') : e \notin Away'
      BY <1>6, <1>8, <1>9, <1>15, <1>19, <1>21 DEF Apart, Away
    <2>4. \A e \in sent' : e \notin lost' /\ e \notin dropped'
      BY <1>6, <1>9, <1>15, <1>19, <1>21 DEF Apart, Away
    <2>5. \A e \in lost' : e \notin dropped'
      BY <1>6, <1>9, <1>15, <1>19, <1>21 DEF Apart, Away
    <2> QED BY <2>1, <2>2, <2>3, <2>4, <2>5 DEF Apart
  <1>23. EventsAreConserved'
    BY <1>20, <1>22, ConservedIsNext
  <1>24. DrainsEmptyHanded'
    BY DEF DrainsEmptyHanded, Transition, EventsTypeOK
  <1> QED BY <1>10, <1>11, <1>13, <1>23, <1>24

\* A drain moves the queue to the hands of one thread
LEMMA DrainInv ==
    ASSUME EventsInv, NEW t \in Thread, Drain(t)
    PROVE  EventsInv'
  <1> USE DEF EventsInv
  <1>1. /\ pending' = <<>> /\ Elements(pending') = {}
        /\ made' = made /\ sent' = sent /\ lost' = lost /\ dropped' = dropped
    BY DEF Drain, historyVars, Elements
  <1>2. hand'[t] = pending /\ \A u \in Thread \ {t} : hand'[u] = hand[u]
    BY DEF Drain, EventsTypeOK
  <1>3. hand[t] = <<>> /\ Elements(hand[t]) = {}
    BY DEF Drain, DrainsEmptyHanded, Elements
  <1>4. EventsTypeOK'
    BY <1>1, EmptySeq DEF EventsTypeOK, Drain
  <1>5. HandsInOrder'
    <2>1. InOrder(pending)
      BY OldestGoFirstIs DEF EventsTypeOK
    <2> QED BY <1>2, <2>1 DEF HandsInOrder
  <1>6. OldestGoFirst'
    BY <1>1, RaceEventsAssumption DEF OldestGoFirst
  <1>7. DrainsEmptyHanded'
    BY DEF DrainsEmptyHanded, Drain, EventsTypeOK
  <1>8. (\A e : e \in Event <=> Somewhere(e)) /\ Apart
    BY ConservedIs
  <1>9. Away' = Away /\ Event' = Event
    BY <1>1 DEF Away, Event
  <1>10. (\A e : e \in Event <=> Somewhere(e))'
    BY <1>1, <1>2, <1>3, <1>8, <1>9 DEF Somewhere
  <1>11. Apart'
    BY <1>1, <1>2, <1>3, <1>8, <1>9 DEF Apart
  <1>12. EventsAreConserved'
    BY <1>10, <1>11, ConservedIsNext
  <1> QED BY <1>4, <1>5, <1>6, <1>7, <1>12

\* A publication takes the oldest out of the hands of its thread
LEMMA EventPublishInv ==
    ASSUME EventsInv, NEW t \in Thread, Publish(t)
    PROVE  EventsInv'
  <1> USE DEF EventsInv
  <1> DEFINE e0 == Head(hand[t])
  <1>1. /\ hand[t] \in Seq(Nat) /\ InOrder(hand[t]) /\ hand[t] # <<>>
        /\ hand'[t] = Tail(hand[t])
        /\ \A u \in Thread \ {t} : hand'[u] = hand[u]
    BY DEF Publish, EventsTypeOK, HandsInOrder
  <1>2. /\ hand'[t] \in Seq(Nat) /\ InOrder(hand'[t]) /\ e0 \in Nat
        /\ \A e : e \in Elements(hand[t]) <=> e = e0 \/ e \in Elements(hand'[t])
        /\ e0 \notin Elements(hand'[t])
    BY <1>1, HeadLeaves
  <1>3. /\ made' = made /\ pending' = pending /\ step' = step /\ dropped' = dropped
        /\ \/ sent' = sent \cup {e0} /\ lost' = lost
           \/ sent' = sent /\ lost' = lost \cup {e0}
    BY DEF Publish
  <1> HIDE DEF e0
  <1>4. EventsTypeOK'
    <2>1. hand' \in [Thread -> Seq(Nat)]
      BY <1>2 DEF EventsTypeOK, Publish
    <2> QED BY <1>2, <1>3, <2>1 DEF EventsTypeOK, Publish
  <1>5. HandsInOrder'
    BY <1>1, <1>2 DEF HandsInOrder
  <1>6. OldestGoFirst'
    BY <1>3 DEF OldestGoFirst
  <1>7. DrainsEmptyHanded'
    BY <1>1, <1>3 DEF DrainsEmptyHanded
  <1>8. (\A e : e \in Event <=> Somewhere(e)) /\ Apart
    BY ConservedIs
  <1>9. /\ Event' = Event
        /\ \A e : e \in Away' <=> e \in Away \/ e = e0
    BY <1>3 DEF Away, Event
  <1>10. (\A e : e \in Event <=> Somewhere(e))'
    BY <1>1, <1>2, <1>3, <1>8, <1>9 DEF Somewhere
  <1>11. Apart'
    <2>1. \A u \in Thread : \A e \in Elements(hand'[u]) : e \in Elements(hand[u]) /\ e # e0
      BY <1>1, <1>2, <1>8 DEF Apart
    <2>2. \A u \in Thread : \A e \in Elements(hand'[u]) :
            e \notin Elements(pending') /\ e \notin Away'
      BY <1>3, <1>8, <1>9, <2>1 DEF Apart
    <2>3. \A u, w \in Thread : u # w => \A e \in Elements(hand'[u]) : e \notin Elements(hand'[w])
      BY <1>8, <2>1 DEF Apart
    <2>4. e0 \notin Elements(pending) /\ e0 \notin Away
      BY <1>2, <1>8 DEF Apart
    <2>5. \A e \in Elements(pending') : e \notin Away'
      BY <1>3, <1>8, <1>9, <2>4 DEF Apart
    <2>6. \A e \in sent' : e \notin lost' /\ e \notin dropped'
      BY <1>3, <1>8, <2>4 DEF Apart, Away
    <2>7. \A e \in lost' : e \notin dropped'
      BY <1>3, <1>8, <2>4 DEF Apart, Away
    <2> QED BY <2>2, <2>3, <2>5, <2>6, <2>7 DEF Apart
  <1>12. EventsAreConserved'
    BY <1>10, <1>11, ConservedIsNext
  <1> QED BY <1>4, <1>5, <1>6, <1>7, <1>12

\* What moves no event: a poll that finds none, and the connection
LEMMA StillInv ==
    ASSUME EventsInv, UNCHANGED <<pending, hand, historyVars>>,
           \/ UNCHANGED <<step, connected>>
           \/ \E t \in Thread : PollDrains(t)
           \/ Connect \/ Disconnect
    PROVE  EventsInv'
  <1> USE DEF EventsInv, historyVars
  <1>1. EventsTypeOK'
    BY DEF EventsTypeOK, PollDrains, Connect, Disconnect
  <1>2. DrainsEmptyHanded'
    BY DEF EventsTypeOK, DrainsEmptyHanded, PollDrains, Connect, Disconnect
  <1>3. HandsInOrder' /\ OldestGoFirst'
    BY DEF HandsInOrder, OldestGoFirst
  <1>4. EventsAreConserved'
    BY DEF EventsAreConserved, Event
  <1> QED BY <1>1, <1>2, <1>3, <1>4

\* Every step keeps the invariant
LEMMA EventsStepInv == EventsInv /\ [EventsNext]_eventVars => EventsInv'
  <1> SUFFICES ASSUME EventsInv, [EventsNext]_eventVars PROVE EventsInv'
    OBVIOUS
  <1>1. CASE \E t \in Thread : Transition(t)
    BY <1>1, TransitionInv
  <1>2. CASE \E t \in Thread : PollDrains(t)
    BY <1>2, StillInv DEF PollDrains
  <1>3. CASE \E t \in Thread : Drain(t)
    BY <1>3, DrainInv
  <1>4. CASE \E t \in Thread : Publish(t)
    BY <1>4, EventPublishInv
  <1>5. CASE Connect \/ Disconnect
    BY <1>5, StillInv DEF Connect, Disconnect
  <1>6. CASE UNCHANGED eventVars
    BY <1>6, StillInv DEF eventVars
  <1> QED BY <1>1, <1>2, <1>3, <1>4, <1>5, <1>6 DEF EventsNext

\* Events are held in order, each at one place, whatever requests and the network
\* loop do at once (store.py, mqtt_client.py)
THEOREM EventsInvariance == EventsSpec => []EventsInv
  BY EventsInitInv, EventsStepInv, PTL DEF EventsSpec

\* Every event is in one place, however requests and the network loop drain at
\* once (store.py, mqtt_client.py, app.py:382)
THEOREM EventsConserved == EventsSpec => []EventsAreConserved
  <1>1. EventsInv => EventsAreConserved
    BY DEF EventsInv
  <1> QED BY <1>1, EventsInvariance, PTL

\* A full queue loses its oldest
THEOREM OldestFirst == EventsSpec => []OldestGoFirst
  <1>1. EventsInv => OldestGoFirst
    BY DEF EventsInv
  <1> QED BY <1>1, EventsInvariance, PTL

-----------------------------------------------------------------------------
(* The waypoint                                                            *)

Waypoint == [at : Water, armed : BOOLEAN, astern : 0..(astern_fixes - 1)]

\* The waypoint has counted what the boat has done since it was dropped: whether she
\* has been near, and for how many fixes she has had it astern since
WaypointInv ==
    /\ waypoint \in Waypoint \cup {None}
    /\ passed \in [near : BOOLEAN, astern : 0..astern_fixes]
    /\ waypoint # None =>
          /\ waypoint.armed = passed.near /\ waypoint.astern = passed.astern
          /\ ~passed.near => passed.astern = 0

\* None is no waypoint
LEMMA NoneIsNoWaypoint == None \notin Waypoint
  BY RaceWaypointAssumption DEF Waypoint

\* A fix either takes the waypoint away, as the property has it, or is counted in both
LEMMA OnFixInv ==
    ASSUME WaypointInv, NEW fix \in WaypointFixes, OnFix(fix)
    PROVE  /\ WaypointInv'
           /\ waypoint' = None =>
                 \/ Within(fix.at, waypoint.at, arrival_radius)
                 \/ passed'.near /\ passed'.astern = astern_fixes
  <1> DEFINE w == waypoint
             arrived == Within(fix.at, w.at, arrival_radius)
             near == Within(fix.at, w.at, arming_radius)
             abaft == ~fix.slow /\ Abaft(fix.at, w.at, fix.cog)
             n == passed.astern
  <1>1. w \in Waypoint /\ w # None /\ w.armed = passed.near /\ w.astern = n
    BY DEF WaypointInv, OnFix
  <1>2. /\ n \in 0..(astern_fixes - 1) /\ w.at \in Water /\ astern_fixes \in Nat \ {0}
        /\ passed.near \in BOOLEAN
        /\ ~passed.near => n = 0
    BY <1>1, RaceWaypointAssumption DEF Waypoint, WaypointInv
  <1>3. /\ near \in BOOLEAN /\ arrived \in BOOLEAN
        /\ fix.slow \/ ~Abaft(fix.at, w.at, fix.cog) <=> ~abaft
    BY DEF Within
  <1>4. passed' = [near |-> passed.near \/ near,
                   astern |-> IF fix.cog = None \/ ~passed.near THEN n
                              ELSE IF ~abaft THEN 0 ELSE n + 1]
    BY <1>2, <1>3 DEF OnFix
  <1>5. waypoint' =
          IF arrived THEN None
          ELSE IF ~passed.near
               THEN IF near THEN [at |-> w.at, armed |-> TRUE, astern |-> 0] ELSE w
               ELSE IF fix.cog = None THEN w
                    ELSE IF ~abaft THEN [at |-> w.at, armed |-> TRUE, astern |-> 0]
                         ELSE IF n + 1 < astern_fixes
                              THEN [at |-> w.at, armed |-> TRUE, astern |-> n + 1]
                              ELSE None
    <2>1. w = [at |-> w.at, armed |-> passed.near, astern |-> n]
      BY <1>1 DEF Waypoint
    <2>2. waypoint' = waypoint_on_fix(w, fix) /\ w # None
      BY <1>1 DEF OnFix
    <2> HIDE DEF w, n
    <2>3. \/ w.armed = TRUE /\ passed.near = TRUE
          \/ w.armed = FALSE /\ passed.near = FALSE
      BY <1>1, <1>2 DEF w
    <2>4. /\ [w EXCEPT !.armed = TRUE, !.astern = 0] = [at |-> w.at, armed |-> TRUE, astern |-> 0]
          /\ [w EXCEPT !.astern = @ + 1] = [at |-> w.at, armed |-> w.armed, astern |-> n + 1]
          /\ [w EXCEPT !.astern = 0] = [at |-> w.at, armed |-> w.armed, astern |-> 0]
          /\ w.astern = n
      <3>1. PICK p, m, k : w = [at |-> p, armed |-> m, astern |-> k]
        BY <2>1
      <3>2. w.at = p /\ w.armed = m /\ w.astern = k
        BY <3>1
      <3>3. w.astern = n
        BY <2>1
      <3>4. [w EXCEPT !.armed = TRUE, !.astern = 0] = [at |-> w.at, armed |-> TRUE, astern |-> 0]
        <4> DEFINE e == [w EXCEPT !.armed = TRUE, !.astern = 0]
        <4>1. e \in Waypoint
          <5>1. 0 \in 0..(astern_fixes - 1)
            BY <1>2
          <5> QED BY <1>1, <5>1 DEF Waypoint
        <4>2. e.at = w.at /\ e.armed = TRUE /\ e.astern = 0
          BY <1>1 DEF Waypoint
        <4> HIDE DEF e
        <4>3. e = [at |-> e.at, armed |-> e.armed, astern |-> e.astern]
          BY <4>1 DEF Waypoint
        <4> QED BY <4>2, <4>3 DEF e
      <3>5. [w EXCEPT !.astern = @ + 1] = [at |-> w.at, armed |-> w.armed, astern |-> n + 1]
        BY <3>1, <3>2, <3>3
      <3>6. [w EXCEPT !.astern = 0] = [at |-> w.at, armed |-> w.armed, astern |-> 0]
        BY <3>1, <3>2
      <3> QED BY <3>3, <3>4, <3>5, <3>6
    <2>5. CASE arrived
      BY <2>2, <2>5 DEF waypoint_on_fix
    <2>6. CASE ~arrived /\ ~passed.near
      BY <2>2, <2>3, <2>4, <2>6 DEF waypoint_on_fix
    <2>7. CASE ~arrived /\ passed.near /\ fix.cog = None
      BY <2>2, <2>3, <2>4, <2>7 DEF waypoint_on_fix
    <2>8. CASE ~arrived /\ passed.near /\ fix.cog # None /\ ~abaft
      BY <2>2, <2>3, <2>4, <2>8 DEF waypoint_on_fix
    <2>9. CASE ~arrived /\ passed.near /\ fix.cog # None /\ abaft
      BY <2>2, <2>3, <2>4, <2>9 DEF waypoint_on_fix
    <2> QED BY <2>5, <2>6, <2>7, <2>8, <2>9, <1>3
  <1> DEFINE then(m, k) == /\ waypoint' = [at |-> w.at, armed |-> m, astern |-> k]
                           /\ passed' = [near |-> m, astern |-> k]
  <1>6. ASSUME NEW m \in BOOLEAN, NEW k \in 0..(astern_fixes - 1), then(m, k), ~m => k = 0
        PROVE  WaypointInv' /\ waypoint' # None
    <2>1. waypoint' \in Waypoint /\ waypoint' # None
      BY <1>2, <1>6, NoneIsNoWaypoint DEF Waypoint
    <2>2. passed' \in [near : BOOLEAN, astern : 0..astern_fixes]
      BY <1>2, <1>6
    <2> QED BY <2>1, <2>2, <1>6 DEF WaypointInv
  <1>7. ASSUME waypoint' = None, passed' \in [near : BOOLEAN, astern : 0..astern_fixes]
        PROVE  WaypointInv'
    BY <1>7 DEF WaypointInv
  <1>8. w = [at |-> w.at, armed |-> passed.near, astern |-> n]
    BY <1>1 DEF Waypoint
  <1> HIDE DEF arrived, near, abaft, n, w
  <1>9. CASE arrived
    <2>1. n + 1 \in 0..astern_fixes /\ n \in 0..astern_fixes
      BY <1>2
    <2>2. passed' \in [near : BOOLEAN, astern : 0..astern_fixes]
      BY <1>2, <1>3, <1>4, <2>1
    <2> QED BY <1>5, <1>7, <1>9, <2>2 DEF arrived, w
  <1>10. CASE ~arrived /\ ~passed.near
    <2>1. n = 0 /\ passed.near = FALSE
      BY <1>2, <1>10
    <2>4. w = [at |-> w.at, armed |-> FALSE, astern |-> 0]
      BY <1>8, <2>1
    <2>5. 0 \in 0..(astern_fixes - 1)
      BY <1>2
    <2>2. CASE near
      <3>1. then(TRUE, 0)
        BY <1>4, <1>5, <1>10, <2>1, <2>2
      <3> QED BY <1>6, <2>5, <3>1
    <2>3. CASE ~near
      <3>1. near = FALSE
        BY <1>3, <2>3
      <3>2. then(FALSE, 0)
        BY <1>4, <1>5, <1>10, <2>1, <2>4, <3>1
      <3> QED BY <1>6, <2>5, <3>2
    <2> QED BY <2>2, <2>3
  <1>11. CASE ~arrived /\ passed.near /\ (fix.cog = None \/ ~abaft)
    <2>1. then(TRUE, n) \/ then(TRUE, 0)
      BY <1>4, <1>5, <1>8, <1>11
    <2>2. 0 \in 0..(astern_fixes - 1) /\ n \in 0..(astern_fixes - 1)
      BY <1>2
    <2> QED BY <1>6, <2>1, <2>2
  <1>12. CASE ~arrived /\ passed.near /\ fix.cog # None /\ abaft
    <2>1. CASE n + 1 < astern_fixes
      <3>1. then(TRUE, n + 1)
        BY <1>4, <1>5, <1>12, <2>1
      <3>2. n + 1 \in 0..(astern_fixes - 1)
        BY <1>2, <2>1
      <3> QED BY <1>6, <3>1, <3>2
    <2>2. CASE ~(n + 1 < astern_fixes)
      <3>1. waypoint' = None /\ passed' = [near |-> TRUE, astern |-> n + 1]
        BY <1>4, <1>5, <1>12, <2>2
      <3>2. n + 1 = astern_fixes /\ n + 1 \in 0..astern_fixes
        BY <1>2, <2>2
      <3> QED BY <1>7, <3>1, <3>2
    <2> QED BY <2>1, <2>2
  <1> QED BY <1>3, <1>9, <1>10, <1>11, <1>12 DEF arrived, w

\* Every step of the race and of its choice leaves the waypoint, or takes it away
LEMMA WaypointInvNext == WaypointInv /\ [WaypointNext]_waypointVars => WaypointInv'
  <1> SUFFICES ASSUME WaypointInv, [WaypointNext]_waypointVars
               PROVE  WaypointInv'
    OBVIOUS
  <1>1. CASE UNCHANGED <<waypoint, passed>> \/ (waypoint' = None /\ UNCHANGED passed)
    BY <1>1 DEF WaypointInv
  <1>2. ASSUME NEW p \in Water, Hold(p)
        PROVE  WaypointInv'
    BY <1>2, RaceWaypointAssumption DEF Hold, drop, WaypointInv, Waypoint
  <1>3. ASSUME NEW d \in Tablet, Abandon(d) \/ ClearForRace(d) \/ PutIn(d) \/ ChooseSelected(d)
        PROVE  WaypointInv'
    BY <1>1, <1>3 DEF Abandon, ClearForRace, PutIn, ChooseSelected
  <1> QED BY <1>1, <1>2, <1>3, OnFixInv DEF WaypointNext, waypointVars, Race, Clear

\* A fix takes the waypoint away only when the boat is upon it, or has been near it
\* and then had it astern for as many fixes in a row as a mark needs: whoever chooses
\* courses and however often another is dropped meanwhile (waypoint.py, on_fix)
THEOREM WaypointReached == WaypointSpec => WaypointIsReached
  <1>1. WaypointInit => WaypointInv
    BY RaceWaypointAssumption DEF WaypointInit, WaypointInv
  <1>2. WaypointInv /\ [WaypointNext]_waypointVars =>
          [\A fix \in WaypointFixes :
              waypoint # None /\ waypoint' = None /\ OnFix(fix) =>
                  \/ Within(fix.at, waypoint.at, arrival_radius)
                  \/ passed'.near /\ passed'.astern = astern_fixes]_waypointVars
    BY OnFixInv
  <1> QED BY <1>1, <1>2, WaypointInvNext, PTL DEF WaypointSpec, WaypointIsReached

-----------------------------------------------------------------------------
(* The documents of the courses                                            *)

\* Every finding has the fields of an error, one that is doubted another severity
LEMMA FindingFields ==
    ASSUME NEW code, NEW of, NEW leg
    PROVE  /\ Error(code, of, leg).severity = "error" /\ Error(code, of, leg).code = code
           /\ Error(code, of, leg).course = of
           /\ Warning(code, of, leg).severity = "warning" /\ Warning(code, of, leg).code = code
           /\ Warning(code, of, leg).course = of
  BY DEF Error, Warning

\* A finding is made exactly if its condition holds
LEMMA IfFinds ==
    ASSUME NEW condition \in BOOLEAN, NEW finding, NEW p
    PROVE  p \in If(condition, finding) <=> condition /\ p = finding
  BY DEF If

\* What is found of the marks and of the lines is of no course, and is an error
LEMMA OfNoCourse ==
    ASSUME NEW d \in Document,
           NEW p \in validate_marks(d.marks) \cup validate_lines(d.lines, d.marks)
    PROVE  p.severity = "error" /\ p.course = Nobody
  <1>1. CASE p \in validate_marks(d.marks)
    <2>1. PICK i \in DOMAIN d.marks :
            p \in If(\E j \in 1..(i - 1) : d.marks[j].id = d.marks[i].id,
                     Error("duplicate-mark-id", Nobody, i))
                  \cup If(~has_position(d.marks[i].at), Error("mark-no-position", Nobody, i))
      BY <1>1 DEF validate_marks
    <2>2. p \in {Error("duplicate-mark-id", Nobody, i), Error("mark-no-position", Nobody, i)}
      BY <2>1 DEF If
    <2> QED  BY <2>2, FindingFields
  <1>2. CASE p \in validate_lines(d.lines, d.marks)
    <2>1. CASE p \in {Error("start-finish-end", Nobody, 1), Error("start-finish-end", Nobody, 2),
                       Error("start-finish-degenerate", Nobody, 0),
                       Error("gates-removed", Nobody, 0), Error("no-cross-marks", Nobody, 0),
                       Error("unknown-mark", Nobody, 0)}
      BY <2>1, FindingFields
    <2> QED  BY <1>2, <2>1 DEF validate_lines, If
  <1> QED  BY <1>1, <1>2

\* What is found of a course names it, and is an error but for the two doubts
LEMMA OfThisCourse ==
    ASSUME NEW d, NEW k, NEW p \in validate_course(d, k)
    PROVE  /\ p.course = d.courses[k].id
           /\ p.severity \in {"error", "warning"}
  <1> DEFINE c == d.courses[k]
  <1> DEFINE Ours(f) == f.course = c.id /\ f.severity \in {"error", "warning"}
  <1>1. \A code, leg : Ours(Error(code, c.id, leg)) /\ Ours(Warning(code, c.id, leg))
    BY FindingFields
  <1>2. ASSUME NEW i \in DOMAIN c.legs, p \in LegProblems(c, i, d.marks) PROVE Ours(p)
    <2> HIDE DEF c
    <2> QED  BY <1>1, <1>2, SMT DEF LegProblems, If
  <1>3. ASSUME p \in Finishes(c) PROVE Ours(p)
    <2> HIDE DEF c
    <2> QED  BY <1>1, <1>3 DEF Finishes, If
  <1>4. ASSUME p \in Mismatch(d, c) PROVE Ours(p)
    <2> HIDE DEF c
    <2> QED  BY <1>1, <1>4 DEF Mismatch, If
  <1>5. ASSUME p \in {Error("duplicate-course-id", c.id, 0), Error("unknown-series", c.id, 0),
                     Error("bad-distance", c.id, 0), Error("no-legs", c.id, 0),
                     Error("bad-shortened-at", c.id, 0)}
            PROVE Ours(p)
    BY <1>1, <1>5
  <1>6. Ours(p)
    <2> HIDE DEF Ours
    <2>1. \/ p \in {Error("duplicate-course-id", c.id, 0), Error("unknown-series", c.id, 0),
                     Error("bad-distance", c.id, 0), Error("no-legs", c.id, 0),
                     Error("bad-shortened-at", c.id, 0)}
          \/ p \in validate_legs(c, d.marks) \/ p \in Mismatch(d, c)
      BY DEF validate_course, If
    <2>2. ASSUME p \in validate_legs(c, d.marks) PROVE Ours(p)
      <3> HIDE DEF c
      <3>1. p \in Finishes(c) \/ \E i \in DOMAIN c.legs : p \in LegProblems(c, i, d.marks)
        BY <2>2 DEF validate_legs
      <3> QED  BY <3>1, <1>2, <1>3
    <2> QED  BY <2>1, <2>2, <1>4, <1>5
  <1> QED  BY <1>6

\* What is found of a course is found of the documents it is in
LEMMA FoundOfTheDocuments ==
    ASSUME NEW d, NEW k \in DOMAIN d.courses
    PROVE  /\ validate_course(d, k) \subseteq validate(d)
           /\ validate_marks(d.marks) \subseteq validate(d)
           /\ validate_lines(d.lines, d.marks) \subseteq validate(d)
  BY DEF validate

\* A course without an error of its own leads to one finish, by marks that are there,
\* may be shortened at one of its legs, and has a distance
LEMMA FaultlessCourse ==
    ASSUME NEW d \in Document, NEW k \in DOMAIN d.courses,
           \A p \in validate_course(d, k) : p.severity # "error"
    PROVE  LET c == d.courses[k]
           IN /\ c.legs # <<>> /\ {i \in DOMAIN c.legs : c.legs[i].finish} = {Len(c.legs)}
              /\ c.shortened # Missing => c.shortened + 1 \in DOMAIN c.legs
              /\ c.printed > 0
              /\ \A i \in DOMAIN c.legs : ~c.legs[i].finish => c.legs[i].mark \in ids(d.marks)
  <1> DEFINE c == d.courses[k]
  <1>1. c \in CourseRead /\ c.legs \in Seq(CourseLeg) /\ c.shortened \in Int /\ c.printed \in Int
    <2>1. d.courses \in Seq(CourseRead)
      BY DEF Document
    <2>2. c \in CourseRead
      BY <2>1
    <2> HIDE DEF c
    <2> QED  BY <2>2 DEF CourseRead
  <1>2. \A code, leg : Error(code, c.id, leg) \notin validate_course(d, k)
    BY FindingFields
  <1>3. c.printed > 0
    <2>1. ~(c.printed <= 0)
      BY <1>2 DEF validate_course, If
    <2> QED  BY <2>1, <1>1
  <1>4. c.legs # <<>>
    BY <1>2 DEF validate_course, If
  <1>5. /\ validate_legs(c, d.marks) \subseteq validate_course(d, k)
        /\ c.shortened \in {Missing} \cup 0..(Len(c.legs) - 1)
    BY <1>2, <1>4 DEF validate_course, If
  <1>6. Len(c.legs) \in Nat /\ DOMAIN c.legs = 1..Len(c.legs)
    BY <1>1
  <1>7. c.shortened # Missing => c.shortened + 1 \in DOMAIN c.legs
    <2> DEFINE n == Len(c.legs)
    <2> DEFINE s == c.shortened
    <2>1. n \in Nat /\ s \in Int /\ (s # Missing => s \in 0..(n - 1))
      BY <1>1, <1>5, <1>6
    <2> HIDE DEF n, s
    <2>2. s # Missing => s + 1 \in 1..n
      BY <2>1
    <2> QED  BY <2>2, <1>6 DEF n, s
  <1>8. ASSUME NEW i \in DOMAIN c.legs, ~c.legs[i].finish PROVE c.legs[i].mark \in ids(d.marks)
    <2>1. LegProblems(c, i, d.marks) \subseteq validate_course(d, k)
      BY <1>5 DEF validate_legs
    <2>2. \A code : Error(code, c.id, i) \notin LegProblems(c, i, d.marks)
      BY <2>1, <1>2
    <2> HIDE DEF c
    <2>3. c.legs[i].mark # Absent
      BY <2>2, <1>8 DEF LegProblems, If
    <2> QED  BY <2>2, <2>3, <1>8 DEF LegProblems, If
  <1>9. {i \in DOMAIN c.legs : c.legs[i].finish} = {Len(c.legs)}
    <2> DEFINE finishes == {i \in DOMAIN c.legs : c.legs[i].finish}
    <2>1. \A code, leg : Error(code, c.id, leg) \notin Finishes(c)
      BY <1>2, <1>5 DEF validate_legs
    <2>2. finishes # {} /\ ~(Cardinality(finishes) > 1)
          /\ ~(Cardinality(finishes) = 1 /\ ~c.legs[Len(c.legs)].finish)
      <3> HIDE DEF c
      <3> QED  BY <2>1 DEF Finishes, If
    <2>3. IsFiniteSet(finishes)
      <3>1. IsFiniteSet(1..Len(c.legs))
        BY <1>6, FS_Interval
      <3> QED  BY <3>1, <1>6, FS_Subset
    <2>4. Cardinality(finishes) \in Nat /\ Cardinality(finishes) # 0
      BY <2>2, <2>3, FS_CardinalityType, FS_EmptySet
    <2>5. Cardinality(finishes) = 1
      BY <2>2, <2>4
    <2>6. PICK f : finishes = {f}
      BY <2>3, <2>5, FS_Singleton
    <2>7. Len(c.legs) \in finishes
      <3>1. Len(c.legs) # 0
        BY <1>1, <1>4
      <3>2. Len(c.legs) \in DOMAIN c.legs
        BY <3>1, <1>6
      <3> QED  BY <3>2, <2>2, <2>5
    <2> QED  BY <2>6, <2>7
  <1> QED  BY <1>3, <1>4, <1>7, <1>8, <1>9

\* Where no error is of no course, the ends of the line are placed, and so is each
\* mark, of which there is one with its id
LEMMA FaultlessMarks ==
    ASSUME NEW d \in Document,
           \A p \in validate(d) : ~(p.severity = "error" /\ p.course = Nobody)
    PROVE  /\ has_position(d.lines.inner) /\ has_position(d.lines.outer)
           /\ \A id \in ids(d.marks) : has_position(marked(d.marks, id).at)
  <1>1. \A code, leg : Error(code, Nobody, leg)
                         \notin validate_marks(d.marks) \cup validate_lines(d.lines, d.marks)
    BY FindingFields DEF validate
  <1>2. has_position(d.lines.inner) /\ has_position(d.lines.outer)
    BY <1>1 DEF validate_lines, If
  <1>3. ASSUME NEW i \in DOMAIN d.marks
        PROVE  /\ has_position(d.marks[i].at)
               /\ ~\E j \in 1..(i - 1) : d.marks[j].id = d.marks[i].id
    <2>1. /\ If(\E j \in 1..(i - 1) : d.marks[j].id = d.marks[i].id,
                Error("duplicate-mark-id", Nobody, i)) \subseteq validate_marks(d.marks)
          /\ If(~has_position(d.marks[i].at), Error("mark-no-position", Nobody, i))
                \subseteq validate_marks(d.marks)
      <3> DEFINE One(j) == If(\E h \in 1..(j - 1) : d.marks[h].id = d.marks[j].id,
                               Error("duplicate-mark-id", Nobody, j))
                 Other(j) == If(~has_position(d.marks[j].at), Error("mark-no-position", Nobody, j))
      <3>1. validate_marks(d.marks) = UNION {One(j) \cup Other(j) : j \in DOMAIN d.marks}
        BY DEF validate_marks
      <3> HIDE DEF One, Other
      <3>2. One(i) \subseteq validate_marks(d.marks) /\ Other(i) \subseteq validate_marks(d.marks)
        BY <3>1
      <3> QED  BY <3>2 DEF One, Other
    <2> QED  BY <2>1, <1>1 DEF If
  <1>4. ASSUME NEW id \in ids(d.marks) PROVE has_position(marked(d.marks, id).at)
    <2>1. d.marks \in Seq(Mark)
      BY DEF Document
    <2>2. Len(d.marks) \in Nat /\ DOMAIN d.marks = 1..Len(d.marks)
      BY <2>1
    <2>3. PICK i \in DOMAIN d.marks : d.marks[i].id = id
      BY DEF ids
    <2>4. \A j \in DOMAIN d.marks : d.marks[j].id = id => i <= j
      BY <2>2, <2>3, <1>3
    <2>5. \E f \in DOMAIN d.marks : marked(d.marks, id) = d.marks[f]
      BY <2>3, <2>4, Zenon DEF marked
    <2> QED  BY <2>5, <1>3
  <1> QED  BY <1>2, <1>4

\* The errors of a course are those it has alone, and that its id was taken
LEMMA OwnErrors ==
    ASSUME NEW d \in Document, NEW k \in DOMAIN d.courses, NEW p, p.severity = "error"
    PROVE  LET c == d.courses[k]
               alone == [d EXCEPT !.courses = <<c>>]
           IN p \in validate_course(d, k) <=>
                \/ p \in validate_course(alone, 1)
                \/ /\ p = Error("duplicate-course-id", c.id, 0)
                   /\ \E j \in 1..(k - 1) : d.courses[j].id = c.id
  <1> DEFINE c == d.courses[k]
  <1> DEFINE alone == [d EXCEPT !.courses = <<c>>]
  <1> DEFINE taken(e, j) == \E h \in 1..(j - 1) : e.courses[h].id = c.id
  <1>1. alone.marks = d.marks /\ alone.lines = d.lines /\ alone.courses = <<c>>
    BY DEF Document
  <1>2. p \notin Mismatch(d, c) /\ p \notin Mismatch(alone, c)
    BY FindingFields DEF Mismatch, If
  <1>3. ~taken(alone, 1) /\ alone.courses[1] = c
    BY <1>1
  <1> DEFINE Rest(e) ==
        If(c.series \notin series, Error("unknown-series", c.id, 0))
          \cup If(c.printed <= 0, Error("bad-distance", c.id, 0))
          \cup IF c.legs = <<>> THEN {Error("no-legs", c.id, 0)}
             ELSE validate_legs(c, d.marks)
                    \cup If(c.shortened \notin {Missing} \cup 0..(Len(c.legs) - 1),
                            Error("bad-shortened-at", c.id, 0))
                    \cup Mismatch(e, c)
  <1>4. validate_course(d, k) = If(taken(d, k), Error("duplicate-course-id", c.id, 0)) \cup Rest(d)
    BY DEF validate_course
  <1>5. validate_course(alone, 1)
          = If(taken(alone, 1), Error("duplicate-course-id", c.id, 0)) \cup Rest(alone)
    <2> HIDE DEF alone, c
    <2> QED  BY <1>1, <1>3 DEF validate_course
  <1>6. p \in Rest(d) <=> p \in Rest(alone)
    <2> HIDE DEF alone, c
    <2> QED  BY <1>2
  <1> HIDE DEF Rest, alone, c
  <1>7. p \in validate_course(d, k) <=>
          p \in validate_course(alone, 1)
            \/ (p = Error("duplicate-course-id", c.id, 0) /\ taken(d, k))
    BY <1>3, <1>4, <1>5, <1>6 DEF If
  <1> QED  BY <1>7 DEF alone, c

\* Of the errors in force, those of a course are found of it or of one with its id
LEMMA ErrorsOfACourse ==
    ASSUME NEW d \in Document, NEW k \in DOMAIN d.courses, NEW p \in validate(d),
           p.course = d.courses[k].id
    PROVE  \E j \in DOMAIN d.courses :
             p \in validate_course(d, j) /\ d.courses[j].id = d.courses[k].id
  <1>1. d.courses \in Seq(CourseRead)
    BY DEF Document
  <1>2. d.courses[k] \in CourseRead
    BY <1>1
  <1>3. d.courses[k].id # Nobody
    BY <1>2 DEF CourseRead
  <1>4. p \notin validate_marks(d.marks) \cup validate_lines(d.lines, d.marks)
    BY <1>3, OfNoCourse
  <1>5. PICK j \in DOMAIN d.courses : p \in validate_course(d, j)
    BY <1>4 DEF validate
  <1> QED  BY <1>5, OfThisCourse

-----------------------------------------------------------------------------
(* What is served of them                                                  *)

\* What the service serves is what it read, and what it found wrong with it
ServesWhatItRead ==
    loaded.up => /\ loaded.docs \in Document /\ loaded.problems = validate(loaded.docs)
                 /\ loaded.unraceable = unraceable(loaded.problems)
CoursesInv == docs \in Document /\ ServesWhatItRead

LEMMA CoursesInvInit == CoursesInit => CoursesInv
  BY DocumentsAssumption DEF CoursesInit, CoursesInv, ServesWhatItRead

LEMMA CoursesInvStep == CoursesInv /\ [CoursesNext]_coursesVars => CoursesInv'
  <1> SUFFICES ASSUME CoursesInv, [CoursesNext]_coursesVars PROVE CoursesInv'
    OBVIOUS
  <1>1. CASE Edits
    BY <1>1 DEF Edits, CoursesInv, ServesWhatItRead
  <1>2. CASE load_config
    <2>1. CASE Raises(docs.lines)
      BY <1>2, <2>1 DEF load_config, CoursesInv, ServesWhatItRead
    <2>2. CASE ~Raises(docs.lines)
      <3>1. /\ loaded'.docs = docs /\ loaded'.problems = validate(docs)
            /\ loaded'.unraceable = unraceable(validate(docs)) /\ docs' = docs
        BY <1>2, <2>2 DEF load_config
      <3> QED  BY <3>1 DEF CoursesInv, ServesWhatItRead
    <2> QED  BY <2>1, <2>2
  <1>3. CASE UNCHANGED coursesVars
    BY <1>3 DEF coursesVars, CoursesInv, ServesWhatItRead
  <1> QED  BY <1>1, <1>2, <1>3 DEF CoursesNext

\* The documents stay documents, and what is served is what was read of them
\* (app.py:108)
THEOREM CoursesServed == CoursesSpec => []CoursesInv
  <1> QED  BY CoursesInvInit, CoursesInvStep, PTL DEF CoursesSpec

\* A course is refused exactly if an error names it
LEMMA Refused ==
    ASSUME CoursesInv, loaded.up, NEW k \in DOMAIN loaded.docs.courses
    PROVE  loaded.docs.courses[k].id \in loaded.unraceable <=>
             \E p \in validate(loaded.docs) :
                p.severity = "error" /\ p.course = loaded.docs.courses[k].id
  <1>1. loaded.docs.courses \in Seq(CourseRead)
    BY DEF CoursesInv, ServesWhatItRead, Document
  <1>2. loaded.docs.courses[k] \in CourseRead
    BY <1>1
  <1>3. loaded.docs.courses[k].id # Nobody
    BY <1>2 DEF CourseRead
  <1> QED  BY <1>3 DEF CoursesInv, ServesWhatItRead, unraceable

LEMMA ServedIsRaceableHolds == CoursesInv => ServedIsRaceable
  <1> SUFFICES ASSUME CoursesInv, loaded.up, NEW k \in DOMAIN loaded.docs.courses,
                      loaded.docs.courses[k].id \notin loaded.unraceable
               PROVE  LET c == loaded.docs.courses[k]
                          legs == c.legs
                      IN /\ legs # <<>> /\ {i \in DOMAIN legs : legs[i].finish} = {Len(legs)}
                         /\ c.shortened # Missing => c.shortened + 1 \in DOMAIN legs
                         /\ DocumentWide = {} => api_select(c) = "chosen"
                         /\ api_select(c) = "chosen"
                              /\ Far(course_distance(loaded.docs, legs), c.printed) > tolerance =>
                            Warning("distance-mismatch", c.id, 0) \in loaded.problems
    BY DEF ServedIsRaceable
  <1> DEFINE d == loaded.docs
  <1> DEFINE c == d.courses[k]
  <1>1. d \in Document /\ loaded.problems = validate(d)
    BY DEF CoursesInv, ServesWhatItRead
  <1>2. \A p \in validate_course(d, k) : p.severity # "error"
    BY Refused, OfThisCourse, FoundOfTheDocuments
  <1>3. /\ c.legs # <<>> /\ {i \in DOMAIN c.legs : c.legs[i].finish} = {Len(c.legs)}
        /\ c.shortened # Missing => c.shortened + 1 \in DOMAIN c.legs
        /\ c.printed > 0
        /\ \A i \in DOMAIN c.legs : ~c.legs[i].finish => c.legs[i].mark \in ids(d.marks)
    BY <1>1, <1>2, FaultlessCourse
  <1>4. ASSUME DocumentWide = {} PROVE api_select(c) = "chosen"
    <2>1. /\ has_position(d.lines.inner) /\ has_position(d.lines.outer)
          /\ \A id \in ids(d.marks) : has_position(marked(d.marks, id).at)
      BY <1>1, <1>4, FaultlessMarks DEF DocumentWide
    <2> HIDE DEF c
    <2>2. Steerable(d, c.legs)
      BY <1>3, <2>1 DEF Steerable
    <2>3. c.id \notin loaded.unraceable
      BY DEF c
    <2> QED  BY <2>2, <2>3 DEF api_select
  <1>5. ASSUME api_select(c) = "chosen", Far(course_distance(d, c.legs), c.printed) > tolerance
        PROVE  Warning("distance-mismatch", c.id, 0) \in loaded.problems
    <2>1. Steerable(d, c.legs)
      BY <1>5, Zenon DEF api_select
    <2>2. Warning("distance-mismatch", c.id, 0) \in Mismatch(d, c)
      <3> HIDE DEF c, d
      <3> QED  BY <2>1, <1>3, <1>5 DEF Mismatch, If
    <2>3. Mismatch(d, c) \subseteq validate_course(d, k)
      BY <1>3 DEF validate_course
    <2> QED  BY <2>2, <2>3, <1>1, FoundOfTheDocuments
  <1> QED  BY <1>3, <1>4, <1>5

LEMMA RefusedIsBrokenHolds == CoursesInv => RefusedIsBroken
  <1> SUFFICES ASSUME CoursesInv, loaded.up, NEW k \in DOMAIN loaded.docs.courses
               PROVE  LET c == loaded.docs.courses[k]
                          d == [loaded.docs EXCEPT !.courses = <<c>>]
                          alone == {p \in validate(d) : p.severity = "error" /\ p.course = c.id}
                          again == Cardinality({j \in DOMAIN loaded.docs.courses :
                                                  loaded.docs.courses[j].id = c.id}) > 1
                      IN c.id \in loaded.unraceable <=> again \/ alone # {}
    BY DEF RefusedIsBroken
  <1> DEFINE all == loaded.docs
  <1> DEFINE c == all.courses[k]
  <1> DEFINE d == [all EXCEPT !.courses = <<c>>]
  <1> DEFINE alone == {p \in validate(d) : p.severity = "error" /\ p.course = c.id}
  <1> DEFINE same == {j \in DOMAIN all.courses : all.courses[j].id = c.id}
  <1> DEFINE named == \E p \in validate(all) : p.severity = "error" /\ p.course = c.id
  <1>1. all \in Document /\ all.courses \in Seq(CourseRead)
    BY DEF CoursesInv, ServesWhatItRead, Document
  <1>2. Len(all.courses) \in Nat /\ DOMAIN all.courses = 1..Len(all.courses)
    BY <1>1
  <1>3. c \in CourseRead /\ k \in same
    BY <1>1
  <1>4. d \in Document /\ d.courses = <<c>> /\ DOMAIN d.courses = {1} /\ d.courses[1] = c
    <2>1. <<c>> \in Seq(CourseRead) /\ DOMAIN <<c>> = {1}
      BY <1>3
    <2> HIDE DEF c
    <2> QED  BY <1>1, <2>1 DEF Document
  <1>5. IsFiniteSet(same)
    <2>1. IsFiniteSet(1..Len(all.courses))
      BY <1>2, FS_Interval
    <2> QED  BY <2>1, <1>2, FS_Subset
  <1>6. Cardinality(same) > 1 <=> \E j \in same : j # k
    <2>1. Cardinality(same) \in Nat /\ Cardinality(same) # 0
      BY <1>3, <1>5, FS_CardinalityType, FS_EmptySet
    <2>2. Cardinality(same) = 1 <=> \E x : same = {x}
      BY <1>5, FS_Singleton
    <2>3. (\E x : same = {x}) <=> ~\E j \in same : j # k
      BY <1>3
    <2> HIDE DEF same
    <2> QED  BY <2>1, <2>2, <2>3
  <1>7. ASSUME NEW p \in alone PROVE named
    <2>1. p \in validate_course(d, 1) /\ p.severity = "error" /\ p.course = c.id
      <3>1. p \in validate(d) /\ p.severity = "error" /\ p.course = d.courses[1].id
        BY <1>4
      <3>2. d.courses[1].id = c.id
        BY <1>4
      <3> HIDE DEF d, c
      <3> QED  BY <1>4, <3>1, <3>2, ErrorsOfACourse
    <2>2. p \in validate_course(all, k)
      BY <2>1, <1>1, OwnErrors
    <2> QED  BY <2>1, <2>2, FoundOfTheDocuments
  <1>8. ASSUME NEW j \in same, j # k PROVE named
    <2> DEFINE later == IF j < k THEN k ELSE j
    <2> DEFINE e == Error("duplicate-course-id", c.id, 0)
    <2>1. /\ later \in DOMAIN all.courses /\ all.courses[later].id = c.id
          /\ \E h \in 1..(later - 1) : all.courses[h].id = c.id
      BY <1>2, <1>8
    <2>2. e.severity = "error" /\ e.course = c.id
      BY FindingFields
    <2>3. e \in validate_course(all, later)
      <3>1. e = Error("duplicate-course-id", all.courses[later].id, 0)
            /\ \E h \in 1..(later - 1) : all.courses[h].id = all.courses[later].id
        BY <2>1
      <3> HIDE DEF later, e, all
      <3> QED  BY <1>1, <2>1, <2>2, <3>1, OwnErrors
    <2> HIDE DEF e, later
    <2> QED  BY <2>1, <2>2, <2>3, FoundOfTheDocuments
  <1>9. ASSUME named PROVE alone # {} \/ \E j \in same : j # k
    <2>1. PICK p \in validate(all) : p.severity = "error" /\ p.course = c.id
      BY <1>9
    <2>2. PICK j \in DOMAIN all.courses : p \in validate_course(all, j) /\ all.courses[j].id = c.id
      BY <1>1, <2>1, ErrorsOfACourse
    <2>3. CASE j = k
      <3>1. CASE p \in validate_course(d, 1)
        BY <3>1, <2>1, <1>4, FoundOfTheDocuments
      <3>2. CASE \E h \in 1..(k - 1) : all.courses[h].id = c.id
        BY <3>2, <1>2
      <3> QED  BY <1>1, <2>1, <2>2, <2>3, <3>1, <3>2, OwnErrors
    <2>4. CASE j # k
      BY <2>2, <2>4
    <2> QED  BY <2>3, <2>4
  <1>10. c.id \in loaded.unraceable <=> named
    BY <1>1, Refused DEF CoursesInv, ServesWhatItRead
  <1> HIDE DEF named, alone, same, c
  <1>11. c.id \in loaded.unraceable <=> Cardinality(same) > 1 \/ alone # {}
    BY <1>6, <1>7, <1>8, <1>9, <1>10
  <1> QED  BY <1>11 DEF alone, same, c

\* The codes of what is found of a course
LEMMA CodesOfACourse ==
    ASSUME NEW d, NEW k, NEW p \in validate_course(d, k)
    PROVE  LET c == d.courses[k]
           IN /\ p.code # "start-finish-end"
              /\ p.code = "distance-mismatch" => Steerable(d, c.legs)
              /\ p.code = "unknown-mark" =>
                    \E i \in DOMAIN c.legs : ~c.legs[i].finish /\ c.legs[i].mark \notin ids(d.marks)
  <1> DEFINE c == d.courses[k]
  <1> DEFINE unknown ==
        \E i \in DOMAIN c.legs : ~c.legs[i].finish /\ c.legs[i].mark \notin ids(d.marks)
  <1> DEFINE Fits(f) == /\ f.code # "start-finish-end"
                        /\ f.code = "distance-mismatch" => Steerable(d, c.legs)
                        /\ f.code = "unknown-mark" => unknown
  <1>1. \A code, leg : Error(code, c.id, leg).code = code /\ Warning(code, c.id, leg).code = code
    BY FindingFields
  <1>2. ASSUME NEW i \in DOMAIN c.legs, p \in LegProblems(c, i, d.marks) PROVE Fits(p)
    <2>1. p.code \in {"gates-removed", "unknown-line", "leg-shape", "bad-rounding",
                        "rounding-mismatch"}
            \/ (p.code = "unknown-mark" /\ ~c.legs[i].finish /\ c.legs[i].mark \notin ids(d.marks))
      <3> HIDE DEF c
      <3> QED  BY <1>1, <1>2 DEF LegProblems, If
    <2> HIDE DEF c
    <2> QED  BY <2>1
  <1>3. ASSUME p \in Finishes(c) PROVE Fits(p)
    <2>1. p.code \in {"no-finish", "many-finishes", "finish-not-last"}
      <3> HIDE DEF c
      <3> QED  BY <1>1, <1>3 DEF Finishes, If
    <2> QED  BY <2>1
  <1>4. ASSUME p \in Mismatch(d, c) PROVE Fits(p)
    <2>1. p.code = "distance-mismatch" /\ Steerable(d, c.legs)
      <3> HIDE DEF c
      <3> QED  BY <1>1, <1>4 DEF Mismatch, If
    <2> QED  BY <2>1
  <1>5. ASSUME p \in {Error("duplicate-course-id", c.id, 0), Error("unknown-series", c.id, 0),
                      Error("bad-distance", c.id, 0), Error("no-legs", c.id, 0),
                      Error("bad-shortened-at", c.id, 0)}
        PROVE Fits(p)
    <2>1. p.code \in {"duplicate-course-id", "unknown-series", "bad-distance", "no-legs",
                      "bad-shortened-at"}
      <3> HIDE DEF c
      <3> QED  BY <1>1, <1>5
    <2> QED  BY <2>1
  <1>6. Fits(p)
    <2> HIDE DEF Fits
    <2>1. \/ p \in {Error("duplicate-course-id", c.id, 0), Error("unknown-series", c.id, 0),
                     Error("bad-distance", c.id, 0), Error("no-legs", c.id, 0),
                     Error("bad-shortened-at", c.id, 0)}
          \/ p \in validate_legs(c, d.marks) \/ p \in Mismatch(d, c)
      BY DEF validate_course, If
    <2>2. ASSUME p \in validate_legs(c, d.marks) PROVE Fits(p)
      <3> HIDE DEF c
      <3>1. p \in Finishes(c) \/ \E i \in DOMAIN c.legs : p \in LegProblems(c, i, d.marks)
        BY <2>2 DEF validate_legs
      <3> QED  BY <3>1, <1>2, <1>3
    <2> QED  BY <2>1, <2>2, <1>4, <1>5
  <1> QED  BY <1>6

\* What is found of an end of the line is that it is not placed
LEMMA EndsNotPlaced ==
    ASSUME NEW d, NEW p \in validate_marks(d.marks) \cup validate_lines(d.lines, d.marks),
           p.code = "start-finish-end"
    PROVE  ~has_position(d.lines.inner) \/ ~has_position(d.lines.outer)
  <1>1. p \notin validate_marks(d.marks)
    <2> SUFFICES ASSUME p \in validate_marks(d.marks) PROVE FALSE
      OBVIOUS
    <2>1. PICK i \in DOMAIN d.marks :
            p \in If(\E j \in 1..(i - 1) : d.marks[j].id = d.marks[i].id,
                     Error("duplicate-mark-id", Nobody, i))
                  \cup If(~has_position(d.marks[i].at), Error("mark-no-position", Nobody, i))
      BY DEF validate_marks
    <2>2. p \in {Error("duplicate-mark-id", Nobody, i), Error("mark-no-position", Nobody, i)}
      BY <2>1 DEF If
    <2> QED  BY <2>2, FindingFields
  <1>2. \A code, leg : Error(code, Nobody, leg).code = code
    BY FindingFields
  <1> QED  BY <1>1, <1>2 DEF validate_lines, If

LEMMA OneFaultOneFindingHolds == CoursesInv => OneFaultOneFinding
  <1> SUFFICES ASSUME CoursesInv, loaded.up, NEW k \in DOMAIN loaded.docs.courses,
                      NEW p \in validate_course(loaded.docs, k),
                      NEW q \in validate_course(loaded.docs, k) \cup DocumentWide,
                      p.code = "distance-mismatch",
                      \/ q.code = "start-finish-end"
                      \/ q.code = "unknown-mark" /\ q \in validate_course(loaded.docs, k)
               PROVE  FALSE
    BY DEF OneFaultOneFinding
  <1> DEFINE d == loaded.docs
  <1>1. d \in Document /\ loaded.problems = validate(d)
    BY DEF CoursesInv, ServesWhatItRead
  <1>2. Steerable(d, d.courses[k].legs)
    BY CodesOfACourse
  <1>3. q.code # "unknown-mark" \/ q \notin validate_course(d, k)
    BY <1>2, CodesOfACourse DEF Steerable
  <1>4. q.code = "start-finish-end" /\ q \in DocumentWide
    BY <1>3, CodesOfACourse
  <1>5. q \in validate(d) /\ \A j \in DOMAIN d.courses : q \notin validate_course(d, j)
    BY <1>1, <1>4, CodesOfACourse DEF DocumentWide
  <1>6. q \in validate_marks(d.marks) \cup validate_lines(d.lines, d.marks)
    BY <1>5 DEF validate
  <1> QED  BY <1>2, <1>4, <1>6, EndsNotPlaced DEF Steerable

\* Whatever slips are made in the documents, in any order with the starts of the
\* service: a course it does not refuse leads from mark to mark to the one finish and
\* is as long as is printed, or that is doubted; a course is refused for its own
\* errors only; and where a place is missing no distance is doubted
\* (course.py:285, app.py:108)
THEOREM CoursesRaceable == CoursesSpec => []CoursesAreRaceable
  <1>1. CoursesInv => CoursesAreRaceable
    BY ServedIsRaceableHolds, RefusedIsBrokenHolds, OneFaultOneFindingHolds DEF CoursesAreRaceable
  <1> QED  BY <1>1, CoursesServed, PTL
==============================================================================
