------------------------------- MODULE RaceApp -------------------------------
(***************************************************************************)
(* The race of python/enchantee_racing: store.py holds the one race and    *)
(* its course behind one lock; app.py moves them for every device's        *)
(* buttons, mqtt_client.py for every fix.                                  *)
(*                                                                         *)
(* One section of the lock is one step here.  A button is one section but  *)
(* for the choice of a course, which is several (api_select): in between,  *)
(* any other device and the next fix may come.  The waypoint, the trail    *)
(* and the way of the events to the broker are modules of their own.       *)
(***************************************************************************)
EXTENDS RaceEngine

CONSTANTS
    Device,                 \* phones and tablets
    Position, Course,
    Hooter, NudgeStep,      \* minutes before the gun; seconds a nudge moves it
    Fixes,                  \* what may come as a fix
    MaxTime                 \* bound

ASSUME RaceAppAssumption ==
    /\ None \notin Int /\ None \notin Position \cup Course
    /\ Hooter \subseteq Nat /\ NudgeStep \subseteq Int
    /\ Fixes \subseteq [at : Position, cog : (Int \X Int) \cup {None}, slow : BOOLEAN]
    /\ MaxTime \in Nat

\* The settings, and what courses.json has: its shortest course has 7 marks
ASSUME RaceSettingsAssumption ==
    /\ inner \in Int \X Int /\ outer \in Int \X Int /\ Position \subseteq Int \X Int
    /\ \A c \in Course : Legs[c] \in Seq(DOMAIN MarkAt) /\ Len(Legs[c]) > 1
    /\ noCrossLines \in Seq((DOMAIN MarkAt) \X (DOMAIN MarkAt))
    /\ astern_fixes \in Nat \ {0}
    /\ suppress_after_advance \in Nat /\ position_stale \in Nat

VARIABLES
    now,            \* time.time()
    race,           \* Store._race
    context,        \* Store._context, by its course
    fixAt,          \* history: when the last fix came, once the finish is armed
    pc, want,       \* of each device choosing a course, how far it is, and which
    chosen,         \* history: the last choice to begin, None if it began with
                    \*   another under way
    approached,     \* history: the boat has been near the mark of this leg since
                    \*   it began
    firstSide       \* history: the first side the boat was seen on since the
                    \*   finish was armed

engineVars == <<race, approached, firstSide>>
choiceVars == <<pc, want, chosen>>
vars == <<now, engineVars, context, fixAt, choiceVars>>

RaceState ==
    [mode : {IDLE, PRESTART, RACING, FINISHED}, course : Course \cup {None}, leg : Nat,
     start_at : Int \cup {None}, finished_at : Nat \cup {None},
     armed_leg : Nat \cup {None}, astern : 0..(astern_fixes - 1), suppress_until : Nat,
     finish_armed : BOOLEAN, finish_side : {-1, 1, None}, shortened : BOOLEAN,
     previous_fix : Position \cup {None}]

TypeOK ==
    /\ now \in 0..MaxTime
    /\ race \in RaceState /\ context \in Course \cup {None}
    /\ fixAt \in Nat \cup {None}
    /\ pc \in [Device -> {"free", "context", "select"}]
    /\ want \in [Device -> Course \cup {None}]
    /\ \A d \in Device : pc[d] # "free" => want[d] \in Course
    /\ chosen \in Course \cup {None}
    /\ approached \in BOOLEAN /\ firstSide \in {-1, 1, None}

Init ==
    /\ now = 0 /\ race = initial /\ context = None /\ fixAt = None
    /\ pc = [d \in Device |-> "free"] /\ want = [d \in Device |-> None]
    /\ chosen = None
    /\ approached = FALSE /\ firstSide = None

---------------------------------------------------------------------------
(* The history of a transition: what a leg began with, and since when the  *)
(* finish is armed                                                         *)

BeginsLeg(r) == \E i \in DOMAIN r.events : r.events[i] \in {"select", "start", "rounded", "back"}
Arms(r) == \/ r.state.finish_armed /\ ~race.finish_armed
           \/ \E i \in DOMAIN r.events : r.events[i] \in {"shorten", "start"}
FinishWatched(s) == s.mode = RACING /\ s.finish_armed

\* apply_race(), the part of it that stores what the engine answers
Apply(r) ==
    /\ race' = r.state
    /\ approached' = (approached /\ ~BeginsLeg(r) /\ r.state.mode = RACING)
    /\ firstSide' = IF Arms(r) \/ ~FinishWatched(r.state) THEN None ELSE firstSide

---------------------------------------------------------------------------
(* Buttons *)

\* POST /api/timer, advance, shorten and reset, once a course was chosen
Press(r) ==
    /\ context # None
    /\ Apply(r)
    /\ UNCHANGED <<now, context, fixAt, choiceVars>>

Timer == \E minutes \in Hooter \cup {None} : Press(set_timer(race, minutes, now))
Nudge ==
    \E seconds \in NudgeStep :
        /\ race.start_at # None => race.start_at + seconds \in 0..MaxTime
        /\ Press(nudge_timer(race, seconds))
Advance == \E dir \in {-1, 1} : context # None /\ Press(advance(race, context, dir, now))
Shorten == Press(shorten(race))
Reset == Press(reset(race))

\* POST /api/select: what was being raced ends, the course is put in, and is
\* chosen
Choose(d, c) ==
    /\ pc[d] = "free"
    /\ IF context = None \/ race.mode = IDLE THEN UNCHANGED engineVars
       ELSE Apply(reset(race))
    /\ pc' = [pc EXCEPT ![d] = "context"] /\ want' = [want EXCEPT ![d] = c]
    /\ chosen' = IF \A other \in Device : pc[other] = "free" THEN c ELSE None
    /\ UNCHANGED <<now, context, fixAt>>

\* Mutant: a course that is there is kept
ChooseContextOnce(d) ==
    /\ pc[d] = "context"
    /\ context' = IF context = None THEN want[d] ELSE context
    /\ pc' = [pc EXCEPT ![d] = "select"]
    /\ UNCHANGED <<now, engineVars, fixAt, want, chosen>>

ChooseContext(d) ==
    /\ pc[d] = "context"
    /\ context' = want[d]
    /\ pc' = [pc EXCEPT ![d] = "select"]
    /\ UNCHANGED <<now, engineVars, fixAt, want, chosen>>

ChooseSelect(d) ==
    /\ pc[d] = "select"
    /\ Apply(select(race, want[d]))
    /\ pc' = [pc EXCEPT ![d] = "free"] /\ want' = [want EXCEPT ![d] = None]
    /\ UNCHANGED <<now, context, fixAt, chosen>>

---------------------------------------------------------------------------
(* Fixes and polls *)

\* Mutant: the race is only told, not moved
PollOnlyTells ==
    context # None /\ UNCHANGED vars

\* race_payload(), which every page asks for twice a second, and the end of
\* every button but the waypoint's
Poll ==
    /\ context # None
    /\ Apply(on_clock(race, context, now))
    /\ UNCHANGED <<now, context, fixAt, choiceVars>>

Approaches(s, fix) ==
    /\ s.mode = RACING /\ s.leg <= last_leg(context)
    /\ Within(fix.at, leg_target(context, s.leg), arming_radius)
Seen(p) == IF side(inner, outer, p) = 0 THEN None ELSE side(inner, outer, p)

\* on_position().  The clock is read for the arrival, and again for the race:
\* it may have been put forward in between
Fix(fix, evaluated) ==
    LET usable == evaluated - now <= position_stale
        started == on_clock(race, context, evaluated)
        moved == on_fix(started.state, context, fix, now, evaluated)
        r == Then(started, moved)
    IN /\ now' = evaluated
       /\ IF context = None THEN UNCHANGED <<engineVars, fixAt>>
          ELSE /\ fixAt' = IF FinishWatched(r.state) THEN now ELSE None
               /\ race' = r.state
               /\ approached' = /\ ~BeginsLeg(moved) /\ r.state.mode = RACING
                                /\ \/ approached /\ ~BeginsLeg(started)
                                   \/ usable /\ Approaches(started.state, fix)
               /\ firstSide' = CASE Arms(r) \/ ~FinishWatched(r.state) -> None
                                 [] ~Arms(r) /\ FinishWatched(r.state) /\ usable /\ firstSide = None -> Seen(fix.at)
                                 [] OTHER -> firstSide
       /\ UNCHANGED <<context, choiceVars>>

OnPosition == \E fix \in Fixes, evaluated \in now..MaxTime :
    /\ evaluated \in {now, now + position_stale + 1}
    /\ Fix(fix, evaluated)

Tick ==
    /\ now < MaxTime
    /\ now' = now + 1
    /\ UNCHANGED <<engineVars, context, fixAt, choiceVars>>

Next ==
    \/ Timer \/ Nudge \/ Advance \/ Shorten \/ Reset
    \/ \E d \in Device : \/ \E c \in Course : Choose(d, c)
                         \/ ChooseContext(d) \/ ChooseSelect(d)
    \/ Poll \/ OnPosition \/ Tick

Spec == Init /\ [][Next]_vars
FairSpec == Spec /\ WF_vars(Poll) /\ WF_vars(Tick)

-----------------------------------------------------------------------------
(***************************************************************************)
(* What the crew may rely on in a race.                                    *)
(***************************************************************************)

(***************************************************************************)
(* The course that is being raced, by which every device names the next    *)
(* mark, is the one the engine steers by: between prestart and finish the  *)
(* state and the context are of one choice, that of the last device to     *)
(* choose.  api_select changes the two under the lock, but not in one      *)
(* section of it; while one choice is being made, and after two were made  *)
(* at once, nothing is promised.                                           *)
(***************************************************************************)
CourseIsTheOneChosen ==
    /\ race.mode # IDLE
    /\ chosen # None
    /\ \A d \in Device : pc[d] = "free"
    => race.course = chosen /\ context = chosen

(***************************************************************************)
(* The finish is detected from one side only: the first on which the boat  *)
(* was seen after the finish was last armed, whatever the crew commanded   *)
(* before, taking legs back, shortening or starting again included.        *)
(***************************************************************************)
FinishSideIsFresh ==
    race.mode = RACING /\ race.finish_armed => race.finish_side = firstSide

(***************************************************************************)
(* A fix ends the race only if it completes a track between the ends of    *)
(* the line, away from the side on which the boat was first seen since the *)
(* finish was armed.                                                       *)
(***************************************************************************)
FinishIsACrossing ==
    [][\A fix \in Fixes, evaluated \in now..MaxTime :
          race.mode = RACING /\ race'.mode = FINISHED /\ Fix(fix, evaluated) =>
              /\ CrossedLine(race.previous_fix, fix.at)
              /\ firstSide # None /\ side(inner, outer, fix.at) # firstSide]_vars

(***************************************************************************)
(* A fix moves the boat to the next leg only if on this leg she has been   *)
(* near its mark, and has it abaft the beam.  "A false advance points the  *)
(* helm at the wrong buoy": an approach made before the crew took a leg    *)
(* back or forth, or before a start, counts for nothing.                   *)
(***************************************************************************)
RoundingIsEarned ==
    [][\A fix \in Fixes, evaluated \in now..MaxTime :
          race.mode = RACING /\ race'.leg # race.leg /\ Fix(fix, evaluated) =>
              /\ race'.leg = race.leg + 1
              /\ approached /\ now >= race.suppress_until
              /\ fix.cog # None /\ Abaft(fix.at, leg_target(context, race.leg), fix.cog)]_vars

(***************************************************************************)
(* Neither a leg nor the race ends but by what the boat did, whatever the  *)
(* crew pressed before (race.py:499, :539).                                *)
(***************************************************************************)
EndsAreEarned == []FinishSideIsFresh /\ FinishIsACrossing /\ RoundingIsEarned

(***************************************************************************)
(* The gun goes by the clock: a start that is due happens, though no fix   *)
(* comes, unless the crew moves it or takes it back.  The pages poll.      *)
(***************************************************************************)
StartIsNotMissed == StartIsDue(race, now) ~> ~StartIsDue(race, now)

(***************************************************************************)
(* A crossing of the finish is never made up from two fixes with a gap     *)
(* between them longer than the one a position is good for: "a gap in the  *)
(* data cannot be joined into a straight line across the finish"           *)
(* (engine/race.py:123).                                                   *)
(***************************************************************************)
GapIsNotBridged ==
    [][\A fix \in Fixes, evaluated \in now..MaxTime :
          race.mode = RACING /\ race'.mode = FINISHED /\ Fix(fix, evaluated) =>
              fixAt # None /\ now - fixAt <= position_stale]_vars
=============================================================================
