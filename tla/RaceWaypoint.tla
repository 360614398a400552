----------------------------- MODULE RaceWaypoint -----------------------------
(***************************************************************************)
(* The waypoint dropped on the chart (store.py, docs/DESIGN.md 15) beside  *)
(* the race, of which only the mode matters here, and the choice of a      *)
(* course (app.py, api_select), each part of which takes the lock anew.    *)
(***************************************************************************)
EXTENDS RaceEngine

CONSTANTS
    Tablet,                 \* the devices a course is chosen on
    Water,                  \* where the boat may be, and where one may hold
    Heading                 \* courses over ground

ASSUME RaceWaypointAssumption ==
    /\ astern_fixes \in Nat \ {0}
    /\ None \notin [at : Water, armed : BOOLEAN, astern : Nat]

VARIABLES
    mode, hasContext,       \* Store._race.mode, Store._context # None
    waypoint,               \* Store._waypoint
    choosing,               \* of each device, how far its choice of a course is
    passed                   \* history: the fixes since the waypoint was dropped

waypointVars == <<mode, hasContext, waypoint, choosing, passed>>

WaypointFixes == [at : Water, cog : Heading \cup {None}, slow : BOOLEAN]

WaypointInit ==
    /\ mode = IDLE /\ hasContext = FALSE /\ waypoint = None
    /\ choosing = [d \in Tablet |-> "no"]
    /\ passed = [near |-> FALSE, astern |-> 0]

Live == mode \in {PRESTART, RACING}

---------------------------------------------------------------------------
(* The race, as it goes on by commands, fixes and the clock *)

Goes == [idle |-> {PRESTART}, prestart |-> {RACING, IDLE}, racing |-> {FINISHED, IDLE, PRESTART},
         finished |-> {IDLE, PRESTART}]

Race ==
    /\ hasContext /\ mode' \in Goes[mode]
    /\ UNCHANGED <<hasContext, waypoint, choosing, passed>>

\* The race that is on is reset, the waypoint cleared, the course put in and
\* chosen
Step(d, from, to) == choosing[d] = from /\ choosing' = [choosing EXCEPT ![d] = to]

Abandon(d) ==
    /\ Step(d, "no", "clear")
    /\ mode' = IF hasContext THEN IDLE ELSE mode
    /\ UNCHANGED <<hasContext, waypoint, passed>>
ClearForRace(d) ==
    /\ Step(d, "clear", "context") /\ waypoint' = None
    /\ UNCHANGED <<mode, hasContext, passed>>
PutIn(d) ==
    /\ Step(d, "context", "select") /\ hasContext' = TRUE
    /\ UNCHANGED <<mode, waypoint, passed>>
ChooseSelected(d) ==
    /\ Step(d, "select", "no") /\ mode' = PRESTART
    /\ UNCHANGED <<hasContext, waypoint, passed>>

---------------------------------------------------------------------------
(* The waypoint *)

\* Mutant: another hold moves the waypoint
HoldMoves(p) ==
    /\ ~Live
    /\ waypoint' = IF waypoint = None THEN drop(p) ELSE [waypoint EXCEPT !.at = p]
    /\ passed' = [near |-> FALSE, astern |-> 0]
    /\ UNCHANGED <<mode, hasContext, choosing>>

\* drop_waypoint(): refused while a race is live
Hold(p) ==
    /\ ~Live
    /\ waypoint' = drop(p)
    /\ passed' = [near |-> FALSE, astern |-> 0]
    /\ UNCHANGED <<mode, hasContext, choosing>>

Clear ==
    /\ waypoint' = None
    /\ UNCHANGED <<mode, hasContext, choosing, passed>>

\* on_position(), whether or not a course is chosen
OnFix(fix) ==
    /\ waypoint # None
    /\ waypoint' = waypoint_on_fix(waypoint, fix)
    /\ passed' = [near |-> passed.near \/ Within(fix.at, waypoint.at, arming_radius),
                 astern |-> CASE fix.cog = None \/ ~passed.near -> passed.astern
                              [] fix.cog # None /\ passed.near ->
                                   IF fix.slow \/ ~Abaft(fix.at, waypoint.at, fix.cog) THEN 0
                                   ELSE IF passed.astern < astern_fixes THEN passed.astern + 1 ELSE passed.astern]
    /\ UNCHANGED <<mode, hasContext, choosing>>

WaypointNext ==
    \/ Race \/ Clear
    \/ \E d \in Tablet : Abandon(d) \/ ClearForRace(d) \/ PutIn(d) \/ ChooseSelected(d)
    \/ \E p \in Water : Hold(p)
    \/ \E fix \in WaypointFixes : OnFix(fix)

WaypointSpec == WaypointInit /\ [][WaypointNext]_waypointVars

---------------------------------------------------------------------------
(***************************************************************************)
(* A fix takes the waypoint away only if it was reached: the boat is upon  *)
(* it, or since it was dropped has been near it and then had it astern for *)
(* astern_fixes in a row.  "Sailing past wide of the arming radius does    *)
(* not clear it: that was not reaching it."                                *)
(***************************************************************************)
WaypointIsReached ==
    [][\A fix \in WaypointFixes :
          waypoint # None /\ waypoint' = None /\ OnFix(fix) =>
              \/ Within(fix.at, waypoint.at, arrival_radius)
              \/ passed'.near /\ passed'.astern = astern_fixes]_waypointVars

(***************************************************************************)
(* "Two targets on the mark panel is the failure mode": no waypoint while  *)
(* a race is live (docs/DESIGN.md 15, Racing wins).                        *)
(***************************************************************************)
OneTarget == ~(Live /\ waypoint # None)
===============================================================================
