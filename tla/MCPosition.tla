------------------------------ MODULE MCPosition ------------------------------
(***************************************************************************)
(* What is made of where the boat is, for TLC: by the recorder, the        *)
(* monitor that starts and stops a recording, and the events that monitors *)
(* are made of; by the racing display, the day's trail and the readings on *)
(* every page.                                                             *)
(* They share no state that matters to the other; each is run by itself,   *)
(* and part says which.                                                    *)
(***************************************************************************)
EXTENDS GPSTrigger, Config, RaceTrail, Hud

VARIABLE part

-----------------------------------------------------------------------------
(* The monitor: places on a line                                           *)

Line == 0..6
AlongTheLine == [pair \in Line \X Line |->
    IF pair[1] < pair[2] THEN pair[2] - pair[1] ELSE pair[1] - pair[2]]

\* The two pairs of conditions of the example configuration
Event(start, stop) == [startKind |-> start, stopKind |-> stop,
                       startDistance |-> 4, stopDistance |-> 2,
                       startDuration |-> 3, stopDuration |-> 4]
Configs == {Event("gps_movement", "gps_stopped"),
            Event("anchor_departure", "anchor_return")}

Gaps == {1, 2}
PutRight == {-3, 0, 3}

-----------------------------------------------------------------------------
(* The display                                                             *)

\* Fixes that lie on a line, two apart or in one place
TwoApart == {0, 2}

\* Readings of which something is made
SomeReadings ==
    {{"hdg", "twd"}, {"hdg", "awa", "awd"}, {"cog", "hdg", "sog"}, {"accy", "accz"}, {"rpm"},
     {"position"}, {"recording"}}

-----------------------------------------------------------------------------
(* The events the monitors are made of                                     *)

TwoDates == {1, 3}
\* The clock right, or before every file
Clocks == {0, -3}

-----------------------------------------------------------------------------
positionVars == <<part, vars, configVars, trailVars, hudVars>>

\* A part that does not run is in one state of its own
PositionInit ==
    /\ part \in {"monitor", "config", "trail", "hud"}
    /\ Init /\ ConfigInit /\ TrailInit /\ HudInit
    /\ part # "monitor" => config = Event("gps_movement", "gps_stopped")
    /\ part # "config" => offset = 0 /\ files = <<>>
    /\ part # "hud" => heard = {"rpm"}

\* The bounds stop the configuration once its time is up
PositionNext ==
    /\ UNCHANGED part
    /\ \/ part = "monitor" /\ Next
          /\ UNCHANGED <<configVars, trailVars, hudVars>>
       \/ part = "config" /\ (ConfigNext \/ (passed = MaxNow /\ UNCHANGED configVars))
          /\ UNCHANGED <<vars, trailVars, hudVars>>
       \/ part = "trail" /\ TrailNext
          /\ UNCHANGED <<vars, configVars, hudVars>>
       \/ part = "hud" /\ HudNext
          /\ UNCHANGED <<vars, configVars, trailVars>>

\* Fixes keep coming; the pages of the trail poll (RaceTrail)
PositionSpec ==
    /\ PositionInit /\ [][PositionNext]_positionVars
    /\ part = "monitor" => WF_vars(Fixes)
===============================================================================
