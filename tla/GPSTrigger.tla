------------------------------ MODULE GPSTrigger ------------------------------
(***************************************************************************)
(* One monitor of python/event_recorder/trigger_monitor.py: when the boat  *)
(* is taken to have left, and when to be back.                             *)
(*                                                                         *)
(* A fix comes, and the whole of _check_triggers runs for it; between two  *)
(* fixes nothing happens.  Times are kept as ages at the last fix: `cond'  *)
(* is how long ago, by the clock, condition_start_time is.  The clock is   *)
(* the wall clock (datetime.utcnow), which may be put right in between;    *)
(* `heldFor' is how long the condition has really held.                    *)
(***************************************************************************)
EXTENDS Integers

CONSTANTS
    Place, NoPlace,         \* where the boat may be
    Dist,                   \* _haversine_distance
    Mooring,                \* anchor_lat, anchor_lon
    Config,                 \* the events a monitor may be made for
    NoTime,
    Gap,                    \* real time between two fixes
    Jump,                   \* by how much the clock may be put right
    MaxJumps, MaxOutages    \* bounds

ASSUME GPSTriggerAssumption ==
    /\ Mooring \in Place /\ NoPlace \notin Place
    /\ Dist \in [Place \X Place -> Nat]
    /\ Config \subseteq [startKind : {"gps_movement", "anchor_departure"},
                          stopKind : {"gps_stopped", "anchor_return"},
                          startDistance : Nat, stopDistance : Nat,
                          startDuration : Nat, stopDuration : Nat]
    /\ NoTime \notin Int
    /\ Gap \subseteq Nat \ {0} /\ Jump \subseteq Int
    /\ MaxJumps \in Nat /\ MaxOutages \in Nat

VARIABLES
    config,     \* of the monitor, which nothing changes
    here,       \* current_position
    state,      \* of the monitor; idle and condition_met are never used
    last,       \* last_position
    cond,       \* since condition_start_time
    stat,       \* since stationary_start_time
    seen,       \* seen_inside_anchor
    heldFor,    \* history: for how long every fix has met the condition the
                \*   monitor is waiting for
    steady,     \* history: nobody has put the clock right meanwhile
    sustained,  \* history: heldFor when the monitor last changed its state,
                \*   with nothing to excuse it
    beat,       \* turns with every fix, so that one that changes nothing is a step
    jumps, outages

monitorVars == <<state, last, cond, stat, seen>>
vars == <<config, here, monitorVars, heldFor, steady, sustained, beat, jumps, outages>>

StartKind == config.startKind
StopKind == config.stopKind
StartDistance == config.startDistance   \* distance_threshold, or radius
StopDistance == config.stopDistance
StartDuration == config.startDuration
StopDuration == config.stopDuration

Longest == IF StartDuration > StopDuration THEN StartDuration ELSE StopDuration
Needed(s) == IF s = "triggered" THEN StartDuration ELSE StopDuration

TypeOK ==
    /\ config \in Config
    /\ here \in Place \cup {NoPlace}
    /\ state \in {"monitoring", "triggered"}
    /\ last \in Place \cup {NoPlace}
    /\ cond \in Int \cup {NoTime} /\ stat \in Int \cup {NoTime}
    /\ seen \in BOOLEAN
    /\ heldFor \in 0..Longest \cup {NoTime}
    /\ steady \in BOOLEAN /\ sustained \in 0..Longest
    /\ beat \in {0, 1}
    /\ jumps \in 0..MaxJumps /\ outages \in 0..MaxOutages

Init ==
    /\ config \in Config
    /\ here = NoPlace /\ state = "monitoring" /\ last = NoPlace
    /\ cond = NoTime /\ stat = NoTime /\ seen = FALSE
    /\ heldFor = NoTime /\ steady = TRUE /\ sustained = Longest
    /\ beat = 0 /\ jumps = 0 /\ outages = 0

Inside(p, radius) == Dist[Mooring, p] <= radius
Near(p) == last # NoPlace /\ Dist[last, p] < StopDistance
Far(p) == last # NoPlace /\ Dist[last, p] > StartDistance

\* A timer at a fix that meets its condition: started, kept, or run out
RunOut(t, duration) == t # NoTime /\ t >= duration
Running(t, duration) == ~RunOut(t, duration)
Kept(t) == IF t = NoTime THEN 0 ELSE t

-----------------------------------------------------------------------------
(* MONITORING: has the boat left?  c and s are cond and stat at this fix.  *)

\* "Vessel has moved away from anchor"
MovedAway(p, c) ==
    /\ Far(p)
    /\ stat' = NoTime
    /\ \/ /\ Running(c, StartDuration)
          /\ cond' = Kept(c)
          /\ UNCHANGED <<state, last>>
       \/ /\ RunOut(c, StartDuration)
          /\ state' = "triggered" /\ cond' = NoTime /\ last' = p

\* "Only advance the anchor when the vessel is genuinely stationary"
NotClearlyMoving(p, s) ==
    /\ last # NoPlace /\ ~Far(p)
    /\ cond' = NoTime
    /\ \/ /\ 4 * Dist[last, p] > StartDistance
          /\ stat' = NoTime /\ UNCHANGED last
       \/ /\ 4 * Dist[last, p] <= StartDistance /\ Running(s, StartDuration)
          /\ stat' = Kept(s) /\ UNCHANGED last
       \/ /\ 4 * Dist[last, p] <= StartDistance /\ RunOut(s, StartDuration)
          /\ stat' = 0 /\ last' = p
    /\ UNCHANGED state

GpsMovement(p, c, s) ==
    /\ \/ last = NoPlace /\ last' = p /\ stat' = 0 /\ cond' = c /\ UNCHANGED state
       \/ MovedAway(p, c)
       \/ NotClearlyMoving(p, s)
    /\ UNCHANGED seen

\* Mutants: the timer is not reset inside; it starts afresh at every fix
AnchorDepartureKeepsTimer(p, c, s) ==
    /\ \/ /\ Inside(p, StartDistance)
          /\ seen' = TRUE /\ cond' = c /\ UNCHANGED state
       \/ /\ ~Inside(p, StartDistance) /\ UNCHANGED seen
          /\ \/ ~seen /\ cond' = c /\ UNCHANGED state
             \/ seen /\ Running(c, StartDuration) /\ cond' = Kept(c) /\ UNCHANGED state
             \/ seen /\ RunOut(c, StartDuration) /\ cond' = NoTime /\ state' = "triggered"
    /\ stat' = s /\ UNCHANGED last

AnchorDepartureStartsAfresh(p, c, s) ==
    /\ \/ /\ Inside(p, StartDistance)
          /\ seen' = TRUE /\ cond' = NoTime /\ UNCHANGED state
       \/ /\ ~Inside(p, StartDistance) /\ UNCHANGED <<seen, state>>
          /\ cond' = IF seen THEN 0 ELSE c
    /\ stat' = s /\ UNCHANGED last

\* "Only armed after the vessel has been confirmed inside the anchor zone"
AnchorDeparture(p, c, s) ==
    /\ \/ /\ Inside(p, StartDistance)
          /\ seen' = TRUE /\ cond' = NoTime /\ UNCHANGED state
       \/ /\ ~Inside(p, StartDistance) /\ UNCHANGED seen
          /\ \/ ~seen /\ cond' = c /\ UNCHANGED state
             \/ seen /\ Running(c, StartDuration) /\ cond' = Kept(c) /\ UNCHANGED state
             \/ seen /\ RunOut(c, StartDuration) /\ cond' = NoTime /\ state' = "triggered"
    /\ stat' = s /\ UNCHANGED last

-----------------------------------------------------------------------------
(* TRIGGERED: is the boat back?                                            *)

\* The condition of a stop is met: once for long enough, the monitor stops
StopTimer(s) ==
    \/ Running(s, StopDuration) /\ stat' = Kept(s) /\ UNCHANGED state
    \/ RunOut(s, StopDuration) /\ stat' = NoTime /\ state' = "monitoring"

\* Mutant: the anchor stays where it was
GpsStoppedKeepsAnchor(p, s) ==
    /\ \/ last = NoPlace /\ last' = p /\ stat' = s /\ UNCHANGED state
       \/ Near(p) /\ StopTimer(s) /\ UNCHANGED last
       \/ last # NoPlace /\ ~Near(p) /\ stat' = NoTime /\ UNCHANGED <<state, last>>

GpsStopped(p, s) ==
    /\ \/ last = NoPlace /\ last' = p /\ stat' = s /\ UNCHANGED state
       \/ Near(p) /\ StopTimer(s) /\ UNCHANGED last
       \/ last # NoPlace /\ ~Near(p) /\ stat' = NoTime /\ last' = p /\ UNCHANGED state

AnchorReturn(p, s) ==
    /\ \/ Inside(p, StopDistance) /\ StopTimer(s)
       \/ ~Inside(p, StopDistance) /\ stat' = NoTime /\ UNCHANGED state
    /\ UNCHANGED last

-----------------------------------------------------------------------------
\* What the monitor is waiting for, as one fix shows it
Met(p) ==
    IF state = "monitoring"
    THEN IF StartKind = "gps_movement" THEN Far(p) ELSE ~Inside(p, StartDistance)
    ELSE IF StopKind = "gps_stopped" THEN Near(p) ELSE Inside(p, StopDistance)

HeldNow(p, gap) ==
    CASE ~Met(p) -> NoTime
      [] Met(p) /\ heldFor = NoTime -> 0
      [] Met(p) /\ heldFor # NoTime ->
            IF heldFor + gap < Longest THEN heldFor + gap ELSE Longest

\* What the history makes of a fix
StillSteady(jump) == heldFor = NoTime \/ (steady /\ jump = 0)

Remember(p, gap, jump) ==
    LET held == HeldNow(p, gap)
    IN IF state' = state
       THEN /\ heldFor' = held /\ steady' = (held = NoTime \/ StillSteady(jump))
            /\ UNCHANGED sustained
       ELSE /\ heldFor' = NoTime /\ steady' = TRUE
            /\ sustained' = IF ~StillSteady(jump) THEN Longest
                            ELSE IF held = NoTime THEN 0 ELSE held

Later(t, by) == IF t = NoTime THEN NoTime ELSE t + by

\* A fix, `gap' after the last, with the clock put right by `jump' meanwhile
Fix(p, gap, jump) ==
    /\ here' = p
    /\ LET c == Later(cond, gap + jump)
           s == Later(stat, gap + jump)
       IN \/ state = "monitoring" /\ StartKind = "gps_movement" /\ GpsMovement(p, c, s)
          \/ state = "monitoring" /\ StartKind = "anchor_departure" /\ AnchorDeparture(p, c, s)
          \/ state = "triggered" /\ StopKind = "gps_stopped" /\ GpsStopped(p, s)
             /\ cond' = c /\ UNCHANGED seen
          \/ state = "triggered" /\ StopKind = "anchor_return" /\ AnchorReturn(p, s)
             /\ cond' = c /\ UNCHANGED seen
    /\ Remember(p, gap, jump)
    /\ beat' = 1 - beat
    /\ jumps' = IF jump = 0 THEN jumps ELSE jumps + 1
    /\ UNCHANGED <<config, outages>>

Fixes == \E p \in Place, gap \in Gap, jump \in Jump \cup {0} :
            (jump = 0 \/ jumps < MaxJumps) /\ Fix(p, gap, jump)

\* The service restarts: add_monitor, and resume_monitor if there is a recording
\* of the event in progress
Restart ==
    /\ outages < MaxOutages /\ outages' = outages + 1
    /\ here' = NoPlace /\ last' = NoPlace
    /\ cond' = NoTime /\ stat' = NoTime /\ seen' = FALSE
    /\ state' \in {"monitoring", "triggered"}
    /\ heldFor' = NoTime /\ steady' = TRUE
    /\ sustained' = Longest
    /\ UNCHANGED <<config, beat, jumps>>

Next == Fixes \/ Restart

Spec == Init /\ [][Next]_vars

\* The GPS goes on giving fixes; nothing the monitor does would without them
FairSpec == Spec /\ WF_vars(Fixes)

-----------------------------------------------------------------------------
(***************************************************************************)
(* What a monitor promises, and the inductive invariant the first of the   *)
(* properties rests on.                                                    *)
(***************************************************************************)

\* A recording is started or stopped only by what has lasted: "movement > 20 m
\* sustained for 10 seconds", "stationary < 5 m for 60 seconds" (FR-1), unless the
\* clock was put right while it lasted
TriggersAreSustained == sustained >= Needed(state)

\* A boat at rest, on her mooring where that is what ends a recording, is in
\* the end not recorded, and does not set off another recording by being there
ComesToRest ==
    \A p \in Place :
        (StopKind = "gps_stopped" \/ Inside(p, StopDistance))
        => (<>[](here = p) => <>[](state = "monitoring"))

\* A boat that has been seen on her mooring and is away for good is recorded,
\* where only her return ends a recording
GoneIsRecorded ==
    <>[](StopKind = "anchor_return" /\ seen /\ here # NoPlace /\ ~Inside(here, StartDistance))
        => <>[](state = "triggered")

\* Outings are recorded from their first to their last, and no rest is
\* (trigger_monitor.py, evaluate): both of the above
OutingsAreRecorded == ComesToRest /\ GoneIsRecorded
-----------------------------------------------------------------------------
\* The parts of the inductive invariant

\* A timer that runs has run for no longer than the condition has held, where
\* the clock has been left alone
LastsAsLong(timer) ==
    /\ timer # NoTime => heldFor # NoTime
    /\ timer # NoTime /\ steady => timer <= heldFor
TimerIsTrue == LastsAsLong(IF state = "monitoring" THEN cond ELSE stat)

\* No timer is left over from the other state, or from before a first fix
NoneLeftOver ==
    /\ state = "triggered" => cond = NoTime
    /\ state = "monitoring" /\ StartKind = "anchor_departure" => stat = NoTime
    /\ state = "monitoring" /\ StartKind = "gps_movement" /\ last = NoPlace => cond = NoTime
    /\ state = "monitoring" /\ ~seen /\ StartKind = "anchor_departure" => cond = NoTime
    /\ state = "triggered" /\ last = NoPlace /\ StopKind = "gps_stopped" => stat = NoTime

IInv ==
    /\ TypeOK
    /\ TriggersAreSustained
    /\ TimerIsTrue
    /\ NoneLeftOver
=============================================================================
