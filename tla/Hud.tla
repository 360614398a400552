--------------------------------- MODULE Hud ---------------------------------
(***************************************************************************)
(* What every page of the racing display shows but the race: the latest    *)
(* readings of store.py, how old each is, and what is derived of them.     *)
(* The network loop writes readings while requests are being answered: an  *)
(* answer takes the time, then a snapshot, and has the race's part from    *)
(* what is there after that (Store.state).                                 *)
(***************************************************************************)
EXTENDS Integers, FiniteSets, FiniteSetsExt, Functions

CONSTANTS
    Reported,       \* sets of keys that come in
    RPM_DEADBAND, MOTOR_HOLD_S, RECORDING_STALE_S, POSITION_STALE_S,
    MaxHudTime, MaxBetween  \* bounds: the time, readings during one answer

ASSUME HudAssumption ==
    /\ RPM_DEADBAND \in Nat /\ MOTOR_HOLD_S \in Nat
    /\ RECORDING_STALE_S \in Nat /\ POSITION_STALE_S \in Nat
    /\ MaxHudTime \in Nat /\ MaxBetween \in Nat

VARIABLES
    heard,          \* the keys that come in this time
    values,         \* _values: of each key that came, its last reading
    motor_last,
    time,
    answering,      \* the time and the snapshot of an answer being made
    between,        \* readings that came during it
    shown,          \* the last answer
    turned,         \* history: when the motor was heard to turn
    said            \* history: when a recording was heard to be active

hudVars == <<heard, values, motor_last, time, answering, between, shown, turned, said>>

Never == -1
\* A motor at rest and one that turns, a recording that ended and one that runs, a
\* boat that makes too little way for a leeway and one that does
Values(key) == IF key \in {"rpm", "recording", "sog"} THEN {0, RPM_DEADBAND + 1} ELSE {0}
Runs(reading) == reading.v > RPM_DEADBAND
Free == [open |-> FALSE]

HudInit ==
    /\ heard \in Reported
    /\ values = [key \in {} |-> 0] /\ motor_last = Never - MOTOR_HOLD_S /\ time = 0
    /\ answering = Free /\ between = 0 /\ shown = Free
    /\ turned = {} /\ said = {}

Passes == time < MaxHudTime /\ time' = time + 1
          /\ UNCHANGED <<heard, values, motor_last, answering, between, shown, turned, said>>

\* Mutant: any word of the motor
MotorLastNot(key, v) == IF key = "rpm" THEN time ELSE motor_last

\* When the motor last turned: known only as its readings come in
MotorLast(key, v) == IF key = "rpm" /\ v > RPM_DEADBAND THEN time ELSE motor_last

\* handle_message: what is not a number, a position or a status is dropped
\* before this
set(key, v) ==
    /\ answering.open => between < MaxBetween
    /\ values' = [k \in DOMAIN values \cup {key} |->
                    IF k = key THEN [v |-> v, t |-> time] ELSE values[k]]
    /\ motor_last' = MotorLast(key, v)
    /\ between' = IF answering.open THEN between + 1 ELSE 0
    /\ turned' = IF key = "rpm" /\ v > RPM_DEADBAND THEN turned \cup {time} ELSE turned
    /\ said' = IF key = "recording" /\ v > RPM_DEADBAND THEN said \cup {time}
               ELSE IF key = "recording" THEN {} ELSE said
    /\ UNCHANGED <<heard, time, answering, shown>>

-----------------------------------------------------------------------------
(* What is made of a snapshot s at a time at                               *)

Nothing == [is |-> FALSE]
Of(s, key) == IF key \in DOMAIN s.values THEN [is |-> TRUE, t |-> s.values[key].t] ELSE Nothing

\* Mutant: as old as its newer input
OlderNot(readings) ==
    IF \E r \in readings : ~r.is THEN Nothing ELSE [is |-> TRUE, t |-> Max({r.t : r \in readings})]

\* Made of several readings: there if all are, and as old as the oldest
Older(readings) ==
    IF \E r \in readings : ~r.is THEN Nothing ELSE [is |-> TRUE, t |-> Min({r.t : r \in readings})]

\* The apparent wind over the bow comes so from the mast, or is made of the one
\* over the compass
derive(s, at) ==
    [motor |-> at - s.motor_last < MOTOR_HOLD_S,
     twa |-> Older({Of(s, "twd"), Of(s, "hdg")}),
     awa |-> IF Of(s, "awa").is THEN Of(s, "awa") ELSE Older({Of(s, "awd"), Of(s, "hdg")})]
derive_leeway(s) ==
    IF Of(s, "sog").is /\ ~Runs(s.values["sog"]) THEN Nothing
    ELSE Older({Of(s, "cog"), Of(s, "hdg"), Of(s, "sog")})
derive_heel(s) == Older({Of(s, "accy"), Of(s, "accz")})
derive_recording(s, at) ==
    "recording" \in DOMAIN s.values /\ at - s.values["recording"].t <= RECORDING_STALE_S
        /\ Runs(s.values["recording"])
derive_position(s, at) ==
    IF ~Of(s, "position").is THEN Nothing
    ELSE [is |-> TRUE, t |-> Of(s, "position").t,
          stale |-> at - Of(s, "position").t > POSITION_STALE_S]

\* Mutant: the last fix, however old
fix_nowNot(at) == Of([values |-> values], "position").is

\* What the engine navigates by: of the readings there are now
fix_now(at) ==
    LET position == Of([values |-> values], "position")
    IN position.is /\ at - position.t <= POSITION_STALE_S

-----------------------------------------------------------------------------
\* The time is taken first, the lock for the snapshot after
Asked == ~answering.open /\ between' = 0
         /\ answering' = [open |-> TRUE, at |-> time,
                          snapshot |-> [values |-> values, motor_last |-> motor_last]]
         /\ UNCHANGED <<heard, values, motor_last, time, shown, turned, said>>

\* The race's part is made last, under the lock again
Answered ==
    LET s == answering.snapshot
        at == answering.at
    IN /\ answering.open
       /\ shown' = [open |-> TRUE, at |-> at, between |-> between, fields |-> derive(s, at),
                    leeway |-> derive_leeway(s), heel |-> derive_heel(s),
                    recording |-> derive_recording(s, at),
                    position |-> derive_position(s, at), nav |-> fix_now(at),
                    turned |-> {t \in turned : t <= at}, said |-> said, snapshot |-> s]
       /\ answering' = Free /\ between' = 0
       /\ UNCHANGED <<heard, values, motor_last, time, turned, said>>

HudNext == Passes \/ Asked \/ Answered \/ \E key \in heard : \E v \in Values(key) : set(key, v)

HudSpec == HudInit /\ [][HudNext]_hudVars

-----------------------------------------------------------------------------
\* Nothing derived is shown as fresher than any reading it is made of
AsOldAsTheOldest ==
    LET made(reading, keys) ==
            reading.is => \A k \in keys : k \in DOMAIN shown.snapshot.values
                                          /\ reading.t <= shown.snapshot.values[k].t
    IN /\ made(shown.fields.twa, {"twd", "hdg"})
       /\ "awa" \notin DOMAIN shown.snapshot.values => made(shown.fields.awa, {"awd", "hdg"})
       /\ made(shown.leeway, {"cog", "hdg", "sog"}) /\ made(shown.heel, {"accy", "accz"})

\* The bearing is blank exactly where the position is: "every device must agree
\* about whether the fix is good".  Only a fix that came while the answer was
\* made may be in one of them and not in the other
OneRuleForTheFix ==
    shown.between = 0 => (shown.nav <=> shown.position.is /\ ~shown.position.stale)

\* The motor's panels are up while it was heard to turn within the hold: "a
\* SevCon that goes silent mid-rev" takes them down
MotorIsHeard ==
    shown.between = 0 =>
        (shown.fields.motor <=> \E t \in shown.turned : shown.at - t < MOTOR_HOLD_S)

\* "A crashed recorder cannot leave the dot lit"
DotIsLit ==
    shown.between = 0 =>
        (shown.recording <=> \E t \in shown.said : shown.at - t <= RECORDING_STALE_S)

(***************************************************************************)
(* What is shown is as old as it says, and what has fallen silent goes out *)
(* (store.py:236, :515, :574, :690), whatever comes in while an answer is  *)
(* being made.                                                             *)
(***************************************************************************)
ShownIsCurrent ==
    shown.open => AsOldAsTheOldest /\ OneRuleForTheFix /\ MotorIsHeard /\ DotIsLit
\* Not so in between: a page may have a bearing beside a blank position
AlwaysOneRule ==
    shown.open => (shown.nav <=> shown.position.is /\ ~shown.position.stale)
===============================================================================
