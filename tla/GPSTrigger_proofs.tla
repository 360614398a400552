-------------------------- MODULE GPSTrigger_proofs --------------------------
(***************************************************************************)
(* A monitor changes its state only for what has lasted as long as was     *)
(* asked, whatever the places, the conditions and the times between fixes, *)
(* unless the clock was put right while it lasted.  A timer is a lower     *)
(* bound of how long the condition has held: that is TimerIsTrue, and      *)
(* NoneLeftOver says why no timer of before can be taken for it.           *)
(*                                                                         *)
(* And the events the monitors are made of: which of the dated files is in *)
(* force, by a clock that may be wrong.                                    *)
(***************************************************************************)
EXTENDS GPSTrigger, Config, WellFoundedInduction, TLAPS

\* What the monitor does at a fix, in each of its states and kinds
Watches(p, c, s) ==
    /\ state = "monitoring"
    /\ \/ StartKind = "gps_movement" /\ GpsMovement(p, c, s)
       \/ StartKind = "anchor_departure" /\ AnchorDeparture(p, c, s)

Awaits(p, c, s) ==
    /\ state = "triggered"
    /\ \/ StopKind = "gps_stopped" /\ GpsStopped(p, s)
       \/ StopKind = "anchor_return" /\ AnchorReturn(p, s)
    /\ cond' = c /\ UNCHANGED seen

\* What a step may do to the types of the monitor and of the history
StepTypes ==
    /\ state' \in {"monitoring", "triggered"} /\ last' \in Place \cup {NoPlace}
    /\ cond' \in Int \cup {NoTime} /\ stat' \in Int \cup {NoTime}
    /\ heldFor' \in 0..Longest \cup {NoTime}
    /\ steady' \in BOOLEAN /\ sustained' \in 0..Longest

LEMMA ConfigTypes ==
  ASSUME TypeOK
  PROVE  /\ StartKind \in {"gps_movement", "anchor_departure"}
         /\ StopKind \in {"gps_stopped", "anchor_return"}
         /\ StartDuration \in Nat /\ StopDuration \in Nat
         /\ Longest \in Nat /\ StartDuration <= Longest /\ StopDuration <= Longest
  BY GPSTriggerAssumption DEF TypeOK, Longest, StartKind, StopKind, StartDuration, StopDuration

LEMMA ConfigStays ==
  ASSUME UNCHANGED config
  PROVE  /\ StartKind' = StartKind /\ StopKind' = StopKind
         /\ StartDuration' = StartDuration /\ StopDuration' = StopDuration
         /\ Longest' = Longest
  BY DEF Longest, StartKind, StopKind, StartDuration, StopDuration

\* The initial states: no timer runs
LEMMA InitKeeps == Init => IInv
  <1> SUFFICES ASSUME Init PROVE IInv OBVIOUS
  <1> USE GPSTriggerAssumption DEF Init
  <1>1. TypeOK
    <2>1. Longest \in Nat
      BY DEF Longest, StartDuration, StopDuration
    <2>2. heldFor \in 0..Longest \cup {NoTime} /\ sustained \in 0..Longest
      <3>1. Longest \in 0..Longest BY <2>1
      <3> QED BY <3>1, Zenon
    <2>3. beat \in {0, 1} /\ jumps \in 0..MaxJumps /\ outages \in 0..MaxOutages
      OBVIOUS
    <2> QED BY <2>2, <2>3 DEF TypeOK
  <1>2. TriggersAreSustained
    BY <1>1, ConfigTypes DEF TriggersAreSustained, Needed
  <1>3. TimerIsTrue /\ NoneLeftOver
    BY DEF TimerIsTrue, LastsAsLong, NoneLeftOver
  <1> QED BY <1>1, <1>2, <1>3 DEF IInv

-----------------------------------------------------------------------------
\* A condition that is met has lasted `gap' longer than at the last fix
LEMMA HeldIsAnAge ==
  ASSUME TypeOK, NEW p, NEW gap \in Gap
  PROVE  /\ HeldNow(p, gap) \in 0..Longest \cup {NoTime}
         /\ Met(p) => HeldNow(p, gap) # NoTime
         /\ Met(p) /\ heldFor # NoTime =>
                \/ HeldNow(p, gap) >= heldFor + gap
                \/ HeldNow(p, gap) = Longest
  BY GPSTriggerAssumption, ConfigTypes DEF TypeOK, HeldNow

LEMMA LaterIsAnAge ==
  ASSUME NEW t \in Int \cup {NoTime}, NEW by \in Int
  PROVE  /\ Later(t, by) \in Int \cup {NoTime}
         /\ t = NoTime <=> Later(t, by) = NoTime
         /\ t # NoTime => Later(t, by) = t + by
  BY GPSTriggerAssumption DEF Later

\* So a timer that is still below what is asked is kept true, and one that has
\* run out has run out rightly
LEMMA KeptIsTrue ==
  ASSUME TypeOK, NEW p, NEW gap \in Gap, NEW jump \in Int, Met(p),
         NEW t \in Int \cup {NoTime}, LastsAsLong(t),
         NEW duration \in Nat, duration <= Longest
  PROVE  LET now == Later(t, gap + jump) held == HeldNow(p, gap) IN
         /\ held # NoTime
         /\ Running(now, duration) =>
                Kept(now) \in Int /\ (StillSteady(jump) => Kept(now) <= held)
         /\ RunOut(now, duration) /\ StillSteady(jump) => held >= duration
  <1> DEFINE now == Later(t, gap + jump)
             held == HeldNow(p, gap)
  <1>1. held \in 0..Longest /\ held # NoTime
    BY HeldIsAnAge, GPSTriggerAssumption
  <1>2. Longest \in Nat /\ gap \in Nat /\ gap + jump \in Int
    BY ConfigTypes, GPSTriggerAssumption
  <1>3. CASE t = NoTime
    <2>1. now = NoTime BY <1>2, <1>3, LaterIsAnAge
    <2> QED BY <2>1, <1>1, <1>2 DEF Running, RunOut, Kept
  <1>4. CASE t # NoTime
    <2>1. now = t + (gap + jump) /\ now \in Int /\ now # NoTime
      BY <1>2, <1>4, LaterIsAnAge, GPSTriggerAssumption
    <2>2. heldFor # NoTime /\ heldFor \in 0..Longest
      BY <1>4 DEF LastsAsLong, TypeOK
    <2>3. held >= heldFor + gap \/ held = Longest
      BY <2>2, HeldIsAnAge, GPSTriggerAssumption
    <2>4. CASE StillSteady(jump)
      <3>1. t <= heldFor /\ jump = 0
        BY <1>4, <2>2, <2>4 DEF LastsAsLong, StillSteady
      <3> QED
        BY <1>1, <1>2, <2>1, <2>2, <2>3, <3>1 DEF Running, RunOut, Kept
    <2>5. CASE ~StillSteady(jump)
      BY <1>1, <2>1, <2>5 DEF Running, RunOut, Kept
    <2> QED BY <2>4, <2>5
  <1> QED BY <1>3, <1>4

-----------------------------------------------------------------------------
\* The step of a fix, one kind of monitor at a time
LEMMA MovementKeeps ==
  ASSUME IInv, NEW p \in Place, NEW gap \in Gap, NEW jump \in Int, UNCHANGED config,
         state = "monitoring", StartKind = "gps_movement",
         GpsMovement(p, Later(cond, gap + jump), Later(stat, gap + jump)), Remember(p, gap, jump)
  PROVE  StepTypes /\ seen' \in BOOLEAN /\ TriggersAreSustained' /\ TimerIsTrue' /\ NoneLeftOver'
  <1> DEFINE c == Later(cond, gap + jump)
             s == Later(stat, gap + jump)
  <1> USE GPSTriggerAssumption, ConfigTypes, ConfigStays DEF IInv, TypeOK
  <1>0. gap + jump \in Int
    OBVIOUS
  <1>1. c \in Int \cup {NoTime} /\ s \in Int \cup {NoTime} /\ (cond = NoTime => c = NoTime)
    BY <1>0, LaterIsAnAge
  <1>2. HeldNow(p, gap) \in 0..Longest \cup {NoTime}
    BY HeldIsAnAge
  <1> HIDE DEF c, s
  <1>3. CASE last = NoPlace
    <2>1. cond' = c /\ c = NoTime /\ stat' = 0 /\ last' = p /\ UNCHANGED <<state, seen>>
      BY <1>3, <1>1 DEF GpsMovement, MovedAway, NotClearlyMoving, Far, NoneLeftOver, c
    <2> QED
      BY <1>2, <2>1 DEF StepTypes, Remember, TriggersAreSustained, TimerIsTrue, LastsAsLong,
         NoneLeftOver, Needed
  <1>4. CASE MovedAway(p, c)
    <2>1. Met(p) /\ LastsAsLong(cond)
      BY <1>4 DEF MovedAway, Met, TimerIsTrue
    <2>2. /\ HeldNow(p, gap) # NoTime
          /\ Running(c, StartDuration) =>
                Kept(c) \in Int /\ (StillSteady(jump) => Kept(c) <= HeldNow(p, gap))
          /\ RunOut(c, StartDuration) /\ StillSteady(jump) =>
                HeldNow(p, gap) >= StartDuration
      BY <2>1, KeptIsTrue DEF c
    <2>3. UNCHANGED seen /\ last # NoPlace
      BY <1>4 DEF GpsMovement, MovedAway, Far
    <2>4. CASE Running(c, StartDuration) /\ UNCHANGED state
      <3>1. cond' = Kept(c) /\ UNCHANGED last /\ stat' = NoTime
        BY <1>4, <2>4 DEF MovedAway, Running
      <3> QED
        BY <1>2, <2>2, <2>3, <2>4, <3>1 DEF StepTypes, Remember, TriggersAreSustained,
           TimerIsTrue, LastsAsLong, NoneLeftOver, Needed
    <2>5. CASE RunOut(c, StartDuration) /\ state' = "triggered"
      <3>1. cond' = NoTime /\ last' = p /\ stat' = NoTime
        BY <1>4, <2>5 DEF MovedAway, Running
      <3> QED
        BY <1>2, <2>2, <2>3, <2>5, <3>1 DEF StepTypes, Remember, TriggersAreSustained,
           TimerIsTrue, LastsAsLong, NoneLeftOver, Needed
    <2> QED BY <1>4, <2>4, <2>5 DEF MovedAway
  <1>5. CASE NotClearlyMoving(p, s)
    <2>1. UNCHANGED seen
      BY DEF GpsMovement
    <2>2. stat' \in {NoTime, 0, Kept(s)} /\ last' \in {last, p}
      BY Zenon, <1>5 DEF NotClearlyMoving
    <2>3. stat' \in Int \cup {NoTime} /\ last' \in Place \cup {NoPlace}
      BY <1>1, <2>2 DEF Kept
    <2> QED
      BY <1>2, <1>5, <2>1, <2>3 DEF NotClearlyMoving, StepTypes, Remember, TriggersAreSustained,
         TimerIsTrue, LastsAsLong, NoneLeftOver, Needed
  <1> QED BY <1>3, <1>4, <1>5 DEF GpsMovement, c, s

LEMMA DepartureKeeps ==
  ASSUME IInv, NEW p \in Place, NEW gap \in Gap, NEW jump \in Int, UNCHANGED config,
         state = "monitoring", StartKind = "anchor_departure",
         AnchorDeparture(p, Later(cond, gap + jump), Later(stat, gap + jump)), Remember(p, gap, jump)
  PROVE  StepTypes /\ seen' \in BOOLEAN /\ TriggersAreSustained' /\ TimerIsTrue' /\ NoneLeftOver'
  <1> DEFINE c == Later(cond, gap + jump)
             s == Later(stat, gap + jump)
  <1> USE GPSTriggerAssumption, ConfigTypes, ConfigStays DEF IInv, TypeOK
  <1>0. gap + jump \in Int
    OBVIOUS
  <1>1. c \in Int \cup {NoTime} /\ (cond = NoTime => c = NoTime) /\ s = NoTime
    BY <1>0, LaterIsAnAge DEF NoneLeftOver
  <1>2. HeldNow(p, gap) \in 0..Longest \cup {NoTime}
    BY HeldIsAnAge
  <1> HIDE DEF c, s
  <1>3. UNCHANGED last /\ stat' = NoTime
    BY <1>1 DEF AnchorDeparture, s
  <1>4. CASE Inside(p, StartDistance) \/ ~seen
    <2>1. UNCHANGED state /\ cond' = NoTime /\ seen' \in BOOLEAN
      BY <1>1, <1>4 DEF AnchorDeparture, NoneLeftOver, c
    <2> QED
      BY <1>2, <1>3, <2>1 DEF StepTypes, Remember, TriggersAreSustained, TimerIsTrue, LastsAsLong,
         NoneLeftOver, Needed
  <1>5. CASE ~Inside(p, StartDistance) /\ seen
    <2>1. Met(p) /\ LastsAsLong(cond)
      BY <1>5 DEF Met, TimerIsTrue
    <2>2. /\ HeldNow(p, gap) # NoTime
          /\ Running(c, StartDuration) =>
                Kept(c) \in Int /\ (StillSteady(jump) => Kept(c) <= HeldNow(p, gap))
          /\ RunOut(c, StartDuration) /\ StillSteady(jump) =>
                HeldNow(p, gap) >= StartDuration
      BY <2>1, KeptIsTrue DEF c
    <2>3. /\ seen' /\ seen' \in BOOLEAN
          /\ \/ Running(c, StartDuration) /\ cond' = Kept(c) /\ UNCHANGED state
             \/ RunOut(c, StartDuration) /\ cond' = NoTime /\ state' = "triggered"
      BY <1>5 DEF AnchorDeparture, c
    <2> QED
      BY <1>2, <1>3, <2>2, <2>3 DEF StepTypes, Remember, TriggersAreSustained, TimerIsTrue,
         LastsAsLong, NoneLeftOver, Needed
  <1> QED BY <1>4, <1>5

\* In the triggered state both kinds are a timer for the stop
LEMMA StopTimerKeeps ==
  ASSUME IInv, NEW p \in Place, NEW gap \in Gap, NEW jump \in Int, UNCHANGED config,
         state = "triggered", Met(p),
         StopTimer(Later(stat, gap + jump)), UNCHANGED last, cond' = Later(cond, gap + jump),
         UNCHANGED seen, Remember(p, gap, jump),
         StopKind = "gps_stopped" => last # NoPlace
  PROVE  StepTypes /\ TriggersAreSustained' /\ TimerIsTrue' /\ NoneLeftOver'
  <1> DEFINE s == Later(stat, gap + jump)
  <1> USE GPSTriggerAssumption, ConfigTypes, ConfigStays DEF IInv, TypeOK
  <1>0. gap + jump \in Int
    OBVIOUS
  <1>1. cond' = NoTime
    BY <1>0, LaterIsAnAge DEF NoneLeftOver
  <1>2. HeldNow(p, gap) \in 0..Longest \cup {NoTime}
    BY HeldIsAnAge
  <1>3. LastsAsLong(stat)
    BY DEF TimerIsTrue
  <1>4. /\ HeldNow(p, gap) # NoTime
        /\ Running(s, StopDuration) =>
              Kept(s) \in Int /\ (StillSteady(jump) => Kept(s) <= HeldNow(p, gap))
        /\ RunOut(s, StopDuration) /\ StillSteady(jump) => HeldNow(p, gap) >= StopDuration
    BY <1>3, KeptIsTrue
  <1>5. \/ Running(s, StopDuration) /\ stat' = Kept(s) /\ UNCHANGED state
        \/ RunOut(s, StopDuration) /\ stat' = NoTime /\ state' = "monitoring"
    BY DEF StopTimer
  <1> HIDE DEF s
  <1> QED
    BY <1>1, <1>2, <1>4, <1>5 DEF StepTypes, Remember, TriggersAreSustained, TimerIsTrue,
       LastsAsLong, NoneLeftOver, Needed

LEMMA AwaitsKeeps ==
  ASSUME IInv, NEW p \in Place, NEW gap \in Gap, NEW jump \in Int, UNCHANGED config,
         Awaits(p, Later(cond, gap + jump), Later(stat, gap + jump)), Remember(p, gap, jump)
  PROVE  StepTypes /\ seen' \in BOOLEAN /\ TriggersAreSustained' /\ TimerIsTrue' /\ NoneLeftOver'
  <1> USE GPSTriggerAssumption, ConfigTypes, ConfigStays DEF IInv, TypeOK
  <1>0. gap + jump \in Int
    OBVIOUS
  <1>1. /\ state = "triggered" /\ cond' = Later(cond, gap + jump) /\ cond' = NoTime
        /\ UNCHANGED seen
    BY <1>0, LaterIsAnAge DEF Awaits, NoneLeftOver
  <1>2. HeldNow(p, gap) \in 0..Longest \cup {NoTime}
    BY HeldIsAnAge
  <1>3. CASE Met(p) /\ StopTimer(Later(stat, gap + jump)) /\ UNCHANGED last
             /\ (StopKind = "gps_stopped" => last # NoPlace)
    BY <1>1, <1>3, StopTimerKeeps
  <1>4. CASE stat' = NoTime /\ last' \in {last, p} /\ UNCHANGED state
    BY <1>1, <1>2, <1>4 DEF StepTypes, Remember, TriggersAreSustained, TimerIsTrue, LastsAsLong,
       NoneLeftOver, Needed
  <1>5. CASE StopKind = "gps_stopped" /\ GpsStopped(p, Later(stat, gap + jump))
    <2>1. CASE last = NoPlace
      <3>1. Later(stat, gap + jump) = NoTime
        BY <1>0, <1>1, <1>5, <2>1, LaterIsAnAge DEF NoneLeftOver
      <3> QED BY <1>4, <1>5, <2>1, <3>1 DEF GpsStopped, Near
    <2>2. CASE last # NoPlace
      BY <1>1, <1>3, <1>4, <1>5, <2>2 DEF GpsStopped, Met
    <2> QED BY <2>1, <2>2
  <1>6. CASE StopKind = "anchor_return" /\ AnchorReturn(p, Later(stat, gap + jump))
    BY <1>1, <1>3, <1>4, <1>6 DEF AnchorReturn, Met
  <1> QED BY <1>5, <1>6 DEF Awaits

-----------------------------------------------------------------------------
\* A fix is a step of one of them
LEMMA FixKeeps ==
  ASSUME IInv, NEW p \in Place, NEW gap \in Gap, NEW jump \in Jump \cup {0},
         jump = 0 \/ jumps < MaxJumps, Fix(p, gap, jump)
  PROVE  IInv'
  <1> DEFINE c == Later(cond, gap + jump)
             s == Later(stat, gap + jump)
  <1>1. jump \in Int
    BY GPSTriggerAssumption
  <1>2. Remember(p, gap, jump) /\ UNCHANGED config
    BY Zenon DEF Fix
  <1>3. Watches(p, c, s) \/ Awaits(p, c, s)
    BY Zenon DEF Fix, Watches, Awaits
  <1>4. StepTypes /\ seen' \in BOOLEAN /\ TriggersAreSustained' /\ TimerIsTrue' /\ NoneLeftOver'
    <2>1. CASE Awaits(p, c, s)
      BY <1>1, <1>2, <2>1, AwaitsKeeps
    <2>2. CASE Watches(p, c, s)
      BY <1>1, <1>2, <2>2, MovementKeeps, DepartureKeeps DEF Watches
    <2> QED BY <1>3, <2>1, <2>2
  <1>5. here' = p /\ UNCHANGED outages /\ beat' = 1 - beat
        /\ jumps' = (IF jump = 0 THEN jumps ELSE jumps + 1)
    BY Zenon DEF Fix
  <1>6. beat' \in {0, 1} /\ jumps' \in 0..MaxJumps
    BY <1>5, GPSTriggerAssumption DEF IInv, TypeOK
  <1>7. TypeOK'
    BY <1>2, <1>4, <1>5, <1>6, ConfigStays DEF TypeOK, IInv, StepTypes
  <1> QED BY <1>4, <1>7 DEF IInv

\* A restart forgets every timer
LEMMA RestartKeeps == IInv /\ Restart => IInv'
  <1> SUFFICES ASSUME IInv, Restart PROVE IInv' OBVIOUS
  <1> USE GPSTriggerAssumption DEF IInv, Restart
  <1>0. /\ UNCHANGED config /\ Longest \in Nat /\ Longest' = Longest
        /\ StartDuration' = StartDuration /\ StopDuration' = StopDuration
        /\ StartDuration <= Longest /\ StopDuration <= Longest
    BY ConfigTypes, ConfigStays
  <1>1. TypeOK'
    <2>1. sustained' \in 0..Longest' /\ heldFor' \in 0..Longest' \cup {NoTime}
      BY <1>0
    <2>2. jumps' \in 0..MaxJumps /\ outages' \in 0..MaxOutages
      BY DEF TypeOK
    <2> QED BY <1>0, <2>1, <2>2 DEF TypeOK
  <1>2. TriggersAreSustained'
    BY <1>0 DEF TriggersAreSustained, Needed
  <1>3. TimerIsTrue' /\ NoneLeftOver'
    BY DEF TimerIsTrue, LastsAsLong, NoneLeftOver, TypeOK
  <1> QED BY <1>1, <1>2, <1>3

LEMMA StepKeeps == IInv /\ [Next]_vars => IInv'
  <1> SUFFICES ASSUME IInv, [Next]_vars PROVE IInv' OBVIOUS
  <1>1. CASE Fixes
    <2>1. PICK p \in Place, gap \in Gap, jump \in Jump \cup {0} :
             (jump = 0 \/ jumps < MaxJumps) /\ Fix(p, gap, jump)
      BY <1>1, Zenon DEF Fixes
    <2> QED BY <2>1, FixKeeps
  <1>2. CASE Restart
    BY <1>2, RestartKeeps
  <1>3. CASE UNCHANGED vars
    <2>1. UNCHANGED config
      BY <1>3 DEF vars
    <2>2. TypeOK'
      BY <1>3, <2>1, ConfigStays DEF vars, monitorVars, IInv, TypeOK
    <2>3. TriggersAreSustained'
      BY <1>3, <2>1, ConfigStays DEF vars, monitorVars, IInv, TriggersAreSustained, Needed
    <2>4. TimerIsTrue' /\ NoneLeftOver'
      BY <1>3, <2>1, ConfigStays DEF vars, monitorVars, IInv, TimerIsTrue, LastsAsLong,
         NoneLeftOver
    <2> QED BY <2>2, <2>3, <2>4 DEF IInv
  <1> QED BY <1>1, <1>2, <1>3 DEF Next

-----------------------------------------------------------------------------
\* Every variable keeps its type (_check_triggers and what it calls)
THEOREM TypesAreKept == Spec => []TypeOK
  <1>1. IInv => TypeOK BY DEF IInv
  <1> QED BY InitKeeps, StepKeeps, <1>1, PTL DEF Spec

\* A recording is started, or ended, only where every fix for as long as the
\* event's duration asks has met the condition (FR-1): for any places, conditions,
\* distances and durations, any gaps between fixes and any restarts, unless the
\* clock was put right while it lasted
THEOREM OnlySustainedTriggers == Spec => []TriggersAreSustained
  <1>1. IInv => TriggersAreSustained BY DEF IInv
  <1> QED BY InitKeeps, StepKeeps, <1>1, PTL DEF Spec

-----------------------------------------------------------------------------
(* The events in force: numbers and dates                                  *)

\* What a number is, of a quotient and what is left
LEMMA Division ==
  ASSUME NEW D \in Nat, D > 0, NEW x \in Int
  PROVE  /\ x \div D \in Int /\ x % D \in 0..(D - 1)
         /\ x = D * (x \div D) + (x % D)
  <1>1. x = D * (x \div D) + (x % D)
    OBVIOUS
  <1> QED BY <1>1

\* What is left after a whole number of days is not small twice, a round apart
LEMMA NotTwiceInARound ==
  ASSUME NEW d \in Int, NEW g \in Int, NEW D \in Nat \ {0}, NEW s \in Nat,
         s <= g, g <= D - s, d % D < s
  PROVE  ~((d + g) % D < s)
  <1> SUFFICES ASSUME (d + g) % D < s PROVE FALSE OBVIOUS
  <1> DEFINE q == d \div D
             p == (d + g) \div D
  <1>0. D \in Nat /\ D > 0 /\ d + g \in Int OBVIOUS
  <1>1. d = D * q + (d % D) /\ d % D >= 0 /\ q \in Int /\ d % D \in Int
    BY <1>0, Division
  <1>2. d + g = D * p + ((d + g) % D) /\ (d + g) % D >= 0 /\ p \in Int /\ (d + g) % D \in Int
    BY <1>0, Division
  <1> HIDE DEF q, p
  <1>3. \A a, b \in Int : b > a => D * b >= D * a + D
    OBVIOUS
  <1>4. \A a, b \in Int : b <= a => D * b <= D * a
    OBVIOUS
  <1>5. D * q \in Int /\ D * p \in Int
    BY <1>1, <1>2
  <1>6. CASE p <= q
    BY <1>1, <1>2, <1>4, <1>5, <1>6
  <1>7. CASE p > q
    BY <1>1, <1>2, <1>3, <1>5, <1>7
  <1> QED BY <1>1, <1>2, <1>6, <1>7

\* A set of dates has a latest, and Max is that
LEMMA Greatest ==
  ASSUME NEW S \in SUBSET (0..LastDate), S # {}
  PROVE  Max(S) \in S /\ \A x \in S : x <= Max(S)
  <1> DEFINE T == {LastDate - x : x \in S}
  <1>1. T \subseteq Nat /\ T # {}
    <2>1. PICK a \in S : TRUE OBVIOUS
    <2>2. LastDate - a \in T BY <2>1
    <2> QED BY <2>2, ConfigAssumption
  <1>2. PICK z \in T : \A y \in T : ~(<<y, z>> \in OpToRel(<, Nat))
    <2> HIDE DEF T
    <2> QED BY <1>1, NatLessThanWellFounded, WFMin
  <1>3. \A y \in T : ~(y < z)
    BY <1>1, <1>2 DEF OpToRel
  <1>4. PICK x \in S : z = LastDate - x
    BY <1>2
  <1>5. \A y \in S : y <= x
    BY <1>3, <1>4, ConfigAssumption
  <1>6. \E m \in S : \A y \in S : m >= y
    BY <1>4, <1>5, ConfigAssumption
  <1> QED BY <1>6 DEF Max

-----------------------------------------------------------------------------
(* The events in force: the invariant                                      *)

ConfigTypeOK ==
    /\ passed \in Nat /\ offset \in Clock /\ looked \in Nat /\ looked <= passed
    /\ DOMAIN files \subseteq Dated \cup {Default} /\ files \in [DOMAIN files -> Content]
    /\ event_configs.of \in DOMAIN files \cup {Absent}
    /\ last_scan_time \in Int /\ loadedAt \in Int

\* A file dated before the last scan was saved too late for it, or gave way to the
\* file in force, which was due when it was loaded
Accounted ==
    \A f \in DOMAIN files \ {Default} : f <= last_scan_time =>
        \/ f \in overlooked
        \/ f <= event_configs.of /\ event_configs.of <= loadedAt

\* A file waits only at a look that came too soon
WaitsOnce ==
    waiting # {} =>
        /\ last_scan_time # NotScanned
        /\ (looked + offset - last_scan_time) % DAY < SCAN_SECONDS

\* The main loop comes round within a day
Rounds == at # "down" => passed - looked <= DAY - SCAN_SECONDS

ConfigInv == ConfigTypeOK /\ Accounted /\ WaitsOnce /\ Rounds

\* What the files are dated, and the clock, are numbers; no clock says NotScanned
LEMMA Dates ==
  ASSUME ConfigTypeOK
  PROVE  /\ wall \in Int /\ wall > NotScanned
         /\ \A f \in DOMAIN files : f \in Nat /\ f \in 0..LastDate
         /\ \A f \in DOMAIN files \ {Default} : f \in Dated /\ f >= 1
  <1>1. wall \in Int /\ wall > NotScanned
    BY ConfigAssumption DEF ConfigTypeOK, wall, NotScanned
  <1>2. ASSUME NEW f \in DOMAIN files \ {Default}
        PROVE  f \in Dated /\ f >= 1 /\ f \in 0..LastDate
    BY ConfigAssumption DEF ConfigTypeOK
  <1>3. Default \in 0..LastDate
    BY ConfigAssumption DEF Default
  <1> QED BY <1>1, <1>2, <1>3

\* What _load_event_configs chooses is a file there is, the latest that is due
LEMMA ChosenIs ==
  ASSUME ConfigTypeOK
  PROVE  /\ Due # {} => /\ Chosen = Max(Due) /\ Chosen \in Due
                        /\ \A f \in DOMAIN files \ {Default} : f <= wall => f <= Chosen
         /\ Chosen \in DOMAIN files \cup {Absent}
         /\ DOMAIN files # {} => Chosen # Absent
  <1>1. Due \in SUBSET (0..LastDate) /\ DOMAIN files \in SUBSET (0..LastDate)
    BY Dates DEF Due
  <1>2. Due # {} => Chosen = Max(Due)
    BY DEF Chosen
  <1>3. Due # {} => Max(Due) \in Due /\ \A f \in Due : f <= Max(Due)
    BY <1>1, Greatest
  <1>5. DOMAIN files # {} => Max(DOMAIN files) \in DOMAIN files
    BY <1>1, Greatest
  <1>6. Absent \notin DOMAIN files
    BY <1>1 DEF Absent
  <1>7. Chosen \in DOMAIN files \cup {Absent}
    BY <1>2, <1>3, <1>5 DEF Chosen, Due
  <1>8. DOMAIN files # {} => Chosen # Absent
    BY <1>2, <1>3, <1>5, <1>6 DEF Chosen, Due
  <1> QED BY <1>2, <1>3, <1>7, <1>8 DEF Due

\* The initial states: nothing is in force
LEMMA ConfigStarts == ConfigInit => ConfigInv
  <1> SUFFICES ASSUME ConfigInit PROVE ConfigInv OBVIOUS
  <1> USE ConfigAssumption DEF ConfigInit
  <1>1. Min(Dated) \in Dated
    <2>1. \E m \in Dated : \A f \in Dated : m <= f
      <3>1. Dated \subseteq Nat OBVIOUS
      <3>2. PICK m \in Dated : \A f \in Dated : ~(<<f, m>> \in OpToRel(<, Nat))
        BY <3>1, NatLessThanWellFounded, WFMin
      <3>3. \A f \in Dated : ~(f < m)
        BY <3>1, <3>2 DEF OpToRel
      <3> QED BY <3>1, <3>3
    <2> QED BY <2>1 DEF Min
  <1>2. ConfigTypeOK
    <2>1. DOMAIN files \subseteq Dated /\ files \in [DOMAIN files -> Content]
      BY <1>1 DEF Content
    <2> QED BY <2>1 DEF ConfigTypeOK, Unknown, NotScanned
  <1>3. Accounted
    BY <1>2, Dates DEF Accounted, NotScanned
  <1>4. WaitsOnce /\ Rounds
    BY DEF WaitsOnce, Rounds
  <1> QED BY <1>2, <1>3, <1>4 DEF ConfigInv

\* A round of the main loop stays shorter than a day by the time between scans
LEMMA PassesKeeps ==
  ASSUME ConfigInv, TimePasses
  PROVE  ConfigInv'
  <1> USE DEF TimePasses
  <1>1. ConfigTypeOK' BY DEF ConfigInv, ConfigTypeOK
  <1>2. Accounted' BY DEF ConfigInv, Accounted
  <1>3. WaitsOnce' BY DEF ConfigInv, WaitsOnce
  <1>4. Rounds' BY DEF Rounds
  <1> QED BY <1>1, <1>2, <1>3, <1>4 DEF ConfigInv

\* A file that waited under the clock as it was waits no more
LEMMA SetKeeps ==
  ASSUME ConfigInv, ClockIsSet
  PROVE  ConfigInv'
  <1> USE DEF ClockIsSet
  <1>1. ConfigTypeOK' BY DEF ConfigInv, ConfigTypeOK
  <1>2. Accounted' BY DEF ConfigInv, Accounted
  <1>3. WaitsOnce' BY DEF WaitsOnce
  <1>4. Rounds' BY DEF ConfigInv, Rounds
  <1> QED BY <1>1, <1>2, <1>3, <1>4 DEF ConfigInv

\* A file saved under a date that was scanned is one overlooked
LEMMA SavesKeeps ==
  ASSUME ConfigInv, NEW file \in Dated \cup {Default}, NEW content \in Content,
         Saves(file, content)
  PROVE  ConfigInv'
  <1> USE DEF Saves
  <1>1. DOMAIN files' = DOMAIN files \cup {file} OBVIOUS
  <1>2. ConfigTypeOK'
    <2>1. files' \in [DOMAIN files' -> Content]
      BY <1>1 DEF ConfigInv, ConfigTypeOK
    <2> QED BY <1>1, <2>1 DEF ConfigInv, ConfigTypeOK
  <1>3. Accounted'
    BY <1>1 DEF ConfigInv, Accounted
  <1>4. WaitsOnce' BY DEF ConfigInv, WaitsOnce
  <1>5. Rounds' BY DEF ConfigInv, Rounds
  <1> QED BY <1>2, <1>3, <1>4, <1>5 DEF ConfigInv

\* The service has some file in force if there is one, whatever the clock says
LEMMA BootKeeps ==
  ASSUME ConfigInv, Boot
  PROVE  /\ ConfigInv'
         /\ DOMAIN files # {} => event_configs'.of # Absent
  <1> USE DEF Boot
  <1>1. ConfigTypeOK BY DEF ConfigInv
  <1>2. event_configs'.of = Chosen OBVIOUS
  <1>3. ConfigTypeOK'
    BY <1>1, <1>2, Dates, ChosenIs DEF ConfigTypeOK, NotScanned
  <1>4. Accounted'
    <2> SUFFICES ASSUME NEW f \in DOMAIN files \ {Default}, f <= last_scan_time'
                 PROVE  f <= Chosen /\ Chosen <= loadedAt'
      BY <1>2 DEF Accounted
    <2>1. f <= wall
      BY <1>1, Dates DEF NotScanned
    <2>2. f \in Due
      BY <2>1 DEF Due
    <2>3. Chosen \in Due /\ f <= Chosen
      BY <1>1, <2>1, <2>2, ChosenIs
    <2> QED BY <2>3 DEF Due
  <1>5. WaitsOnce' BY DEF WaitsOnce
  <1>6. Rounds' BY <1>1, ConfigAssumption DEF Rounds, ConfigTypeOK
  <1>7. DOMAIN files # {} => event_configs'.of # Absent
    BY <1>1, <1>2, ChosenIs
  <1> QED BY <1>3, <1>4, <1>5, <1>6, <1>7 DEF ConfigInv

\* With the service goes all it had in force
LEMMA DiesKeeps ==
  ASSUME ConfigInv, Dies
  PROVE  ConfigInv'
  <1> USE DEF Dies
  <1>1. ConfigTypeOK' BY DEF ConfigInv, ConfigTypeOK, Unknown, NotScanned
  <1>2. Accounted' BY Dates DEF ConfigInv, Accounted, NotScanned
  <1>3. WaitsOnce' BY DEF WaitsOnce
  <1>4. Rounds' BY DEF Rounds
  <1> QED BY <1>1, <1>2, <1>3, <1>4 DEF ConfigInv

\* A look at which nothing is loaded though something waits comes too soon
LEMMA WaitsTooSoon ==
  ASSUME ConfigTypeOK, Accounted, check_and_reload
  PROVE  waiting' # {} => TooSoon /\ ~LooksAgain
  <1> USE DEF check_and_reload
  <1> SUFFICES ASSUME waiting' # {} PROVE TooSoon /\ ~LooksAgain OBVIOUS
  <1> DEFINE latest == Max(Due)
  <1>1. /\ at' # "raised" /\ Due # {} /\ loadedAt' <= wall
        /\ latest \notin overlooked /\ latest # event_configs'.of
    BY DEF NotInForce
  <1>2. Chosen = latest /\ latest \in Due
    BY <1>1, ChosenIs
  <1>3. ~LooksAgain
    <2> SUFFICES ASSUME LooksAgain PROVE FALSE OBVIOUS
    <2>1. ~Raises /\ Load BY <1>1
    <2>2. event_configs'.of = Chosen BY <2>1 DEF Load, Raises
    <2> QED BY <1>1, <1>2, <2>2
  <1>4. TooSoon
    <2> SUFFICES ASSUME ~TooSoon PROVE FALSE OBVIOUS
    <2>1. UNCHANGED <<event_configs, last_scan_time, loadedAt>> BY <1>3
    <2> HIDE DEF latest, check_and_reload
    <2>2. latest \in DOMAIN files \ {Default} /\ latest \in Nat /\ latest >= 1
      BY <1>2, Dates DEF Due
    <2>3. latest <= last_scan_time
      BY <1>1, <1>3, <2>2 DEF LooksAgain, Newer, latest, ConfigTypeOK
    <2>4. latest <= event_configs.of /\ event_configs.of <= loadedAt
      BY <1>1, <2>2, <2>3 DEF Accounted
    <2>5. event_configs.of \in Int
      BY Dates DEF ConfigTypeOK, Absent
    <2>6. event_configs.of \in DOMAIN files \ {Default}
      BY <2>2, <2>4, <2>5 DEF ConfigTypeOK, Absent, Default
    <2>7. event_configs.of <= wall
      BY <1>1, <2>1, <2>4, <2>5, Dates DEF ConfigTypeOK
    <2>8. event_configs.of <= latest
      BY <1>1, <1>2, <2>6, <2>7, ChosenIs
    <2> QED BY <1>1, <2>1, <2>2, <2>4, <2>5, <2>8
  <1> QED BY <1>3, <1>4

\* A look loads the latest file that is due, or something keeps it from it
LEMMA LooksKeeps ==
  ASSUME ConfigInv, check_and_reload
  PROVE  ConfigInv'
  <1> USE DEF check_and_reload
  <1>1. ConfigTypeOK /\ Accounted BY DEF ConfigInv
  <1>2. ConfigTypeOK' /\ Accounted'
    <2>1. CASE ~LooksAgain
      <3>1. UNCHANGED <<event_configs, last_scan_time, loadedAt>> BY <2>1
      <3>2. ConfigTypeOK' BY <1>1, <3>1 DEF ConfigTypeOK
      <3>3. Accounted' BY <1>1, <3>1 DEF Accounted
      <3> QED BY <3>2, <3>3
    <2>2. CASE LooksAgain /\ Says = "broken"
      <3>1. UNCHANGED <<event_configs, last_scan_time, loadedAt>>
        BY <2>2 DEF Load, Raises
      <3>2. ConfigTypeOK' BY <1>1, <3>1 DEF ConfigTypeOK
      <3>3. Accounted' BY <1>1, <3>1 DEF Accounted
      <3> QED BY <3>2, <3>3
    <2>3. CASE LooksAgain /\ Says # "broken"
      <3>1. /\ event_configs'.of = Chosen /\ loadedAt' = wall
            /\ last_scan_time' \in {last_scan_time, wall}
        BY <2>3 DEF Load
      <3>2. Chosen \in Due /\ Chosen > last_scan_time
        BY <1>1, <2>3, ChosenIs DEF LooksAgain, Newer
      <3>3. ConfigTypeOK'
        BY <1>1, <3>1, <3>2, Dates DEF ConfigTypeOK, Due
      <3>4. Accounted'
        <4> SUFFICES ASSUME NEW f \in DOMAIN files \ {Default}, f <= last_scan_time'
                     PROVE  f <= Chosen /\ Chosen <= wall
          BY <3>1 DEF Accounted
        <4>1. Chosen <= wall BY <3>2 DEF Due
        <4>2. CASE f <= wall BY <1>1, <3>2, <4>1, <4>2, ChosenIs
        <4>3. CASE f <= last_scan_time
          <5>1. f \in Int /\ Chosen \in Int /\ last_scan_time \in Int
            BY <1>1, <3>2, Dates DEF Due, ConfigTypeOK
          <5> QED BY <3>2, <4>1, <4>3, <5>1
        <4> QED BY <3>1, <4>2, <4>3
      <3> QED BY <3>3, <3>4
    <2> QED BY <2>1, <2>2, <2>3
  <1>3. WaitsOnce'
    <2> SUFFICES ASSUME waiting' # {} PROVE WaitsOnce' BY DEF WaitsOnce
    <2>1. TooSoon /\ UNCHANGED last_scan_time BY <1>1, WaitsTooSoon
    <2>2. wall - last_scan_time = looked' + offset' - last_scan_time'
      <3>1. looked' = passed /\ offset' = offset OBVIOUS
      <3> HIDE DEF check_and_reload
      <3>2. passed \in Int /\ offset \in Int /\ last_scan_time \in Int
        BY <1>1, ConfigAssumption DEF ConfigTypeOK
      <3> QED BY <2>1, <3>1, <3>2 DEF wall
    <2>3. last_scan_time' # NotScanned /\ (wall - last_scan_time) % DAY < SCAN_SECONDS
      BY <2>1 DEF TooSoon
    <2> HIDE DEF check_and_reload
    <2> QED BY <2>2, <2>3 DEF WaitsOnce
  <1>4. Rounds'
    BY <1>1, ConfigAssumption DEF Rounds, ConfigTypeOK
  <1> QED BY <1>2, <1>3, <1>4 DEF ConfigInv

\* Two looks in a row do not both come too soon
LEMMA NotTwice ==
  ASSUME ConfigInv, check_and_reload
  PROVE  waiting = {} \/ waiting' = {}
  <1> SUFFICES ASSUME waiting # {}, waiting' # {} PROVE FALSE OBVIOUS
  <1>1. TooSoon
    BY WaitsTooSoon DEF ConfigInv
  <1> DEFINE before == looked + offset - last_scan_time
             round == passed - looked
  <1>2. before % DAY < SCAN_SECONDS
    BY DEF ConfigInv, WaitsOnce
  <1>3. /\ before \in Int /\ round \in Int /\ wall - last_scan_time = before + round
        /\ DAY \in Nat \ {0} /\ SCAN_SECONDS \in Nat
    BY ConfigAssumption DEF ConfigInv, ConfigTypeOK, wall
  <1>4. SCAN_SECONDS <= round /\ round <= DAY - SCAN_SECONDS
    BY ConfigAssumption DEF check_and_reload, ConfigInv, ConfigTypeOK, Rounds
  <1>5. (before + round) % DAY < SCAN_SECONDS
    BY <1>1, <1>3 DEF TooSoon
  <1> HIDE DEF before, round
  <1> QED BY <1>2, <1>3, <1>4, <1>5, NotTwiceInARound

\* Every step keeps the invariant
LEMMA ConfigKeeps ==
  ASSUME ConfigInv, [ConfigNext]_configVars
  PROVE  ConfigInv'
  <1>1. CASE TimePasses BY <1>1, PassesKeeps
  <1>2. CASE ClockIsSet BY <1>2, SetKeeps
  <1>3. CASE \E file \in Dated \cup {Default}, content \in Content : Saves(file, content)
    BY <1>3, SavesKeeps
  <1>4. CASE Boot BY <1>4, BootKeeps
  <1>5. CASE Dies BY <1>5, DiesKeeps
  <1>6. CASE check_and_reload BY <1>6, LooksKeeps
  <1>7. CASE RoundEnds \/ UNCHANGED configVars
    <2>1. UNCHANGED <<passed, offset, files, event_configs, last_scan_time, looked,
                      loadedAt, waiting, overlooked>>
      BY <1>7 DEF RoundEnds, configVars
    <2>2. at # "down" \/ at' = "down" BY <1>7 DEF RoundEnds, configVars
    <2>3. ConfigTypeOK' BY <2>1 DEF ConfigInv, ConfigTypeOK
    <2>4. Accounted' BY <2>1 DEF ConfigInv, Accounted
    <2>5. WaitsOnce' BY <2>1 DEF ConfigInv, WaitsOnce
    <2>6. Rounds' BY <2>1, <2>2 DEF ConfigInv, Rounds
    <2> QED BY <2>3, <2>4, <2>5, <2>6 DEF ConfigInv
  <1> QED BY <1>1, <1>2, <1>3, <1>4, <1>5, <1>6, <1>7 DEF ConfigNext

\* A service that starts has the events of some file if there is one, and the newest
\* file due is in force by the second look at it, whatever the dates, the clock and
\* the contents (config_manager.py:76, :228; main.py:533)
THEOREM ConfigInForce == ConfigSpec => ConfigIsInForce
  <1> DEFINE Chooses == at = "down" /\ at' # "down" /\ DOMAIN files # {}
                           => event_configs'.of # Absent
             Takes == at = "sleep" /\ at' = "pending" => waiting \cap waiting' = {}
  <1>1. ASSUME ConfigInv, [ConfigNext]_configVars
        PROVE  [Chooses]_configVars /\ [Takes]_configVars
    <2>1. CASE Boot
      BY <1>1, <2>1, BootKeeps DEF Boot
    <2>2. CASE check_and_reload
      BY <1>1, <2>2, NotTwice DEF check_and_reload
    <2>3. CASE TimePasses \/ ClockIsSet
               \/ (\E file \in Dated \cup {Default}, content \in Content : Saves(file, content))
      <3>1. at' = at BY <2>3 DEF TimePasses, ClockIsSet, Saves
      <3> QED BY <3>1
    <2>4. CASE Dies \/ RoundEnds
      BY <2>4 DEF Dies, RoundEnds
    <2>5. CASE UNCHANGED configVars
      BY <2>5
    <2> QED BY <1>1, <2>1, <2>2, <2>3, <2>4, <2>5 DEF ConfigNext
  <1> HIDE DEF Chooses, Takes
  <1>2. ConfigSpec => [][Chooses]_configVars /\ [][Takes]_configVars
    BY <1>1, ConfigStarts, ConfigKeeps, PTL DEF ConfigSpec
  <1> QED BY <1>2 DEF ConfigIsInForce, NeverBare, NothingWaits, Chooses, Takes
===============================================================================
