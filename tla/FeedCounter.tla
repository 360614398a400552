------------------------------ MODULE FeedCounter ------------------------------
(***************************************************************************)
(* What a counter's day looks like to DailyDelta: the node counts, the     *)
(* radio relays an old packet, a line is corrupted, the node begins again  *)
(* from zero, midnight passes.  emon_feed.py:508-515 names the three       *)
(* disturbances; each comes here alone, with Spacing readings before the   *)
(* next, and none is the first reading of a day.                           *)
(***************************************************************************)
EXTENDS FeedOperators

CONSTANTS MaxCount, MaxReading, MaxDays, RestartFrom, MaxGained, \* bounds
    Spacing     \* readings of the node between two disturbances

\* As many as are believed; a line that is corrupted upwards reads more than any counter
\* does, and a node that restarts has counted more than it soon will
ASSUME CounterAssumption ==
    /\ None \notin Int /\ Day \in Nat \ {0}
    /\ CONFIRM \in Nat /\ CONFIRM >= 2 /\ Spacing = CONFIRM
    /\ MaxCount \in Nat /\ MaxReading \in Nat /\ MaxCount < MaxReading
    /\ RestartFrom \in Nat /\ RestartFrom > CONFIRM + 1
    /\ MaxDays \in Nat /\ MaxGained \in Nat

VARIABLES
    delta,          \* the operator
    day, count,     \* where the time and the node are
    epoch, gained,  \* history: the node's first reading since it began counting
                    \*   today, and what it counted today before that
    seen,           \* history: its last reading, None if there is none today
    calm            \* history: readings since the last disturbance

counterVars == <<delta, day, count, epoch, gained, seen, calm>>

CounterInit ==
    /\ delta = DeltaOf(None)
    /\ day = 0 /\ count = RestartFrom
    /\ epoch = None /\ gained = 0 /\ seen = None /\ calm = CONFIRM

Hears(v) == delta' = delta_update(delta, v, day * Day)

\* The node's own reading, of what it has counted
Reads ==
    \E more \in {0, 1} :
        /\ count + more <= MaxCount
        /\ count' = count + more
        /\ Hears(count')
        /\ epoch' = IF seen = None \/ epoch = None THEN count' ELSE epoch
        /\ seen' = count'
        /\ calm' = IF calm < CONFIRM THEN calm + 1 ELSE calm
        /\ UNCHANGED <<day, gained>>

Calm == calm >= Spacing /\ seen # None /\ epoch # None

\* A packet that was relayed, with what had been counted when it left
Relayed ==
    /\ Calm
    /\ \E v \in {seen - 1, seen} : v >= epoch /\ Hears(v)
    /\ calm' = 0
    /\ UNCHANGED <<day, count, epoch, gained, seen>>

\* A line that carried another node's numbers
Corrupted ==
    /\ Calm
    /\ \E v \in {0, MaxReading} : Hears(v)
    /\ calm' = 0
    /\ UNCHANGED <<day, count, epoch, gained, seen>>

\* The node begins again from zero, having counted far more than it soon will
NodeRestarts ==
    /\ Calm /\ count >= RestartFrom /\ gained < MaxGained
    /\ count' = 0 /\ gained' = gained + seen - epoch /\ epoch' = None
    /\ calm' = 0
    /\ UNCHANGED <<delta, day, seen>>

\* The tick finds the day over; what was disturbed is yesterday's
Midnight ==
    /\ day < MaxDays
    /\ day' = day + 1 /\ delta' = delta_roll(delta, day' * Day)
    /\ epoch' = None /\ gained' = 0 /\ seen' = None
    /\ UNCHANGED <<count, calm>>

CounterNext == Reads \/ Relayed \/ Corrupted \/ NodeRestarts \/ Midnight

CounterSpec == CounterInit /\ [][CounterNext]_counterVars

---------------------------------------------------------------------------
(***************************************************************************)
(* Once a disturbance has been followed by CONFIRM readings of the node,   *)
(* the day's total is what the node has counted in it: a relayed copy and  *)
(* a corrupted line leave no trace, a spike is undone, and a node that     *)
(* began again loses nothing of what it had counted before.                *)
(***************************************************************************)
CountsTheDay ==
    Calm /\ calm = CONFIRM => delta_value(delta) = gained + seen - epoch

(***************************************************************************)
(* A node's restart "is recognised by CONFIRM readings in a row below the  *)
(* last, rising among themselves, the first of them under half the old     *)
(* value" (emon_feed.py:517-518).                                              *)
(***************************************************************************)
RestartIsBelieved ==
    LET n == Len(delta.below)
        run == SubSeq(delta.below, n - CONFIRM + 1, n)
    IN ~(n >= CONFIRM /\ Rising(run) /\ 2 * run[1] < delta.last)
===============================================================================
