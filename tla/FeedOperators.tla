---------------------------- MODULE FeedOperators ----------------------------
(***************************************************************************)
(* The operators of python/pyEmon/pyemonlib/emon_feed.py that add up a     *)
(* feed over a period: what a reading makes of each of them.  Times are    *)
(* whole units, a period is a day of Day of them, and a window is its      *)
(* first Window units.  An operator without a period has start None, and   *)
(* its value is None until there is something to report.                   *)
(***************************************************************************)
EXTENDS Integers, Sequences

CONSTANTS
    None,
    Day, Window,
    CONFIRM,        \* readings in a row that are believed
    MaxGap          \* a gap longer than this is not bridged

period_start(t) == (t \div Day) * Day
window_end(start) == start + Window
Rising(run) == \A i \in 1..Len(run) - 1 : run[i] <= run[i + 1]

---------------------------------------------------------------------------
(* DailyDelta: how far a counter has come since the boundary.  The reading *)
(* accepted before last is prev; below are the readings in a row that were *)
(* lower than last                                                         *)

DeltaOf(start) == [start |-> start, base |-> None, last |-> None, prev |-> None,
                   below |-> <<>>, carry |-> 0]
delta_roll(s, t) == IF period_start(t) = s.start THEN s ELSE DeltaOf(period_start(t))
delta_value(s) == IF s.base = None THEN None ELSE s.last - s.base + s.carry

\* Mutant: a restart is believed, and what was counted before it forgotten
delta_confirmForgets(s, run) ==
    IF s.prev # None /\ run[1] >= s.prev
    THEN [s EXCEPT !.last = run[Len(run)], !.below = <<>>]
    ELSE IF 2 * run[1] < s.last
         THEN [s EXCEPT !.base = run[1], !.prev = None, !.last = run[Len(run)], !.below = <<>>]
         ELSE [s EXCEPT !.below = <<>>]

\* A run is believed: last was a spike, or the node has begun again from zero
delta_confirm(s, run) ==
    IF s.prev # None /\ run[1] >= s.prev
    THEN [s EXCEPT !.last = run[Len(run)], !.below = <<>>]
    ELSE IF 2 * run[1] < s.last
         THEN [s EXCEPT !.carry = @ + s.last - s.base, !.base = run[1], !.prev = None,
                        !.last = run[Len(run)], !.below = <<>>]
         ELSE [s EXCEPT !.below = <<>>]

delta_accept(s, v) ==
    LET run == Append(s.below, v)
    IN CASE s.base = None -> [s EXCEPT !.base = v, !.last = v]
         [] s.base # None /\ v >= s.last ->
              [s EXCEPT !.below = <<>>, !.prev = s.last, !.last = v]
         [] OTHER -> IF Len(run) >= CONFIRM /\ Rising(run)
                     THEN delta_confirm(s, run)
                     ELSE [s EXCEPT !.below = run]

delta_update(s, v, t) == delta_accept(delta_roll(s, t), v)

---------------------------------------------------------------------------
(* Integrate: twice the area under a power since the boundary              *)

AreaOf(start) == [start |-> start, total |-> None, prev |-> None]
area_roll(s, t) == IF period_start(t) = s.start THEN s ELSE AreaOf(period_start(t))
area_value(s) == s.total

\* Mutant: a reading is bridged to the one before, whenever that was
area_acceptBridges(s, v, t) ==
    [s EXCEPT !.total = IF s.prev = None THEN 0 ELSE s.total + (v + s.prev.v) * (t - s.prev.t),
              !.prev = [t |-> t, v |-> v]]

area_accept(s, v, t) ==
    LET bridged == s.prev # None /\ t - s.prev.t \in 1..MaxGap
        sofar == IF s.total = None THEN 0 ELSE s.total
    IN [s EXCEPT !.total = IF bridged THEN sofar + (v + s.prev.v) * (t - s.prev.t) ELSE sofar,
                 !.prev = IF s.prev = None \/ t >= s.prev.t THEN [t |-> t, v |-> v] ELSE @]

area_update(s, v, t) == area_accept(area_roll(s, t), v, t)

---------------------------------------------------------------------------
(* Mean: its sum and its count                                             *)

MeanOf(start) == [start |-> start, total |-> 0, count |-> 0]
mean_roll(s, t) == IF period_start(t) = s.start THEN s ELSE MeanOf(period_start(t))
mean_update(s, v, t) ==
    LET r == mean_roll(s, t) IN [r EXCEPT !.total = @ + v, !.count = @ + 1]
mean_value(s) == IF s.count = 0 THEN None ELSE s.total \div s.count

---------------------------------------------------------------------------
(* WindowDelta: how far a counter came in the window, told once it has     *)
(* closed                                                                  *)

WindowNew == [start |-> None, base |-> None, last |-> None, held |-> None]

Closes(s, t) == s.start # None /\ s.base # None /\ t >= window_end(s.start)
window_roll(s, t) ==
    LET closed == IF Closes(s, t)
                  THEN [s EXCEPT !.held = s.last - s.base, !.base = None, !.last = None]
                  ELSE s
    IN IF period_start(t) = closed.start THEN closed
       ELSE [closed EXCEPT !.start = period_start(t), !.base = None, !.last = None]
\* Mutant: readings after the close count as well
window_updateEver(s, v, t) ==
    LET r == window_roll(s, t)
    IN [r EXCEPT !.base = IF @ = None THEN v ELSE @, !.last = v]

window_update(s, v, t) ==
    LET r == window_roll(s, t)
    IN IF t >= window_end(r.start) THEN r
       ELSE [r EXCEPT !.base = IF @ = None THEN v ELSE @, !.last = v]
===============================================================================
