------------------------------ MODULE RaceTrail ------------------------------
(***************************************************************************)
(* The day's trail of store.py and the page that draws it (static/map.js): *)
(* kept fixes are numbered, and the page asks for those after the last it  *)
(* has.  Fixes lie on a line; an answer may be lost on its way, the page   *)
(* be loaded again, and the app restarted, which numbers afresh.           *)
(***************************************************************************)
EXTENDS Integers, Sequences

CONSTANTS
    Null,
    Spot,                  \* where the boat may be
    TRAIL_MIN_MOVE, TRAIL_MIN_INTERVAL, TRAIL_MAX_POINTS,
    DayLong,                \* a day
    MaxTime, MaxSeq, MaxRestarts    \* bounds

ASSUME RaceTrailAssumption ==
    /\ Null \notin Int /\ Spot \subseteq Int
    /\ TRAIL_MIN_MOVE \in Nat /\ TRAIL_MIN_INTERVAL \in Nat /\ TRAIL_MAX_POINTS \in Nat \ {0}
    /\ DayLong \in Nat \ {0}
    /\ MaxTime \in Nat /\ MaxSeq \in Nat /\ MaxRestarts \in Nat

VARIABLES
    now,
    trail, trail_seq, trail_day,    \* Store._trail, _trail_seq, _trail_day
    life,           \* history: how often the app has been restarted,
    kept,           \*   and how many fixes it ever kept
    since, drawn,   \* the page's: trailSince, and the fixes its line goes through
    sinceLife,      \* history: the life since is of
    coming,         \* on its way to the page, which has one request at a time
    overtaken       \* history: a new life was taken for the one since is of,
                    \*   having come as far

serverVars == <<trail, trail_seq, trail_day, life, kept>>
pageVars == <<since, drawn, sinceLife, coming, overtaken>>
trailVars == <<now, serverVars, pageVars>>

NothingComes == [next |-> Null]
LastOf(s) == s[Len(s)]
Oldest == trail[1].seq

TrailInit ==
    /\ now = 0
    /\ trail = <<>> /\ trail_seq = 0 /\ trail_day = Null /\ life = 0 /\ kept = 0
    /\ since = Null /\ drawn = <<>> /\ sinceLife = 0
    /\ coming = NothingComes /\ overtaken = FALSE

---------------------------------------------------------------------------
(* The app *)

Today == now \div DayLong
KeptToday == IF trail_day = Today THEN trail ELSE <<>>

\* Far enough from the last kept, or long enough after it
WorthKeeping(p) ==
    \/ KeptToday = <<>>
    \/ LET last == LastOf(KeptToday)
       IN \/ p - last.at >= TRAIL_MIN_MOVE \/ last.at - p >= TRAIL_MIN_MOVE
          \/ now - last.t >= TRAIL_MIN_INTERVAL

Pruned(s) ==
    IF Len(s) > TRAIL_MAX_POINTS THEN SubSeq(s, Len(s) - TRAIL_MAX_POINTS + 1, Len(s)) ELSE s

\* Mutant: numbered again from one each day
AppendTrailAfresh(p) ==
    LET seq == IF KeptToday = <<>> THEN 1 ELSE trail_seq + 1
        point == [seq |-> seq, at |-> p, t |-> now, nth |-> kept + 1]
    IN /\ trail_day' = Today
       /\ IF WorthKeeping(p)
          THEN trail_seq' = seq /\ trail' = Pruned(Append(KeptToday, point))
          ELSE trail' = KeptToday /\ UNCHANGED trail_seq

\* Mutant: every fix is counted, not every one kept
AppendTrailCountsAll(p) ==
    LET point == [seq |-> trail_seq + 1, at |-> p, t |-> now, nth |-> kept + 1]
    IN /\ trail_day' = Today /\ trail_seq' = trail_seq + 1
       /\ trail' = IF WorthKeeping(p) THEN Pruned(Append(KeptToday, point)) ELSE KeptToday

\* _append_trail(), of each fix
AppendTrail(p) ==
    LET point == [seq |-> trail_seq + 1, at |-> p, t |-> now, nth |-> kept + 1]
    IN /\ trail_day' = Today
       /\ IF WorthKeeping(p)
          THEN trail_seq' = trail_seq + 1 /\ trail' = Pruned(Append(KeptToday, point))
          ELSE trail' = KeptToday /\ UNCHANGED trail_seq

OnPosition(p) ==
    /\ trail_seq < MaxSeq
    /\ AppendTrail(p)
    /\ kept' = IF WorthKeeping(p) THEN kept + 1 ELSE kept
    /\ UNCHANGED <<now, life, pageVars>>

Tick == now < MaxTime /\ now' = now + 1 /\ UNCHANGED <<serverVars, pageVars>>

AppRestarts ==
    /\ life < MaxRestarts /\ life' = life + 1
    /\ trail' = <<>> /\ trail_seq' = 0 /\ trail_day' = Null
    /\ UNCHANGED <<now, kept, pageVars>>

---------------------------------------------------------------------------
(* The page *)

\* Mutant: a page that asks from after the newest is given what there is to
\* append
ReplacesOnlyOldest == since = Null \/ trail = <<>> \/ since < Oldest - 1

Replaces == \/ since = Null \/ trail = <<>>
            \/ since < Oldest - 1 \/ since > trail_seq

Tail_(from) == IF from > Len(trail) THEN <<>> ELSE SubSeq(trail, from, Len(trail))

\* GET /api/trail?since=...: trail(since)
Ask ==
    /\ coming = NothingComes
    /\ coming' = [next |-> trail_seq, replace |-> Replaces, of |-> life, nth |-> kept,
                  points |-> IF Replaces THEN trail ELSE Tail_(since - Oldest + 2)]
    /\ UNCHANGED <<now, serverVars, since, drawn, sinceLife, overtaken>>

\* addTrail()
Draw ==
    /\ coming # NothingComes
    /\ since' = coming.next
    /\ drawn' = IF coming.replace THEN coming.points ELSE drawn \o coming.points
    /\ coming' = NothingComes
    /\ overtaken' = /\ ~coming.replace
                    /\ overtaken \/ (sinceLife # coming.of /\ since <= coming.next)
    /\ sinceLife' = coming.of
    /\ UNCHANGED <<now, serverVars>>

\* Mutant: the tail is taken for had once it was asked for
DropoutCountsAsHad ==
    /\ coming # NothingComes /\ coming' = NothingComes /\ since' = coming.next
    /\ UNCHANGED <<now, serverVars, drawn, sinceLife, overtaken>>

\* "the next poll asks for the same tail again"
Dropout ==
    /\ coming # NothingComes /\ coming' = NothingComes
    /\ UNCHANGED <<now, serverVars, since, drawn, sinceLife, overtaken>>

Reload ==
    /\ since # Null
    /\ since' = Null /\ drawn' = <<>> /\ coming' = NothingComes /\ overtaken' = FALSE
    /\ UNCHANGED <<now, serverVars, sinceLife>>

TrailNext ==
    \/ \E p \in Spot : OnPosition(p)
    \/ Tick \/ AppRestarts \/ Ask \/ Draw \/ Dropout \/ Reload

TrailSpec == TrailInit /\ [][TrailNext]_trailVars

---------------------------------------------------------------------------
(***************************************************************************)
(* "Contiguous by construction, so the tail the caller is missing starts   *)
(* at a known index" (store.py:486): what trail() computes its answer by,  *)
(* through midnight, pruning and restarts.                                 *)
(***************************************************************************)
TrailIsContiguous ==
    /\ Len(trail) <= TRAIL_MAX_POINTS
    /\ \A i \in DOMAIN trail : trail[i].seq = trail_seq - Len(trail) + i

(***************************************************************************)
(* The page draws a line only between fixes that follow one another: lost  *)
(* answers, pruned points, a page loaded again or left asleep for long     *)
(* leave no gap "which reads as the boat having teleported"                *)
(* (tests/test_trail.py:237), but for what overtaken says.                 *)
(***************************************************************************)
PageHasNoGap ==
    ~overtaken =>
        \A i \in 1..Len(drawn) - 1 : drawn[i + 1].nth = drawn[i].nth + 1

(***************************************************************************)
(* An answer brings the page to the newest fix there was when it was       *)
(* given: it never asks "for points past the end for ever"                 *)
(* (docs/DESIGN.md, 12.6).                                                 *)
(***************************************************************************)
PageCatchesUp ==
    [][Draw /\ ~overtaken'
          => IF coming.next = 0 THEN drawn' = <<>>
             ELSE drawn' # <<>> /\ LastOf(drawn').nth = coming.nth]_trailVars

(***************************************************************************)
(* What the page draws is the track of the boat (trail.js, store.py trail):*)
(* unbroken, and as far as the last answer goes.                           *)
(***************************************************************************)
PageIsTheTrack == []PageHasNoGap /\ PageCatchesUp

(***************************************************************************)
(* After a poll the page shows nothing but the day the app is in: "local   *)
(* midnight emptying the trail" is one of the three things that make it    *)
(* drop what it holds (store.py:472).                                      *)
(***************************************************************************)
PageShowsOneDay ==
    coming = NothingComes /\ drawn # <<>> =>
        \A i \in DOMAIN drawn : drawn[i].t \div DayLong = LastOf(drawn).t \div DayLong
===============================================================================
