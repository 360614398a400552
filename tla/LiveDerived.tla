------------------------------ MODULE LiveDerived ------------------------------
(***************************************************************************)
(* python/emon_live between the broker and the page: a reading comes       *)
(* (state.py), what is derived of it is computed (derived.py), put in the  *)
(* store and published, the periods are rolled by a thread of their own    *)
(* (app.py), and a start rebuilds it all from Influx (influx.py).          *)
(*                                                                         *)
(* The site derives four feeds: a counter's day and its night, the energy  *)
(* of a power, and the mean of that energy, which is derived of a derived  *)
(* feed.  The counter counts one a unit of time, the power is constant: a  *)
(* reading is its feed and its time.                                       *)
(***************************************************************************)
EXTENDS FeedOperators, Sequences, FiniteSets, FiniteSetsExt

CONSTANTS
    Power,                              \* W
    MaxLive, MaxStarts, MaxInflight,    \* bounds
    LIVE_S,
    PUBLISH                             \* --publish: this instance is the site's

\* No value is none of those there are, and neither are a reading and an area's last
ASSUME LiveAssumption ==
    /\ Day \in Nat \ {0} /\ Window \in 1..Day /\ MaxGap \in Nat /\ CONFIRM \in Nat
    /\ Power \in Int /\ LIVE_S \in Nat
    /\ None \notin Int /\ None \notin [t : Int, v : Int]
    /\ None \notin [entry : {"today", "night", "energy", "average"}, value : Int, t : Int]

VARIABLES
    site,           \* the feeds of the site
    moment,
    rows,           \* when each feed was read: what Influx holds
    retained,       \* what the broker keeps of each derived feed
    inflight,       \* on its way to emon_live, in order
    link,           \* "off": not running; "seeded": not subscribed; "on"
    op, last_t,     \* Derived.entries: their operators; Derived.last_t
    hand,           \* of the network loop and the tick: derived, not yet accepted
    store,          \* LiveState.store: the derived feeds
    starts,         \* history: starts of emon_live
    got,            \* history: the readings of each feed the operators were given
    whole,          \* history: the readings the last start found in Influx
    ticked, late    \* history: the last tick; a reading was handled after a tick past it

env == <<site, moment, rows>>
derived == <<op, last_t, got, ticked, late>>
liveVars == <<env, retained, inflight, link, derived, hand, store, starts, whole>>

Feed == {"counter", "power"}
Entry == {"today", "night", "energy", "average"}
Thread == {"loop", "tick"}
Unread == -1

ReadingOf(e, v, t) == [entry |-> e, value |-> v, t |-> t]
ValueOf(f, t) == IF f = "counter" THEN t ELSE Power

---------------------------------------------------------------------------
(* Derived: a step gives the operators and the readings it changed         *)

Gives(ops, out) == [ops |-> ops, out |-> out]
Told(e, v, t) == IF v = None THEN <<>> ELSE <<ReadingOf(e, v, t)>>

\* _propagate(), of the counter
counter_value(ops, v, t) ==
    LET today == delta_update(ops.today, v, t)
        night == window_update(ops.night, v, t)
    IN Gives([ops EXCEPT !.today = today, !.night = night],
          Told("today", delta_value(today), t) \o Told("night", night.held, t))

\* ... of what is derived of the power
energy_value(ops, v, t) ==
    LET average == mean_update(ops.average, v, t)
    IN Gives([ops EXCEPT !.average = average],
          Told("energy", v, t) \o Told("average", mean_value(average), t))

\* ... and of the power itself
power_value(ops, v, t) ==
    LET energy == area_update(ops.energy, v, t)
    IN energy_value([ops EXCEPT !.energy = energy], energy.total, t)

Computes(ops, f, v, t) ==
    IF f = "counter" THEN counter_value(ops, v, t) ELSE power_value(ops, v, t)

\* on_value(): a reading no newer than the last of its feed does not pass
IsNewer(last, r) == r.t > last[r.feed]

DerivedNew ==
    [ops |-> [today |-> DeltaOf(None), night |-> WindowNew, energy |-> AreaOf(None),
              average |-> MeanOf(None)],
     last |-> [f \in Feed |-> Unread], out |-> <<>>]

on_value(d, r) ==
    IF ~IsNewer(d.last, r) THEN [d EXCEPT !.out = <<>>]
    ELSE LET c == Computes(d.ops, r.feed, ValueOf(r.feed, r.t), r.t)
         IN [ops |-> c.ops, last |-> [d.last EXCEPT ![r.feed] = r.t], out |-> c.out]

\* tick(): every period that is over is rolled, in the order they depend
tick_at(ops, t) ==
    LET today == delta_roll(ops.today, t)
        night == window_roll(ops.night, t)
        energy == area_roll(ops.energy, t)
        Rolled(o, was) == was.start # None /\ o.start # was.start
        kept == [ops EXCEPT !.today = today, !.night = night, !.energy = energy]
        after == IF Rolled(energy, ops.energy) THEN energy_value(kept, 0, t) ELSE Gives(kept, <<>>)
        average == mean_roll(after.ops.average, t)
    IN Gives([after.ops EXCEPT !.average = average],
          (IF Rolled(today, ops.today) THEN Told("today", 0, t) ELSE <<>>)
            \o (IF Closes(ops.night, t) THEN Told("night", night.held, t) ELSE <<>>)
            \o after.out)

\* Mutant: an input is replayed as if nothing were counted of it
replay_sinceLive(f) == moment - LIVE_S

\* How far back a start reads a feed: to the boundary of what it feeds, and to
\* the one before while the window of this one is open
replay_since(f) ==
    LET start == period_start(moment)
    IN Min({moment - LIVE_S,
            IF f = "counter" /\ moment < window_end(start)
            THEN period_start(start - 1) ELSE start})

Event(f, t) == [feed |-> f, t |-> t]

\* seed(): the rows of a feed that are read, if Influx answers for it
Replayed(feeds, f) == IF f \in feeds THEN {t \in rows[f] : t >= replay_since(f)} ELSE {}

\* ... one of them handled, if there is one of that time
Replays(feeds, d, f, t) ==
    IF t \in Replayed(feeds, f)
    THEN LET new == on_value(d, Event(f, t)) IN [new EXCEPT !.out = d.out \o @]
    ELSE d

\* ... and all of them, in the order of their times
Replay(feeds) ==
    LET before[t \in 0..moment + 1] ==
            IF t = 0 THEN DerivedNew
            ELSE Replays(feeds, Replays(feeds, before[t - 1], "counter", t - 1), "power", t - 1)
    IN before[moment + 1]

\* ... and then the periods that are over are rolled
Rolls(d) ==
    LET rolled == tick_at(d.ops, moment)
    IN [d EXCEPT !.ops = rolled.ops, !.out = @ \o rolled.out]
Seeded(feeds) == Rolls(Replay(feeds))

---------------------------------------------------------------------------
LiveInit ==
    /\ site \in {{"counter"}, {"power"}} /\ moment = 0 /\ rows = [f \in Feed |-> {}]
    /\ retained = [e \in Entry |-> None] /\ inflight = <<>> /\ link = "off"
    /\ op = DerivedNew.ops /\ last_t = DerivedNew.last
    /\ hand = [th \in Thread |-> <<>>] /\ store = [e \in Entry |-> None]
    /\ starts = 0 /\ got = [f \in Feed |-> {}] /\ whole = [f \in Feed |-> {}]
    /\ ticked = Unread /\ late = FALSE

Clock ==
    /\ moment < MaxLive /\ moment' = moment + 1
    /\ UNCHANGED <<site, rows, retained, inflight, link, derived, hand, store, starts, whole>>

\* The bridge reads a feed: to Influx, and to whoever has subscribed
BridgeSends ==
    \E f \in site :
        /\ moment \notin rows[f] /\ Len(inflight) < MaxInflight
        /\ rows' = [rows EXCEPT ![f] = @ \cup {moment}]
        /\ inflight' = IF link = "on" THEN Append(inflight, Event(f, moment)) ELSE inflight
        /\ UNCHANGED <<site, moment, retained, link, derived, hand, store, starts, whole>>

\* main() up to client.start(): Influx answers for some of the feeds.  Nothing is
\* published yet
Start ==
    /\ link = "off" /\ starts < MaxStarts
    /\ \E feeds \in {{}, site} :
           LET d == Seeded(feeds)
               ToldOf(e) == {i \in DOMAIN d.out : d.out[i].entry = e}
           IN /\ op' = d.ops /\ last_t' = d.last
              /\ whole' = [f \in Feed |-> IF f \in feeds THEN rows[f] ELSE {}]
              /\ got' = [f \in Feed |-> Replayed(feeds, f)]
              /\ store' = [e \in Entry |-> IF ToldOf(e) = {} THEN None ELSE d.out[Max(ToldOf(e))]]
    /\ link' = "seeded" /\ starts' = starts + 1 /\ ticked' = moment /\ late' = FALSE
    /\ UNCHANGED <<env, retained, inflight, hand>>

RetainedOf(f) == IF rows[f] = {} THEN <<>> ELSE <<Event(f, Max(rows[f]))>>
RetainedAs(e) == IF retained[e] = None THEN <<>> ELSE <<retained[e]>>

\* _on_connect(): what the broker has retained comes at once
Subscribe ==
    /\ link = "seeded" /\ link' = "on"
    /\ inflight' = RetainedOf("counter") \o RetainedOf("power")
                     \o RetainedAs("today") \o RetainedAs("night")
                     \o RetainedAs("energy") \o RetainedAs("average")
    /\ UNCHANGED <<env, retained, derived, hand, store, starts, whole>>

\* The broker goes away; what was under way is lost
Disconnect ==
    /\ link = "on" /\ link' = "seeded" /\ inflight' = <<>>
    /\ UNCHANGED <<env, retained, derived, hand, store, starts, whole>>

Stop ==
    /\ link # "off" /\ starts < MaxStarts /\ link' = "off" /\ inflight' = <<>>
    /\ hand' = [th \in Thread |-> <<>>] /\ store' = [e \in Entry |-> None]
    /\ op' = DerivedNew.ops /\ last_t' = DerivedNew.last /\ got' = [f \in Feed |-> {}]
    /\ UNCHANGED <<env, retained, starts, whole, ticked, late>>

\* handle_message(): of a feed, it is computed; of a derived feed, it is our own
HandleMessage ==
    /\ hand["loop"] = <<>> /\ inflight # <<>>
    /\ inflight' = Tail(inflight)
    /\ LET r == Head(inflight)
       IN IF "entry" \in DOMAIN r
          THEN /\ store' = [store EXCEPT ![r.entry] = r]
               /\ UNCHANGED <<derived, hand>>
          ELSE LET d == on_value([ops |-> op, last |-> last_t, out |-> <<>>], r)
               IN /\ op' = d.ops /\ last_t' = d.last /\ hand' = [hand EXCEPT !["loop"] = d.out]
                  /\ got' = IF IsNewer(last_t, r) THEN [got EXCEPT ![r.feed] = @ \cup {r.t}] ELSE got
                  /\ late' = (late \/ (IsNewer(last_t, r) /\ r.t < ticked))
                  /\ UNCHANGED <<store, ticked>>
    /\ UNCHANGED <<env, retained, link, starts, whole>>

Ticks ==
    /\ link # "off" /\ hand["tick"] = <<>> /\ ticked # moment
    /\ LET d == tick_at(op, moment)
       IN op' = d.ops /\ hand' = [hand EXCEPT !["tick"] = d.out]
    /\ ticked' = moment
    /\ UNCHANGED <<env, retained, inflight, link, last_t, got, late, store, starts, whole>>

\* accept_derived(), one reading: no lock is held from the computing to here
AcceptDerived(th) ==
    /\ hand[th] # <<>>
    /\ LET r == Head(hand[th])
       IN /\ hand' = [hand EXCEPT ![th] = Tail(@)]
          /\ store' = [store EXCEPT ![r.entry] = r]
          /\ IF link = "on" /\ PUBLISH
             THEN /\ retained' = [retained EXCEPT ![r.entry] = r] /\ inflight' = Append(inflight, r)
             ELSE UNCHANGED <<retained, inflight>>
    /\ UNCHANGED <<env, link, derived, starts, whole>>

LiveNext ==
    \/ Clock \/ BridgeSends \/ Start \/ Subscribe \/ Disconnect \/ Stop
    \/ HandleMessage \/ Ticks \/ \E th \in Thread : AcceptDerived(th)

LiveSpec == LiveInit /\ [][LiveNext]_liveVars

---------------------------------------------------------------------------
InDay(f) == {t \in got[f] \cup whole[f] : period_start(t) = period_start(moment)}

(***************************************************************************)
(* While a feed's period is today's, its total is exactly today's: of the  *)
(* counter, from the first reading that came since midnight, or that Influx*)
(* had at the start, to the last; of the power, the area under them.       *)
(* Restarts, the retained readings a subscription brings again and late    *)
(* ones change nothing of it.                                              *)
(***************************************************************************)
TodayIsCounted ==
    op.today.start = period_start(moment) /\ InDay("counter") # {} =>
        delta_value(op.today) = Max(InDay("counter")) - Min(InDay("counter"))

\* The units of time between two readings near enough to be bridged
Bridged(readings) ==
    {u \in 0..moment : \E s, t \in readings : s <= u /\ u < t /\ t - s <= MaxGap}

EnergyIsTheArea ==
    op.energy.start = period_start(moment) /\ InDay("power") # {} =>
        op.energy.total = 2 * Power * Cardinality(Bridged(InDay("power")))

(***************************************************************************)
(* Once the window of the day has closed, what is held is what the counter *)
(* came in it, also after a start; unless a reading came after a tick that *)
(* was past it.                                                            *)
(***************************************************************************)
NightIsItsWindow ==
    LET start == period_start(moment)
        window == {t \in InDay("counter") : t < window_end(start)}
    IN op.night.start = start /\ op.night.base = None /\ window # {} /\ ~late =>
          op.night.held = Max(window) - Min(window)

(***************************************************************************)
(* What the page shows of a feed is the total of the period it says: of    *)
(* the day, of the area under it, of the window of the night.              *)
(***************************************************************************)
TotalsAreOfTheirPeriods == TodayIsCounted /\ EnergyIsTheArea /\ NightIsItsWindow

(***************************************************************************)
(* "Totals drop to 0 within this of midnight" (app.py:48-49): once a tick  *)
(* is past midnight and nothing is under way, the page's total of the      *)
(* counter is the day's.                                                   *)
(***************************************************************************)
TotalIsTodays ==
    LET quiet == /\ link = "on" /\ ticked = moment /\ inflight = <<>>
                 /\ \A th \in Thread : hand[th] = <<>>
    IN quiet /\ ~late /\ store.today # None /\ op.today.start = period_start(moment) =>
          store.today.value = IF op.today.base = None THEN 0 ELSE delta_value(op.today)

(***************************************************************************)
(* A window's figure is "held until the next one closes"                   *)
(* (emon_feed.py:692-693).                                                     *)
(***************************************************************************)
WindowIsHeld ==
    [][LET start == period_start(moment)
       IN op.night.held # None /\ op.night.start = start /\ moment >= window_end(start)
          /\ ticked >= window_end(start) /\ link # "off" /\ link' # "off" =>
             (op.night.held' = op.night.held \/ period_start(moment') # start)]_op
===============================================================================
