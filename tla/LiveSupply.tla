------------------------------ MODULE LiveSupply ------------------------------
(***************************************************************************)
(* Supply to demand, python/emon_live/supply.py: a period is cut into      *)
(* slices, and each slice's supply is attributed to its demand by the way  *)
(* the site is wired.  One circuit, with its solar, a battery, one load,   *)
(* an export and a house.  Energy is in whole units; a share of a slice is *)
(* a numerator over shares(s).                                             *)
(***************************************************************************)
EXTENDS Integers

Source == {"solar", "battery", "unmatched"}
Demand == {"charge", "export", "load", "house"}

NoLess(x) == IF x < 0 THEN 0 ELSE x
Least(x, y) == IF x < y THEN x ELSE y
Most(x, y) == IF x > y THEN x ELSE y

---------------------------------------------------------------------------
(* _slices(): of a series, what is known of it is its last bucket          *)

Bucket(t, v) == [t |-> t, v |-> v]
NoBucket == Bucket(-1, 0)

\* rises(): into a bucket, from the last before it that had one
Rise(last, v) == IF last = NoBucket THEN 0 ELSE NoLess(v - last.v)

\* held(): the last mean, for as long as a gap is bridged
Held(last, t, hold) == IF last # NoBucket /\ t - last.t <= hold THEN last.v ELSE 0

\* watts(), energy_of(): the two banks of the battery, each on its own, so one charging
\* while the other discharges is both
Net(w) == w[1] + w[2]
Discharge(w) == NoLess(w[1]) + NoLess(w[2])
Charge(w) == NoLess(-w[1]) + NoLess(-w[2])

\* _export(): the night load is the mean discharge, so far, of the slices whose
\* solar made nothing
NightOf(night, sun, w) ==
    IF sun <= 0 /\ Net(w) > 0
    THEN [total |-> night.total + Net(w), count |-> night.count + 1] ELSE night
NightLoad(night) == IF night.count = 0 THEN 0 ELSE night.total \div night.count

\* Solar less the battery's charge less the night load
Export(night, sun, w) == NoLess(sun - NoLess(-Net(w)) - NightLoad(night))

---------------------------------------------------------------------------
(* allocate()                                                              *)

SliceOf(solar, out, charge, export, load) ==
    [solar |-> solar, battery |-> out, charge |-> charge, export |-> export, load |-> load,
     house |-> NoLess(solar + out - charge - export - load)]

\* Of the charge: from solar, and the rest from the battery
ChargeOfSolar(s) == Least(s.charge, s.solar)
ChargeOfBattery(s) == Least(s.charge - ChargeOfSolar(s), s.battery)

\* Mutant: of all the solar there was
ExportOfSolarAgain(s) == Least(s.export, s.solar)

\* Of the export: from what solar is left
ExportOfSolar(s) == Least(s.export, s.solar - ChargeOfSolar(s))

SolarLeft(s) == s.solar - ChargeOfSolar(s) - ExportOfSolar(s)
BatteryLeft(s) == s.battery - ChargeOfBattery(s)
Pool(s) == SolarLeft(s) + BatteryLeft(s)
Wanted(s) == s.load + s.house
shares(s) == Most(1, Most(Pool(s), Wanted(s)))

allocate(s) ==
    LET D == shares(s)
        \* in the same proportion to the load and the house
        Given(src, want) ==
            CASE src = "solar" -> want * SolarLeft(s)
              [] src = "battery" -> want * BatteryLeft(s)
              [] src = "unmatched" -> want * (D - Pool(s))
        Spread(want, src) == IF Wanted(s) = 0 THEN 0 ELSE Given(src, want)
    IN [l \in Source \X Demand |->
          CASE l = <<"solar", "charge">> -> D * ChargeOfSolar(s)
            [] l = <<"battery", "charge">> -> D * ChargeOfBattery(s)
            [] l = <<"unmatched", "charge">> -> D * (s.charge - ChargeOfSolar(s) - ChargeOfBattery(s))
            [] l = <<"solar", "export">> -> D * ExportOfSolar(s)
            [] l = <<"unmatched", "export">> -> D * (s.export - ExportOfSolar(s))
            [] l = <<"battery", "export">> -> 0
            [] l[2] = "load" -> Spread(s.load, l[1])
            [] l[2] = "house" -> Spread(s.house, l[1])]

---------------------------------------------------------------------------
CONSTANTS MaxEnergy, MaxSlices      \* bounds

ASSUME LiveSupplyAssumption == MaxEnergy \in Nat /\ MaxSlices \in Nat

VARIABLES
    solar,      \* the last bucket of the solar's power there was
    counter,    \* and of the load's counter
    slot,       \* the last slice's number
    night,      \* the discharge of the dark slices, and their number
    slice       \* the last slice

supplyVars == <<solar, counter, slot, night, slice>>

SupplyInit ==
    /\ solar = NoBucket /\ counter = NoBucket /\ slot = 0
    /\ night = [total |-> 0, count |-> 0]
    /\ slice = SliceOf(0, 0, 0, 0, 0)

\* The next slice of the day: a bucket may be missing, a counter may fall; of the
\* battery there is one
NextSlice ==
    /\ slot < MaxSlices /\ slot' = slot + 1
    /\ solar' \in {solar} \cup {Bucket(slot', v) : v \in 0..MaxEnergy}
    /\ counter' \in {counter} \cup {Bucket(slot', v) : v \in 0..MaxEnergy}
    /\ \E w \in (-1..1) \X (-1..1) :
          LET sun == Held(solar', slot', 1)
              load == IF counter'.t = slot' THEN Rise(counter, counter'.v) ELSE 0
          IN /\ night' = NightOf(night, sun, w)
             /\ slice' = SliceOf(sun, Discharge(w), Charge(w), Export(night', sun, w), load)

SupplyNext == NextSlice

SupplySpec == SupplyInit /\ [][SupplyNext]_supplyVars

---------------------------------------------------------------------------
\* What a demand is given, and what a source gives, by all their links
To(links, d) == links[<<"solar", d>>] + links[<<"battery", d>>] + links[<<"unmatched", d>>]
From(links, src) ==
    links[<<src, "charge">>] + links[<<src, "export">>] + links[<<src, "load">>]
        + links[<<src, "house">>]

(***************************************************************************)
(* Every demand of a slice is met exactly, no source gives more than it    *)
(* made, nothing flows backwards, and nothing is unmatched while the       *)
(* demands that are measured do not exceed the supply and the export is no *)
(* more than charging leaves of the solar: an export is of the sun alone,  *)
(* and more of it than there is of the sun is unmatched however full the   *)
(* battery; whatever two meters that disagree read (supply.py:34-46).      *)
(***************************************************************************)
SliceBalances ==
    LET D == shares(slice)
        links == allocate(slice)
    IN /\ \A l \in Source \X Demand : links[l] >= 0
       /\ \A d \in Demand : To(links, d) = D * slice[d]
       /\ \A src \in {"solar", "battery"} : From(links, src) <= D * slice[src]
       /\ slice.charge + slice.export + slice.load <= slice.solar + slice.battery
            /\ slice.export <= slice.solar - ChargeOfSolar(slice)
          => From(links, "unmatched") = 0

(***************************************************************************)
(* "The difference is drawn from an 'Unmatched' source rather than hidden" *)
(* (supply.py:43-44): what the sources made is all accounted for.          *)
(***************************************************************************)
NothingIsHidden ==
    \A src \in {"solar", "battery"} :
        From(allocate(slice), src) = shares(slice) * slice[src]
===============================================================================
