-------------------------------- MODULE Tracks --------------------------------
(***************************************************************************)
(* What a recording's rows are made into: the exports, the attitude and    *)
(* the statistics of data_processor.py.  Rows are stored as they arrive,   *)
(* under a clock that may be put back meanwhile; every reader has them in  *)
(* the order of their times, and those of one time as they came.           *)
(*                                                                         *)
(* A topic is a kind of reading of a unit: "position", "speed" and         *)
(* "course" of a GPS receiver, "acc" of the three axes of the IMU, "power" *)
(* of a battery pack.  A row's value is its number; one that cannot be     *)
(* read is not ok.  Coordinates are points on a line.  A power has a sign, *)
(* and an axis has gravity along it or none.                               *)
(***************************************************************************)
EXTENDS Integers, Sequences, FiniteSets, SequencesExt, FiniteSetsExt, Functions

CONSTANTS
    Recorded,                       \* sets of topics a recording may have
    GPS_MATCH_TOLERANCE,
    MaxRows, MaxNow, MaxPutBacks    \* bounds

VARIABLES
    subscribed,     \* the topics of this recording
    rows,           \* recording_data, in the order of its rows
    now,
    putBacks        \* how often the clock was put back

tracksVars == <<subscribed, rows, now, putBacks>>

Axis == 0..2
Apart(x, y) == IF x < y THEN y - x ELSE x - y
Unknown == -1

TracksInit ==
    /\ subscribed \in Recorded
    /\ rows = <<>> /\ now = 0 /\ putBacks = 0

\* The three axes carry the time of the message they were read from, which is
\* not the one they arrive at.  n: of a power its sign, of an axis whether it reads
\* _ATTITUDE_MIN_G or nothing
Signs(topic) ==
    CASE topic[1] = "power" -> {-1, 1} [] topic[1] = "acc" -> {0, 1} [] OTHER -> {1}

Arrives(topic, t, ok, n) ==
    /\ Len(rows) < MaxRows
    /\ topic \in subscribed
    /\ topic[1] # "acc" => t = 0
    /\ topic[1] # "position" => ok
    /\ ~ok => n = 1
    /\ rows' = Append(rows, [topic |-> topic, at |-> now, t |-> t, ok |-> ok, n |-> n,
                             v |-> Len(rows) + 1])
    /\ UNCHANGED <<subscribed, now, putBacks>>

Passes == now < MaxNow /\ now' = now + 1 /\ UNCHANGED <<subscribed, rows, putBacks>>
PutBack ==
    /\ putBacks < MaxPutBacks /\ now > 0
    /\ now' = now - 1 /\ putBacks' = putBacks + 1
    /\ UNCHANGED <<subscribed, rows>>

TracksNext ==
    \/ \E topic \in subscribed, t \in 0..1, ok \in BOOLEAN :
        \E n \in Signs(topic) : Arrives(topic, t, ok, n)
    \/ Passes \/ PutBack

-----------------------------------------------------------------------------
(* Reading the rows                                                        *)

get_recording_data(topic) ==
    SortSeq(SelectSeq(rows, LAMBDA r : r.topic = topic),
            LAMBDA r, s : r.at < s.at \/ (r.at = s.at /\ r.v < s.v))

get_recording_topics == {rows[i].topic : i \in DOMAIN rows}

\* Rows that have no number are passed over
get_topic_data(topic) == SelectSeq(get_recording_data(topic), LAMBDA r : r.ok)

find_gps_streams == {topic[2] : topic \in {u \in get_recording_topics : u[1] = "position"}}

\* A fix that is not two finite numbers is passed over
read_position_topic(unit) ==
    SelectSeq(get_recording_data(<<"position", unit>>), LAMBDA r : r.ok)

-----------------------------------------------------------------------------
(* The speed of each fix                                                   *)

bisect_left(times, target) == 1 + Cardinality({i \in DOMAIN times : times[i] < target})

\* Mutant: only the reading at or after the fix is looked at
nearest_indexNot(times, target) ==
    LET i == bisect_left(times, target)
    IN IF i \in DOMAIN times /\ times[i] - target <= GPS_MATCH_TOLERANCE THEN i ELSE Unknown

\* Of the readings on either side of the target the closer one within the
\* tolerance, the earlier if both are as close
nearest_index(times, target) ==
    LET i == bisect_left(times, target)
        apart(j) == Apart(times[j], target)
        close == {j \in {i - 1, i} \cap DOMAIN times : apart(j) <= GPS_MATCH_TOLERANCE}
    IN IF close = {} THEN Unknown
       ELSE CHOOSE j \in close : \A k \in close : apart(j) < apart(k) \/ (apart(j) = apart(k) /\ j <= k)

attach_speeds(fixes, speeds) ==
    LET times == [i \in DOMAIN speeds |-> speeds[i].at]
        sog(fix) == LET i == nearest_index(times, fix.at)
                    IN IF i = Unknown THEN Unknown ELSE speeds[i].v
    IN [i \in DOMAIN fixes |-> [ts |-> fixes[i].at, at |-> fixes[i].v, sog |-> sog(fixes[i])]]

get_track(unit) == attach_speeds(read_position_topic(unit), get_topic_data(<<"speed", unit>>))

-----------------------------------------------------------------------------
(* The exports                                                             *)

\* One file per receiver that has a line to draw
generate_kml_exports ==
    LET track(unit) == [i \in DOMAIN get_track(unit) |-> get_track(unit)[i].at]
    IN [unit \in {u \in find_gps_streams : Len(track(u)) >= 2} |-> track(unit)]

\* Mutant: a reading is carried to the fixes after it, and one of the same
\* moment only from the next fix on
AdvancedNot(series, i, ts) ==
    LET later == {j \in i..Len(series) : j = i \/ series[j].at < ts} IN Max(later)

\* Where the index into a series is moved to by a fix at ts
Advanced(series, i, ts) ==
    LET stops == {j \in i..Len(series) : j = Len(series) \/ series[j + 1].at > ts}
    IN Min(stops)

\* The points of a receiver's track, each with what its other topic read: an
\* index goes along with the fixes and starts anew with each receiver
generate_gpx_export(unit, topic) ==
    LET fixes == get_track(unit)
        series == get_recording_data(topic)
        index[i \in 0..Len(fixes)] ==
            IF i = 0 THEN 1 ELSE Advanced(series, index[i - 1], fixes[i].ts)
    IN [i \in DOMAIN fixes |->
            [at |-> fixes[i].at,
             value |-> IF series = <<>> THEN Unknown ELSE series[index[i]].v]]

\* Mutant: a line of the file has what came at its time alone
FilledNot(before, came) == [topic \in DOMAIN came |-> came[topic]]

\* A line of the file: what came at its time, else what the line before has
Filled(before, came) ==
    [topic \in DOMAIN came |-> IF came[topic] = Unknown THEN before[topic] ELSE came[topic]]

generate_csv_export ==
    LET times == SetToSortSeq({rows[i].at : i \in DOMAIN rows}, <)
        of(topic, at) == {i \in DOMAIN rows : rows[i].topic = topic /\ rows[i].at = at}
        came(at) == [topic \in get_recording_topics |->
                        IF of(topic, at) = {} THEN Unknown ELSE Max(of(topic, at))]
        line[i \in 0..Len(times)] ==
            IF i = 0 THEN [topic \in get_recording_topics |-> Unknown]
            ELSE Filled(line[i - 1], came(times[i]))
    IN [i \in DOMAIN times |-> [timestamp |-> times[i], values |-> line[i]]]

-----------------------------------------------------------------------------
(* Attitude and statistics                                                 *)

\* Mutant: the axes are matched by when they arrived
ReadingTimeNot(r) == r.at

\* What the axes are matched by
ReadingTime(r) == r.t

\* Mutant: an angle is worked out of axes that read nothing
AnglesNot(which) == Axis

\* The axes of which one must read gravity for the angle to mean anything
Angles(which) == IF which = "derived/roll" THEN {1, 2} ELSE Axis

\* One sample per message of which every axis was read, the last value of an
\* axis that came twice, but where they are too weak
derived_attitude(which) ==
    LET of(axis) == get_topic_data(<<"acc", axis>>)
        times(axis) == {ReadingTime(of(axis)[i]) : i \in DOMAIN of(axis)}
        complete == {t \in times(0) : t \in times(1) /\ t \in times(2)}
        last(axis, t) == Last(SelectSeq(of(axis), LAMBDA r : ReadingTime(r) = t))
        strong == {t \in complete : \E axis \in Angles(which) : last(axis, t).n # 0}
        samples == SetToSortSeq(strong, <)
    IN [i \in DOMAIN samples |-> [axis \in Axis |-> last(axis, samples[i]).v]]

\* From the first receiver alone, in a recording where that has two fixes
calculate_gps_statistics ==
    LET unit == Min(find_gps_streams)
        track == get_track(unit)
        speeds == get_topic_data(<<"speed", unit>>)
        leg(i) == Apart(track[i].at, track[i - 1].at)
        travelled == SumFunction([i \in 2..Len(track) |-> leg(i)])
    IN IF find_gps_streams = {} \/ Len(track) < 2 THEN [distance |-> Unknown, max_speed |-> Unknown]
       ELSE [distance |-> travelled,
             max_speed |-> IF speeds = <<>> THEN Unknown
                           ELSE Max({speeds[i].v : i \in DOMAIN speeds})]

\* Mutant: what charges is energy less than none
UsedNot(area) == area

\* What is told of an area under the power: what charged counts as what was used
Used(area) == Apart(area, 0)

\* Twice the energy: the area under the power, by trapezoids
calculate_energy_statistics ==
    LET power == get_topic_data(<<"power", 0>>)
        watts(i) == power[i].n * power[i].v
        piece(i) == (power[i].at - power[i - 1].at) * (watts(i) + watts(i - 1))
    IN Used(SumFunction([i \in 2..Len(power) |-> piece(i)]))

\* Mutant: as it once was, where the energy is and the distance is not yet
calculate_statisticsNot ==
    [distance |-> calculate_gps_statistics.distance, energy |-> calculate_energy_statistics,
     efficient |-> FALSE]

\* Energy by the way made, where there is a way and a power
calculate_statistics ==
    [distance |-> calculate_gps_statistics.distance, energy |-> calculate_energy_statistics,
     efficient |-> calculate_gps_statistics.distance > 0 /\ get_topic_data(<<"power", 0>>) # <<>>]

-----------------------------------------------------------------------------
(* What the readers owe, without their indices                             *)

Good(topic) == {i \in DOMAIN rows : rows[i].topic = topic /\ rows[i].ok}
\* A row is before another in time, or came before it in the same moment
Before(i, j) == rows[i].at < rows[j].at \/ (rows[i].at = rows[j].at /\ i < j)
\* The last of some rows by a time, Unknown if there is none
LatestBy(S, ts) ==
    LET until == {i \in S : rows[i].at <= ts}
    IN IF until = {} THEN Unknown ELSE CHOOSE i \in until : \A j \in until \ {i} : Before(j, i)

\* Every good fix is on the track once, in the order of time; with it is a
\* speed within the tolerance that none is nearer than, or none if there is none
TrackIsTheFixes(unit) ==
    LET track == get_track(unit)
        speeds == Good(<<"speed", unit>>)
        away(i, fix) == Apart(rows[i].at, fix.ts)
    IN /\ {track[i].at : i \in DOMAIN track} = Good(<<"position", unit>>)
       /\ \A i, j \in DOMAIN track : i < j => Before(track[i].at, track[j].at)
       /\ \A i \in DOMAIN track :
            IF \A s \in speeds : away(s, track[i]) > GPS_MATCH_TOLERANCE
            THEN track[i].sog = Unknown
            ELSE /\ track[i].sog \in speeds
                 /\ away(track[i].sog, track[i]) <= GPS_MATCH_TOLERANCE
                 /\ \A s \in speeds : away(track[i].sog, track[i]) <= away(s, track[i])

\* A line of fewer than two points is not drawn; what a point of the track
\* says of another reading is the last that had come by then.  One before the
\* first such reading has the first: what the boat did later
ExportsAreTheTrack(unit) ==
    LET gpx(topic) == generate_gpx_export(unit, topic)
        latest(topic, i) == LatestBy({j \in DOMAIN rows : rows[j].topic = topic}, get_track(unit)[i].ts)
    IN /\ unit \in DOMAIN generate_kml_exports <=> Cardinality(Good(<<"position", unit>>)) >= 2
       /\ unit \in DOMAIN generate_kml_exports =>
            generate_kml_exports[unit] = [i \in DOMAIN get_track(unit) |-> get_track(unit)[i].at]
       /\ \A topic \in get_recording_topics, i \in DOMAIN get_track(unit) :
            latest(topic, i) # Unknown => gpx(topic)[i].value = latest(topic, i)

\* Every moment a row came at is a line of the CSV, with the last that every
\* topic had said by then
LinesAreTheMoments ==
    /\ {generate_csv_export[i].timestamp : i \in DOMAIN generate_csv_export}
            = {rows[i].at : i \in DOMAIN rows}
    /\ \A i \in DOMAIN generate_csv_export, topic \in get_recording_topics :
        generate_csv_export[i].values[topic]
            = LatestBy({j \in DOMAIN rows : rows[j].topic = topic}, generate_csv_export[i].timestamp)

\* An angle is of the last of each of the three axes of one message, however far
\* apart they came, and every message of which all three came has one, but where
\* those the angle is between read next to nothing
AttitudeIsOfOneMessage ==
    LET last(axis, t) == LatestBy({i \in Good(<<"acc", axis>>) : rows[i].t = t}, MaxNow)
        read(t) == \A axis \in Axis : last(axis, t) # Unknown
        heavy(axes) == {t \in 0..1 : read(t) /\ \E axis \in axes : rows[last(axis, t)].n = 1}
        is(angle, messages) ==
            /\ Len(angle) = Cardinality(messages)
            /\ \A t \in messages : \E i \in DOMAIN angle :
                    angle[i] = [axis \in Axis |-> last(axis, t)]
    IN /\ is(derived_attitude("derived/roll"), heavy({1, 2}))
       /\ is(derived_attitude("derived/pitch"), heavy(Axis))

\* The way is no shorter than from one of its points to another; the energy is
\* what the greatest power over all the time could give at most and, of a pack that
\* did not both charge and discharge, the least power at least; and where the boat
\* moved on power, there is an efficiency
StatisticsAreOfTheTrack ==
    LET power == Good(<<"power", 0>>)
        unit == Min(find_gps_streams)
        fixes == Good(<<"position", unit>>)
        span(S) == Max({rows[i].at : i \in S}) - Min({rows[i].at : i \in S})
        stats == calculate_statistics
        mixed == \E i, j \in power : rows[i].n # rows[j].n
    IN /\ stats.distance # Unknown => \A i, j \in fixes : stats.distance >= Apart(i, j)
       /\ power # {} =>
            /\ stats.energy <= 2 * Max(power) * span(power)
            /\ stats.energy >= IF mixed THEN 0 ELSE 2 * Min(power) * span(power)
       /\ stats.efficient <=>
            power # {} /\ find_gps_streams # {} /\ Cardinality(fixes) >= 2

(* What is exported, drawn and told of a recording is what was recorded,    *)
(* in the order of time, whatever order the rows came in: the fixes with    *)
(* their speeds (data_processor.py:1569, :1751), the readings carried along *)
(* the track (:1912), the lines of the CSV (:1836), the attitude (:1419)    *)
(* and the statistics (:2103, :2151).                                       *)
TracksAreTheRecording ==
    /\ \A unit \in find_gps_streams : TrackIsTheFixes(unit) /\ ExportsAreTheTrack(unit)
    /\ LinesAreTheMoments
    /\ AttitudeIsOfOneMessage
    /\ StatisticsAreOfTheTrack
===============================================================================
