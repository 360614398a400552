------------------------------- MODULE Decoder -------------------------------
(***************************************************************************)
(* What one line of a sensor node becomes: emon_decoder.py.  A line is an  *)
(* ordered list of emissions.  Each is a quantity with up to three parts:  *)
(* a reading, for the retained envelope; a message on the topic the        *)
(* quantity always had; a point for Influx.  The two old parts raise where *)
(* the settings of the node lack a key they read; the reading never does.  *)
(*                                                                         *)
(* The settings of a node are [key -> name or number], a key <<letter>> or *)
(* <<letter, channel>>; a node that is not in the file has no keys.        *)
(* Values, units and scales are left out.                                  *)
(***************************************************************************)
EXTENDS Naturals, Sequences, FiniteSets, SequencesExt

CONSTANTS
    Channels,   \* of each kind a node has; 2 to 16 in the code
    Unused      \* the name of a channel that is not connected

NoKey == <<>>
Name == <<"name">>

\* A part of an emission: the keys it reads; one with a gate reads that first,
\* and is nothing if it is the name of a channel that is not connected
NoPart == [is |-> FALSE, gate |-> NoKey, needs |-> {}]
Part(needs) == [NoPart EXCEPT !.is = TRUE, !.needs = needs]
Gated(gate, needs) == [Part(needs) EXCEPT !.gate = gate]

\* label is the key the name of a reading is under, or NoKey: the name is the
\* field's.  bracket comes after the name of a channel that has two quantities.
\* channel is the key by which the legacy topic may be left out
Emission(quantity, read, label, mqtt, influx, channel) ==
    [quantity |-> quantity, read |-> read, label |-> label, bracket |-> "",
     mqtt |-> mqtt, influx |-> influx, channel |-> channel]

\* A quantity there is one of, called what it is
Plain(field) == Emission(<<field>>, TRUE, NoKey, Part({}), Part({Name}), NoKey)

\* One of a numbered kind, under the name of its channel, or of the node
Channel(field, letter, i) ==
    LET key == <<letter, i>>
    IN Emission(<<field, i>>, TRUE, key, Part({}), Part({Name, key}), key)
Numbered(field, i) == [Plain(field) EXCEPT !.quantity = <<field, i>>]

OnMqtt(quantity, part, channel) == Emission(quantity, FALSE, NoKey, part, NoPart, channel)
OnInflux(quantity, label, part) == Emission(quantity, TRUE, label, NoPart, part, NoKey)

Plains(fields) == [i \in DOMAIN fields |-> Plain(fields[i])]
\* Per channel what Of says, channel by channel
Each(Of(_)) == FlattenSeq([i \in 1..Channels |-> Of(i - 1)])

\* Last in every line: none if the signal is not known, or came through more
\* than one relay and nobody knows whose it is.  What is not a number raises
_rssi(line) ==
    LET part == IF line.rssi = "garbage" THEN Part({<<"a number">>}) ELSE Part({Name})
    IN IF line.rssi \in {"none", "many"} THEN <<>>
       ELSE <<Emission(<<"rssi", line.rssi>>, line.rssi # "garbage", NoKey, part, part, NoKey)>>

-----------------------------------------------------------------------------
(* One operator per payload, as in the code                                *)

_rain(line) ==
    <<[Plain("rain") EXCEPT !.influx = Part({Name, <<"mmPerPulse">>})]>>
    \o Plains(<<"temperature", "supplyV">>) \o _rssi(line)

_temp(line) ==
    Each(LAMBDA i : <<Channel("temperature", "t", i)>>) \o Plains(<<"supplyV">>) \o _rssi(line)

_disp(line) == Plains(<<"temperature">>) \o _rssi(line)

\* Mutant: the counter of a channel has the name of its power
_pulseNot(line) ==
    Each(LAMBDA i : <<Channel("power", "p", i), Channel("pulse", "p", i)>>) \o _rssi(line)

_pulse(line) ==
    Each(LAMBDA i : <<Channel("power", "p", i),
                      [Channel("pulse", "p", i) EXCEPT !.bracket = "pulse"]>>) \o _rssi(line)

_hws(line) ==
    Each(LAMBDA i : <<Channel("temperature", "t", i)>>)
    \o Each(LAMBDA i : <<Channel("pump", "p", i)>>) \o _rssi(line)

\* The old topic of a flow has litres, of which the settings say how many
_wtr(line) ==
    LET scale(i) == <<"litresPerPulse", i>>
        flow(i) == <<[Channel("flowCount", "f", i) EXCEPT
                        !.mqtt = Part({scale(i)}), !.influx.needs = @ \cup {scale(i)}]>>
    IN Each(flow) \o Each(LAMBDA i : <<Channel("height", "h", i)>>)
       \o Plains(<<"supplyV">>) \o _rssi(line)

_scl(line) == Plains(<<"scale", "supplyV">>) \o _rssi(line)

\* MQTT had the shunts one by one and Influx one quantity after the other: each
\* is emitted twice
_bat(line) ==
    LET kinds == <<"power", "pulseIn", "pulseOut">>
        s(i) == <<"s", i>>
        v(i) == <<"v", i>>
        shunt(i) == [k \in 1..3 |-> OnMqtt(<<kinds[k], i>>, Gated(s(i), {}), NoKey)]
        shunts(k) == Each(LAMBDA i : <<[OnInflux(<<kinds[k], i>>, s(i), Gated(s(i), {Name}))
                                        EXCEPT !.bracket = IF k = 1 THEN "" ELSE kinds[k]]>>)
        voltage(i) == <<OnMqtt(<<"voltage", i>>, Part({}), v(i))>>
        named(i) == <<OnInflux(<<"voltage", i>>, v(i), Gated(v(i), {Name}))>>
    IN Each(shunt) \o shunts(1) \o shunts(2) \o shunts(3)
       \o Each(voltage) \o Each(named) \o _rssi(line)

_inv(line) ==
    Plains(<<"activePower", "apparentPower", "batteryVoltage", "batteryDischarge",
             "batteryCharging", "pvInputPower", "batteryCapacity", "pulse">>) \o _rssi(line)

_bee(line) ==
    Plains(<<"beeInRate", "beeOutRate", "beesIn", "beesOut", "temperatureIn",
             "temperatureOut", "scale", "supplyV">>) \o _rssi(line)

_air(line) ==
    Plains(<<"pm0p3", "pm0p5", "pm1p0", "pm2p5", "pm5p0", "pm10p0">>) \o _rssi(line)

_leaf(line) ==
    Plains(<<"odometer", "range", "batteryTemperature", "batterySOH", "batteryWH",
             "batteryChargeBars", "chargeTimeRemaining">>) \o _rssi(line)

\* The position is for MQTT alone, and not without a fix
_gps(line) ==
    Plains(<<"latitude", "longitude", "course", "speed">>)
    \o (IF line.fix THEN <<[Plain("position") EXCEPT !.influx = NoPart]>> ELSE <<>>)
    \o _rssi(line)

_pth(line) == Plains(<<"pressure", "temperature", "humidity">>) \o _rssi(line)

_bms(line) ==
    Plains(<<"batteryVoltage", "batterySoC", "power", "resCapacity", "temperature",
             "lifetimeCycles">>)
    \o Each(LAMBDA i : <<Numbered("cellVoltage", i)>>) \o _rssi(line)

_svc(line) ==
    Plains(<<"motorTemperature", "controllerTemperature", "capVoltage", "batteryCurrent",
             "rpm">>) \o _rssi(line)

_mwv(line) == Plains(<<"temperature", "windSpeed", "windDirection">>) \o _rssi(line)

\* Mutant: the heading's second emission has the reading as well
_imuTwice(line) ==
    <<OnInflux(<<"heading">>, NoKey, Part({Name}))>>
    \o FlattenSeq([f \in 1..3 |->
            [axis \in 1..3 |-> Numbered(<<"acc", "mag", "gyro">>[f], axis - 1)]])
    \o <<Plain("heading")>> \o _rssi(line)

\* Influx had the heading first and MQTT last
_imu(line) ==
    <<OnInflux(<<"heading">>, NoKey, Part({Name}))>>
    \o FlattenSeq([f \in 1..3 |->
            [axis \in 1..3 |-> Numbered(<<"acc", "mag", "gyro">>[f], axis - 1)]])
    \o <<OnMqtt(<<"heading">>, Part({}), NoKey)>> \o _rssi(line)

DECODERS ==
    {"rain", "temp", "disp", "pulse", "hws", "wtr", "scl", "bat", "inv", "bee", "air",
     "leaf", "gps", "pth", "bms", "svc", "mwv", "imu"}

decode(line) ==
    CASE ~line.parses \/ line.node \notin DECODERS -> <<>>
      [] line.node = "rain" -> _rain(line)    [] line.node = "temp" -> _temp(line)
      [] line.node = "disp" -> _disp(line)    [] line.node = "pulse" -> _pulse(line)
      [] line.node = "hws" -> _hws(line)      [] line.node = "wtr" -> _wtr(line)
      [] line.node = "scl" -> _scl(line)      [] line.node = "bat" -> _bat(line)
      [] line.node = "inv" -> _inv(line)      [] line.node = "bee" -> _bee(line)
      [] line.node = "air" -> _air(line)      [] line.node = "leaf" -> _leaf(line)
      [] line.node = "gps" -> _gps(line)      [] line.node = "pth" -> _pth(line)
      [] line.node = "bms" -> _bms(line)      [] line.node = "svc" -> _svc(line)
      [] line.node = "mwv" -> _mwv(line)      [] OTHER -> _imu(line)

-----------------------------------------------------------------------------
(* What the sinks make of it (sink_mqtt.py, sink_influx.py)                *)

setting(ns, key) == IF key \in DOMAIN ns THEN ns[key] ELSE ""

\* Nothing of a node, or a channel, that is named Unused
HasReading(emission, ns) ==
    /\ emission.read
    /\ Unused \notin {setting(ns, emission.label), setting(ns, Name)}
\* Under the channel's name, or the field's
Reading(emission, ns) ==
    LET name == setting(ns, emission.label)
    IN [topic |-> emission.quantity, group |-> setting(ns, Name),
        name |-> IF name = "" THEN <<"", emission.quantity>> ELSE <<name, emission.bracket>>]

PartRaises(part, ns) ==
    IF part.gate = NoKey THEN ~(part.needs \subseteq DOMAIN ns)
    ELSE \/ part.gate \notin DOMAIN ns
         \/ ns[part.gate] # Unused /\ ~(part.needs \subseteq DOMAIN ns)

\* In order, up to the first that raises; of those not looked at none does
SentOf(emissions, part(_), looked(_), ns) ==
    LET raises == {i \in DOMAIN emissions :
                    looked(emissions[i]) /\ PartRaises(part(emissions[i]), ns)}
    IN {i \in DOMAIN emissions :
            /\ looked(emissions[i])
            /\ \A j \in raises : i < j
            /\ setting(ns, part(emissions[i]).gate) # Unused}

Messages(emissions, ns) ==
    SentOf(emissions, LAMBDA e : e.mqtt,
           LAMBDA e : e.mqtt.is /\ setting(ns, e.channel) # Unused, ns)
Points(emissions, ns) == SentOf(emissions, LAMBDA e : e.influx, LAMBDA e : e.influx.is, ns)

\* Mutant: one lane for all, which ends with the first that raises
EnvelopesNot(emissions, ns) ==
    {i \in DOMAIN emissions : i \in Messages(emissions, ns) /\ HasReading(emissions[i], ns)}
Envelopes(emissions, ns) == {i \in DOMAIN emissions : HasReading(emissions[i], ns)}
==============================================================================
