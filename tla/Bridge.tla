-------------------------------- MODULE Bridge --------------------------------
(***************************************************************************)
(* A line of a sensor node from the serial port to the broker (emon_mqtt.py*)
(* and sink_mqtt.py, as emonSerialToMQTT.py calls it) and to Influx        *)
(* (emon_influx.py), under settings that change (SettingsFiles).  The      *)
(* broker may go away, and lose what it retains; paho calls on_connect in  *)
(* a thread of its own when it is back.                                    *)
(***************************************************************************)
EXTENDS SettingsFiles, Decoder

CONSTANTS
    Line,           \* lines there may be: [node, sub, rssi, fix, parses]
    MaxLosses       \* bound: connections ever lost

VARIABLES
    connected,
    config,         \* retained on emon/config
    telling,        \* the document on_connect has made and not yet published
    overtaken,      \* history: settings were loaded between the two
    sent,           \* history: the last line, and what became of it
    losses

bridgeVars == <<settingsVars, connected, config, telling, overtaken, sent, losses>>

Doc(m) == [file |-> m.file, settings |-> m.settings]
NoConfig == [file |-> NoFile]

NodeSettings(text, line) ==
    IF line.sub \in DOMAIN Settings[text][line.node] THEN Settings[text][line.node][line.sub]
    ELSE [key \in {} |-> NoFile]

\* Lines of a node that is not configured, or that nobody knows, are refused
IsKnown(m, line) == line.node \in m.nodes /\ line.node \in DECODERS

BridgeInit ==
    /\ SettingsInit
    /\ connected = TRUE /\ config = Doc(manager["bridge"]) /\ telling = NoConfig
    /\ overtaken = FALSE /\ sent = NoConfig /\ losses = 0

publish_config(m) == config' = IF connected THEN Doc(m) ELSE config

\* Envelopes of it, and what is on its old topics, of one line
Published(line, text) ==
    LET emissions == decode(line)
        ns == NodeSettings(text, line)
    IN [line |-> line, text |-> text,
        legacy |-> {emissions[i].quantity : i \in Messages(emissions, ns)},
        envelopes |-> [i \in Envelopes(emissions, ns) |-> Reading(emissions[i], ns)]]

process_line(line) ==
    LET old == manager["bridge"]
        m == check_and_reload_settings(old)
        reloaded == Due(old) /\ Changes(Rescanned(old), now)
    IN /\ BridgeReads
       /\ IF reloaded THEN publish_config(m) ELSE UNCHANGED config
       /\ overtaken' = (overtaken \/ (reloaded /\ telling # NoConfig))
       /\ sent' = IF IsKnown(m, line) /\ connected THEN Published(line, m.settings) ELSE sent
       /\ UNCHANGED <<connected, telling, losses>>

\* Of one line, the quantities that are points in Influx
Imported(line, text) ==
    LET emissions == decode(line)
    IN [line |-> line, text |-> text,
        points |-> {emissions[i].quantity : i \in Points(emissions, NodeSettings(text, line))}]

import_line(line, t) ==
    /\ \/ ImporterRaises(t) /\ UNCHANGED sent
       \/ /\ ImporterReads(t)
          /\ LET m == manager["importer"]' IN
             sent' = IF IsKnown(m, line) THEN Imported(line, m.settings) ELSE sent
    /\ UNCHANGED <<connected, config, telling, overtaken, losses>>

\* Outside: the broker, or the way to it, and its retained messages with it if
\* it has no disk
Disconnects ==
    /\ connected /\ losses < MaxLosses
    /\ connected' = FALSE /\ losses' = losses + 1
    /\ config' \in {config, NoConfig} /\ telling' = NoConfig
    /\ UNCHANGED <<settingsVars, overtaken, sent>>

\* Mutant: the config is told at the start alone
on_connectNot ==
    /\ ~connected /\ connected' = TRUE
    /\ overtaken' = FALSE
    /\ UNCHANGED <<settingsVars, config, telling, sent, losses>>

\* "Again on every reconnect": the settings are read ...
on_connect ==
    /\ ~connected /\ connected' = TRUE
    /\ telling' = Doc(manager["bridge"]) /\ overtaken' = FALSE
    /\ UNCHANGED <<settingsVars, config, sent, losses>>

\* ... and published
Tells ==
    /\ telling # NoConfig /\ telling' = NoConfig
    /\ config' = telling
    /\ UNCHANGED <<settingsVars, connected, overtaken, sent, losses>>

BridgeNext ==
    \/ \E line \in Line : process_line(line)
    \/ \E line \in Line, t \in 0..MaxNow : import_line(line, t)
    \/ Disconnects \/ on_connect \/ Tells
    \/ /\ SettingsClock \/ SaveOpens \/ SaveWrites \/ SaveTears
       /\ UNCHANGED <<connected, config, telling, overtaken, sent, losses>>

BridgeSpec == BridgeInit /\ [][BridgeNext]_bridgeVars

-----------------------------------------------------------------------------
(* What a line is expected to tell                                         *)

\* Quantities of a line, but for those of a channel or a node named Unused and
\* a signal that is not a number
Quantities(line, text) ==
    LET emissions == ToSet(decode(line))
        ns == NodeSettings(text, line)
        hidden(e) == \/ Unused \in {setting(ns, e.label), setting(ns, Name)}
                     \/ e.quantity = <<"rssi", "garbage">>
    IN {e.quantity : e \in emissions} \ {e.quantity : e \in {x \in emissions : hidden(x)}}

\* Each quantity of a line is on a retained envelope of its own, by whichever
\* lane it came to be decoded and whatever key of the settings is not there
\* ("a channel missing from emon_config no longer hides the rest"); and no two
\* of them under one name ("the channel's name, unique within the group")
EnvelopesAreWhole ==
    "envelopes" \in DOMAIN sent =>
        LET told == sent.envelopes IN
        /\ {told[i].topic : i \in DOMAIN told} = Quantities(sent.line, sent.text)
        /\ \A i, j \in DOMAIN told :
              i # j => told[i].topic # told[j].topic /\ told[i].name # told[j].name

\* "So any consumer can see every name": what is retained on emon/config is what
\* lines are decoded by, over reloads and restarts of the broker.  It is not so
\* after settings that were loaded between the two steps of on_connect
ConfigIsTold ==
    connected /\ telling = NoConfig /\ ~overtaken => config = Doc(manager["bridge"])

LinesAreTold == SettingsAreOfTheTime /\ EnvelopesAreWhole /\ ConfigIsTold

\* It is so only outside a race: not in general
ConfigIsAlwaysTold == connected /\ telling = NoConfig => config = Doc(manager["bridge"])
===============================================================================
