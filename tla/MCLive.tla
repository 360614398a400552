-------------------------------- MODULE MCLive --------------------------------
(***************************************************************************)
(* emon_live, and the bridge that its feeds come over, part by part: a     *)
(* behaviour runs one of them.                                             *)
(***************************************************************************)
EXTENDS LiveDerived, LiveCache, LiveSupply, FeedCounter, TLC

CONSTANT Parts          \* those that are run

VARIABLES
    part,
    wall, dir, saving, manager, saves, used, connected, config, telling, overtaken, sent,
    losses

-----------------------------------------------------------------------------
(* Every node type there is, under a file that names all its channels and  *)
(* one that leaves some out, and some unused                               *)

Called(key) == IF Len(key) = 1 THEN key[1] ELSE key[1] \o ToString(key[2])
Complete ==
    [key \in {<<"name">>, <<"mmPerPulse">>}
                \cup {"t", "p", "f", "h", "s", "v", "litresPerPulse"} \X {0, 1} |-> Called(key)]
Partial ==
    [key \in {<<"name">>, <<"t", 1>>, <<"p", 0>>, <<"f", 0>>, <<"s", 1>>, <<"v", 1>>} |->
        IF key[1] \in {"t", "s"} THEN "Unused" ELSE Called(key)]
Types == {"rain", "temp", "disp", "pulse", "hws", "wtr", "scl", "bat", "inv", "bee", "air",
          "leaf", "gps", "pth", "bms", "svc", "mwv", "imu"}
Files == [complete |-> [n \in Types |-> (0 :> Complete)],
          partial |-> [n \in Types \ {"leaf"} |-> (0 :> Partial)]]

LineOf(node, sub, rssi, fix, parses) ==
    [node |-> node, sub |-> sub, rssi |-> rssi, fix |-> fix, parses |-> parses]
OneLine == {LineOf("pulse", 0, "direct", TRUE, TRUE)}
AllLines ==
    {LineOf(n, 0, "direct", TRUE, TRUE) : n \in Types}
    \cup {LineOf("temp", 1, "none", FALSE, TRUE), LineOf("gps", 0, "many", FALSE, TRUE),
          LineOf("disp", 0, "garbage", TRUE, TRUE), LineOf("base", 0, "none", TRUE, TRUE),
          LineOf("imu", 0, "relayed", TRUE, FALSE), LineOf("imu", 0, "relayed", TRUE, TRUE)}

BridgeOf(Line, MaxSaves, MaxLosses) == INSTANCE Bridge WITH
    now <- wall, Dated <- {1, 2}, Legacy <- 3, Settings <- Files, Empty <- "empty",
    Broken <- "broken", NoFile <- None, settingsCheckInterval <- 2, MaxNow <- 2,
    Channels <- 2, Unused <- "Unused"
\* Every line under files that stay, and one under files that come and go
BridgeInit == BridgeOf(OneLine, 1, 1)!BridgeInit
BridgeNext == BridgeOf(OneLine, 1, 1)!BridgeNext
LinesNext == BridgeOf(AllLines, 0, 0)!BridgeNext
LinesAreTold == BridgeOf(OneLine, 1, 1)!LinesAreTold
ConfigIsAlwaysTold == BridgeOf(OneLine, 1, 1)!ConfigIsAlwaysTold

bridged == <<wall, dir, saving, manager, saves, used, connected, config, telling, overtaken,
             sent, losses>>
vars == <<part, liveVars, cacheVars, supplyVars, counterVars, bridged>>

Init ==
    /\ part \in Parts
    /\ LiveInit /\ (part # "derived" => site = {"counter"})
    /\ CacheInit /\ (part # "cache" => period = "today")
    /\ SupplyInit
    /\ CounterInit
    /\ BridgeInit /\ (part \notin {"bridge", "lines"} => dir = [f \in {} |-> None])

Next ==
    /\ UNCHANGED part
    /\ \/ part = "derived" /\ LiveNext /\ UNCHANGED <<cacheVars, supplyVars, counterVars, bridged>>
       \/ part = "cache" /\ CacheNext /\ UNCHANGED <<liveVars, supplyVars, counterVars, bridged>>
       \/ part = "supply" /\ SupplyNext /\ UNCHANGED <<liveVars, cacheVars, counterVars, bridged>>
       \/ part = "counter" /\ CounterNext /\ UNCHANGED <<liveVars, cacheVars, supplyVars, bridged>>
       \/ part = "bridge" /\ BridgeNext /\ UNCHANGED <<liveVars, cacheVars, supplyVars, counterVars>>
       \/ part = "lines" /\ LinesNext /\ UNCHANGED <<liveVars, cacheVars, supplyVars, counterVars>>

Spec == Init /\ [][Next]_vars

===============================================================================
