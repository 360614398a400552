-------------------------------- MODULE Config --------------------------------
(***************************************************************************)
(* Which events the recorder knows (config_manager.py): files whose names  *)
(* are the dates they hold from, one of which is chosen by the wall clock  *)
(* when the service starts, and looked for again each minute in its main   *)
(* loop, before the publishes that wait are tried (main.py:533).  Files    *)
(* come and are edited meanwhile, in an editor that may be caught half way *)
(* through a save, and the clock is wrong until somebody puts it right.    *)
(*                                                                         *)
(* Of a file's events only is kept whether it has any.  The service's own  *)
(* file is read once, at the start.                                        *)
(***************************************************************************)
EXTENDS Integers, FiniteSetsExt, Functions

CONSTANTS
    Dated, LastDate,    \* the dates in the names, from 1 on, and the last there can be
    Clock,              \* what the wall clock may be off by
    DAY, SCAN_SECONDS,  \* a day, and the 60 seconds of check_and_reload
    MaxNow, MaxSaves, MaxSets, MaxBoots     \* bounds

VARIABLES
    passed, offset,     \* the time that passes, and what the wall clock is off by
    files,              \* of each file there is, what is in it
    event_configs,      \* what is in force: of which file, and what it said
    last_scan_time,
    monitors,           \* what the triggers were made of at the start
    at,                 \* where the main loop is in its round, or "down"
    looked,             \* when it last looked
    saves, sets, boots,
    loadedAt,           \* history: what the wall clock said when that was loaded
    waiting,            \* history: the file due that it left as it was
    overlooked          \* history: files saved under a date that had been scanned

configVars ==
    <<passed, offset, files, event_configs, last_scan_time, monitors, at, looked,
      saves, sets, boots, loadedAt, waiting, overlooked>>

NotScanned == -100

ASSUME ConfigAssumption ==
    /\ LastDate \in Nat /\ Dated \subseteq 1..LastDate /\ Dated # {}
    /\ Clock \subseteq Int /\ \A skew \in Clock : skew > NotScanned
    /\ SCAN_SECONDS \in Nat \ {0} /\ DAY \in Nat /\ SCAN_SECONDS <= DAY

wall == passed + offset

Absent == -1
Default == 0            \* events_config.yml
Unknown == [of |-> Absent, says |-> "none"]

\* A file that parses has events, events of which one lacks a required field,
\* no section for them, or one with nothing in it
Content == {"events", "invalid", "none", "null", "broken"}

ConfigInit ==
    /\ passed = 0 /\ offset \in Clock
    /\ files \in {[f \in {} |-> "events"], [f \in {Min(Dated)} |-> "events"]}
    /\ event_configs = Unknown /\ last_scan_time = NotScanned /\ monitors = Unknown
    /\ at = "down" /\ looked = 0
    /\ saves = 0 /\ sets = 0 /\ boots = 0
    /\ loadedAt = NotScanned /\ waiting = {} /\ overlooked = {}

\* A round of the main loop is a minute and what its publishes take: not a day
TimePasses ==
    /\ passed < MaxNow /\ passed' = passed + 1
    /\ at # "down" => passed' - looked <= DAY - SCAN_SECONDS
    /\ UNCHANGED <<offset, files, event_configs, last_scan_time, monitors, at, looked,
                   saves, sets, boots, loadedAt, waiting, overlooked>>

ClockIsSet ==
    /\ sets < MaxSets /\ sets' = sets + 1 /\ offset' \in Clock \ {offset}
    /\ waiting' = {}
    /\ UNCHANGED <<passed, files, event_configs, last_scan_time, monitors, at, looked,
                   saves, boots, loadedAt, overlooked>>

Saves(file, content) ==
    /\ saves < MaxSaves /\ saves' = saves + 1
    /\ files' = [f \in DOMAIN files \cup {file} |-> IF f = file THEN content ELSE files[f]]
    /\ overlooked' = IF file <= last_scan_time THEN overlooked \cup {file} ELSE overlooked
    /\ UNCHANGED <<passed, offset, event_configs, last_scan_time, monitors, at, looked,
                   sets, boots, loadedAt, waiting>>

-----------------------------------------------------------------------------
(* Which file it is, and what comes of reading it                          *)

Due == {f \in DOMAIN files \ {Default} : f <= wall}

\* Mutants: the first that is due; none, where none is due
ChosenFirst ==
    CASE Due # {} -> Min(Due)
      [] Due = {} /\ Default \in DOMAIN files -> Default
      [] Due = {} /\ Default \notin DOMAIN files /\ DOMAIN files # {} -> Max(DOMAIN files)
      [] OTHER -> Absent
ChosenByClock ==
    CASE Due # {} -> Max(Due)
      [] Due = {} /\ Default \in DOMAIN files -> Default
      [] OTHER -> Absent

\* The newest that is due.  Where the clock is before them all: the default, or
\* else the newest, "so recording still happens"
Chosen ==
    CASE Due # {} -> Max(Due)
      [] Due = {} /\ Default \in DOMAIN files -> Default
      [] Due = {} /\ Default \notin DOMAIN files /\ DOMAIN files # {} -> Max(DOMAIN files)
      [] OTHER -> Absent

Says == IF Chosen = Absent THEN "none" ELSE files[Chosen]

\* A file that does not parse changes nothing.  A section with nothing in it
\* raises too, once it is in force
Raises == Says \in {"broken", "null"}
\* An event that lacks a field it must have
Valid == Says # "invalid"

Load ==
    /\ event_configs' =
           IF Says = "broken" THEN event_configs ELSE [of |-> Chosen, says |-> Says]
    /\ loadedAt' = IF Says = "broken" THEN loadedAt ELSE wall
    /\ last_scan_time' = IF Raises \/ Chosen = Absent THEN last_scan_time ELSE wall

\* The monitors are made of the events once
Monitored(config) == IF config.says = "events" THEN config ELSE Unknown

\* main() raises where the configuration does not load or is not valid, and
\* Docker starts it again
Boot ==
    /\ at = "down" /\ boots < MaxBoots /\ boots' = boots + 1
    /\ ~Raises /\ Valid
    /\ event_configs' = [of |-> Chosen, says |-> Says]
    /\ last_scan_time' = IF Chosen = Absent THEN NotScanned ELSE wall
    /\ monitors' = Monitored(event_configs') /\ at' = "sleep" /\ looked' = passed
    /\ loadedAt' = wall /\ waiting' = {} /\ overlooked' = {}
    /\ UNCHANGED <<passed, offset, files, saves, sets>>

Dies ==
    /\ at # "down" /\ at' = "down"
    /\ event_configs' = Unknown /\ last_scan_time' = NotScanned /\ monitors' = Unknown
    /\ loadedAt' = NotScanned /\ waiting' = {} /\ overlooked' = {}
    /\ UNCHANGED <<passed, offset, files, looked, saves, sets, boots>>

-----------------------------------------------------------------------------
(* The main loop, a round a minute                                         *)

\* Mutant: a day and a second are not a second
TooSoonNot == last_scan_time # NotScanned /\ wall - last_scan_time < DAY

\* timedelta.seconds: the days are left out
TooSoon == last_scan_time # NotScanned /\ (wall - last_scan_time) % DAY < SCAN_SECONDS

\* Mutant: later than the file in force is dated, whatever the clock was then
NewerNot == Max(Due) > event_configs.of
Newer == Max(Due) > last_scan_time

LooksAgain == ~TooSoon /\ Due # {} /\ Newer

\* What is due and is not in force, though the clock has not been put back since
\* it was loaded
NotInForce ==
    IF Due # {} /\ loadedAt' <= wall THEN {Max(Due)} \ (overlooked \cup {event_configs'.of})
    ELSE {}

check_and_reload ==
    /\ at = "sleep" /\ passed - looked >= SCAN_SECONDS /\ looked' = passed
    /\ IF LooksAgain THEN Load ELSE UNCHANGED <<event_configs, last_scan_time, loadedAt>>
    /\ at' = IF LooksAgain /\ Raises THEN "raised" ELSE "pending"
    /\ waiting' = IF at' = "raised" THEN {} ELSE NotInForce
    /\ UNCHANGED <<passed, offset, files, monitors, saves, sets, boots, overlooked>>

\* publish_pending is tried, unless what came before it raised
RoundEnds ==
    /\ at \in {"pending", "raised"} /\ at' = "sleep"
    /\ UNCHANGED <<passed, offset, files, event_configs, last_scan_time, monitors, looked,
                   saves, sets, boots, loadedAt, waiting, overlooked>>

ConfigNext ==
    \/ TimePasses \/ ClockIsSet
    \/ \E file \in Dated \cup {Default}, content \in Content : Saves(file, content)
    \/ Boot \/ Dies \/ check_and_reload \/ RoundEnds

ConfigSpec == ConfigInit /\ [][ConfigNext]_configVars

-----------------------------------------------------------------------------
\* The service has the events of some file, if there is one: "A wrong clock should
\* cost a wrong timestamp, not the recording"
NeverBare ==
    [][at = "down" /\ at' # "down" /\ DOMAIN files # {}
          => event_configs'.of # Absent]_configVars

\* The newest file that is due is in force by the second look at the latest,
\* through a clock that was behind and is put right: the second at which the clock
\* was not set since the one before.  (Not a file that was saved under a date
\* already scanned, nor where the clock is behind what it was at the load)
NothingWaits == [][at = "sleep" /\ at' = "pending" => waiting \cap waiting' = {}]_configVars

(***************************************************************************)
(* What the recorder goes by is what there is to go by                     *)
(* (config_manager.py:76, :228).                                           *)
(***************************************************************************)
ConfigIsInForce == NeverBare /\ NothingWaits

\* None of these: that the triggers watch for the events in force, that publishes
\* which wait are tried while the newest file does not parse, and that a section
\* with nothing in it leaves the events as they were
TriggersAreInForce == at = "sleep" => monitors = Monitored(event_configs)
PendingIsTried == at # "raised"
EventsAreKept ==
    [][at = "sleep" /\ event_configs.says = "events" => event_configs'.says # "null"]_configVars
===============================================================================
