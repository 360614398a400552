---------------------------- MODULE SettingsFiles ----------------------------
(***************************************************************************)
(* Which emon_config is in force (pyemonlib/emon_settings.py), for two     *)
(* processes that share its directory: the bridge, which goes by the time  *)
(* it is, and the importer, which goes by the time of the line it reads,   *)
(* old logs included.  The settings page (emon_settings_web.py) writes the *)
(* files under them.                                                       *)
(*                                                                         *)
(* A file is the moment it is named for, YYYYMMDD-hhmm.yml; emon_config.yml*)
(* is dated after every moment.  What a file says is a member of Content,  *)
(* or Empty, which is good YAML, or Broken, which is not.                  *)
(***************************************************************************)
EXTENDS Integers, FiniteSetsExt

CONSTANTS
    Dated, Legacy,          \* the files there may be: moments, and a later one
    Settings, Empty, Broken,\* what they may say: [text -> [node type -> [subnode ->
                            \*   its settings]]], and two texts that say nothing
    NoFile,
    settingsCheckInterval,
    MaxNow, MaxSaves        \* bounds

VARIABLES
    now,
    dir,        \* [file -> what it says], of those there are
    saving,     \* the file the page has opened and not yet written, and its text
    manager,    \* of each process, its EmonSettings
    saves,
    used        \* history: what the last reading of a process went by

settingsVars == <<now, dir, saving, manager, saves, used>>

Process == {"bridge", "importer"}
Content == DOMAIN Settings

-----------------------------------------------------------------------------
\* Mutant: a file is in force only after the minute it is named for
get_applicable_settings_fileLate(available, t) ==
    LET past == {f \in available : f < t}
    IN IF available = {} THEN NoFile
       ELSE IF past # {} THEN Max(past) ELSE Min(available)

\* The latest of a moment not after t; without one, the earliest there is
get_applicable_settings_file(available, t) ==
    LET past == {f \in available : f <= t}
    IN IF available = {} THEN NoFile
       ELSE IF past # {} THEN Max(past) ELSE Min(available)

\* Of a file that is empty, the nodes are forgotten before the loop over what it
\* says fails; one that cannot be parsed changes nothing
load_settings_from_file(m, file) ==
    CASE dir[file] \in Content ->
            [m EXCEPT !.file = file, !.settings = dir[file], !.nodes = DOMAIN Settings[dir[file]] \cup {"base"}]
      [] dir[file] = Empty -> [m EXCEPT !.nodes = {}]
      [] OTHER -> m

load_settings(m, t) ==
    LET seen == [m EXCEPT !.available = DOMAIN dir]
        file == get_applicable_settings_file(DOMAIN dir, t)
    IN IF file = NoFile THEN [seen EXCEPT !.file = NoFile, !.settings = Empty]
       ELSE load_settings_from_file(seen, file)

NewManager ==
    load_settings([file |-> NoFile, settings |-> Empty, nodes |-> {}, available |-> {},
                   checked |-> -settingsCheckInterval], now)

\* Every minute at most the directory is looked at
Rescanned(m) ==
    IF now - m.checked < settingsCheckInterval THEN m
    ELSE [m EXCEPT !.checked = now, !.available = DOMAIN dir]

Due(m) == now - m.checked >= settingsCheckInterval
Changes(m, t) == get_applicable_settings_file(m.available, t) # m.file

check_and_reload_settings(m) ==
    LET seen == Rescanned(m)
    IN IF Due(m) /\ Changes(seen, now) THEN load_settings(seen, now) ELSE seen

\* Mutant: the time of the line is forgotten on the way
check_and_reload_settings_by_timeNow(m, t) ==
    LET seen == Rescanned(m)
    IN IF Changes(seen, t) THEN load_settings(seen, now) ELSE seen

check_and_reload_settings_by_time(m, t) ==
    LET seen == Rescanned(m)
    IN IF Changes(seen, t) THEN load_settings(seen, t) ELSE seen

\* It names the file it comes from and the one it goes to, and raises if there
\* is not one
RaisesByTime(m, t) ==
    LET seen == Rescanned(m)
    IN Changes(seen, t)
       /\ NoFile \in {m.file, get_applicable_settings_file(seen.available, t)}

-----------------------------------------------------------------------------
SettingsInit ==
    /\ now = 0 /\ saving = NoFile /\ saves = 0
    /\ dir \in UNION {[files -> Content] : files \in {{}, {Legacy}, Dated}}
    /\ manager = [p \in Process |-> NewManager]
    /\ used = [p \in Process |-> NoFile]

SettingsClock ==
    /\ now < MaxNow /\ now' = now + 1
    /\ UNCHANGED <<dir, saving, manager, saves, used>>

With(function, key, value) ==
    [k \in DOMAIN function \cup {key} |-> IF k = key THEN value ELSE function[k]]

\* The page saves a file: it is opened, and by that emptied, and written
SaveOpens ==
    /\ saving = NoFile /\ saves < MaxSaves /\ saves' = saves + 1
    /\ \E f \in Dated \cup {Legacy}, text \in Content \cup {Empty} :
        /\ saving' = [file |-> f, text |-> text]
        /\ dir' = With(dir, f, Empty)
    /\ UNCHANGED <<now, manager, used>>

SaveWrites ==
    /\ saving # NoFile /\ saving' = NoFile
    /\ dir' = With(dir, saving.file, saving.text)
    /\ UNCHANGED <<now, manager, saves, used>>

\* A power cut before the text is on the disk, or an editor's slip
SaveTears ==
    /\ saving # NoFile /\ saving' = NoFile
    /\ dir' \in {dir, With(dir, saving.file, Broken)}
    /\ UNCHANGED <<now, manager, saves, used>>

-----------------------------------------------------------------------------
\* What a line is decoded by: the files as they were last looked at and when,
\* the one taken, and whether the one there should have been could not be read
UsedAt(m, t, unread) == [t |-> t, available |-> m.available, file |-> m.file, unread |-> unread]
Unread(m, t) ==
    LET file == get_applicable_settings_file(DOMAIN dir, t)
    IN file # NoFile /\ dir[file] \notin Content

BridgeReads ==
    LET old == manager["bridge"]
        m == check_and_reload_settings(old)
    IN /\ manager' = [manager EXCEPT !["bridge"] = m]
       /\ used' = IF ~Due(old) THEN used
                  ELSE [used EXCEPT !["bridge"] = UsedAt(m, now, Unread(m, now))]
       /\ UNCHANGED <<now, dir, saving, saves>>

ImporterReads(t) ==
    LET m == check_and_reload_settings_by_time(manager["importer"], t) IN
    /\ ~RaisesByTime(manager["importer"], t)
    /\ manager' = [manager EXCEPT !["importer"] = m]
    /\ used' = [used EXCEPT !["importer"] = UsedAt(m, t, Unread(m, t))]
    /\ UNCHANGED <<now, dir, saving, saves>>

\* The line is lost; what the look found is kept
ImporterRaises(t) ==
    /\ RaisesByTime(manager["importer"], t)
    /\ manager' = [manager EXCEPT !["importer"] = Rescanned(@)]
    /\ UNCHANGED <<now, dir, saving, saves, used>>

-----------------------------------------------------------------------------
\* A line is read by the file in force at its time, of the files last seen: the
\* latest of those named for that time or one before it, and of files that are
\* all later the first; unless that one could not be read when it was looked at.
\* Old logs, read in any order, are read by the files of their own time
SettingsAreOfTheTime ==
    \A p \in {"bridge", "importer"} : used[p] # NoFile /\ ~used[p].unread =>
        LET u == used[p]
            past == {f \in u.available : f <= u.t}
        IN IF u.available = {} THEN u.file = NoFile
           ELSE /\ u.file \in u.available
                /\ past # {} => u.file \in past
                /\ \A f \in IF past # {} THEN past ELSE u.available :
                        IF past # {} THEN f <= u.file ELSE u.file <= f
=============================================================================
