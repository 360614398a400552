------------------------- MODULE TriggeredRecordings -------------------------
(***************************************************************************)
(* The recordings one trigger starts: the callbacks of trigger_monitor.py, *)
(* what main.py does with them, and the resume after a restart.            *)
(*                                                                         *)
(* One event: its monitor, the recording the monitor holds, and the one    *)
(* main.py notes under the event's key.  The trigger's thread and the      *)
(* crew's request both stop recordings; main's thread hands an interrupted *)
(* one back, holding monitors_lock for that step alone, while the trigger  *)
(* holds it for a whole callback.  GPSTrigger says when the monitor takes  *)
(* the boat to be away or back; here it does so at any moment it is true.  *)
(* RecordingService says what each stop and start does to the recorder.    *)
(*                                                                         *)
(* Two invariants carry the proofs: IInv, that what is active is in the    *)
(* care of its trigger, and SailInv, that a sail keeps its recording.      *)
(***************************************************************************)
EXTENDS Integers

CONSTANTS
    Recording,      \* numbered in the order they are started
    NoRec,
    Locks,          \* whether a write may find the database locked
    MaxOutages      \* bound

ASSUME TriggeredAssumption ==
    /\ Recording \subseteq Nat /\ NoRec \notin Recording
    /\ Locks \in BOOLEAN
    /\ MaxOutages \in Nat

VARIABLES
    status,             \* recordings.status
    heard,              \* recordings the data recorder records
    phase,              \* of the process
    todo,               \* main._to_resume, as far as it is still to do
    monitored,          \* the event is in the config, and has its monitor
    state, held, seen,  \* of the monitor: its state, recording_id, and
                        \*   seen_inside_anchor
    current,            \* main.active_recordings of the event
    pc, rec,            \* where each thread is, and with which recording
    away,               \* the boat is off her mooring
    owed,               \* history: a recording was made of a sail that neither
                        \*   the trigger, the crew nor recovery has ended
    unstopped,          \* history: recordings a stop of which raised
    early,              \* history: a start fired before main had resumed all
    outages

monitorVars == <<state, held, seen>>
threadVars == <<pc, rec>>
mainVars == <<phase, todo, monitored, current>>
worldVars == <<away, outages>>
sailVars == <<owed, early>>
historyVars == <<sailVars, unstopped>>
vars == <<status, heard, mainVars, monitorVars, threadVars, worldVars, historyVars>>

Thread == {"main", "trigger", "crew"}
Pc == {"idle", "create", "begin", "note", "check", "end", "handback"}

TypeOK ==
    /\ status \in [Recording -> {"none", "active", "stopped", "failed"}]
    /\ heard \subseteq Recording
    /\ phase \in {"down", "starting", "up"}
    /\ todo \subseteq Recording /\ monitored \in BOOLEAN
    /\ state \in {"monitoring", "triggered"}
    /\ held \in Recording \cup {NoRec} /\ seen \in BOOLEAN
    /\ current \in Recording \cup {NoRec}
    /\ pc \in [Thread -> Pc] /\ rec \in [Thread -> Recording \cup {NoRec}]
    /\ away \in BOOLEAN
    /\ owed \in BOOLEAN /\ early \in BOOLEAN /\ unstopped \subseteq Recording
    /\ outages \in 0..MaxOutages

Nothing == /\ heard' = {} /\ todo' = {} /\ current' = NoRec
           /\ state' = "monitoring" /\ held' = NoRec /\ seen' = FALSE
           /\ pc' = [t \in Thread |-> "idle"]
           /\ rec' = [t \in Thread |-> NoRec]

Init ==
    /\ status = [r \in Recording |-> "none"]
    /\ heard = {} /\ phase = "down" /\ todo = {} /\ monitored = FALSE
    /\ state = "monitoring" /\ held = NoRec /\ seen = FALSE
    /\ current = NoRec
    /\ pc = [t \in Thread |-> "idle"] /\ rec = [t \in Thread |-> NoRec]
    /\ away \in BOOLEAN /\ owed = FALSE /\ early = FALSE /\ unstopped = {} /\ outages = 0

Active == {r \in Recording : status[r] = "active"}
SetStatus(r, s) == status' = [status EXCEPT ![r] = s]
Goto(t, place, r) == /\ pc' = [pc EXCEPT ![t] = place]
                     /\ rec' = [rec EXCEPT ![t] = r]
Done(t) == Goto(t, "idle", NoRec)

\* The exceptions of the main thread end the process.  Of a sail begun early nothing
\* is promised past it
Die == /\ phase' = "down" /\ Nothing
       /\ owed' = (owed /\ ~early) /\ early' = FALSE
       /\ UNCHANGED <<status, monitored>>

-----------------------------------------------------------------------------
(* The trigger starts one                                                  *)

Watching == phase # "down" /\ monitored /\ pc["trigger"] = "idle"

\* A fix inside the anchor zone arms the departure
SeenInside ==
    /\ Watching /\ state = "monitoring" /\ ~away
    /\ seen' = TRUE
    /\ UNCHANGED <<status, heard, mainVars, state, held, threadVars, worldVars, historyVars>>

\* _trigger_start: the state first, the callback after it.  The monitors run before
\* main has resumed what was interrupted, and a start may be among it
StartFires ==
    /\ Watching /\ state = "monitoring" /\ away /\ seen
    /\ \E r \in Recording : status[r] = "none"
    /\ state' = "triggered"
    /\ Goto("trigger", "create", NoRec)
    /\ early' = (early \/ phase # "up")
    /\ UNCHANGED <<status, heard, mainVars, held, seen, worldVars, owed, unstopped>>

\* Mutant: one of the words of before the states were split
CreateOldWord ==
    /\ pc["trigger"] = "create"
    /\ \E r \in Recording :
          status[r] = "none" /\ SetStatus(r, "recording") /\ Goto("trigger", "begin", r)
    /\ UNCHANGED <<heard, mainVars, monitorVars, worldVars, historyVars>>

\* A locked database: "start callback failed", and the state stays
Create ==
    /\ pc["trigger"] = "create"
    /\ \/ Locks /\ Done("trigger") /\ UNCHANGED <<status, owed>>
       \/ \E r \in Recording :
            /\ status[r] = "none" /\ \A q \in Recording : q < r => status[q] # "none"
            /\ SetStatus(r, "active") /\ Goto("trigger", "begin", r)
            /\ owed' = TRUE
    /\ UNCHANGED <<heard, mainVars, monitorVars, worldVars, early, unstopped>>

Begin ==
    /\ pc["trigger"] = "begin"
    /\ heard' = heard \cup {rec["trigger"]}
    /\ Goto("trigger", "note", rec["trigger"])
    /\ UNCHANGED <<status, mainVars, monitorVars, worldVars, historyVars>>

Note ==
    /\ pc["trigger"] = "note"
    /\ current' = rec["trigger"] /\ held' = rec["trigger"]
    /\ Done("trigger")
    /\ UNCHANGED <<status, heard, phase, todo, monitored, state, seen, worldVars, historyVars>>

-----------------------------------------------------------------------------
(* The trigger stops it, or the crew, or main for a later one              *)

\* Mutant: the recording is forgotten before it is passed on to be stopped
StopFiresForgetsFirst ==
    /\ Watching /\ state = "triggered" /\ ~away
    /\ state' = "monitoring" /\ held' = NoRec /\ current' = NoRec
    /\ owed' = FALSE
    /\ Goto("trigger", "check", NoRec)
    /\ UNCHANGED <<status, heard, phase, todo, monitored, seen, worldVars, early, unstopped>>

\* _trigger_stop and _on_trigger_stop: monitor and main forget the recording
\* before it is stopped
StopFires ==
    /\ Watching /\ state = "triggered" /\ ~away
    /\ state' = "monitoring" /\ held' = NoRec /\ current' = NoRec
    /\ owed' = FALSE
    /\ Goto("trigger", "check", held)
    /\ UNCHANGED <<status, heard, phase, todo, monitored, seen, worldVars, early, unstopped>>

CrewStops(r) ==
    /\ phase = "up" /\ pc["crew"] = "idle" /\ status[r] = "active"
    /\ Goto("crew", "check", r)
    /\ owed' = FALSE
    /\ UNCHANGED <<status, heard, mainVars, monitorVars, worldVars, early, unstopped>>

\* RecordingService.stop, of a recording that is there and active; the refusal
\* of any other is an answer to the trigger and the crew, and the end of main
StopCheck(t) ==
    /\ pc[t] = "check"
    /\ LET active == rec[t] # NoRec /\ status[rec[t]] = "active" IN
       \/ /\ active
          /\ heard' = heard \ {rec[t]} /\ Goto(t, "end", rec[t])
          /\ UNCHANGED <<status, mainVars, monitorVars, sailVars>>
       \/ /\ ~active /\ t # "main" /\ Done(t)
          /\ UNCHANGED <<status, heard, mainVars, monitorVars, sailVars>>
       \/ ~active /\ t = "main" /\ Die
    /\ UNCHANGED <<worldVars, unstopped>>

\* A write that raises leaves the recording active, and nobody tries again
StopEnd(t) ==
    /\ pc[t] = "end"
    /\ \/ /\ SetStatus(rec[t], "stopped")
          /\ IF t = "main" THEN Goto(t, "handback", NoRec) ELSE Done(t)
          /\ UNCHANGED <<heard, mainVars, monitorVars, historyVars>>
       \/ /\ Locks /\ t # "main" /\ Done(t)
          /\ unstopped' = unstopped \cup {rec[t]}
          /\ UNCHANGED <<status, heard, mainVars, monitorVars, sailVars>>
       \/ Locks /\ t = "main" /\ Die /\ UNCHANGED unstopped
    /\ UNCHANGED worldVars

-----------------------------------------------------------------------------
(* The start of the service                                                *)

\* What was active is resumed, but for the old: silent for too long
Recover ==
    /\ phase = "down" /\ phase' = "starting"
    /\ monitored' \in BOOLEAN
    /\ \E old \in SUBSET Active :
          /\ \E s \in {"stopped", "failed"} :
                status' = [r \in Recording |-> IF r \in old THEN s ELSE status[r]]
          /\ todo' = Active \ old
          /\ owed' = (owed /\ old = {} /\ monitored')
    /\ UNCHANGED <<heard, current, monitorVars, threadVars, worldVars, early, unstopped>>

\* get_recordings_by_status: ORDER BY start_time DESC
Newest(r) == r \in todo /\ \A q \in todo : q <= r

ResumeNext(r) ==
    /\ phase = "starting" /\ pc["main"] = "idle" /\ Newest(r)
    /\ \/ /\ status[r] # "active" /\ todo' = todo \ {r}
          /\ UNCHANGED <<status, heard, phase, monitored, current, monitorVars, threadVars,
                         sailVars>>
       \/ /\ status[r] = "active" /\ ~monitored
          /\ SetStatus(r, "stopped") /\ todo' = todo \ {r}
          /\ UNCHANGED <<heard, phase, monitored, current, monitorVars, threadVars, sailVars>>
       \/ status[r] = "active" /\ ~monitored /\ Locks /\ Die
       \/ /\ status[r] = "active" /\ monitored
          /\ IF current = NoRec THEN Goto("main", "handback", NoRec)
                                ELSE Goto("main", "check", current)
          /\ UNCHANGED <<status, heard, mainVars, monitorVars, sailVars>>
    /\ UNCHANGED <<worldVars, unstopped>>

\* Mutant: the recording is taken up, and its trigger is not told
HandBackNot(r) ==
    /\ pc["main"] = "handback" /\ Newest(r)
    /\ Goto("main", "note", r)
    /\ UNCHANGED <<status, heard, mainVars, monitorVars, worldVars, historyVars>>

\* resume_monitor, once the trigger is out of its callback
HandBack(r) ==
    /\ pc["main"] = "handback" /\ Newest(r) /\ pc["trigger"] = "idle"
    /\ state' = "triggered" /\ held' = r
    /\ Goto("main", "note", r)
    /\ UNCHANGED <<status, heard, mainVars, seen, worldVars, historyVars>>

NoteResumed ==
    /\ pc["main"] = "note"
    /\ current' = rec["main"]
    /\ Goto("main", "begin", rec["main"])
    /\ UNCHANGED <<status, heard, phase, todo, monitored, monitorVars, worldVars, historyVars>>

\* Mutant: the recorder is not told
BeginResumedNot ==
    /\ pc["main"] = "begin" /\ todo' = todo \ {rec["main"]}
    /\ Done("main")
    /\ UNCHANGED <<status, heard, phase, monitored, current, monitorVars, worldVars, historyVars>>

BeginResumed ==
    /\ pc["main"] = "begin"
    /\ heard' = heard \cup {rec["main"]} /\ todo' = todo \ {rec["main"]}
    /\ Done("main")
    /\ UNCHANGED <<status, phase, monitored, current, monitorVars, worldVars, historyVars>>

Up ==
    /\ phase = "starting" /\ todo = {} /\ pc["main"] = "idle"
    /\ phase' = "up"
    /\ UNCHANGED <<status, heard, todo, monitored, current, monitorVars,
                   threadVars, worldVars, historyVars>>

-----------------------------------------------------------------------------
(* The world                                                               *)

\* A power cut
Outage ==
    /\ phase # "down" /\ outages < MaxOutages
    /\ Die
    /\ outages' = outages + 1
    /\ UNCHANGED <<away, unstopped>>

Sails == /\ away' = ~away
         /\ UNCHANGED <<status, heard, mainVars, monitorVars, threadVars, outages, historyVars>>

TriggerStep == Create \/ Begin \/ Note \/ StopCheck("trigger") \/ StopEnd("trigger")
CrewStep == StopCheck("crew") \/ StopEnd("crew")
MainStep == \/ Recover \/ NoteResumed \/ BeginResumed \/ Up
            \/ StopCheck("main") \/ StopEnd("main")
            \/ \E r \in Recording : ResumeNext(r) \/ HandBack(r)

Next == \/ SeenInside \/ StartFires \/ StopFires
        \/ TriggerStep \/ CrewStep \/ MainStep
        \/ \E r \in Recording : CrewStops(r)
        \/ Outage \/ Sails

Spec == Init /\ [][Next]_vars

\* The threads run, Docker restarts the service, and the GPS gives fixes for
\* the monitor to act on.  The crew need not do anything
Fairness == /\ WF_vars(TriggerStep) /\ WF_vars(CrewStep) /\ WF_vars(MainStep)
            /\ WF_vars(StopFires) /\ WF_vars(StartFires)

FairSpec == Spec /\ Fairness

-----------------------------------------------------------------------------
(***************************************************************************)
(* What the recordings of a trigger promise, and the inductive invariant   *)
(* the first of them rests on.                                             *)
(***************************************************************************)

Quiet == phase = "up" /\ \A t \in Thread : pc[t] = "idle"

\* A recording the trigger started has the trigger that will stop it, across
\* restarts too, unless a stop of it raised, or a start came before main had resumed
\* all; and so no two others of one event are active (main.py, _resume_recordings)
ActiveHasTrigger ==
    Quiet /\ ~early => \A r \in Active \ unstopped : state = "triggered" /\ held = r

\* A sail once being recorded is recorded until the boat is back, the crew
\* stop it, or recovery has reason to end it: "recordings survive a restart
\* or a power cut" (TR-14)
SailIsRecorded ==
    Quiet /\ owed /\ ~early => held \in Active /\ held \in heard

\* Back on the mooring for good, the boat has no recording of the trigger left
\* in progress but one a stop of which raised: "the trigger's own stop condition
\* ends it" (TR-14)
HomeEndsIt ==
    <>[](~away /\ phase = "up" /\ monitored /\ ~early) => <>[](Active \subseteq unstopped)

\* "of two active recordings of one event, the later carries on" (TR-14): one
\* that is superseded at a resume is superseded by a later one
LaterCarriesOn ==
    [][~early /\ pc["main"] = "end" /\ status' # status /\ pc'["main"] = "handback"
       => \E r \in todo : r > rec["main"]]_vars

-----------------------------------------------------------------------------
\* The parts of the inductive invariant

Sound == Active \ unstopped
TriggerHas(r) == pc["trigger"] \in {"begin", "note", "check", "end"} /\ rec["trigger"] = r
MonitorHas(r) == state = "triggered" /\ held = r

\* Somebody has a sound recording: recovery, main, the monitor, or the trigger
\* in the middle of starting or stopping it
SoundIsMinded ==
    \A r \in Sound : \/ phase = "down" \/ r \in todo
                     \/ MonitorHas(r) \/ TriggerHas(r)

\* The trigger starts one where there is none
StartsTheOnly ==
    pc["trigger"] \in {"create", "begin", "note"} =>
        phase = "up" /\ Sound \subseteq {rec["trigger"]}

\* Main hands one back where the monitor has none
HandsBackTheOnly ==
    pc["main"] = "handback" =>
        \A r \in Sound : r \in todo \/ TriggerHas(r)

\* What main is handing back is the monitor's, until the trigger stops it
HandedIsMinded ==
    pc["main"] \in {"note", "begin"} =>
        /\ rec["main"] \in Sound => MonitorHas(rec["main"]) \/ TriggerHas(rec["main"])
        /\ held \in {NoRec, rec["main"]}

\* While main resumes, what the monitor holds is noted; what main supersedes
\* is what the monitor holds
HeldIsNoted ==
    /\ phase = "starting" /\ held # NoRec /\ pc["main"] # "note" => current = held
    /\ pc["main"] \in {"check", "end"} /\ held # NoRec => held = rec["main"]

WhereEachIs == /\ todo # {} => phase = "starting"
               /\ pc["main"] # "idle" => phase = "starting"
               /\ pc["main"] \in {"check", "end", "note", "begin"} => rec["main"] \in Recording
               /\ pc["trigger"] \in {"create", "begin", "note"} => state = "triggered"
               /\ pc["trigger"] = "create" => rec["trigger"] = NoRec
               /\ pc["trigger"] \in {"begin", "note"} => rec["trigger"] \in Recording
               /\ \A t \in Thread : pc[t] = "end" => rec[t] \in Recording
               /\ phase = "down" => held = NoRec /\ \A t \in Thread : pc[t] = "idle"
               /\ state = "monitoring" => held = NoRec

HolderInv ==
    /\ SoundIsMinded
    /\ StartsTheOnly
    /\ HandsBackTheOnly
    /\ HandedIsMinded
    /\ HeldIsNoted

IInv == TypeOK /\ WhereEachIs /\ (~early => HolderInv)

-----------------------------------------------------------------------------
\* The parts of the inductive invariant of SailIsRecorded

StillRecorded(r) == r \in Active \cap heard

\* Whom the crew are stopping was begun before
CrewHasBegun ==
    pc["crew"] # "idle" => rec["crew"] \in Recording /\ status[rec["crew"]] # "none"

\* While the service is down, the sail has a recording to be resumed
LeftActive == phase = "down" => current = NoRec /\ (owed => Active # {})

\* While it starts, there is one to come yet, or the one main holds is kept; and
\* main ends it for another only while there is another
ResumeCarries ==
    phase = "starting" /\ owed =>
        /\ monitored /\ pc["trigger"] = "idle" /\ pc["crew"] = "idle"
        /\ todo \subseteq Active
        /\ pc["main"] \in {"idle", "check", "end", "handback", "note", "begin"}
        /\ pc["main"] \in {"idle", "check", "end"} =>
              /\ current = held /\ held \notin todo
              /\ pc["main"] = "idle" /\ held # NoRec => StillRecorded(held)
              /\ held = NoRec => todo # {}
        /\ pc["main"] \in {"check", "end", "handback"} => todo # {}
        /\ pc["main"] = "check" => held \in Recording /\ rec["main"] = held /\ StillRecorded(held)
        /\ pc["main"] = "end" => rec["main"] \notin todo
        /\ pc["main"] \in {"note", "begin"} => rec["main"] = held /\ held \in todo
        /\ pc["main"] = "begin" => current = held

\* Once it is up, the recording is the monitor's or in the trigger's hands, and
\* nobody else's
Sailing == IF pc["trigger"] \in {"begin", "note"} THEN rec["trigger"] ELSE held
SailIsHad ==
    phase = "up" /\ owed =>
        /\ state = "triggered" /\ pc["trigger"] \in {"idle", "begin", "note"}
        /\ Sailing \in Active
        /\ pc["trigger"] # "begin" => Sailing \in heard
        /\ pc["crew"] # "idle" => rec["crew"] # Sailing

SailParts == CrewHasBegun /\ LeftActive /\ ResumeCarries /\ SailIsHad
SailInv == ~early => SailParts
=============================================================================
