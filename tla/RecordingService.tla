-------------------------- MODULE RecordingService --------------------------
(***************************************************************************)
(* The life of a recording: python/event_recorder/recording_service.py     *)
(* (start, stop, delete, process, suspend, resume), recovery_manager.py    *)
(* and the start and stop of the service in main.py, over the database and *)
(* the data recorder.                                                      *)
(*                                                                         *)
(* Main is the thread of main.py: it recovers and resumes at start, and    *)
(* runs the signal handler.  Trigger is the thread of the GPS trigger      *)
(* monitor.  The other threads are the requests of the web interface.      *)
(* A recording may be started, stopped, drawn or deleted by any of them at *)
(* any time: nothing but the locks named in the code keeps them apart.     *)
(* Publishing is Publishing.tla's.                                         *)
(***************************************************************************)
EXTENDS DataRecorder

CONSTANTS
    Main, Trigger,
    Worker,         \* threads that draw: auto-process, or a /process request
    DrawActive,     \* whether anyone draws a recording still in progress
    MaxOutages,     \* bound: power cuts, and SIGTERMs in the middle of a start
    MaxLocks        \* bound: times another process locks the database

ASSUME ServiceAssumption == /\ Main \in Thread /\ Trigger \in Thread
                            /\ Main # Trigger
                            /\ DrawActive \in BOOLEAN
                            /\ MaxOutages \in Nat /\ MaxLocks \in Nat

VARIABLES
    phase,      \* of the process: down, starting (recovered, resuming), up;
                \*   in main.stop: suspending, shutdown, exiting
    todo,       \* the recordings Main's present loop has still to visit
    wpc, wrec,  \* what each worker is at, and on which recording
    drawn,      \* rows in the plots on disk
    crossed,    \* history: recordings whose end and a drawing of theirs crossed,
                \*   until they are drawn again
    outages, locks

workerVars == <<wpc, wrec, drawn, crossed>>
mainVars == <<phase, todo>>
budgetVars == <<outages, locks>>
vars == <<dbVars, recorderVars, threadVars, historyVars,
          workerVars, mainVars, budgetVars>>

Phase == {"down", "starting", "up", "suspending", "shutdown", "exiting"}
Wpc == {"idle", "begin", "drawing", "drawn"}

TypeOK ==
    /\ DbTypeOK
    /\ RecorderTypeOK
    /\ phase \in Phase
    /\ todo \subseteq Recording
    /\ wpc \in [Worker -> Wpc]
    /\ wrec \in [Worker -> Recording \cup {NoRec}]
    /\ \A w \in Worker : wpc[w] = "idle" <=> wrec[w] = NoRec
    /\ drawn \in [Recording -> Nat]
    /\ crossed \subseteq Recording
    /\ outages \in 0..MaxOutages
    /\ locks \in 0..MaxLocks

Init ==
    /\ DbInit
    /\ RecorderInit
    /\ phase = "down" /\ todo = {}
    /\ wpc = [w \in Worker |-> "idle"]
    /\ wrec = [w \in Worker |-> NoRec]
    /\ drawn = Zero /\ crossed = {}
    /\ outages = 0 /\ locks = 0

\* The web interface comes up last and answers until the process is gone;
\* the trigger monitor is at work before that, while Main resumes
Serving == phase \in {"up", "suspending", "shutdown", "exiting"}
MayCall(t) == ~InCall(t) /\ \/ Serving /\ t # Main
                            \/ phase = "starting" /\ t = Trigger

-----------------------------------------------------------------------------
(* start                                                                   *)

\* create_recording: the row is there, and active, before the recorder knows
Start(t, r) ==
    /\ MayCall(t) /\ ~locked
    /\ CreateRow(r)
    /\ Call(t, "start", r, "begin")
    /\ UNCHANGED <<stored, locked, recorderVars, historyVars, workerVars,
                   mainVars, budgetVars>>

\* data_recorder.start_recording, for a start and for a resume: a resumed
\* recording goes on counting from its rows
Begin(t) ==
    /\ At(t, "begin")
    /\ StartRecorder(rec[t], IF op[t] = "resume" THEN stored[rec[t]] ELSE 0)
    /\ Return(t)
    /\ UNCHANGED <<dbVars, buffered, historyVars, workerVars, mainVars, budgetVars>>

-----------------------------------------------------------------------------
(* stop: anyone may, and two may at once.  The check of the status, the    *)
(* recorder's three steps and the three database steps of _end interleave. *)

\* Mutant: the recorder is not told
StopWithoutRecorder(t, r) ==
    /\ MayCall(t) /\ (phase = "starting" => r \notin todo)
    /\ status[r] = "active"
    /\ Call(t, "stop", r, "status")
    /\ UNCHANGED <<dbVars, recorderVars, historyVars, workerVars, mainVars, budgetVars>>

Stop(t, r) ==
    /\ MayCall(t) /\ (phase = "starting" => r \notin todo)
    /\ status[r] = "active"
    /\ Call(t, "stop", r, "mark")
    /\ UNCHANGED <<dbVars, recorderVars, historyVars, workerVars, mainVars, budgetVars>>

StopRecorderStep(t) ==
    /\ StopMark(t) \/ StopFlush(t) \/ StopRemove(t) \/ StopRemoveKeyError(t)
    /\ UNCHANGED <<workerVars, mainVars, budgetVars>>

\* auto_process_on_stop is a setting the crew may change at any time, and the
\* recorder has only so many cores: a stop ends with a worker, or without
AutoProcess(r) ==
    \/ UNCHANGED <<wpc, wrec>>
    \/ \E w \in Worker :
          /\ wpc[w] = "idle"
          /\ wpc' = [wpc EXCEPT ![w] = "begin"]
          /\ wrec' = [wrec EXCEPT ![w] = r]

\* What the end of r cannot put right: a drawing has read the rows there were and
\* has yet to write "fresh", or rows of r are still in the buffer
CrossIf(r, crosses) ==
    /\ crossed' = IF crosses THEN crossed \cup {r} ELSE crossed
    /\ UNCHANGED drawn
Crosses(r) == buffered[r] # 0 \/ \E w \in Worker : wpc[w] = "drawn" /\ wrec[w] = r

\* An exception on the way out of stop(): the request answers 500, or the
\* trigger logs it; either way nobody tries again
StopRaises(t) ==
    /\ Return(t)
    /\ stopError' = stopError \cup {rec[t]}
    /\ UNCHANGED <<accepted, lost, early>>

\* _end: status and end_time
EndStatus(t) ==
    /\ At(t, "status")
    /\ IF locked
       THEN StopRaises(t) /\ UNCHANGED <<status, endedBy>>
       ELSE /\ UpdateStatus(rec[t], "stopped", t)
            /\ Goto(t, "artefacts")
            /\ UNCHANGED historyVars
    /\ UNCHANGED <<artefacts, stored, locked, recorderVars, workerVars,
                   mainVars, budgetVars>>

\* Mutant: the plots of what was drawn in progress are left called fresh
EndArtefactsUnread(t) ==
    /\ At(t, "artefacts")
    /\ Return(t) /\ AutoProcess(rec[t])
    /\ CrossIf(rec[t], Crosses(rec[t]))
    /\ UNCHANGED <<historyVars, dbVars, recorderVars, mainVars, budgetVars>>

\* _end: "Processed while still recording: the plots stop short of the end"
EndArtefacts(t) ==
    /\ At(t, "artefacts")
    /\ \/ ~Exists(rec[t]) /\ StopRaises(t) /\ UNCHANGED workerVars
       \/ /\ Exists(rec[t]) /\ artefacts[rec[t]] = "fresh"
          /\ Goto(t, "stale")
          /\ UNCHANGED <<historyVars, workerVars>>
       \/ /\ Exists(rec[t]) /\ artefacts[rec[t]] # "fresh"
          /\ Return(t) /\ AutoProcess(rec[t])
          /\ CrossIf(rec[t], Crosses(rec[t]))
          /\ UNCHANGED historyVars
    /\ UNCHANGED <<dbVars, recorderVars, mainVars, budgetVars>>

EndStale(t) ==
    /\ At(t, "stale")
    /\ IF locked
       THEN /\ StopRaises(t) /\ CrossIf(rec[t], TRUE)
            /\ UNCHANGED <<artefacts, wpc, wrec>>
       ELSE /\ UpdateArtefacts(rec[t], "stale")
            /\ Return(t) /\ AutoProcess(rec[t])
            /\ CrossIf(rec[t], Crosses(rec[t]))
            /\ UNCHANGED historyVars
    /\ UNCHANGED <<status, endedBy, stored, locked, recorderVars, mainVars, budgetVars>>

\* delete, of anything but an active recording: its files, then its row.  A
\* locked database leaves it with neither its plots nor its end
Delete(t, r) ==
    /\ MayCall(t) /\ t # Trigger
    /\ Exists(r) /\ status[r] # "active"
    /\ Call(t, "delete", r, "unlink")
    /\ UNCHANGED <<dbVars, recorderVars, historyVars, workerVars, mainVars, budgetVars>>

DeleteFiles(t) ==
    /\ At(t, "unlink")
    /\ drawn' = [drawn EXCEPT ![rec[t]] = 0]
    /\ Goto(t, "row")
    /\ UNCHANGED <<dbVars, recorderVars, historyVars, wpc, wrec, crossed, mainVars,
                   budgetVars>>

DeleteRecording(t) ==
    /\ At(t, "row")
    /\ IF locked THEN UNCHANGED <<status, stored>> ELSE DeleteRow(rec[t])
    /\ Return(t)
    /\ UNCHANGED <<artefacts, endedBy, locked, recorderVars, historyVars,
                   workerVars, mainVars, budgetVars>>

-----------------------------------------------------------------------------
(* process: DataProcessor.process_recording, in a thread of its own        *)

ProcessAsked(w, r) ==
    /\ Serving /\ wpc[w] = "idle"
    /\ status[r] # "none" /\ (DrawActive \/ status[r] # "active")
    /\ wpc' = [wpc EXCEPT ![w] = "begin"]
    /\ wrec' = [wrec EXCEPT ![w] = r]
    /\ UNCHANGED <<dbVars, recorderVars, threadVars, historyVars, drawn, crossed,
                   mainVars, budgetVars>>

WorkerGoto(w, place) ==
    /\ wpc' = [wpc EXCEPT ![w] = place]
    /\ wrec' = [wrec EXCEPT ![w] = IF place = "idle" THEN NoRec ELSE @]

ProcessBegin(w) ==
    /\ wpc[w] = "begin"
    /\ IF locked THEN UNCHANGED artefacts /\ WorkerGoto(w, "idle")
                 ELSE UpdateArtefacts(wrec[w], "processing") /\ WorkerGoto(w, "drawing")
    /\ UNCHANGED <<status, endedBy, stored, locked, recorderVars, threadVars,
                   historyVars, drawn, crossed, mainVars, budgetVars>>

\* Reads the recording's rows and replaces the last run's plots and exports
ProcessDraw(w) ==
    /\ wpc[w] = "drawing"
    /\ drawn' = [drawn EXCEPT ![wrec[w]] = stored[wrec[w]]]
    /\ crossed' = IF status[wrec[w]] # "active" /\ buffered[wrec[w]] = 0
                  THEN crossed \ {wrec[w]} ELSE crossed
    /\ WorkerGoto(w, "drawn")
    /\ UNCHANGED <<dbVars, recorderVars, threadVars, historyVars, mainVars, budgetVars>>

\* Ends fresh, or failed if anything raised; a database locked at the end
\* makes both writes raise
ProcessEnd(w) ==
    /\ \/ wpc[w] = "drawn" /\ ~locked /\ UpdateArtefacts(wrec[w], "fresh")
       \/ wpc[w] \in {"drawing", "drawn"} /\ ~locked /\ UpdateArtefacts(wrec[w], "failed")
       \/ wpc[w] \in {"drawing", "drawn"} /\ locked /\ UNCHANGED artefacts
    /\ CrossIf(wrec[w], locked)
    /\ WorkerGoto(w, "idle")
    /\ UNCHANGED <<status, endedBy, stored, locked, recorderVars, threadVars,
                   historyVars, mainVars, budgetVars>>

\* reset_to_processed of a recording whose processing failed
Reset(r) ==
    /\ Serving /\ ~locked
    /\ Exists(r) /\ artefacts[r] = "failed"
    /\ UpdateArtefacts(r, "none")
    /\ UNCHANGED <<status, endedBy, stored, locked, recorderVars, threadVars,
                   historyVars, workerVars, mainVars, budgetVars>>

-----------------------------------------------------------------------------
(* The process: a power cut, a clean shutdown, and the start after either. *)

\* What is only in memory goes, the rows still in the buffer with it, and a
\* drawing or an end in the middle
Die ==
    /\ phase' = "down" /\ todo' = {}
    /\ entry' = [r \in Recording |-> "absent"]
    /\ count' = Zero /\ buffered' = Zero
    /\ lost' = [r \in Recording |-> lost[r] + buffered[r]]
    /\ op' = [t \in Thread |-> "none"]
    /\ rec' = [t \in Thread |-> NoRec]
    /\ pc' = [t \in Thread |-> "idle"]
    /\ wpc' = [w \in Worker |-> "idle"]
    /\ wrec' = [w \in Worker |-> NoRec]
    /\ crossed' = crossed \cup {r \in Recording :
          \/ status[r] # "stopped" /\ artefacts[r] = "processing"
          \/ \E t \in Thread : rec[t] = r /\ pc[t] \in {"artefacts", "stale"}}
    /\ UNCHANGED <<dbVars, accepted, early, stopError, drawn>>

Crash ==
    /\ phase # "down" /\ outages < MaxOutages
    /\ outages' = outages + 1
    /\ Die
    /\ UNCHANGED locks

\* SIGTERM runs main.stop in the main thread, which drops what it was at:
\* suspend_all stops the recorder on every recording and leaves each active
\* in the database
SigTerm ==
    /\ \/ phase = "up" /\ UNCHANGED outages
       \/ phase = "starting" /\ outages < MaxOutages /\ outages' = outages + 1
    /\ phase' = "suspending" /\ todo' = Enabled
    /\ Return(Main)
    /\ UNCHANGED <<dbVars, recorderVars, historyVars, workerVars, locks>>

\* The loops of suspend_all and of DataRecorder.shutdown
MainLoopNext(r) ==
    /\ phase \in {"suspending", "shutdown"} /\ ~InCall(Main)
    /\ r \in todo /\ todo' = todo \ {r}
    /\ Call(Main, IF phase = "shutdown" THEN "shutdown" ELSE "suspend", r, "mark")
    /\ UNCHANGED <<phase, dbVars, recorderVars, historyVars, workerVars, budgetVars>>

\* suspend_all has returned: shutdown() takes whatever has an entry left
Suspended ==
    /\ phase = "suspending" /\ todo = {} /\ ~InCall(Main)
    /\ phase' = "shutdown"
    /\ todo' = {r \in Recording : entry[r] # "absent"}
    /\ UNCHANGED <<dbVars, recorderVars, threadVars, historyVars, workerVars, budgetVars>>

\* Outside suspend_all's try, a KeyError leaves main.stop before disconnect()
ShutdownKeyError ==
    /\ At(Main, "remove") /\ op[Main] = "shutdown" /\ entry[rec[Main]] = "absent"
    /\ phase' = "exiting" /\ todo' = {}
    /\ Return(Main)
    /\ UNCHANGED <<dbVars, recorderVars, historyVars, workerVars, budgetVars>>

\* disconnect() flushes a last time
Disconnect ==
    /\ phase = "shutdown" /\ todo = {} /\ ~InCall(Main)
    /\ FlushBuffer
    /\ phase' = "exiting"
    /\ UNCHANGED <<todo, status, artefacts, endedBy, locked, entry, count, threadVars,
                   historyVars, workerVars, budgetVars>>

\* The other threads are daemons: they end wherever they are
Exit ==
    /\ phase = "exiting"
    /\ Die
    /\ UNCHANGED budgetVars

\* Mutant: what died in the middle of drawing is left at it
ResetInterruptedNot == UNCHANGED artefacts

\* "Interrupted part way through processing": drawn again from nothing
ResetInterrupted ==
    artefacts' = [r \in Recording |->
        IF status'[r] = "stopped" /\ artefacts[r] = "processing" THEN "none"
                                                                 ELSE artefacts[r]]

\* _run_recovery.  `old' are the active recordings silent for longer than
\* RESUME_WITHIN; the others are for _resume_recordings.  Nothing calls the
\* plots of what it ends stale
Recover ==
    /\ phase = "down" /\ ~locked
    /\ phase' = "starting"
    /\ \E old \in SUBSET {r \in Recording : status[r] = "active"} :
          /\ todo' = {r \in Recording : status[r] = "active"} \ old
          /\ status' = [r \in Recording |->
                CASE r \notin old -> status[r]
                  [] r \in old /\ stored[r] = 0 -> "failed"
                  [] r \in old /\ stored[r] # 0 -> "stopped"]
          /\ endedBy' = [r \in Recording |-> IF r \in old THEN Recovery ELSE endedBy[r]]
          /\ crossed' = crossed \cup {r \in old : drawn[r] # 0}
    /\ ResetInterrupted
    /\ UNCHANGED <<stored, locked, recorderVars, threadVars, historyVars,
                   wpc, wrec, drawn, budgetVars>>

\* Mutant: one that cannot be resumed is passed over, and left active
ResumeNextGivesUp(r) ==
    /\ phase = "starting" /\ ~InCall(Main)
    /\ r \in todo /\ todo' = todo \ {r}
    /\ \/ UNCHANGED threadVars
       \/ status[r] = "active" /\ Call(Main, "resume", r, "begin")
    /\ UNCHANGED <<phase, dbVars, recorderVars, historyVars, workerVars, budgetVars>>

\* _resume_recordings, one recording: passed over if no longer active, ended
\* at its last data if its event is gone from the config, else resumed
ResumeNext(r) ==
    /\ phase = "starting" /\ ~InCall(Main)
    /\ r \in todo /\ todo' = todo \ {r}
    /\ \/ status[r] # "active" /\ UNCHANGED <<dbVars, threadVars, workerVars>>
       \/ /\ status[r] = "active" /\ ~locked
          /\ UpdateStatus(r, "stopped", Recovery)
          /\ CrossIf(r, drawn[r] # 0)
          /\ UNCHANGED <<artefacts, stored, locked, threadVars, wpc, wrec>>
       \/ /\ status[r] = "active"
          /\ Call(Main, "resume", r, "begin")
          /\ UNCHANGED <<dbVars, workerVars>>
    /\ UNCHANGED <<phase, recorderVars, historyVars, budgetVars>>

\* An exception in _resume_recordings: the service failed to start, and exits
ResumeFails(r) ==
    /\ phase = "starting" /\ ~InCall(Main)
    /\ r \in todo /\ status[r] = "active" /\ locked
    /\ Die
    /\ UNCHANGED budgetVars

\* The web interface starts: the service is up
Up ==
    /\ phase = "starting" /\ todo = {} /\ ~InCall(Main)
    /\ phase' = "up"
    /\ UNCHANGED <<todo, dbVars, recorderVars, threadVars, historyVars,
                   workerVars, budgetVars>>

\* Outside the service: another process takes and gives up the write lock
Lock ==
    /\ ~locked /\ locks < MaxLocks
    /\ locked' = TRUE /\ locks' = locks + 1
    /\ UNCHANGED <<status, artefacts, endedBy, stored, recorderVars, threadVars,
                   historyVars, workerVars, mainVars, outages>>

Unlock ==
    /\ locked
    /\ locked' = FALSE
    /\ UNCHANGED <<status, artefacts, endedBy, stored, recorderVars, threadVars,
                   historyVars, workerVars, mainVars, budgetVars>>

-----------------------------------------------------------------------------
Message == /\ \E hit \in SUBSET Recording : OnMessage(hit)
           /\ UNCHANGED <<workerVars, mainVars, budgetVars>>

\* A call once made runs to its end
ThreadStep(t) == \/ Begin(t) \/ StopRecorderStep(t)
                 \/ EndStatus(t) \/ EndArtefacts(t) \/ EndStale(t)
                 \/ DeleteFiles(t) \/ DeleteRecording(t)
WorkerStep(w) == ProcessBegin(w) \/ ProcessDraw(w) \/ ProcessEnd(w)
MainStep == \/ Suspended \/ ShutdownKeyError \/ Disconnect \/ Exit \/ Recover \/ Up
            \/ \E r \in Recording : MainLoopNext(r) \/ ResumeNext(r) \/ ResumeFails(r)

\* What somebody asks for, and what the world does
Request(t, r) == Start(t, r) \/ Stop(t, r) \/ Delete(t, r)
World == Message \/ Crash \/ SigTerm \/ Lock \/ Unlock

Next ==
    \/ \E t \in Thread : ThreadStep(t)
    \/ \E t \in Thread, r \in Recording : Request(t, r)
    \/ \E w \in Worker : WorkerStep(w)
    \/ \E w \in Worker, r \in Recording : ProcessAsked(w, r)
    \/ \E r \in Recording : Reset(r)
    \/ MainStep
    \/ World

Spec == Init /\ [][Next]_vars

\* The operating system runs every thread, Docker restarts the service
\* (restart: unless-stopped), and a lock on the database is let go.  Nobody
\* has to ask for anything, and no message has to arrive
Fairness ==
    /\ \A t \in Thread : WF_vars(ThreadStep(t))
    /\ \A w \in Worker : WF_vars(WorkerStep(w))
    /\ WF_vars(MainStep)
    /\ WF_vars(Unlock)

FairSpec == Spec /\ Fairness
=============================================================================
