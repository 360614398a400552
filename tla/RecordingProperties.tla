------------------------ MODULE RecordingProperties ------------------------
(***************************************************************************)
(* What the life of a recording promises, over RecordingService.           *)
(***************************************************************************)
EXTENDS RecordingService

-----------------------------------------------------------------------------
(* Rows and counts                                                         *)

\* No row is lost or stored twice: every message put into the buffer is in
\* the database, still in the buffer, or went with a process that died.  A
\* failed flush keeps its rows, and a flush in a stop of one recording stores
\* those of every other (data_recorder.py, _flush_buffer)
RowsConserved ==
    \A r \in Recording :
        Exists(r) => accepted[r] = stored[r] + buffered[r] + lost[r]

\* The count the status shows, which is kept in memory so as not to COUNT(*)
\* once a second, is the number of rows, across restarts too
\* (start_recording's initial_count, FR-31)
CountIsTrue ==
    \A r \in Recording :
        Exists(r) /\ entry[r] # "absent" => count[r] = stored[r] + buffered[r]

\* A recording that has stopped has its last rows in the database: nothing of
\* it waits in the buffer, where a power cut would take it ("Flush buffer to
\* ensure all messages saved").  Under a locked database it does not hold
StoppedIsSaved ==
    early = {} => \A r \in Recording : status[r] = "stopped" => buffered[r] = 0

-----------------------------------------------------------------------------
(* Who is recording                                                        *)

\* A recording that has ended takes no more messages, however the stops, the
\* deletion, the resume and the shutdown interleave; `early' names the ones
\* that were ended before the recorder had taken them up
SilentOnceEnded ==
    \A r \in Recording \ early :
        status[r] \in {"stopped", "failed", "deleted"} => entry[r] # "enabled"

\* The same without the exception: a recording handed back to its trigger at
\* a restart, and ended by it at once, stays ended
EndedIsSilent ==
    \A r \in Recording :
        status[r] = "stopped" /\ ~StartingOn(r) => entry[r] # "enabled"

\* While the service is up, a recording the database calls active is being
\* recorded, unless a call on it is under way or a stop of it raised
ActiveIsHeard ==
    phase = "up" =>
        \A r \in Recording \ stopError :
            /\ status[r] = "active"
            /\ \A t \in Thread : rec[t] # r
            => entry[r] = "enabled"

\* An end once given is kept: "it is already stopped, with the time they
\* stopped it" (main.py, _on_trigger_stop)
EndTimeStands ==
    [][\A r \in Recording : endedBy[r] # Nobody => endedBy'[r] = endedBy[r]]_vars

-----------------------------------------------------------------------------
(* What has been drawn                                                     *)

\* Artefacts called fresh show the whole of a stopped recording, drawn while it
\* was in progress or not, or are gone with a deletion that did not finish
\* (recording_service.py, _end: "the plots stop short of the end").  `crossed'
\* names the ones whose end missed the drawing, until they are drawn again
FreshIsWhole ==
    early = {} => \A r \in Recording \ crossed :
        /\ status[r] = "stopped" /\ artefacts[r] = "fresh" /\ drawn[r] # 0
        /\ \A t \in Thread : rec[t] # r
        => drawn[r] = stored[r]

\* A recording that says it is being drawn has somebody drawing it: recovery
\* resets the work a process died with.  `crossed' names the ones that were in
\* progress then, which it passes over, and those a locked database left at it
OrphanOf(r) == artefacts[r] = "processing" /\ \A w \in Worker : wrec[w] # r

StoppedHasNoOrphan ==
    phase = "up" => \A r \in Recording \ crossed : status[r] = "stopped" => ~OrphanOf(r)

-----------------------------------------------------------------------------
(* What must come about                                                    *)

\* A stop under way ends its recording, if the service stays up: two stops of
\* one recording do not both give up on it
StopEndsIt ==
    \A r \in Recording :
        (\E t \in Thread : op[t] = "stop" /\ rec[t] = r)
            ~> (status[r] # "active" \/ phase # "up")

\* A recording the service went down on is heard again, or is ended (TR-14)
InterruptedIsTakenUp ==
    \A r \in Recording :
        phase = "down" /\ status[r] = "active"
            ~> (entry[r] = "enabled" \/ status[r] # "active")

-----------------------------------------------------------------------------
(***************************************************************************)
(* The inductive invariant behind the safety properties of a recording's   *)
(* life: what holds of the threads in the middle of a call, of the         *)
(* recordings Main has still to resume, and of those that have ended.      *)
(***************************************************************************)

\* A thread in no call is on no recording
CallsAreOnRecordings ==
    \A t \in Thread : /\ pc[t] = "idle" <=> op[t] = "none"
                      /\ pc[t] = "idle" <=> rec[t] = NoRec

\* Nothing has touched a recording that has not been created
UnbornIsBlank ==
    \A r \in Recording : status[r] = "none" =>
        /\ entry[r] = "absent"
        /\ stored[r] = 0 /\ buffered[r] = 0 /\ accepted[r] = 0 /\ lost[r] = 0
        /\ \A t \in Thread : rec[t] # r
        /\ r \notin todo

\* Memory is empty while the process is down
DownIsEmpty ==
    phase = "down" =>
        /\ \A t \in Thread : pc[t] = "idle"
        /\ \A r \in Recording : entry[r] = "absent" /\ buffered[r] = 0

\* One that has still to be resumed is not recorded, and nobody is at it
TodoIsUntouched ==
    phase = "starting" =>
        \A r \in todo : /\ entry[r] = "absent" /\ buffered[r] = 0
                        /\ \A t \in Thread : rec[t] # r

\* One thread at most is about to give a recording to the recorder, which
\* does not have it
BeginsAlone ==
    \A t \in Thread : pc[t] = "begin" =>
        /\ entry[rec[t]] = "absent" /\ buffered[rec[t]] = 0
        /\ op[t] # "resume" => stored[rec[t]] = 0
        /\ \A u \in Thread : rec[u] = rec[t] /\ pc[u] = "begin" => u = t

\* A stop past its first part has silenced the recording for good
Silenced(r) == entry[r] # "enabled" /\ ~StartingOn(r)

StopperSilences ==
    \A t \in Thread :
        pc[t] \in {"flush", "remove", "status", "artefacts", "stale"} /\ rec[t] \notin early
            => Silenced(rec[t])

\* Only what has ended is deleted
Ended == {"stopped", "failed", "deleted"}

DeletesTheEnded ==
    \A t \in Thread : pc[t] \in {"unlink", "row"} => status[rec[t]] \in Ended

EndedIsSilenced ==
    \A r \in Recording \ early : status[r] \in Ended => Silenced(r)

IInv ==
    /\ TypeOK
    /\ CallsAreOnRecordings
    /\ UnbornIsBlank
    /\ DownIsEmpty
    /\ TodoIsUntouched
    /\ BeginsAlone
    /\ StopperSilences
    /\ DeletesTheEnded
    /\ EndedIsSilenced
    /\ RowsConserved
    /\ CountIsTrue

-----------------------------------------------------------------------------
(* The strengthening of ActiveIsHeard: who keeps an active recording that  *)
(* is not being recorded                                                   *)

\* Only main.stop silences recordings it does not end
StopsEndThem ==
    phase \in {"down", "starting", "up"} =>
        \A t \in Thread : pc[t] \in {"mark", "flush", "remove"} => op[t] = "stop"

ActiveIsAttended ==
    phase \in {"starting", "up"} =>
        \A r \in Recording \ stopError : status[r] = "active" =>
            \/ entry[r] = "enabled"
            \/ phase = "starting" /\ r \in todo
            \/ \E t \in Thread : /\ rec[t] = r
                                 /\ pc[t] \in {"begin", "flush", "remove", "status"}

HeardInv == StopsEndThem /\ ActiveIsAttended

-----------------------------------------------------------------------------
(* The strengthening of FreshIsWhole and StoppedHasNoOrphan, where the      *)
(* database never locks                                                    *)

NoLocks == MaxLocks = 0

\* What is not being recorded any more has all of its rows stored
RowsAreSaved ==
    early = {} =>
        /\ \A r \in Recording : entry[r] = "absent" \/ status[r] \in Ended => buffered[r] = 0
        /\ \A t \in Thread : pc[t] \in {"remove", "status"} => buffered[rec[t]] = 0

\* A stop that has written its status is of an ended recording; only recovery
\* calls one failed, and Main stops none
StopHasEnded ==
    \A t \in Thread : pc[t] \in {"artefacts", "stale"} =>
        status[rec[t]] \in Ended /\ t # Main

StopsNoFailed ==
    \A t \in Thread : /\ pc[t] = "status" => op[t] = "stop"
                      /\ op[t] = "stop" => status[rec[t]] # "failed" /\ t # Main

\* A worker that is at anything is at a recording that was created
WorkersHaveOne ==
    /\ phase = "down" => \A w \in Worker : wpc[w] = "idle"
    /\ \A r \in Recording : status[r] = "none" =>
          artefacts[r] = "none" /\ drawn[r] = 0 /\ \A w \in Worker : wrec[w] # r

\* Some worker has read r, or is about to; some stop of r is there
ReadBySome(r) == \E w \in Worker : wpc[w] = "drawn" /\ wrec[w] = r
DrawnBySome(r) == \E w \in Worker : wpc[w] \in {"drawing", "drawn"} /\ wrec[w] = r
EndingAt(r, place) == \E t \in Thread : pc[t] = place /\ rec[t] = r

\* Plots that stop short of an ended recording are not called fresh, nor about
\* to be, unless its stop has still to look or to call them stale
DrawnIsWhole ==
    early = {} => \A r \in Recording \ crossed : status[r] \in {"stopped", "failed"} =>
        \/ drawn[r] \in {0, stored[r]}
        \/ EndingAt(r, "artefacts") \/ EndingAt(r, "stale")
        \/ artefacts[r] # "fresh" /\ ~ReadBySome(r)

ProcessingHasWorker ==
    \A r \in Recording \ crossed : Exists(r) /\ artefacts[r] = "processing" =>
        IF phase = "down" THEN status[r] = "stopped" ELSE DrawnBySome(r)

CalmInv ==
    /\ ~locked
    /\ RowsAreSaved
    /\ StopHasEnded
    /\ StopsNoFailed
    /\ WorkersHaveOne
    /\ DrawnIsWhole
    /\ ProcessingHasWorker
=============================================================================
