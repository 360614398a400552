---------------------------- MODULE DataRecorder ----------------------------
(***************************************************************************)
(* python/event_recorder/data_recorder.py: the MessageBuffer and the       *)
(* DataRecorder, as the threads of the service run them.                   *)
(*                                                                         *)
(* recordings_lock makes a message, a start and each half of a stop one    *)
(* step; buffer.lock makes a flush one step.  stop_recording holds neither *)
(* between its three parts, so it is three actions, and a thread's place   *)
(* in it is in pc.  Whoever calls it goes on at ReturnTo(op).              *)
(***************************************************************************)
EXTENDS Database, FiniteSets, Functions

CONSTANTS
    MaxBuffer,      \* max_buffer_size
    MaxMessages,    \* bound: messages each recording is offered
    NoRec           \* rec of a thread that is in no call

ASSUME RecorderAssumption == /\ MaxBuffer \in Nat \ {0}
                             /\ MaxMessages \in Nat
                             /\ NoRec \notin Recording

VARIABLES
    entry,      \* active_recordings: in it and enabled, in it and not, or not
    count,      \* active_recordings[id]['count'] while there is an entry
    buffered,   \* MessageBuffer.buffer, as rows per recording
    op,         \* what a thread is doing, on which recording, and where it
    rec,        \*   has got to
    pc,
    accepted,   \* history: messages ever put into the buffer
    lost,       \* history: buffered rows a dying process took with it
    early,      \* history: recordings ended before the recorder had them
    stopError   \* history: recordings some stop of which raised

recorderVars == <<entry, count, buffered>>
threadVars == <<op, rec, pc>>
historyVars == <<accepted, lost, early, stopError>>

Entry == {"absent", "enabled", "disabled"}
Op == {"none", "start", "resume", "stop", "delete", "suspend", "shutdown"}
Pc == {"idle", "begin", "mark", "flush", "remove", "status", "artefacts",
       "stale", "unlink", "row"}

RecorderTypeOK ==
    /\ entry \in [Recording -> Entry]
    /\ count \in [Recording -> Nat]
    /\ buffered \in [Recording -> Nat]
    /\ op \in [Thread -> Op]
    /\ rec \in [Thread -> Recording \cup {NoRec}]
    /\ pc \in [Thread -> Pc]
    /\ accepted \in [Recording -> Nat]
    /\ lost \in [Recording -> Nat]
    /\ early \subseteq Recording
    /\ stopError \subseteq Recording

Zero == [r \in Recording |-> 0]

RecorderInit ==
    /\ entry = [r \in Recording |-> "absent"]
    /\ count = Zero /\ buffered = Zero
    /\ op = [t \in Thread |-> "none"]
    /\ rec = [t \in Thread |-> NoRec]
    /\ pc = [t \in Thread |-> "idle"]
    /\ accepted = Zero /\ lost = Zero
    /\ early = {} /\ stopError = {}

Enabled == {r \in Recording : entry[r] = "enabled"}
BufferSize(b) == SumFunction(b)

\* Where a thread stands: at the given place of a call
At(t, place) == pc[t] = place
InCall(t) == op[t] # "none"
StartingOn(r) == \E t \in Thread : rec[t] = r /\ pc[t] = "begin"

Goto(t, place) == pc' = [pc EXCEPT ![t] = place] /\ UNCHANGED <<op, rec>>
Call(t, what, r, place) ==
    /\ op' = [op EXCEPT ![t] = what]
    /\ rec' = [rec EXCEPT ![t] = r]
    /\ pc' = [pc EXCEPT ![t] = place]
Return(t) == Call(t, "none", NoRec, "idle")

\* A flush fails on a locked database, and when a recording that has rows in
\* it is deleted between the batch's look at which recordings exist and its
\* INSERT: the foreign key refuses the batch
FlushFails == \/ locked
              \/ \E t \in Thread : At(t, "row") /\ buffered[rec[t]] # 0

-----------------------------------------------------------------------------
(***************************************************************************)
(* A message that matches the topics of some enabled recordings, `hit'.    *)
(* Each gets a row in the buffer and one on its count.  A flush that the   *)
(* time limit or the size limit asks for in the middle of it stores what   *)
(* is buffered so far, with the part `flushed' of this message's own rows; *)
(* one that fails leaves everything in the buffer.                         *)
(***************************************************************************)
OnMessage(hit) ==
    /\ hit # {} /\ hit \subseteq Enabled
    /\ \A r \in hit : accepted[r] < MaxMessages
    /\ count' = [r \in Recording |-> IF r \in hit THEN count[r] + 1 ELSE count[r]]
    /\ accepted' = [r \in Recording |->
                       IF r \in hit THEN accepted[r] + 1 ELSE accepted[r]]
    /\ \/ /\ buffered' = [r \in Recording |->
                             IF r \in hit THEN buffered[r] + 1 ELSE buffered[r]]
          /\ FlushFails \/ BufferSize(buffered') < MaxBuffer
          /\ UNCHANGED stored
       \/ /\ ~locked
          /\ \E flushed \in (SUBSET hit) \ {{}} :
                /\ AddMessagesBatch([r \in Recording |->
                      IF r \in flushed THEN buffered[r] + 1 ELSE buffered[r]])
                /\ buffered' = [r \in Recording |->
                      IF r \in hit \ flushed THEN 1 ELSE 0]
          /\ BufferSize(buffered') < MaxBuffer
    /\ UNCHANGED <<status, artefacts, endedBy, locked, entry, threadVars,
                   lost, early, stopError>>

\* Mutant: a resumed recording counts from nothing
StartRecorderCountsAfresh(r, initial) ==
    /\ entry' = [entry EXCEPT ![r] = "enabled"]
    /\ count' = [count EXCEPT ![r] = IF entry[r] = "absent" THEN 0 ELSE @]

\* start_recording, with initial_count: nothing if it is already there
StartRecorder(r, initial) ==
    IF entry[r] = "absent"
    THEN /\ entry' = [entry EXCEPT ![r] = "enabled"]
         /\ count' = [count EXCEPT ![r] = initial]
    ELSE UNCHANGED <<entry, count>>

(***************************************************************************)
(* stop_recording.  Its caller goes on to write the status (the stop of a  *)
(* recording) or is one of the loops that shut the service down.           *)
(***************************************************************************)
ReturnTo(t) == IF op[t] = "stop" THEN Goto(t, "status") ELSE Return(t)

\* Mutant: an entry stays enabled until it is removed
StopMarkKeepsEnabled(t) ==
    /\ At(t, "mark")
    /\ IF entry[rec[t]] = "absent" THEN ReturnTo(t) ELSE Goto(t, "flush")
    /\ UNCHANGED <<dbVars, recorderVars, historyVars>>

\* Mutant: a recording the recorder does not have is not there to be stopped
StopMarkGivesUp(t) ==
    /\ At(t, "mark")
    /\ IF entry[rec[t]] = "absent"
       THEN Return(t) /\ UNCHANGED entry
       ELSE Goto(t, "flush") /\ entry' = [entry EXCEPT ![rec[t]] = "disabled"]
    /\ UNCHANGED <<dbVars, count, buffered, historyVars>>

\* "Mark as disabled", or not active here: a warning and nothing to do
StopMark(t) ==
    LET r == rec[t] IN
    /\ At(t, "mark")
    /\ IF entry[r] = "absent"
       THEN /\ ReturnTo(t)
            /\ early' = IF StartingOn(r) THEN early \cup {r} ELSE early
            /\ UNCHANGED entry
       ELSE /\ entry' = [entry EXCEPT ![r] = "disabled"]
            /\ Goto(t, "flush")
            /\ UNCHANGED early
    /\ UNCHANGED <<dbVars, count, buffered, accepted, lost, stopError>>

\* Mutant: the buffer is cleared whether or not it could be stored
FlushBufferDropsOnError ==
    /\ IF FlushFails THEN UNCHANGED stored ELSE AddMessagesBatch(buffered)
    /\ buffered' = Zero

\* "Flush buffer to ensure all messages saved"; a failed one keeps them
FlushBuffer ==
    \/ FlushFails /\ UNCHANGED <<stored, buffered>>
    \/ ~locked /\ AddMessagesBatch(buffered) /\ buffered' = Zero

\* Mutant: a failed flush raises
StopFlushRaises(t) ==
    /\ At(t, "flush") /\ FlushBuffer
    /\ IF FlushFails THEN Return(t) ELSE Goto(t, "remove")
    /\ UNCHANGED <<status, artefacts, endedBy, locked, entry, count, historyVars>>

StopFlush(t) ==
    /\ At(t, "flush")
    /\ FlushBuffer
    /\ Goto(t, "remove")
    /\ UNCHANGED <<status, artefacts, endedBy, locked, entry, count, historyVars>>

\* "Now remove from active recordings"
StopRemove(t) ==
    LET r == rec[t] IN
    /\ At(t, "remove")
    /\ entry[r] # "absent"
    /\ entry' = [entry EXCEPT ![r] = "absent"]
    /\ ReturnTo(t)
    /\ UNCHANGED <<dbVars, count, buffered, historyVars>>

\* Somebody else's stop removed it in between: active_recordings[id] raises
\* KeyError, which ends this call
StopRemoveKeyError(t) ==
    /\ At(t, "remove") /\ op[t] # "shutdown"
    /\ entry[rec[t]] = "absent"
    /\ Return(t)
    /\ stopError' = stopError \cup {rec[t]}
    /\ UNCHANGED <<dbVars, recorderVars, accepted, lost, early>>
=============================================================================
