------------------------------ MODULE Database ------------------------------
(***************************************************************************)
(* The recordings table and the recording_data table of the event          *)
(* recorder's SQLite database (python/event_recorder/models.py).           *)
(*                                                                         *)
(* Every method of the class Database is a transaction on a connection of  *)
(* its own, so every method is one step here (add_messages_batch, which    *)
(* reads before its transaction begins, see FlushFails in DataRecorder).   *)
(* The tables survive a crash of the service; memory does not.             *)
(* Rows are counted, not named: two rows of one recording differ in        *)
(* nothing a property of this project looks at.                            *)
(***************************************************************************)
EXTENDS Naturals

CONSTANTS
    Recording,      \* the ids AUTOINCREMENT may give, never used twice
    Thread,         \* the threads that call the recording service
    Recovery,       \* stands for recovery_manager in endedBy
    Nobody          \* endedBy of a recording without an end_time

ASSUME DatabaseAssumption == /\ Recovery \notin Thread
                             /\ Nobody \notin Thread \cup {Recovery}

VARIABLES
    status,     \* recordings.status, or that there is no such row
    artefacts,  \* recordings.artefacts: the plots, statistics and exports
    endedBy,    \* who wrote recordings.end_time (two writers, two times)
    stored,     \* how many rows of recording_data the recording has
    locked      \* another process holds the write lock: a write here raises
                \*   "database is locked" once SQLite's timeout is over

dbVars == <<status, artefacts, endedBy, stored, locked>>

RecordingStatus == {"active", "stopped", "failed"}
NoRow == {"none", "deleted"}          \* not created yet; gone for good
Artefacts == {"none", "processing", "fresh", "stale", "failed"}

DbTypeOK ==
    /\ status \in [Recording -> RecordingStatus \cup NoRow]
    /\ artefacts \in [Recording -> Artefacts]
    /\ endedBy \in [Recording -> Thread \cup {Recovery, Nobody}]
    /\ stored \in [Recording -> Nat]
    /\ locked \in BOOLEAN

DbInit ==
    /\ status = [r \in Recording |-> "none"]
    /\ artefacts = [r \in Recording |-> "none"]
    /\ endedBy = [r \in Recording |-> Nobody]
    /\ stored = [r \in Recording |-> 0]
    /\ locked = FALSE

Exists(r) == status[r] \in RecordingStatus

\* INSERT INTO recordings: the row starts out active
CreateRow(r) ==
    /\ status[r] = "none"
    /\ status' = [status EXCEPT ![r] = "active"]
    /\ UNCHANGED <<artefacts, endedBy>>

\* UPDATE recordings SET status, end_time.  On a row that is gone, nothing
UpdateStatus(r, s, who) ==
    /\ status' = [status EXCEPT ![r] = IF Exists(r) THEN s ELSE @]
    /\ endedBy' = [endedBy EXCEPT ![r] = IF Exists(r) THEN who ELSE @]

\* Mutant: the word the status column had for it before the two were split
UpdateArtefactsOldWord(r, a) ==
    artefacts' = [artefacts EXCEPT ![r] = IF a = "fresh" THEN "processed" ELSE a]

\* UPDATE recordings SET artefacts
UpdateArtefacts(r, a) ==
    artefacts' = [artefacts EXCEPT ![r] = IF Exists(r) THEN a ELSE @]

\* DELETE FROM recordings: the foreign keys take the recording's rows too
DeleteRow(r) ==
    /\ status' = [status EXCEPT ![r] = "deleted"]
    /\ stored' = [stored EXCEPT ![r] = 0]

\* The rows of a batch whose recording is gone are dropped, so that one of
\* them does not fail the batch, which the buffer would then retry for ever
AddMessagesBatch(batch) ==
    stored' = [r \in Recording |->
                  IF Exists(r) THEN stored[r] + batch[r] ELSE stored[r]]
=============================================================================
