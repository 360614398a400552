----------------------- MODULE RecordingService_proofs -----------------------
(***************************************************************************)
(* Proofs about RecordingService, for any number of recordings, threads    *)
(* and workers, any size of the buffer and any number of outages.  From    *)
(* IInv: the type invariant, that no row is lost, that the counts are true *)
(* and that a recording which has ended is silent.  From HeardInv on top   *)
(* of it: that what is active is recorded.  From CalmInv, where the        *)
(* database never locks: that what is fresh is whole, that what is being   *)
(* drawn has a worker, and that what has stopped is stored.                *)
(*                                                                         *)
(* Each has one lemma per action, and in it one step per conjunct the      *)
(* action can disturb (RecordingProperties).                               *)
(***************************************************************************)
EXTENDS RecordingProperties, TLAPS

USE DatabaseAssumption, RecorderAssumption, ServiceAssumption
USE DEF vars, dbVars, recorderVars, threadVars, historyVars, workerVars, mainVars, budgetVars
USE DEF TypeOK, DbTypeOK, RecorderTypeOK

\* At first there is no recording, and no process
LEMMA InitIsInductive == Init => IInv
<1> SUFFICES ASSUME Init PROVE IInv
    OBVIOUS
<1> USE DEF Init, DbInit, RecorderInit, Zero
<1>1. TypeOK
    <2>1. DbTypeOK BY DEF RecordingStatus, NoRow, Artefacts
    <2>2. RecorderTypeOK BY DEF Entry, Op, Pc
    <2>3. outages \in 0..MaxOutages /\ locks \in 0..MaxLocks OBVIOUS
    <2> QED BY <2>1, <2>2, <2>3 DEF Phase, Wpc
<1>2. CallsAreOnRecordings /\ UnbornIsBlank /\ DownIsEmpty
    BY DEF CallsAreOnRecordings, UnbornIsBlank, DownIsEmpty
<1>3. TodoIsUntouched /\ BeginsAlone /\ StopperSilences /\ DeletesTheEnded
    BY DEF TodoIsUntouched, BeginsAlone, StopperSilences, DeletesTheEnded
<1>4. EndedIsSilenced /\ RowsConserved /\ CountIsTrue
    BY DEF EndedIsSilenced, Ended, RowsConserved, CountIsTrue, Exists, RecordingStatus
<1> QED BY <1>1, <1>2, <1>3, <1>4 DEF IInv

-----------------------------------------------------------------------------
(* The steps                                                               *)

\* A step that leaves the rows, the recorder and the threads alone
LEMMA FrameStep ==
    ASSUME IInv, TypeOK',
           UNCHANGED <<status, stored, recorderVars, threadVars, historyVars, mainVars>>
    PROVE  IInv'
<1> USE DEF IInv
<1>1. CallsAreOnRecordings' /\ UnbornIsBlank' /\ DownIsEmpty'
    BY DEF CallsAreOnRecordings, UnbornIsBlank, DownIsEmpty
<1>2. TodoIsUntouched' /\ BeginsAlone' /\ DeletesTheEnded'
    BY DEF TodoIsUntouched, BeginsAlone, DeletesTheEnded
<1>3. StopperSilences' /\ EndedIsSilenced'
    BY DEF StopperSilences, EndedIsSilenced, Silenced, StartingOn
<1>4. RowsConserved' /\ CountIsTrue'
    BY DEF RowsConserved, CountIsTrue, Exists
<1> QED BY <1>1, <1>2, <1>3, <1>4

\* The workers draw, and the artefacts of a recording say so
LEMMA WorkersStep ==
    ASSUME IInv, NEW w \in Worker, WorkerStep(w)
    PROVE  IInv'
<1> USE DEF IInv, Artefacts, Wpc
<1>1. CASE ProcessBegin(w)
    <2>1. TypeOK' BY <1>1 DEF ProcessBegin, UpdateArtefacts, WorkerGoto
    <2> QED BY <1>1, <2>1, FrameStep DEF ProcessBegin
<1>2. CASE ProcessDraw(w)
    <2>1. wrec[w] \in Recording => stored[wrec[w]] \in Nat OBVIOUS
    <2>2. TypeOK' BY <1>2, <2>1 DEF ProcessDraw, WorkerGoto
    <2> QED BY <1>2, <2>2, FrameStep DEF ProcessDraw
<1>3. CASE ProcessEnd(w)
    <2>1. wrec[w] \in Recording BY <1>3 DEF ProcessEnd
    <2>2. TypeOK' BY <1>3, <2>1 DEF ProcessEnd, UpdateArtefacts, WorkerGoto, CrossIf
    <2> QED BY <1>3, <2>2, FrameStep DEF ProcessEnd
<1> QED BY <1>1, <1>2, <1>3 DEF WorkerStep

\* Somebody asks for a drawing, or clears a failed one
LEMMA ArtefactsAskedStep ==
    ASSUME IInv, NEW r \in Recording,
           Reset(r) \/ \E w \in Worker : ProcessAsked(w, r)
    PROVE  IInv'
<1> USE DEF IInv, Artefacts, Wpc
<1>1. CASE Reset(r)
    <2>1. TypeOK' BY <1>1 DEF Reset, UpdateArtefacts
    <2> QED BY <1>1, <2>1, FrameStep DEF Reset
<1>2. CASE \E w \in Worker : ProcessAsked(w, r)
    <2>1. TypeOK' BY <1>2 DEF ProcessAsked
    <2> QED BY <1>2, <2>1, FrameStep DEF ProcessAsked
<1> QED BY <1>1, <1>2

\* Another process takes the lock on the database, or gives it up
LEMMA LocksStep ==
    ASSUME IInv, Lock \/ Unlock
    PROVE  IInv'
<1>1. TypeOK'
    <2>1. locks' \in 0..MaxLocks BY DEF IInv, Lock, Unlock
    <2> QED BY <2>1 DEF IInv, Lock, Unlock
<1> QED BY <1>1, FrameStep DEF Lock, Unlock

\* A start: the new recording had not been touched
LEMMA StartStep ==
    ASSUME IInv, NEW t \in Thread, NEW r \in Recording, Start(t, r)
    PROVE  IInv'
<1> USE DEF IInv, Start, CreateRow, MayCall, Serving, Call, InCall
<1>1. TypeOK' BY DEF RecordingStatus, NoRow, Artefacts, Entry, Op, Pc, Phase, Wpc
<1>2. CallsAreOnRecordings' BY DEF CallsAreOnRecordings
<1>3. UnbornIsBlank' BY DEF UnbornIsBlank, CallsAreOnRecordings
<1>4. DownIsEmpty' BY DEF DownIsEmpty
<1>5. TodoIsUntouched'
    BY DEF TodoIsUntouched, UnbornIsBlank, DownIsEmpty, CallsAreOnRecordings
<1>6. BeginsAlone' BY DEF BeginsAlone, UnbornIsBlank, TodoIsUntouched, CallsAreOnRecordings
<1>7. StopperSilences'
    BY DEF StopperSilences, Silenced, StartingOn, UnbornIsBlank, TodoIsUntouched,
           CallsAreOnRecordings
<1>8. DeletesTheEnded' BY DEF DeletesTheEnded, Ended, UnbornIsBlank
<1>9. EndedIsSilenced'
    BY DEF EndedIsSilenced, StopperSilences, Silenced, StartingOn, Ended, UnbornIsBlank,
           DownIsEmpty, TodoIsUntouched
<1>10. RowsConserved' BY DEF RowsConserved, UnbornIsBlank, Exists, RecordingStatus
<1>11. CountIsTrue'
    BY DEF CountIsTrue, UnbornIsBlank, BeginsAlone, TodoIsUntouched, Exists, RecordingStatus
<1> QED BY <1>1, <1>2, <1>3, <1>4, <1>5, <1>6, <1>7, <1>8, <1>9, <1>10, <1>11

\* The recorder takes a recording up: it is not in it, and nobody else is about to
LEMMA BeginStep ==
    ASSUME IInv, NEW t \in Thread, Begin(t)
    PROVE  IInv'
<1> USE DEF IInv, Begin, At, StartRecorder, Return, Call
<1>0. rec[t] \in Recording BY DEF CallsAreOnRecordings
<1>1. TypeOK' BY <1>0 DEF RecordingStatus, NoRow, Artefacts, Entry, Op, Pc, Phase, Wpc
<1>2. CallsAreOnRecordings' BY <1>0 DEF CallsAreOnRecordings
<1>3. UnbornIsBlank' BY <1>0 DEF UnbornIsBlank, CallsAreOnRecordings
<1>4. DownIsEmpty' BY <1>0 DEF DownIsEmpty
<1>5. TodoIsUntouched'
    BY <1>0 DEF TodoIsUntouched, UnbornIsBlank, DownIsEmpty, CallsAreOnRecordings
<1>6. BeginsAlone'
    BY <1>0 DEF BeginsAlone, UnbornIsBlank, TodoIsUntouched, CallsAreOnRecordings
<1>7. StopperSilences'
    BY <1>0 DEF StopperSilences, Silenced, StartingOn, UnbornIsBlank, TodoIsUntouched,
       CallsAreOnRecordings
<1>8. DeletesTheEnded' BY <1>0 DEF DeletesTheEnded, Ended, UnbornIsBlank
<1>9. EndedIsSilenced'
    BY <1>0 DEF EndedIsSilenced, StopperSilences, Silenced, StartingOn, Ended,
       UnbornIsBlank, DownIsEmpty, TodoIsUntouched
<1>10. RowsConserved' BY <1>0 DEF RowsConserved, UnbornIsBlank, Exists, RecordingStatus
<1>11. CountIsTrue'
    BY <1>0 DEF CountIsTrue, UnbornIsBlank, BeginsAlone, TodoIsUntouched, Exists,
       RecordingStatus
<1> QED BY <1>1, <1>2, <1>3, <1>4, <1>5, <1>6, <1>7, <1>8, <1>9, <1>10, <1>11

\* A stop is asked for: not of a recording still to be resumed
LEMMA StopStep ==
    ASSUME IInv, NEW t \in Thread, NEW r \in Recording, Stop(t, r)
    PROVE  IInv'
<1> USE DEF IInv, Stop, MayCall, Serving, InCall, Call
<1>1. TypeOK' BY DEF RecordingStatus, NoRow, Artefacts, Entry, Op, Pc, Phase, Wpc
<1>2. CallsAreOnRecordings' BY DEF CallsAreOnRecordings
<1>3. UnbornIsBlank' BY DEF UnbornIsBlank, CallsAreOnRecordings
<1>4. DownIsEmpty' BY DEF DownIsEmpty
<1>5. TodoIsUntouched'
    BY DEF TodoIsUntouched, UnbornIsBlank, DownIsEmpty, CallsAreOnRecordings
<1>6. BeginsAlone' BY DEF BeginsAlone, UnbornIsBlank, TodoIsUntouched, CallsAreOnRecordings
<1>7. StopperSilences'
    BY DEF StopperSilences, Silenced, StartingOn, UnbornIsBlank, TodoIsUntouched,
           CallsAreOnRecordings
<1>8. DeletesTheEnded' BY DEF DeletesTheEnded, Ended, UnbornIsBlank
<1>9. EndedIsSilenced'
    BY DEF EndedIsSilenced, StopperSilences, Silenced, StartingOn, Ended, UnbornIsBlank,
           DownIsEmpty, TodoIsUntouched
<1>10. RowsConserved' BY DEF RowsConserved, UnbornIsBlank, Exists, RecordingStatus
<1>11. CountIsTrue'
    BY DEF CountIsTrue, UnbornIsBlank, BeginsAlone, TodoIsUntouched, Exists, RecordingStatus
<1> QED BY <1>1, <1>2, <1>3, <1>4, <1>5, <1>6, <1>7, <1>8, <1>9, <1>10, <1>11

\* The first part of a stop silences the recording, or notes that it came early
LEMMA StopMarkStep ==
    ASSUME IInv, NEW t \in Thread, StopMark(t), UNCHANGED <<workerVars, mainVars, budgetVars>>
    PROVE  IInv'
<1> USE DEF IInv, StopMark, At, ReturnTo, Goto, Return, Call
<1>0. rec[t] \in Recording BY DEF CallsAreOnRecordings
<1>1. TypeOK' BY <1>0 DEF RecordingStatus, NoRow, Artefacts, Entry, Op, Pc, Phase, Wpc
<1>2. CallsAreOnRecordings' BY <1>0 DEF CallsAreOnRecordings
<1>3. UnbornIsBlank' BY <1>0 DEF UnbornIsBlank, CallsAreOnRecordings
<1>4. DownIsEmpty' BY <1>0 DEF DownIsEmpty
<1>5. TodoIsUntouched'
    BY <1>0 DEF TodoIsUntouched, UnbornIsBlank, DownIsEmpty, CallsAreOnRecordings
<1>6. BeginsAlone'
    BY <1>0 DEF BeginsAlone, UnbornIsBlank, TodoIsUntouched, CallsAreOnRecordings
<1>7. StopperSilences'
    BY <1>0 DEF StopperSilences, Silenced, StartingOn, BeginsAlone, CallsAreOnRecordings
<1>8. DeletesTheEnded' BY <1>0 DEF DeletesTheEnded, Ended, UnbornIsBlank
<1>9. EndedIsSilenced'
    BY <1>0 DEF EndedIsSilenced, StopperSilences, Silenced, StartingOn, Ended,
       UnbornIsBlank, DownIsEmpty, TodoIsUntouched
<1>10. RowsConserved' BY <1>0 DEF RowsConserved, UnbornIsBlank, Exists, RecordingStatus
<1>11. CountIsTrue'
    BY <1>0 DEF CountIsTrue, UnbornIsBlank, BeginsAlone, TodoIsUntouched, Exists,
       RecordingStatus
<1> QED BY <1>1, <1>2, <1>3, <1>4, <1>5, <1>6, <1>7, <1>8, <1>9, <1>10, <1>11

\* A flush moves rows from the buffer to the table, of every recording alike
LEMMA StopFlushStep ==
    ASSUME IInv, NEW t \in Thread, StopFlush(t), UNCHANGED
           <<workerVars, mainVars, budgetVars>>
    PROVE  IInv'
<1> USE DEF IInv, StopFlush, At, Goto, FlushBuffer, AddMessagesBatch, Zero
<1>0. rec[t] \in Recording BY DEF CallsAreOnRecordings
<1>1. TypeOK' BY <1>0 DEF RecordingStatus, NoRow, Artefacts, Entry, Op, Pc, Phase, Wpc
<1>2. CallsAreOnRecordings' BY <1>0 DEF CallsAreOnRecordings
<1>3. UnbornIsBlank' BY <1>0 DEF UnbornIsBlank, CallsAreOnRecordings
<1>4. DownIsEmpty' BY <1>0 DEF DownIsEmpty
<1>5. TodoIsUntouched'
    BY <1>0 DEF TodoIsUntouched, UnbornIsBlank, DownIsEmpty, CallsAreOnRecordings
<1>6. BeginsAlone'
    BY <1>0 DEF BeginsAlone, UnbornIsBlank, TodoIsUntouched, CallsAreOnRecordings
<1>7. StopperSilences'
    BY <1>0 DEF StopperSilences, Silenced, StartingOn, UnbornIsBlank, TodoIsUntouched,
       CallsAreOnRecordings
<1>8. DeletesTheEnded' BY <1>0 DEF DeletesTheEnded, Ended, UnbornIsBlank
<1>9. EndedIsSilenced'
    BY <1>0 DEF EndedIsSilenced, StopperSilences, Silenced, StartingOn, Ended,
       UnbornIsBlank, DownIsEmpty, TodoIsUntouched
<1>10. RowsConserved' BY <1>0 DEF RowsConserved, UnbornIsBlank, Exists, RecordingStatus
<1>11. CountIsTrue'
    BY <1>0 DEF CountIsTrue, UnbornIsBlank, BeginsAlone, TodoIsUntouched, Exists,
       RecordingStatus
<1> QED BY <1>1, <1>2, <1>3, <1>4, <1>5, <1>6, <1>7, <1>8, <1>9, <1>10, <1>11

\* The third part of a stop
LEMMA StopRemoveStep ==
    ASSUME IInv, NEW t \in Thread, StopRemove(t), UNCHANGED
           <<workerVars, mainVars, budgetVars>>
    PROVE  IInv'
<1> USE DEF IInv, StopRemove, At, ReturnTo, Goto, Return, Call
<1>0. rec[t] \in Recording BY DEF CallsAreOnRecordings
<1>1. TypeOK' BY <1>0 DEF RecordingStatus, NoRow, Artefacts, Entry, Op, Pc, Phase, Wpc
<1>2. CallsAreOnRecordings' BY <1>0 DEF CallsAreOnRecordings
<1>3. UnbornIsBlank' BY <1>0 DEF UnbornIsBlank, CallsAreOnRecordings
<1>4. DownIsEmpty' BY <1>0 DEF DownIsEmpty
<1>5. TodoIsUntouched'
    BY <1>0 DEF TodoIsUntouched, UnbornIsBlank, DownIsEmpty, CallsAreOnRecordings
<1>6. BeginsAlone'
    BY <1>0 DEF BeginsAlone, UnbornIsBlank, TodoIsUntouched, CallsAreOnRecordings
<1>7. StopperSilences'
    BY <1>0 DEF StopperSilences, Silenced, StartingOn, UnbornIsBlank, TodoIsUntouched,
       CallsAreOnRecordings
<1>8. DeletesTheEnded' BY <1>0 DEF DeletesTheEnded, Ended, UnbornIsBlank
<1>9. EndedIsSilenced'
    BY <1>0 DEF EndedIsSilenced, StopperSilences, Silenced, StartingOn, Ended,
       UnbornIsBlank, DownIsEmpty, TodoIsUntouched
<1>10. RowsConserved' BY <1>0 DEF RowsConserved, UnbornIsBlank, Exists, RecordingStatus
<1>11. CountIsTrue'
    BY <1>0 DEF CountIsTrue, UnbornIsBlank, BeginsAlone, TodoIsUntouched, Exists,
       RecordingStatus
<1> QED BY <1>1, <1>2, <1>3, <1>4, <1>5, <1>6, <1>7, <1>8, <1>9, <1>10, <1>11

\* The third part of a stop, beaten by another
LEMMA StopRemoveKeyErrorStep ==
    ASSUME IInv, NEW t \in Thread, StopRemoveKeyError(t), UNCHANGED
           <<workerVars, mainVars, budgetVars>>
    PROVE  IInv'
<1> USE DEF IInv, StopRemoveKeyError, At, Return, Call
<1>0. rec[t] \in Recording BY DEF CallsAreOnRecordings
<1>1. TypeOK' BY <1>0 DEF RecordingStatus, NoRow, Artefacts, Entry, Op, Pc, Phase, Wpc
<1>2. CallsAreOnRecordings' BY <1>0 DEF CallsAreOnRecordings
<1>3. UnbornIsBlank' BY <1>0 DEF UnbornIsBlank, CallsAreOnRecordings
<1>4. DownIsEmpty' BY <1>0 DEF DownIsEmpty
<1>5. TodoIsUntouched'
    BY <1>0 DEF TodoIsUntouched, UnbornIsBlank, DownIsEmpty, CallsAreOnRecordings
<1>6. BeginsAlone'
    BY <1>0 DEF BeginsAlone, UnbornIsBlank, TodoIsUntouched, CallsAreOnRecordings
<1>7. StopperSilences'
    BY <1>0 DEF StopperSilences, Silenced, StartingOn, UnbornIsBlank, TodoIsUntouched,
       CallsAreOnRecordings
<1>8. DeletesTheEnded' BY <1>0 DEF DeletesTheEnded, Ended, UnbornIsBlank
<1>9. EndedIsSilenced'
    BY <1>0 DEF EndedIsSilenced, StopperSilences, Silenced, StartingOn, Ended,
       UnbornIsBlank, DownIsEmpty, TodoIsUntouched
<1>10. RowsConserved' BY <1>0 DEF RowsConserved, UnbornIsBlank, Exists, RecordingStatus
<1>11. CountIsTrue'
    BY <1>0 DEF CountIsTrue, UnbornIsBlank, BeginsAlone, TodoIsUntouched, Exists,
       RecordingStatus
<1> QED BY <1>1, <1>2, <1>3, <1>4, <1>5, <1>6, <1>7, <1>8, <1>9, <1>10, <1>11

\* The status is written over a recording that is silenced by now
LEMMA EndStatusStep ==
    ASSUME IInv, NEW t \in Thread, EndStatus(t)
    PROVE  IInv'
<1> USE DEF IInv, EndStatus, At, UpdateStatus, StopRaises, Return, Call, Goto, Exists,
            RecordingStatus
<1>0. rec[t] \in Recording BY DEF CallsAreOnRecordings
<1>1. TypeOK' BY <1>0 DEF RecordingStatus, NoRow, Artefacts, Entry, Op, Pc, Phase, Wpc
<1>2. CallsAreOnRecordings' BY <1>0 DEF CallsAreOnRecordings
<1>3. UnbornIsBlank' BY <1>0 DEF UnbornIsBlank, CallsAreOnRecordings
<1>4. DownIsEmpty' BY <1>0 DEF DownIsEmpty
<1>5. TodoIsUntouched'
    BY <1>0 DEF TodoIsUntouched, UnbornIsBlank, DownIsEmpty, CallsAreOnRecordings
<1>6. BeginsAlone'
    BY <1>0 DEF BeginsAlone, UnbornIsBlank, TodoIsUntouched, CallsAreOnRecordings
<1>7. StopperSilences'
    BY <1>0 DEF StopperSilences, Silenced, StartingOn, UnbornIsBlank, TodoIsUntouched,
       CallsAreOnRecordings
<1>8. DeletesTheEnded'
    BY <1>0 DEF DeletesTheEnded, Ended, UnbornIsBlank, CallsAreOnRecordings, NoRow
<1>9. EndedIsSilenced'
    BY <1>0 DEF EndedIsSilenced, StopperSilences, Silenced, StartingOn, Ended,
       UnbornIsBlank, DownIsEmpty, TodoIsUntouched
<1>10. RowsConserved' BY <1>0 DEF RowsConserved, UnbornIsBlank, Exists, RecordingStatus
<1>11. CountIsTrue'
    BY <1>0 DEF CountIsTrue, UnbornIsBlank, BeginsAlone, TodoIsUntouched, Exists,
       RecordingStatus
<1> QED BY <1>1, <1>2, <1>3, <1>4, <1>5, <1>6, <1>7, <1>8, <1>9, <1>10, <1>11

\* The rest of _end
LEMMA EndArtefactsStep ==
    ASSUME IInv, NEW t \in Thread, EndArtefacts(t)
    PROVE  IInv'
<1> USE DEF IInv, EndArtefacts, At, StopRaises, Return, Call, Goto, AutoProcess, CrossIf
<1>0. rec[t] \in Recording BY DEF CallsAreOnRecordings
<1>1. TypeOK' BY <1>0 DEF RecordingStatus, NoRow, Artefacts, Entry, Op, Pc, Phase, Wpc
<1>2. CallsAreOnRecordings' BY <1>0 DEF CallsAreOnRecordings
<1>3. UnbornIsBlank' BY <1>0 DEF UnbornIsBlank, CallsAreOnRecordings
<1>4. DownIsEmpty' BY <1>0 DEF DownIsEmpty
<1>5. TodoIsUntouched'
    BY <1>0 DEF TodoIsUntouched, UnbornIsBlank, DownIsEmpty, CallsAreOnRecordings
<1>6. BeginsAlone'
    BY <1>0 DEF BeginsAlone, UnbornIsBlank, TodoIsUntouched, CallsAreOnRecordings
<1>7. StopperSilences'
    BY <1>0 DEF StopperSilences, Silenced, StartingOn, UnbornIsBlank, TodoIsUntouched,
       CallsAreOnRecordings
<1>8. DeletesTheEnded' BY <1>0 DEF DeletesTheEnded, Ended, UnbornIsBlank
<1>9. EndedIsSilenced'
    BY <1>0 DEF EndedIsSilenced, StopperSilences, Silenced, StartingOn, Ended,
       UnbornIsBlank, DownIsEmpty, TodoIsUntouched
<1>10. RowsConserved' BY <1>0 DEF RowsConserved, UnbornIsBlank, Exists, RecordingStatus
<1>11. CountIsTrue'
    BY <1>0 DEF CountIsTrue, UnbornIsBlank, BeginsAlone, TodoIsUntouched, Exists,
       RecordingStatus
<1> QED BY <1>1, <1>2, <1>3, <1>4, <1>5, <1>6, <1>7, <1>8, <1>9, <1>10, <1>11

\* The rest of _end
LEMMA EndStaleStep ==
    ASSUME IInv, NEW t \in Thread, EndStale(t)
    PROVE  IInv'
<1> USE DEF IInv, EndStale, At, UpdateArtefacts, StopRaises, Return, Call, AutoProcess,
            CrossIf
<1>0. rec[t] \in Recording BY DEF CallsAreOnRecordings
<1>1. TypeOK' BY <1>0 DEF RecordingStatus, NoRow, Artefacts, Entry, Op, Pc, Phase, Wpc
<1>2. CallsAreOnRecordings' BY <1>0 DEF CallsAreOnRecordings
<1>3. UnbornIsBlank' BY <1>0 DEF UnbornIsBlank, CallsAreOnRecordings
<1>4. DownIsEmpty' BY <1>0 DEF DownIsEmpty
<1>5. TodoIsUntouched'
    BY <1>0 DEF TodoIsUntouched, UnbornIsBlank, DownIsEmpty, CallsAreOnRecordings
<1>6. BeginsAlone'
    BY <1>0 DEF BeginsAlone, UnbornIsBlank, TodoIsUntouched, CallsAreOnRecordings
<1>7. StopperSilences'
    BY <1>0 DEF StopperSilences, Silenced, StartingOn, UnbornIsBlank, TodoIsUntouched,
       CallsAreOnRecordings
<1>8. DeletesTheEnded' BY <1>0 DEF DeletesTheEnded, Ended, UnbornIsBlank
<1>9. EndedIsSilenced'
    BY <1>0 DEF EndedIsSilenced, StopperSilences, Silenced, StartingOn, Ended,
       UnbornIsBlank, DownIsEmpty, TodoIsUntouched
<1>10. RowsConserved' BY <1>0 DEF RowsConserved, UnbornIsBlank, Exists, RecordingStatus
<1>11. CountIsTrue'
    BY <1>0 DEF CountIsTrue, UnbornIsBlank, BeginsAlone, TodoIsUntouched, Exists,
       RecordingStatus
<1> QED BY <1>1, <1>2, <1>3, <1>4, <1>5, <1>6, <1>7, <1>8, <1>9, <1>10, <1>11

\* A deletion is asked for, of what has ended
LEMMA DeleteStep ==
    ASSUME IInv, NEW t \in Thread, NEW r \in Recording, Delete(t, r)
    PROVE  IInv'
<1> USE DEF IInv, Delete, MayCall, Serving, InCall, Call
<1>1. TypeOK' BY DEF RecordingStatus, NoRow, Artefacts, Entry, Op, Pc, Phase, Wpc
<1>2. CallsAreOnRecordings' BY DEF CallsAreOnRecordings
<1>3. UnbornIsBlank' BY DEF UnbornIsBlank, Exists, RecordingStatus
<1>4. DownIsEmpty' BY DEF DownIsEmpty
<1>5. TodoIsUntouched'
    BY DEF TodoIsUntouched, UnbornIsBlank, DownIsEmpty, CallsAreOnRecordings
<1>6. BeginsAlone' BY DEF BeginsAlone, UnbornIsBlank, TodoIsUntouched, CallsAreOnRecordings
<1>7. StopperSilences'
    BY DEF StopperSilences, Silenced, StartingOn, UnbornIsBlank, TodoIsUntouched,
           CallsAreOnRecordings
<1>8. DeletesTheEnded'
    BY DEF DeletesTheEnded, Ended, UnbornIsBlank, CallsAreOnRecordings, Exists,
           RecordingStatus
<1>9. EndedIsSilenced'
    BY DEF EndedIsSilenced, StopperSilences, Silenced, StartingOn, Ended, UnbornIsBlank,
           DownIsEmpty, TodoIsUntouched
<1>10. RowsConserved' BY DEF RowsConserved, UnbornIsBlank, Exists, RecordingStatus
<1>11. CountIsTrue'
    BY DEF CountIsTrue, UnbornIsBlank, BeginsAlone, TodoIsUntouched, Exists, RecordingStatus
<1> QED BY <1>1, <1>2, <1>3, <1>4, <1>5, <1>6, <1>7, <1>8, <1>9, <1>10, <1>11

\* The files go
LEMMA DeleteFilesStep ==
    ASSUME IInv, NEW t \in Thread, DeleteFiles(t)
    PROVE  IInv'
<1> USE DEF IInv, DeleteFiles, At, Goto
<1>0. rec[t] \in Recording BY DEF CallsAreOnRecordings
<1>1. TypeOK' BY <1>0 DEF RecordingStatus, NoRow, Artefacts, Entry, Op, Pc, Phase, Wpc
<1>2. CallsAreOnRecordings' BY <1>0 DEF CallsAreOnRecordings
<1>3. UnbornIsBlank' BY <1>0 DEF UnbornIsBlank, CallsAreOnRecordings
<1>4. DownIsEmpty' BY <1>0 DEF DownIsEmpty
<1>5. TodoIsUntouched'
    BY <1>0 DEF TodoIsUntouched, UnbornIsBlank, DownIsEmpty, CallsAreOnRecordings
<1>6. BeginsAlone'
    BY <1>0 DEF BeginsAlone, UnbornIsBlank, TodoIsUntouched, CallsAreOnRecordings
<1>7. StopperSilences'
    BY <1>0 DEF StopperSilences, Silenced, StartingOn, UnbornIsBlank, TodoIsUntouched,
       CallsAreOnRecordings
<1>8. DeletesTheEnded' BY <1>0 DEF DeletesTheEnded, Ended, UnbornIsBlank
<1>9. EndedIsSilenced'
    BY <1>0 DEF EndedIsSilenced, StopperSilences, Silenced, StartingOn, Ended,
       UnbornIsBlank, DownIsEmpty, TodoIsUntouched
<1>10. RowsConserved' BY <1>0 DEF RowsConserved, UnbornIsBlank, Exists, RecordingStatus
<1>11. CountIsTrue'
    BY <1>0 DEF CountIsTrue, UnbornIsBlank, BeginsAlone, TodoIsUntouched, Exists,
       RecordingStatus
<1> QED BY <1>1, <1>2, <1>3, <1>4, <1>5, <1>6, <1>7, <1>8, <1>9, <1>10, <1>11

\* The row goes, with the rows of data
LEMMA DeleteRecordingStep ==
    ASSUME IInv, NEW t \in Thread, DeleteRecording(t)
    PROVE  IInv'
<1> USE DEF IInv, DeleteRecording, At, DeleteRow, Return, Call
<1>0. rec[t] \in Recording BY DEF CallsAreOnRecordings
<1>1. TypeOK' BY <1>0 DEF RecordingStatus, NoRow, Artefacts, Entry, Op, Pc, Phase, Wpc
<1>2. CallsAreOnRecordings' BY <1>0 DEF CallsAreOnRecordings
<1>3. UnbornIsBlank' BY <1>0 DEF UnbornIsBlank, CallsAreOnRecordings
<1>4. DownIsEmpty' BY <1>0 DEF DownIsEmpty
<1>5. TodoIsUntouched'
    BY <1>0 DEF TodoIsUntouched, UnbornIsBlank, DownIsEmpty, CallsAreOnRecordings
<1>6. BeginsAlone'
    BY <1>0 DEF BeginsAlone, UnbornIsBlank, TodoIsUntouched, CallsAreOnRecordings
<1>7. StopperSilences'
    BY <1>0 DEF StopperSilences, Silenced, StartingOn, UnbornIsBlank, TodoIsUntouched,
       CallsAreOnRecordings
<1>8. DeletesTheEnded' BY <1>0 DEF DeletesTheEnded, Ended, UnbornIsBlank, CallsAreOnRecordings
<1>9. EndedIsSilenced'
    BY <1>0 DEF DeletesTheEnded, EndedIsSilenced, Silenced, StartingOn, Ended
<1>10. RowsConserved' BY <1>0 DEF RowsConserved, UnbornIsBlank, Exists, RecordingStatus
<1>11. CountIsTrue'
    BY <1>0 DEF CountIsTrue, UnbornIsBlank, BeginsAlone, TodoIsUntouched, Exists,
       RecordingStatus
<1> QED BY <1>1, <1>2, <1>3, <1>4, <1>5, <1>6, <1>7, <1>8, <1>9, <1>10, <1>11

\* A power cut: what was buffered is lost, and known to be
LEMMA CrashStep ==
    ASSUME IInv, Crash
    PROVE  IInv'
<1> USE DEF IInv, Crash, Die, Zero
<1>1. TypeOK' BY DEF RecordingStatus, NoRow, Artefacts, Entry, Op, Pc, Phase, Wpc
<1>2. CallsAreOnRecordings' BY DEF CallsAreOnRecordings
<1>3. UnbornIsBlank' BY DEF UnbornIsBlank, CallsAreOnRecordings
<1>4. DownIsEmpty' BY DEF DownIsEmpty
<1>5. TodoIsUntouched'
    BY DEF TodoIsUntouched, UnbornIsBlank, DownIsEmpty, CallsAreOnRecordings
<1>6. BeginsAlone' BY DEF BeginsAlone, UnbornIsBlank, TodoIsUntouched, CallsAreOnRecordings
<1>7. StopperSilences'
    BY DEF StopperSilences, Silenced, StartingOn, UnbornIsBlank, TodoIsUntouched,
           CallsAreOnRecordings
<1>8. DeletesTheEnded' BY DEF DeletesTheEnded, Ended, UnbornIsBlank
<1>9. EndedIsSilenced'
    BY DEF EndedIsSilenced, StopperSilences, Silenced, StartingOn, Ended, UnbornIsBlank,
           DownIsEmpty, TodoIsUntouched
<1>10. RowsConserved' BY DEF RowsConserved, UnbornIsBlank, Exists, RecordingStatus
<1>11. CountIsTrue'
    BY DEF CountIsTrue, UnbornIsBlank, BeginsAlone, TodoIsUntouched, Exists, RecordingStatus
<1> QED BY <1>1, <1>2, <1>3, <1>4, <1>5, <1>6, <1>7, <1>8, <1>9, <1>10, <1>11

\* SIGTERM: Main drops what it was at
LEMMA SigTermStep ==
    ASSUME IInv, SigTerm
    PROVE  IInv'
<1> USE DEF IInv, SigTerm, Return, Call, Enabled
<1>1. TypeOK' BY DEF RecordingStatus, NoRow, Artefacts, Entry, Op, Pc, Phase, Wpc
<1>2. CallsAreOnRecordings' BY DEF CallsAreOnRecordings
<1>3. UnbornIsBlank' BY DEF UnbornIsBlank, CallsAreOnRecordings
<1>4. DownIsEmpty' BY DEF DownIsEmpty
<1>5. TodoIsUntouched'
    BY DEF TodoIsUntouched, UnbornIsBlank, DownIsEmpty, CallsAreOnRecordings
<1>6. BeginsAlone' BY DEF BeginsAlone, UnbornIsBlank, TodoIsUntouched, CallsAreOnRecordings
<1>7. StopperSilences'
    BY DEF StopperSilences, Silenced, StartingOn, UnbornIsBlank, TodoIsUntouched,
           CallsAreOnRecordings
<1>8. DeletesTheEnded' BY DEF DeletesTheEnded, Ended, UnbornIsBlank
<1>9. EndedIsSilenced'
    BY DEF EndedIsSilenced, StopperSilences, Silenced, StartingOn, Ended, UnbornIsBlank,
           DownIsEmpty, TodoIsUntouched
<1>10. RowsConserved' BY DEF RowsConserved, UnbornIsBlank, Exists, RecordingStatus
<1>11. CountIsTrue'
    BY DEF CountIsTrue, UnbornIsBlank, BeginsAlone, TodoIsUntouched, Exists, RecordingStatus
<1> QED BY <1>1, <1>2, <1>3, <1>4, <1>5, <1>6, <1>7, <1>8, <1>9, <1>10, <1>11

\* A loop of the shutdown takes its next recording
LEMMA MainLoopNextStep ==
    ASSUME IInv, NEW r \in Recording, MainLoopNext(r)
    PROVE  IInv'
<1> USE DEF IInv, MainLoopNext, InCall, Call
<1>1. TypeOK' BY DEF RecordingStatus, NoRow, Artefacts, Entry, Op, Pc, Phase, Wpc
<1>2. CallsAreOnRecordings' BY DEF CallsAreOnRecordings
<1>3. UnbornIsBlank' BY DEF UnbornIsBlank, CallsAreOnRecordings
<1>4. DownIsEmpty' BY DEF DownIsEmpty
<1>5. TodoIsUntouched'
    BY DEF TodoIsUntouched, UnbornIsBlank, DownIsEmpty, CallsAreOnRecordings
<1>6. BeginsAlone' BY DEF BeginsAlone, UnbornIsBlank, TodoIsUntouched, CallsAreOnRecordings
<1>7. StopperSilences'
    BY DEF StopperSilences, Silenced, StartingOn, UnbornIsBlank, TodoIsUntouched,
           CallsAreOnRecordings
<1>8. DeletesTheEnded' BY DEF DeletesTheEnded, Ended, UnbornIsBlank
<1>9. EndedIsSilenced'
    BY DEF EndedIsSilenced, StopperSilences, Silenced, StartingOn, Ended, UnbornIsBlank,
           DownIsEmpty, TodoIsUntouched
<1>10. RowsConserved' BY DEF RowsConserved, UnbornIsBlank, Exists, RecordingStatus
<1>11. CountIsTrue'
    BY DEF CountIsTrue, UnbornIsBlank, BeginsAlone, TodoIsUntouched, Exists, RecordingStatus
<1> QED BY <1>1, <1>2, <1>3, <1>4, <1>5, <1>6, <1>7, <1>8, <1>9, <1>10, <1>11

\* Suspend_all is through
LEMMA SuspendedStep ==
    ASSUME IInv, Suspended
    PROVE  IInv'
<1> USE DEF IInv, Suspended, InCall
<1>1. TypeOK' BY DEF RecordingStatus, NoRow, Artefacts, Entry, Op, Pc, Phase, Wpc
<1>2. CallsAreOnRecordings' BY DEF CallsAreOnRecordings
<1>3. UnbornIsBlank' BY DEF UnbornIsBlank, CallsAreOnRecordings
<1>4. DownIsEmpty' BY DEF DownIsEmpty
<1>5. TodoIsUntouched'
    BY DEF TodoIsUntouched, UnbornIsBlank, DownIsEmpty, CallsAreOnRecordings
<1>6. BeginsAlone' BY DEF BeginsAlone, UnbornIsBlank, TodoIsUntouched, CallsAreOnRecordings
<1>7. StopperSilences'
    BY DEF StopperSilences, Silenced, StartingOn, UnbornIsBlank, TodoIsUntouched,
           CallsAreOnRecordings
<1>8. DeletesTheEnded' BY DEF DeletesTheEnded, Ended, UnbornIsBlank
<1>9. EndedIsSilenced'
    BY DEF EndedIsSilenced, StopperSilences, Silenced, StartingOn, Ended, UnbornIsBlank,
           DownIsEmpty, TodoIsUntouched
<1>10. RowsConserved' BY DEF RowsConserved, UnbornIsBlank, Exists, RecordingStatus
<1>11. CountIsTrue'
    BY DEF CountIsTrue, UnbornIsBlank, BeginsAlone, TodoIsUntouched, Exists, RecordingStatus
<1> QED BY <1>1, <1>2, <1>3, <1>4, <1>5, <1>6, <1>7, <1>8, <1>9, <1>10, <1>11

\* Shutdown() raises
LEMMA ShutdownKeyErrorStep ==
    ASSUME IInv, ShutdownKeyError
    PROVE  IInv'
<1> USE DEF IInv, ShutdownKeyError, At, Return, Call
<1>1. TypeOK' BY DEF RecordingStatus, NoRow, Artefacts, Entry, Op, Pc, Phase, Wpc
<1>2. CallsAreOnRecordings' BY DEF CallsAreOnRecordings
<1>3. UnbornIsBlank' BY DEF UnbornIsBlank, CallsAreOnRecordings
<1>4. DownIsEmpty' BY DEF DownIsEmpty
<1>5. TodoIsUntouched'
    BY DEF TodoIsUntouched, UnbornIsBlank, DownIsEmpty, CallsAreOnRecordings
<1>6. BeginsAlone' BY DEF BeginsAlone, UnbornIsBlank, TodoIsUntouched, CallsAreOnRecordings
<1>7. StopperSilences'
    BY DEF StopperSilences, Silenced, StartingOn, UnbornIsBlank, TodoIsUntouched,
           CallsAreOnRecordings
<1>8. DeletesTheEnded' BY DEF DeletesTheEnded, Ended, UnbornIsBlank
<1>9. EndedIsSilenced'
    BY DEF EndedIsSilenced, StopperSilences, Silenced, StartingOn, Ended, UnbornIsBlank,
           DownIsEmpty, TodoIsUntouched
<1>10. RowsConserved' BY DEF RowsConserved, UnbornIsBlank, Exists, RecordingStatus
<1>11. CountIsTrue'
    BY DEF CountIsTrue, UnbornIsBlank, BeginsAlone, TodoIsUntouched, Exists, RecordingStatus
<1> QED BY <1>1, <1>2, <1>3, <1>4, <1>5, <1>6, <1>7, <1>8, <1>9, <1>10, <1>11

\* The last flush
LEMMA DisconnectStep ==
    ASSUME IInv, Disconnect
    PROVE  IInv'
<1> USE DEF IInv, Disconnect, InCall, FlushBuffer, AddMessagesBatch, Zero
<1>1. TypeOK' BY DEF RecordingStatus, NoRow, Artefacts, Entry, Op, Pc, Phase, Wpc
<1>2. CallsAreOnRecordings' BY DEF CallsAreOnRecordings
<1>3. UnbornIsBlank' BY DEF UnbornIsBlank, CallsAreOnRecordings
<1>4. DownIsEmpty' BY DEF DownIsEmpty
<1>5. TodoIsUntouched'
    BY DEF TodoIsUntouched, UnbornIsBlank, DownIsEmpty, CallsAreOnRecordings
<1>6. BeginsAlone' BY DEF BeginsAlone, UnbornIsBlank, TodoIsUntouched, CallsAreOnRecordings
<1>7. StopperSilences'
    BY DEF StopperSilences, Silenced, StartingOn, UnbornIsBlank, TodoIsUntouched,
           CallsAreOnRecordings
<1>8. DeletesTheEnded' BY DEF DeletesTheEnded, Ended, UnbornIsBlank
<1>9. EndedIsSilenced'
    BY DEF EndedIsSilenced, StopperSilences, Silenced, StartingOn, Ended, UnbornIsBlank,
           DownIsEmpty, TodoIsUntouched
<1>10. RowsConserved' BY DEF RowsConserved, UnbornIsBlank, Exists, RecordingStatus
<1>11. CountIsTrue'
    BY DEF CountIsTrue, UnbornIsBlank, BeginsAlone, TodoIsUntouched, Exists, RecordingStatus
<1> QED BY <1>1, <1>2, <1>3, <1>4, <1>5, <1>6, <1>7, <1>8, <1>9, <1>10, <1>11

\* The process ends
LEMMA ExitStep ==
    ASSUME IInv, Exit
    PROVE  IInv'
<1> USE DEF IInv, Exit, Die, Zero
<1>1. TypeOK' BY DEF RecordingStatus, NoRow, Artefacts, Entry, Op, Pc, Phase, Wpc
<1>2. CallsAreOnRecordings' BY DEF CallsAreOnRecordings
<1>3. UnbornIsBlank' BY DEF UnbornIsBlank, CallsAreOnRecordings
<1>4. DownIsEmpty' BY DEF DownIsEmpty
<1>5. TodoIsUntouched'
    BY DEF TodoIsUntouched, UnbornIsBlank, DownIsEmpty, CallsAreOnRecordings
<1>6. BeginsAlone' BY DEF BeginsAlone, UnbornIsBlank, TodoIsUntouched, CallsAreOnRecordings
<1>7. StopperSilences'
    BY DEF StopperSilences, Silenced, StartingOn, UnbornIsBlank, TodoIsUntouched,
           CallsAreOnRecordings
<1>8. DeletesTheEnded' BY DEF DeletesTheEnded, Ended, UnbornIsBlank
<1>9. EndedIsSilenced'
    BY DEF EndedIsSilenced, StopperSilences, Silenced, StartingOn, Ended, UnbornIsBlank,
           DownIsEmpty, TodoIsUntouched
<1>10. RowsConserved' BY DEF RowsConserved, UnbornIsBlank, Exists, RecordingStatus
<1>11. CountIsTrue'
    BY DEF CountIsTrue, UnbornIsBlank, BeginsAlone, TodoIsUntouched, Exists, RecordingStatus
<1> QED BY <1>1, <1>2, <1>3, <1>4, <1>5, <1>6, <1>7, <1>8, <1>9, <1>10, <1>11

\* Recovery ends some of the active recordings, and has the rest resumed
LEMMA RecoverStep ==
    ASSUME IInv, Recover
    PROVE  IInv'
<1> USE DEF IInv, Recover, ResetInterrupted
<1>1. TypeOK' BY DEF RecordingStatus, NoRow, Artefacts, Entry, Op, Pc, Phase, Wpc
<1>2. CallsAreOnRecordings' BY DEF CallsAreOnRecordings
<1>3. UnbornIsBlank' BY DEF UnbornIsBlank, CallsAreOnRecordings
<1>4. DownIsEmpty' BY DEF DownIsEmpty
<1>5. TodoIsUntouched'
    BY DEF TodoIsUntouched, UnbornIsBlank, DownIsEmpty, CallsAreOnRecordings
<1>6. BeginsAlone' BY DEF BeginsAlone, UnbornIsBlank, TodoIsUntouched, CallsAreOnRecordings
<1>7. StopperSilences'
    BY DEF StopperSilences, Silenced, StartingOn, UnbornIsBlank, TodoIsUntouched,
           CallsAreOnRecordings
<1>8. DeletesTheEnded' BY DEF DeletesTheEnded, Ended, UnbornIsBlank, DownIsEmpty
<1>9. EndedIsSilenced'
    BY DEF EndedIsSilenced, StopperSilences, Silenced, StartingOn, Ended, UnbornIsBlank,
           DownIsEmpty, TodoIsUntouched
<1>10. RowsConserved' BY DEF RowsConserved, UnbornIsBlank, Exists, RecordingStatus
<1>11. CountIsTrue'
    BY DEF CountIsTrue, UnbornIsBlank, BeginsAlone, TodoIsUntouched, Exists, RecordingStatus
<1> QED BY <1>1, <1>2, <1>3, <1>4, <1>5, <1>6, <1>7, <1>8, <1>9, <1>10, <1>11

\* One of them is passed over, ended or resumed
LEMMA ResumeNextStep ==
    ASSUME IInv, NEW r \in Recording, ResumeNext(r)
    PROVE  IInv'
<1> USE DEF IInv, ResumeNext, InCall, UpdateStatus, CrossIf, Call
<1>1. TypeOK' BY DEF RecordingStatus, NoRow, Artefacts, Entry, Op, Pc, Phase, Wpc
<1>2. CallsAreOnRecordings' BY DEF CallsAreOnRecordings
<1>3. UnbornIsBlank' BY DEF UnbornIsBlank, CallsAreOnRecordings
<1>4. DownIsEmpty' BY DEF DownIsEmpty
<1>5. TodoIsUntouched'
    BY DEF TodoIsUntouched, UnbornIsBlank, DownIsEmpty, CallsAreOnRecordings
<1>6. BeginsAlone' BY DEF BeginsAlone, UnbornIsBlank, TodoIsUntouched, CallsAreOnRecordings
<1>7. StopperSilences'
    BY DEF StopperSilences, Silenced, StartingOn, UnbornIsBlank, TodoIsUntouched,
           CallsAreOnRecordings
<1>8. DeletesTheEnded'
    BY DEF DeletesTheEnded, Ended, UnbornIsBlank, CallsAreOnRecordings, Exists,
           RecordingStatus
<1>9. EndedIsSilenced'
    BY DEF EndedIsSilenced, StopperSilences, Silenced, StartingOn, Ended, UnbornIsBlank,
           DownIsEmpty, TodoIsUntouched
<1>10. RowsConserved' BY DEF RowsConserved, UnbornIsBlank, Exists, RecordingStatus
<1>11. CountIsTrue'
    BY DEF CountIsTrue, UnbornIsBlank, BeginsAlone, TodoIsUntouched, Exists, RecordingStatus
<1> QED BY <1>1, <1>2, <1>3, <1>4, <1>5, <1>6, <1>7, <1>8, <1>9, <1>10, <1>11

\* The start of the service fails
LEMMA ResumeFailsStep ==
    ASSUME IInv, NEW r \in Recording, ResumeFails(r)
    PROVE  IInv'
<1> USE DEF IInv, ResumeFails, Die, Zero
<1>1. TypeOK' BY DEF RecordingStatus, NoRow, Artefacts, Entry, Op, Pc, Phase, Wpc
<1>2. CallsAreOnRecordings' BY DEF CallsAreOnRecordings
<1>3. UnbornIsBlank' BY DEF UnbornIsBlank, CallsAreOnRecordings
<1>4. DownIsEmpty' BY DEF DownIsEmpty
<1>5. TodoIsUntouched'
    BY DEF TodoIsUntouched, UnbornIsBlank, DownIsEmpty, CallsAreOnRecordings
<1>6. BeginsAlone' BY DEF BeginsAlone, UnbornIsBlank, TodoIsUntouched, CallsAreOnRecordings
<1>7. StopperSilences'
    BY DEF StopperSilences, Silenced, StartingOn, UnbornIsBlank, TodoIsUntouched,
           CallsAreOnRecordings
<1>8. DeletesTheEnded' BY DEF DeletesTheEnded, Ended, UnbornIsBlank
<1>9. EndedIsSilenced'
    BY DEF EndedIsSilenced, StopperSilences, Silenced, StartingOn, Ended, UnbornIsBlank,
           DownIsEmpty, TodoIsUntouched
<1>10. RowsConserved' BY DEF RowsConserved, UnbornIsBlank, Exists, RecordingStatus
<1>11. CountIsTrue'
    BY DEF CountIsTrue, UnbornIsBlank, BeginsAlone, TodoIsUntouched, Exists, RecordingStatus
<1> QED BY <1>1, <1>2, <1>3, <1>4, <1>5, <1>6, <1>7, <1>8, <1>9, <1>10, <1>11

\* The service is up
LEMMA UpStep ==
    ASSUME IInv, Up
    PROVE  IInv'
<1> USE DEF IInv, Up, InCall
<1>1. TypeOK' BY DEF RecordingStatus, NoRow, Artefacts, Entry, Op, Pc, Phase, Wpc
<1>2. CallsAreOnRecordings' BY DEF CallsAreOnRecordings
<1>3. UnbornIsBlank' BY DEF UnbornIsBlank, CallsAreOnRecordings
<1>4. DownIsEmpty' BY DEF DownIsEmpty
<1>5. TodoIsUntouched'
    BY DEF TodoIsUntouched, UnbornIsBlank, DownIsEmpty, CallsAreOnRecordings
<1>6. BeginsAlone' BY DEF BeginsAlone, UnbornIsBlank, TodoIsUntouched, CallsAreOnRecordings
<1>7. StopperSilences'
    BY DEF StopperSilences, Silenced, StartingOn, UnbornIsBlank, TodoIsUntouched,
           CallsAreOnRecordings
<1>8. DeletesTheEnded' BY DEF DeletesTheEnded, Ended, UnbornIsBlank
<1>9. EndedIsSilenced'
    BY DEF EndedIsSilenced, StopperSilences, Silenced, StartingOn, Ended, UnbornIsBlank,
           DownIsEmpty, TodoIsUntouched
<1>10. RowsConserved' BY DEF RowsConserved, UnbornIsBlank, Exists, RecordingStatus
<1>11. CountIsTrue'
    BY DEF CountIsTrue, UnbornIsBlank, BeginsAlone, TodoIsUntouched, Exists, RecordingStatus
<1> QED BY <1>1, <1>2, <1>3, <1>4, <1>5, <1>6, <1>7, <1>8, <1>9, <1>10, <1>11

\* A message puts rows in the buffer, and perhaps on to the table
LEMMA MessageStep ==
    ASSUME IInv, NEW hit \in SUBSET Recording, OnMessage(hit), UNCHANGED
           <<workerVars, mainVars, budgetVars>>
    PROVE  IInv'
<1> USE DEF IInv, OnMessage, AddMessagesBatch, Enabled
<1>1. TypeOK'
  <2>1. TypeOK BY DEF IInv
  <2>2. /\ stored \in [Recording -> Nat] /\ buffered \in [Recording -> Nat]
        /\ count \in [Recording -> Nat] /\ accepted \in [Recording -> Nat]
    BY <2>1 DEF TypeOK, DbTypeOK, RecorderTypeOK
  <2>3. stored' \in [Recording -> Nat] /\ buffered' \in [Recording -> Nat]
    <3>1. CASE UNCHANGED stored BY <2>2, <3>1
    <3>2. CASE \E flushed \in (SUBSET hit) \ {{}} :
                 /\ AddMessagesBatch([r \in Recording |->
                       IF r \in flushed THEN buffered[r] + 1 ELSE buffered[r]])
                 /\ buffered' = [r \in Recording |-> IF r \in hit \ flushed THEN 1 ELSE 0]
      <4>1. PICK flushed \in (SUBSET hit) \ {{}} :
                 /\ AddMessagesBatch([r \in Recording |->
                       IF r \in flushed THEN buffered[r] + 1 ELSE buffered[r]])
                 /\ buffered' = [r \in Recording |-> IF r \in hit \ flushed THEN 1 ELSE 0]
        BY <3>2
      <4>2. stored' = [r \in Recording |->
                         IF Exists(r)
                         THEN stored[r] + [q \in Recording |->
                                 IF q \in flushed THEN buffered[q] + 1 ELSE buffered[q]][r]
                         ELSE stored[r]]
        BY <4>1
      <4> QED BY <4>1, <4>2, <2>2
    <3> QED BY <3>1, <3>2
  <2>4. count' \in [Recording -> Nat] /\ accepted' \in [Recording -> Nat] BY <2>2
  <2> QED BY <2>1, <2>3, <2>4 DEF TypeOK, DbTypeOK, RecorderTypeOK, RecordingStatus, NoRow,
             Artefacts, Entry, Op, Pc, Phase, Wpc
<1>2. CallsAreOnRecordings' BY DEF CallsAreOnRecordings
<1>3. UnbornIsBlank' BY DEF UnbornIsBlank, CallsAreOnRecordings
<1>4. DownIsEmpty' BY DEF DownIsEmpty
<1>5. TodoIsUntouched'
    BY DEF TodoIsUntouched, UnbornIsBlank, DownIsEmpty, CallsAreOnRecordings
<1>6. BeginsAlone' BY DEF BeginsAlone, UnbornIsBlank, TodoIsUntouched, CallsAreOnRecordings
<1>7. StopperSilences'
    BY DEF StopperSilences, Silenced, StartingOn, UnbornIsBlank, TodoIsUntouched,
           CallsAreOnRecordings
<1>8. DeletesTheEnded' BY DEF DeletesTheEnded, Ended, UnbornIsBlank
<1>9. EndedIsSilenced'
    BY DEF EndedIsSilenced, StopperSilences, Silenced, StartingOn, Ended, UnbornIsBlank,
           DownIsEmpty, TodoIsUntouched
<1>10. RowsConserved' BY DEF RowsConserved, UnbornIsBlank, Exists, RecordingStatus
<1>11. CountIsTrue'
    BY DEF CountIsTrue, UnbornIsBlank, BeginsAlone, TodoIsUntouched, Exists, RecordingStatus
<1> QED BY <1>1, <1>2, <1>3, <1>4, <1>5, <1>6, <1>7, <1>8, <1>9, <1>10, <1>11

-----------------------------------------------------------------------------
(* The theorems                                                            *)

\* Every step preserves the inductive invariant
LEMMA NextIsInductive == IInv /\ [Next]_vars => IInv'
<1> SUFFICES ASSUME IInv, [Next]_vars PROVE IInv'
    OBVIOUS
<1>1. ASSUME NEW t \in Thread, ThreadStep(t) PROVE IInv'
    <2>1. CASE StopRecorderStep(t)
        BY <2>1, StopMarkStep, StopFlushStep, StopRemoveStep, StopRemoveKeyErrorStep
           DEF StopRecorderStep
    <2> QED BY <1>1, <2>1, BeginStep, EndStatusStep, EndArtefactsStep, EndStaleStep,
               DeleteFilesStep, DeleteRecordingStep DEF ThreadStep
<1>2. ASSUME NEW t \in Thread, NEW r \in Recording, Request(t, r) PROVE IInv'
    BY <1>2, StartStep, StopStep, DeleteStep DEF Request
<1>3. ASSUME NEW w \in Worker, WorkerStep(w) PROVE IInv'
    BY <1>3, WorkersStep
<1>4. ASSUME NEW r \in Recording, Reset(r) \/ \E w \in Worker : ProcessAsked(w, r)
      PROVE  IInv'
    BY <1>4, ArtefactsAskedStep
<1>5. CASE MainStep
    BY <1>5, SuspendedStep, ShutdownKeyErrorStep, DisconnectStep, ExitStep, RecoverStep,
       UpStep, MainLoopNextStep, ResumeNextStep, ResumeFailsStep DEF MainStep
<1>6. CASE World
    <2>1. CASE Message
        BY <2>1, MessageStep DEF Message
    <2> QED BY <1>6, <2>1, CrashStep, SigTermStep, LocksStep DEF World
<1>7. CASE UNCHANGED vars
    BY <1>7, FrameStep DEF IInv
<1> QED BY <1>1, <1>2, <1>3, <1>4, <1>5, <1>6, <1>7 DEF Next

\* The strengthening holds of every behaviour
LEMMA SpecIsInductive == Spec => []IInv
BY InitIsInductive, NextIsInductive, PTL DEF Spec

\* The state of the service, its threads and its database stays well typed
THEOREM TypeIsCorrect == Spec => []TypeOK
<1>1. IInv => TypeOK BY DEF IInv
<1> QED BY <1>1, SpecIsInductive, PTL

\* No message taken is lost or stored twice, whatever fails and whoever stops:
\* MessageBuffer and stop_recording (data_recorder.py)
THEOREM RowsAreConserved == Spec => []RowsConserved
<1>1. IInv => RowsConserved BY DEF IInv
<1> QED BY <1>1, SpecIsInductive, PTL

\* The counts kept in memory are the rows, across restarts (start_recording's
\* initial_count)
THEOREM CountsAreTrue == Spec => []CountIsTrue
<1>1. IInv => CountIsTrue BY DEF IInv
<1> QED BY <1>1, SpecIsInductive, PTL

\* A recording that has ended takes no more messages, unless it was ended
\* before the recorder had taken it up
THEOREM EndedStaysSilent == Spec => []SilentOnceEnded
<1>1. IInv => SilentOnceEnded
    BY DEF IInv, EndedIsSilenced, SilentOnceEnded, Silenced, Ended
<1> QED BY <1>1, SpecIsInductive, PTL
-----------------------------------------------------------------------------
(* Who is heard                                                            *)

\* Somebody asks for a start, a stop or a deletion
LEMMA AsksKeepHeard ==
    ASSUME IInv, HeardInv, NEW t \in Thread, NEW r \in Recording, Request(t, r)
    PROVE  HeardInv'
<1> USE DEF IInv, HeardInv, Op, Pc, Request, Start, Stop, Delete, CreateRow, MayCall,
            Serving, Call, InCall, Exists, RecordingStatus
<1>1. StopsEndThem' BY DEF StopsEndThem, CallsAreOnRecordings, DownIsEmpty
<1>2. ActiveIsAttended'
    BY DEF ActiveIsAttended, StopsEndThem, CallsAreOnRecordings, BeginsAlone, DownIsEmpty,
           UnbornIsBlank
<1> QED BY <1>1, <1>2

\* The recorder takes a recording up
LEMMA BeginKeepsHeard ==
    ASSUME IInv, HeardInv, NEW t \in Thread, Begin(t)
    PROVE  HeardInv'
<1> USE DEF IInv, HeardInv, Op, Pc, Begin, At, StartRecorder, Return, Call
<1>1. StopsEndThem' BY DEF StopsEndThem, CallsAreOnRecordings, DownIsEmpty
<1>2. ActiveIsAttended'
    BY DEF ActiveIsAttended, StopsEndThem, CallsAreOnRecordings, BeginsAlone, DownIsEmpty,
           UnbornIsBlank
<1> QED BY <1>1, <1>2

\* The first part of a stop
LEMMA StopMarkKeepsHeard ==
    ASSUME IInv, HeardInv, NEW t \in Thread, StopMark(t), UNCHANGED
           <<workerVars, mainVars, budgetVars>>
    PROVE  HeardInv'
<1> USE DEF IInv, HeardInv, Op, Pc, StopMark, At, ReturnTo, Goto, Return, Call
<1>1. StopsEndThem' BY DEF StopsEndThem, CallsAreOnRecordings, DownIsEmpty
<1>2. ActiveIsAttended'
    BY DEF ActiveIsAttended, StopsEndThem, CallsAreOnRecordings, BeginsAlone, DownIsEmpty,
           UnbornIsBlank
<1> QED BY <1>1, <1>2

\* The second
LEMMA StopFlushKeepsHeard ==
    ASSUME IInv, HeardInv, NEW t \in Thread, StopFlush(t), UNCHANGED
           <<workerVars, mainVars, budgetVars>>
    PROVE  HeardInv'
<1> USE DEF IInv, HeardInv, Op, Pc, StopFlush, At, Goto
<1>1. StopsEndThem' BY DEF StopsEndThem, CallsAreOnRecordings, DownIsEmpty
<1>2. ActiveIsAttended'
    BY DEF ActiveIsAttended, StopsEndThem, CallsAreOnRecordings, BeginsAlone, DownIsEmpty,
           UnbornIsBlank
<1> QED BY <1>1, <1>2

\* The third
LEMMA StopRemoveKeepsHeard ==
    ASSUME IInv, HeardInv, NEW t \in Thread, StopRemove(t), UNCHANGED
           <<workerVars, mainVars, budgetVars>>
    PROVE  HeardInv'
<1> USE DEF IInv, HeardInv, Op, Pc, StopRemove, At, ReturnTo, Goto, Return, Call
<1>1. StopsEndThem' BY DEF StopsEndThem, CallsAreOnRecordings, DownIsEmpty
<1>2. ActiveIsAttended'
    BY DEF ActiveIsAttended, StopsEndThem, CallsAreOnRecordings, BeginsAlone, DownIsEmpty,
           UnbornIsBlank
<1> QED BY <1>1, <1>2

\* The third, beaten by another's
LEMMA KeyErrorKeepsHeard ==
    ASSUME IInv, HeardInv, NEW t \in Thread, StopRemoveKeyError(t), UNCHANGED
           <<workerVars, mainVars, budgetVars>>
    PROVE  HeardInv'
<1> USE DEF IInv, HeardInv, Op, Pc, StopRemoveKeyError, At, Return, Call
<1>1. StopsEndThem' BY DEF StopsEndThem, CallsAreOnRecordings, DownIsEmpty
<1>2. ActiveIsAttended'
    BY DEF ActiveIsAttended, StopsEndThem, CallsAreOnRecordings, BeginsAlone, DownIsEmpty,
           UnbornIsBlank
<1> QED BY <1>1, <1>2

\* The status is written, or the stop raises
LEMMA EndStatusKeepsHeard ==
    ASSUME IInv, HeardInv, NEW t \in Thread, EndStatus(t)
    PROVE  HeardInv'
<1> USE DEF IInv, HeardInv, Op, Pc, EndStatus, At, UpdateStatus, StopRaises, Return, Call,
            Goto, Exists, RecordingStatus
<1>1. StopsEndThem' BY DEF StopsEndThem, CallsAreOnRecordings, DownIsEmpty
<1>2. ActiveIsAttended'
    BY DEF ActiveIsAttended, StopsEndThem, CallsAreOnRecordings, BeginsAlone, DownIsEmpty,
           UnbornIsBlank
<1> QED BY <1>1, <1>2

\* The rest of a stop, and a deletion
LEMMA EndingKeepsHeard ==
    ASSUME IInv, HeardInv, NEW t \in Thread, EndArtefacts(t) \/ EndStale(t) \/
           DeleteFiles(t) \/ DeleteRecording(t)
    PROVE  HeardInv'
<1> USE DEF IInv, HeardInv, Op, Pc, EndArtefacts, EndStale, DeleteFiles, DeleteRecording,
            DeleteRow, UpdateArtefacts, CrossIf, At, StopRaises, Return, Call, Goto
<1>1. StopsEndThem' BY DEF StopsEndThem, CallsAreOnRecordings, DownIsEmpty
<1>2. ActiveIsAttended'
    BY DEF ActiveIsAttended, StopsEndThem, CallsAreOnRecordings, BeginsAlone, DownIsEmpty,
           UnbornIsBlank
<1> QED BY <1>1, <1>2

\* The service goes down, in one way or another
LEMMA GoingDownKeepsHeard ==
    ASSUME IInv, HeardInv, Crash \/ SigTerm \/ Suspended \/ ShutdownKeyError \/ Disconnect
           \/ Exit \/ \E r \in Recording : MainLoopNext(r) \/ ResumeFails(r)
    PROVE  HeardInv'
<1> USE DEF IInv, HeardInv, Op, Pc, Crash, SigTerm, Suspended, ShutdownKeyError, Disconnect,
            Exit, MainLoopNext, ResumeFails, Die, Return, Call
<1>1. StopsEndThem' BY DEF StopsEndThem, CallsAreOnRecordings, DownIsEmpty
<1>2. ActiveIsAttended'
    BY DEF ActiveIsAttended, StopsEndThem, CallsAreOnRecordings, BeginsAlone, DownIsEmpty,
           UnbornIsBlank
<1> QED BY <1>1, <1>2

\* Recovery
LEMMA RecoverKeepsHeard ==
    ASSUME IInv, HeardInv, Recover
    PROVE  HeardInv'
<1> USE DEF IInv, HeardInv, Op, Pc, Recover
<1>1. StopsEndThem' BY DEF StopsEndThem, CallsAreOnRecordings, DownIsEmpty
<1>2. ActiveIsAttended'
    BY DEF ActiveIsAttended, StopsEndThem, CallsAreOnRecordings, BeginsAlone, DownIsEmpty,
           UnbornIsBlank
<1> QED BY <1>1, <1>2

\* A resume, and the end of them
LEMMA ResumeKeepsHeard ==
    ASSUME IInv, HeardInv, Up \/ \E r \in Recording : ResumeNext(r)
    PROVE  HeardInv'
<1> USE DEF IInv, HeardInv, Op, Pc, Up, ResumeNext, InCall, UpdateStatus, Call
<1>1. StopsEndThem' BY DEF StopsEndThem, CallsAreOnRecordings, DownIsEmpty
<1>2. ActiveIsAttended'
    <2>1. CASE Up
        <3>1. phase = "starting" /\ todo = {} /\ UNCHANGED <<status, entry, pc, rec, stopError>>
            BY <2>1
        <3> QED BY <3>1 DEF ActiveIsAttended
    <2>2. ASSUME NEW r \in Recording, ResumeNext(r) PROVE ActiveIsAttended'
        <3>1. phase = "starting" /\ pc[Main] = "idle" /\ r \in todo /\ todo' = todo \ {r}
            BY <2>2 DEF CallsAreOnRecordings
        <3>2. UNCHANGED <<phase, entry, stopError>>
            BY <2>2
        <3>3. \A t \in Thread : rec[t] # NoRec => t # Main
            BY <3>1 DEF CallsAreOnRecordings
        <3>4. CASE UNCHANGED <<pc, rec>> /\ status'[r] # "active" /\ \A q \in Recording \ {r} : status'[q] = status[q]
            BY <3>1, <3>2, <3>4 DEF ActiveIsAttended
        <3>5. CASE Call(Main, "resume", r, "begin") /\ UNCHANGED status
            BY <3>1, <3>2, <3>5 DEF ActiveIsAttended
        <3>6. \/ UNCHANGED <<pc, rec, status>> /\ status[r] # "active"
              \/ UNCHANGED <<pc, rec>> /\ status' = [status EXCEPT ![r] = "stopped"]
              \/ Call(Main, "resume", r, "begin") /\ UNCHANGED status
            <4>1. CASE status[r] # "active" /\ UNCHANGED <<dbVars, threadVars>>
                BY <4>1
            <4>2. CASE status[r] = "active" /\ UpdateStatus(r, "stopped", Recovery) /\ UNCHANGED threadVars
                BY <4>2 DEF Exists, RecordingStatus
            <4>3. CASE Call(Main, "resume", r, "begin") /\ UNCHANGED dbVars
                BY <4>3
            <4> QED BY <2>2, <4>1, <4>2, <4>3
        <3> QED BY <3>4, <3>5, <3>6
    <2> QED BY <2>1, <2>2
<1> QED BY <1>1, <1>2

\* What touches neither statuses, entries, calls nor main's loop
LEMMA FrameKeepsHeard ==
    ASSUME HeardInv, UNCHANGED <<status, entry, threadVars, mainVars, stopError>>
    PROVE  HeardInv'
BY DEF HeardInv, StopsEndThem, ActiveIsAttended

LEMMA NextKeepsHeard == IInv /\ HeardInv /\ [Next]_vars => HeardInv'
<1> SUFFICES ASSUME IInv, HeardInv, [Next]_vars PROVE HeardInv'
    OBVIOUS
<1>1. ASSUME NEW t \in Thread, ThreadStep(t) PROVE HeardInv'
    <2>1. CASE StopRecorderStep(t)
        BY <2>1, StopMarkKeepsHeard, StopFlushKeepsHeard, StopRemoveKeepsHeard,
           KeyErrorKeepsHeard DEF StopRecorderStep
    <2> QED BY <1>1, <2>1, BeginKeepsHeard, EndStatusKeepsHeard, EndingKeepsHeard DEF
               ThreadStep
<1>2. ASSUME NEW t \in Thread, NEW r \in Recording, Request(t, r) PROVE HeardInv'
    BY <1>2, AsksKeepHeard
<1>3. ASSUME NEW w \in Worker, WorkerStep(w) PROVE HeardInv'
    BY <1>3, FrameKeepsHeard DEF WorkerStep, ProcessBegin, ProcessDraw, ProcessEnd
<1>4. ASSUME NEW r \in Recording, Reset(r) \/ \E w \in Worker : ProcessAsked(w, r)
      PROVE  HeardInv'
    BY <1>4, FrameKeepsHeard DEF Reset, ProcessAsked
<1>5. CASE MainStep
    BY <1>5, GoingDownKeepsHeard, RecoverKeepsHeard, ResumeKeepsHeard DEF MainStep
<1>6. CASE Message \/ Lock \/ Unlock
    BY <1>6, FrameKeepsHeard DEF Message, OnMessage, Lock, Unlock
<1>7. CASE UNCHANGED vars
    BY <1>7, FrameKeepsHeard
<1> QED BY <1>1, <1>2, <1>3, <1>4, <1>5, <1>6, <1>7, GoingDownKeepsHeard DEF Next, World

\* What the database calls active the recorder records, while the service is up
\* and nobody is at it, unless a stop of it raised (recording_service.py, main.py)
THEOREM ActiveStaysHeard == Spec => []ActiveIsHeard
<1>1. Init => HeardInv
    BY DEF Init, RecorderInit, HeardInv, StopsEndThem, ActiveIsAttended
<1>2. IInv /\ HeardInv => ActiveIsHeard
    BY DEF HeardInv, ActiveIsAttended, ActiveIsHeard, IInv
<1> QED BY InitIsInductive, NextIsInductive, NextKeepsHeard, <1>1, <1>2, PTL DEF Spec

-----------------------------------------------------------------------------
(* What is drawn, where the database never locks                           *)

\* A step that neither draws nor ends a drawing, and changes no recording's
\* status, artefacts or plots, leaves the drawings as they were: a stop may get
\* to where its artefacts are looked at, or be called
LEMMA DrawingsAsTheyWere ==
    ASSUME IInv, CalmInv,
           UNCHANGED <<status, artefacts, stored, early, phase, workerVars>>,
           \A t \in Thread : pc[t] \in {"artefacts", "stale"} =>
                                 pc'[t] = pc[t] /\ rec'[t] = rec[t]
    PROVE  WorkersHaveOne' /\ DrawnIsWhole' /\ ProcessingHasWorker'
<1> USE DEF IInv, CalmInv
<1>1. WorkersHaveOne'
    BY DEF WorkersHaveOne
<1>2. DrawnIsWhole'
    BY DEF DrawnIsWhole, EndingAt, ReadBySome
<1>3. ProcessingHasWorker'
    BY DEF ProcessingHasWorker, DrawnBySome, Exists
<1> QED BY <1>1, <1>2, <1>3

\* What is asked for
LEMMA AsksKeepCalm ==
    ASSUME NoLocks, IInv, CalmInv,
           NEW t \in Thread, NEW r \in Recording, Request(t, r)
    PROVE  CalmInv'
<1> USE DEF IInv, CalmInv, Op, Pc, Request, Start, Stop, Delete, MayCall, CreateRow, Call,
            InCall
<1>1. ~locked'
    OBVIOUS
<1>2. RowsAreSaved'
    BY DEF RowsAreSaved, UnbornIsBlank, CallsAreOnRecordings, Ended
<1>3. StopHasEnded'
    BY DEF StopHasEnded, Ended, CallsAreOnRecordings
<1>4. StopsNoFailed'
    BY DEF StopsNoFailed, CallsAreOnRecordings
<1>5. WorkersHaveOne'
    BY DEF WorkersHaveOne
<1>6. DrawnIsWhole'
    BY DEF DrawnIsWhole, EndingAt, ReadBySome, CallsAreOnRecordings
<1>7. ProcessingHasWorker'
    BY DEF ProcessingHasWorker, DrawnBySome, Exists, RecordingStatus, NoRow, WorkersHaveOne
<1> QED BY <1>1, <1>2, <1>3, <1>4, <1>5, <1>6, <1>7

\* The recorder takes a recording up, which nobody has ended
LEMMA BeginKeepsCalm ==
    ASSUME NoLocks, IInv, CalmInv,
           NEW t \in Thread, Begin(t)
    PROVE  CalmInv'
<1> USE DEF IInv, CalmInv, Op, Pc, Begin, At, StartRecorder, Call, Return
<1>1. ~locked' /\ RowsAreSaved' /\ StopHasEnded' /\ StopsNoFailed'
    BY DEF RowsAreSaved, StopHasEnded, StopsNoFailed
<1>2. WorkersHaveOne' /\ DrawnIsWhole' /\ ProcessingHasWorker'
    BY DrawingsAsTheyWere
<1> QED BY <1>1, <1>2

\* A stop begins: the recorder does not have it, or is told
LEMMA StopMarkKeepsCalm ==
    ASSUME NoLocks, IInv, CalmInv,
           NEW t \in Thread, StopMark(t), UNCHANGED <<workerVars, mainVars, budgetVars>>
    PROVE  CalmInv'
<1> USE DEF IInv, CalmInv, Op, Pc, StopMark, At, ReturnTo, Goto, Return, Call
<1>1. ~locked' /\ StopHasEnded' /\ StopsNoFailed'
    BY DEF StopHasEnded, StopsNoFailed
<1>2. RowsAreSaved'
    BY DEF RowsAreSaved, StartingOn, CallsAreOnRecordings
<1>3. WorkersHaveOne' /\ ProcessingHasWorker'
    BY DEF WorkersHaveOne, ProcessingHasWorker, DrawnBySome, Exists
<1>4. DrawnIsWhole'
    BY DEF DrawnIsWhole, EndingAt, ReadBySome
<1> QED BY <1>1, <1>2, <1>3, <1>4

\* A stop takes the entry out, or finds it gone
LEMMA StopRemoveKeepsCalm ==
    ASSUME NoLocks, IInv, CalmInv,
           NEW t \in Thread, StopRemove(t) \/ StopRemoveKeyError(t), UNCHANGED <<workerVars, mainVars, budgetVars>>
    PROVE  CalmInv'
<1> USE DEF IInv, CalmInv, Op, Pc, StopRemove, StopRemoveKeyError, At, ReturnTo, Goto,
            Return, Call
<1>1. ~locked' /\ RowsAreSaved' /\ StopHasEnded' /\ StopsNoFailed'
    BY DEF RowsAreSaved, StopHasEnded, StopsNoFailed
<1>2. WorkersHaveOne' /\ DrawnIsWhole' /\ ProcessingHasWorker'
    BY DrawingsAsTheyWere
<1> QED BY <1>1, <1>2

\* The status is written, and the artefacts have still to be looked at
LEMMA EndStatusKeepsCalm ==
    ASSUME NoLocks, IInv, CalmInv,
           NEW t \in Thread, EndStatus(t)
    PROVE  CalmInv'
<1> USE DEF IInv, CalmInv, Op, Pc, EndStatus, At, UpdateStatus, Exists, RecordingStatus,
            NoRow, StopRaises, Goto, Return, Call
<1>1. ~locked'
    OBVIOUS
<1>2. RowsAreSaved'
    BY DEF RowsAreSaved, Ended
<1>3. StopHasEnded'
    BY DEF StopHasEnded, StopsNoFailed, Ended, CallsAreOnRecordings, UnbornIsBlank
<1>4. StopsNoFailed'
    BY DEF StopsNoFailed, CallsAreOnRecordings
<1>5. WorkersHaveOne'
    BY DEF WorkersHaveOne
<1>6. DrawnIsWhole'
    BY DEF DrawnIsWhole, EndingAt, ReadBySome
<1>7. ProcessingHasWorker'
    BY DEF ProcessingHasWorker, DrawnBySome, DownIsEmpty
<1> QED BY <1>1, <1>2, <1>3, <1>4, <1>5, <1>6, <1>7

\* The artefacts are looked at: a drawing that has read already is noted
LEMMA EndArtefactsKeepsCalm ==
    ASSUME NoLocks, IInv, CalmInv,
           NEW t \in Thread, EndArtefacts(t)
    PROVE  CalmInv'
<1> USE DEF IInv, CalmInv, Op, Pc, EndArtefacts, At, StopRaises, AutoProcess, CrossIf,
            Crosses, Goto, Return, Call
<1>1. ~locked' /\ RowsAreSaved' /\ StopHasEnded' /\ StopsNoFailed'
    BY DEF RowsAreSaved, StopHasEnded, StopsNoFailed
<1>2. WorkersHaveOne'
    BY DEF WorkersHaveOne, StopHasEnded, CallsAreOnRecordings, Ended, DownIsEmpty
<1>3. DrawnIsWhole'
    BY DEF DrawnIsWhole, EndingAt, ReadBySome, Exists, RecordingStatus
<1>4. ProcessingHasWorker'
    BY DEF ProcessingHasWorker, DrawnBySome, Exists, DownIsEmpty, WorkersHaveOne
<1> QED BY <1>1, <1>2, <1>3, <1>4

\* The artefacts are called stale
LEMMA EndStaleKeepsCalm ==
    ASSUME NoLocks, IInv, CalmInv,
           NEW t \in Thread, EndStale(t)
    PROVE  CalmInv'
<1> USE DEF IInv, CalmInv, Op, Pc, EndStale, At, UpdateArtefacts, StopRaises, AutoProcess,
            CrossIf, Crosses, Return, Call
<1>1. ~locked' /\ RowsAreSaved' /\ StopHasEnded' /\ StopsNoFailed'
    BY DEF RowsAreSaved, StopHasEnded, StopsNoFailed
<1>2. WorkersHaveOne'
    BY DEF WorkersHaveOne, StopHasEnded, CallsAreOnRecordings, Ended, DownIsEmpty
<1>3. DrawnIsWhole'
    BY DEF DrawnIsWhole, EndingAt, ReadBySome, Exists, RecordingStatus
<1>4. ProcessingHasWorker'
    BY DEF ProcessingHasWorker, DrawnBySome, Exists, DownIsEmpty, WorkersHaveOne
<1> QED BY <1>1, <1>2, <1>3, <1>4

\* A deletion: files, and rows
LEMMA DeletingKeepsCalm ==
    ASSUME NoLocks, IInv, CalmInv,
           NEW t \in Thread, DeleteFiles(t) \/ DeleteRecording(t)
    PROVE  CalmInv'
<1> USE DEF IInv, CalmInv, Op, Pc, DeleteFiles, DeleteRecording, DeleteRow, At, Goto,
            Return, Call
<1>1. ~locked'
    OBVIOUS
<1>2. RowsAreSaved'
    BY DEF RowsAreSaved, DeletesTheEnded
<1>3. StopHasEnded'
    BY DEF StopHasEnded, Ended, CallsAreOnRecordings
<1>4. StopsNoFailed'
    BY DEF StopsNoFailed, CallsAreOnRecordings
<1>5. WorkersHaveOne'
    BY DEF WorkersHaveOne
<1>6. DrawnIsWhole'
    BY DEF DrawnIsWhole, EndingAt, ReadBySome
<1>7. ProcessingHasWorker'
    BY DEF ProcessingHasWorker, DrawnBySome, Exists, RecordingStatus, DownIsEmpty
<1> QED BY <1>1, <1>2, <1>3, <1>4, <1>5, <1>6, <1>7

\* A drawing is asked for, of anything there is
LEMMA ProcessAskedKeepsCalm ==
    ASSUME NoLocks, IInv, CalmInv,
           NEW w \in Worker, NEW r \in Recording, ProcessAsked(w, r)
    PROVE  CalmInv'
<1> USE DEF IInv, CalmInv, Op, Pc, ProcessAsked
<1>1. ~locked' /\ RowsAreSaved' /\ StopHasEnded' /\ StopsNoFailed'
    BY DEF RowsAreSaved, StopHasEnded, StopsNoFailed
<1>2. WorkersHaveOne'
    BY DEF WorkersHaveOne, Serving
<1>3. DrawnIsWhole'
    BY DEF DrawnIsWhole, EndingAt, ReadBySome
<1>4. ProcessingHasWorker'
    BY DEF ProcessingHasWorker, DrawnBySome, Exists
<1> QED BY <1>1, <1>2, <1>3, <1>4

\* A drawing begins
LEMMA ProcessBeginKeepsCalm ==
    ASSUME NoLocks, IInv, CalmInv,
           NEW w \in Worker, ProcessBegin(w)
    PROVE  CalmInv'
<1> USE DEF IInv, CalmInv, Op, Pc, ProcessBegin, WorkerGoto, UpdateArtefacts, Exists
<1>1. ~locked' /\ RowsAreSaved' /\ StopHasEnded' /\ StopsNoFailed'
    BY DEF RowsAreSaved, StopHasEnded, StopsNoFailed
<1>2. WorkersHaveOne'
    BY DEF WorkersHaveOne
<1>3. DrawnIsWhole'
    BY DEF DrawnIsWhole, EndingAt, ReadBySome, WorkersHaveOne, RecordingStatus
<1>4. ProcessingHasWorker'
    BY DEF ProcessingHasWorker, DrawnBySome, WorkersHaveOne
<1> QED BY <1>1, <1>2, <1>3, <1>4

\* A drawing replaces the plots, with all there is of what has ended
LEMMA ProcessDrawKeepsCalm ==
    ASSUME NoLocks, IInv, CalmInv,
           NEW w \in Worker, ProcessDraw(w)
    PROVE  CalmInv'
<1> USE DEF IInv, CalmInv, Op, Pc, ProcessDraw, WorkerGoto
<1>0. wrec[w] \in Recording
    BY DEF WorkersHaveOne
<1>1. ~locked' /\ RowsAreSaved' /\ StopHasEnded' /\ StopsNoFailed'
    BY DEF RowsAreSaved, StopHasEnded, StopsNoFailed
<1>2. WorkersHaveOne'
    BY <1>0 DEF WorkersHaveOne
<1>3. DrawnIsWhole'
    BY <1>0 DEF DrawnIsWhole, EndingAt, ReadBySome, RowsAreSaved, Ended
<1>4. ProcessingHasWorker'
    BY <1>0 DEF ProcessingHasWorker, DrawnBySome, WorkersHaveOne, Exists
<1> QED BY <1>1, <1>2, <1>3, <1>4

\* A drawing ends
LEMMA ProcessEndKeepsCalm ==
    ASSUME NoLocks, IInv, CalmInv,
           NEW w \in Worker, ProcessEnd(w)
    PROVE  CalmInv'
<1> USE DEF IInv, CalmInv, Op, Pc, ProcessEnd, WorkerGoto, UpdateArtefacts, CrossIf
<1>0. wrec[w] \in Recording /\ ~locked
    BY DEF WorkersHaveOne
<1>1. ~locked' /\ RowsAreSaved' /\ StopHasEnded' /\ StopsNoFailed'
    BY DEF RowsAreSaved, StopHasEnded, StopsNoFailed
<1>2. WorkersHaveOne'
    BY <1>0 DEF WorkersHaveOne, Exists, RecordingStatus
<1>3. DrawnIsWhole'
    BY <1>0 DEF DrawnIsWhole, EndingAt, ReadBySome
<1>4. ProcessingHasWorker'
    BY <1>0 DEF ProcessingHasWorker, DrawnBySome, WorkersHaveOne, Exists
<1> QED BY <1>1, <1>2, <1>3, <1>4

\* A failed drawing is put back
LEMMA ResetKeepsCalm ==
    ASSUME NoLocks, IInv, CalmInv,
           NEW r \in Recording, Reset(r)
    PROVE  CalmInv'
<1> USE DEF IInv, CalmInv, Op, Pc, Reset, UpdateArtefacts, Exists
<1>1. ~locked' /\ RowsAreSaved' /\ StopHasEnded' /\ StopsNoFailed'
    BY DEF RowsAreSaved, StopHasEnded, StopsNoFailed
<1>2. WorkersHaveOne'
    BY DEF WorkersHaveOne
<1>3. DrawnIsWhole'
    BY DEF DrawnIsWhole, EndingAt, ReadBySome
<1>4. ProcessingHasWorker'
    BY DEF ProcessingHasWorker, DrawnBySome
<1> QED BY <1>1, <1>2, <1>3, <1>4

\* The process is gone, and what was in memory with it
LEMMA DieKeepsCalm ==
    ASSUME NoLocks, IInv, CalmInv,
           Die
    PROVE  CalmInv'
<1> USE DEF IInv, CalmInv, Op, Pc, Die
<1>1. ~locked' /\ StopHasEnded' /\ StopsNoFailed' /\ WorkersHaveOne'
    BY DEF StopHasEnded, StopsNoFailed, WorkersHaveOne
<1>2. RowsAreSaved'
    BY DEF RowsAreSaved, Zero
<1>3. DrawnIsWhole'
    BY DEF DrawnIsWhole, EndingAt, ReadBySome
<1>4. ProcessingHasWorker'
    BY DEF ProcessingHasWorker, Exists
<1> QED BY <1>1, <1>2, <1>3, <1>4

\* The shutdown goes through the recordings
LEMMA MainLoopKeepsCalm ==
    ASSUME NoLocks, IInv, CalmInv,
           SigTerm \/ Suspended \/ ShutdownKeyError \/ \E r \in Recording : MainLoopNext(r)
    PROVE  CalmInv'
<1> USE DEF IInv, CalmInv, Op, Pc, SigTerm, Suspended, ShutdownKeyError, MainLoopNext, At,
            Return, Call
<1>0. phase # "down" /\ phase' # "down"
    BY DEF DownIsEmpty, CallsAreOnRecordings
<1>1. ~locked' /\ RowsAreSaved' /\ StopHasEnded' /\ StopsNoFailed'
    BY DEF RowsAreSaved, StopHasEnded, StopsNoFailed
<1>2. WorkersHaveOne'
    BY <1>0 DEF WorkersHaveOne
<1>3. DrawnIsWhole'
    BY DEF DrawnIsWhole, EndingAt, ReadBySome, InCall, CallsAreOnRecordings, StopHasEnded
<1>4. ProcessingHasWorker'
    BY <1>0 DEF ProcessingHasWorker, DrawnBySome, Exists
<1> QED BY <1>1, <1>2, <1>3, <1>4

\* Recovery, which notes what it ends with plots of it drawn
LEMMA RecoverKeepsCalm ==
    ASSUME NoLocks, IInv, CalmInv,
           Recover
    PROVE  CalmInv'
<1> USE DEF IInv, CalmInv, Op, Pc, Recover, ResetInterrupted
<1>1. ~locked'
    OBVIOUS
<1>2. RowsAreSaved'
    BY DEF RowsAreSaved, DownIsEmpty
<1>3. StopHasEnded'
    BY DEF StopHasEnded, DownIsEmpty
<1>4. StopsNoFailed'
    BY DEF StopsNoFailed, DownIsEmpty, CallsAreOnRecordings
<1>5. WorkersHaveOne'
    BY DEF WorkersHaveOne
<1>6. DrawnIsWhole'
    BY DEF DrawnIsWhole, EndingAt, ReadBySome
<1>7. ProcessingHasWorker'
    BY DEF ProcessingHasWorker, Exists, RecordingStatus
<1> QED BY <1>1, <1>2, <1>3, <1>4, <1>5, <1>6, <1>7

\* A resume, and the end of them
LEMMA ResumeKeepsCalm ==
    ASSUME NoLocks, IInv, CalmInv,
           Up \/ \E r \in Recording : ResumeNext(r)
    PROVE  CalmInv'
<1> USE DEF IInv, CalmInv, Op, Pc, Up, ResumeNext, UpdateStatus, Exists, CrossIf, Call, InCall
<1>1. ~locked'
    OBVIOUS
<1>2. RowsAreSaved'
    BY DEF RowsAreSaved, TodoIsUntouched, Ended
<1>3. StopHasEnded'
    BY DEF StopHasEnded, Ended, CallsAreOnRecordings
<1>4. StopsNoFailed'
    BY DEF StopsNoFailed, CallsAreOnRecordings
<1>5. WorkersHaveOne'
    BY DEF WorkersHaveOne
<1>6. DrawnIsWhole'
    BY DEF DrawnIsWhole, EndingAt, ReadBySome, CallsAreOnRecordings
<1>7. ProcessingHasWorker'
    BY DEF ProcessingHasWorker, DrawnBySome, RecordingStatus
<1> QED BY <1>1, <1>2, <1>3, <1>4, <1>5, <1>6, <1>7

\* A flush stores everything: what a deletion would keep it from is empty
LEMMA FlushIsCalm ==
    ASSUME NoLocks, IInv, CalmInv, early = {}
    PROVE  ~FlushFails
BY DEF IInv, CalmInv, FlushFails, At, DeletesTheEnded, RowsAreSaved, CallsAreOnRecordings,
       Op, Pc

\* A flush, which changes nothing of what has ended
LEMMA FlushKeepsCalm ==
    ASSUME NoLocks, IInv, CalmInv, FlushBuffer,
           UNCHANGED <<status, artefacts, locked, entry, early, op, rec, workerVars>>,
           phase # "down", phase' # "down",
           \A t \in Thread : pc'[t] # pc[t] => pc[t] = "flush" /\ pc'[t] = "remove"
    PROVE  CalmInv'
<1> USE DEF IInv, CalmInv
<1>1. early = {} => stored' = [r \in Recording |-> IF Exists(r) THEN stored[r] + buffered[r] ELSE stored[r]] /\ buffered' = Zero
    BY FlushIsCalm DEF FlushBuffer, AddMessagesBatch
<1>2. RowsAreSaved'
    BY <1>1 DEF RowsAreSaved, Zero, CallsAreOnRecordings
<1>3. StopHasEnded'
    BY DEF StopHasEnded
<1>4. StopsNoFailed'
    BY DEF StopsNoFailed
<1>5. WorkersHaveOne' /\ ProcessingHasWorker' /\ ~locked'
    BY DEF WorkersHaveOne, ProcessingHasWorker, DrawnBySome, Exists
<1>6. DrawnIsWhole'
    <2>1. early = {} => \A r \in Recording :
              status[r] \in {"stopped", "failed"} => stored'[r] = stored[r]
        BY <1>1 DEF RowsAreSaved, Ended
    <2> QED BY <2>1 DEF DrawnIsWhole, EndingAt, ReadBySome
<1> QED BY <1>2, <1>3, <1>4, <1>5, <1>6

\* The flush of a stop
LEMMA StopFlushKeepsCalm ==
    ASSUME NoLocks, IInv, CalmInv,
           NEW t \in Thread, StopFlush(t), UNCHANGED <<workerVars, mainVars, budgetVars>>
    PROVE  CalmInv'
<1>1. UNCHANGED <<status, artefacts, locked, entry, early, op, rec, workerVars>> /\ FlushBuffer
    BY DEF StopFlush, Goto
<1>2. \A u \in Thread : pc'[u] # pc[u] => pc[u] = "flush" /\ pc'[u] = "remove"
    BY DEF StopFlush, Goto, At, IInv
<1>3. phase # "down" /\ phase' # "down"
    BY DEF StopFlush, At, IInv, DownIsEmpty
<1> QED BY <1>1, <1>2, <1>3, FlushKeepsCalm

\* disconnect flushes a last time
LEMMA DisconnectKeepsCalm ==
    ASSUME NoLocks, IInv, CalmInv, Disconnect
    PROVE  CalmInv'
<1>1. UNCHANGED <<status, artefacts, locked, entry, early, op, rec, pc, workerVars>> /\ FlushBuffer
      /\ phase # "down" /\ phase' # "down"
    BY DEF Disconnect
<1>2. \A t \in Thread : pc'[t] = pc[t]
    BY <1>1
<1> QED BY <1>1, <1>2, FlushKeepsCalm

\* A message goes to the recordings in progress, and a flush in the middle of
\* it stores what is buffered of any other
LEMMA MessageKeepsCalm ==
    ASSUME NoLocks, IInv, CalmInv, Message
    PROVE  CalmInv'
<1> USE DEF IInv, CalmInv
<1> PICK hit \in SUBSET Recording : OnMessage(hit)
    BY DEF Message
<1>0. UNCHANGED <<status, artefacts, locked, entry, early, op, rec, pc, workerVars, phase>>
    BY DEF OnMessage, Message
<1>1. hit \subseteq Enabled
    BY DEF OnMessage
<1>2. ASSUME early = {}, NEW r \in Recording \ hit
      PROVE  buffered'[r] \in {0, buffered[r]} /\ (buffered[r] = 0 => stored'[r] = stored[r])
    <2>1. CASE UNCHANGED stored
        BY <2>1 DEF OnMessage
    <2> QED BY DEF OnMessage, AddMessagesBatch
<1>3. ASSUME NEW r \in hit
      PROVE  entry[r] = "enabled" /\ (early = {} => status[r] \notin Ended)
    <2>1. r \in Recording /\ entry[r] = "enabled"
        BY <1>1 DEF Enabled
    <2> QED BY <2>1 DEF EndedIsSilenced, Silenced
<1>4. early = {} => \A t \in Thread : pc[t] \in {"remove", "status"} => rec[t] \in Recording \ hit
    BY <1>3 DEF StopperSilences, Silenced, CallsAreOnRecordings
<1>5. RowsAreSaved'
    BY <1>0, <1>2, <1>3, <1>4 DEF RowsAreSaved
<1>6. DrawnIsWhole'
    BY <1>0, <1>2, <1>3 DEF DrawnIsWhole, EndingAt, ReadBySome, RowsAreSaved, Ended
<1>7. StopHasEnded' /\ StopsNoFailed' /\ WorkersHaveOne' /\ ProcessingHasWorker' /\ ~locked'
    BY <1>0 DEF StopHasEnded, StopsNoFailed, WorkersHaveOne, ProcessingHasWorker, DrawnBySome,
       Exists
<1> QED BY <1>5, <1>6, <1>7

\* Every step
LEMMA NextKeepsCalm == NoLocks /\ IInv /\ CalmInv /\ [Next]_vars => CalmInv'
<1> SUFFICES ASSUME NoLocks, IInv, CalmInv, [Next]_vars PROVE CalmInv'
    OBVIOUS
<1>1. ASSUME NEW t \in Thread, ThreadStep(t) PROVE CalmInv'
    <2>1. CASE StopRecorderStep(t)
        BY <2>1, StopMarkKeepsCalm, StopFlushKeepsCalm, StopRemoveKeepsCalm DEF
           StopRecorderStep
    <2> QED BY <1>1, <2>1, BeginKeepsCalm, EndStatusKeepsCalm, EndArtefactsKeepsCalm,
               EndStaleKeepsCalm, DeletingKeepsCalm DEF ThreadStep
<1>2. ASSUME NEW t \in Thread, NEW r \in Recording, Request(t, r) PROVE CalmInv'
    BY <1>2, AsksKeepCalm
<1>3. ASSUME NEW w \in Worker, WorkerStep(w) PROVE CalmInv'
    BY <1>3, ProcessBeginKeepsCalm, ProcessDrawKeepsCalm, ProcessEndKeepsCalm DEF WorkerStep
<1>4. ASSUME NEW r \in Recording, Reset(r) \/ \E w \in Worker : ProcessAsked(w, r) PROVE CalmInv'
    BY <1>4, ResetKeepsCalm, ProcessAskedKeepsCalm
<1>5. CASE MainStep
    <2>1. CASE Exit \/ \E r \in Recording : ResumeFails(r)
        BY <2>1, DieKeepsCalm DEF Exit, ResumeFails
    <2>2. CASE Suspended \/ ShutdownKeyError \/ \E r \in Recording : MainLoopNext(r)
        BY <2>2, MainLoopKeepsCalm
    <2> QED BY <1>5, <2>1, <2>2, DisconnectKeepsCalm, RecoverKeepsCalm, ResumeKeepsCalm DEF
               MainStep
<1>6. CASE World
    <2>1. CASE Crash
        BY <2>1, DieKeepsCalm DEF Crash
    <2>2. ~Lock /\ ~Unlock
        BY DEF Lock, Unlock, NoLocks, IInv, CalmInv
    <2> QED BY <1>6, <2>1, <2>2, MainLoopKeepsCalm, MessageKeepsCalm DEF World
<1>7. CASE UNCHANGED vars
    BY <1>7, DrawingsAsTheyWere DEF CalmInv, RowsAreSaved, StopHasEnded, StopsNoFailed
<1> QED BY <1>1, <1>2, <1>3, <1>4, <1>5, <1>6, <1>7 DEF Next

\* At first nothing is recorded, or drawn
LEMMA InitIsCalm == Init => CalmInv
BY DEF Init, DbInit, RecorderInit, Zero, CalmInv, RowsAreSaved, StopHasEnded, StopsNoFailed,
       WorkersHaveOne, DrawnIsWhole, ProcessingHasWorker, Ended, Exists, RecordingStatus

\* Artefacts called fresh are of the whole recording, drawn in progress or not,
\* where the database never locks and its end has not missed the drawing
\* (recording_service.py, _end)
THEOREM FreshStaysWhole == NoLocks => (Spec => []FreshIsWhole)
<1> SUFFICES ASSUME NoLocks PROVE Spec => []FreshIsWhole
    OBVIOUS
<1>1. IInv /\ CalmInv /\ [Next]_vars => CalmInv'
    BY NextKeepsCalm
<1>2. CalmInv => FreshIsWhole
    BY DEF CalmInv, DrawnIsWhole, FreshIsWhole, EndingAt, ReadBySome
<1> QED BY InitIsInductive, NextIsInductive, InitIsCalm, <1>1, <1>2, PTL DEF Spec

\* There too, a stopped recording that says it is being drawn has a worker at
\* it (recovery_manager.py, reset of the interrupted)
THEOREM StoppedStaysAttended == NoLocks => (Spec => []StoppedHasNoOrphan)
<1> SUFFICES ASSUME NoLocks PROVE Spec => []StoppedHasNoOrphan
    OBVIOUS
<1>1. IInv /\ CalmInv /\ [Next]_vars => CalmInv'
    BY NextKeepsCalm
<1>2. CalmInv => StoppedHasNoOrphan
    BY DEF CalmInv, ProcessingHasWorker, StoppedHasNoOrphan, OrphanOf, DrawnBySome, Exists,
           RecordingStatus
<1> QED BY InitIsInductive, NextIsInductive, InitIsCalm, <1>1, <1>2, PTL DEF Spec

\* And what has stopped has all of its rows in the database (data_recorder.py,
\* stop_recording: "Flush buffer to ensure all messages saved")
THEOREM StoppedStaysSaved == NoLocks => (Spec => []StoppedIsSaved)
<1> SUFFICES ASSUME NoLocks PROVE Spec => []StoppedIsSaved
    OBVIOUS
<1>1. IInv /\ CalmInv /\ [Next]_vars => CalmInv'
    BY NextKeepsCalm
<1>2. CalmInv => StoppedIsSaved
    BY DEF CalmInv, RowsAreSaved, StoppedIsSaved, Ended
<1> QED BY InitIsInductive, NextIsInductive, InitIsCalm, <1>1, <1>2, PTL DEF Spec
=============================================================================
