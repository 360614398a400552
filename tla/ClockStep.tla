------------------------------ MODULE ClockStep ------------------------------
(***************************************************************************)
(* A clock put right under a recording (_check_for_clock_step in main.py,  *)
(* shift_recording_times in models.py), and the running summary that reads *)
(* the recording's fixes by their times (live_summary.py).                 *)
(*                                                                         *)
(* now is the time that passes, as the monotonic clock has it; offset is   *)
(* what the wall clock shows beyond it.  A row keeps when it was written   *)
(* beside the time it was written with, so that they can be compared.      *)
(***************************************************************************)
EXTENDS Integers, FiniteSets, Sequences, SequencesExt

CONSTANTS
    None,
    Offset,                         \* what the wall clock may be wrong by
    CLOCK_STEP_THRESHOLD_SECONDS,
    REFRESH_SECONDS,
    MaxNow, MaxFixes, MaxSteps, MaxRestarts     \* bounds

ASSUME ClockStepAssumption ==
    /\ None \notin Int /\ Offset \subseteq Nat
    /\ CLOCK_STEP_THRESHOLD_SECONDS \in Nat \ {0} /\ REFRESH_SECONDS \in Nat
    /\ MaxNow \in Nat /\ MaxFixes \in Nat /\ MaxSteps \in Nat /\ MaxRestarts \in Nat

VARIABLES
    now, offset,
    reference,  \* the offset as _clock_reference last had it
    due,        \* a step noticed and not yet put into the rows, or None
    rows,       \* the recording's stored fixes, as they were inserted
    buffer,     \* those still in memory
    ours,       \* the recording is of recordings_this_run
    summary,    \* after, refreshed, and the fixes walked over so far
    fixes, steps, restarts,
    slack,      \* history: what the steps too small to be noticed add up to
    astray      \* history: fixes no repair can be right about: written after a
                \*   step and before it was noticed, buffered while it was put
                \*   right, or stored between the notice and the repair

clockVars == <<now, offset, reference, due>>
rowVars == <<rows, buffer, ours, fixes, slack, astray>>
clockStepVars == <<clockVars, rowVars, summary, steps, restarts>>

NewSummary == [after |-> None, refreshed |-> None, walked |-> <<>>]

ClockStepInit ==
    /\ now = 0 /\ offset \in Offset /\ reference = offset /\ due = None
    /\ rows = <<>> /\ buffer = <<>> /\ ours = TRUE /\ fixes = 0 /\ slack = 0 /\ astray = {}
    /\ summary = NewSummary /\ steps = 0 /\ restarts = 0

Ids(some) == {some[i].fix : i \in DOMAIN some}

Passes ==
    /\ now < MaxNow /\ now' = now + 1
    /\ UNCHANGED <<offset, reference, due, rowVars, summary, steps, restarts>>

\* chrony sets the clock, from a GPS fix or the network
Steps ==
    /\ steps < MaxSteps /\ steps' = steps + 1
    /\ offset' \in Offset \ {offset}
    /\ UNCHANGED <<now, reference, due, rowVars, summary, restarts>>

-----------------------------------------------------------------------------
\* A fix, at most one at a time, goes to the buffer with the wall clock's time
Message ==
    /\ fixes < MaxFixes /\ fixes' = fixes + 1
    /\ \A r \in Range(rows) \cup Range(buffer) : r.written # now
    /\ buffer' = Append(buffer, [fix |-> fixes', written |-> now, stamp |-> now + offset])
    /\ astray' = IF offset = reference THEN astray ELSE astray \cup {fixes'}
    /\ UNCHANGED <<clockVars, rows, ours, slack, summary, steps, restarts>>

Flush ==
    /\ buffer # <<>>
    /\ rows' = rows \o buffer /\ buffer' = <<>>
    /\ astray' = IF due = None THEN astray ELSE astray \cup Ids(buffer)
    /\ UNCHANGED <<clockVars, ours, fixes, slack, summary, steps, restarts>>

Step == offset - reference
Small == Step < CLOCK_STEP_THRESHOLD_SECONDS /\ -Step < CLOCK_STEP_THRESHOLD_SECONDS

\* Mutant: the reference stays what it was at the start
LookKeepsReference ==
    /\ due = None
    /\ due' = IF Small THEN None ELSE Step
    /\ UNCHANGED <<now, offset, reference, rowVars, summary, steps, restarts>>

\* Each minute the two clocks are compared with what they were
Look ==
    /\ due = None
    /\ reference' = offset
    /\ due' = IF Small THEN None ELSE Step
    /\ slack' = IF ~Small THEN slack ELSE IF Step < 0 THEN slack - Step ELSE slack + Step
    /\ astray' = IF Step = 0 THEN astray ELSE astray \cup Ids(buffer)
    /\ UNCHANGED <<now, offset, rows, buffer, ours, fixes, summary, steps, restarts>>

\* Every row the recording has, if it was started by this process
Shift ==
    /\ due # None /\ due' = None
    /\ rows' = IF ours
               THEN [i \in DOMAIN rows |-> [rows[i] EXCEPT !.stamp = @ + due]]
               ELSE rows
    /\ UNCHANGED <<now, offset, reference, buffer, ours, fixes, slack, astray, summary, steps, restarts>>

-----------------------------------------------------------------------------
\* Fixes later than after, in the order of their times
Earlier(i, j) == rows[i].stamp < rows[j].stamp \/ (rows[i].stamp = rows[j].stamp /\ i < j)
PositionsSince(after) ==
    LET since == {i \in DOMAIN rows : after = None \/ rows[i].stamp > after}
        Place(i) == Cardinality({j \in since : Earlier(j, i)}) + 1
    IN [k \in 1..Cardinality(since) |-> rows[CHOOSE i \in since : Place(i) = k]]

\* Mutant: the next is to start at the time of this one
RefreshedFromNow(found) == now + offset

\* The time of the last fix read
RefreshedFrom(found) == IF found = <<>> THEN summary.after ELSE Last(found).stamp

\* The page and the status ask: what has come since the last look is added
Refresh ==
    /\ summary.refreshed # None => now - summary.refreshed >= REFRESH_SECONDS
    /\ LET found == PositionsSince(summary.after) IN
       summary' = [after |-> RefreshedFrom(found), refreshed |-> now,
                   walked |-> summary.walked \o [i \in DOMAIN found |-> found[i].fix]]
    /\ Len(summary'.walked) <= 2 * MaxFixes
    /\ UNCHANGED <<clockVars, rowVars, steps, restarts>>

-----------------------------------------------------------------------------
\* A power cut: the recording is resumed, the clock is what it is, the buffer
\* and the summary are gone.  It was not started by this process
Restart ==
    /\ restarts < MaxRestarts /\ restarts' = restarts + 1
    /\ offset' \in Offset /\ reference' = offset' /\ due' = None
    /\ buffer' = <<>> /\ ours' = FALSE /\ summary' = NewSummary
    /\ UNCHANGED <<now, rows, fixes, slack, astray, steps>>

ClockStepNext ==
    \/ Passes \/ Steps \/ Message \/ Flush \/ Look \/ Shift \/ Refresh \/ Restart

ClockStepSpec == ClockStepInit /\ [][ClockStepNext]_clockStepVars
-----------------------------------------------------------------------------
OnScale(r) == /\ r.stamp - r.written - reference <= slack
              /\ reference - (r.stamp - r.written) <= slack

\* A recording is on one timescale, the one the clock was last seen to be on,
\* whatever steps the clock made, but for what those below the threshold add
\* up to, which are put into no row, and for the fixes no repair can be right
\* about ("Shifting what was already written by the size of that step leaves
\* the whole recording on one timescale, rather than half in each")
OneTimescale ==
    ours /\ due = None => \A r \in Range(rows) : r.fix \notin astray => OnScale(r)

\* Where no clock stepped, the summary has walked over every stored fix it has
\* read exactly once, in the order they were taken, though they are stored in
\* batches behind the clock ("Each refresh reads only the fixes that arrived
\* since the last")
SummaryIsTheTrack ==
    steps = 0 /\ ours => summary.walked = SubSeq([i \in DOMAIN rows |-> rows[i].fix], 1, Len(summary.walked))

\* What is kept of a recording is of one clock, its rows and its running totals
\* (main.py:448, live_summary.py:81)
RowsAndTotalsAgree == OneTimescale /\ SummaryIsTheTrack

\* Neither is so otherwise: a recording resumed on a wrong clock is not moved,
\* and the fixes of one that is moved forward are walked over again
ResumedIsOnOneTimescale ==
    due = None => \A r \in Range(rows) : r.fix \notin astray => OnScale(r)
WalkedOnce == \A i, j \in DOMAIN summary.walked : summary.walked[i] = summary.walked[j] => i = j
===============================================================================
