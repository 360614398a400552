--------------------------- MODULE Recorder_proofs ---------------------------
(***************************************************************************)
(* What goes on around a recording: its fixes and its running totals while *)
(* the clock is put right under it (ClockStep), a file of it on its way to *)
(* WordPress (Uploads), what it hears (Subscriptions), and the database it *)
(* was left in by an older release (Migration).  Each is proved for any    *)
(* number of whatever it has.                                              *)
(***************************************************************************)
EXTENDS ClockStep, Uploads, Subscriptions, Migration,
        FiniteSetTheorems, SequenceTheorems, TLAPS

-----------------------------------------------------------------------------
(* ClockStep                                                               *)

\* A fix as it is buffered and stored
Fix == [fix : Nat, written : Nat, stamp : Int]

\* The types, which need that None is no number
ClockTypeOK ==
    /\ now \in Nat /\ offset \in Nat /\ reference \in Nat /\ due \in Int \cup {None}
    /\ rows \in Seq(Fix) /\ buffer \in Seq(Fix) /\ fixes \in Nat /\ ours \in BOOLEAN
    /\ slack \in Nat /\ steps \in Nat

\* The clock the stored fixes are on: before a step is put into them, the old one
RowsReference == IF due = None THEN reference ELSE reference - due
\* A fix on a clock, but for the steps too small to be noticed
Near(r, on) == r.stamp - r.written - on <= slack /\ on - (r.stamp - r.written) <= slack

\* Stored fixes are on the clock of before a step until it is put into them, and
\* those still in memory on the clock of after it
ScaleInv ==
    ours => /\ \A i \in DOMAIN rows : rows[i].fix \notin astray => Near(rows[i], RowsReference)
            /\ \A i \in DOMAIN buffer : buffer[i].fix \notin astray => Near(buffer[i], reference)

\* Where no clock stepped, fixes are in the order of their times
InOrder(some) ==
    /\ \A i \in DOMAIN some : some[i].written <= now /\ some[i].stamp = some[i].written + offset
    /\ \A i, j \in DOMAIN some : i < j => some[i].written < some[j].written

\* Where no clock stepped under it: the reference stands, what is stored and what
\* is buffered is in order, and the summary has read the first n rows
TrackInv ==
    steps = 0 /\ ours =>
        /\ offset = reference /\ due = None
        /\ InOrder(rows) /\ InOrder(buffer)
        /\ \A i \in DOMAIN rows, j \in DOMAIN buffer : rows[i].written < buffer[j].written
        /\ \E n \in 0..Len(rows) :
              /\ summary.walked = [i \in 1..n |-> rows[i].fix]
              /\ summary.after = IF n = 0 THEN None ELSE rows[n].stamp

\* What every step keeps
ClockInv == ClockTypeOK /\ ScaleInv /\ TrackInv

\* Where no clock stepped, what is read is every row not read yet, in its place
LEMMA ReadsTheRest ==
    ASSUME ClockTypeOK, InOrder(rows), NEW n \in 0..Len(rows), NEW after,
           after = IF n = 0 THEN None ELSE rows[n].stamp
    PROVE  PositionsSince(after) = [k \in 1..(Len(rows) - n) |-> rows[n + k]]
  <1> DEFINE since == {i \in DOMAIN rows : after = None \/ rows[i].stamp > after}
             Place(i) == Cardinality({j \in since : Earlier(j, i)}) + 1
  <1>1. /\ Len(rows) \in Nat /\ DOMAIN rows = 1..Len(rows) /\ n \in Nat /\ offset \in Nat
        /\ \A i \in 1..Len(rows) : rows[i] \in Fix
    BY DEF ClockTypeOK
  <1>2. \A i \in 1..Len(rows) : rows[i].stamp \in Int /\ rows[i].written \in Nat
    BY <1>1 DEF Fix
  <1>3. \A i, j \in 1..Len(rows) : rows[i].stamp < rows[j].stamp <=> i < j
    <2>1. ASSUME NEW i \in 1..Len(rows), NEW j \in 1..Len(rows)
          PROVE  /\ rows[i].stamp = rows[i].written + offset
                 /\ rows[j].stamp = rows[j].written + offset
                 /\ i < j => rows[i].written < rows[j].written
                 /\ j < i => rows[j].written < rows[i].written
      BY <1>1 DEF InOrder
    <2>2. ASSUME NEW i \in 1..Len(rows), NEW j \in 1..Len(rows)
          PROVE  rows[i].stamp < rows[j].stamp <=> i < j
      <3>1. i < j \/ i = j \/ j < i
        OBVIOUS
      <3> QED BY <1>1, <1>2, <2>1, <3>1
    <2> QED BY <2>2
  <1>4. since = (n + 1)..Len(rows)
    <2>1. CASE n = 0
      BY <1>1, <2>1
    <2>2. CASE n # 0
      <3>1. n \in 1..Len(rows) /\ after = rows[n].stamp /\ after # None
        BY <1>1, <1>2, <2>2, ClockStepAssumption
      <3>2. since = {i \in 1..Len(rows) : rows[i].stamp > rows[n].stamp}
        BY <1>1, <3>1
      <3>3. \A i \in 1..Len(rows) : rows[i].stamp > rows[n].stamp <=> n < i
        BY <1>2, <1>3, <3>1
      <3> QED BY <1>1, <3>1, <3>2, <3>3
    <2> QED BY <2>1, <2>2
  <1> HIDE DEF since
  <1>5. ASSUME NEW i \in since
        PROVE  Place(i) = i - n
    <2>1. i \in Int /\ i >= n + 1 /\ i <= Len(rows)
      BY <1>1, <1>4
    <2>2. \A j \in since : Earlier(j, i) <=> j < i
      BY <1>1, <1>2, <1>3, <1>4, <2>1 DEF Earlier
    <2>3. {j \in since : Earlier(j, i)} = (n + 1)..(i - 1)
      BY <1>1, <1>4, <2>1, <2>2
    <2>4. n + 1 \in Int /\ i - 1 \in Int
      BY <1>1, <2>1
    <2>5. Cardinality((n + 1)..(i - 1)) = IF n + 1 > i - 1 THEN 0 ELSE (i - 1) - (n + 1) + 1
      BY <2>4, FS_Interval
    <2>6. Cardinality((n + 1)..(i - 1)) = (i - n) - 1
      <3>1. (n + 1 > i - 1) <=> (i = n + 1)
        BY <1>1, <2>1
      <3> HIDE DEF Place
      <3> QED BY <1>1, <2>1, <2>5, <3>1
    <2>7. Cardinality({j \in since : Earlier(j, i)}) = (i - n) - 1
      BY <2>3, <2>6
    <2> QED BY <1>1, <2>1, <2>7
  <1>6. Cardinality(since) = Len(rows) - n
    <2>1. n + 1 \in Int /\ Len(rows) \in Int
      BY <1>1
    <2>2. Cardinality((n + 1)..Len(rows)) = IF n + 1 > Len(rows) THEN 0 ELSE Len(rows) - (n + 1) + 1
      BY <2>1, FS_Interval
    <2> QED BY <1>1, <1>4, <2>2
  <1>7. ASSUME NEW k \in 1..(Len(rows) - n)
        PROVE  (CHOOSE i \in since : Place(i) = k) = n + k
    <2> HIDE DEF Place
    <2>1. n + k \in since
      BY <1>1, <1>4
    <2>2. \A i \in since : i \in Int /\ (Place(i) = k <=> i = n + k)
      <3>1. ASSUME NEW i \in since
            PROVE  i \in Int /\ Place(i) = i - n
        BY <1>1, <1>4, <1>5
      <3> QED BY <1>1, <3>1
    <2> QED BY <2>1, <2>2
  <1>8. PositionsSince(after) =
          [k \in 1..Cardinality(since) |-> rows[CHOOSE i \in since : Place(i) = k]]
    BY DEF PositionsSince, since
  <1> HIDE DEF Place
  <1> QED BY <1>6, <1>7, <1>8

\* What Look measures: the wall clock against the monotonic one, of either sign
LEMMA StepIs ==
    ASSUME ClockTypeOK
    PROVE  Step \in Int /\ Step = offset - reference /\ (Step \in Nat \/ -Step \in Nat)
  BY DEF ClockTypeOK, Step

\* A fix at another time
LEMMA StampMoves ==
    ASSUME NEW r \in Fix, NEW by \in Int
    PROVE  LET new == [r EXCEPT !.stamp = @ + by]
           IN  /\ new \in Fix /\ new.fix = r.fix /\ new.written = r.written
               /\ new.stamp = r.stamp + by
  BY DEF Fix

\* What is put into the rows by Shift, and into the buffer by Message
LEMMA ShiftsRows ==
    ASSUME ClockTypeOK, Shift
    PROVE  /\ rows' \in Seq(Fix) /\ DOMAIN rows' = DOMAIN rows /\ due \in Int
           /\ \A i \in DOMAIN rows :
                 /\ rows'[i].fix = rows[i].fix /\ rows'[i].written = rows[i].written
                 /\ rows'[i].stamp = IF ours THEN rows[i].stamp + due ELSE rows[i].stamp
  <1>1. due \in Int /\ rows \in Seq(Fix)
    BY DEF ClockTypeOK, Shift
  <1>2. CASE ours
    <2> DEFINE new == [i \in DOMAIN rows |-> [rows[i] EXCEPT !.stamp = @ + due]]
    <2>1. rows' = new
      BY <1>2 DEF Shift
    <2>2. ASSUME NEW i \in DOMAIN rows
          PROVE  /\ new[i] \in Fix /\ new[i].fix = rows[i].fix /\ new[i].written = rows[i].written
                 /\ new[i].stamp = rows[i].stamp + due
      <3>1. rows[i] \in Fix
        BY <1>1
      <3> QED BY <1>1, <3>1, StampMoves
    <2>3. DOMAIN new = 1..Len(rows) /\ DOMAIN rows = 1..Len(rows) /\ Len(rows) \in Nat
      BY <1>1
    <2> HIDE DEF new
    <2>4. new = [i \in 1..Len(rows) |-> new[i]]
      BY <2>3 DEF new
    <2>5. new \in Seq(Fix)
      BY <2>2, <2>3, <2>4
    <2> QED BY <1>1, <1>2, <2>1, <2>2, <2>3, <2>5
  <1>3. CASE ~ours
    BY <1>1, <1>3 DEF Shift
  <1> QED BY <1>2, <1>3 DEF ClockTypeOK

\* What Message buffers is a fix, with the wall clock's time of now
LEMMA MessageIsFix ==
    ASSUME ClockTypeOK, Message
    PROVE  LET new == [fix |-> fixes', written |-> now, stamp |-> now + offset]
           IN  new \in Fix /\ buffer' = Append(buffer, new)
  BY DEF ClockTypeOK, Message, Fix

\* Every step keeps the types
LEMMA ClockTypeNext ==
    ASSUME ClockTypeOK, [ClockStepNext]_clockStepVars
    PROVE  ClockTypeOK'
  <1> USE DEF clockVars, rowVars
  <1>1. CASE UNCHANGED clockStepVars
    BY <1>1 DEF clockStepVars, ClockTypeOK
  <1>2. CASE Passes
    BY <1>2 DEF Passes, ClockTypeOK
  <1>3. CASE Steps
    BY <1>3, ClockStepAssumption DEF Steps, ClockTypeOK
  <1>4. CASE Message
    BY <1>4, MessageIsFix DEF Message, ClockTypeOK
  <1>5. CASE Flush
    BY <1>5 DEF Flush, ClockTypeOK
  <1>6. CASE Look
    <2>1. slack' \in Nat
      BY <1>6, StepIs DEF Look, ClockTypeOK
    <2>2. due' \in Int \cup {None}
      BY <1>6, StepIs DEF Look
    <2> QED BY <1>6, <2>1, <2>2 DEF Look, ClockTypeOK
  <1>7. CASE Shift
    BY <1>7, ShiftsRows DEF Shift, ClockTypeOK
  <1>8. CASE Refresh
    BY <1>8 DEF Refresh, ClockTypeOK
  <1>9. CASE Restart
    <2>1. offset' \in Nat /\ reference' \in Nat
      BY <1>9, ClockStepAssumption DEF Restart
    <2>2. buffer' \in Seq(Fix) /\ due' = None /\ ours' = FALSE
      BY <1>9 DEF Restart
    <2> QED BY <1>9, <2>1, <2>2 DEF Restart, ClockTypeOK
  <1> QED BY <1>1, <1>2, <1>3, <1>4, <1>5, <1>6, <1>7, <1>8, <1>9 DEF ClockStepNext

\* No step takes a fix off the clock its kind is on: Look moves the reference and
\* leaves the rows behind by due, and Shift brings them after it
LEMMA ScaleNext ==
    ASSUME ClockTypeOK, ScaleInv, [ClockStepNext]_clockStepVars
    PROVE  ScaleInv'
  <1> USE DEF clockVars, rowVars
  <1>0. /\ \A i \in DOMAIN rows : rows[i] \in Fix
        /\ \A i \in DOMAIN buffer : buffer[i] \in Fix
        /\ rows \in Seq(Fix) /\ buffer \in Seq(Fix)
    BY DEF ClockTypeOK
  <1>1. CASE UNCHANGED clockStepVars
    BY <1>1 DEF clockStepVars, ScaleInv, Near, RowsReference
  <1>2. CASE Passes
    BY <1>2 DEF Passes, ScaleInv, Near, RowsReference
  <1>3. CASE Steps
    BY <1>3 DEF Steps, ScaleInv, Near, RowsReference
  <1>4. CASE Message
    <2> DEFINE new == [fix |-> fixes', written |-> now, stamp |-> now + offset]
    <2>1. new \in Fix /\ buffer' = Append(buffer, new) /\ new.fix = fixes' /\ new.stamp = new.written + offset
      BY <1>4, MessageIsFix
    <2>2. /\ UNCHANGED <<rows, ours, due, reference, slack>> /\ astray \subseteq astray'
          /\ offset # reference => fixes' \in astray'
      BY <1>4 DEF Message
    <2> HIDE DEF new
    <2>3. ours => \A i \in DOMAIN rows : rows[i].fix \notin astray' => Near(rows[i], RowsReference)
      BY <2>2 DEF ScaleInv
    <2>4. ASSUME ours, NEW i \in DOMAIN buffer', buffer'[i].fix \notin astray'
          PROVE  Near(buffer'[i], reference)
      <3>1. CASE i \in DOMAIN buffer
        <4>1. buffer'[i] = buffer[i]
          BY <1>0, <2>1, <3>1
        <4> QED BY <2>2, <2>4, <3>1, <4>1 DEF ScaleInv
      <3>2. CASE i \notin DOMAIN buffer
        <4>1. buffer'[i] = new
          BY <1>0, <2>1, <3>2
        <4>2. offset = reference
          BY <2>1, <2>2, <2>4, <4>1
        <4>3. new.stamp \in Int /\ new.written \in Nat /\ reference \in Nat /\ slack \in Nat
          BY <2>1 DEF Fix, ClockTypeOK
        <4>4. new.stamp - new.written = reference
          BY <2>1, <4>2, <4>3
        <4>5. Near(new, reference)
          BY <4>3, <4>4 DEF Near
        <4> QED BY <4>1, <4>5
      <3> QED BY <3>1, <3>2
    <2> QED BY <2>2, <2>3, <2>4 DEF ScaleInv, Near, RowsReference
  <1>5. CASE Flush
    <2>1. /\ rows' = rows \o buffer /\ buffer' = <<>>
          /\ UNCHANGED <<ours, due, reference, slack>> /\ astray \subseteq astray'
          /\ due # None => \A i \in DOMAIN buffer : buffer[i].fix \in astray'
      BY <1>5 DEF Flush, Ids
    <2>2. ASSUME ours, NEW i \in DOMAIN rows', rows'[i].fix \notin astray'
          PROVE  Near(rows'[i], RowsReference)
      <3>1. CASE i \in DOMAIN rows
        <4>1. rows'[i] = rows[i]
          BY <1>0, <2>1, <3>1
        <4> QED BY <2>1, <2>2, <3>1, <4>1 DEF ScaleInv
      <3>2. CASE i \notin DOMAIN rows
        <4>1. i - Len(rows) \in DOMAIN buffer /\ rows'[i] = buffer[i - Len(rows)]
          BY <1>0, <2>1, <3>2
        <4>2. due = None
          BY <2>1, <2>2, <4>1
        <4> QED BY <2>1, <2>2, <4>1, <4>2 DEF ScaleInv, RowsReference
      <3> QED BY <3>1, <3>2
    <2>3. DOMAIN buffer' = {}
      BY <2>1
    <2> QED BY <2>1, <2>2, <2>3 DEF ScaleInv, Near, RowsReference
  <1>6. CASE Look
    <2>1. /\ due = None /\ reference' = offset /\ UNCHANGED <<rows, buffer, ours>>
          /\ due' = IF Small THEN None ELSE Step
          /\ slack' = IF ~Small THEN slack ELSE IF Step < 0 THEN slack - Step ELSE slack + Step
      BY <1>6 DEF Look
    <2>9. astray \subseteq astray'
      BY <1>6 DEF Look
    <2>6. Step # 0 => \A i \in DOMAIN buffer : buffer[i].fix \in astray'
      BY <1>6 DEF Look, Ids
    <2>2. /\ Step \in Int /\ Step = offset - reference /\ Step # None
          /\ slack \in Nat /\ reference \in Nat /\ offset \in Nat
      BY StepIs, ClockStepAssumption DEF ClockTypeOK
    <2> HIDE DEF clockVars, rowVars
    <2>3. ASSUME NEW i \in DOMAIN rows, Near(rows[i], reference)
          PROVE  Near(rows[i], RowsReference)'
      <3>1. rows[i].stamp \in Int /\ rows[i].written \in Nat
        BY <1>0 DEF Fix
      <3>2. CASE Small
        BY <2>1, <2>2, <2>3, <3>1, <3>2 DEF Near, RowsReference
      <3>3. CASE ~Small
        <4>5. due' = Step /\ slack' = slack
          BY <2>1, <3>3
        <4>1. due' = Step /\ due' # None /\ slack' = slack /\ reference' = reference + Step
          BY <2>1, <2>2, <4>5
        <4>2. RowsReference' = reference' - due'
          BY <4>1 DEF RowsReference
        <4>3. RowsReference' = reference
          BY <2>2, <4>1, <4>2
        <4> QED BY <2>1, <2>3, <4>1, <4>3 DEF Near
      <3> QED BY <3>2, <3>3
    <2>4. ASSUME NEW i \in DOMAIN buffer, Near(buffer[i], reference), buffer[i].fix \notin astray'
          PROVE  Near(buffer[i], reference)'
      <3>1. buffer[i].stamp \in Int /\ buffer[i].written \in Nat
        BY <1>0 DEF Fix
      <3>2. Step = 0
        BY <2>4, <2>6
      <3> QED BY <2>1, <2>2, <2>4, <3>1, <3>2 DEF Near
    <2>5. ours => /\ \A i \in DOMAIN rows : rows[i].fix \notin astray => Near(rows[i], reference)
                  /\ \A i \in DOMAIN buffer : buffer[i].fix \notin astray => Near(buffer[i], reference)
      BY <2>1 DEF ScaleInv, RowsReference
    <2>7. ASSUME ours, NEW i \in DOMAIN rows, rows[i].fix \notin astray'
          PROVE  Near(rows[i], RowsReference)'
      <3>1. Near(rows[i], reference)
        BY <2>5, <2>7, <2>9
      <3> QED BY <2>3, <3>1
    <2>8. ASSUME ours, NEW i \in DOMAIN buffer, buffer[i].fix \notin astray'
          PROVE  Near(buffer[i], reference)'
      <3>1. Near(buffer[i], reference)
        BY <2>5, <2>8, <2>9
      <3> QED BY <2>4, <2>8, <3>1
    <2> QED BY <2>1, <2>7, <2>8 DEF ScaleInv
  <1>7. CASE Shift
    <2>1. /\ due # None /\ due' = None /\ UNCHANGED <<buffer, ours, reference, astray, slack>>
          /\ reference \in Nat /\ slack \in Nat
      BY <1>7 DEF Shift, ClockTypeOK
    <2>2. ASSUME ours, NEW i \in DOMAIN rows', rows'[i].fix \notin astray'
          PROVE  Near(rows'[i], reference)
      <3>1. /\ i \in DOMAIN rows /\ rows'[i].fix = rows[i].fix /\ rows'[i].written = rows[i].written
            /\ rows'[i].stamp = rows[i].stamp + due /\ due \in Int
        BY <1>7, <2>2, ShiftsRows
      <3>2. Near(rows[i], reference - due)
        BY <2>1, <2>2, <3>1 DEF ScaleInv, RowsReference
      <3>3. rows[i].stamp \in Int /\ rows[i].written \in Nat
        BY <1>0, <3>1 DEF Fix
      <3> QED BY <2>1, <3>1, <3>2, <3>3 DEF Near
    <2> QED BY <2>1, <2>2 DEF ScaleInv, Near, RowsReference
  <1>8. CASE Refresh
    BY <1>8 DEF Refresh, ScaleInv, Near, RowsReference
  <1>9. CASE Restart
    BY <1>9 DEF Restart, ScaleInv
  <1> QED BY <1>1, <1>2, <1>3, <1>4, <1>5, <1>6, <1>7, <1>8, <1>9 DEF ClockStepNext

\* How far the summary has read
WalkedTo(n) ==
    /\ summary.walked = [i \in 1..n |-> rows[i].fix]
    /\ summary.after = IF n = 0 THEN None ELSE rows[n].stamp

\* A batch goes behind the rows and is later than all of them
LEMMA FlushKeepsOrder ==
    ASSUME ClockTypeOK, InOrder(rows), InOrder(buffer),
           \A i \in DOMAIN rows, j \in DOMAIN buffer : rows[i].written < buffer[j].written
    PROVE  InOrder(rows \o buffer)
  <1> DEFINE all == rows \o buffer
  <1>1. /\ rows \in Seq(Fix) /\ buffer \in Seq(Fix) /\ Len(rows) \in Nat /\ Len(buffer) \in Nat
        /\ DOMAIN rows = 1..Len(rows) /\ DOMAIN buffer = 1..Len(buffer)
    BY DEF ClockTypeOK
  <1>2. /\ DOMAIN all = 1..(Len(rows) + Len(buffer))
        /\ \A i \in 1..Len(rows) : all[i] = rows[i]
        /\ \A i \in (Len(rows) + 1)..(Len(rows) + Len(buffer)) :
              all[i] = buffer[i - Len(rows)] /\ i - Len(rows) \in DOMAIN buffer
    BY <1>1
  <1> HIDE DEF all
  <1>3. ASSUME NEW i \in DOMAIN all
        PROVE  all[i].written <= now /\ all[i].stamp = all[i].written + offset
    <2>1. CASE i \in DOMAIN rows
      BY <1>1, <1>2, <2>1 DEF InOrder
    <2>2. CASE i \notin DOMAIN rows
      <3>1. all[i] = buffer[i - Len(rows)] /\ i - Len(rows) \in DOMAIN buffer
        BY <1>1, <1>2, <2>2
      <3> QED BY <3>1 DEF InOrder
    <2> QED BY <2>1, <2>2
  <1>4. ASSUME NEW i \in DOMAIN all, NEW j \in DOMAIN all, i < j
        PROVE  all[i].written < all[j].written
    <2>1. CASE i \in DOMAIN rows /\ j \in DOMAIN rows
      BY <1>1, <1>2, <1>4, <2>1 DEF InOrder
    <2>2. CASE i \in DOMAIN rows /\ j \notin DOMAIN rows
      BY <1>1, <1>2, <1>4, <2>2
    <2>3. CASE i \notin DOMAIN rows /\ j \notin DOMAIN rows
      <3>1. /\ all[i] = buffer[i - Len(rows)] /\ i - Len(rows) \in DOMAIN buffer
            /\ all[j] = buffer[j - Len(rows)] /\ j - Len(rows) \in DOMAIN buffer
            /\ i - Len(rows) < j - Len(rows)
        BY <1>1, <1>2, <1>4, <2>3
      <3> QED BY <3>1 DEF InOrder
    <2>4. ~(i \notin DOMAIN rows /\ j \in DOMAIN rows)
      BY <1>1, <1>2, <1>4
    <2> QED BY <2>1, <2>2, <2>3, <2>4
  <1> QED BY <1>3, <1>4 DEF InOrder, all

\* A fix is later than all before it: there is at most one at a time
LEMMA MessageKeepsOrder ==
    ASSUME ClockTypeOK, Message, InOrder(rows), InOrder(buffer),
           \A i \in DOMAIN rows, j \in DOMAIN buffer : rows[i].written < buffer[j].written
    PROVE  /\ InOrder(buffer')
           /\ \A i \in DOMAIN rows, j \in DOMAIN buffer' : rows[i].written < buffer'[j].written
  <1> DEFINE new == [fix |-> fixes', written |-> now, stamp |-> now + offset]
  <1>1. new \in Fix /\ buffer' = Append(buffer, new) /\ new.written = now /\ new.stamp = now + offset
    BY MessageIsFix
  <1>2. /\ rows \in Seq(Fix) /\ buffer \in Seq(Fix) /\ Len(rows) \in Nat /\ Len(buffer) \in Nat
        /\ DOMAIN rows = 1..Len(rows) /\ DOMAIN buffer = 1..Len(buffer) /\ now \in Nat
    BY DEF ClockTypeOK
  <1>3. /\ \A i \in DOMAIN rows : rows[i].written # now /\ rows[i].written <= now
        /\ \A i \in DOMAIN buffer : buffer[i].written # now /\ buffer[i].written <= now
    BY DEF Message, Range, InOrder
  <1>4. /\ \A i \in DOMAIN rows : rows[i].written \in Nat
        /\ \A i \in DOMAIN buffer : buffer[i].written \in Nat
    <2>1. (\A i \in DOMAIN rows : rows[i] \in Fix) /\ (\A i \in DOMAIN buffer : buffer[i] \in Fix)
      BY <1>2
    <2>2. \A r \in Fix : r.written \in Nat
      BY DEF Fix
    <2> QED BY <2>1, <2>2
  <1> HIDE DEF new
  <1>5. /\ DOMAIN buffer' = 1..(Len(buffer) + 1) /\ buffer'[Len(buffer) + 1] = new
        /\ \A i \in DOMAIN buffer : buffer'[i] = buffer[i]
    BY <1>1, <1>2
  <1>6. \A i \in DOMAIN buffer' : i \in DOMAIN buffer \/ i = Len(buffer) + 1
    BY <1>2, <1>5
  <1>7. ASSUME NEW i \in DOMAIN buffer'
        PROVE  buffer'[i].written <= now /\ buffer'[i].stamp = buffer'[i].written + offset
    BY <1>1, <1>2, <1>5, <1>6 DEF InOrder
  <1>8. ASSUME NEW i \in DOMAIN buffer', NEW j \in DOMAIN buffer', i < j
        PROVE  buffer'[i].written < buffer'[j].written
    <2>1. i \in DOMAIN buffer
      BY <1>2, <1>5, <1>8
    <2>2. CASE j \in DOMAIN buffer
      BY <1>5, <1>8, <2>1, <2>2 DEF InOrder
    <2>3. CASE j = Len(buffer) + 1
      <3>1. buffer[i].written < now
        BY <1>2, <1>3, <1>4, <2>1
      <3> QED BY <1>1, <1>5, <2>1, <2>3, <3>1
    <2> QED BY <1>6, <2>2, <2>3
  <1>9. ASSUME NEW i \in DOMAIN rows, NEW j \in DOMAIN buffer'
        PROVE  rows[i].written < buffer'[j].written
    <2>1. CASE j \in DOMAIN buffer
      BY <1>5, <2>1
    <2>2. CASE j = Len(buffer) + 1
      <3>1. rows[i].written < now
        BY <1>2, <1>3, <1>4
      <3> QED BY <1>1, <1>5, <2>2, <3>1
    <2> QED BY <1>6, <2>1, <2>2
  <1> QED BY <1>7, <1>8, <1>9 DEF InOrder

\* After a refresh the summary has walked over every row, once and in order
LEMMA RefreshWalksOn ==
    ASSUME ClockTypeOK, InOrder(rows), NEW n \in 0..Len(rows), WalkedTo(n), Refresh
    PROVE  WalkedTo(Len(rows))'
  <1> DEFINE m == Len(rows) - n
             found == PositionsSince(summary.after)
             rest == [k \in 1..m |-> rows[n + k]]
  <1>1. /\ rows \in Seq(Fix) /\ Len(rows) \in Nat /\ DOMAIN rows = 1..Len(rows)
        /\ n \in Nat /\ m \in Nat /\ n + m = Len(rows) /\ rows' = rows
    BY DEF ClockTypeOK, Refresh, rowVars
  <1>8. \A i \in 1..Len(rows) : rows[i].fix \in Nat
    <2>1. \A i \in 1..Len(rows) : rows[i] \in Fix
      BY <1>1
    <2> QED BY <2>1 DEF Fix
  <1>2. found = rest
    BY ReadsTheRest DEF WalkedTo
  <1>3. summary'.walked = summary.walked \o [i \in DOMAIN found |-> found[i].fix]
        /\ summary'.after = RefreshedFrom(found)
    BY DEF Refresh
  <1> DEFINE fixesOf == [k \in 1..m |-> rows[n + k].fix]
             first == [i \in 1..n |-> rows[i].fix]
             all == [i \in 1..Len(rows) |-> rows[i].fix]
  <1>4. [i \in DOMAIN rest |-> rest[i].fix] = fixesOf
    BY <1>1
  <1>5. summary'.walked = first \o fixesOf
    BY <1>2, <1>3, <1>4 DEF WalkedTo
  <1>6. first \o fixesOf = all
    <2>1. first \in Seq(Nat) /\ Len(first) = n
      BY <1>1, <1>8
    <2>2. fixesOf \in Seq(Nat) /\ Len(fixesOf) = m
      BY <1>1, <1>8
    <2>3. all \in Seq(Nat) /\ Len(all) = Len(rows)
      BY <1>1, <1>8
    <2>4. /\ \A i \in 1..n : first[i] = all[i]
          /\ \A k \in 1..m : fixesOf[k] = all[n + k]
      BY <1>1
    <2> HIDE DEF m, first, fixesOf, all
    <2>5. /\ first \o fixesOf \in Seq(Nat) /\ Len(first \o fixesOf) = n + m
          /\ \A i \in 1..(n + m) : (first \o fixesOf)[i] = IF i <= n THEN first[i]
                                                         ELSE fixesOf[i - n]
      BY <2>1, <2>2, <1>1
    <2>6. \A i \in 1..(n + m) : (first \o fixesOf)[i] = all[i]
      <3>1. ASSUME NEW i \in 1..(n + m)
            PROVE  (first \o fixesOf)[i] = all[i]
        <4>1. CASE i <= n
          BY <1>1, <2>4, <2>5, <4>1
        <4>2. CASE ~(i <= n)
          <5>1. i - n \in 1..m /\ n + (i - n) = i
            BY <1>1, <4>2
          <5> QED BY <1>1, <2>4, <2>5, <4>2, <5>1
        <4> QED BY <4>1, <4>2
      <3> QED BY <3>1
    <2> QED BY <1>1, <2>3, <2>5, <2>6, SeqEqual
  <1>7. summary'.after = IF Len(rows) = 0 THEN None ELSE rows[Len(rows)].stamp
    <2>1. CASE m = 0
      <3>1. rest = <<>>
        BY <2>1
      <3>2. summary'.after = summary.after
        BY <1>2, <1>3, <3>1 DEF RefreshedFrom
      <3>3. summary.after = IF n = 0 THEN None ELSE rows[n].stamp
        BY DEF WalkedTo
      <3>4. n = Len(rows)
        <4> HIDE DEF m
        <4>1. n \in Nat /\ n + m = Len(rows)
          BY <1>1
        <4> QED BY <2>1, <4>1
      <3> QED BY <3>2, <3>3, <3>4
    <2>2. CASE m # 0
      <3>1. Len(rest) = m /\ rest # <<>> /\ rest[m] = rows[Len(rows)]
        <4>1. m \in 1..m /\ n + m = Len(rows)
          <5> HIDE DEF m
          <5>1. m \in Nat /\ n + m = Len(rows)
            BY <1>1
          <5> QED BY <2>2, <5>1
        <4>2. rest[m] = rows[Len(rows)]
          BY <4>1
        <4>3. Len(rest) = m
          BY <1>1
        <4> HIDE DEF rest, m
        <4> QED BY <2>2, <4>2, <4>3
      <3> HIDE DEF rest, found, m
      <3>2. RefreshedFrom(rest) = rest[m].stamp
        BY <3>1 DEF RefreshedFrom, Last
      <3> QED BY <1>1, <1>2, <1>3, <2>2, <3>1, <3>2
    <2> QED BY <2>1, <2>2
  <1> QED BY <1>1, <1>5, <1>6, <1>7 DEF WalkedTo

\* Every step keeps the rows in order and the summary behind them
LEMMA TrackNext ==
    ASSUME ClockTypeOK, TrackInv, [ClockStepNext]_clockStepVars
    PROVE  TrackInv'
  <1> USE DEF clockVars, rowVars
  <1> DEFINE Order == /\ InOrder(rows) /\ InOrder(buffer)
                      /\ \A i \in DOMAIN rows, j \in DOMAIN buffer :
                            rows[i].written < buffer[j].written
             Unstepped == offset = reference /\ due = None
             Walked == \E n \in 0..Len(rows) : WalkedTo(n)
  <1>1. SUFFICES ASSUME steps' = 0, ours'
                 PROVE  (Order /\ Unstepped /\ Walked)'
    BY DEF TrackInv, WalkedTo
  <1>2. \/ Passes \/ Message \/ Flush \/ Look \/ Shift \/ Refresh \/ UNCHANGED clockStepVars
    <2>1. ~Steps
      <3>1. steps \in Nat
        BY DEF ClockTypeOK
      <3>2. ASSUME Steps
            PROVE  steps' = steps + 1
        BY <3>2 DEF Steps
      <3>3. steps + 1 # 0
        BY <3>1
      <3> QED BY <1>1, <3>2, <3>3
    <2>2. ~Restart
      BY <1>1 DEF Restart
    <2> QED BY <2>1, <2>2 DEF ClockStepNext
  <1>3. steps' = steps /\ ours' = ours
    BY <1>2 DEF Passes, Message, Flush, Look, Shift, Refresh, clockStepVars
  <1>4. Order /\ Unstepped /\ Walked
    BY <1>1, <1>3 DEF TrackInv, WalkedTo
  <1>5. rows \in Seq(Fix) /\ buffer \in Seq(Fix) /\ Len(rows) \in Nat /\ now \in Nat
    BY DEF ClockTypeOK
  <1>6. CASE Passes \/ UNCHANGED clockStepVars
    <2>1. /\ UNCHANGED <<offset, reference, due, rows, buffer, summary>> /\ now <= now' /\ now' \in Nat
      BY <1>5, <1>6 DEF Passes, clockStepVars
    <2>2. /\ \A i \in DOMAIN rows : rows[i].written \in Nat
          /\ \A i \in DOMAIN buffer : buffer[i].written \in Nat
      <3>1. \A r \in Fix : r.written \in Nat
        BY DEF Fix
      <3> QED BY <1>5, <3>1
    <2>3. InOrder(rows)' /\ InOrder(buffer)'
      BY <1>4, <1>5, <2>1, <2>2 DEF InOrder
    <2> QED BY <1>4, <2>1, <2>3 DEF WalkedTo
  <1>7. CASE Message
    <2>1. UNCHANGED <<now, offset, reference, due, rows, summary>>
      BY <1>7 DEF Message
    <2>2. /\ InOrder(buffer')
          /\ \A i \in DOMAIN rows, j \in DOMAIN buffer' : rows[i].written < buffer'[j].written
      BY <1>4, <1>7, MessageKeepsOrder
    <2>3. Order'
      BY <1>4, <2>1, <2>2 DEF InOrder
    <2> QED BY <1>4, <2>1, <2>3 DEF WalkedTo
  <1>8. CASE Flush
    <2>1. UNCHANGED <<now, offset, reference, due, summary>> /\ rows' = rows \o buffer /\ buffer' = <<>>
      BY <1>8 DEF Flush
    <2>2. InOrder(rows \o buffer)
      BY <1>4, FlushKeepsOrder
    <2>3. Order'
      BY <2>1, <2>2 DEF InOrder
    <2>4. Len(rows) <= Len(rows') /\ Len(rows') \in Nat /\ \A i \in 1..Len(rows) : rows'[i] = rows[i]
      BY <1>5, <2>1
    <2>5. ASSUME NEW n \in 0..Len(rows), WalkedTo(n)
          PROVE  n \in 0..Len(rows') /\ WalkedTo(n)'
      <3>1. /\ n \in 0..Len(rows') /\ \A i \in 1..n : rows'[i] = rows[i]
            /\ n # 0 => rows'[n] = rows[n]
        BY <1>5, <2>4
      <3> QED BY <2>1, <2>5, <3>1 DEF WalkedTo
    <2>6. Walked'
      BY <1>4, <2>5
    <2> QED BY <1>4, <2>1, <2>3, <2>6
  <1>9. CASE Look
    <2>1. Small
      BY <1>4, ClockStepAssumption DEF Small, Step, ClockTypeOK
    <2>2. UNCHANGED <<now, offset, rows, buffer, summary>> /\ reference' = offset /\ due' = None
      BY <1>9, <2>1 DEF Look
    <2> QED BY <1>4, <2>2 DEF InOrder, WalkedTo
  <1>10. CASE Shift
    BY <1>4, <1>10 DEF Shift
  <1>11. CASE Refresh
    <2>1. UNCHANGED <<now, offset, reference, due, rows, buffer>>
      BY <1>11 DEF Refresh
    <2>2. WalkedTo(Len(rows))'
      BY <1>4, <1>11, RefreshWalksOn
    <2>3. Len(rows) \in 0..Len(rows)
      BY <1>5
    <2>4. Order' /\ Unstepped'
      BY <1>4, <2>1 DEF InOrder
    <2> QED BY <2>1, <2>2, <2>3, <2>4
  <1> QED BY <1>2, <1>6, <1>7, <1>8, <1>9, <1>10, <1>11

\* A recording starts with nothing stored and the clock as it is
LEMMA ClockInit ==
    ASSUME ClockStepInit
    PROVE  ClockInv
  <1>1. ClockTypeOK
    BY ClockStepAssumption DEF ClockStepInit, ClockTypeOK
  <1>2. DOMAIN rows = {} /\ DOMAIN buffer = {} /\ Len(rows) = 0
    BY DEF ClockStepInit
  <1>3. ScaleInv
    BY <1>2 DEF ScaleInv
  <1>4. summary.walked = [i \in 1..0 |-> rows[i].fix] /\ summary.after = None
    BY DEF ClockStepInit, NewSummary
  <1>5. TrackInv
    BY <1>2, <1>4 DEF ClockStepInit, TrackInv, InOrder
  <1> QED BY <1>1, <1>3, <1>5 DEF ClockInv

\* What is known of rows and buffer says what is promised of them
LEMMA ClockInvAgrees ==
    ASSUME ClockInv
    PROVE  RowsAndTotalsAgree
  <1>1. OneTimescale
    BY DEF ClockInv, ScaleInv, OneTimescale, OnScale, Near, RowsReference, Range
  <1>2. SummaryIsTheTrack
    <2>1. SUFFICES ASSUME steps = 0, ours
                   PROVE  summary.walked =
                            SubSeq([i \in DOMAIN rows |-> rows[i].fix], 1, Len(summary.walked))
      BY DEF SummaryIsTheTrack
    <2>2. PICK n \in 0..Len(rows) : summary.walked = [i \in 1..n |-> rows[i].fix]
      BY <2>1 DEF ClockInv, TrackInv
    <2>3. rows \in Seq(Fix) /\ Len(rows) \in Nat /\ DOMAIN rows = 1..Len(rows)
      BY DEF ClockInv, ClockTypeOK
    <2>4. Len(summary.walked) = n
      BY <2>2, <2>3
    <2> QED BY <2>2, <2>3, <2>4
  <1> QED BY <1>1, <1>2 DEF RowsAndTotalsAgree

\* What is stored of a recording is on one timescale, however often the clock was
\* put right under it and whenever batches are written in between, and its running
\* totals have read each of its fixes once, in order, while the clock ran on: for
\* every offset, every threshold and any number of fixes and steps
\* (_check_for_clock_step, shift_recording_times, LiveSummary._catch_up)
THEOREM OneClock == ClockStepSpec => []RowsAndTotalsAgree
  <1>1. ClockStepInit => ClockInv
    BY ClockInit
  <1>2. ClockInv /\ [ClockStepNext]_clockStepVars => ClockInv'
    BY ClockTypeNext, ScaleNext, TrackNext DEF ClockInv
  <1>3. ClockInv => RowsAndTotalsAgree
    BY ClockInvAgrees
  <1> QED BY <1>1, <1>2, <1>3, PTL DEF ClockStepSpec

-----------------------------------------------------------------------------
(* Uploads                                                                 *)

\* What a publish has in hand at each of its steps, and what it found before it sends
UploadsTypeOK ==
    /\ library \subseteq Attachment /\ made \in Nat
    /\ step \in {"idle", "look", "send", "check", "clean", "post"}
    /\ local \in Version /\ wide \in BOOLEAN
    /\ step # "idle" => reading \in Version
    /\ hand \in Attachment \cup {NoFile}
    /\ step = "check" => hand \in Attachment
    /\ step \in {"look", "send", "clean"} => hand = NoFile

\* A publish that was not led astray sends only what it did not find
SoughtInVain == step = "send" /\ ~misled => Existing = {}

\* What every step keeps
UploadsInv == UploadsTypeOK /\ PostedIsWhole /\ SoughtInVain

\* What is stored is an attachment, and the one just stored is found
LEMMA StoresIs ==
    ASSUME UploadsTypeOK, step = "send", StoresSome
    PROVE  /\ library' \subseteq Attachment /\ made' \in Nat
           /\ JustStored \in Attachment
  <1>1. PICK whole, scaled \in BOOLEAN : Stores(whole, scaled)
    BY DEF StoresSome
  <1> DEFINE a == [id |-> made', named |-> \A b \in library : ~b.named,
                   scaled |-> scaled, version |-> reading, whole |-> whole]
  <1>2. made' = made + 1 /\ library' = library \cup {a}
    BY <1>1 DEF Stores
  <1>3. (\A b \in library : ~b.named) \in BOOLEAN
    OBVIOUS
  <1>4. made' \in Nat /\ a \in Attachment /\ a.id = made'
    BY <1>2, <1>3 DEF Attachment, UploadsTypeOK
  <1> HIDE DEF a
  <1>5. library' \subseteq Attachment /\ a \in library'
    BY <1>2, <1>4 DEF UploadsTypeOK
  <1>6. JustStored \in library'
    BY <1>4, <1>5 DEF JustStored
  <1> QED BY <1>4, <1>5, <1>6

\* An attachment of the file's length is whole
LEMMA LengthTells ==
    ASSUME NEW a \in Attachment, NEW v \in Version, Length(a) = Size[v]
    PROVE  a.whole /\ Size[a.version] = Size[v]
  <1>1. Size[v] # 0
    BY UploadsAssumption
  <1> QED BY <1>1 DEF Length, Attachment

\* No step of a publish posts what is not whole, or sends what it found
LEMMA UploadsNextInv ==
    ASSUME UploadsInv, [UploadsNext]_uploadVars
    PROVE  UploadsInv'
  <1> USE DEF UploadsInv, UploadsTypeOK, fileVars, libraryVars, publishVars, pastUploads
  <1>1. CASE Publish
    BY <1>1 DEF Publish, PostedIsWhole, SoughtInVain
  <1>2. CASE Reuse
    <2>1. PICK a \in Existing : hand' = a
      BY <1>2 DEF Reuse
    <2>2. a \in Attachment /\ Length(a) = Size[reading] /\ reading \in Version
      BY <1>2, <2>1 DEF Reuse, Existing
    <2>3. a.whole /\ Size[a.version] = Size[reading]
      BY <2>2, LengthTells
    <2> QED BY <1>2, <2>1, <2>2, <2>3 DEF Reuse, PostedIsWhole, SoughtInVain
  <1>3. CASE LookInVain
    BY <1>3 DEF LookInVain, PostedIsWhole, SoughtInVain, Existing
  <1>4. CASE LookFails
    BY <1>4 DEF LookFails, PostedIsWhole, SoughtInVain
  <1>5. CASE SendAnswered
    BY <1>5, StoresIs DEF SendAnswered, PostedIsWhole, SoughtInVain
  <1>6. CASE SendRefused
    BY <1>6 DEF SendRefused, PostedIsWhole, SoughtInVain
  <1>7. CASE SendFails
    BY <1>7 DEF SendFails, Again, PostedIsWhole, SoughtInVain, Existing
  <1>8. CASE SendErrs
    BY <1>8, StoresIs DEF SendErrs, Again, PostedIsWhole, SoughtInVain
  <1>9. CASE SendTimesOut
    <2>1. library' \subseteq Attachment /\ made' \in Nat
      BY <1>9, StoresIs DEF SendTimesOut
    <2> QED BY <1>9, <2>1 DEF SendTimesOut, PostedIsWhole, SoughtInVain
  <1>10. CASE Check
    <2>1. hand \in Attachment /\ reading \in Version /\ reading' = reading /\ step' = "post"
      BY <1>10 DEF Check
    <2>2. PostedIsWhole'
      <3>1. CASE Length(hand) = Size[reading] /\ UNCHANGED <<library, hand, unsure>>
        BY <2>1, <3>1, LengthTells DEF PostedIsWhole
      <3>2. CASE hand.scaled /\ unsure' = unsure \cup {hand.id} /\ UNCHANGED <<library, hand>>
        BY <3>2 DEF PostedIsWhole
      <3>3. CASE hand' = NoFile
        BY <3>3 DEF PostedIsWhole
      <3> QED BY <1>10, <3>1, <3>2, <3>3 DEF Check
    <2> QED BY <1>10, <2>1, <2>2 DEF Check, SoughtInVain
  <1>11. CASE Clean
    BY <1>11 DEF Clean, PostedIsWhole, SoughtInVain
  <1>12. CASE Post
    BY <1>12 DEF Post, PostedIsWhole, SoughtInVain
  <1>13. CASE Gives
    BY <1>13 DEF Gives, PostedIsWhole, SoughtInVain
  <1>14. CASE Redraw
    BY <1>14 DEF Redraw, PostedIsWhole, SoughtInVain
  <1>15. CASE UNCHANGED uploadVars
    BY <1>15 DEF uploadVars, PostedIsWhole, SoughtInVain, Existing
  <1> QED BY <1>1, <1>2, <1>3, <1>4, <1>5, <1>6, <1>7, <1>8, <1>9, <1>10, <1>11, <1>12, <1>13,
             <1>14, <1>15 DEF UploadsNext

\* Another attachment is only made where none is whole and has the name
LEMMA SendsOnce ==
    ASSUME UploadsInv, [UploadsNext]_uploadVars, made' # made, ~misled'
    PROVE  ~\E a \in library : a.whole /\ a.named /\ a.version = reading
  <1> USE DEF fileVars, libraryVars, publishVars, pastUploads
  <1>1. step = "send" /\ ~misled
    <2>1. CASE SendAnswered \/ SendTimesOut
      BY <2>1 DEF SendAnswered, SendTimesOut
    <2>2. ~SendErrs
      BY DEF SendErrs
    <2>3. ~(\/ Publish \/ Reuse \/ LookInVain \/ LookFails \/ SendRefused \/ SendFails
            \/ Check \/ Clean \/ Post \/ Gives \/ Redraw \/ UNCHANGED uploadVars)
      BY DEF Publish, Reuse, LookInVain, LookFails, SendRefused, SendFails, Check, Clean, Post,
             Gives, Redraw, uploadVars
    <2> QED BY <2>1, <2>2, <2>3 DEF UploadsNext
  <1>2. Existing = {}
    BY <1>1 DEF UploadsInv, SoughtInVain
  <1> QED BY <1>2 DEF Existing, UploadedFile, Length

\* A file is posted whole, and sent only while WordPress does not have it so, for any
\* number of publishes, versions and tries (wordpress_publisher.py)
THEOREM PostedWholeSentOnce == UploadsSpec => WholeAndSentOnce
  <1>1. UploadsInit => UploadsInv
    BY DEF UploadsInit, UploadsInv, UploadsTypeOK, PostedIsWhole, SoughtInVain
  <1>2. UploadsInv /\ [UploadsNext]_uploadVars => UploadsInv'
    BY UploadsNextInv
  <1>3. UploadsInv => PostedIsWhole
    BY DEF UploadsInv
  <1>4. UploadsInv /\ [UploadsNext]_uploadVars =>
          [made' # made /\ ~misled' =>
             ~\E a \in library : a.whole /\ a.named /\ a.version = reading]_uploadVars
    BY SendsOnce
  <1> QED BY <1>1, <1>2, <1>3, <1>4, PTL DEF UploadsSpec, WholeAndSentOnce, SentOnce

-----------------------------------------------------------------------------
(* What the recorder hears (Subscriptions)                                 *)

\* What a recording may ask for
Pattern == Seq(STRING) \ {<<>>}

\* Types, and that what the recorder has is among the recordings it has an entry of
SubscriptionsTypeOK ==
    /\ active_recordings \subseteq Entry /\ patterns \in [Entry -> SUBSET Pattern]
    /\ enabled \subseteq active_recordings /\ ending \subseteq active_recordings
    /\ link \in {"down", "opened", "up"}

\* What was asked for is what is needed, the broker serves no more than that, and
\* all of it once on_connect has run
BrokerServes ==
    /\ subscribed_topics = Needed(active_recordings)
    /\ session \subseteq Needed(active_recordings)
    /\ link = "up" => session = Needed(active_recordings)
    /\ link = "down" => session = {}

\* What every step keeps
HearingInv == SubscriptionsTypeOK /\ BrokerServes

\* One recording more is needed, and one less
LEMMA NeededIs ==
    ASSUME NEW r \in Entry, NEW topics \in SUBSET Pattern, SubscriptionsTypeOK
    PROVE  /\ (/\ r \notin active_recordings /\ active_recordings' = active_recordings \cup {r}
               /\ patterns' = [patterns EXCEPT ![r] = topics])
              => Needed(active_recordings)' = Needed(active_recordings) \cup topics
           /\ (/\ active_recordings' = active_recordings \ {r}
               /\ patterns' = [patterns EXCEPT ![r] = {}])
              => Needed(active_recordings)' = Needed(active_recordings \ {r})
           /\ Needed(active_recordings \ {r}) \subseteq Needed(active_recordings)
  BY DEF Needed, SubscriptionsTypeOK

\* A recording is started, over whatever link there is
LEMMA StartHears ==
    ASSUME HearingInv, NEW r \in Entry, NEW topics \in Filters, start_recording(r, topics)
    PROVE  HearingInv'
  <1>1. topics \in SUBSET Pattern
    BY SubscriptionsAssumption DEF Pattern
  <1>2. Needed(active_recordings)' = Needed(active_recordings) \cup topics
    BY <1>1, NeededIs DEF HearingInv, start_recording
  <1>3. SubscriptionsTypeOK'
    BY <1>1 DEF HearingInv, SubscriptionsTypeOK, start_recording
  <1>4. BrokerServes'
    BY <1>2 DEF HearingInv, BrokerServes, start_recording, Subscribe
  <1> QED BY <1>3, <1>4 DEF HearingInv

\* A recording is stopped: what another needs too is kept
LEMMA StopHears ==
    ASSUME HearingInv, NEW r \in Entry, StopRemoves(r)
    PROVE  HearingInv'
  <1>1. /\ Needed(active_recordings)' = Needed(active_recordings \ {r})
        /\ Needed(active_recordings \ {r}) \subseteq Needed(active_recordings)
    BY NeededIs DEF HearingInv, StopRemoves
  <1>2. SubscriptionsTypeOK'
    BY DEF HearingInv, SubscriptionsTypeOK, StopRemoves
  <1>3. BrokerServes'
    BY <1>1 DEF HearingInv, BrokerServes, StopRemoves, Unsubscribe, cleanup_subscriptions
  <1> QED BY <1>2, <1>3 DEF HearingInv

\* The connection moves, or who is enabled
LEMMA OthersHear ==
    ASSUME HearingInv,
           \/ Opens \/ on_connect \/ on_disconnect
           \/ \E r \in Entry : StopMarks(r) \/ pause_recording(r) \/ resume_recording(r)
           \/ UNCHANGED subscriptionVars
    PROVE  HearingInv'
  <1>1. /\ active_recordings' = active_recordings /\ patterns' = patterns
        /\ subscribed_topics' = subscribed_topics
    BY DEF Opens, on_connect, on_disconnect, StopMarks, pause_recording, resume_recording,
           subscriptionVars, recorder
  <1>2. Needed(active_recordings)' = Needed(active_recordings)
    BY <1>1 DEF Needed
  <1>3. SubscriptionsTypeOK'
    BY <1>1 DEF HearingInv, SubscriptionsTypeOK, Opens, on_connect, on_disconnect, StopMarks,
                pause_recording, resume_recording, subscriptionVars, recorder
  <1>4. BrokerServes'
    BY <1>1, <1>2 DEF HearingInv, BrokerServes, SubscriptionsTypeOK, Opens, on_connect,
                      on_disconnect, StopMarks, pause_recording, resume_recording,
                      subscriptionVars, Subscribe
  <1> QED BY <1>3, <1>4 DEF HearingInv

\* The recorder's matching against MQTT's: it takes nothing MQTT would not, and all
\* MQTT would but for a + before a #
LEMMA MatchIs ==
    ASSUME NEW pattern \in Pattern, NEW topic \in Published
    PROVE  /\ mqtt_topic_match(pattern, topic) => Serves(pattern, topic)
           /\ (/\ Serves(pattern, topic)
               /\ (Last(pattern) = "#" => \A i \in DOMAIN pattern : pattern[i] # "+"))
              => mqtt_topic_match(pattern, topic)
  <1> DEFINE n == Len(pattern)
  <1>1. /\ topic \in Seq(STRING) /\ \A i \in DOMAIN topic : topic[i] \notin {"+", "#"}
        /\ pattern \in Seq(STRING) /\ n \in Nat \ {0} /\ DOMAIN pattern = 1..n
        /\ Last(pattern) = pattern[n] /\ Len(topic) \in Nat /\ DOMAIN topic = 1..Len(topic)
    BY SubscriptionsAssumption DEF Pattern, Last
  <1>2. ASSUME Len(topic) >= n - 1
        PROVE  SubSeq(pattern, 1, n - 1) = SubSeq(topic, 1, n - 1)
                 <=> \A i \in 1..(n - 1) : pattern[i] = topic[i]
    BY <1>1, <1>2
  <1>3. CASE pattern[n] = "#"
    <2> DEFINE hash == {i \in DOMAIN pattern : pattern[i] = "#"}
    <2>1. n \in hash
      BY <1>1, <1>3
    <2>2. mqtt_topic_match(pattern, topic)
            <=> /\ hash = {n} /\ Len(topic) >= n - 1
                /\ SubSeq(pattern, 1, n - 1) = SubSeq(topic, 1, n - 1)
      BY <2>1 DEF mqtt_topic_match
    <2>3. Serves(pattern, topic)
            <=> \A i \in 1..(n - 1) : i \in 1..Len(topic) /\ pattern[i] \in {"+", topic[i]}
      BY <1>1, <1>3 DEF Serves
    <2>4. (\A i \in 1..(n - 1) : i \in 1..Len(topic)) <=> Len(topic) >= n - 1
      BY <1>1
    <2>5. mqtt_topic_match(pattern, topic) => Serves(pattern, topic)
      BY <1>1, <1>2, <2>2, <2>3, <2>4
    <2>6. ASSUME Serves(pattern, topic), \A i \in DOMAIN pattern : pattern[i] # "+"
          PROVE  mqtt_topic_match(pattern, topic)
      <3>1. \A i \in 1..(n - 1) : i \in 1..Len(topic) /\ pattern[i] = topic[i]
        BY <1>1, <2>3, <2>6
      <3>2. hash = {n}
        BY <1>1, <2>1, <3>1
      <3> QED BY <1>2, <2>2, <2>4, <3>1, <3>2
    <2> QED BY <1>1, <1>3, <2>5, <2>6
  <1>4. CASE pattern[n] # "#"
    BY <1>1, <1>4 DEF mqtt_topic_match, Serves
  <1> QED BY <1>3, <1>4

\* Each recording takes its own, of what the broker serves (Subscriptions)
LEMMA AskedIsRecorded == HearingInv => WhatIsAskedForIsRecorded
  <1> SUFFICES ASSUME HearingInv, NEW topic \in Published
               PROVE  /\ \A r \in RecordedIn(topic) : \E p \in patterns[r] : Serves(p, topic)
                      /\ link = "up" =>
                           \A r \in enabled, p \in UNION {patterns[e] : e \in enabled} :
                              (/\ p \in patterns[r] /\ Serves(p, topic)
                               /\ (Last(p) = "#" => \A i \in DOMAIN p : p[i] # "+"))
                              => r \in RecordedIn(topic)
    BY DEF WhatIsAskedForIsRecorded, RecordedIn
  <1>1. \A r \in enabled : patterns[r] \subseteq Pattern
    BY DEF HearingInv, SubscriptionsTypeOK
  <1>2. \A r \in RecordedIn(topic) : \E p \in patterns[r] : Serves(p, topic)
    BY <1>1, MatchIs DEF RecordedIn, topic_matches
  <1>3. ASSUME link = "up", NEW r \in enabled, NEW p \in patterns[r], Serves(p, topic),
               Last(p) = "#" => \A i \in DOMAIN p : p[i] # "+"
        PROVE  r \in RecordedIn(topic)
    <2>1. p \in session
      BY <1>3 DEF HearingInv, BrokerServes, SubscriptionsTypeOK, Needed
    <2>2. mqtt_topic_match(p, topic)
      BY <1>1, <1>3, MatchIs
    <2> QED BY <1>3, <2>1, <2>2 DEF RecordedIn, topic_matches
  <1> QED BY <1>2, <1>3

\* However recordings come, pause and go, share patterns, and lose the connection,
\* the broker serves what is needed, and each recording takes its own of it
\* (data_recorder.py:167, :298, :357)
THEOREM EachHears == SubscriptionsSpec => []EachHearsItsOwn
  <1>1. SubscriptionsInit => HearingInv
    BY DEF SubscriptionsInit, HearingInv, SubscriptionsTypeOK, BrokerServes, Needed
  <1>2. HearingInv /\ [SubscriptionsNext]_subscriptionVars => HearingInv'
    BY StartHears, StopHears, OthersHear DEF SubscriptionsNext
  <1>3. HearingInv => EachHearsItsOwn
    BY AskedIsRecorded DEF EachHearsItsOwn, NothingElseIsServed, HearingInv, BrokerServes
  <1> QED BY <1>1, <1>2, <1>3, PTL DEF SubscriptionsSpec

-----------------------------------------------------------------------------
(* Migration                                                               *)

\* A row of recordings, of any release, with a recording in it
Row ==
    [status : {"active", "stopped", "processing", "published", "failed", "processed"},
     error : {"none", "no data", "WordPress", "other"}, link : BOOLEAN, name : Nat,
     artefacts : {"none", "fresh", "failed", "processing", "stale"}, key : {"none", "event"}]
\* What is kept of its post
PostRow ==
    [id : BOOLEAN, wp : {"none", "draft", "publish"},
     state : {"none", "publishing", "wp_draft", "published", "publish_failed"}, title : Nat]

\* What a file has of recordings, of their posts, and of the rest
RowTables == {NoRows} \cup [Kept -> Row]
PostTables == [Kept -> PostRow]
ColumnSets == SUBSET {"state", "draft", "key"}
DataSets == SUBSET (Kept \cup Ghost)
SettingSets == SUBSET {"titles_unified", "orphans_removed"}

\* What a file may have
File ==
    [words : BOOLEAN, table : BOOLEAN, aside : RowTables, rows : RowTables, posts : PostTables,
     columns : ColumnSets, data : DataSets, dangling : BOOLEAN, settings : SettingSets]

\* A row and its post as the older releases leave them, with or without three states
OldPair(columns, row, post) ==
    /\ row \in Row /\ post \in PostRow
    /\ IF "state" \in columns
       THEN /\ row.status = "stopped" /\ row.error = "none"
            /\ post.id <=> post.state # "none"
       ELSE /\ post.state = "none" /\ row.artefacts = "none"
            /\ (row.error # "none") <=> (row.status = "failed")
            /\ row.status = "published" => row.link
            /\ row.link => row.status \in {"published", "processed"} \/ row.error = "WordPress"
            /\ post.id => row.link

\* What the file of an older release is known to be
OldIs(f) ==
    /\ f \in File /\ f.table /\ f.aside = NoRows /\ f.rows \in [Kept -> Row]
    /\ f.columns \in {{}, {"state", "draft"}} /\ f.settings = {} /\ Kept \subseteq f.data
    /\ \A r \in Kept : OldPair(f.columns, f.rows[r], f.posts[r])

\* A row and a post that say what they say in three states
Settled(row, post) ==
    /\ row.status \in NewWords
    /\ row.status = "failed" => row.error = "no data"
    /\ post.id => post.state # "none"

\* The crew's last name for a recording, and the one titles are still to give it
Named(f, given) == \A r \in Kept : f.rows[r].name = given[r]
ToName(f, given) ==
    \A r \in Kept : given[r] = IF f.posts[r].title = 0 THEN f.rows[r].name ELSE f.posts[r].title

\* A file with every recording of f in it, as this release has them
Moved(g, f, worked) ==
    /\ g \in File /\ g.words /\ g.table /\ ~g.dangling /\ g.aside = NoRows
    /\ g.rows \in [Kept -> Row] /\ {"state", "draft"} \subseteq g.columns
    /\ Kept \subseteq g.data
    /\ \A r \in Kept :
          /\ Settled(g.rows[r], g.posts[r])
          /\ r \notin worked => stage_of(g.rows[r], g.posts[r]) = OldStage(f, r)

\* What a start that came through leaves
Done(g, f, worked, given) ==
    /\ Moved(g, f, worked) /\ Named(g, given) /\ "key" \in g.columns
    /\ g.settings = {"titles_unified", "orphans_removed"} /\ g.data = Kept

\* The file as its release left it, no recording worked on since
Untouched(g, f, worked, given) == g = f /\ worked = {} /\ ToName(f, given)

\* The parts of a first start: what it has at each of them
AsFound(g, f) == g \in File /\ g.posts = f.posts /\ g.data = f.data /\ g.settings = {}
HasRows(g, f) ==
    AsFound(g, f) /\ g.words /\ g.table /\ g.rows = f.rows /\ g.aside = NoRows
InParts(p, g, f, worked, given) ==
    CASE p = "words" -> g = f
      [] p = "recreate" -> AsFound(g, f) /\ g.aside = f.rows
      [] p = "copy" -> AsFound(g, f) /\ g.words /\ g.table /\ g.aside = f.rows
      [] p = "tables" -> HasRows(g, f)
      [] p = "columns" -> HasRows(g, f) /\ ~g.dangling
      [] p = "split" -> HasRows(g, f) /\ ~g.dangling /\ {"state", "draft"} \subseteq g.columns
      [] p = "key" -> Moved(g, f, worked) /\ ToName(g, given) /\ g.settings = {}
      [] p = "titles" -> /\ Moved(g, f, worked) /\ ToName(g, given) /\ g.settings = {}
                         /\ "key" \in g.columns
      [] p = "orphans" -> /\ Moved(g, f, worked) /\ Named(g, given) /\ "key" \in g.columns
                          /\ g.settings = {"titles_unified"}
      [] p = "commit" -> Done(g, f, worked, given)

\* Where a start can be between its beginning and its commit
Parts == {"words", "recreate", "copy", "tables", "columns", "split", "key", "titles",
          "orphans", "commit"}

\* A first start has the file it found until it commits; a later one changes nothing
MigrationInv ==
    /\ OldIs(old)
    /\ start \in Parts \cup {"up", "down"}
    /\ wrote \in [Kept -> Nat] /\ names \in Nat /\ touched \subseteq Kept
    /\ start = "down" => Untouched(disk, old, touched, wrote) \/ Done(disk, old, touched, wrote)
    /\ start = "up" => disk = work /\ Done(work, old, touched, wrote)
    /\ start \in Parts =>
          \/ /\ Untouched(before, old, touched, wrote)
             /\ InParts(start, work, old, touched, wrote)
          \/ /\ Done(before, old, touched, wrote) /\ work = before /\ disk = before
             /\ start \notin {"recreate", "copy"}

\* Rows and posts, field by field
LEMMA RowIs ==
    ASSUME NEW row,
           row = [status |-> row.status, error |-> row.error, link |-> row.link,
                  name |-> row.name, artefacts |-> row.artefacts, key |-> row.key],
           row.status \in {"active", "stopped", "processing", "published", "failed", "processed"},
           row.error \in {"none", "no data", "WordPress", "other"}, row.link \in BOOLEAN,
           row.name \in Nat,
           row.artefacts \in {"none", "fresh", "failed", "processing", "stale"},
           row.key \in {"none", "event"}
    PROVE  row \in Row
  <1> DEFINE a == row.status
             b == row.error
             c == row.link
             d == row.name
             e == row.artefacts
             f == row.key
  <1>1. row = [status |-> a, error |-> b, link |-> c, name |-> d, artefacts |-> e, key |-> f]
    OBVIOUS
  <1>2. /\ a \in {"active", "stopped", "processing", "published", "failed", "processed"}
        /\ b \in {"none", "no data", "WordPress", "other"} /\ c \in BOOLEAN
        /\ d \in Nat
        /\ e \in {"none", "fresh", "failed", "processing", "stale"}
        /\ f \in {"none", "event"}
    OBVIOUS
  <1> HIDE DEF a, b, c, d, e, f
  <1> QED BY <1>1, <1>2 DEF Row

\* What a row, and a post, of a set of records has in each field
LEMMA RowFields ==
    ASSUME NEW A, NEW B, NEW C, NEW D, NEW E, NEW F,
           NEW row \in [status : A, error : B, link : C, name : D, artefacts : E, key : F]
    PROVE  /\ row = [status |-> row.status, error |-> row.error, link |-> row.link,
                     name |-> row.name, artefacts |-> row.artefacts, key |-> row.key]
           /\ row.status \in A /\ row.error \in B /\ row.link \in C /\ row.name \in D
           /\ row.artefacts \in E /\ row.key \in F
  OBVIOUS

LEMMA PostFields ==
    ASSUME NEW A, NEW B, NEW C, NEW D,
           NEW post \in [id : A, wp : B, state : C, title : D]
    PROVE  /\ post = [id |-> post.id, wp |-> post.wp, state |-> post.state, title |-> post.title]
           /\ post.id \in A /\ post.wp \in B /\ post.state \in C /\ post.title \in D
  OBVIOUS

\* Whatever release wrote the file, MigrationInit starts from what OldIs says of it
LEMMA OldFileIs ==
    ASSUME OldFile
    PROVE  OldIs(disk)
  <1>0. PICK release \in Release : \E held \in OldRows(release) :
          \E posts \in OldPosts(release, held),
             dangling \in IF release = "first" THEN {FALSE} ELSE BOOLEAN :
              disk = FileOf(release, held, posts, dangling)
    BY DEF OldFile
  <1>1. PICK held \in OldRows(release) :
          \E posts \in OldPosts(release, held),
             dangling \in IF release = "first" THEN {FALSE} ELSE BOOLEAN :
              disk = FileOf(release, held, posts, dangling)
    BY <1>0
  <1>2. PICK posts \in OldPosts(release, held),
             dangling \in IF release = "first" THEN {FALSE} ELSE BOOLEAN :
              disk = FileOf(release, held, posts, dangling)
    BY <1>1
  <1>3. /\ disk = [words |-> release # "first", table |-> TRUE, aside |-> NoRows,
                   rows |-> held, posts |-> posts, columns |-> Columns(release),
                   data |-> Kept \cup Ghost, dangling |-> dangling, settings |-> {}]
    BY <1>2 DEF FileOf
  <1>5. ASSUME NEW r \in Kept
        PROVE  OldPair(Columns(release), held[r], posts[r])
    <2> DEFINE row == held[r]
               post == posts[r]
    <2>1. post \in OldPost(release, row)
      BY <1>2 DEF OldPosts
    <2>2. row \in IF release = "split" THEN SplitRow ELSE OldRow(release)
      BY <1>1 DEF OldRows
    <2> HIDE DEF row, post
    <2>3. CASE release = "split"
      <3>1. row \in SplitRow /\ Columns(release) = {"state", "draft"}
        BY <2>2, <2>3 DEF Columns
      <3>2. post \in {q \in [id : BOOLEAN, wp : {"publish"},
                       state : {"none", "published", "publish_failed"}, title : {0, 2}] :
                        q.id <=> q.state # "none"}
        BY <2>1, <2>3 DEF OldPost
      <3>3. post \in PostRow /\ (post.id <=> post.state # "none")
        BY <3>2 DEF PostRow
      <3>4. row \in Row /\ row.status = "stopped" /\ row.error = "none"
        <4>1. row \in [status : {"stopped"}, error : {"none"}, link : {FALSE}, name : {1},
                       artefacts : {"none", "fresh"}, key : {"none"}]
          BY <3>1 DEF SplitRow
        <4>2. row = [status |-> row.status, error |-> row.error, link |-> row.link,
                     name |-> row.name, artefacts |-> row.artefacts, key |-> row.key]
          BY <4>1, RowFields, Zenon
        <4>5. /\ row.status \in {"stopped"} /\ row.error \in {"none"} /\ row.link \in {FALSE}
              /\ row.name \in {1} /\ row.artefacts \in {"none", "fresh"} /\ row.key \in {"none"}
          BY <4>1, RowFields, Zenon
        <4>6. row.status \in {"active", "stopped", "processing", "published", "failed", "processed"}
          BY <4>5
        <4>7. row.error \in {"none", "no data", "WordPress", "other"}
          BY <4>5
        <4>8. row.link \in BOOLEAN
          BY <4>5
        <4>9. row.name \in Nat
          BY <4>5
        <4>10. row.artefacts \in {"none", "fresh", "failed", "processing", "stale"}
          BY <4>5
        <4>11. row.key \in {"none", "event"}
          BY <4>5
        <4>4. row \in Row
          BY <4>2, <4>6, <4>7, <4>8, <4>9, <4>10, <4>11, RowIs, Zenon
        <4> QED BY <4>4, <4>5
      <3>5. OldPair({"state", "draft"}, row, post)
        BY <3>3, <3>4 DEF OldPair
      <3> QED BY <3>1, <3>5 DEF row, post
    <2>4. CASE release # "split"
      <3>1. row \in OldRow(release) /\ Columns(release) = {}
        BY <2>2, <2>4 DEF Columns
      <3>2. /\ row \in Row /\ row.artefacts = "none"
            /\ (row.error # "none") <=> (row.status = "failed")
            /\ row.status = "published" => row.link
            /\ row.link => row.status \in {"published", "processed"} \/ row.error = "WordPress"
        <4>1. OldStatus(release) \subseteq
                 {"active", "stopped", "processing", "published", "failed", "processed"}
          BY DEF OldStatus
        <4>2. row \in [status : OldStatus(release), error : {"none", "no data", "WordPress", "other"},
                       link : BOOLEAN, name : {1}, artefacts : {"none"}, key : {"none"}]
          BY <3>1 DEF OldRow
        <4>3. row \in Row /\ row.artefacts = "none"
          <5>0. row = [status |-> row.status, error |-> row.error, link |-> row.link,
                       name |-> row.name, artefacts |-> row.artefacts, key |-> row.key]
            BY <4>2, RowFields, Zenon
          <5>1. /\ row.status \in OldStatus(release)
                /\ row.error \in {"none", "no data", "WordPress", "other"} /\ row.link \in BOOLEAN
                /\ row.name \in {1} /\ row.artefacts \in {"none"} /\ row.key \in {"none"}
            BY <4>2, RowFields, Zenon
          <5>6. row.status \in {"active", "stopped", "processing", "published", "failed", "processed"}
            BY <4>1, <5>1
          <5>8. row.name \in {1}
            BY <5>1, Zenon
          <5>9. row.name \in Nat
            BY <5>8
          <5>10. row.artefacts \in {"none", "fresh", "failed", "processing", "stale"}
            BY <5>1
          <5>11. row.key \in {"none", "event"}
            BY <5>1
          <5>3. row \in Row
            BY <5>0, <5>1, <5>6, <5>9, <5>10, <5>11, RowIs, Zenon
          <5> QED BY <5>1, <5>3
        <4> QED BY <3>1, <4>3 DEF OldRow
      <3>3. post \in PostRow /\ post.state = "none" /\ (post.id => row.link)
        <4>1. CASE release = "linked" /\ row.link
          <5>1. post \in [id : {TRUE}, wp : {"draft", "publish"}, state : {"none"}, title : {0}]
            BY <2>1, <4>1 DEF OldPost
          <5>2. post = [id |-> post.id, wp |-> post.wp, state |-> post.state, title |-> post.title]
            BY <5>1, PostFields, Zenon
          <5>3. post.id \in BOOLEAN /\ post.wp \in {"draft", "publish"} /\ post.state = "none"
                /\ post.title \in Nat
            <6>1. /\ post.id \in {TRUE} /\ post.wp \in {"draft", "publish"}
                  /\ post.state \in {"none"} /\ post.title \in {0}
              BY <5>1, PostFields, Zenon
            <6>2. post.id \in BOOLEAN
              BY <6>1
            <6>3. post.title \in Nat
              BY <6>1
            <6> QED BY <6>1, <6>2, <6>3
          <5> QED BY <4>1, <5>2, <5>3 DEF PostRow
        <4>2. CASE ~(release = "linked" /\ row.link)
          <5>1. post = NoPost
            BY <2>1, <2>4, <4>2 DEF OldPost
          <5> QED BY <5>1 DEF NoPost, PostRow
        <4> QED BY <4>1, <4>2
      <3>4. OldPair({}, row, post)
        BY <3>2, <3>3 DEF OldPair
      <3> QED BY <3>1, <3>4 DEF row, post
    <2> QED BY <2>3, <2>4
  <1>6. \A r \in Kept : held[r] \in Row /\ posts[r] \in PostRow
    BY <1>5 DEF OldPair
  <1>7. held \in [Kept -> Row] /\ posts \in [Kept -> PostRow]
    <2>1. held = [r \in Kept |-> held[r]]
      BY <1>1, Zenon DEF OldRows
    <2>2. posts = [r \in Kept |-> posts[r]]
      BY <1>2, Zenon DEF OldPosts
    <2> QED BY <1>6, <2>1, <2>2, Zenon
  <1>8. /\ Columns(release) \in {{}, {"state", "draft"}}
        /\ (release # "first") \in BOOLEAN /\ dangling \in BOOLEAN
    BY <1>2 DEF Columns
  <1>9. /\ disk \in File
        /\ disk.rows = held /\ disk.posts = posts /\ disk.columns = Columns(release)
        /\ disk.table /\ disk.aside = NoRows /\ disk.data = Kept \cup Ghost /\ disk.settings = {}
    <2>1. /\ held \in RowTables /\ posts \in PostTables /\ NoRows \in RowTables
          /\ Kept \cup Ghost \in DataSets /\ {} \in SettingSets
      BY <1>7 DEF RowTables, PostTables, DataSets, SettingSets
    <2>2. Columns(release) \in ColumnSets
      BY <1>8 DEF ColumnSets
    <2> QED BY <1>3, <1>8, <2>1, <2>2 DEF File
  <1> QED BY <1>5, <1>7, <1>8, <1>9 DEF OldIs

\* _migrate_database has nothing left to move: a second split changes nothing
LEMMA SettledStays ==
    ASSUME NEW row \in Row, NEW post \in PostRow, Settled(row, post)
    PROVE  SplitRecording(row) = row /\ SplitPost(row, post) = post
  <1> DEFINE same == [post EXCEPT !.state = @]
  <1>1. same = post
    BY DEF PostRow
  <1>2. row.status \notin {"published", "processed", "processing"}
    BY DEF Settled, NewWords
  <1>3. ~(row.status = "failed" /\ row.error # "no data")
    BY DEF Settled
  <1>4. SplitRecording(row) = row
    BY <1>2, <1>3 DEF SplitRecording
  <1>5. ~(post.id /\ post.state = "none")
    BY DEF Settled
  <1>6. SplitPost(row, post) = [post EXCEPT !.state = @]
    BY <1>2, <1>3, <1>5 DEF SplitPost
  <1> QED BY <1>1, <1>4, <1>6

\* One field of a post, and two of a row, set
LEMMA StateSet ==
    ASSUME NEW post \in PostRow,
           NEW state \in {"none", "publishing", "wp_draft", "published", "publish_failed"}
    PROVE  LET new == [post EXCEPT !.state = state]
           IN  new \in PostRow /\ new.id = post.id /\ new.title = post.title /\ new.state = state
  BY DEF PostRow

LEMMA StoppedWith ==
    ASSUME NEW row \in Row, NEW artefacts \in {"none", "fresh", "failed", "processing", "stale"}
    PROVE  LET new == [row EXCEPT !.status = "stopped", !.artefacts = artefacts]
           IN  /\ new \in Row /\ new.status = "stopped" /\ new.artefacts = artefacts
               /\ new.name = row.name
  BY DEF Row

\* Every recording of an older release has its three states after one split, and
\* is listed as it was
LEMMA SplitsWell ==
    ASSUME NEW f, OldIs(f), NEW r \in Kept,
           NEW row, row = f.rows[r], NEW post, post = f.posts[r]
    PROVE  /\ SplitRecording(row) \in Row /\ SplitPost(row, post) \in PostRow
           /\ SplitRecording(row).name = row.name /\ SplitPost(row, post).title = post.title
           /\ Settled(SplitRecording(row), SplitPost(row, post))
           /\ stage_of(SplitRecording(row), SplitPost(row, post)) = OldStage(f, r)
  <1>1. OldPair(f.columns, row, post) /\ row \in Row /\ post \in PostRow
    BY DEF OldIs, OldPair
  <1> DEFINE row2 == SplitRecording(row)
             post2 == SplitPost(row, post)
  <1>2. CASE "state" \in f.columns
    <2>1. row.status = "stopped" /\ row.error = "none" /\ (post.id <=> post.state # "none")
      BY <1>1, <1>2 DEF OldPair
    <2>2. Settled(row, post)
      BY <2>1 DEF Settled, NewWords
    <2>3. row2 = row /\ post2 = post
      BY <1>1, <2>2, SettledStays
    <2>4. OldStage(f, r) = stage_of(row, post)
      BY <1>2 DEF OldStage
    <2> QED BY <1>1, <2>2, <2>3, <2>4
  <1>3. CASE "state" \notin f.columns
    <2> DEFINE new == [post EXCEPT !.state = IF post.id
                          THEN IF post.wp = "draft" THEN "wp_draft" ELSE "published"
                          ELSE "none"]
               published == [post EXCEPT !.state = "published"]
               failed == [post EXCEPT !.state = "publish_failed"]
    <2>1. /\ post.state = "none" /\ row.artefacts = "none"
          /\ (row.error # "none") <=> (row.status = "failed")
          /\ row.status = "published" => row.link
          /\ row.link => row.status \in {"published", "processed"} \/ row.error = "WordPress"
          /\ post.id => row.link
      BY <1>1, <1>3 DEF OldPair
    <2>2. /\ new \in PostRow /\ new.id = post.id /\ new.title = post.title
          /\ new.state = IF post.id THEN IF post.wp = "draft" THEN "wp_draft" ELSE "published"
                         ELSE "none"
      <3>1. \A state \in {"none", "publishing", "wp_draft", "published", "publish_failed"} :
              LET q == [post EXCEPT !.state = state]
              IN  q \in PostRow /\ q.id = post.id /\ q.title = post.title /\ q.state = state
        BY <1>1, StateSet
      <3> QED BY <3>1
    <2>3. /\ published \in PostRow /\ published.id = post.id /\ published.title = post.title
          /\ published.state = "published"
      BY <1>1, StateSet
    <2>4. /\ failed \in PostRow /\ failed.id = post.id /\ failed.title = post.title
          /\ failed.state = "publish_failed"
      BY <1>1, StateSet
    <2>5. post2 = CASE row.status = "published" -> [new EXCEPT !.state = "published"]
                    [] row.status = "processed" /\ row.link /\ new.state = "none" ->
                          [new EXCEPT !.state = "published"]
                    [] row.status = "failed" /\ row.error = "WordPress" ->
                          [new EXCEPT !.state = "publish_failed"]
                    [] OTHER -> new
      BY <2>1 DEF SplitPost
    <2>6. [new EXCEPT !.state = "published"] = published /\ [new EXCEPT !.state = "publish_failed"] = failed
      BY <1>1 DEF PostRow
    <2>7. OldStage(f, r) = IF row.status \in {"active", "failed"} THEN row.status
                           ELSE IF post.id \/ row.link THEN "published"
                           ELSE IF row.status = "processing" THEN "stopped" ELSE row.status
      BY <1>3 DEF OldStage, HasPost
    <2> DEFINE fresh == [row EXCEPT !.status = "stopped", !.artefacts = "fresh"]
               none == [row EXCEPT !.status = "stopped", !.artefacts = "none"]
               broken == [row EXCEPT !.status = "stopped", !.artefacts = "failed"]
    <2>8. /\ fresh \in Row /\ fresh.status = "stopped" /\ fresh.artefacts = "fresh"
          /\ fresh.name = row.name
      BY <1>1, StoppedWith
    <2>9. /\ none \in Row /\ none.status = "stopped" /\ none.artefacts = "none"
          /\ none.name = row.name
      BY <1>1, StoppedWith
    <2>10. /\ broken \in Row /\ broken.status = "stopped" /\ broken.artefacts = "failed"
           /\ broken.name = row.name
      BY <1>1, StoppedWith
    <2>11. row2 = CASE row.status \in {"published", "processed"} -> fresh
                    [] row.status = "processing" -> none
                    [] row.status = "failed" /\ row.error = "WordPress" -> fresh
                    [] row.status = "failed" /\ row.error \notin {"no data", "WordPress"} -> broken
                    [] OTHER -> row
      BY DEF SplitRecording
    <2>12. post2 = CASE row.status = "published" -> published
                     [] row.status = "processed" /\ row.link /\ new.state = "none" -> published
                     [] row.status = "failed" /\ row.error = "WordPress" -> failed
                     [] OTHER -> new
      BY <2>5, <2>6
    <2>13. row.status \in {"active", "stopped", "processing", "published", "failed", "processed"}
      BY <1>1 DEF Row
    <2> HIDE DEF new, published, failed, fresh, none, broken, row2, post2
    <2>20. SUFFICES /\ row2 \in Row /\ post2 \in PostRow
                    /\ row2.name = row.name /\ post2.title = post.title
                    /\ Settled(row2, post2)
                    /\ stage_of(row2, post2) = OldStage(f, r)
      BY DEF row2, post2
    <2>21. CASE row.status = "active"
      <3>1. row2 = row /\ post2 = new
        BY <2>21, <2>11, <2>12
      <3>2. row2 \in Row /\ post2 \in PostRow /\ row2.name = row.name /\ post2.title = post.title
        BY <1>1, <2>2, <2>3, <2>4, <2>8, <2>9, <2>10, <3>1
      <3>3. Settled(row2, post2)
        BY <2>1, <2>2, <2>3, <2>4, <2>8, <2>9, <2>10, <2>21, <3>1 DEF Settled, NewWords
      <3>4. stage_of(row2, post2) = OldStage(f, r)
        BY <2>1, <2>2, <2>3, <2>4, <2>7, <2>8, <2>9, <2>10, <2>21, <3>1 DEF stage_of
      <3> QED BY <3>2, <3>3, <3>4
    <2>22. CASE row.status = "stopped"
      <3>1. row2 = row /\ post2 = new
        BY <2>22, <2>11, <2>12
      <3>2. row2 \in Row /\ post2 \in PostRow /\ row2.name = row.name /\ post2.title = post.title
        BY <1>1, <2>2, <2>3, <2>4, <2>8, <2>9, <2>10, <3>1
      <3>3. Settled(row2, post2)
        BY <2>1, <2>2, <2>3, <2>4, <2>8, <2>9, <2>10, <2>22, <3>1 DEF Settled, NewWords
      <3>4. stage_of(row2, post2) = OldStage(f, r)
        BY <2>1, <2>2, <2>3, <2>4, <2>7, <2>8, <2>9, <2>10, <2>22, <3>1 DEF stage_of
      <3> QED BY <3>2, <3>3, <3>4
    <2>23. CASE row.status = "processing"
      <3>1. row2 = none /\ post2 = new
        BY <2>23, <2>11, <2>12
      <3>2. row2 \in Row /\ post2 \in PostRow /\ row2.name = row.name /\ post2.title = post.title
        BY <1>1, <2>2, <2>3, <2>4, <2>8, <2>9, <2>10, <3>1
      <3>3. Settled(row2, post2)
        BY <2>1, <2>2, <2>3, <2>4, <2>8, <2>9, <2>10, <2>23, <3>1 DEF Settled, NewWords
      <3>4. stage_of(row2, post2) = OldStage(f, r)
        BY <2>1, <2>2, <2>3, <2>4, <2>7, <2>8, <2>9, <2>10, <2>23, <3>1 DEF stage_of
      <3> QED BY <3>2, <3>3, <3>4
    <2>24. CASE row.status = "published"
      <3>1. row2 = fresh /\ post2 = published
        BY <2>24, <2>11, <2>12
      <3>2. row2 \in Row /\ post2 \in PostRow /\ row2.name = row.name /\ post2.title = post.title
        BY <1>1, <2>2, <2>3, <2>4, <2>8, <2>9, <2>10, <3>1
      <3>3. Settled(row2, post2)
        BY <2>1, <2>2, <2>3, <2>4, <2>8, <2>9, <2>10, <2>24, <3>1 DEF Settled, NewWords
      <3>4. stage_of(row2, post2) = OldStage(f, r)
        BY <2>1, <2>2, <2>3, <2>4, <2>7, <2>8, <2>9, <2>10, <2>24, <3>1 DEF stage_of
      <3> QED BY <3>2, <3>3, <3>4
    <2>25. CASE row.status = "processed" /\ row.link /\ new.state = "none"
      <3>1. row2 = fresh /\ post2 = published
        BY <2>25, <2>11, <2>12
      <3>2. row2 \in Row /\ post2 \in PostRow /\ row2.name = row.name /\ post2.title = post.title
        BY <1>1, <2>2, <2>3, <2>4, <2>8, <2>9, <2>10, <3>1
      <3>3. Settled(row2, post2)
        BY <2>1, <2>2, <2>3, <2>4, <2>8, <2>9, <2>10, <2>25, <3>1 DEF Settled, NewWords
      <3>4. stage_of(row2, post2) = OldStage(f, r)
        BY <2>1, <2>2, <2>3, <2>4, <2>7, <2>8, <2>9, <2>10, <2>25, <3>1 DEF stage_of
      <3> QED BY <3>2, <3>3, <3>4
    <2>26. CASE row.status = "processed" /\ row.link /\ new.state # "none"
      <3>1. row2 = fresh /\ post2 = new
        BY <2>26, <2>11, <2>12
      <3>2. row2 \in Row /\ post2 \in PostRow /\ row2.name = row.name /\ post2.title = post.title
        BY <1>1, <2>2, <2>3, <2>4, <2>8, <2>9, <2>10, <3>1
      <3>3. Settled(row2, post2)
        BY <2>1, <2>2, <2>3, <2>4, <2>8, <2>9, <2>10, <2>26, <3>1 DEF Settled, NewWords
      <3>4. stage_of(row2, post2) = OldStage(f, r)
        BY <2>1, <2>2, <2>3, <2>4, <2>7, <2>8, <2>9, <2>10, <2>26, <3>1 DEF stage_of
      <3> QED BY <3>2, <3>3, <3>4
    <2>27. CASE row.status = "processed" /\ ~row.link
      <3>1. row2 = fresh /\ post2 = new
        BY <2>27, <2>11, <2>12
      <3>2. row2 \in Row /\ post2 \in PostRow /\ row2.name = row.name /\ post2.title = post.title
        BY <1>1, <2>2, <2>3, <2>4, <2>8, <2>9, <2>10, <3>1
      <3>3. Settled(row2, post2)
        BY <2>1, <2>2, <2>3, <2>4, <2>8, <2>9, <2>10, <2>27, <3>1 DEF Settled, NewWords
      <3>4. stage_of(row2, post2) = OldStage(f, r)
        BY <2>1, <2>2, <2>3, <2>4, <2>7, <2>8, <2>9, <2>10, <2>27, <3>1 DEF stage_of
      <3> QED BY <3>2, <3>3, <3>4
    <2>28. CASE row.status = "failed" /\ row.error = "WordPress"
      <3>1. row2 = fresh /\ post2 = failed
        BY <2>28, <2>11, <2>12
      <3>2. row2 \in Row /\ post2 \in PostRow /\ row2.name = row.name /\ post2.title = post.title
        BY <1>1, <2>2, <2>3, <2>4, <2>8, <2>9, <2>10, <3>1
      <3>3. Settled(row2, post2)
        BY <2>1, <2>2, <2>3, <2>4, <2>8, <2>9, <2>10, <2>28, <3>1 DEF Settled, NewWords
      <3>4. stage_of(row2, post2) = OldStage(f, r)
        BY <2>1, <2>2, <2>3, <2>4, <2>7, <2>8, <2>9, <2>10, <2>28, <3>1 DEF stage_of
      <3> QED BY <3>2, <3>3, <3>4
    <2>29. CASE row.status = "failed" /\ row.error = "no data"
      <3>1. row2 = row /\ post2 = new
        BY <2>29, <2>11, <2>12
      <3>2. row2 \in Row /\ post2 \in PostRow /\ row2.name = row.name /\ post2.title = post.title
        BY <1>1, <2>2, <2>3, <2>4, <2>8, <2>9, <2>10, <3>1
      <3>3. Settled(row2, post2)
        BY <2>1, <2>2, <2>3, <2>4, <2>8, <2>9, <2>10, <2>29, <3>1 DEF Settled, NewWords
      <3>4. stage_of(row2, post2) = OldStage(f, r)
        BY <2>1, <2>2, <2>3, <2>4, <2>7, <2>8, <2>9, <2>10, <2>29, <3>1 DEF stage_of
      <3> QED BY <3>2, <3>3, <3>4
    <2>30. CASE row.status = "failed" /\ row.error \notin {"no data", "WordPress"}
      <3>1. row2 = broken /\ post2 = new
        BY <2>30, <2>11, <2>12
      <3>2. row2 \in Row /\ post2 \in PostRow /\ row2.name = row.name /\ post2.title = post.title
        BY <1>1, <2>2, <2>3, <2>4, <2>8, <2>9, <2>10, <3>1
      <3>3. Settled(row2, post2)
        BY <2>1, <2>2, <2>3, <2>4, <2>8, <2>9, <2>10, <2>30, <3>1 DEF Settled, NewWords
      <3>4. stage_of(row2, post2) = OldStage(f, r)
        BY <2>1, <2>2, <2>3, <2>4, <2>7, <2>8, <2>9, <2>10, <2>30, <3>1 DEF stage_of
      <3> QED BY <3>2, <3>3, <3>4
    <2> QED BY <2>13, <2>21, <2>22, <2>23, <2>24, <2>25, <2>26, <2>27, <2>28, <2>29, <2>30
  <1> QED BY <1>2, <1>3

-----------------------------------------------------------------------------
\* The first start finds the file as its release left it
LEMMA MigrationInitInv ==
    ASSUME MigrationInit
    PROVE  MigrationInv
  <1>1. OldIs(disk) /\ old = disk /\ start = "down" /\ touched = {} /\ names \in Nat
    BY OldFileIs DEF MigrationInit
  <1>2. wrote = [r \in Kept |-> IF disk.posts[r].title = 0 THEN disk.rows[r].name
                                ELSE disk.posts[r].title]
    BY DEF MigrationInit
  <1>3. ASSUME NEW r \in Kept
        PROVE  disk.rows[r].name \in Nat /\ disk.posts[r].title \in Nat
    BY <1>1 DEF OldIs, OldPair, Row, PostRow
  <1>4. wrote \in [Kept -> Nat]
    BY <1>2, <1>3
  <1>5. Untouched(disk, old, touched, wrote)
    BY <1>1, <1>2 DEF Untouched, ToName
  <1> QED BY <1>1, <1>4, <1>5 DEF MigrationInv, Parts

\* One part of a start to the next
LEMMA PartsGoOn ==
    ASSUME MigrationInv, start \in Parts, start' \in Parts,
           disk' = disk \/ disk' = work',
           UNCHANGED <<names, old, before, touched, wrote>>,
           Untouched(before, old, touched, wrote) /\ InParts(start, work, old, touched, wrote)
             => InParts(start', work', old, touched, wrote),
           (/\ Done(before, old, touched, wrote) /\ work = before
            /\ start \notin {"recreate", "copy"})
             => work' = work /\ start' \notin {"recreate", "copy"}
    PROVE  MigrationInv'
  <1>1. OldIs(old)' /\ (wrote \in [Kept -> Nat] /\ names \in Nat /\ touched \subseteq Kept)'
    BY DEF MigrationInv
  <1>2. start' \in Parts /\ start' \notin {"up", "down"}
    BY DEF Parts
  <1>3. \/ Untouched(before, old, touched, wrote) /\ InParts(start, work, old, touched, wrote)
        \/ /\ Done(before, old, touched, wrote) /\ work = before /\ disk = before
           /\ start \notin {"recreate", "copy"}
    BY DEF MigrationInv
  <1>4. CASE Untouched(before, old, touched, wrote) /\ InParts(start, work, old, touched, wrote)
    <2>1. (Untouched(before, old, touched, wrote) /\ InParts(start, work, old, touched, wrote))'
      BY <1>4
    <2> QED BY <1>1, <1>2, <2>1 DEF MigrationInv
  <1>5. CASE /\ Done(before, old, touched, wrote) /\ work = before /\ disk = before
             /\ start \notin {"recreate", "copy"}
    <2>1. (Done(before, old, touched, wrote) /\ work = before /\ disk = before)'
          /\ start' \notin {"recreate", "copy"}
      BY <1>5
    <2> QED BY <1>1, <1>2, <2>1 DEF MigrationInv
  <1> QED BY <1>3, <1>4, <1>5

\* Each part of a start
LEMMA StartInv ==
    ASSUME MigrationInv, Start
    PROVE  MigrationInv'
  <1>1. /\ start = "down" /\ start' = "words" /\ work' = disk /\ before' = disk
        /\ UNCHANGED <<disk, names, old, touched, wrote>>
    BY DEF Start
  <1>2. OldIs(old)' /\ (wrote \in [Kept -> Nat] /\ names \in Nat /\ touched \subseteq Kept)'
    BY <1>1 DEF MigrationInv
  <1>3. start' \in Parts /\ start' \notin {"up", "down", "recreate", "copy"}
    BY <1>1 DEF Parts
  <1>4. CASE Untouched(disk, old, touched, wrote)
    <2>1. Untouched(before, old, touched, wrote)'
      BY <1>1, <1>4
    <2>2. InParts(start, work, old, touched, wrote)'
      BY <1>1, <1>4 DEF InParts, Untouched
    <2> QED BY <1>2, <1>3, <2>1, <2>2 DEF MigrationInv
  <1>5. CASE Done(disk, old, touched, wrote)
    <2>1. (Done(before, old, touched, wrote) /\ work = before /\ disk = before)'
      BY <1>1, <1>5
    <2> QED BY <1>2, <1>3, <2>1 DEF MigrationInv
  <1> QED BY <1>1, <1>4, <1>5 DEF MigrationInv

\* A file of an older release that could not be opened is as it was found
LEMMA OldFacts ==
    ASSUME MigrationInv
    PROVE  /\ old \in File /\ old.table /\ old.aside = NoRows /\ old.rows \in [Kept -> Row]
           /\ old.posts \in PostTables /\ old.settings = {} /\ Kept \subseteq old.data
           /\ old.rows \in RowTables
  <1>1. OldIs(old)
    BY DEF MigrationInv
  <1> QED BY <1>1 DEF OldIs, File, RowTables

\* recordings put aside: the rows are those it found
LEMMA RenameInv ==
    ASSUME MigrationInv, Rename
    PROVE  MigrationInv'
  <1> DEFINE db == [work EXCEPT !.aside = work.rows, !.rows = NoRows, !.table = FALSE]
  <1>1. /\ start = "words" /\ start' = "recreate" /\ work' = db /\ (disk' = disk \/ disk' = db)
        /\ UNCHANGED <<names, old, before, touched, wrote>>
    BY DEF Rename, Goes
  <1>2. ASSUME Untouched(before, old, touched, wrote), InParts(start, work, old, touched, wrote)
        PROVE  InParts("recreate", db, old, touched, wrote)
    <2>1. work = old
      BY <1>1, <1>2 DEF InParts
    <2>2. NoRows \in RowTables
      BY DEF RowTables
    <2>3. AsFound(db, old) /\ db.aside = old.rows
      BY <2>1, <2>2, OldFacts DEF AsFound, File
    <2> QED BY <2>3 DEF InParts
  <1>3. ASSUME Done(before, old, touched, wrote), work = before,
               start \notin {"recreate", "copy"}
        PROVE  db = work /\ "recreate" \notin {"recreate", "copy"}
    <2>1. work.words
      BY <1>3 DEF Done, Moved
    <2> QED BY <2>1 DEF Rename
  <1>4. start \in Parts /\ "recreate" \in Parts
    BY <1>1 DEF Parts
  <1> HIDE DEF db
  <1>5. Untouched(before, old, touched, wrote) /\ InParts(start, work, old, touched, wrote)
          => InParts(start', work', old, touched, wrote)
    BY <1>1, <1>2
  <1>6. (/\ Done(before, old, touched, wrote) /\ work = before
         /\ start \notin {"recreate", "copy"})
          => work' = work /\ start' \notin {"recreate", "copy"}
    BY <1>1, <1>3
  <1>7. start' \in Parts /\ (disk' = disk \/ disk' = work')
    BY <1>1, <1>4
  <1> QED BY <1>1, <1>4, <1>5, <1>6, <1>7, PartsGoOn

\* The new table, and still the rows put aside
LEMMA RecreateInv ==
    ASSUME MigrationInv, Recreate
    PROVE  MigrationInv'
  <1> DEFINE db == [work EXCEPT !.table = TRUE, !.words = TRUE]
  <1>1. /\ start = "recreate" /\ start' = "copy" /\ work' = db /\ (disk' = disk \/ disk' = db)
        /\ UNCHANGED <<names, old, before, touched, wrote>>
    BY DEF Recreate, Goes
  <1>2. ASSUME Untouched(before, old, touched, wrote), InParts(start, work, old, touched, wrote)
        PROVE  InParts("copy", db, old, touched, wrote)
    <2>1. AsFound(work, old) /\ work.aside = old.rows
      BY <1>1, <1>2 DEF InParts
    <2>2. AsFound(db, old) /\ db.words /\ db.table /\ db.aside = old.rows
      BY <2>1 DEF AsFound, File
    <2> QED BY <2>2 DEF InParts
  <1>3. ASSUME Done(before, old, touched, wrote), work = before,
               start \notin {"recreate", "copy"}
        PROVE  db = work /\ "copy" \notin {"recreate", "copy"}
    BY <1>1, <1>3
  <1>4. start \in Parts /\ "copy" \in Parts
    BY <1>1 DEF Parts
  <1> HIDE DEF db
  <1>5. Untouched(before, old, touched, wrote) /\ InParts(start, work, old, touched, wrote)
          => InParts(start', work', old, touched, wrote)
    BY <1>1, <1>2
  <1>6. (/\ Done(before, old, touched, wrote) /\ work = before
         /\ start \notin {"recreate", "copy"})
          => work' = work /\ start' \notin {"recreate", "copy"}
    BY <1>1, <1>3
  <1>7. start' \in Parts /\ (disk' = disk \/ disk' = work')
    BY <1>1, <1>4
  <1> QED BY <1>1, <1>4, <1>5, <1>6, <1>7, PartsGoOn

\* The rows are back, word for word
LEMMA CopyInv ==
    ASSUME MigrationInv, Copy
    PROVE  MigrationInv'
  <1> DEFINE db == [work EXCEPT !.rows = work.aside, !.aside = NoRows]
  <1>1. /\ start = "copy" /\ start' = "tables" /\ work' = db /\ (disk' = disk \/ disk' = db)
        /\ UNCHANGED <<names, old, before, touched, wrote>>
    BY DEF Copy, Writes
  <1>2. ASSUME Untouched(before, old, touched, wrote), InParts(start, work, old, touched, wrote)
        PROVE  InParts("tables", db, old, touched, wrote)
    <2>1. AsFound(work, old) /\ work.words /\ work.table /\ work.aside = old.rows
      BY <1>1, <1>2 DEF InParts
    <2>2. NoRows \in RowTables
      BY DEF RowTables
    <2>3. HasRows(db, old)
      BY <2>1, <2>2 DEF HasRows, AsFound, File
    <2> QED BY <2>3 DEF InParts
  <1>3. ASSUME Done(before, old, touched, wrote), work = before,
               start \notin {"recreate", "copy"}
        PROVE  db = work /\ "tables" \notin {"recreate", "copy"}
    BY <1>1, <1>3
  <1>4. start \in Parts /\ "tables" \in Parts
    BY <1>1 DEF Parts
  <1> HIDE DEF db
  <1>5. Untouched(before, old, touched, wrote) /\ InParts(start, work, old, touched, wrote)
          => InParts(start', work', old, touched, wrote)
    BY <1>1, <1>2
  <1>6. (/\ Done(before, old, touched, wrote) /\ work = before
         /\ start \notin {"recreate", "copy"})
          => work' = work /\ start' \notin {"recreate", "copy"}
    BY <1>1, <1>3
  <1>7. start' \in Parts /\ (disk' = disk \/ disk' = work')
    BY <1>1, <1>4
  <1> QED BY <1>1, <1>4, <1>5, <1>6, <1>7, PartsGoOn

\* A file that knows the words already is left alone
LEMMA HasWordsInv ==
    ASSUME MigrationInv, HasWords
    PROVE  MigrationInv'
  <1> DEFINE db == work
  <1>1. /\ start = "words" /\ start' = "tables" /\ work' = db /\ (disk' = disk \/ disk' = db)
        /\ UNCHANGED <<names, old, before, touched, wrote>>
    BY DEF HasWords, Skips, Goes
  <1>2. ASSUME Untouched(before, old, touched, wrote), InParts(start, work, old, touched, wrote)
        PROVE  InParts("tables", db, old, touched, wrote)
    <2>1. work = old
      BY <1>1, <1>2 DEF InParts
    <2>2. work.table => work.words
      BY DEF HasWords
    <2>3. HasRows(work, old)
      BY <2>1, <2>2, OldFacts DEF HasRows, AsFound
    <2> QED BY <2>3 DEF InParts
  <1>3. ASSUME Done(before, old, touched, wrote), work = before,
               start \notin {"recreate", "copy"}
        PROVE  db = work /\ "tables" \notin {"recreate", "copy"}
    OBVIOUS
  <1>4. start \in Parts /\ "tables" \in Parts
    BY <1>1 DEF Parts
  <1> HIDE DEF db
  <1>5. Untouched(before, old, touched, wrote) /\ InParts(start, work, old, touched, wrote)
          => InParts(start', work', old, touched, wrote)
    BY <1>1, <1>2
  <1>6. (/\ Done(before, old, touched, wrote) /\ work = before
         /\ start \notin {"recreate", "copy"})
          => work' = work /\ start' \notin {"recreate", "copy"}
    BY <1>1, <1>3
  <1>7. start' \in Parts /\ (disk' = disk \/ disk' = work')
    BY <1>1, <1>4
  <1> QED BY <1>1, <1>4, <1>5, <1>6, <1>7, PartsGoOn

\* References to the table that was dropped, put right
LEMMA TablesInv ==
    ASSUME MigrationInv, Tables
    PROVE  MigrationInv'
  <1> DEFINE db == IF work.dangling THEN [work EXCEPT !.dangling = FALSE] ELSE work
  <1>1. /\ start = "tables" /\ start' = "columns" /\ work' = db /\ (disk' = disk \/ disk' = db)
        /\ UNCHANGED <<names, old, before, touched, wrote>>
    BY DEF Tables, RepairsReferences, Writes, Skips, Goes
  <1>2. ASSUME Untouched(before, old, touched, wrote), InParts(start, work, old, touched, wrote)
        PROVE  InParts("columns", db, old, touched, wrote)
    <2>1. HasRows(work, old)
      BY <1>1, <1>2 DEF InParts
    <2>2. HasRows(db, old) /\ ~db.dangling
      BY <2>1 DEF HasRows, AsFound, File
    <2> QED BY <2>2 DEF InParts
  <1>3. ASSUME Done(before, old, touched, wrote), work = before,
               start \notin {"recreate", "copy"}
        PROVE  db = work /\ "columns" \notin {"recreate", "copy"}
    <2>1. ~work.dangling
      BY <1>3 DEF Done, Moved
    <2> QED BY <2>1
  <1>4. start \in Parts /\ "columns" \in Parts
    BY <1>1 DEF Parts
  <1> HIDE DEF db
  <1>5. Untouched(before, old, touched, wrote) /\ InParts(start, work, old, touched, wrote)
          => InParts(start', work', old, touched, wrote)
    BY <1>1, <1>2
  <1>6. (/\ Done(before, old, touched, wrote) /\ work = before
         /\ start \notin {"recreate", "copy"})
          => work' = work /\ start' \notin {"recreate", "copy"}
    BY <1>1, <1>3
  <1>7. start' \in Parts /\ (disk' = disk \/ disk' = work')
    BY <1>1, <1>4
  <1> QED BY <1>1, <1>4, <1>5, <1>6, <1>7, PartsGoOn

\* Columns are added to a table that is there, at a first start; at a later one
\* there are none to add
LEMMA AddColumnsInv ==
    ASSUME MigrationInv, AddColumns
    PROVE  MigrationInv'
  <1> DEFINE db == [work EXCEPT !.columns = @ \cup {"state", "draft"}]
  <1>1. /\ start = "columns" /\ start' = "split" /\ work' = db /\ (disk' = disk \/ disk' = db)
        /\ UNCHANGED <<names, old, before, touched, wrote>>
    <2>1. work.table
      <3>1. \/ Done(work, old, touched, wrote)
            \/ start = "columns" => HasRows(work, old)
        BY DEF MigrationInv, InParts, AddColumns, Goes, Parts
      <3> QED BY <3>1 DEF Done, Moved, HasRows, AddColumns, Goes
    <2> QED BY <2>1 DEF AddColumns, Goes
  <1>2. ASSUME Untouched(before, old, touched, wrote), InParts(start, work, old, touched, wrote)
        PROVE  InParts("split", db, old, touched, wrote)
    <2>1. HasRows(work, old) /\ ~work.dangling
      BY <1>1, <1>2 DEF InParts
    <2>2. work.columns \cup {"state", "draft"} \in ColumnSets
      BY <2>1 DEF HasRows, AsFound, File, ColumnSets
    <2> DEFINE columns == work.columns \cup {"state", "draft"}
    <2>3. {"state", "draft"} \subseteq columns /\ db = [work EXCEPT !.columns = columns]
      OBVIOUS
    <2> HIDE DEF columns
    <2>4. HasRows(db, old) /\ ~db.dangling /\ db.columns = columns
      BY <2>1, <2>2, <2>3 DEF HasRows, AsFound, File, columns
    <2> QED BY <2>3, <2>4 DEF InParts
  <1>3. ASSUME Done(before, old, touched, wrote), work = before,
               start \notin {"recreate", "copy"}
        PROVE  db = work /\ "split" \notin {"recreate", "copy"}
    <2>1. work \in File /\ {"state", "draft"} \subseteq work.columns
      BY <1>3 DEF Done, Moved
    <2>2. work.columns \cup {"state", "draft"} = work.columns
      BY <2>1
    <2>3. db = [work EXCEPT !.columns = work.columns]
      BY <2>2
    <2> QED BY <2>1, <2>3 DEF File
  <1>4. start \in Parts /\ "split" \in Parts
    BY <1>1 DEF Parts
  <1> HIDE DEF db
  <1>5. Untouched(before, old, touched, wrote) /\ InParts(start, work, old, touched, wrote)
          => InParts(start', work', old, touched, wrote)
    BY <1>1, <1>2
  <1>6. (/\ Done(before, old, touched, wrote) /\ work = before
         /\ start \notin {"recreate", "copy"})
          => work' = work /\ start' \notin {"recreate", "copy"}
    BY <1>1, <1>3
  <1>7. start' \in Parts /\ (disk' = disk \/ disk' = work')
    BY <1>1, <1>4
  <1> QED BY <1>1, <1>4, <1>5, <1>6, <1>7, PartsGoOn

\* Every row is a recording's
LEMMA RowsAreThere ==
    ASSUME work.rows \in [Kept -> Row]
    PROVE  Recordings = Kept /\ \A r \in Kept : \A row : Of(r, row) = row
  <1>1. Gone.status = "gone"
    BY DEF Gone
  <1>2. ASSUME NEW r \in Kept
        PROVE  work.rows[r].status # "gone"
    BY DEF Row
  <1>3. \A r \in Kept : work.rows[r] # Gone
    BY <1>1, <1>2
  <1> QED BY <1>3 DEF Recordings, Of

\* Names, titles and keys are not what a recording is listed by
LEMMA MovedStays ==
    ASSUME NEW f, NEW worked, NEW g, Moved(g, f, worked), NEW h \in File,
           h.words, h.table, ~h.dangling, h.aside = NoRows, Kept \subseteq h.data,
           {"state", "draft"} \subseteq h.columns, h.rows \in [Kept -> Row],
           NEW more, worked \subseteq more,
           \A r \in Kept :
               \/ r \in more /\ Settled(h.rows[r], h.posts[r])
               \/ /\ h.rows[r].status = g.rows[r].status /\ h.rows[r].error = g.rows[r].error
                  /\ h.rows[r].artefacts = g.rows[r].artefacts
                  /\ h.posts[r].id = g.posts[r].id /\ h.posts[r].state = g.posts[r].state
    PROVE  Moved(h, f, more)
  <1>1. ASSUME NEW r \in Kept
        PROVE  /\ Settled(h.rows[r], h.posts[r])
               /\ r \notin more => stage_of(h.rows[r], h.posts[r]) = OldStage(f, r)
    <2> DEFINE same == /\ h.rows[r].status = g.rows[r].status
                       /\ h.rows[r].error = g.rows[r].error
                       /\ h.rows[r].artefacts = g.rows[r].artefacts
                       /\ h.posts[r].id = g.posts[r].id /\ h.posts[r].state = g.posts[r].state
    <2>1. CASE r \in more /\ Settled(h.rows[r], h.posts[r])
      BY <2>1
    <2>2. CASE same
      <3>1. same
        BY <2>2
      <3>2. /\ Settled(g.rows[r], g.posts[r])
            /\ r \notin more => stage_of(g.rows[r], g.posts[r]) = OldStage(f, r)
        BY DEF Moved
      <3>3. Settled(h.rows[r], h.posts[r])
        BY <3>1, <3>2 DEF Settled
      <3>4. stage_of(h.rows[r], h.posts[r]) = stage_of(g.rows[r], g.posts[r])
        BY <3>1 DEF stage_of
      <3> QED BY <3>2, <3>3, <3>4
    <2> QED BY <2>1, <2>2
  <1> QED BY <1>1 DEF Moved

\* The same, where no more recordings have been worked on
LEMMA MovedAlike ==
    ASSUME NEW f, NEW worked, NEW g, Moved(g, f, worked), NEW h \in File,
           h.words, h.table, ~h.dangling, h.aside = NoRows, Kept \subseteq h.data,
           {"state", "draft"} \subseteq h.columns, h.rows \in [Kept -> Row],
           \A r \in Kept :
               /\ h.rows[r].status = g.rows[r].status /\ h.rows[r].error = g.rows[r].error
               /\ h.rows[r].artefacts = g.rows[r].artefacts
               /\ h.posts[r].id = g.posts[r].id /\ h.posts[r].state = g.posts[r].state
    PROVE  Moved(h, f, worked)
  <1>1. \A r \in Kept :
          \/ r \in worked /\ Settled(h.rows[r], h.posts[r])
          \/ /\ h.rows[r].status = g.rows[r].status /\ h.rows[r].error = g.rows[r].error
             /\ h.rows[r].artefacts = g.rows[r].artefacts
             /\ h.posts[r].id = g.posts[r].id /\ h.posts[r].state = g.posts[r].state
    OBVIOUS
  <1>2. worked \subseteq worked
    OBVIOUS
  <1> QED BY <1>1, <1>2, MovedStays, Zenon

\* A row with its key, or its name, set
LEMMA KeySet ==
    ASSUME NEW row \in Row
    PROVE  LET new == [row EXCEPT !.key = "event"]
           IN  /\ new \in Row /\ new.name = row.name /\ new.status = row.status
               /\ new.error = row.error /\ new.artefacts = row.artefacts
  BY DEF Row

LEMMA NameSet ==
    ASSUME NEW row \in Row, NEW name \in Nat
    PROVE  LET new == [row EXCEPT !.name = name]
           IN  /\ new \in Row /\ new.name = name /\ new.status = row.status
               /\ new.error = row.error /\ new.artefacts = row.artefacts
  BY DEF Row

\* The split: at a first start of every row, at a later one of none
LEMMA SplitsInv ==
    ASSUME MigrationInv, Splits
    PROVE  MigrationInv'
  <1> DEFINE rows2 == [r \in Kept |-> SplitRecording(work.rows[r])]
             posts2 == [r \in Kept |-> SplitPost(work.rows[r], work.posts[r])]
             db == [work EXCEPT !.rows = rows2, !.posts = posts2]
  <1>1. /\ start = "split" /\ start' = "key" /\ work' = db /\ (disk' = disk \/ disk' = db)
        /\ UNCHANGED <<names, old, before, touched, wrote>>
    BY DEF Splits, Skips, Writes, Goes
  <1>2. ASSUME Untouched(before, old, touched, wrote), InParts(start, work, old, touched, wrote)
        PROVE  InParts("key", db, old, touched, wrote)
    <2>1. /\ HasRows(work, old) /\ ~work.dangling /\ {"state", "draft"} \subseteq work.columns
      BY <1>1, <1>2 DEF InParts
    <2>2. OldIs(old) /\ ToName(old, wrote)
      BY <1>2 DEF MigrationInv, Untouched
    <2>3. work.rows = old.rows /\ work.posts = old.posts /\ work \in File
      BY <2>1 DEF HasRows, AsFound
    <2>4. ASSUME NEW r \in Kept
          PROVE  /\ rows2[r] \in Row /\ posts2[r] \in PostRow
                 /\ rows2[r].name = old.rows[r].name /\ posts2[r].title = old.posts[r].title
                 /\ Settled(rows2[r], posts2[r])
                 /\ stage_of(rows2[r], posts2[r]) = OldStage(old, r)
      <3>1. rows2[r] = SplitRecording(old.rows[r]) /\ posts2[r] = SplitPost(old.rows[r], old.posts[r])
        BY <2>3
      <3> HIDE DEF rows2, posts2
      <3> QED BY <2>2, <3>1, SplitsWell
    <2>5. rows2 \in [Kept -> Row] /\ posts2 \in [Kept -> PostRow]
      BY <2>4
    <2> HIDE DEF rows2, posts2
    <2>6. rows2 \in RowTables /\ posts2 \in PostTables
      BY <2>5 DEF RowTables, PostTables
    <2>7. /\ db \in File /\ db.rows = rows2 /\ db.posts = posts2 /\ db.words = work.words
          /\ db.table = work.table /\ db.aside = work.aside /\ db.columns = work.columns
          /\ db.data = work.data /\ db.dangling = work.dangling /\ db.settings = work.settings
      BY <2>3, <2>6 DEF File
    <2>8. /\ work.words /\ work.table /\ work.aside = NoRows /\ work.settings = {}
          /\ Kept \subseteq work.data
      BY <2>1, OldFacts DEF HasRows, AsFound
    <2> HIDE DEF db
    <2>9. Moved(db, old, touched)
      BY <2>1, <2>4, <2>5, <2>7, <2>8 DEF Moved
    <2>10. ToName(db, wrote)
      BY <2>2, <2>4, <2>7 DEF ToName
    <2> QED BY <2>7, <2>8, <2>9, <2>10 DEF InParts
  <1>3. ASSUME Done(before, old, touched, wrote), work = before,
               start \notin {"recreate", "copy"}
        PROVE  db = work /\ "key" \notin {"recreate", "copy"}
    <2>1. Moved(work, old, touched)
      BY <1>3 DEF Done
    <2>2. work \in File /\ work.rows \in [Kept -> Row] /\ work.posts \in [Kept -> PostRow]
      BY <2>1 DEF Moved, File, PostTables
    <2>3. ASSUME NEW r \in Kept
          PROVE  /\ SplitRecording(work.rows[r]) = work.rows[r]
                 /\ SplitPost(work.rows[r], work.posts[r]) = work.posts[r]
      <3>1. work.rows[r] \in Row /\ work.posts[r] \in PostRow /\ Settled(work.rows[r], work.posts[r])
        BY <2>1, <2>2 DEF Moved
      <3> QED BY <3>1, SettledStays
    <2>4. rows2 = work.rows /\ posts2 = work.posts
      BY <2>2, <2>3
    <2> HIDE DEF rows2, posts2
    <2> QED BY <2>2, <2>4 DEF File
  <1>4. start \in Parts /\ "key" \in Parts
    BY <1>1 DEF Parts
  <1> HIDE DEF db
  <1>5. Untouched(before, old, touched, wrote) /\ InParts(start, work, old, touched, wrote)
          => InParts(start', work', old, touched, wrote)
    BY <1>1, <1>2
  <1>6. (/\ Done(before, old, touched, wrote) /\ work = before
         /\ start \notin {"recreate", "copy"})
          => work' = work /\ start' \notin {"recreate", "copy"}
    BY <1>1, <1>3
  <1>7. start' \in Parts /\ (disk' = disk \/ disk' = work')
    BY <1>1, <1>4
  <1> QED BY <1>1, <1>4, <1>5, <1>6, <1>7, PartsGoOn

\* The event keys change nothing of how a recording is listed
LEMMA AddEventKeyInv ==
    ASSUME MigrationInv, AddEventKey
    PROVE  MigrationInv'
  <1> DEFINE columns == work.columns \cup {"key"}
             rows2 == IF "key" \in work.columns \/ Recordings = {} THEN work.rows
                      ELSE [r \in Kept |-> Of(r, [work.rows[r] EXCEPT !.key = "event"])]
             db == [work EXCEPT !.columns = columns, !.rows = rows2]
  <1>1. /\ start = "key" /\ start' = "titles" /\ work' = db /\ (disk' = disk \/ disk' = db)
        /\ UNCHANGED <<names, old, before, touched, wrote>>
    <2>1. work \in File
      <3>1. Done(work, old, touched, wrote) \/ (start = "key" => Moved(work, old, touched))
        BY DEF MigrationInv, InParts, AddEventKey, Goes, Writes, Parts
      <3> QED BY <3>1 DEF Done, Moved, AddEventKey, Goes, Writes
    <2>2. CASE "key" \in work.columns \/ Recordings = {}
      <3>1. db = [work EXCEPT !.columns = columns]
        BY <2>1, <2>2 DEF File
      <3> QED BY <2>2, <3>1 DEF AddEventKey, Goes
    <2>3. CASE ~("key" \in work.columns \/ Recordings = {})
      <3>1. db = [work EXCEPT !.columns = columns,
                      !.rows = [r \in Kept |-> Of(r, [work.rows[r] EXCEPT !.key = "event"])]]
        BY <2>3
      <3> QED BY <2>3, <3>1 DEF AddEventKey, Writes
    <2> QED BY <2>2, <2>3
  <1>2. ASSUME Untouched(before, old, touched, wrote), InParts(start, work, old, touched, wrote)
        PROVE  InParts("titles", db, old, touched, wrote)
    <2>1. Moved(work, old, touched) /\ ToName(work, wrote) /\ work.settings = {}
      BY <1>1, <1>2 DEF InParts
    <2>2. /\ work \in File /\ work.rows \in [Kept -> Row] /\ work.words /\ work.table
          /\ ~work.dangling /\ work.aside = NoRows /\ Kept \subseteq work.data
          /\ {"state", "draft"} \subseteq work.columns
      BY <2>1 DEF Moved
    <2>3. ASSUME NEW r \in Kept
          PROVE  /\ rows2[r] \in Row /\ rows2[r].name = work.rows[r].name
                 /\ rows2[r].status = work.rows[r].status /\ rows2[r].error = work.rows[r].error
                 /\ rows2[r].artefacts = work.rows[r].artefacts
      <3>1. rows2[r] \in {work.rows[r], [work.rows[r] EXCEPT !.key = "event"]}
        BY <2>2, RowsAreThere
      <3> HIDE DEF rows2
      <3>2. work.rows[r] \in Row
        BY <2>2
      <3>3. CASE rows2[r] = work.rows[r]
        BY <3>2, <3>3
      <3>4. CASE rows2[r] = [work.rows[r] EXCEPT !.key = "event"]
        BY <3>2, <3>4, KeySet
      <3> QED BY <3>1, <3>3, <3>4
    <2>4. rows2 \in [Kept -> Row]
      <3>1. rows2 = [r \in Kept |-> rows2[r]]
        BY <2>2
      <3> HIDE DEF rows2
      <3> QED BY <2>3, <3>1
    <2>5. /\ columns \in ColumnSets /\ "key" \in columns /\ {"state", "draft"} \subseteq columns
      BY <2>2 DEF File, ColumnSets
    <2> HIDE DEF rows2, columns
    <2>6. rows2 \in RowTables
      BY <2>4 DEF RowTables
    <2>7. /\ db \in File /\ db.rows = rows2 /\ db.posts = work.posts /\ db.words = work.words
          /\ db.table = work.table /\ db.aside = work.aside /\ db.columns = columns
          /\ db.data = work.data /\ db.dangling = work.dangling /\ db.settings = work.settings
      BY <2>2, <2>5, <2>6 DEF File
    <2> HIDE DEF db
    <2>8. \A r \in Kept :
             /\ db.rows[r].status = work.rows[r].status /\ db.rows[r].error = work.rows[r].error
             /\ db.rows[r].artefacts = work.rows[r].artefacts
             /\ db.posts[r].id = work.posts[r].id /\ db.posts[r].state = work.posts[r].state
      BY <2>3, <2>7
    <2>9. Moved(db, old, touched)
      BY <2>1, <2>2, <2>4, <2>5, <2>7, <2>8, MovedAlike
    <2>10. ToName(db, wrote)
      BY <2>1, <2>3, <2>7 DEF ToName
    <2> QED BY <2>1, <2>5, <2>7, <2>9, <2>10 DEF InParts
  <1>3. ASSUME Done(before, old, touched, wrote), work = before,
               start \notin {"recreate", "copy"}
        PROVE  db = work /\ "titles" \notin {"recreate", "copy"}
    <2>1. work \in File /\ "key" \in work.columns
      BY <1>3 DEF Done, Moved
    <2>2. rows2 = work.rows /\ columns = work.columns
      BY <2>1
    <2> HIDE DEF rows2, columns
    <2> QED BY <2>1, <2>2 DEF File
  <1>4. start \in Parts /\ "titles" \in Parts
    BY <1>1 DEF Parts
  <1> HIDE DEF db
  <1>5. Untouched(before, old, touched, wrote) /\ InParts(start, work, old, touched, wrote)
          => InParts(start', work', old, touched, wrote)
    BY <1>1, <1>2
  <1>6. (/\ Done(before, old, touched, wrote) /\ work = before
         /\ start \notin {"recreate", "copy"})
          => work' = work /\ start' \notin {"recreate", "copy"}
    BY <1>1, <1>3
  <1>7. start' \in Parts /\ (disk' = disk \/ disk' = work')
    BY <1>1, <1>4
  <1> QED BY <1>1, <1>4, <1>5, <1>6, <1>7, PartsGoOn

\* A title typed into a draft becomes the recording's name, once
LEMMA UnifyInv ==
    ASSUME MigrationInv, Unify
    PROVE  MigrationInv'
  <1> DEFINE settings == work.settings \cup {"titles_unified"}
             rows2 == [r \in Kept |-> Titled(r)]
             db == IF "titles_unified" \in work.settings THEN work
                   ELSE [work EXCEPT !.settings = settings, !.rows = rows2]
  <1>1. /\ start = "titles" /\ start' = "orphans" /\ work' = db /\ (disk' = disk \/ disk' = db)
        /\ UNCHANGED <<names, old, before, touched, wrote>>
    BY DEF Unify, Skips, Goes, Writes
  <1>2. ASSUME Untouched(before, old, touched, wrote), InParts(start, work, old, touched, wrote)
        PROVE  InParts("orphans", db, old, touched, wrote)
    <2>1. /\ Moved(work, old, touched) /\ ToName(work, wrote) /\ work.settings = {}
          /\ "key" \in work.columns
      BY <1>1, <1>2 DEF InParts
    <2>2. /\ work \in File /\ work.rows \in [Kept -> Row] /\ work.words /\ work.table
          /\ ~work.dangling /\ work.aside = NoRows /\ Kept \subseteq work.data
          /\ {"state", "draft"} \subseteq work.columns /\ work.posts \in [Kept -> PostRow]
      BY <2>1 DEF Moved, File, PostTables
    <2>3. ASSUME NEW r \in Kept
          PROVE  /\ rows2[r] \in Row /\ rows2[r].name = wrote[r]
                 /\ rows2[r].status = work.rows[r].status /\ rows2[r].error = work.rows[r].error
                 /\ rows2[r].artefacts = work.rows[r].artefacts
      <3> DEFINE name == IF work.posts[r].title = 0 THEN work.rows[r].name ELSE work.posts[r].title
      <3>1. rows2[r] = [work.rows[r] EXCEPT !.name = name]
        BY <2>2, RowsAreThere DEF Titled
      <3>2. name \in Nat /\ wrote[r] = name
        BY <2>1, <2>2 DEF ToName, Row, PostRow
      <3> HIDE DEF rows2, name
      <3>3. work.rows[r] \in Row
        BY <2>2
      <3> QED BY <3>1, <3>2, <3>3, NameSet
    <2>4. rows2 \in [Kept -> Row]
      BY <2>3
    <2>5. settings = {"titles_unified"} /\ settings \in SettingSets
      BY <2>1 DEF SettingSets
    <2>6. db = [work EXCEPT !.settings = settings, !.rows = rows2]
      BY <2>1
    <2> HIDE DEF rows2, settings
    <2>7. rows2 \in RowTables
      BY <2>4 DEF RowTables
    <2>8. /\ db \in File /\ db.rows = rows2 /\ db.posts = work.posts /\ db.words = work.words
          /\ db.table = work.table /\ db.aside = work.aside /\ db.columns = work.columns
          /\ db.data = work.data /\ db.dangling = work.dangling /\ db.settings = settings
      BY <2>2, <2>5, <2>6, <2>7 DEF File
    <2> HIDE DEF db
    <2>9. \A r \in Kept :
             /\ db.rows[r].status = work.rows[r].status /\ db.rows[r].error = work.rows[r].error
             /\ db.rows[r].artefacts = work.rows[r].artefacts
             /\ db.posts[r].id = work.posts[r].id /\ db.posts[r].state = work.posts[r].state
      BY <2>3, <2>8
    <2>10. Moved(db, old, touched)
      BY <2>1, <2>2, <2>4, <2>8, <2>9, MovedAlike
    <2>11. Named(db, wrote)
      BY <2>3, <2>8 DEF Named
    <2> QED BY <2>1, <2>5, <2>8, <2>10, <2>11 DEF InParts
  <1>3. ASSUME Done(before, old, touched, wrote), work = before,
               start \notin {"recreate", "copy"}
        PROVE  db = work /\ "orphans" \notin {"recreate", "copy"}
    BY <1>3 DEF Done
  <1>4. start \in Parts /\ "orphans" \in Parts
    BY <1>1 DEF Parts
  <1> HIDE DEF db
  <1>5. Untouched(before, old, touched, wrote) /\ InParts(start, work, old, touched, wrote)
          => InParts(start', work', old, touched, wrote)
    BY <1>1, <1>2
  <1>6. (/\ Done(before, old, touched, wrote) /\ work = before
         /\ start \notin {"recreate", "copy"})
          => work' = work /\ start' \notin {"recreate", "copy"}
    BY <1>1, <1>3
  <1>7. start' \in Parts /\ (disk' = disk \/ disk' = work')
    BY <1>1, <1>4
  <1> QED BY <1>1, <1>4, <1>5, <1>6, <1>7, PartsGoOn

\* What is removed is of recordings that are not there, as all that are kept are
LEMMA RemoveOrphansInv ==
    ASSUME MigrationInv, RemoveOrphans
    PROVE  MigrationInv'
  <1> DEFINE settings == work.settings \cup {"orphans_removed"}
             data == work.data \cap Recordings
             db == IF "orphans_removed" \in work.settings THEN work
                   ELSE [work EXCEPT !.settings = settings, !.data = data]
  <1>1. /\ start = "orphans" /\ start' = "commit" /\ work' = db /\ (disk' = disk \/ disk' = db)
        /\ UNCHANGED <<names, old, before, touched, wrote>>
    BY DEF RemoveOrphans, Skips, Goes, Writes
  <1>2. ASSUME Untouched(before, old, touched, wrote), InParts(start, work, old, touched, wrote)
        PROVE  InParts("commit", db, old, touched, wrote)
    <2>1. /\ Moved(work, old, touched) /\ Named(work, wrote) /\ "key" \in work.columns
          /\ work.settings = {"titles_unified"}
      BY <1>1, <1>2 DEF InParts
    <2>2. /\ work \in File /\ work.rows \in [Kept -> Row] /\ work.words /\ work.table
          /\ ~work.dangling /\ work.aside = NoRows /\ Kept \subseteq work.data
          /\ {"state", "draft"} \subseteq work.columns
      BY <2>1 DEF Moved
    <2>3. data = Kept
      BY <2>2, RowsAreThere
    <2>4. data \in DataSets
      BY <2>3 DEF DataSets
    <2>5. settings = {"titles_unified", "orphans_removed"} /\ settings \in SettingSets
      BY <2>1 DEF SettingSets
    <2>6. db = [work EXCEPT !.settings = settings, !.data = data]
      BY <2>1
    <2> HIDE DEF data, settings
    <2>8. /\ db \in File /\ db.rows = work.rows /\ db.posts = work.posts /\ db.words = work.words
          /\ db.table = work.table /\ db.aside = work.aside /\ db.columns = work.columns
          /\ db.data = data /\ db.dangling = work.dangling /\ db.settings = settings
      BY <2>2, <2>4, <2>5, <2>6 DEF File
    <2> HIDE DEF db
    <2>10. Moved(db, old, touched)
      BY <2>1, <2>2, <2>3, <2>8, MovedAlike
    <2>11. Named(db, wrote)
      BY <2>1, <2>8 DEF Named
    <2>12. Done(db, old, touched, wrote)
      BY <2>1, <2>3, <2>5, <2>8, <2>10, <2>11 DEF Done
    <2> QED BY <2>12 DEF InParts
  <1>3. ASSUME Done(before, old, touched, wrote), work = before,
               start \notin {"recreate", "copy"}
        PROVE  db = work /\ "commit" \notin {"recreate", "copy"}
    BY <1>3 DEF Done
  <1>4. start \in Parts /\ "commit" \in Parts
    BY <1>1 DEF Parts
  <1> HIDE DEF db
  <1>5. Untouched(before, old, touched, wrote) /\ InParts(start, work, old, touched, wrote)
          => InParts(start', work', old, touched, wrote)
    BY <1>1, <1>2
  <1>6. (/\ Done(before, old, touched, wrote) /\ work = before
         /\ start \notin {"recreate", "copy"})
          => work' = work /\ start' \notin {"recreate", "copy"}
    BY <1>1, <1>3
  <1>7. start' \in Parts /\ (disk' = disk \/ disk' = work')
    BY <1>1, <1>4
  <1> QED BY <1>1, <1>4, <1>5, <1>6, <1>7, PartsGoOn

\* The start is through: the file is what this connection saw
LEMMA CommitInv ==
    ASSUME MigrationInv, Commit
    PROVE  MigrationInv'
  <1>1. /\ start = "commit" /\ start' = "up" /\ disk' = work /\ work' = work
        /\ UNCHANGED <<names, old, before, touched, wrote>>
    BY DEF Commit
  <1>2. OldIs(old)' /\ (wrote \in [Kept -> Nat] /\ names \in Nat /\ touched \subseteq Kept)'
    BY <1>1 DEF MigrationInv
  <1>3. Done(work, old, touched, wrote)
    BY <1>1 DEF MigrationInv, InParts, Parts
  <1>4. (disk = work /\ Done(work, old, touched, wrote))'
    BY <1>1, <1>3
  <1>5. start' \notin Parts /\ start' \in {"up", "down"} /\ start' # "down"
    BY <1>1 DEF Parts
  <1> QED BY <1>2, <1>4, <1>5 DEF MigrationInv

\* An outage, not between a commit of a part and the rest: the file is as this
\* start found it, or as the service left it
LEMMA PowerCutInv ==
    ASSUME MigrationInv, PowerCut, ~AnyMoment
    PROVE  MigrationInv'
  <1>1. /\ start # "down" /\ (start = "up" \/ disk = before) /\ start' = "down"
        /\ UNCHANGED <<disk, names, old, before, touched, wrote>>
    BY DEF PowerCut
  <1>2. OldIs(old)' /\ (wrote \in [Kept -> Nat] /\ names \in Nat /\ touched \subseteq Kept)'
    BY <1>1 DEF MigrationInv
  <1>3. Untouched(disk, old, touched, wrote) \/ Done(disk, old, touched, wrote)
    BY <1>1 DEF MigrationInv
  <1>4. (Untouched(disk, old, touched, wrote) \/ Done(disk, old, touched, wrote))'
    BY <1>1, <1>3
  <1>5. start' \notin Parts /\ start' \in {"up", "down"} /\ start' # "up"
    BY <1>1 DEF Parts
  <1> QED BY <1>2, <1>4, <1>5 DEF MigrationInv

\* What the service and the crew do to a recording once a start is through
LEMMA WorksInv ==
    ASSUME MigrationInv, NEW r \in Kept, NEW row \in Row, NEW post \in PostRow,
           Works(r, row, post), Settled(row, post), names' \in Nat,
           wrote' = [wrote EXCEPT ![r] = row.name]
    PROVE  MigrationInv'
  <1> DEFINE rows2 == [work.rows EXCEPT ![r] = row]
             posts2 == [work.posts EXCEPT ![r] = post]
             more == touched \cup {r}
             given == [wrote EXCEPT ![r] = row.name]
  <1>1. /\ start = "up" /\ start' = "up" /\ disk' = work' /\ touched' = more /\ old' = old
        /\ work' = [work EXCEPT !.rows[r] = row, !.posts[r] = post]
    BY DEF Works
  <1>2. /\ Done(work, old, touched, wrote) /\ OldIs(old) /\ touched \subseteq Kept
        /\ wrote \in [Kept -> Nat]
    BY <1>1 DEF MigrationInv
  <1>3. /\ Moved(work, old, touched) /\ Named(work, wrote) /\ "key" \in work.columns
        /\ work.settings = {"titles_unified", "orphans_removed"} /\ work.data = Kept
    BY <1>2 DEF Done
  <1>4. /\ work \in File /\ work.rows \in [Kept -> Row] /\ work.words /\ work.table
        /\ ~work.dangling /\ work.aside = NoRows /\ {"state", "draft"} \subseteq work.columns
        /\ work.posts \in [Kept -> PostRow]
    BY <1>3 DEF Moved, File, PostTables
  <1>5. rows2 \in [Kept -> Row] /\ posts2 \in [Kept -> PostRow] /\ rows2[r] = row /\ posts2[r] = post
        /\ \A q \in Kept \ {r} : rows2[q] = work.rows[q] /\ posts2[q] = work.posts[q]
    BY <1>4
  <1>6. rows2 \in RowTables /\ posts2 \in PostTables
    BY <1>5 DEF RowTables, PostTables
  <1>7. work' = [work EXCEPT !.rows = rows2, !.posts = posts2]
    BY <1>1, <1>4 DEF File
  <1>8. row.name \in Nat
    BY DEF Row
  <1>9. /\ given \in [Kept -> Nat] /\ given[r] = row.name
        /\ \A q \in Kept \ {r} : given[q] = wrote[q]
    BY <1>2, <1>8
  <1>10. touched \subseteq more /\ r \in more /\ more \subseteq Kept
    BY <1>2
  <1> DEFINE db == [work EXCEPT !.rows = rows2, !.posts = posts2]
  <1> HIDE DEF rows2, posts2, more, given
  <1>11. /\ db \in File /\ db.rows = rows2 /\ db.posts = posts2 /\ db.words = work.words
         /\ db.table = work.table /\ db.aside = work.aside /\ db.columns = work.columns
         /\ db.data = work.data /\ db.dangling = work.dangling /\ db.settings = work.settings
    BY <1>4, <1>6 DEF File
  <1>12. work' = db
    BY <1>7
  <1> HIDE DEF db
  <1>13. ASSUME NEW q \in Kept
         PROVE  \/ q \in more /\ Settled(db.rows[q], db.posts[q])
                \/ /\ db.rows[q].status = work.rows[q].status /\ db.rows[q].error = work.rows[q].error
                   /\ db.rows[q].artefacts = work.rows[q].artefacts
                   /\ db.posts[q].id = work.posts[q].id /\ db.posts[q].state = work.posts[q].state
    <2>1. CASE q = r
      BY <1>5, <1>10, <1>11, <2>1
    <2>2. CASE q # r
      BY <1>5, <1>11, <2>2
    <2> QED BY <2>1, <2>2
  <1>14. /\ db.words /\ db.table /\ ~db.dangling /\ db.aside = NoRows /\ Kept \subseteq db.data
         /\ {"state", "draft"} \subseteq db.columns /\ db.rows \in [Kept -> Row]
    BY <1>3, <1>4, <1>5, <1>11
  <1>15. Moved(db, old, more)
    BY <1>3, <1>10, <1>11, <1>13, <1>14, MovedStays
  <1>16. Named(db, given)
    <2>1. ASSUME NEW q \in Kept
          PROVE  db.rows[q].name = given[q]
      <3>1. CASE q = r
        BY <1>5, <1>9, <1>11, <3>1
      <3>2. CASE q # r
        BY <1>3, <1>5, <1>9, <1>11, <3>2 DEF Named
      <3> QED BY <3>1, <3>2
    <2> QED BY <2>1 DEF Named
  <1>17. Done(db, old, more, given)
    BY <1>3, <1>11, <1>15, <1>16 DEF Done
  <1>18. wrote' = given
    BY DEF given
  <1>19. (disk = work /\ Done(work, old, touched, wrote))'
    BY <1>1, <1>12, <1>17, <1>18
  <1>20. OldIs(old)' /\ (wrote \in [Kept -> Nat] /\ names \in Nat /\ touched \subseteq Kept)'
    BY <1>1, <1>2, <1>9, <1>10, <1>18
  <1>21. start' \notin Parts /\ start' \in {"up", "down"} /\ start' # "down"
    BY <1>1 DEF Parts
  <1> QED BY <1>19, <1>20, <1>21 DEF MigrationInv

\* A recording as it is while the service is up
LEMMA UpFacts ==
    ASSUME MigrationInv, start = "up", NEW r \in Kept
    PROVE  /\ work.rows[r] \in Row /\ work.posts[r] \in PostRow
           /\ Settled(work.rows[r], work.posts[r]) /\ work.rows[r].name = wrote[r]
           /\ wrote \in [Kept -> Nat] /\ names \in Nat
  <1>1. Done(work, old, touched, wrote) /\ wrote \in [Kept -> Nat] /\ names \in Nat
    BY DEF MigrationInv
  <1>2. Moved(work, old, touched) /\ Named(work, wrote)
    BY <1>1 DEF Done
  <1>3. work.rows[r] \in Row /\ Settled(work.rows[r], work.posts[r])
    BY <1>2 DEF Moved
  <1>4. work.posts \in [Kept -> PostRow]
    BY <1>2 DEF Moved, File, PostTables
  <1> QED BY <1>1, <1>2, <1>3, <1>4 DEF Named

\* The crew name a recording: it is listed as before, under its new name
LEMMA CrewNamesInv ==
    ASSUME MigrationInv, NEW r \in Kept, CrewNames(r)
    PROVE  MigrationInv'
  <1>1. names' = names + 1 /\ wrote' = [wrote EXCEPT ![r] = names'] /\ start = "up"
    BY DEF CrewNames, Works
  <1>2. PICK title \in {work.posts[r].title, names'} :
          Works(r, [work.rows[r] EXCEPT !.name = names'], [work.posts[r] EXCEPT !.title = title])
    BY DEF CrewNames
  <1> DEFINE row == [work.rows[r] EXCEPT !.name = names']
             post == [work.posts[r] EXCEPT !.title = title]
  <1>3. /\ work.rows[r] \in Row /\ work.posts[r] \in PostRow
        /\ Settled(work.rows[r], work.posts[r]) /\ names' \in Nat
    BY <1>1, UpFacts
  <1>4. /\ row \in Row /\ row.name = names' /\ row.status = work.rows[r].status
        /\ row.error = work.rows[r].error
    BY <1>3, NameSet
  <1>5. title \in Nat
    BY <1>2, <1>3 DEF PostRow
  <1>6. post \in PostRow /\ post.id = work.posts[r].id /\ post.state = work.posts[r].state
    BY <1>3, <1>5 DEF PostRow
  <1>7. Works(r, row, post)
    BY <1>2
  <1> HIDE DEF row, post
  <1>8. Settled(row, post)
    BY <1>3, <1>4, <1>6 DEF Settled
  <1>9. wrote' = [wrote EXCEPT ![r] = row.name]
    BY <1>1, <1>4
  <1> QED BY <1>3, <1>4, <1>6, <1>7, <1>8, <1>9, WorksInv

\* A recording is published: only of those worked on is anything else said
LEMMA PublishesInv ==
    ASSUME MigrationInv, NEW r \in Kept, Publishes(r)
    PROVE  MigrationInv'
  <1>1. PICK state \in {"wp_draft", "published", "publish_failed"}, id \in BOOLEAN :
          Works(r, work.rows[r], [work.posts[r] EXCEPT !.state = state, !.id = id])
    BY DEF Publishes
  <1> DEFINE row == work.rows[r]
             post == [work.posts[r] EXCEPT !.state = state, !.id = id]
  <1>2. start = "up" /\ UNCHANGED <<names, wrote>>
    BY DEF Publishes, Works
  <1>3. /\ row \in Row /\ work.posts[r] \in PostRow /\ Settled(row, work.posts[r])
        /\ row.name = wrote[r] /\ wrote \in [Kept -> Nat] /\ names \in Nat
    BY <1>2, UpFacts
  <1>4. post \in PostRow /\ post.state = state
    BY <1>3 DEF PostRow
  <1>5. Works(r, row, post)
    BY <1>1
  <1>6. state # "none"
    OBVIOUS
  <1> HIDE DEF row, post
  <1>7. Settled(row, post)
    BY <1>3, <1>4, <1>6 DEF Settled
  <1>8. wrote' = [wrote EXCEPT ![r] = row.name] /\ names' \in Nat
    BY <1>2, <1>3
  <1> QED BY <1>3, <1>4, <1>5, <1>7, <1>8, WorksInv

\* Every step of a start, and between the starts, keeps it
LEMMA MigrationNextInv ==
    ASSUME MigrationInv, ~AnyMoment, [MigrationNext]_migrationVars
    PROVE  MigrationInv'
  <1>1. CASE UNCHANGED migrationVars
    BY <1>1 DEF migrationVars, MigrationInv
  <1>2. CASE Start
    BY <1>2, StartInv
  <1>3. CASE Rename
    BY <1>3, RenameInv
  <1>4. CASE Recreate
    BY <1>4, RecreateInv
  <1>5. CASE Copy
    BY <1>5, CopyInv
  <1>6. CASE HasWords
    BY <1>6, HasWordsInv
  <1>7. CASE Tables
    BY <1>7, TablesInv
  <1>8. CASE AddColumns
    BY <1>8, AddColumnsInv
  <1>9. CASE Splits
    BY <1>9, SplitsInv
  <1>10. CASE AddEventKey
    BY <1>10, AddEventKeyInv
  <1>11. CASE Unify
    BY <1>11, UnifyInv
  <1>12. CASE RemoveOrphans
    BY <1>12, RemoveOrphansInv
  <1>13. CASE Commit
    BY <1>13, CommitInv
  <1>14. CASE PowerCut
    BY <1>14, PowerCutInv
  <1>15. ASSUME NEW r \in Kept, CrewNames(r) \/ Publishes(r)
         PROVE  MigrationInv'
    BY <1>15, CrewNamesInv, PublishesInv
  <1> QED BY <1>1, <1>2, <1>3, <1>4, <1>5, <1>6, <1>7, <1>8, <1>9, <1>10, <1>11, <1>12, <1>13,
             <1>14, <1>15 DEF MigrationNext

\* It says that nothing was lost and everything is listed as it was
LEMMA MigrationInvKeeps ==
    ASSUME MigrationInv
    PROVE  MigrationKeepsAll
  <1>1. ASSUME start = "up"
        PROVE  /\ Recordings = Kept /\ work.data = Kept /\ ~work.dangling
               /\ \A r \in Kept :
                     /\ work.rows[r].name = wrote[r] /\ work.rows[r].status \in NewWords
                     /\ r \notin touched =>
                          stage_of(work.rows[r], work.posts[r]) = OldStage(old, r)
    <2>1. Done(work, old, touched, wrote)
      BY <1>1 DEF MigrationInv
    <2>2. Moved(work, old, touched) /\ Named(work, wrote) /\ work.data = Kept
      BY <2>1 DEF Done
    <2>3. work.rows \in [Kept -> Row] /\ ~work.dangling
      BY <2>2 DEF Moved
    <2> QED BY <2>2, <2>3, RowsAreThere DEF Moved, Named, Settled
  <1>2. ASSUME start = "commit", "orphans_removed" \in before.settings
        PROVE  work = before
    <2>1. before.settings # {}
      BY <1>2
    <2> QED BY <1>2, <2>1 DEF MigrationInv, Parts, Untouched, OldIs
  <1>3. NothingIsLost
    BY <1>1 DEF NothingIsLost
  <1>4. StageIsKept
    BY <1>1, <1>2 DEF StageIsKept
  <1> QED BY <1>3, <1>4 DEF MigrationKeepsAll

\* However many starts it takes, a database of an older release comes through with
\* every recording, every row of one and every name, each recording listed as what
\* it was, if no outage falls between the commit of one part of a start and the
\* rest of it: for any recordings, in whatever states the release knew
\* (_migrate_database and what it calls).  Without that condition it is not so, as
\* the run migration shows
THEOREM KeptThroughMigration ==
    ~AnyMoment => (MigrationSpec => []MigrationKeepsAll)
  <1> SUFFICES ASSUME ~AnyMoment
               PROVE  MigrationSpec => []MigrationKeepsAll
    OBVIOUS
  <1>1. MigrationInit => MigrationInv
    BY MigrationInitInv
  <1>2. MigrationInv /\ [MigrationNext]_migrationVars => MigrationInv'
    BY MigrationNextInv
  <1>3. MigrationInv => MigrationKeepsAll
    BY MigrationInvKeeps
  <1> QED BY <1>1, <1>2, <1>3, PTL DEF MigrationSpec
===============================================================================
