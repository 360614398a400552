---------------------- MODULE TriggeredRecordings_proofs ----------------------
(***************************************************************************)
(* A recording the trigger started keeps a trigger that will stop it,      *)
(* through every restart and whoever else stops it, where no start comes   *)
(* before main has resumed all.  One lemma for the types, one for each     *)
(* part of the inductive invariant, a step for each action; what an early  *)
(* start leaves behind ends with the process (DieKeeps, DieOwesNothing).   *)
(***************************************************************************)
EXTENDS TriggeredRecordings, TLAPS

\* IInv where no start came before main had resumed all
Calm == TypeOK /\ WhereEachIs /\ HolderInv

-----------------------------------------------------------------------------
\* What the helpers of the actions do
LEMMA GotoDoes ==
  ASSUME NEW t \in Thread, NEW place \in Pc, NEW r \in Recording \cup {NoRec},
         TypeOK, Goto(t, place, r)
  PROVE  /\ pc' \in [Thread -> Pc] /\ rec' \in [Thread -> Recording \cup {NoRec}]
         /\ pc'[t] = place /\ rec'[t] = r
         /\ \A u \in Thread \ {t} : pc'[u] = pc[u] /\ rec'[u] = rec[u]
  BY DEF TypeOK, Goto

LEMMA DoneDoes ==
  ASSUME NEW t \in Thread, TypeOK, Done(t)
  PROVE  /\ pc' \in [Thread -> Pc] /\ rec' \in [Thread -> Recording \cup {NoRec}]
         /\ pc'[t] = "idle" /\ rec'[t] = NoRec
         /\ \A u \in Thread \ {t} : pc'[u] = pc[u] /\ rec'[u] = rec[u]
  <1>1. "idle" \in Pc /\ NoRec \in Recording \cup {NoRec} BY DEF Pc
  <1> QED BY <1>1, GotoDoes DEF Done

LEMMA DieDoes ==
  ASSUME TypeOK, Die
  PROVE  /\ phase' = "down" /\ heard' = {} /\ todo' = {} /\ current' = NoRec
         /\ state' = "monitoring" /\ held' = NoRec /\ seen' = FALSE
         /\ pc' \in [Thread -> Pc] /\ rec' \in [Thread -> Recording \cup {NoRec}]
         /\ \A t \in Thread : pc'[t] = "idle"
         /\ owed' = (owed /\ ~early) /\ early' = FALSE
         /\ UNCHANGED <<status, monitored>>
  BY DEF Die, Nothing, Pc

LEMMA StatusSet ==
  ASSUME TypeOK, NEW r, NEW s \in {"none", "active", "stopped", "failed"}, SetStatus(r, s)
  PROVE  status' \in [Recording -> {"none", "active", "stopped", "failed"}]
  BY DEF TypeOK, SetStatus

\* Where a start condition is met, no sound recording is left
LEMMA StartsWhereNone == Calm /\ StartFires /\ ~early' => Sound = {}
  BY DEF Calm, HolderInv, StartFires, Watching, SoundIsMinded, WhereEachIs, MonitorHas, TriggerHas

-----------------------------------------------------------------------------
\* The initial states: no recording, no thread anywhere
LEMMA InitKeeps == Init => IInv
  <1> SUFFICES ASSUME Init PROVE IInv OBVIOUS
  <1> USE TriggeredAssumption DEF Init, Thread
  <1>1. TypeOK
    <2>1. outages \in 0..MaxOutages
      OBVIOUS
    <2>2. status \in [Recording -> {"none", "active", "stopped", "failed"}]
      OBVIOUS
    <2>3. pc \in [Thread -> Pc] /\ rec \in [Thread -> Recording \cup {NoRec}]
      BY DEF Pc
    <2> QED BY <2>1, <2>2, <2>3 DEF TypeOK
  <1>2. SoundIsMinded /\ StartsTheOnly /\ HandsBackTheOnly
    BY DEF SoundIsMinded, StartsTheOnly, HandsBackTheOnly, Sound, Active
  <1>3. HandedIsMinded /\ HeldIsNoted /\ WhereEachIs
    BY DEF HandedIsMinded, HeldIsNoted, WhereEachIs
  <1> QED BY <1>1, <1>2, <1>3 DEF IInv, HolderInv

-----------------------------------------------------------------------------
\* The types, one step for each action
LEMMA TypesKeep == TypeOK /\ WhereEachIs /\ [Next]_vars => TypeOK'
  <1> SUFFICES ASSUME TypeOK, WhereEachIs, [Next]_vars PROVE TypeOK' OBVIOUS
  <1> USE TriggeredAssumption DEF worldVars, mainVars, monitorVars, threadVars, historyVars, sailVars
  <1>0. "main" \in Thread /\ "trigger" \in Thread /\ "crew" \in Thread
        /\ Pc = {"idle", "create", "begin", "note", "check", "end", "handback"}
    BY DEF Thread, Pc
  <1>1. CASE SeenInside
    BY <1>1 DEF TypeOK, SeenInside
  <1>2. CASE StartFires
    BY <1>0, <1>2, GotoDoes DEF TypeOK, StartFires
  <1>3. CASE Create
    <2>1. /\ pc' \in [Thread -> Pc] /\ rec' \in [Thread -> Recording \cup {NoRec}]
          /\ status' \in [Recording -> {"none", "active", "stopped", "failed"}]
          /\ owed' \in BOOLEAN
      BY <1>0, <1>3, GotoDoes, DoneDoes, StatusSet DEF TypeOK, Create
    <2> QED BY <1>3, <2>1 DEF TypeOK, Create
  <1>4. CASE Begin
    <2>1. rec["trigger"] \in Recording
      BY <1>4 DEF Begin, WhereEachIs
    <2>2. pc' \in [Thread -> Pc] /\ rec' \in [Thread -> Recording \cup {NoRec}]
      BY <1>0, <1>4, <2>1, GotoDoes DEF Begin
    <2> QED BY <1>4, <2>1, <2>2 DEF TypeOK, Begin
  <1>5. CASE Note
    <2>1. rec["trigger"] \in Recording
      BY <1>5 DEF Note, WhereEachIs
    <2> QED BY <1>0, <1>5, <2>1, DoneDoes DEF TypeOK, Note
  <1>6. CASE StopFires
    BY <1>0, <1>6, GotoDoes DEF TypeOK, StopFires
  <1>7. CASE \E t \in Thread : StopCheck(t)
    <2> SUFFICES ASSUME NEW t \in Thread, StopCheck(t) PROVE TypeOK'
      BY <1>7
    <2>1. rec[t] \in Recording \cup {NoRec} BY DEF TypeOK
    <2>2. CASE Die
      BY <2>2, DieDoes DEF TypeOK, StopCheck
    <2>3. CASE heard' = heard \ {rec[t]} /\ Goto(t, "end", rec[t]) /\ UNCHANGED <<status, mainVars, monitorVars, sailVars>>
      BY <1>0, <2>1, <2>3, GotoDoes DEF TypeOK, StopCheck
    <2>4. CASE Done(t) /\ UNCHANGED <<status, heard, mainVars, monitorVars, sailVars>>
      BY <2>4, DoneDoes DEF TypeOK, StopCheck
    <2> QED BY <2>2, <2>3, <2>4 DEF StopCheck
  <1>8. CASE \E t \in Thread : StopEnd(t)
    <2> SUFFICES ASSUME NEW t \in Thread, StopEnd(t) PROVE TypeOK'
      BY <1>8
    <2>1. CASE Die /\ UNCHANGED unstopped
      BY <2>1, DieDoes DEF TypeOK, StopEnd
    <2>2. CASE /\ SetStatus(rec[t], "stopped")
               /\ IF t = "main" THEN Goto(t, "handback", NoRec) ELSE Done(t)
               /\ UNCHANGED <<heard, mainVars, monitorVars, historyVars>>
      <3>1. status' \in [Recording -> {"none", "active", "stopped", "failed"}]
        BY <2>2, StatusSet
      <3>2. pc' \in [Thread -> Pc] /\ rec' \in [Thread -> Recording \cup {NoRec}]
        BY <1>0, <2>2, GotoDoes, DoneDoes
      <3> QED BY <2>2, <3>1, <3>2 DEF TypeOK, StopEnd
    <2>3. CASE /\ Done(t) /\ UNCHANGED <<status, heard, mainVars, monitorVars, sailVars>>
               /\ unstopped' = unstopped \cup {rec[t]}
      <3>1. unstopped' \subseteq Recording
        BY <2>3 DEF TypeOK, StopEnd, WhereEachIs
      <3>2. pc' \in [Thread -> Pc] /\ rec' \in [Thread -> Recording \cup {NoRec}]
        BY <2>3, DoneDoes
      <3> QED BY <2>3, <3>1, <3>2 DEF TypeOK, StopEnd
    <2> QED BY <2>1, <2>2, <2>3 DEF StopEnd
  <1>9. CASE \E r \in Recording : CrewStops(r)
    <2>1. PICK r \in Recording : CrewStops(r)
      BY <1>9
    <2> QED BY <1>0, <2>1, GotoDoes DEF TypeOK, CrewStops
  <1>10. CASE Recover
    BY <1>10 DEF TypeOK, Recover, Active
  <1>11. CASE \E r \in Recording : ResumeNext(r)
    <2> SUFFICES ASSUME NEW r \in Recording, ResumeNext(r) PROVE TypeOK'
      BY <1>11
    <2>1. CASE Die
      BY <2>1, DieDoes DEF TypeOK, ResumeNext
    <2>2. CASE /\ status' = status \/ SetStatus(r, "stopped")
               /\ todo' = todo \ {r}
               /\ UNCHANGED <<heard, phase, monitored, current, monitorVars, threadVars, sailVars>>
      <3>1. status' \in [Recording -> {"none", "active", "stopped", "failed"}]
        BY <2>2, StatusSet DEF TypeOK
      <3>2. UNCHANGED <<worldVars, historyVars>>
        BY <2>2 DEF ResumeNext
      <3> QED BY <2>2, <3>1, <3>2 DEF TypeOK
    <2>4. CASE /\ IF current = NoRec THEN Goto("main", "handback", NoRec)
                                     ELSE Goto("main", "check", current)
               /\ UNCHANGED <<status, heard, mainVars, monitorVars, sailVars>>
      BY <1>0, <2>4, GotoDoes DEF TypeOK, ResumeNext
    <2> QED BY <2>1, <2>2, <2>4 DEF ResumeNext
  <1>12. CASE \E r \in Recording : HandBack(r)
    <2>1. PICK r \in Recording : HandBack(r)
      BY <1>12
    <2> QED BY <1>0, <2>1, GotoDoes DEF TypeOK, HandBack
  <1>13. CASE NoteResumed
    BY <1>0, <1>13, GotoDoes DEF TypeOK, NoteResumed
  <1>14. CASE BeginResumed
    <2>1. rec["main"] \in Recording
      BY <1>14 DEF BeginResumed, WhereEachIs
    <2>2. heard' \subseteq Recording /\ todo' \subseteq Recording
      BY <1>14, <2>1 DEF TypeOK, BeginResumed
    <2> QED BY <1>0, <1>14, <2>2, DoneDoes DEF TypeOK, BeginResumed
  <1>15. CASE Up
    BY <1>15 DEF TypeOK, Up
  <1>16. CASE Outage
    <2>1. outages' \in 0..MaxOutages
      BY <1>16 DEF TypeOK, Outage
    <2> QED BY <1>16, <2>1, DieDoes DEF TypeOK, Outage
  <1>17. CASE Sails
    BY <1>17 DEF TypeOK, Sails
  <1>18. CASE UNCHANGED vars
    BY <1>18 DEF TypeOK, vars
  <1> QED
    BY <1>0, <1>1, <1>2, <1>3, <1>4, <1>5, <1>6, <1>7, <1>8, <1>9, <1>10, <1>11, <1>12,
       <1>13, <1>14, <1>15, <1>16, <1>17, <1>18 DEF Next, TriggerStep, CrewStep, MainStep

-----------------------------------------------------------------------------
\* A sound recording passes from hand to hand, and is let go only when it has ended
LEMMA SoundIsMindedKeeps == Calm /\ Next /\ TypeOK' /\ ~early' => SoundIsMinded'
  <1> SUFFICES ASSUME Calm, Next, TypeOK', ~early' PROVE SoundIsMinded' OBVIOUS
  <1> USE TriggeredAssumption DEF Calm, HolderInv, TypeOK, worldVars, mainVars, monitorVars, threadVars,
          historyVars, sailVars, Thread, Active, Sound, TriggerHas, MonitorHas, SoundIsMinded
  <1>1. CASE SeenInside
    BY <1>1 DEF SeenInside
  <1>2. CASE StartFires
    <2>1. Sound = {}
      BY <1>2, StartsWhereNone
    <2> QED BY <1>2, <2>1 DEF StartFires
  <1>3. CASE Create
    BY <1>3 DEF Create, Goto, Done, SetStatus
  <1>4. CASE Begin
    BY <1>4 DEF Begin, Goto
  <1>5. CASE Note
    BY <1>5 DEF Note, Goto, Done, WhereEachIs, StartsTheOnly
  <1>6. CASE StopFires
    BY <1>6 DEF StopFires, Goto, Watching
  <1>7. CASE \E t \in Thread : StopCheck(t)
    BY <1>7 DEF StopCheck, Goto, Done, Die, Nothing
  <1>8. CASE \E t \in Thread : StopEnd(t)
    BY <1>8 DEF StopEnd, Goto, Done, SetStatus, Die, Nothing
  <1>9. CASE \E r \in Recording : CrewStops(r)
    <2>1. PICK r \in Recording : CrewStops(r)
      BY <1>9
    <2> QED BY <2>1 DEF CrewStops, Goto
  <1>10. CASE Recover
    BY <1>10 DEF Recover, Active
  <1>11. CASE \E r \in Recording : ResumeNext(r)
    <2>1. PICK r \in Recording : ResumeNext(r)
      BY <1>11
    <2>2. CASE Die
      BY <2>2 DEF Die
    <2>3. CASE /\ \/ status' = status /\ status[r] # "active"
                  \/ SetStatus(r, "stopped")
               /\ todo' = todo \ {r} /\ UNCHANGED <<phase, monitorVars, threadVars>>
      BY <2>1, <2>3 DEF ResumeNext, SetStatus
    <2>4. CASE /\ IF current = NoRec THEN Goto("main", "handback", NoRec)
                                     ELSE Goto("main", "check", current)
               /\ UNCHANGED <<status, heard, mainVars, monitorVars, sailVars>>
      BY <2>1, <2>4 DEF ResumeNext, Goto
    <2> QED BY <2>1, <2>2, <2>3, <2>4 DEF ResumeNext
  <1>12. CASE \E r \in Recording : HandBack(r)
    <2>1. PICK r \in Recording : HandBack(r)
      BY <1>12
    <2>2. \A q \in Sound : q \in todo \/ TriggerHas(q)
      BY <2>1 DEF HandBack, HandsBackTheOnly
    <2> QED BY <2>1, <2>2 DEF HandBack, Goto
  <1>13. CASE NoteResumed
    BY <1>13 DEF NoteResumed, Goto
  <1>14. CASE BeginResumed
    BY <1>14 DEF BeginResumed, Goto, Done, StartsTheOnly, HandsBackTheOnly, HandedIsMinded, HeldIsNoted, WhereEachIs
  <1>15. CASE Up
    BY <1>15 DEF Up
  <1>16. CASE Outage
    BY <1>16 DEF Outage, Die, Nothing
  <1>17. CASE Sails
    BY <1>17 DEF Sails
  <1> QED
    BY <1>1, <1>2, <1>3, <1>4, <1>5, <1>6, <1>7, <1>8, <1>9, <1>10, <1>11, <1>12,
       <1>13, <1>14, <1>15, <1>16, <1>17 DEF Next, TriggerStep, CrewStep, MainStep

\* The trigger starts where there is none, and nobody else starts one meanwhile
LEMMA StartsTheOnlyKeeps == Calm /\ Next /\ TypeOK' /\ ~early' => StartsTheOnly'
  <1> SUFFICES ASSUME Calm, Next, TypeOK', ~early' PROVE StartsTheOnly' OBVIOUS
  <1> USE TriggeredAssumption DEF Calm, HolderInv, TypeOK, worldVars, mainVars, monitorVars, threadVars,
          historyVars, sailVars, Thread, Active, Sound, TriggerHas, MonitorHas, StartsTheOnly
  <1>1. CASE SeenInside
    BY <1>1 DEF SeenInside
  <1>2. CASE StartFires
    <2>1. Sound = {}
      BY <1>2, StartsWhereNone
    <2>2. Sound' = {}
      BY <1>2, <2>1 DEF StartFires
    <2> QED BY <1>2, <2>2 DEF StartFires, Goto
  <1>3. CASE Create
    <2>1. Sound = {} /\ phase = "up" /\ state = "triggered"
      BY <1>3 DEF Create, WhereEachIs
    <2>2. UNCHANGED <<phase, state, unstopped>>
      BY <1>3 DEF Create
    <2>3. CASE Done("trigger")
      BY <2>3 DEF Done, Goto
    <2>4. CASE \E r \in Recording : SetStatus(r, "active") /\ Goto("trigger", "begin", r)
      <3>1. PICK r \in Recording : SetStatus(r, "active") /\ Goto("trigger", "begin", r)
        BY <2>4
      <3>2. Sound' \subseteq {r}
        BY <2>1, <2>2, <3>1 DEF SetStatus
      <3>3. pc'["trigger"] = "begin" /\ rec'["trigger"] = r
        BY <3>1 DEF Goto
      <3> QED BY <2>1, <2>2, <3>2, <3>3
    <2> QED BY <1>3, <2>3, <2>4 DEF Create
  <1>4. CASE Begin
    BY <1>4 DEF Begin, Goto
  <1>5. CASE Note
    BY <1>5 DEF Note, Goto, Done
  <1>6. CASE StopFires
    BY <1>6 DEF StopFires, Goto, Watching
  <1>7. CASE \E t \in Thread : StopCheck(t)
    BY <1>7 DEF StopCheck, Goto, Done, Die, Nothing
  <1>8. CASE \E t \in Thread : StopEnd(t)
    <2>1. PICK t \in Thread : StopEnd(t)
      BY <1>8
    <2>2. CASE Die
      BY <2>2, DieDoes
    <2>3. CASE ~Die
      <3>1. Sound' \subseteq Sound /\ UNCHANGED <<phase, state>>
        BY <2>1, <2>3 DEF StopEnd, SetStatus
      <3>2. CASE t = "trigger"
        <4>1. pc'["trigger"] = "idle"
          BY <2>1, <3>2 DEF StopEnd, Done, Goto
        <4> QED BY <4>1
      <3>3. CASE t # "trigger"
        <4>1. pc'["trigger"] = pc["trigger"] /\ rec'["trigger"] = rec["trigger"]
          BY <2>1, <2>3, <3>3 DEF StopEnd, Done, Goto
        <4> QED BY <3>1, <4>1
      <3> QED BY <3>2, <3>3
    <2> QED BY <2>2, <2>3
  <1>9. CASE \E r \in Recording : CrewStops(r)
    BY <1>9 DEF CrewStops, Goto
  <1>10. CASE Recover
    BY <1>10 DEF Recover, Active
  <1>11. CASE \E r \in Recording : ResumeNext(r)
    BY <1>11 DEF ResumeNext, Goto, SetStatus, Die, Nothing, Newest
  <1>12. CASE \E r \in Recording : HandBack(r)
    BY <1>12 DEF HandBack, Goto, Newest
  <1>13. CASE NoteResumed
    BY <1>13 DEF NoteResumed, Goto
  <1>14. CASE BeginResumed
    BY <1>14 DEF BeginResumed, Goto, Done
  <1>15. CASE Up
    BY <1>15 DEF Up
  <1>16. CASE Outage
    BY <1>16 DEF Outage, Die, Nothing
  <1>17. CASE Sails
    BY <1>17 DEF Sails
  <1> QED
    BY <1>1, <1>2, <1>3, <1>4, <1>5, <1>6, <1>7, <1>8, <1>9, <1>10, <1>11, <1>12,
       <1>13, <1>14, <1>15, <1>16, <1>17 DEF Next, TriggerStep, CrewStep, MainStep

\* Main hands one back only where what the monitor held is no longer sound
LEMMA HandsBackTheOnlyKeeps == Calm /\ Next /\ TypeOK' /\ ~early' => HandsBackTheOnly'
  <1> SUFFICES ASSUME Calm, Next, TypeOK', ~early' PROVE HandsBackTheOnly' OBVIOUS
  <1> USE TriggeredAssumption DEF Calm, HolderInv, TypeOK, worldVars, mainVars, monitorVars, threadVars,
          historyVars, sailVars, Thread, Active, Sound, TriggerHas, MonitorHas, HandsBackTheOnly
  <1>1. CASE SeenInside
    BY <1>1 DEF SeenInside
  <1>2. CASE StartFires
    BY <1>2 DEF StartFires, Goto, Watching, WhereEachIs
  <1>3. CASE Create
    BY <1>3 DEF Create, Goto, Done, SetStatus
  <1>4. CASE Begin
    BY <1>4 DEF Begin, Goto
  <1>5. CASE Note
    BY <1>5 DEF Note, Goto, Done, WhereEachIs, StartsTheOnly
  <1>6. CASE StopFires
    BY <1>6 DEF StopFires, Goto, Watching
  <1>7. CASE \E t \in Thread : StopCheck(t)
    BY <1>7 DEF StopCheck, Goto, Done, Die, Nothing
  <1>8. CASE \E t \in Thread : StopEnd(t)
    BY <1>8 DEF StopEnd, Goto, Done, SetStatus, Die, Nothing, SoundIsMinded, StartsTheOnly, HandedIsMinded, HeldIsNoted, WhereEachIs
  <1>9. CASE \E r \in Recording : CrewStops(r)
    BY <1>9 DEF CrewStops, Goto, WhereEachIs
  <1>10. CASE Recover
    BY <1>10 DEF Recover, Active
  <1>11. CASE \E r \in Recording : ResumeNext(r)
    <2>1. PICK r \in Recording : ResumeNext(r)
      BY <1>11
    <2>2. CASE current = NoRec /\ Goto("main", "handback", NoRec)
               /\ UNCHANGED <<status, heard, mainVars, monitorVars, sailVars>>
      <3>1. phase = "starting" /\ pc["main"] = "idle"
        BY <2>1 DEF ResumeNext
      <3>2. held = NoRec
        BY <2>2, <3>1 DEF HeldIsNoted
      <3>3. \A q \in Sound : q \in todo \/ TriggerHas(q)
        BY <3>1, <3>2 DEF SoundIsMinded
      <3>4. Sound' = Sound
        BY <2>1, <2>2 DEF ResumeNext
      <3> QED BY <2>2, <3>3, <3>4 DEF Goto
    <2>3. CASE pc'["main"] # "handback"
      BY <2>3
    <2> QED BY <2>1, <2>2, <2>3 DEF ResumeNext, Goto, Die, Nothing
  <1>12. CASE \E r \in Recording : HandBack(r)
    BY <1>12 DEF HandBack, Goto, Newest
  <1>13. CASE NoteResumed
    BY <1>13 DEF NoteResumed, Goto
  <1>14. CASE BeginResumed
    BY <1>14 DEF BeginResumed, Goto, Done
  <1>15. CASE Up
    BY <1>15 DEF Up
  <1>16. CASE Outage
    BY <1>16 DEF Outage, Die, Nothing
  <1>17. CASE Sails
    BY <1>17 DEF Sails
  <1> QED
    BY <1>1, <1>2, <1>3, <1>4, <1>5, <1>6, <1>7, <1>8, <1>9, <1>10, <1>11, <1>12,
       <1>13, <1>14, <1>15, <1>16, <1>17 DEF Next, TriggerStep, CrewStep, MainStep

\* What main handed back stays the monitor's until the trigger stops it
LEMMA HandedIsMindedKeeps == Calm /\ Next /\ TypeOK' /\ ~early' => HandedIsMinded'
  <1> SUFFICES ASSUME Calm, Next, TypeOK', ~early' PROVE HandedIsMinded' OBVIOUS
  <1> USE TriggeredAssumption DEF Calm, HolderInv, TypeOK, worldVars, mainVars, monitorVars, threadVars,
          historyVars, sailVars, Thread, Active, Sound, TriggerHas, MonitorHas, HandedIsMinded
  <1>1. CASE SeenInside
    BY <1>1 DEF SeenInside
  <1>2. CASE StartFires
    BY <1>2 DEF StartFires, Goto, Watching
  <1>3. CASE Create
    BY <1>3 DEF Create, Goto, Done, SetStatus, WhereEachIs, StartsTheOnly
  <1>4. CASE Begin
    BY <1>4 DEF Begin, Goto
  <1>5. CASE Note
    BY <1>5 DEF Note, Goto, Done, WhereEachIs, StartsTheOnly
  <1>6. CASE StopFires
    BY <1>6 DEF StopFires, Goto, Watching
  <1>7. CASE \E t \in Thread : StopCheck(t)
    BY <1>7 DEF StopCheck, Goto, Done, Die, Nothing
  <1>8. CASE \E t \in Thread : StopEnd(t)
    <2>1. PICK t \in Thread : StopEnd(t)
      BY <1>8
    <2>2. CASE Die
      BY <2>2, DieDoes
    <2>3. CASE t = "main" /\ ~Die
      <3>1. pc'["main"] = "handback"
        BY <2>1, <2>3 DEF StopEnd, Goto
      <3> QED BY <3>1
    <2>4. CASE t # "main" /\ pc["main"] \notin {"note", "begin"}
      <3>1. pc'["main"] = pc["main"]
        BY <2>1, <2>4, DoneDoes DEF StopEnd
      <3> QED BY <2>4, <3>1
    <2> SUFFICES ASSUME t \in {"trigger", "crew"}, ~Die, pc["main"] \in {"note", "begin"}
                 PROVE  HandedIsMinded'
      BY <2>2, <2>3, <2>4
    <2>5. pc'["main"] = pc["main"] /\ rec'["main"] = rec["main"]
      BY <2>1, DoneDoes DEF StopEnd
    <2>6. Sound' \subseteq Sound \ {rec[t]}
      BY <2>1 DEF StopEnd, SetStatus
    <2>7. UNCHANGED <<state, held>>
      BY <2>1 DEF StopEnd
    <2>8. rec["main"] \in Sound' => MonitorHas(rec["main"])' \/ TriggerHas(rec["main"])'
      <3>1. CASE t = "trigger"
        BY <2>5, <2>6, <2>7, <3>1
      <3>2. CASE t = "crew"
        <4>1. pc'["trigger"] = pc["trigger"] /\ rec'["trigger"] = rec["trigger"]
          BY <2>1, <3>2, DoneDoes DEF StopEnd
        <4> QED BY <2>5, <2>6, <2>7, <4>1
      <3> QED BY <2>5, <3>1, <3>2
    <2> QED BY <2>5, <2>7, <2>8
  <1>9. CASE \E r \in Recording : CrewStops(r)
    BY <1>9 DEF CrewStops, Goto
  <1>10. CASE Recover
    BY <1>10 DEF Recover, Active
  <1>11. CASE \E r \in Recording : ResumeNext(r)
    BY <1>11 DEF ResumeNext, Goto, SetStatus, Die, Nothing, Newest
  <1>12. CASE \E r \in Recording : HandBack(r)
    BY <1>12 DEF HandBack, Goto, Newest
  <1>13. CASE NoteResumed
    BY <1>13 DEF NoteResumed, Goto
  <1>14. CASE BeginResumed
    BY <1>14 DEF BeginResumed, Goto, Done
  <1>15. CASE Up
    BY <1>15 DEF Up
  <1>16. CASE Outage
    BY <1>16 DEF Outage, Die, Nothing
  <1>17. CASE Sails
    BY <1>17 DEF Sails
  <1> QED
    BY <1>1, <1>2, <1>3, <1>4, <1>5, <1>6, <1>7, <1>8, <1>9, <1>10, <1>11, <1>12,
       <1>13, <1>14, <1>15, <1>16, <1>17 DEF Next, TriggerStep, CrewStep, MainStep

\* What the monitor holds, main notes, and main supersedes nothing else
LEMMA HeldIsNotedKeeps == Calm /\ Next /\ TypeOK' /\ ~early' => HeldIsNoted'
  <1> SUFFICES ASSUME Calm, Next, TypeOK', ~early' PROVE HeldIsNoted' OBVIOUS
  <1> USE TriggeredAssumption DEF Calm, HolderInv, TypeOK, worldVars, mainVars, monitorVars, threadVars,
          historyVars, sailVars, Thread, Active, Sound, TriggerHas, MonitorHas, HeldIsNoted
  <1>1. CASE SeenInside
    BY <1>1 DEF SeenInside
  <1>2. CASE StartFires
    BY <1>2 DEF StartFires, Goto, Watching
  <1>3. CASE Create
    BY <1>3 DEF Create, Goto, Done, SetStatus
  <1>4. CASE Begin
    BY <1>4 DEF Begin, Goto
  <1>5. CASE Note
    BY <1>5 DEF Note, Goto, Done, WhereEachIs, StartsTheOnly
  <1>6. CASE StopFires
    BY <1>6 DEF StopFires, Goto, Watching
  <1>7. CASE \E t \in Thread : StopCheck(t)
    BY <1>7 DEF StopCheck, Goto, Done, Die, Nothing
  <1>8. CASE \E t \in Thread : StopEnd(t)
    BY <1>8 DEF StopEnd, Goto, Done, SetStatus, Die, Nothing
  <1>9. CASE \E r \in Recording : CrewStops(r)
    BY <1>9 DEF CrewStops, Goto
  <1>10. CASE Recover
    BY <1>10 DEF Recover, Active, WhereEachIs
  <1>11. CASE \E r \in Recording : ResumeNext(r)
    BY <1>11 DEF ResumeNext, Goto, SetStatus, Die, Nothing, Newest
  <1>12. CASE \E r \in Recording : HandBack(r)
    BY <1>12 DEF HandBack, Goto, Newest
  <1>13. CASE NoteResumed
    BY <1>13 DEF NoteResumed, Goto, SoundIsMinded, StartsTheOnly, HandsBackTheOnly, HandedIsMinded, WhereEachIs
  <1>14. CASE BeginResumed
    BY <1>14 DEF BeginResumed, Goto, Done
  <1>15. CASE Up
    BY <1>15 DEF Up
  <1>16. CASE Outage
    BY <1>16 DEF Outage, Die, Nothing
  <1>17. CASE Sails
    BY <1>17 DEF Sails
  <1> QED
    BY <1>1, <1>2, <1>3, <1>4, <1>5, <1>6, <1>7, <1>8, <1>9, <1>10, <1>11, <1>12,
       <1>13, <1>14, <1>15, <1>16, <1>17 DEF Next, TriggerStep, CrewStep, MainStep

\* Where the threads are in each phase of the process
LEMMA WhereEachIsKeeps == TypeOK /\ WhereEachIs /\ Next /\ TypeOK' => WhereEachIs'
  <1> SUFFICES ASSUME TypeOK, WhereEachIs, Next, TypeOK' PROVE WhereEachIs' OBVIOUS
  <1> USE TriggeredAssumption DEF TypeOK, worldVars, mainVars, monitorVars, threadVars,
          historyVars, sailVars, Thread, WhereEachIs
  <1>1. CASE SeenInside
    BY <1>1 DEF SeenInside
  <1>2. CASE StartFires
    BY <1>2 DEF StartFires, Goto, Watching
  <1>3. CASE Create
    BY <1>3 DEF Create, Goto, Done, SetStatus
  <1>4. CASE Begin
    BY <1>4 DEF Begin, Goto
  <1>5. CASE Note
    BY <1>5 DEF Note, Goto, Done
  <1>6. CASE StopFires
    BY <1>6 DEF StopFires, Goto, Watching
  <1>7. CASE \E t \in Thread : StopCheck(t)
    <2>1. PICK t \in Thread : StopCheck(t)
      BY <1>7
    <2>2. CASE Die
      BY <2>2, DieDoes
    <2>3. CASE Done(t) /\ UNCHANGED <<mainVars, monitorVars>>
      BY <2>1, <2>3 DEF StopCheck, Done, Goto
    <2>4. CASE Goto(t, "end", rec[t]) /\ rec[t] # NoRec /\ UNCHANGED <<mainVars, monitorVars>>
      BY <2>1, <2>4 DEF StopCheck, Goto
    <2> QED BY <2>1, <2>2, <2>3, <2>4 DEF StopCheck
  <1>8. CASE \E t \in Thread : StopEnd(t)
    <2>1. PICK t \in Thread : StopEnd(t)
      BY <1>8
    <2>2. CASE Die
      BY <2>2, DieDoes
    <2>3. CASE Done(t) /\ UNCHANGED <<mainVars, monitorVars>>
      BY <2>1, <2>3 DEF StopEnd, Done, Goto
    <2>4. CASE t = "main" /\ Goto(t, "handback", NoRec) /\ UNCHANGED <<mainVars, monitorVars>>
      BY <2>1, <2>4 DEF StopEnd, Goto
    <2> QED BY <2>1, <2>2, <2>3, <2>4 DEF StopEnd
  <1>9. CASE \E r \in Recording : CrewStops(r)
    BY <1>9 DEF CrewStops, Goto
  <1>10. CASE Recover
    BY <1>10 DEF Recover, Active
  <1>11. CASE \E r \in Recording : ResumeNext(r)
    <2>1. PICK r \in Recording : ResumeNext(r)
      BY <1>11
    <2>2. CASE Die
      BY <2>2, DieDoes
    <2>3. CASE todo' = todo \ {r} /\ UNCHANGED <<phase, monitorVars, threadVars>>
      BY <2>1, <2>3 DEF ResumeNext
    <2>4. CASE /\ IF current = NoRec THEN Goto("main", "handback", NoRec)
                                     ELSE Goto("main", "check", current)
               /\ UNCHANGED <<mainVars, monitorVars>>
      BY <2>1, <2>4 DEF ResumeNext, Goto
    <2> QED BY <2>1, <2>2, <2>3, <2>4 DEF ResumeNext
  <1>12. CASE \E r \in Recording : HandBack(r)
    BY <1>12 DEF HandBack, Goto, Newest
  <1>13. CASE NoteResumed
    BY <1>13 DEF NoteResumed, Goto
  <1>14. CASE BeginResumed
    BY <1>14 DEF BeginResumed, Goto, Done
  <1>15. CASE Up
    BY <1>15 DEF Up
  <1>16. CASE Outage
    BY <1>16 DEF Outage, Die, Nothing
  <1>17. CASE Sails
    BY <1>17 DEF Sails
  <1> QED
    BY <1>1, <1>2, <1>3, <1>4, <1>5, <1>6, <1>7, <1>8, <1>9, <1>10, <1>11, <1>12,
       <1>13, <1>14, <1>15, <1>16, <1>17 DEF Next, TriggerStep, CrewStep, MainStep

-----------------------------------------------------------------------------
\* Only the end of the process ends the exception of an early start
LEMMA EarlyEndsInDie == Next /\ early /\ ~early' => Die
  <1> SUFFICES ASSUME Next, early, ~Die PROVE early' OBVIOUS
  <1> USE DEF historyVars, sailVars
  <1>1. CASE SeenInside \/ StartFires \/ StopFires \/ Sails
    BY <1>1 DEF SeenInside, StartFires, StopFires, Sails
  <1>2. CASE Create \/ Begin \/ Note
    BY <1>2 DEF Create, Begin, Note
  <1>3. CASE \E t \in Thread : StopCheck(t) \/ StopEnd(t)
    BY <1>3 DEF StopCheck, StopEnd
  <1>4. CASE \E r \in Recording : ResumeNext(r) \/ HandBack(r) \/ CrewStops(r)
    BY <1>4 DEF ResumeNext, HandBack, CrewStops
  <1>5. CASE Recover \/ NoteResumed \/ BeginResumed \/ Up \/ Outage
    BY <1>5 DEF Recover, NoteResumed, BeginResumed, Up, Outage
  <1> QED BY <1>1, <1>2, <1>3, <1>4, <1>5 DEF Next, TriggerStep, CrewStep, MainStep, Thread

\* The end of the process leaves nothing in anyone's hands
LEMMA DieKeeps == TypeOK /\ Die => HolderInv'
  <1> SUFFICES ASSUME TypeOK, Die PROVE HolderInv' OBVIOUS
  <1>1. phase' = "down" /\ held' = NoRec /\ \A t \in Thread : pc'[t] = "idle"
    BY DieDoes
  <1> QED BY <1>1 DEF HolderInv, SoundIsMinded, StartsTheOnly, HandsBackTheOnly,
                      HandedIsMinded, HeldIsNoted, Thread

LEMMA StutterKeeps == HolderInv /\ WhereEachIs /\ UNCHANGED vars => HolderInv' /\ WhereEachIs'
  BY Zenon DEF HolderInv, vars, mainVars, monitorVars, threadVars, worldVars,
     historyVars, sailVars, SoundIsMinded, StartsTheOnly, HandsBackTheOnly, HandedIsMinded,
     HeldIsNoted, WhereEachIs, Sound, Active, MonitorHas, TriggerHas

LEMMA StepKeeps == IInv /\ [Next]_vars => IInv'
  <1> SUFFICES ASSUME IInv, [Next]_vars PROVE IInv' OBVIOUS
  <1>1. TypeOK /\ WhereEachIs /\ TypeOK'
    BY TypesKeep DEF IInv
  <1>2. CASE Next
    <2>1. WhereEachIs'
      BY <1>1, <1>2, WhereEachIsKeeps
    <2>2. ASSUME ~early' PROVE HolderInv'
      <3>1. CASE early
        BY <1>1, <1>2, <2>2, <3>1, EarlyEndsInDie, DieKeeps
      <3>2. CASE ~early
        <4>1. Calm
          BY <3>2 DEF IInv, Calm
        <4> QED BY <1>1, <1>2, <2>2, <4>1, SoundIsMindedKeeps, StartsTheOnlyKeeps,
                   HandsBackTheOnlyKeeps, HandedIsMindedKeeps, HeldIsNotedKeeps DEF HolderInv
      <3> QED BY <3>1, <3>2
    <2> QED BY <1>1, <2>1, <2>2 DEF IInv
  <1>3. CASE UNCHANGED vars
    <2>1. early' = early
      BY <1>3 DEF vars, historyVars, sailVars
    <2>2. CASE early
      <3>1. WhereEachIs'
        BY <1>1, <1>3 DEF WhereEachIs, vars, mainVars, monitorVars, threadVars
      <3> QED BY <1>1, <2>1, <2>2, <3>1 DEF IInv
    <2>3. CASE ~early
      <3>1. HolderInv' /\ WhereEachIs'
        BY <1>1, <1>3, <2>3, StutterKeeps DEF IInv
      <3> QED BY <1>1, <2>1, <3>1 DEF IInv
    <2> QED BY <2>2, <2>3
  <1> QED BY <1>2, <1>3

-----------------------------------------------------------------------------
\* Every variable keeps its type (trigger_monitor.py and the callbacks of
\* main.py)
THEOREM TypesAreKept == Spec => []TypeOK
  <1>1. IInv => TypeOK BY DEF IInv
  <1> QED BY InitKeeps, StepKeeps, <1>1, PTL DEF Spec

\* For any number of recordings and outages, whether or not the database may be
\* locked: while nobody is in the middle of something, and unless a start came
\* before main had resumed all, an active recording a stop of which did not raise
\* is the one its monitor will stop (main.py, _resume_recordings), and so there is
\* at most one
THEOREM TriggerIsKept == Spec => []ActiveHasTrigger
  <1>1. IInv => ActiveHasTrigger
    <2> SUFFICES ASSUME IInv, Quiet, ~early, NEW r \in Active \ unstopped
                 PROVE  state = "triggered" /\ held = r
      BY DEF ActiveHasTrigger
    <2>1. phase = "up" /\ todo = {} /\ ~TriggerHas(r)
      BY DEF IInv, WhereEachIs, Quiet, TriggerHas, Thread
    <2> QED BY <2>1 DEF IInv, HolderInv, SoundIsMinded, Sound, MonitorHas
  <1> QED BY InitKeeps, StepKeeps, <1>1, PTL DEF Spec

-----------------------------------------------------------------------------
\* A status once given is never taken back to none
LEMMA CrewHasBegunKeeps == Calm /\ SailParts /\ Next /\ TypeOK' /\ ~early' => CrewHasBegun'
  <1> SUFFICES ASSUME Calm, SailParts, Next, TypeOK', ~early' PROVE CrewHasBegun' OBVIOUS
  <1> USE TriggeredAssumption DEF Calm, HolderInv, TypeOK, worldVars, mainVars, monitorVars, threadVars,
          historyVars, sailVars, Thread, Active, WhereEachIs, SailParts, CrewHasBegun
  <1>1. CASE SeenInside
    BY <1>1 DEF SeenInside
  <1>2. CASE StartFires
    BY <1>2 DEF StartFires, Goto, Watching
  <1>3. CASE Create
    <2>1. pc'["crew"] = pc["crew"] /\ rec'["crew"] = rec["crew"]
      BY <1>3 DEF Create, Goto, Done
    <2>2. \A q \in Recording : status[q] # "none" => status'[q] # "none"
      BY <1>3 DEF Create, SetStatus
    <2> QED BY <2>1, <2>2
  <1>4. CASE Begin
    BY <1>4 DEF Begin, Goto
  <1>5. CASE Note
    BY <1>5 DEF Note, Goto, Done
  <1>6. CASE StopFires
    BY <1>6 DEF StopFires, Goto, Watching
  <1>7. CASE \E t \in Thread : StopCheck(t)
    BY <1>7 DEF StopCheck, Goto, Done, Die, Nothing
  <1>8. CASE \E t \in Thread : StopEnd(t)
    <2>1. PICK t \in Thread : StopEnd(t)
      BY <1>8
    <2>2. pc'["crew"] # "idle" => pc'["crew"] = pc["crew"] /\ rec'["crew"] = rec["crew"]
      BY <2>1 DEF StopEnd, Goto, Done, Die, Nothing
    <2>3. \A q \in Recording : status[q] # "none" => status'[q] # "none"
      BY <2>1 DEF StopEnd, SetStatus, Die
    <2> QED BY <2>2, <2>3
  <1>9. CASE \E r \in Recording : CrewStops(r)
    BY <1>9 DEF CrewStops, Goto
  <1>10. CASE Recover
    BY <1>10 DEF Recover
  <1>11. CASE \E r \in Recording : ResumeNext(r)
    <2>1. PICK r \in Recording : ResumeNext(r)
      BY <1>11
    <2>2. pc'["crew"] # "idle" => pc'["crew"] = pc["crew"] /\ rec'["crew"] = rec["crew"]
      BY <2>1 DEF ResumeNext, Goto, Die, Nothing
    <2>3. \A q \in Recording : status[q] # "none" => status'[q] # "none"
      BY <2>1 DEF ResumeNext, SetStatus, Die
    <2> QED BY <2>2, <2>3
  <1>12. CASE \E r \in Recording : HandBack(r)
    BY <1>12 DEF HandBack, Goto, Newest
  <1>13. CASE NoteResumed
    BY <1>13 DEF NoteResumed, Goto
  <1>14. CASE BeginResumed
    BY <1>14 DEF BeginResumed, Goto, Done
  <1>15. CASE Up
    BY <1>15 DEF Up
  <1>16. CASE Outage
    BY <1>16 DEF Outage, Die, Nothing
  <1>17. CASE Sails
    BY <1>17 DEF Sails
  <1> QED
    BY <1>1, <1>2, <1>3, <1>4, <1>5, <1>6, <1>7, <1>8, <1>9, <1>10, <1>11, <1>12,
       <1>13, <1>14, <1>15, <1>16, <1>17 DEF Next, TriggerStep, CrewStep, MainStep

\* The process dies with a recording active as long as a sail is owed one
LEMMA LeftActiveKeeps == Calm /\ SailParts /\ Next /\ TypeOK' /\ ~early' => LeftActive'
  <1> SUFFICES ASSUME Calm, SailParts, Next, TypeOK', ~early' PROVE LeftActive' OBVIOUS
  <1> USE TriggeredAssumption DEF Calm, HolderInv, TypeOK, worldVars, mainVars, monitorVars, threadVars,
          historyVars, sailVars, Thread, Active, WhereEachIs, SailParts, LeftActive
  <1>1. CASE SeenInside
    BY <1>1 DEF SeenInside
  <1>2. CASE StartFires
    BY <1>2 DEF StartFires, Goto, Watching
  <1>3. CASE Create
    BY <1>3 DEF Create, Goto, Done, SetStatus
  <1>4. CASE Begin
    BY <1>4 DEF Begin, Goto
  <1>5. CASE Note
    BY <1>5 DEF Note, Goto, Done
  <1>6. CASE StopFires
    BY <1>6 DEF StopFires, Goto, Watching
  <1>7. CASE \E t \in Thread : StopCheck(t)
    BY <1>7 DEF StopCheck, Goto, Done, Die, Nothing, ResumeCarries, SailIsHad, StillRecorded, Sailing
  <1>8. CASE \E t \in Thread : StopEnd(t)
    <2>1. PICK t \in Thread : StopEnd(t)
      BY <1>8
    <2>2. CASE t = "main" /\ Die
      <3>1. current' = NoRec /\ status' = status /\ (owed' => owed)
        BY <2>1, <2>2, DieDoes DEF StopEnd
      <3>2. phase = "starting" /\ pc["main"] = "end"
        BY <2>1, <2>2 DEF StopEnd
      <3>3. owed => Active # {}
        BY <3>2 DEF ResumeCarries
      <3> QED BY <3>1, <3>3
    <2>3. CASE UNCHANGED mainVars
      BY <2>1, <2>3 DEF StopEnd
    <2> QED BY <2>1, <2>2, <2>3 DEF StopEnd
  <1>9. CASE \E r \in Recording : CrewStops(r)
    BY <1>9 DEF CrewStops, Goto
  <1>10. CASE Recover
    BY <1>10 DEF Recover
  <1>11. CASE \E r \in Recording : ResumeNext(r)
    BY <1>11 DEF ResumeNext, Goto, SetStatus, Die, Nothing, Newest, ResumeCarries, StillRecorded
  <1>12. CASE \E r \in Recording : HandBack(r)
    BY <1>12 DEF HandBack, Goto, Newest
  <1>13. CASE NoteResumed
    BY <1>13 DEF NoteResumed, Goto
  <1>14. CASE BeginResumed
    BY <1>14 DEF BeginResumed, Goto, Done
  <1>15. CASE Up
    BY <1>15 DEF Up
  <1>16. CASE Outage
    BY <1>16 DEF Outage, Die, Nothing, ResumeCarries, SailIsHad, StillRecorded, Sailing
  <1>17. CASE Sails
    BY <1>17 DEF Sails
  <1> QED
    BY <1>1, <1>2, <1>3, <1>4, <1>5, <1>6, <1>7, <1>8, <1>9, <1>10, <1>11, <1>12,
       <1>13, <1>14, <1>15, <1>16, <1>17 DEF Next, TriggerStep, CrewStep, MainStep

\* Of what is resumed, main ends one only for another
LEMMA ResumeCarriesKeeps == Calm /\ SailParts /\ Next /\ TypeOK' /\ ~early' => ResumeCarries'
  <1> SUFFICES ASSUME Calm, SailParts, Next, TypeOK', ~early' PROVE ResumeCarries' OBVIOUS
  <1> USE TriggeredAssumption DEF Calm, HolderInv, TypeOK, worldVars, mainVars, monitorVars, threadVars,
          historyVars, sailVars, Thread, Active, WhereEachIs, SailParts, ResumeCarries, StillRecorded
  <1>1. CASE SeenInside
    BY <1>1 DEF SeenInside
  <1>2. CASE StartFires
    BY <1>2 DEF StartFires, Goto, Watching
  <1>3. CASE Create
    BY <1>3 DEF Create, Goto, Done, SetStatus, StartsTheOnly
  <1>4. CASE Begin
    BY <1>4 DEF Begin, Goto
  <1>5. CASE Note
    BY <1>5 DEF Note, Goto, Done
  <1>6. CASE StopFires
    BY <1>6 DEF StopFires, Goto, Watching
  <1>7. CASE \E t \in Thread : StopCheck(t)
    <2>1. PICK t \in Thread : StopCheck(t)
      BY <1>7
    <2>2. CASE Die
      BY <2>2, DieDoes
    <2>3. CASE ~Die
      <3>1. UNCHANGED <<phase, owed, status, todo, monitored, current, held>>
        BY <2>1, <2>3 DEF StopCheck
      <3>2. CASE ~(phase = "starting" /\ owed)
        BY <3>1, <3>2
      <3>3. CASE phase = "starting" /\ owed
        <4>1. t = "main" /\ rec["main"] = held /\ held \in Active
          BY <2>1, <3>3 DEF StopCheck
        <4>2. heard' = heard \ {held} /\ Goto("main", "end", held)
          BY <2>1, <2>3, <4>1 DEF StopCheck
        <4>3. /\ pc'["main"] = "end" /\ rec'["main"] = held
              /\ pc'["trigger"] = pc["trigger"] /\ pc'["crew"] = pc["crew"]
          BY <4>2 DEF Goto
        <4> QED BY <2>1, <3>1, <3>3, <4>1, <4>3 DEF StopCheck
      <3> QED BY <3>2, <3>3
    <2> QED BY <2>2, <2>3
  <1>8. CASE \E t \in Thread : StopEnd(t)
    <2>1. PICK t \in Thread : StopEnd(t)
      BY <1>8
    <2>2. CASE Die
      BY <2>2, DieDoes
    <2>3. CASE ~Die
      <3>1. UNCHANGED <<phase, owed, todo, monitored, current, held>>
        BY <2>1, <2>3 DEF StopEnd
      <3>2. CASE ~(phase = "starting" /\ owed)
        BY <3>1, <3>2
      <3>3. CASE phase = "starting" /\ owed
        <4>1. t = "main"
          BY <2>1, <3>3 DEF StopEnd
        <4>2. SetStatus(rec["main"], "stopped") /\ Goto("main", "handback", NoRec)
          BY <2>1, <2>3, <4>1 DEF StopEnd
        <4>3. /\ pc'["main"] = "handback"
              /\ pc'["trigger"] = pc["trigger"] /\ pc'["crew"] = pc["crew"]
          BY <4>2 DEF Goto
        <4>4. todo \subseteq Active'
          BY <2>1, <3>3, <4>1, <4>2 DEF StopEnd, SetStatus
        <4> QED BY <2>1, <3>1, <3>3, <4>1, <4>3, <4>4 DEF StopEnd
      <3> QED BY <3>2, <3>3
    <2> QED BY <2>2, <2>3
  <1>9. CASE \E r \in Recording : CrewStops(r)
    BY <1>9 DEF CrewStops, Goto
  <1>10. CASE Recover
    BY <1>10 DEF Recover, LeftActive
  <1>11. CASE \E r \in Recording : ResumeNext(r)
    <2>1. PICK r \in Recording : ResumeNext(r)
      BY <1>11
    <2>3. CASE owed
      <3>1. r \in Active /\ monitored
        BY <2>1, <2>3 DEF ResumeNext, Newest
      <3>2. CASE Die
        BY <3>2, DieDoes
      <3>3. CASE current = NoRec /\ Goto("main", "handback", NoRec) /\ UNCHANGED <<status, heard, mainVars, monitorVars, sailVars>>
        BY <2>1, <3>1, <3>3 DEF ResumeNext, Newest, Goto
      <3>4. CASE current # NoRec /\ Goto("main", "check", current) /\ UNCHANGED <<status, heard, mainVars, monitorVars, sailVars>>
        BY <2>1, <3>1, <3>4 DEF ResumeNext, Newest, Goto
      <3> QED BY <2>1, <3>1, <3>2, <3>3, <3>4 DEF ResumeNext
    <2>4. CASE ~owed
      BY <2>1, <2>4, DieDoes DEF ResumeNext
    <2> QED BY <2>3, <2>4
  <1>12. CASE \E r \in Recording : HandBack(r)
    BY <1>12 DEF HandBack, Goto, Newest
  <1>13. CASE NoteResumed
    BY <1>13 DEF NoteResumed, Goto
  <1>14. CASE BeginResumed
    BY <1>14 DEF BeginResumed, Goto, Done
  <1>15. CASE Up
    BY <1>15 DEF Up
  <1>16. CASE Outage
    BY <1>16 DEF Outage, Die, Nothing
  <1>17. CASE Sails
    BY <1>17 DEF Sails
  <1> QED
    BY <1>1, <1>2, <1>3, <1>4, <1>5, <1>6, <1>7, <1>8, <1>9, <1>10, <1>11, <1>12,
       <1>13, <1>14, <1>15, <1>16, <1>17 DEF Next, TriggerStep, CrewStep, MainStep

\* Nobody but the trigger and the crew ends what is being recorded
LEMMA SailIsHadKeeps == Calm /\ SailParts /\ Next /\ TypeOK' /\ ~early' => SailIsHad'
  <1> SUFFICES ASSUME Calm, SailParts, Next, TypeOK', ~early' PROVE SailIsHad' OBVIOUS
  <1> USE TriggeredAssumption DEF Calm, HolderInv, TypeOK, worldVars, mainVars, monitorVars, threadVars,
          historyVars, sailVars, Thread, Active, WhereEachIs, SailParts, SailIsHad, Sailing, StillRecorded
  <1>1. CASE SeenInside
    BY <1>1 DEF SeenInside
  <1>2. CASE StartFires
    BY <1>2 DEF StartFires, Goto, Watching
  <1>3. CASE Create
    BY <1>3 DEF Create, Goto, Done, SetStatus, StartsTheOnly, CrewHasBegun
  <1>4. CASE Begin
    BY <1>4 DEF Begin, Goto, StartsTheOnly
  <1>5. CASE Note
    BY <1>5 DEF Note, Goto, Done, StartsTheOnly
  <1>6. CASE StopFires
    BY <1>6 DEF StopFires, Goto, Watching
  <1>7. CASE \E t \in Thread : StopCheck(t)
    <2>1. PICK t \in Thread : StopCheck(t)
      BY <1>7
    <2>2. CASE Die
      BY <2>2, DieDoes
    <2>3. CASE ~Die
      <3>1. UNCHANGED <<phase, owed, status, state, held>>
        BY <2>1, <2>3 DEF StopCheck
      <3>2. CASE ~(phase = "up" /\ owed)
        BY <3>1, <3>2
      <3>3. CASE phase = "up" /\ owed
        <4>1. t = "crew"
          BY <2>1, <3>3 DEF StopCheck
        <4>2. /\ pc'["trigger"] = pc["trigger"] /\ rec'["trigger"] = rec["trigger"]
              /\ pc'["crew"] # "idle" => rec'["crew"] = rec["crew"]
          BY <2>1, <2>3, <4>1 DEF StopCheck, Goto, Done
        <4>3. rec["crew"] # Sailing /\ heard \ {rec["crew"]} \subseteq heard'
          BY <2>1, <2>3, <3>3, <4>1 DEF StopCheck
        <4> QED BY <3>1, <3>3, <4>2, <4>3
      <3> QED BY <3>2, <3>3
    <2> QED BY <2>2, <2>3
  <1>8. CASE \E t \in Thread : StopEnd(t)
    <2>1. PICK t \in Thread : StopEnd(t)
      BY <1>8
    <2>2. CASE t = "main"
      BY <2>1, <2>2 DEF StopEnd, Goto, Done, SetStatus, Die, Nothing
    <2>3. CASE t = "trigger"
      BY <2>1, <2>3 DEF StopEnd
    <2>4. CASE t = "crew" /\ owed
      <3>1. UNCHANGED <<phase, monitorVars, heard, owed>>
        BY <2>1, <2>4 DEF StopEnd
      <3>2. pc'["trigger"] = pc["trigger"] /\ rec'["trigger"] = rec["trigger"]
            /\ pc'["crew"] = "idle"
        BY <2>1, <2>4 DEF StopEnd, Goto, Done
      <3>3. \A q \in Recording \ {rec["crew"]} : status'[q] = status[q]
        BY <2>1, <2>4 DEF StopEnd, SetStatus
      <3>4. rec["crew"] # Sailing \/ phase # "up"
        BY <2>1, <2>4 DEF StopEnd
      <3> QED BY <3>1, <3>2, <3>3, <3>4
    <2>5. CASE ~owed
      BY <2>1, <2>5, DieDoes DEF StopEnd
    <2> QED BY <2>2, <2>3, <2>4, <2>5
  <1>9. CASE \E r \in Recording : CrewStops(r)
    BY <1>9 DEF CrewStops, Goto
  <1>10. CASE Recover
    BY <1>10 DEF Recover
  <1>11. CASE \E r \in Recording : ResumeNext(r)
    BY <1>11 DEF ResumeNext, Goto, SetStatus, Die, Nothing, Newest
  <1>12. CASE \E r \in Recording : HandBack(r)
    BY <1>12 DEF HandBack, Goto, Newest
  <1>13. CASE NoteResumed
    BY <1>13 DEF NoteResumed, Goto
  <1>14. CASE BeginResumed
    BY <1>14 DEF BeginResumed, Goto, Done
  <1>15. CASE Up
    BY <1>15 DEF Up, ResumeCarries
  <1>16. CASE Outage
    BY <1>16 DEF Outage, Die, Nothing
  <1>17. CASE Sails
    BY <1>17 DEF Sails
  <1> QED
    BY <1>1, <1>2, <1>3, <1>4, <1>5, <1>6, <1>7, <1>8, <1>9, <1>10, <1>11, <1>12,
       <1>13, <1>14, <1>15, <1>16, <1>17 DEF Next, TriggerStep, CrewStep, MainStep

\* Of a sail begun early nothing is owed past the end of the process
LEMMA DieOwesNothing == TypeOK /\ early /\ Die => SailParts'
  <1> SUFFICES ASSUME TypeOK, early, Die PROVE SailParts' OBVIOUS
  <1>1. /\ phase' = "down" /\ current' = NoRec /\ owed' = FALSE
        /\ \A t \in Thread : pc'[t] = "idle"
    BY DieDoes DEF TypeOK
  <1> QED BY <1>1 DEF SailParts, CrewHasBegun, LeftActive, ResumeCarries, SailIsHad, Thread

LEMMA SailStepKeeps == IInv /\ SailInv /\ [Next]_vars => SailInv'
  <1> SUFFICES ASSUME IInv, SailInv, [Next]_vars, ~early' PROVE SailParts'
    BY DEF SailInv
  <1>1. TypeOK /\ TypeOK'
    BY TypesKeep DEF IInv
  <1>2. CASE Next /\ early
    BY <1>1, <1>2, EarlyEndsInDie, DieOwesNothing
  <1>3. CASE Next /\ ~early
    <2>1. Calm /\ SailParts
      BY <1>3 DEF IInv, Calm, SailInv
    <2> QED BY <1>1, <1>3, <2>1, CrewHasBegunKeeps, LeftActiveKeeps, ResumeCarriesKeeps,
               SailIsHadKeeps DEF SailParts
  <1>4. CASE UNCHANGED vars
    <2>1. SailParts
      BY <1>4 DEF SailInv, vars, historyVars, sailVars
    <2> QED BY <1>4, <2>1 DEF vars, mainVars, monitorVars, threadVars, worldVars, historyVars,
       sailVars, SailParts, CrewHasBegun, LeftActive, ResumeCarries, SailIsHad, Sailing,
       StillRecorded, Active
  <1> QED BY <1>2, <1>3, <1>4

\* For any number of recordings and outages, whether or not the database may be
\* locked: a sail of which a recording was made is being recorded whenever nobody
\* is in the middle of something, until the boat is back, the crew stop it, or
\* recovery has reason to end it, unless a start came before main had resumed all
\* (main.py, _resume_recordings)
THEOREM SailStaysRecorded == Spec => []SailIsRecorded
  <1>1. Init => SailInv
    BY DEF Init, SailInv, SailParts, CrewHasBegun, LeftActive, ResumeCarries, SailIsHad, Thread
  <1>2. IInv /\ SailInv => SailIsRecorded
    BY DEF SailInv, SailParts, SailIsHad, Sailing, SailIsRecorded, Quiet, Thread
  <1> QED BY InitKeeps, StepKeeps, SailStepKeeps, <1>1, <1>2, PTL DEF Spec
===============================================================================
