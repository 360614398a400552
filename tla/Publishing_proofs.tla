-------------------------- MODULE Publishing_proofs --------------------------
(***************************************************************************)
(* A recording has no post that is not known to the service, or that it    *)
(* could not have learned of; and with no faults it is one post for its    *)
(* whole life, which is PostLife.  Each inductive invariant has a lemma    *)
(* for its types and one for the rest, a step for each action.             *)
(* Of the bridge: a line is published by the settings of its time, and     *)
(* those settings are what is told.                                        *)
(***************************************************************************)
EXTENDS PublishingProperties, Bridge, WellFoundedInduction, TLAPS

\* What IInv says besides the types
PostInv == /\ PostsAreKnown /\ ThreadHasJob /\ AnswerIsHeld /\ UpdatesItsPost
           /\ AnswerIsTheTarget /\ CreatesTheFirst /\ AnswerIsKnown /\ LinkIsOfThePost

LEMMA IInvParts == IInv <=> TypeOK /\ PostInv
  BY DEF IInv, PostInv

-----------------------------------------------------------------------------
\* The initial states: no job, and a post only where a link leads to it
LEMMA InitKeeps == Init => IInv
  <1> SUFFICES ASSUME Init PROVE IInv OBVIOUS
  <1> USE PublishingAssumption DEF Init, JobInit, OthersInit
  <1>1. FlagsOK
    BY Zenon DEF FlagsOK
  <1>2. TypeOK
    BY <1>1 DEF TypeOK, PostState, Outcome, Jpc, Who
  <1>3. PostInv
    BY DEF PostInv, PostsAreKnown, ThreadHasJob, AnswerIsHeld, UpdatesItsPost,
           AnswerIsTheTarget, CreatesTheFirst, AnswerIsKnown, LinkIsOfThePost
  <1> QED BY <1>2, <1>3, IInvParts

-----------------------------------------------------------------------------
\* The flags of the state stay flags
LEMMA FlagsKeep == TypeOK /\ Next => FlagsOK'
  <1> SUFFICES ASSUME TypeOK, Next PROVE FlagsOK' OBVIOUS
  <1> USE DEF TypeOK, FlagsOK, Running, dbVars, jobVars, otherVars, siteVars
  <1>1. CASE Draw
    BY <1>1, ZenonT(30) DEF Draw, Goto, EndAs, JobAt
  <1>2. CASE Reach
    BY <1>2, ZenonT(30) DEF Reach, Goto, EndAs, JobAt
  <1>3. CASE Check
    BY <1>3, ZenonT(30) DEF Check, Goto, EndAs, JobAt, GoOnWith, Known
  <1>4. CASE Mark
    BY <1>4, ZenonT(30) DEF Mark, Goto, EndAs, JobAt, Raises
  <1>5. CASE \E p \in Post : PostTaken(p)
    BY <1>5, ZenonT(30) DEF PostTaken
  <1>6. CASE PostNotTaken
    BY <1>6, ZenonT(30) DEF PostNotTaken, JobAt, Again
  <1>7. CASE MarkFailed
    BY <1>7, ZenonT(30) DEF MarkFailed, JobAt, Raises, EndAs
  <1>8. CASE SaveRef
    BY <1>8, ZenonT(30) DEF SaveRef, JobAt, Raises, EndAs, Goto, Unlearned
  <1>9. CASE SaveState
    BY <1>9, ZenonT(30) DEF SaveState, JobAt, Raises, EndAs, Goto
  <1>10. CASE SaveLink
    BY <1>10, ZenonT(30) DEF SaveLink, JobAt, Raises, EndAs, Goto
  <1>11. CASE Settle
    BY <1>11, ZenonT(30) DEF Settle, JobAt, Goto
  <1>12. CASE Clear
    BY <1>12, ZenonT(30) DEF Clear, JobAt, Goto, NoThread
  <1>13. CASE End
    BY <1>13, ZenonT(30) DEF End, JobAt, NoThread
  <1>14. CASE StopLooks
    BY <1>14, ZenonT(30) DEF StopLooks
  <1>15. CASE StopPublishes
    BY <1>15, ZenonT(30) DEF StopPublishes, StartJob
  <1>16. CASE PendingList
    BY <1>16, ZenonT(30) DEF PendingList
  <1>17. CASE PendingLook
    BY <1>17, ZenonT(30) DEF PendingLook
  <1>18. CASE PendingStart
    BY <1>18, ZenonT(30) DEF PendingStart, StartJob
  <1>19. CASE PendingWaited
    BY <1>19, ZenonT(30) DEF PendingWaited
  <1>20. CASE AskWrite
    BY <1>20, ZenonT(30) DEF AskWrite
  <1>21. CASE PublishAsked
    BY <1>21, ZenonT(30) DEF PublishAsked, StartJob
  <1>22. CASE AskOnStop
    BY <1>22, ZenonT(30) DEF AskOnStop, StartJob
  <1>23. CASE AskNoMore
    BY <1>23, ZenonT(30) DEF AskNoMore
  <1>24. CASE Stop
    BY <1>24, ZenonT(30) DEF Stop
  <1>25. CASE Reset
    BY <1>25, ZenonT(30) DEF Reset
  <1>26. CASE \E p \in Post : EditPost(p)
    BY <1>26, ZenonT(30) DEF EditPost
  <1>27. CASE \E p \in Post : RemovePost(p)
    BY <1>27, ZenonT(30) DEF RemovePost
  <1>28. CASE Network
    BY <1>28, ZenonT(30) DEF Network
  <1>29. CASE Crash
    BY <1>29, ZenonT(30) DEF Crash, NoThread, Unlearned
  <1>30. CASE Restart
    BY <1>30, ZenonT(30) DEF Restart
  <1> QED
    BY <1>1, <1>2, <1>3, <1>4, <1>5, <1>6, <1>7, <1>8, <1>9, <1>10, <1>11,
       <1>12, <1>13, <1>14, <1>15, <1>16, <1>17, <1>18, <1>19, <1>20, <1>21,
       <1>22, <1>23, <1>24, <1>25, <1>26, <1>27, <1>28, <1>29, <1>30 DEF Next,
       JobStep, StopStep, PendingStep, Crew, Site

\* What the site answers is a post, and what it did not hear is made again
LEMMA PostTakenTypes ==
  ASSUME NEW p \in Post, TypeOK, PostTaken(p), FlagsOK' PROVE TypeOK'
  <1> USE PublishingAssumption DEF TypeOK, PostTaken, JobAt, Fresh
  <1>1. live' \subseteq Post /\ theirs' \subseteq live' /\ sinceKnown' \subseteq Who
    <2>1. CASE target = NoPost BY <2>1
    <2>2. CASE target # NoPost BY <2>2 DEF Who
    <2> QED BY <2>1, <2>2
  <1>2. /\ jpc' \in Jpc /\ tries' \in 0..(MaxTries - 1) /\ got' \in Post \cup {NoPost}
        /\ sinceGot' \subseteq Who /\ unheard' \subseteq Post
        /\ UNCHANGED <<job, target, outcome>>
    BY DEF Jpc, Again
  <1>3. UNCHANGED <<dbVars, otherVars>>
    OBVIOUS
  <1> QED BY <1>1, <1>2, <1>3 DEF dbVars, otherVars

\* So do the rest of the types
LEMMA TypesKeep == TypeOK /\ AnswerIsHeld /\ Next => TypeOK'
  <1> SUFFICES ASSUME TypeOK, AnswerIsHeld, Next PROVE TypeOK' OBVIOUS
  <1>0. FlagsOK' BY FlagsKeep
  <1> USE PublishingAssumption
      DEF TypeOK, PostState, Outcome, Jpc, Running, dbVars, jobVars, otherVars, siteVars
  <1>1. CASE Draw
    BY <1>1, <1>0 DEF Draw, Goto, EndAs, JobAt
  <1>2. CASE Reach
    BY <1>2, <1>0 DEF Reach, Goto, EndAs, JobAt
  <1>3. CASE Check
    BY <1>3, <1>0 DEF Check, Goto, EndAs, JobAt, GoOnWith, Known
  <1>4. CASE Mark
    BY <1>4, <1>0 DEF Mark, Goto, EndAs, JobAt, Raises
  <1>5. CASE \E p \in Post : PostTaken(p)
    BY <1>5, <1>0, PostTakenTypes
  <1>6. CASE PostNotTaken
    BY <1>6, <1>0 DEF PostNotTaken, JobAt, Again
  <1>7. CASE MarkFailed
    BY <1>7, <1>0 DEF MarkFailed, JobAt, Raises, EndAs
  <1>8. CASE SaveRef
    BY <1>8, <1>0 DEF SaveRef, JobAt, Raises, EndAs, Goto, Unlearned,
       AnswerIsHeld
  <1>9. CASE SaveState
    BY <1>9, <1>0 DEF SaveState, JobAt, Raises, EndAs, Goto
  <1>10. CASE SaveLink
    BY <1>10, <1>0 DEF SaveLink, JobAt, Raises, EndAs, Goto
  <1>11. CASE Settle
    BY <1>11, <1>0 DEF Settle, JobAt, Goto
  <1>12. CASE Clear
    BY <1>12, <1>0 DEF Clear, JobAt, Goto, NoThread
  <1>13. CASE End
    BY <1>13, <1>0 DEF End, JobAt, NoThread
  <1>14. CASE StopLooks
    BY <1>14, <1>0 DEF StopLooks
  <1>15. CASE StopPublishes
    BY <1>15, <1>0 DEF StopPublishes, StartJob
  <1>16. CASE PendingList
    BY <1>16, <1>0 DEF PendingList
  <1>17. CASE PendingLook
    BY <1>17, <1>0 DEF PendingLook
  <1>18. CASE PendingStart
    BY <1>18, <1>0 DEF PendingStart, StartJob
  <1>19. CASE PendingWaited
    BY <1>19, <1>0 DEF PendingWaited
  <1>20. CASE AskWrite
    BY <1>20, <1>0 DEF AskWrite
  <1>21. CASE PublishAsked
    BY <1>21, <1>0 DEF PublishAsked, StartJob
  <1>22. CASE AskOnStop
    BY <1>22, <1>0 DEF AskOnStop, StartJob
  <1>23. CASE AskNoMore
    BY <1>23, <1>0 DEF AskNoMore
  <1>24. CASE Stop
    BY <1>24, <1>0 DEF Stop
  <1>25. CASE Reset
    BY <1>25, <1>0 DEF Reset
  <1>26. CASE \E p \in Post : EditPost(p)
    BY <1>26, <1>0 DEF EditPost, Who
  <1>27. CASE \E p \in Post : RemovePost(p)
    BY <1>27, <1>0 DEF RemovePost
  <1>28. CASE Network
    BY <1>28, <1>0 DEF Network
  <1>29. CASE Crash
    BY <1>29, <1>0 DEF Crash, NoThread, Unlearned, AnswerIsHeld
  <1>30. CASE Restart
    BY <1>30, <1>0 DEF Restart
  <1> QED
    BY <1>1, <1>2, <1>3, <1>4, <1>5, <1>6, <1>7, <1>8, <1>9, <1>10, <1>11,
       <1>12, <1>13, <1>14, <1>15, <1>16, <1>17, <1>18, <1>19, <1>20, <1>21,
       <1>22, <1>23, <1>24, <1>25, <1>26, <1>27, <1>28, <1>29, <1>30 DEF Next,
       JobStep, StopStep, PendingStep, Crew, Site

\* And what is known of the posts
LEMMA PostsKeep == TypeOK /\ PostInv /\ Next => PostInv'
  <1> SUFFICES ASSUME TypeOK, PostInv, Next PROVE PostInv' OBVIOUS
  <1> USE PublishingAssumption
      DEF TypeOK, Outcome, PostInv, Running, PostsAreKnown, ThreadHasJob, AnswerIsHeld,
          UpdatesItsPost, AnswerIsTheTarget, CreatesTheFirst, AnswerIsKnown,
          LinkIsOfThePost, dbVars, jobVars, otherVars, siteVars
  <1>1. CASE Draw
    BY <1>1 DEF Draw, Goto, EndAs, JobAt
  <1>2. CASE Reach
    BY <1>2 DEF Reach, Goto, EndAs, JobAt
  <1>3. CASE Check
    BY <1>3 DEF Check, Goto, EndAs, JobAt, GoOnWith, Known
  <1>4. CASE Mark
    BY <1>4 DEF Mark, Goto, EndAs, JobAt, Raises
  <1>5. CASE \E p \in Post : PostTaken(p)
    BY <1>5 DEF PostTaken, JobAt, Again, Fresh
  <1>6. CASE PostNotTaken
    BY <1>6 DEF PostNotTaken, JobAt, Again
  <1>7. CASE MarkFailed
    BY <1>7 DEF MarkFailed, JobAt, Raises, EndAs
  <1>8. CASE SaveRef
    BY <1>8 DEF SaveRef, JobAt, Raises, EndAs, Goto, Unlearned
  <1>9. CASE SaveState
    BY <1>9 DEF SaveState, JobAt, Raises, EndAs, Goto
  <1>10. CASE SaveLink
    BY <1>10 DEF SaveLink, JobAt, Raises, EndAs, Goto
  <1>11. CASE Settle
    BY <1>11 DEF Settle, JobAt, Goto
  <1>12. CASE Clear
    BY <1>12 DEF Clear, JobAt, Goto, NoThread
  <1>13. CASE End
    BY <1>13 DEF End, JobAt, NoThread
  <1>14. CASE StopLooks
    BY <1>14 DEF StopLooks
  <1>15. CASE StopPublishes
    BY <1>15 DEF StopPublishes, StartJob
  <1>16. CASE PendingList
    BY <1>16 DEF PendingList
  <1>17. CASE PendingLook
    BY <1>17 DEF PendingLook
  <1>18. CASE PendingStart
    BY <1>18 DEF PendingStart, StartJob
  <1>19. CASE PendingWaited
    BY <1>19 DEF PendingWaited
  <1>20. CASE AskWrite
    BY <1>20 DEF AskWrite
  <1>21. CASE PublishAsked
    BY <1>21 DEF PublishAsked, StartJob
  <1>22. CASE AskOnStop
    BY <1>22 DEF AskOnStop, StartJob
  <1>23. CASE AskNoMore
    BY <1>23 DEF AskNoMore
  <1>24. CASE Stop
    BY <1>24 DEF Stop
  <1>25. CASE Reset
    BY <1>25 DEF Reset
  <1>26. CASE \E p \in Post : EditPost(p)
    BY <1>26 DEF EditPost
  <1>27. CASE \E p \in Post : RemovePost(p)
    BY <1>27 DEF RemovePost
  <1>28. CASE Network
    BY <1>28 DEF Network
  <1>29. CASE Crash
    BY <1>29 DEF Crash, NoThread, Unlearned
  <1>30. CASE Restart
    BY <1>30 DEF Restart
  <1> QED
    BY <1>1, <1>2, <1>3, <1>4, <1>5, <1>6, <1>7, <1>8, <1>9, <1>10, <1>11,
       <1>12, <1>13, <1>14, <1>15, <1>16, <1>17, <1>18, <1>19, <1>20, <1>21,
       <1>22, <1>23, <1>24, <1>25, <1>26, <1>27, <1>28, <1>29, <1>30 DEF Next,
       JobStep, StopStep, PendingStep, Crew, Site

\* IInv is inductive
LEMMA Inductive == IInv /\ [Next]_vars => IInv'
  <1>1. IInv /\ Next => IInv'
    BY TypesKeep, PostsKeep DEF IInv, PostInv
  <1>2. IInv /\ UNCHANGED vars => IInv'
    BY DEF IInv, TypeOK, FlagsOK, Running, PostsAreKnown, ThreadHasJob, AnswerIsHeld,
           UpdatesItsPost, AnswerIsTheTarget, CreatesTheFirst, AnswerIsKnown,
           LinkIsOfThePost, vars, dbVars, jobVars, otherVars, siteVars
  <1> QED BY <1>1, <1>2

\* The inductive invariant holds of every behaviour
THEOREM InductiveInvariant == Spec => []IInv
  BY InitKeeps, Inductive, PTL DEF Spec

\* The state of a publish stays well typed
THEOREM TypeIsCorrect == Spec => []TypeOK
  BY InductiveInvariant, IInvParts, PTL

\* No outage, edit, deletion in wp-admin or failed look makes a post of the
\* recording the service would not find again, but where the site's answer, or
\* our note of it, was lost (recording_service.py, _existing_post_id)
THEOREM PostsAreKnownThroughFaults == Spec => []PostsAreKnown
  <1>1. IInv => PostsAreKnown BY DEF IInv
  <1> QED BY <1>1, InductiveInvariant, PTL

-----------------------------------------------------------------------------
\* Where nothing fails and nobody edits a post during its update

CalmPart == unheard = {} /\ OnePost /\ EditIsNoticed /\ UpdatesItsOwn

LEMMA CalmPartKeeps == NoFaults /\ TypeOK /\ PostInv /\ CalmPart /\ Next => CalmPart'
  <1> SUFFICES ASSUME NoFaults, TypeOK, PostInv, CalmPart, Next PROVE CalmPart' OBVIOUS
  <1> USE PublishingAssumption
      DEF NoFaults, TypeOK, Outcome, PostInv, Running, PostsAreKnown, ThreadHasJob,
          AnswerIsHeld, UpdatesItsPost, AnswerIsTheTarget, CreatesTheFirst,
          AnswerIsKnown, LinkIsOfThePost, CalmPart, OnePost, EditIsNoticed,
          UpdatesItsOwn, dbVars, jobVars, otherVars, siteVars
  <1>1. CASE Draw
    BY <1>1 DEF Draw, Goto, EndAs, JobAt
  <1>2. CASE Reach
    BY <1>2 DEF Reach, Goto, EndAs, JobAt
  <1>3. CASE Check
    BY <1>3 DEF Check, Goto, EndAs, JobAt, GoOnWith, Known
  <1>4. CASE Mark
    BY <1>4 DEF Mark, Goto, EndAs, JobAt, Raises
  <1>5. CASE \E p \in Post : PostTaken(p)
    BY <1>5 DEF PostTaken, JobAt, Again, Fresh
  <1>6. CASE PostNotTaken
    BY <1>6 DEF PostNotTaken, JobAt, Again
  <1>7. CASE MarkFailed
    BY <1>7 DEF MarkFailed, JobAt, Raises, EndAs
  <1>8. CASE SaveRef
    BY <1>8 DEF SaveRef, JobAt, Raises, EndAs, Goto, Unlearned
  <1>9. CASE SaveState
    BY <1>9 DEF SaveState, JobAt, Raises, EndAs, Goto
  <1>10. CASE SaveLink
    BY <1>10 DEF SaveLink, JobAt, Raises, EndAs, Goto
  <1>11. CASE Settle
    BY <1>11 DEF Settle, JobAt, Goto
  <1>12. CASE Clear
    BY <1>12 DEF Clear, JobAt, Goto, NoThread
  <1>13. CASE End
    BY <1>13 DEF End, JobAt, NoThread
  <1>14. CASE StopLooks
    BY <1>14 DEF StopLooks
  <1>15. CASE StopPublishes
    BY <1>15 DEF StopPublishes, StartJob
  <1>16. CASE PendingList
    BY <1>16 DEF PendingList
  <1>17. CASE PendingLook
    BY <1>17 DEF PendingLook
  <1>18. CASE PendingStart
    BY <1>18 DEF PendingStart, StartJob
  <1>19. CASE PendingWaited
    BY <1>19 DEF PendingWaited
  <1>20. CASE AskWrite
    BY <1>20 DEF AskWrite
  <1>21. CASE PublishAsked
    BY <1>21 DEF PublishAsked, StartJob
  <1>22. CASE AskOnStop
    BY <1>22 DEF AskOnStop, StartJob
  <1>23. CASE AskNoMore
    BY <1>23 DEF AskNoMore
  <1>24. CASE Stop
    BY <1>24 DEF Stop
  <1>25. CASE Reset
    BY <1>25 DEF Reset
  <1>26. CASE \E p \in Post : EditPost(p)
    BY <1>26 DEF EditPost, UnderUpdate
  <1>27. CASE \E p \in Post : RemovePost(p)
    BY <1>27 DEF RemovePost
  <1>28. CASE Network
    BY <1>28 DEF Network
  <1>29. CASE Crash
    BY <1>29 DEF Crash, NoThread, Unlearned
  <1>30. CASE Restart
    BY <1>30 DEF Restart
  <1> QED
    BY <1>1, <1>2, <1>3, <1>4, <1>5, <1>6, <1>7, <1>8, <1>9, <1>10, <1>11,
       <1>12, <1>13, <1>14, <1>15, <1>16, <1>17, <1>18, <1>19, <1>20, <1>21,
       <1>22, <1>23, <1>24, <1>25, <1>26, <1>27, <1>28, <1>29, <1>30 DEF Next,
       JobStep, StopStep, PendingStep, Crew, Site

LEMMA CalmInductive == NoFaults /\ CalmInv /\ [Next]_vars => CalmInv'
  <1>1. NoFaults /\ CalmInv /\ Next => CalmInv'
    BY CalmPartKeeps, Inductive DEF CalmInv, CalmPart, IInv, PostInv
  <1>2. CalmInv /\ UNCHANGED vars => CalmInv'
    BY Inductive DEF CalmInv, OnePost, EditIsNoticed, UpdatesItsOwn,
                     vars, dbVars, jobVars, otherVars, siteVars
  <1> QED BY <1>1, <1>2

LEMMA CalmInitially == Init => CalmInv
  <1> SUFFICES ASSUME Init PROVE CalmInv OBVIOUS
  <1>1. unheard = {} /\ OnePost /\ EditIsNoticed /\ UpdatesItsOwn
    BY PublishingAssumption
    DEF Init, JobInit, OnePost, EditIsNoticed, UpdatesItsOwn
  <1> QED BY <1>1, InitKeeps DEF CalmInv

\* A step that touches no post, as the site shows it
LEMMA UnseenStep == UNCHANGED <<live, theirs>> => UNCHANGED Shown
  BY DEF Shown, OnePost

\* Every step is one of PostLife's, or shows nothing
LEMMA StepKeepsPromise ==
  NoFaults /\ CalmInv /\ CalmInv' /\ [Next]_vars
      => [Promise!Publish \/ Promise!Edit \/ Promise!Remove]_Shown
  <1> SUFFICES ASSUME NoFaults, CalmInv, CalmInv', [Next]_vars
               PROVE  [Promise!Publish \/ Promise!Edit \/ Promise!Remove]_Shown
    OBVIOUS
  <1>0. TypeOK /\ TypeOK' /\ PostInv /\ OnePost /\ OnePost' /\ UpdatesItsOwn
    BY DEF CalmInv, IInv, PostInv
  <1>1. ASSUME NEW p \in Post, PostTaken(p) PROVE Promise!Publish
    <2>1. p \in live' /\ theirs' = theirs \ {p}
      BY <1>1 DEF PostTaken, Fresh
    <2>2. Shown' = "ours"
      <3>1. live' # {} /\ theirs' = {}
        BY <2>1, <1>0 DEF OnePost, TypeOK
      <3> QED BY <3>1, <1>0 DEF Shown, OnePost
    <2>3. theirs = {}
      <3>1. CASE target = NoPost
        <4>1. live = {}
          BY <3>1, <1>0, <1>1, PublishingAssumption
          DEF TypeOK, PostInv, PostsAreKnown, CreatesTheFirst, AnswerIsHeld, CalmInv,
              PostTaken, JobAt
        <4> QED BY <4>1, <1>0 DEF TypeOK
      <3>2. CASE target # NoPost
        BY <3>2, <1>0, <1>1 DEF TypeOK, OnePost, UpdatesItsOwn, PostTaken, JobAt
      <3> QED BY <3>1, <3>2
    <2>4. Shown \in {"none", "ours"}
      BY <2>3, <1>0 DEF Shown, OnePost
    <2> QED BY <2>2, <2>4 DEF Promise!Publish
  <1>2. ASSUME NEW p \in Post, EditPost(p) PROVE Promise!Edit
    BY <1>0, <1>2 DEF Promise!Edit, Shown, OnePost, TypeOK, EditPost
  <1>3. ASSUME NEW p \in Post, RemovePost(p) PROVE Promise!Remove
    BY <1>0, <1>3 DEF Promise!Remove, Shown, OnePost, TypeOK, RemovePost
  <1>4. CASE UNCHANGED <<live, theirs>>
    BY <1>4, UnseenStep
  <1>5. \/ UNCHANGED <<live, theirs>>
        \/ \E p \in Post : PostTaken(p) \/ EditPost(p) \/ RemovePost(p)
    <2> USE DEF siteVars
    <2>1. CASE Draw BY <2>1 DEF Draw
    <2>2. CASE Reach BY <2>2 DEF Reach
    <2>3. CASE Check BY <2>3 DEF Check
    <2>4. CASE Mark BY <2>4 DEF Mark
    <2>5. CASE PostNotTaken BY <2>5 DEF PostNotTaken
    <2>6. CASE MarkFailed BY <2>6 DEF MarkFailed
    <2>7. CASE SaveRef BY <2>7 DEF SaveRef
    <2>8. CASE SaveState BY <2>8 DEF SaveState
    <2>9. CASE SaveLink BY <2>9 DEF SaveLink
    <2>10. CASE Settle BY <2>10 DEF Settle
    <2>11. CASE Clear BY <2>11 DEF Clear, NoThread
    <2>12. CASE End BY <2>12 DEF End, NoThread
    <2>13. CASE StopLooks BY <2>13 DEF StopLooks
    <2>14. CASE StopPublishes BY <2>14 DEF StopPublishes
    <2>15. CASE PendingList BY <2>15 DEF PendingList
    <2>16. CASE PendingLook BY <2>16 DEF PendingLook
    <2>17. CASE PendingStart BY <2>17 DEF PendingStart
    <2>18. CASE PendingWaited BY <2>18 DEF PendingWaited
    <2>19. CASE AskWrite BY <2>19 DEF AskWrite
    <2>20. CASE PublishAsked BY <2>20 DEF PublishAsked
    <2>21. CASE AskOnStop BY <2>21 DEF AskOnStop
    <2>22. CASE AskNoMore BY <2>22 DEF AskNoMore
    <2>23. CASE Stop BY <2>23 DEF Stop
    <2>24. CASE Reset BY <2>24 DEF Reset
    <2>25. CASE Network BY <2>25 DEF Network
    <2>26. CASE Crash BY <2>26 DEF Crash, NoThread
    <2>27. CASE Restart BY <2>27 DEF Restart
    <2>28. CASE UNCHANGED vars BY <2>28 DEF vars
    <2> QED
      BY <2>1, <2>2, <2>3, <2>4, <2>5, <2>6, <2>7, <2>8, <2>9, <2>10,
         <2>11, <2>12, <2>13, <2>14, <2>15, <2>16, <2>17, <2>18, <2>19, <2>20,
         <2>21, <2>22, <2>23, <2>24, <2>25, <2>26, <2>27, <2>28 DEF Next,
         JobStep, StopStep, PendingStep, Crew, Site
  <1> QED BY <1>1, <1>2, <1>3, <1>4, <1>5

\* Where nothing fails, publishing is PostLife: a recording is one post for
\* its whole life, and what the crew did to it in wp-admin is not overwritten
THEOREM PromiseIsKept == NoFaults => (Spec => KeepsPromise)
  <1> SUFFICES ASSUME NoFaults PROVE Spec => KeepsPromise
    OBVIOUS
  <1>1. Init => Promise!Init
    BY PublishingAssumption DEF Init, Promise!Init, Shown, OnePost
  <1>2. CalmInv /\ [Next]_vars => CalmInv'
    BY CalmInductive
  <1>3. CalmInv /\ CalmInv' /\ [Next]_vars
          => [Promise!Publish \/ Promise!Edit \/ Promise!Remove]_Shown
    BY StepKeepsPromise
  <1> QED
    BY <1>1, <1>2, <1>3, CalmInitially, PTL DEF Spec, KeepsPromise, Promise!Spec

-----------------------------------------------------------------------------
(* A job and what it says of itself                                        *)

\* Nothing is published before it has ended, and no write fails
LEMMA AliveKeeps == ~Locks /\ ~PublishActive /\ IInv /\ AliveInv /\ Next => AliveInv'
  <1> SUFFICES ASSUME ~Locks, ~PublishActive, IInv, AliveInv, Next PROVE AliveInv' OBVIOUS
  <1> USE DEF IInv, ThreadHasJob, Running, AliveInv, PublishingIsUnderWay, ActiveIsUnpublished,
      dbVars, jobVars, otherVars, siteVars
  <1>1. CASE Draw
    BY <1>1 DEF Draw, Goto, EndAs, JobAt
  <1>2. CASE Reach
    BY <1>2 DEF Reach, Goto, EndAs, JobAt
  <1>3. CASE Check
    BY <1>3 DEF Check, Goto, EndAs, JobAt, GoOnWith, Known
  <1>4. CASE Mark
    BY <1>4 DEF Mark, Goto, EndAs, JobAt, Raises
  <1>5. CASE \E p \in Post : PostTaken(p)
    BY <1>5 DEF PostTaken, JobAt, Again, Fresh
  <1>6. CASE PostNotTaken
    BY <1>6 DEF PostNotTaken, JobAt, Again
  <1>7. CASE MarkFailed
    BY <1>7 DEF MarkFailed, JobAt, Raises, EndAs
  <1>8. CASE SaveRef
    BY <1>8 DEF SaveRef, JobAt, Raises, EndAs, Goto, Unlearned
  <1>9. CASE SaveState
    BY <1>9 DEF SaveState, JobAt, Raises, EndAs, Goto
  <1>10. CASE SaveLink
    BY <1>10 DEF SaveLink, JobAt, Raises, EndAs, Goto
  <1>11. CASE Settle
    BY <1>11 DEF Settle, JobAt, Goto
  <1>12. CASE Clear
    BY <1>12 DEF Clear, JobAt, Goto, NoThread
  <1>13. CASE End
    BY <1>13 DEF End, JobAt, NoThread
  <1>14. CASE StopLooks
    BY <1>14 DEF StopLooks
  <1>15. CASE StopPublishes
    BY <1>15 DEF StopPublishes, StartJob
  <1>16. CASE PendingList
    BY <1>16 DEF PendingList
  <1>17. CASE PendingLook
    BY <1>17 DEF PendingLook
  <1>18. CASE PendingStart
    BY <1>18 DEF PendingStart, StartJob
  <1>19. CASE PendingWaited
    BY <1>19 DEF PendingWaited
  <1>20. CASE AskWrite
    BY <1>20 DEF AskWrite
  <1>21. CASE PublishAsked
    BY <1>21 DEF PublishAsked, StartJob
  <1>22. CASE AskOnStop
    BY <1>22 DEF AskOnStop, StartJob
  <1>23. CASE AskNoMore
    BY <1>23 DEF AskNoMore
  <1>24. CASE Stop
    BY <1>24 DEF Stop
  <1>25. CASE Reset
    BY <1>25 DEF Reset
  <1>26. CASE \E p \in Post : EditPost(p)
    BY <1>26 DEF EditPost
  <1>27. CASE \E p \in Post : RemovePost(p)
    BY <1>27 DEF RemovePost
  <1>28. CASE Network
    BY <1>28 DEF Network
  <1>29. CASE Crash
    BY <1>29 DEF Crash, NoThread, Unlearned
  <1>30. CASE Restart
    BY <1>30 DEF Restart
  <1> QED
    BY <1>1, <1>2, <1>3, <1>4, <1>5, <1>6, <1>7, <1>8, <1>9, <1>10, <1>11,
       <1>12, <1>13, <1>14, <1>15, <1>16, <1>17, <1>18, <1>19, <1>20, <1>21,
       <1>22, <1>23, <1>24, <1>25, <1>26, <1>27, <1>28, <1>29, <1>30 DEF Next,
       JobStep, StopStep, PendingStep, Crew, Site

\* The request outlives a job that could not reach the site
LEMMA AskedKeeps == AskedInv /\ Next => AskedInv'
  <1> SUFFICES ASSUME AskedInv, Next PROVE AskedInv' OBVIOUS
  <1> USE DEF AskedInv, AskedIsNotForgotten, Running, dbVars, jobVars, otherVars, siteVars
  <1>1. CASE Draw
    BY <1>1 DEF Draw, Goto, EndAs, JobAt
  <1>2. CASE Reach
    BY <1>2 DEF Reach, Goto, EndAs, JobAt
  <1>3. CASE Check
    BY <1>3 DEF Check, Goto, EndAs, JobAt, GoOnWith, Known
  <1>4. CASE Mark
    BY <1>4 DEF Mark, Goto, EndAs, JobAt, Raises
  <1>5. CASE \E p \in Post : PostTaken(p)
    BY <1>5 DEF PostTaken, JobAt, Again, Fresh
  <1>6. CASE PostNotTaken
    BY <1>6 DEF PostNotTaken, JobAt, Again
  <1>7. CASE MarkFailed
    BY <1>7 DEF MarkFailed, JobAt, Raises, EndAs
  <1>8. CASE SaveRef
    BY <1>8 DEF SaveRef, JobAt, Raises, EndAs, Goto, Unlearned
  <1>9. CASE SaveState
    BY <1>9 DEF SaveState, JobAt, Raises, EndAs, Goto
  <1>10. CASE SaveLink
    BY <1>10 DEF SaveLink, JobAt, Raises, EndAs, Goto
  <1>11. CASE Settle
    BY <1>11 DEF Settle, JobAt, Goto
  <1>12. CASE Clear
    <2>1. outcome # "unreachable" /\ jpc' # "clear"
      BY <1>12 DEF Clear, JobAt, Goto, NoThread
    <2>2. CASE UNCHANGED <<wanted, owed>>
      BY <2>1, <2>2
    <2>3. CASE owed' = (owed /\ outcome = "unreachable")
      <3>1. (owed /\ outcome = "unreachable") = FALSE BY <2>1
      <3>2. ~owed' BY <2>3, <3>1
      <3> QED BY <2>1, <3>2
    <2> QED BY <1>12, <2>2, <2>3 DEF Clear
  <1>13. CASE End
    BY <1>13 DEF End, JobAt, NoThread
  <1>14. CASE StopLooks
    BY <1>14 DEF StopLooks
  <1>15. CASE StopPublishes
    BY <1>15 DEF StopPublishes, StartJob
  <1>16. CASE PendingList
    BY <1>16 DEF PendingList
  <1>17. CASE PendingLook
    BY <1>17 DEF PendingLook
  <1>18. CASE PendingStart
    BY <1>18 DEF PendingStart, StartJob
  <1>19. CASE PendingWaited
    BY <1>19 DEF PendingWaited
  <1>20. CASE AskWrite
    BY <1>20 DEF AskWrite
  <1>21. CASE PublishAsked
    BY <1>21 DEF PublishAsked, StartJob
  <1>22. CASE AskOnStop
    BY <1>22 DEF AskOnStop, StartJob
  <1>23. CASE AskNoMore
    BY <1>23 DEF AskNoMore
  <1>24. CASE Stop
    BY <1>24 DEF Stop
  <1>25. CASE Reset
    BY <1>25 DEF Reset
  <1>26. CASE \E p \in Post : EditPost(p)
    BY <1>26 DEF EditPost
  <1>27. CASE \E p \in Post : RemovePost(p)
    BY <1>27 DEF RemovePost
  <1>28. CASE Network
    BY <1>28 DEF Network
  <1>29. CASE Crash
    BY <1>29 DEF Crash, NoThread, Unlearned
  <1>30. CASE Restart
    BY <1>30 DEF Restart
  <1> QED
    BY <1>1, <1>2, <1>3, <1>4, <1>5, <1>6, <1>7, <1>8, <1>9, <1>10, <1>11,
       <1>12, <1>13, <1>14, <1>15, <1>16, <1>17, <1>18, <1>19, <1>20, <1>21,
       <1>22, <1>23, <1>24, <1>25, <1>26, <1>27, <1>28, <1>29, <1>30 DEF Next,
       JobStep, StopStep, PendingStep, Crew, Site

\* A recording that has ended and says it is being published has a job at it,
\* where nothing is published before it has ended and the database never locks
\* (recovery_manager.py, reset of what a process died with)
THEOREM PublishingStaysAlive == ~Locks /\ ~PublishActive => (Spec => []PublishingIsAlive)
  <1> SUFFICES ASSUME ~Locks, ~PublishActive PROVE Spec => []PublishingIsAlive
    OBVIOUS
  <1>1. Init => AliveInv
    BY DEF Init, JobInit, OthersInit, AliveInv, PublishingIsUnderWay, ActiveIsUnpublished
  <1>2. IInv /\ AliveInv /\ [Next]_vars => AliveInv'
    <2>1. AliveInv /\ UNCHANGED vars => AliveInv'
      BY DEF AliveInv, PublishingIsUnderWay, ActiveIsUnpublished, vars, dbVars, jobVars,
             otherVars
    <2> QED BY <2>1, AliveKeeps
  <1>3. IInv /\ AliveInv => PublishingIsAlive
    BY DEF IInv, ThreadHasJob, AliveInv, PublishingIsUnderWay, PublishingIsAlive
  <1> QED BY InitKeeps, Inductive, <1>1, <1>2, <1>3, PTL DEF Spec

\* A publish asked for at the stop is given up by no job that could not reach the
\* site, through outages and locks (recording_service.py, start_publish)
THEOREM AskedStaysAsked == Spec => []AskedIsNotForgotten
  <1>1. Init => AskedInv
    BY DEF Init, JobInit, AskedInv, AskedIsNotForgotten
  <1>2. AskedInv /\ [Next]_vars => AskedInv'
    <2>1. AskedInv /\ UNCHANGED vars => AskedInv'
      BY DEF AskedInv, AskedIsNotForgotten, vars, dbVars, jobVars
    <2> QED BY <2>1, AskedKeeps
  <1>3. AskedInv => AskedIsNotForgotten
    BY DEF AskedInv
  <1> QED BY <1>1, <1>2, <1>3, PTL DEF Spec

-----------------------------------------------------------------------------
(***************************************************************************)
(* The bridge: the settings a line is read by, and those that are told.    *)
(* The files are named for minutes, of which there are finitely many up to *)
(* the one that comes after all others; the text that says nothing is not  *)
(* one of those that say something.                                        *)
(***************************************************************************)

BridgeIsSet ==
    /\ \E last \in Nat : Dated \cup {Legacy} \subseteq 0..last
    /\ Empty \notin Content
    /\ settingsCheckInterval \in Nat /\ MaxNow \in Nat

File == Dated \cup {Legacy}
Told == Content \cup {Empty}
Nodes == {"base"} \cup UNION {DOMAIN Settings[text] : text \in Content}
Manager == [file : File \cup {NoFile}, settings : Told, nodes : SUBSET Nodes,
            available : SUBSET File, checked : Int]
Document == [file : File \cup {NoFile}, settings : Told]
Look == [t : Nat, available : SUBSET File, file : File \cup {NoFile}, unread : BOOLEAN]

FilesOK ==
    /\ now \in Nat
    /\ DOMAIN dir \subseteq File /\ dir \in [DOMAIN dir -> Told \cup {Broken}]
SettingsTypeOK ==
    /\ FilesOK
    /\ saving \in {NoFile} \cup [file : File, text : Told]
    /\ manager \in [Process -> Manager]
    /\ used \in [Process -> {NoFile} \cup Look]

ToldTypeOK ==
    /\ connected \in BOOLEAN /\ overtaken \in BOOLEAN
    /\ config \in {NoConfig} \cup Document /\ telling \in {NoConfig} \cup Document

\* What was gone by is the file in force, of those seen and at the time gone by
GoneByTheRule ==
    \A p \in Process : used[p] # NoFile /\ ~used[p].unread =>
        used[p].file = get_applicable_settings_file(used[p].available, used[p].t)

\* Between the two steps of on_connect there is a connection, and what is about
\* to be told is in force if no settings were loaded since
TellingIsOfNow ==
    telling # NoConfig =>
        connected /\ (~overtaken => telling = Doc(manager["bridge"]))

BridgeInv == /\ SettingsTypeOK /\ ToldTypeOK /\ GoneByTheRule
             /\ TellingIsOfNow /\ ConfigIsTold

-----------------------------------------------------------------------------
\* A set of moments has a first and a last, and Min and Max are those
LEMMA Moments ==
  ASSUME BridgeIsSet, NEW S \in SUBSET File, S # {}
  PROVE  /\ Max(S) \in S /\ \A x \in S : x <= Max(S)
         /\ Min(S) \in S /\ \A x \in S : Min(S) <= x
  <1>0. PICK last \in Nat : S \subseteq 0..last
    BY DEF BridgeIsSet, File
  <1>1. \A T \in SUBSET Nat : T # {} => \E z \in T : \A y \in T : z <= y
    <2> TAKE T \in SUBSET Nat
    <2> HAVE T # {}
    <2>1. PICK z \in T : \A y \in T : ~(<<y, z>> \in OpToRel(<, Nat))
      BY NatLessThanWellFounded, WFMin
    <2>2. \A y \in T : ~(y < z)
      BY <2>1 DEF OpToRel
    <2> QED BY <2>2
  <1>2. \E z \in S : \A y \in S : z <= y
    BY <1>0, <1>1
  <1>3. \E z \in S : \A y \in S : y <= z
    <2> DEFINE T == {last - x : x \in S}
    <2>1. T \subseteq Nat /\ T # {}
      <3>1. PICK a \in S : TRUE OBVIOUS
      <3>2. last - a \in T BY <3>1
      <3> QED BY <1>0, <3>2
    <2>2. PICK z \in T : \A y \in T : z <= y
      <3> HIDE DEF T
      <3> QED BY <1>1, <2>1
    <2>3. PICK x \in S : z = last - x
      BY <2>2
    <2>4. \A y \in S : y <= x
      BY <1>0, <2>2, <2>3
    <2> QED BY <2>3, <2>4
  <1>4. \E z \in S : \A y \in S : z >= y
    BY <1>0, <1>3
  <1> QED BY <1>2, <1>4 DEF Max, Min

\* The file in force is one of those there are
LEMMA InForce ==
  ASSUME BridgeIsSet, NEW A \in SUBSET File, NEW t
  PROVE  /\ get_applicable_settings_file(A, t) \in File \cup {NoFile}
         /\ A # {} => get_applicable_settings_file(A, t) \in A
         /\ A = {} => get_applicable_settings_file(A, t) = NoFile
  <1> DEFINE past == {f \in A : f <= t}
  <1>1. past # {} => Max(past) \in past
    <2>1. past \in SUBSET File OBVIOUS
    <2> QED BY <2>1, Moments
  <1>2. A # {} => Min(A) \in A
    BY Moments
  <1> QED BY <1>1, <1>2 DEF get_applicable_settings_file

\* ... the latest of those named for the time or one before it; and of files
\* that are all later, the first
LEMMA InForceAt ==
  ASSUME BridgeIsSet, NEW A \in SUBSET File, NEW t, A # {}
  PROVE  LET past == {f \in A : f <= t}
             file == get_applicable_settings_file(A, t)
         IN /\ past # {} => file \in past /\ \A f \in past : f <= file
            /\ past = {} => \A f \in A : file <= f
  <1> DEFINE past == {f \in A : f <= t}
  <1>1. past # {} => Max(past) \in past /\ \A f \in past : f <= Max(past)
    <2>1. past \in SUBSET File OBVIOUS
    <2> QED BY <2>1, Moments
  <1>2. \A f \in A : Min(A) <= f
    BY Moments
  <1> QED BY <1>1, <1>2 DEF get_applicable_settings_file

-----------------------------------------------------------------------------
\* Looking at the directory changes what is available, and nothing told
LEMMA LookKeeps ==
  ASSUME BridgeIsSet, FilesOK, NEW m \in Manager
  PROVE  /\ Rescanned(m) \in Manager /\ Doc(Rescanned(m)) = Doc(m)
         /\ Due(m) => Rescanned(m).available = DOMAIN dir
  <1> USE DEF BridgeIsSet, FilesOK, Manager
  <1>1. CASE now - m.checked < settingsCheckInterval
    BY <1>1 DEF Rescanned, Due
  <1>2. CASE ~(now - m.checked < settingsCheckInterval)
    <2>1. Rescanned(m) = [m EXCEPT !.checked = now, !.available = DOMAIN dir]
      BY <1>2 DEF Rescanned
    <2>2. Rescanned(m) \in Manager
      <3>1. now \in Int /\ DOMAIN dir \in SUBSET File
        OBVIOUS
      <3>2. [m EXCEPT !.checked = now] \in Manager
        BY <3>1
      <3> QED BY <2>1, <3>1, <3>2
    <2>3. Rescanned(m).file = m.file /\ Rescanned(m).settings = m.settings
      BY <2>1
    <2>4. Rescanned(m).available = DOMAIN dir
      BY <2>1
    <2> QED BY <2>2, <2>3, <2>4 DEF Doc
  <1> QED BY <1>1, <1>2

\* What is loaded is the file in force, of those there are now, if it can be read
LEMMA LoadKeeps ==
  ASSUME BridgeIsSet, FilesOK, NEW m \in Manager, NEW t
  PROVE  /\ load_settings(m, t) \in Manager
         /\ load_settings(m, t).available = DOMAIN dir
         /\ ~Unread(m, t) =>
                load_settings(m, t).file = get_applicable_settings_file(DOMAIN dir, t)
  <1> DEFINE file == get_applicable_settings_file(DOMAIN dir, t)
             seen == [m EXCEPT !.available = DOMAIN dir]
  <1>1. file \in File \cup {NoFile}
    BY InForce DEF FilesOK
  <1>2. file # NoFile => file \in DOMAIN dir
    BY InForce DEF FilesOK
  <1>3. seen \in Manager /\ seen.available = DOMAIN dir
    BY DEF Manager, FilesOK
  <1> HIDE DEF seen
  <1>4. CASE file = NoFile
    <2>1. load_settings(m, t) = [seen EXCEPT !.file = NoFile, !.settings = Empty]
      BY <1>4 DEF load_settings, seen
    <2> QED BY <1>3, <1>4, <2>1 DEF Manager, Told
  <1>5. CASE file # NoFile
    <2>1. load_settings(m, t) = load_settings_from_file(seen, file)
      BY <1>5 DEF load_settings, seen
    <2>2. CASE dir[file] \in Content
      <3> HIDE DEF file
      <3>1. load_settings(m, t) =
              [seen EXCEPT !.file = file, !.settings = dir[file],
                           !.nodes = DOMAIN Settings[dir[file]] \cup {"base"}]
        BY <2>1, <2>2 DEF load_settings_from_file, BridgeIsSet
      <3>2. DOMAIN Settings[dir[file]] \cup {"base"} \in SUBSET Nodes
        <4> DEFINE text == dir[file]
        <4> HIDE DEF text
        <4>1. text \in Content BY <2>2 DEF text
        <4>2. \A n \in DOMAIN Settings[text] : n \in Nodes
          <5>1. DOMAIN Settings[text] \in {DOMAIN Settings[x] : x \in Content}
            BY <4>1
          <5> QED BY <5>1, Zenon DEF Nodes
        <4>3. "base" \in Nodes
          BY Zenon DEF Nodes
        <4> QED BY <4>2, <4>3 DEF text
      <3>3. load_settings(m, t) \in Manager
        BY <1>1, <1>3, <2>2, <3>1, <3>2 DEF Manager, Told
      <3>4. load_settings(m, t).file = file /\ load_settings(m, t).available = DOMAIN dir
        BY <1>3, <3>1 DEF Manager
      <3> QED BY <3>3, <3>4 DEF file
    <2>3. CASE dir[file] \notin Content
      <3>1. Unread(m, t)
        BY <1>5, <2>3 DEF Unread
      <3>2. load_settings(m, t) \in {[seen EXCEPT !.nodes = {}], seen}
        BY <2>1, <2>3 DEF load_settings_from_file
      <3> QED BY <1>3, <3>1, <3>2 DEF Manager
    <2> QED BY <2>2, <2>3
  <1> QED BY <1>4, <1>5

\* A process that looks has types, and goes by the rule
LEMMA LookGoesByTheRule ==
  ASSUME BridgeIsSet, FilesOK, NEW m \in Manager, NEW t \in Nat,
         NEW n, n = IF Changes(Rescanned(m), t) THEN load_settings(Rescanned(m), t)
                    ELSE Rescanned(m)
  PROVE  /\ n \in Manager
         /\ UsedAt(n, t, Unread(n, t)) \in Look
         /\ ~Unread(n, t) => n.file = get_applicable_settings_file(n.available, t)
  <1>1. Rescanned(m) \in Manager
    BY LookKeeps
  <1>2. n \in Manager
    BY <1>1, LoadKeeps
  <1>3. Unread(n, t) <=> Unread(Rescanned(m), t)
    BY DEF Unread
  <1>4. ~Unread(n, t) => n.file = get_applicable_settings_file(n.available, t)
    BY <1>1, <1>3, LoadKeeps DEF Changes
  <1>5. UsedAt(n, t, Unread(n, t)) \in Look
    BY <1>2 DEF UsedAt, Look, Manager, Unread
  <1> QED BY <1>2, <1>4, <1>5

-----------------------------------------------------------------------------
\* The bridge: at its start there is nothing it was told before
LEMMA BridgeInitKeeps ==
  ASSUME BridgeIsSet, BridgeInit
  PROVE  BridgeInv
  <1> USE DEF BridgeInit, SettingsInit
  <1>1. dir \in [DOMAIN dir -> Told \cup {Broken}] /\ DOMAIN dir \subseteq File
    BY DEF File, Told
  <1> DEFINE blank == [file |-> NoFile, settings |-> Empty, nodes |-> {}, available |-> {},
                       checked |-> -settingsCheckInterval]
  <1>2. blank \in Manager
    BY DEF Manager, Told, BridgeIsSet
  <1>3. FilesOK
    BY <1>1 DEF FilesOK
  <1>4. NewManager \in Manager
    BY <1>2, <1>3, LoadKeeps DEF NewManager
  <1>5. SettingsTypeOK
    <2>1. used \in [Process -> {NoFile} \cup Look] /\ manager \in [Process -> Manager]
      BY <1>4
    <2> QED BY <1>3, <2>1 DEF SettingsTypeOK
  <1>6. Doc(manager["bridge"]) \in Document
    BY <1>4 DEF Process, Doc, Manager, Document
  <1>7. ToldTypeOK /\ ConfigIsTold /\ TellingIsOfNow
    BY <1>6 DEF ToldTypeOK, ConfigIsTold, TellingIsOfNow
  <1>8. GoneByTheRule
    BY DEF GoneByTheRule
  <1> QED BY <1>5, <1>7, <1>8 DEF BridgeInv

\* The clock and the settings page touch no process
LEMMA FilesKeep ==
  ASSUME BridgeIsSet, BridgeInv, SettingsClock \/ SaveOpens \/ SaveWrites \/ SaveTears,
         UNCHANGED <<connected, config, telling, overtaken, sent, losses>>
  PROVE  BridgeInv'
  <1>1. UNCHANGED <<manager, used>>
    BY DEF SettingsClock, SaveOpens, SaveWrites, SaveTears
  <1>2. FilesOK' /\ (saving \in {NoFile} \cup [file : File, text : Told])'
    <2> USE DEF BridgeInv, SettingsTypeOK, FilesOK
    <2>1. \A f \in File, text \in Told \cup {Broken} :
            LET d == With(dir, f, text)
            IN DOMAIN d \subseteq File /\ d \in [DOMAIN d -> Told \cup {Broken}]
      BY DEF With
    <2>2. CASE SettingsClock
      BY <2>2 DEF SettingsClock
    <2>3. CASE SaveOpens
      <3>1. PICK f \in File, text \in Told :
              saving' = [file |-> f, text |-> text] /\ dir' = With(dir, f, Empty)
        BY <2>3 DEF SaveOpens, File, Told
      <3>2. Empty \in Told \cup {Broken} /\ now' = now
        BY <2>3 DEF SaveOpens, Told
      <3> QED BY <2>1, <3>1, <3>2
    <2>4. CASE SaveWrites
      <3>1. saving.file \in File /\ saving.text \in Told \cup {Broken}
        BY <2>4 DEF SaveWrites
      <3> QED BY <2>1, <2>4, <3>1 DEF SaveWrites
    <2>5. CASE SaveTears
      <3>1. saving.file \in File /\ Broken \in Told \cup {Broken}
        BY <2>5 DEF SaveTears
      <3> QED BY <2>1, <2>5, <3>1 DEF SaveTears
    <2> QED BY <2>2, <2>3, <2>4, <2>5
  <1>3. SettingsTypeOK'
    BY <1>1, <1>2 DEF BridgeInv, SettingsTypeOK
  <1>4. ToldTypeOK' /\ GoneByTheRule' /\ TellingIsOfNow' /\ ConfigIsTold'
    BY <1>1 DEF BridgeInv, ToldTypeOK, GoneByTheRule, TellingIsOfNow, ConfigIsTold
  <1> QED BY <1>3, <1>4 DEF BridgeInv

\* What is told is not nothing
LEMMA DocIsTold == \A m : Doc(m) # NoConfig
  <1> SUFFICES ASSUME NEW m PROVE Doc(m) # NoConfig OBVIOUS
  <1>1. "settings" \in DOMAIN Doc(m) /\ "settings" \notin DOMAIN NoConfig
    BY DEF Doc, NoConfig
  <1> QED BY <1>1

\* The connection: lost, there again, and told what was read of the settings then
LEMMA ConnectionKeeps ==
  ASSUME BridgeIsSet, BridgeInv, Disconnects \/ on_connect \/ Tells
  PROVE  BridgeInv'
  <1>1. UNCHANGED settingsVars
    BY DEF Disconnects, on_connect, Tells
  <1>2. SettingsTypeOK' /\ GoneByTheRule'
    BY <1>1 DEF settingsVars, BridgeInv, SettingsTypeOK, FilesOK, GoneByTheRule
  <1>3. Doc(manager["bridge"]) \in Document /\ manager' = manager
    BY <1>1 DEF settingsVars, BridgeInv, SettingsTypeOK, Process, Doc, Manager, Document
  <1>4. ToldTypeOK' /\ TellingIsOfNow' /\ ConfigIsTold'
    <2> USE <1>3, DocIsTold DEF BridgeInv, ToldTypeOK, TellingIsOfNow, ConfigIsTold
    <2>1. CASE Disconnects
      BY <2>1 DEF Disconnects
    <2>2. CASE on_connect
      BY <2>2 DEF on_connect
    <2>3. CASE Tells
      BY <2>3 DEF Tells
    <2> QED BY <2>1, <2>2, <2>3
  <1> QED BY <1>2, <1>4 DEF BridgeInv

\* One process has looked, at a time: it alone has, and goes by the rule
LEMMA LookIsOfOne ==
  ASSUME BridgeIsSet, SettingsTypeOK, GoneByTheRule, NEW p \in Process, NEW t \in Nat,
         NEW n \in Manager, manager' = [manager EXCEPT ![p] = n],
         \/ used' = used
         \/ /\ used' = [used EXCEPT ![p] = UsedAt(n, t, Unread(n, t))]
            /\ UsedAt(n, t, Unread(n, t)) \in Look
            /\ ~Unread(n, t) => n.file = get_applicable_settings_file(n.available, t),
         UNCHANGED <<now, dir, saving, saves>>
  PROVE  SettingsTypeOK' /\ GoneByTheRule'
  <1>1. manager' \in [Process -> Manager] /\ used' \in [Process -> {NoFile} \cup Look]
    BY DEF SettingsTypeOK
  <1>2. SettingsTypeOK'
    BY <1>1 DEF SettingsTypeOK, FilesOK
  <1>3. GoneByTheRule'
    <2>1. CASE used' = used
      BY <2>1 DEF GoneByTheRule
    <2>2. CASE /\ used' = [used EXCEPT ![p] = UsedAt(n, t, Unread(n, t))]
               /\ ~Unread(n, t) => n.file = get_applicable_settings_file(n.available, t)
      <3> SUFFICES ASSUME NEW q \in Process, used'[q] # NoFile, ~used'[q].unread
                   PROVE  used'[q].file =
                            get_applicable_settings_file(used'[q].available, used'[q].t)
        BY DEF GoneByTheRule
      <3>1. CASE q = p
        <4>1. used'[q] = UsedAt(n, t, Unread(n, t))
          BY <2>2, <3>1 DEF SettingsTypeOK
        <4>2. /\ used'[q].file = n.file /\ used'[q].available = n.available
              /\ used'[q].t = t /\ used'[q].unread = Unread(n, t)
          BY <4>1 DEF UsedAt
        <4> QED BY <2>2, <4>2
      <3>2. CASE q # p
        BY <2>2, <3>2 DEF GoneByTheRule, SettingsTypeOK
      <3> QED BY <3>1, <3>2
    <2> QED BY <2>1, <2>2
  <1> QED BY <1>2, <1>3

\* A line to the broker: the settings are looked at, and told if others are loaded
LEMMA ProcessKeeps ==
  ASSUME BridgeIsSet, BridgeInv, NEW line \in Line, process_line(line)
  PROVE  BridgeInv'
  <1> DEFINE old == manager["bridge"]
             m == check_and_reload_settings(old)
             reloaded == Due(old) /\ Changes(Rescanned(old), now)
  <1>1. old \in Manager /\ FilesOK /\ now \in Nat /\ "bridge" \in Process
    BY DEF BridgeInv, SettingsTypeOK, FilesOK, Process
  <1>2. /\ m = IF reloaded THEN load_settings(Rescanned(old), now) ELSE Rescanned(old)
        /\ manager' = [manager EXCEPT !["bridge"] = m]
        /\ used' = IF ~Due(old) THEN used
                   ELSE [used EXCEPT !["bridge"] = UsedAt(m, now, Unread(m, now))]
        /\ UNCHANGED <<now, dir, saving, saves>>
    BY DEF check_and_reload_settings, process_line, BridgeReads
  <1>3. /\ config' = IF reloaded /\ connected THEN Doc(m) ELSE config
        /\ overtaken' = (overtaken \/ (reloaded /\ telling # NoConfig))
        /\ UNCHANGED <<connected, telling>>
    BY DEF process_line, publish_config
  <1> HIDE DEF m
  <1>4. m \in Manager /\ (~reloaded => Doc(m) = Doc(old))
    BY <1>1, <1>2, LookKeeps, LoadKeeps
  <1>5. Due(old) => /\ UsedAt(m, now, Unread(m, now)) \in Look
                    /\ ~Unread(m, now) =>
                            m.file = get_applicable_settings_file(m.available, now)
    <2> SUFFICES ASSUME Due(old)
                 PROVE  /\ UsedAt(m, now, Unread(m, now)) \in Look
                        /\ ~Unread(m, now) =>
                                m.file = get_applicable_settings_file(m.available, now)
      OBVIOUS
    <2>1. m = IF Changes(Rescanned(old), now) THEN load_settings(Rescanned(old), now)
              ELSE Rescanned(old)
      BY <1>2
    <2> QED BY <1>1, <2>1, LookGoesByTheRule
  <1>6. SettingsTypeOK' /\ GoneByTheRule'
    BY <1>1, <1>2, <1>4, <1>5, LookIsOfOne DEF BridgeInv
  <1>7. manager'["bridge"] = m /\ Doc(m) \in Document
    BY <1>1, <1>2, <1>4 DEF BridgeInv, SettingsTypeOK, Doc, Manager, Document
  <1>8. ToldTypeOK' /\ TellingIsOfNow' /\ ConfigIsTold'
    BY <1>3, <1>4, <1>7 DEF BridgeInv, ToldTypeOK, TellingIsOfNow, ConfigIsTold
  <1> QED BY <1>6, <1>8 DEF BridgeInv

\* A line to Influx, by the settings of its own time
LEMMA ImportKeeps ==
  ASSUME BridgeIsSet, BridgeInv, NEW line \in Line, NEW t \in Nat, import_line(line, t)
  PROVE  BridgeInv'
  <1> DEFINE old == manager["importer"]
             m == check_and_reload_settings_by_time(old, t)
  <1>1. old \in Manager /\ FilesOK /\ "importer" \in Process /\ "bridge" \in Process
    BY DEF BridgeInv, SettingsTypeOK, Process
  <1>2. UNCHANGED <<connected, config, telling, overtaken>> /\ UNCHANGED <<now, dir, saving, saves>>
    BY DEF import_line, ImporterRaises, ImporterReads
  <1>3. \E n \in Manager : /\ manager' = [manager EXCEPT !["importer"] = n]
                           /\ SettingsTypeOK' /\ GoneByTheRule'
    <2>1. CASE ImporterRaises(t)
      <3>1. /\ manager' = [manager EXCEPT !["importer"] = Rescanned(old)]
            /\ used' = used
        BY <2>1 DEF ImporterRaises
      <3>2. Rescanned(old) \in Manager
        BY <1>1, LookKeeps
      <3>3. SettingsTypeOK' /\ GoneByTheRule'
        BY <1>1, <1>2, <3>1, <3>2, LookIsOfOne DEF BridgeInv
      <3> QED BY <3>1, <3>2, <3>3
    <2>2. CASE ImporterReads(t)
      <3>1. /\ manager' = [manager EXCEPT !["importer"] = m]
            /\ used' = [used EXCEPT !["importer"] = UsedAt(m, t, Unread(m, t))]
        BY <2>2 DEF ImporterReads
      <3>2. m = IF Changes(Rescanned(old), t) THEN load_settings(Rescanned(old), t)
                ELSE Rescanned(old)
        BY DEF check_and_reload_settings_by_time
      <3> HIDE DEF m
      <3>3. /\ m \in Manager
            /\ UsedAt(m, t, Unread(m, t)) \in Look
            /\ ~Unread(m, t) => m.file = get_applicable_settings_file(m.available, t)
        BY <1>1, <3>2, LookGoesByTheRule
      <3>4. SettingsTypeOK' /\ GoneByTheRule'
        BY <1>1, <1>2, <3>1, <3>3, LookIsOfOne DEF BridgeInv
      <3> QED BY <3>1, <3>3, <3>4
    <2> QED BY <2>1, <2>2 DEF import_line
  <1>4. manager'["bridge"] = manager["bridge"]
    BY <1>1, <1>3 DEF BridgeInv, SettingsTypeOK
  <1>5. ToldTypeOK' /\ TellingIsOfNow' /\ ConfigIsTold'
    BY <1>2, <1>4 DEF BridgeInv, ToldTypeOK, TellingIsOfNow, ConfigIsTold, Doc
  <1> QED BY <1>3, <1>5 DEF BridgeInv

-----------------------------------------------------------------------------
\* Through every order of saves, torn or not, of lines and their times, of
\* connections lost and the two steps of on_connect, the invariant holds
THEOREM BridgeKeeps ==
  ASSUME BridgeIsSet
  PROVE  BridgeSpec => []BridgeInv
  <1>1. BridgeInit => BridgeInv
    BY BridgeInitKeeps
  <1>2. BridgeInv /\ [BridgeNext]_bridgeVars => BridgeInv'
    <2> SUFFICES ASSUME BridgeInv, [BridgeNext]_bridgeVars PROVE BridgeInv' OBVIOUS
    <2>1. ASSUME NEW line \in Line, process_line(line) PROVE BridgeInv'
      BY <2>1, ProcessKeeps
    <2>2. ASSUME NEW line \in Line, NEW t \in 0..MaxNow, import_line(line, t) PROVE BridgeInv'
      <3>1. t \in Nat
        BY DEF BridgeIsSet
      <3> QED BY <2>2, <3>1, ImportKeeps
    <2>3. CASE Disconnects \/ on_connect \/ Tells
      BY <2>3, ConnectionKeeps
    <2>4. CASE /\ SettingsClock \/ SaveOpens \/ SaveWrites \/ SaveTears
               /\ UNCHANGED <<connected, config, telling, overtaken, sent, losses>>
      BY <2>4, FilesKeep
    <2>5. CASE UNCHANGED bridgeVars
      BY <2>5 DEF bridgeVars, settingsVars, BridgeInv, SettingsTypeOK, FilesOK, ToldTypeOK,
                  GoneByTheRule, TellingIsOfNow, ConfigIsTold
    <2> QED BY <2>1, <2>2, <2>3, <2>4, <2>5 DEF BridgeNext
  <1> QED BY <1>1, <1>2, PTL DEF BridgeSpec

\* A line is read by the file in force at its time, of those last seen, unless
\* that file could not be read (SettingsAreOfTheTime); and what is retained on
\* emon/config is what lines are decoded by, but after settings loaded between
\* the two steps of on_connect (ConfigIsTold).  For any files, lines and
\* intervals, and any number of saves and lost connections
THEOREM SettingsAreTold ==
  ASSUME BridgeIsSet
  PROVE  BridgeSpec => [](SettingsAreOfTheTime /\ ConfigIsTold)
  <1>1. BridgeInv => SettingsAreOfTheTime
    <2> SUFFICES ASSUME BridgeInv, NEW p \in Process, used[p] # NoFile, ~used[p].unread
                 PROVE  LET u == used[p]
                            past == {f \in u.available : f <= u.t}
                        IN IF u.available = {} THEN u.file = NoFile
                           ELSE /\ u.file \in u.available
                                /\ past # {} => u.file \in past
                                /\ \A f \in IF past # {} THEN past ELSE u.available :
                                        IF past # {} THEN f <= u.file ELSE u.file <= f
      BY Zenon DEF SettingsAreOfTheTime, Process
    <2> DEFINE available == used[p].available
               t == used[p].t
               file == used[p].file
    <2>1. used[p] \in Look
      BY DEF BridgeInv, SettingsTypeOK
    <2>2. available \in SUBSET File /\ t \in Nat
      BY <2>1 DEF Look
    <2>3. file = get_applicable_settings_file(available, t)
      BY DEF BridgeInv, GoneByTheRule
    <2> HIDE DEF available, t, file
    <2>4. CASE available = {}
      <3>1. file = NoFile
        BY <2>2, <2>3, <2>4, InForce
      <3> QED BY <2>4, <3>1 DEF available, file
    <2>5. CASE available # {}
      <3>1. file \in available
        BY <2>2, <2>3, <2>5, InForce
      <3> DEFINE past == {f \in available : f <= t}
      <3>2. /\ past # {} => file \in past /\ \A f \in past : f <= file
            /\ past = {} => \A f \in available : file <= f
        BY <2>2, <2>3, <2>5, InForceAt
      <3> QED BY <2>5, <3>1, <3>2 DEF available, t, file
    <2> QED BY <2>4, <2>5
  <1>2. BridgeInv => ConfigIsTold
    BY DEF BridgeInv
  <1> QED BY <1>1, <1>2, BridgeKeeps, PTL
=============================================================================
