------------------------ MODULE PublishingProperties ------------------------
(***************************************************************************)
(* What publishing promises, over Publishing.                              *)
(***************************************************************************)
EXTENDS Publishing, TLC

\* Posts are interchangeable, to TLC
Symmetry == Permutations(Post)

\* Every post of the recording on the site is the one we would look up before
\* publishing again, the one a job has just made, or one whose making we could
\* not learn of: no outage, edit, deletion in wp-admin or failed check makes a
\* second one otherwise (recording_service.py, _existing_post_id)
PostsAreKnown == live \subseteq {postId, link, got} \cup unheard

\* "A recording is one post for its whole life" (recording_service.py, publish)
OnePost == \A p, q \in live : p = q

\* What the site shows, for PostLife
Shown == CASE live = {} -> "none"
           [] live # {} /\ OnePost -> (IF theirs = {} THEN "ours" ELSE "theirs")
           [] OTHER -> "two"

\* Publishing implements its promise: one post, and never ours over theirs
Promise == INSTANCE PostLife WITH post <- Shown
KeepsPromise == Promise!Spec

\* A recording that has ended and says it is being published has a job at it
\* (recovery_manager.py: "Both were work in this process that died with it")
PublishingIsAlive ==
    alive /\ status # "active" /\ postState = "publishing" => Running

\* A publish asked for when the recording stops is not given up because the
\* site was out of reach: "If WordPress cannot be reached (503), the request
\* stays", unless publish_pending met a job that somebody else had just started
AskedIsNotForgotten == owed => wanted

\* A recording that stopped with a publish asked for has it tried and answered,
\* once the service stays up and the site stays within reach
AskedIsSettled ==
    <>[](online /\ alive) => (wanted /\ status # "active" ~> ~wanted)

-----------------------------------------------------------------------------
(***************************************************************************)
(* The inductive invariants of Publishing: what holds of a job between its *)
(* look at the site, its POST and its writes, with every fault, and what   *)
(* holds besides when none happens.                                        *)
(***************************************************************************)

\* Where there is a thread of a job, the job is running
ThreadHasJob == jpc # "idle" => Running

\* The answer is held from the POST to the end of the job
AnswerIsHeld ==
    /\ jpc \notin {"ref", "state", "link", "settle", "clear", "end"} => got = NoPost
    /\ jpc \in {"ref", "state", "link"} => got # NoPost

\* The post a job updates is the recording's
UpdatesItsPost ==
    jpc \in {"mark", "post", "ref"} /\ target # NoPost => target = postId

\* An update is answered by the post updated
AnswerIsTheTarget == jpc = "ref" /\ target # NoPost => got = target

\* A job that creates a post has found the recording without one
CreatesTheFirst ==
    jpc \in {"mark", "post", "ref"} /\ target = NoPost =>
        postId \notin live /\ link \notin live

\* Once saved, the answer is the recording's post; a job that failed to save
\* it has left it unheard of
AnswerIsKnown ==
    /\ jpc \in {"state", "link"} => got = postId
    /\ jpc \in {"settle", "clear", "end"} =>
            got \in {NoPost, postId} \cup unheard \/ got \notin live

\* The link is no older than the post it leads to
LinkIsOfThePost == postId # NoPost /\ link \in live => link = postId

IInv ==
    /\ TypeOK
    /\ PostsAreKnown
    /\ ThreadHasJob
    /\ AnswerIsHeld
    /\ UpdatesItsPost
    /\ AnswerIsTheTarget
    /\ CreatesTheFirst
    /\ AnswerIsKnown
    /\ LinkIsOfThePost

-----------------------------------------------------------------------------
\* Nothing lost, no outage, no lock, and wp-admin left alone during a publish
NoFaults == ~AnswersLost /\ ~Crashes /\ ~Locks /\ ~EditAnyTime

\* What the crew did to a post is noticed by the next look at it
EditIsNoticed ==
    /\ postId \in theirs => "crew" \in sinceKnown
    /\ jpc = "ref" /\ got \in theirs => "crew" \in sinceGot

\* A job that is about to update has seen no work of the crew's
UpdatesItsOwn ==
    jpc \in {"mark", "post"} /\ target # NoPost => target \notin theirs

CalmInv ==
    /\ IInv
    /\ unheard = {}
    /\ OnePost
    /\ EditIsNoticed
    /\ UpdatesItsOwn

-----------------------------------------------------------------------------
(* What a job says of itself, behind PublishingIsAlive and                 *)
(* AskedIsNotForgotten                                                     *)

\* The word is there from the mark of a job to its result, and in a database
\* the process died on
PublishingIsUnderWay ==
    alive /\ postState = "publishing" => jpc \in {"post", "failing", "ref", "state"}

\* Nobody is at a recording in progress
ActiveIsUnpublished ==
    status = "active" => /\ jpc = "idle" /\ postState # "publishing"
                         /\ stopper = "idle" /\ pending = "idle"

AliveInv == PublishingIsUnderWay /\ ActiveIsUnpublished

\* A job that could not reach the site leaves the request alone
AskedInv == AskedIsNotForgotten /\ (jpc = "clear" => outcome # "unreachable")
=============================================================================
