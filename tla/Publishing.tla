----------------------------- MODULE Publishing -----------------------------
(***************************************************************************)
(* The post of one recording: python/event_recorder/recording_service.py   *)
(* (start_publish, publish, set_publish_on_stop, publish_pending), the     *)
(* requests wordpress_publisher.py makes for it, and the WordPress site.   *)
(*                                                                         *)
(* Jobs, rows and posts are all kept per recording, so one recording is    *)
(* enough.  Four threads meet at it: the job that publishes, a stop, the   *)
(* main loop's publish_pending, and a request that asks for a publish when *)
(* the recording stops.  start_publish's look at the jobs and its new job  *)
(* are one step, under _lock; nothing else they do is.                     *)
(***************************************************************************)
EXTENDS Integers

CONSTANTS
    Post,           \* ids of posts; one is used again when nothing names it
    NoPost,
    MaxTries,       \* max_retries of a request
    PublishActive,  \* whether anyone publishes a recording in progress
    EditAnyTime,    \* whether wp-admin is used during a publish, too
    AnswersLost,    \* whether the site may do what it was asked unheard,
    Crashes,        \*   the service may die,
    Locks           \*   and a write to our database may find it locked

ASSUME PublishingAssumption ==
    /\ NoPost \notin Post
    /\ MaxTries \in Nat \ {0}
    /\ {PublishActive, EditAnyTime, AnswersLost, Crashes, Locks} \subseteq BOOLEAN

VARIABLES
    status,     \* recordings.status, "recovered" when recovery stopped it
    postState,  \* post_drafts.post_state, wp_draft being published too
    postId,     \* post_drafts.wp_post_id
    link,       \* recordings.wordpress_url, as the post it is the link of
    wanted,     \* post_drafts.publish_on_stop is set
    alive,      \* the service is running
    job,        \* _publish_jobs: none, running, or how the last one ended
    jpc, target, got, tries, outcome,   \* where the job's thread is; the post
                \*   it updates, and the one the site answered with; requests
                \*   made; how it is going to end
    stopper, pending, asking,   \* where the other three threads are
    waiting,    \* tried less than PENDING_RETRY_SECONDS ago
    online,     \* WordPress can be reached
    live,       \* posts on the site that are not in the trash
    theirs,     \* those last written in wp-admin
    sinceKnown, sinceGot,   \* who has changed our post since wp_modified,
                \*   and since the answer the job holds
    unheard,    \* history: posts made from here that we never learned of
    owed        \* history: asked for, and not taken back, answered, or dropped
                \*   by publish_pending for a job of somebody else's

dbVars == <<status, postState, postId, link, wanted>>
jobVars == <<job, jpc, target, got, tries, outcome>>
otherVars == <<stopper, pending, asking, waiting>>
siteVars == <<online, live, theirs, sinceKnown, sinceGot>>
vars == <<dbVars, alive, jobVars, otherVars, siteVars, unheard, owed>>

PostState == {"none", "publishing", "published", "publish_failed"}
Outcome == {"done", "unreachable", "failed"}        \* failed is any but a 503
Jpc == {"idle", "draw", "reach", "check", "mark", "post", "failing",
        "ref", "state", "link", "settle", "clear", "end"}

Who == {"us", "crew"}

FlagsOK == /\ wanted \in BOOLEAN /\ alive \in BOOLEAN /\ waiting \in BOOLEAN
           /\ online \in BOOLEAN /\ owed \in BOOLEAN

TypeOK ==
    /\ FlagsOK
    /\ status \in {"active", "stopped", "recovered"}
    /\ postState \in PostState
    /\ postId \in Post \cup {NoPost} /\ link \in Post \cup {NoPost}
    /\ target \in Post \cup {NoPost} /\ got \in Post \cup {NoPost}
    /\ job \in {"none", "running"} \cup Outcome
    /\ jpc \in Jpc /\ tries \in 0..(MaxTries - 1)
    /\ outcome \in Outcome \cup {"none"}
    /\ stopper \in {"idle", "ended", "asked"}
    /\ pending \in {"idle", "listed", "starting"}
    /\ asking \in {"idle", "writing"}
    /\ live \subseteq Post /\ theirs \subseteq live /\ unheard \subseteq Post
    /\ sinceKnown \subseteq Who /\ sinceGot \subseteq Who

JobInit == /\ job = "none" /\ jpc = "idle" /\ target = NoPost /\ got = NoPost
           /\ tries = 0 /\ outcome = "none"
OthersInit == /\ stopper = "idle" /\ pending = "idle" /\ asking = "idle"
              /\ waiting = FALSE

\* A recording from before wp_post_id was kept has a link to its post, and
\* nobody can tell whether the crew has changed it
Init ==
    /\ status \in {"active", "stopped"}
    /\ postId = NoPost /\ wanted = FALSE /\ alive = TRUE
    /\ JobInit /\ OthersInit
    /\ online = TRUE /\ sinceKnown = {} /\ sinceGot = {}
    /\ unheard = {} /\ owed = FALSE
    /\ \/ link = NoPost /\ live = {} /\ postState = "none"
       \/ link \in Post /\ live = {link} /\ postState = "published" /\ status = "stopped"
    /\ theirs = live

-----------------------------------------------------------------------------
(* The job                                                                 *)

Running == job = "running"

StartJob ==
    /\ ~Running
    /\ job' = "running" /\ jpc' = "draw"
    /\ UNCHANGED <<target, got, tries, outcome>>

JobAt(place) == alive /\ jpc = place
Goto(place) == jpc' = place /\ UNCHANGED <<job, target, got, tries, outcome>>
EndAs(o) == jpc' = "settle" /\ outcome' = o /\ UNCHANGED <<job, target, got, tries>>

\* Not drawn yet, or changed since: the charts first
Draw == /\ JobAt("draw")
        /\ Goto("reach") \/ EndAs("failed")
        /\ UNCHANGED <<dbVars, alive, otherVars, siteVars, unheard, owed>>

Reach == /\ JobAt("reach")
         /\ IF online THEN Goto("check") ELSE EndAs("unreachable")
         /\ UNCHANGED <<dbVars, alive, otherVars, siteVars, unheard, owed>>

GoOnWith(p) == /\ jpc' = "mark" /\ target' = p
               /\ UNCHANGED <<job, got, tries, outcome>>

\* The post that has to be looked up before this publish: its id or its link
Known == IF postId # NoPost THEN postId ELSE link

\* Mutants: not being able to look is taken for a post that is gone; the
\* post is not compared with what it was
CheckTakesSilenceForGone ==
    /\ JobAt("check")
    /\ IF online /\ Known \in live /\ postId # NoPost /\ sinceKnown = {}
       THEN GoOnWith(postId) ELSE GoOnWith(NoPost)
    /\ UNCHANGED <<dbVars, alive, otherVars, siteVars, unheard, owed>>

CheckNotCompared ==
    /\ JobAt("check")
    /\ IF Known \in live THEN GoOnWith(Known) ELSE GoOnWith(NoPost)
    /\ UNCHANGED <<dbVars, alive, otherVars, siteVars, unheard, owed>>

\* _existing_post_id, and the refusals after it
Check ==
    /\ JobAt("check")
    /\ \/ Known = NoPost /\ GoOnWith(NoPost)
       \/ Known # NoPost /\ ~online /\ EndAs("unreachable")
       \/ Known # NoPost /\ online /\ Known \notin live /\ GoOnWith(NoPost)
       \/ /\ online /\ Known \in live
          /\ IF postId # NoPost /\ sinceKnown = {} THEN GoOnWith(postId) ELSE EndAs("failed")
       \/ EndAs("failed")                               \* no images to post
    /\ UNCHANGED <<dbVars, alive, otherVars, siteVars, unheard, owed>>

\* A write that finds the database locked raises, and the job has failed
Raises == Locks /\ EndAs("failed") /\ UNCHANGED dbVars

Mark ==
    /\ JobAt("mark")
    /\ \/ Raises
       \/ /\ postState' = "publishing"
          /\ Goto("post")
          /\ UNCHANGED <<status, postId, link, wanted>>
    /\ UNCHANGED <<alive, otherVars, siteVars, unheard, owed>>

\* One more attempt of the POST, if there is one left
Again == /\ IF tries + 1 = MaxTries THEN jpc' = "failing" /\ tries' = 0
                                   ELSE jpc' = "post" /\ tries' = tries + 1
         /\ UNCHANGED <<job, target, got, outcome>>

Fresh == Post \ (live \cup {postId, link, got})

\* The site creates the post, or changes it; the answer comes, or does not
\* and the POST is made again
PostTaken(p) ==
    /\ JobAt("post") /\ online
    /\ IF target = NoPost
       THEN p \in Fresh /\ live' = live \cup {p} /\ UNCHANGED sinceKnown
       ELSE p = target /\ p \in live /\ UNCHANGED live /\ sinceKnown' = sinceKnown \cup {"us"}
    /\ theirs' = theirs \ {p}
    /\ \/ /\ jpc' = "ref" /\ got' = p /\ sinceGot' = {} /\ tries' = 0
          /\ UNCHANGED <<job, target, outcome, unheard>>
       \/ /\ AnswersLost /\ Again
          /\ unheard' = IF target = NoPost THEN unheard \cup {p} ELSE unheard
          /\ UNCHANGED sinceGot
    /\ UNCHANGED <<dbVars, alive, otherVars, online, owed>>

\* Not delivered, or a server error; or refused: 404 for a post that is gone
PostNotTaken ==
    /\ JobAt("post")
    /\ \/ Again
       \/ jpc' = "failing" /\ tries' = 0 /\ UNCHANGED <<job, target, got, outcome>>
    /\ UNCHANGED <<dbVars, alive, otherVars, siteVars, unheard, owed>>

MarkFailed ==
    /\ JobAt("failing")
    /\ \/ Raises
       \/ /\ postState' = "publish_failed" /\ EndAs("failed")
          /\ UNCHANGED <<status, postId, link, wanted>>
    /\ UNCHANGED <<alive, otherVars, siteVars, unheard, owed>>

\* The thread of the job is gone
NoThread == /\ jpc' = "idle" /\ target' = NoPost /\ got' = NoPost
            /\ tries' = 0 /\ outcome' = "none" /\ sinceGot' = {}

\* The post the job made is one we shall not know again
Unlearned == unheard' = IF target = NoPost THEN unheard \cup {got} ELSE unheard

\* Mutant: wp_modified is left as it was
SaveRefKeepsModified ==
    /\ JobAt("ref") /\ postId' = got /\ Goto("state")
    /\ UNCHANGED <<status, postState, link, wanted, alive, otherVars, siteVars, unheard, owed>>

SaveRef ==
    /\ JobAt("ref")
    /\ \/ Raises /\ Unlearned /\ UNCHANGED sinceKnown
       \/ /\ postId' = got /\ sinceKnown' = sinceGot /\ Goto("state")
          /\ UNCHANGED <<status, postState, link, wanted, unheard>>
    /\ UNCHANGED <<alive, otherVars, online, live, theirs, sinceGot, owed>>

\* Mutant: the word for it of before the states were split
SaveStateOldWord ==
    /\ JobAt("state") /\ postState' = "processed" /\ Goto("link")
    /\ UNCHANGED <<status, postId, link, wanted, alive, otherVars, siteVars, unheard, owed>>

SaveState ==
    /\ JobAt("state")
    /\ \/ Raises
       \/ /\ postState' = "published" /\ Goto("link")
          /\ UNCHANGED <<status, postId, link, wanted>>
    /\ UNCHANGED <<alive, otherVars, siteVars, unheard, owed>>

SaveLink ==
    /\ JobAt("link")
    /\ \/ Raises
       \/ /\ link' = got /\ EndAs("done")
          /\ UNCHANGED <<status, postState, postId, wanted>>
    /\ UNCHANGED <<alive, otherVars, siteVars, unheard, owed>>

\* Mutants: only a publish that worked settles the request; every one does
SettleIfDone ==
    /\ JobAt("settle")
    /\ Goto(IF outcome = "done" /\ wanted THEN "clear" ELSE "end")
    /\ UNCHANGED <<dbVars, alive, otherVars, siteVars, unheard, owed>>

SettleAnyway ==
    /\ JobAt("settle")
    /\ Goto(IF wanted THEN "clear" ELSE "end")
    /\ UNCHANGED <<dbVars, alive, otherVars, siteVars, unheard, owed>>

\* "settled by anything but WordPress being out of reach"
Settle ==
    /\ JobAt("settle")
    /\ Goto(IF outcome # "unreachable" /\ wanted THEN "clear" ELSE "end")
    /\ UNCHANGED <<dbVars, alive, otherVars, siteVars, unheard, owed>>

\* Nothing catches an exception here: the thread ends, and the job never does
Clear ==
    /\ JobAt("clear")
    /\ \/ Locks /\ NoThread /\ UNCHANGED <<job, wanted, owed>>
       \/ /\ wanted' = FALSE /\ owed' = (owed /\ outcome = "unreachable")
          /\ Goto("end") /\ UNCHANGED sinceGot
    /\ UNCHANGED <<status, postState, postId, link, alive, otherVars, online, live,
                   theirs, sinceKnown, unheard>>

End ==
    /\ JobAt("end")
    /\ job' = outcome /\ NoThread
    /\ UNCHANGED <<dbVars, alive, otherVars, online, live, theirs, sinceKnown, unheard, owed>>

-----------------------------------------------------------------------------
(* Who starts it                                                           *)

PublishAsked ==
    /\ alive /\ (PublishActive \/ status # "active")
    /\ StartJob
    /\ UNCHANGED <<dbVars, alive, otherVars, siteVars, unheard, owed>>

\* set_publish_on_stop: refused once it is published; writes the request if
\* the recording was active when it looked, and publishes it there and then
\* if it was not
AskOnStop ==
    /\ alive /\ asking = "idle" /\ postState # "published"
    /\ \/ status = "active" /\ asking' = "writing" /\ UNCHANGED jobVars
       \/ status # "active" /\ StartJob /\ UNCHANGED asking
    /\ UNCHANGED <<dbVars, alive, stopper, pending, waiting, siteVars, unheard, owed>>

AskWrite ==
    /\ alive /\ asking = "writing"
    /\ asking' = "idle"
    /\ \/ Locks /\ UNCHANGED <<wanted, owed>>
       \/ wanted' = TRUE /\ owed' = TRUE
    /\ UNCHANGED <<status, postState, postId, link, alive, jobVars, stopper,
                   pending, waiting, siteVars, unheard>>

AskNoMore ==
    /\ alive
    /\ wanted' = FALSE /\ owed' = FALSE
    /\ UNCHANGED <<status, postState, postId, link, alive, jobVars, otherVars,
                   siteVars, unheard>>

\* stop: ends the recording, then looks whether it is to be published
Stop ==
    /\ alive /\ status = "active"
    /\ status' = "stopped" /\ stopper' = "ended"
    /\ UNCHANGED <<postState, postId, link, wanted, alive, jobVars, pending,
                   asking, waiting, siteVars, unheard, owed>>

StopLooks ==
    /\ alive /\ stopper = "ended"
    /\ stopper' = IF wanted THEN "asked" ELSE "idle"
    /\ waiting' = (waiting \/ wanted)
    /\ UNCHANGED <<dbVars, alive, jobVars, pending, asking, siteVars, unheard, owed>>

\* "the request stays, for publish_pending to try again"
StopPublishes ==
    /\ alive /\ stopper = "asked"
    /\ stopper' = "idle"
    /\ StartJob \/ (Running /\ UNCHANGED jobVars)
    /\ UNCHANGED <<dbVars, alive, pending, asking, waiting, siteVars, unheard, owed>>

\* publish_pending: lists what is wanted, passes over what is being published
\* or was tried a moment ago, and starts the rest.  Already publishing counts
\* with what "waiting will not mend": the request is dropped
PendingList ==
    /\ alive /\ pending = "idle" /\ wanted /\ status # "active"
    /\ pending' = "listed"
    /\ UNCHANGED <<dbVars, alive, jobVars, stopper, asking, waiting, siteVars, unheard, owed>>

PendingLook ==
    /\ alive /\ pending = "listed"
    /\ pending' = IF Running \/ waiting THEN "idle" ELSE "starting"
    /\ waiting' = (waiting \/ ~Running)
    /\ UNCHANGED <<dbVars, alive, jobVars, stopper, asking, siteVars, unheard, owed>>

PendingStart ==
    /\ alive /\ pending = "starting"
    /\ pending' = "idle"
    /\ \/ StartJob /\ UNCHANGED <<wanted, owed>>
       \/ Running /\ wanted' = FALSE /\ owed' = FALSE /\ UNCHANGED jobVars
       \/ Running /\ Locks /\ UNCHANGED <<wanted, owed, jobVars>>
    /\ UNCHANGED <<status, postState, postId, link, alive, stopper, asking, waiting,
                   siteVars, unheard>>

PendingWaited ==
    /\ alive /\ waiting /\ waiting' = FALSE
    /\ UNCHANGED <<dbVars, alive, jobVars, stopper, pending, asking, siteVars, unheard, owed>>

\* reset_to_processed of a publish that failed
Reset ==
    /\ alive /\ postState = "publish_failed"
    /\ postState' = IF postId # NoPost THEN "published" ELSE "none"
    /\ UNCHANGED <<status, postId, link, wanted, alive, jobVars, otherVars,
                   siteVars, unheard, owed>>

-----------------------------------------------------------------------------
(* The world                                                               *)

Crash ==
    /\ Crashes /\ alive /\ alive' = FALSE
    /\ job' = "none" /\ NoThread
    /\ stopper' = "idle" /\ pending' = "idle" /\ asking' = "idle" /\ waiting' = FALSE
    /\ IF jpc = "ref" THEN Unlearned ELSE UNCHANGED unheard
    /\ UNCHANGED <<dbVars, online, live, theirs, sinceKnown, owed>>

\* Mutant: recovery leaves an interrupted publish as it was
RestartForgetsPublishing ==
    /\ ~alive /\ alive' = TRUE
    /\ status' \in IF status = "active" THEN {"active", "recovered"} ELSE {status}
    /\ UNCHANGED <<postState, postId, link, wanted, jobVars, otherVars, siteVars, unheard, owed>>

\* Recovery ends a recording that has been silent too long, and says of an
\* ended one that its publish was interrupted
Restart ==
    /\ ~alive /\ alive' = TRUE
    /\ status' \in IF status = "active" THEN {"active", "recovered"} ELSE {status}
    /\ postState' = IF status' # "active" /\ postState = "publishing"
                    THEN "publish_failed" ELSE postState
    /\ UNCHANGED <<postId, link, wanted, jobVars, otherVars, siteVars, unheard, owed>>

\* The crew at work in wp-admin, on a post of this recording
UnderUpdate(p) == jpc \in {"mark", "post"} /\ p = target

EditPost(p) ==
    /\ p \in live /\ (EditAnyTime \/ ~UnderUpdate(p))
    /\ theirs' = theirs \cup {p}
    /\ sinceKnown' = IF p = postId THEN sinceKnown \cup {"crew"} ELSE sinceKnown
    /\ sinceGot' = IF p = got THEN sinceGot \cup {"crew"} ELSE sinceGot
    /\ UNCHANGED <<dbVars, alive, jobVars, otherVars, online, live, unheard, owed>>

RemovePost(p) ==
    /\ p \in live
    /\ live' = live \ {p} /\ theirs' = theirs \ {p} /\ unheard' = unheard \ {p}
    /\ sinceKnown' = IF p = postId THEN {} ELSE sinceKnown
    /\ UNCHANGED <<dbVars, alive, jobVars, otherVars, online, sinceGot, owed>>

\* The boat sails out of range, and back into it
Network == /\ online' = ~online
           /\ UNCHANGED <<dbVars, alive, jobVars, otherVars, live, theirs,
                          sinceKnown, sinceGot, unheard, owed>>

JobStep == \/ Draw \/ Reach \/ Check \/ Mark
           \/ (\E p \in Post : PostTaken(p)) \/ PostNotTaken \/ MarkFailed
           \/ SaveRef \/ SaveState \/ SaveLink \/ Settle \/ Clear \/ End
StopStep == StopLooks \/ StopPublishes
PendingStep == PendingList \/ PendingLook \/ PendingStart
Crew == PublishAsked \/ AskOnStop \/ AskNoMore \/ Stop \/ Reset
Site == (\E p \in Post : EditPost(p) \/ RemovePost(p)) \/ Network

Next == JobStep \/ StopStep \/ PendingStep \/ PendingWaited \/ AskWrite
        \/ Crew \/ Site \/ Crash \/ Restart

Spec == Init /\ [][Next]_vars

\* The system runs the threads, the main loop comes round each minute, time
\* passes, and Docker restarts the service.  Nobody has to ask for anything,
\* and the site need never be reached
Fairness == /\ WF_vars(JobStep) /\ WF_vars(StopStep)
            /\ WF_vars(PendingStep) /\ WF_vars(PendingWaited)
            /\ WF_vars(Restart)

FairSpec == Spec /\ Fairness
=============================================================================
