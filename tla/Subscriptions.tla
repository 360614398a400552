---------------------------- MODULE Subscriptions ----------------------------
(***************************************************************************)
(* What the recorder hears: the subscriptions of data_recorder.py, kept in *)
(* three places that must agree.  active_recordings says which topics are  *)
(* wanted, subscribed_topics which were asked for, and the broker which it *)
(* serves; the broker forgets with the connection, the other two do not.   *)
(* DataRecorder has the messages and the buffer; here is what reaches it.  *)
(***************************************************************************)
EXTENDS Naturals, Sequences, FiniteSets, SequencesExt, Functions

CONSTANTS
    Entry,          \* recordings there may be an entry of
    Published,      \* topics anything is published on, as sequences of levels
    Filters,        \* sets of patterns a recording may be started with
    MaxLosses, MaxBegun     \* bounds

\* A pattern is what split('/') makes of it; what is published has no wildcard
ASSUME SubscriptionsAssumption ==
    /\ \A topic \in Published :
          topic \in Seq(STRING) /\ \A i \in DOMAIN topic : topic[i] \notin {"+", "#"}
    /\ \A topics \in Filters : \A pattern \in topics :
          pattern \in Seq(STRING) /\ pattern # <<>>
    /\ MaxLosses \in Nat /\ MaxBegun \in Nat

VARIABLES
    active_recordings,  \* the recordings of which it has an entry
    patterns,           \* the topics of an entry
    enabled,            \* entries that are enabled
    subscribed_topics,
    session,            \* what the broker sends to this connection
    link,               \* "down", "up" or, with on_connect to come, "opened"
    ending,             \* recordings in the middle of a stop_recording
    losses, begun

subscriptionVars ==
    <<active_recordings, patterns, enabled, subscribed_topics, session, link, ending,
      losses, begun>>
recorder == <<active_recordings, patterns, enabled>>

SubscriptionsInit ==
    /\ active_recordings = {} /\ patterns = [r \in Entry |-> {}] /\ enabled = {}
    /\ subscribed_topics = {} /\ session = {} /\ link = "down"
    /\ ending = {} /\ losses = 0 /\ begun = 0

Needed(entries) == UNION {patterns[r] : r \in entries}

\* A request goes out only over a connection, and is not repeated
Subscribe(topics) == session' = IF link = "down" THEN session ELSE session \cup topics
Unsubscribe(topics) == session' = IF link = "down" THEN session ELSE session \ topics

-----------------------------------------------------------------------------
\* A clean session: the broker knows nothing of the one before
Opens == link = "down" /\ link' = "opened" /\ session' = {}
         /\ UNCHANGED <<recorder, subscribed_topics, ending, losses, begun>>

\* Mutant: what was asked for is not asked for again
on_connectOnlyNew ==
    /\ link = "opened" /\ link' = "up"
    /\ Subscribe(Needed(active_recordings) \ subscribed_topics)
    /\ UNCHANGED <<recorder, subscribed_topics, ending, losses, begun>>

\* All that is wanted is asked for again; what is not wanted any more is not
on_connect ==
    /\ link = "opened" /\ link' = "up"
    /\ Subscribe(Needed(active_recordings))
    /\ UNCHANGED <<recorder, subscribed_topics, ending, losses, begun>>

\* In on_connect too, with an rc other than 0: paho tries again
on_disconnect ==
    /\ link # "down" /\ losses < MaxLosses
    /\ link' = "down" /\ session' = {} /\ losses' = losses + 1
    /\ UNCHANGED <<recorder, subscribed_topics, ending, begun>>

-----------------------------------------------------------------------------
\* A second start of an entry that is there is a warning
start_recording(r, topics) ==
    /\ begun < MaxBegun /\ r \notin active_recordings
    /\ begun' = begun + 1
    /\ active_recordings' = active_recordings \cup {r}
    /\ enabled' = enabled \cup {r}
    /\ patterns' = [patterns EXCEPT ![r] = topics]
    /\ Subscribe(topics \ subscribed_topics)
    /\ subscribed_topics' = subscribed_topics \cup topics
    /\ UNCHANGED <<link, ending, losses>>

\* The lock is let go of for the flush of the buffer between the two halves
StopMarks(r) ==
    /\ r \in active_recordings \ ending
    /\ enabled' = enabled \ {r} /\ ending' = ending \cup {r}
    /\ UNCHANGED <<active_recordings, patterns, subscribed_topics, session, link, losses, begun>>

\* Mutant: what the recording asked for is given up with it
cleanup_subscriptionsOwn(r) == subscribed_topics \cap patterns[r]

\* What no entry needs any more
cleanup_subscriptions(r) == subscribed_topics \ Needed(active_recordings \ {r})

StopRemoves(r) ==
    /\ r \in ending
    /\ ending' = ending \ {r} /\ active_recordings' = active_recordings \ {r}
    /\ patterns' = [patterns EXCEPT ![r] = {}]
    /\ subscribed_topics' = subscribed_topics \ cleanup_subscriptions(r)
    /\ Unsubscribe(cleanup_subscriptions(r))
    /\ enabled' = enabled \ {r}
    /\ UNCHANGED <<link, losses, begun>>

\* Paused, a recording keeps its subscriptions
pause_recording(r) ==
    /\ r \in enabled /\ enabled' = enabled \ {r}
    /\ UNCHANGED <<active_recordings, patterns, subscribed_topics, session, link, ending,
                   losses, begun>>
\* Nothing hinders a recording that is being stopped from being resumed
resume_recording(r) ==
    /\ r \in active_recordings \ enabled /\ enabled' = enabled \cup {r}
    /\ UNCHANGED <<active_recordings, patterns, subscribed_topics, session, link, ending,
                   losses, begun>>

SubscriptionsNext ==
    \/ Opens \/ on_connect \/ on_disconnect
    \/ \E r \in Entry :
        \/ \E topics \in Filters : start_recording(r, topics)
        \/ StopMarks(r) \/ StopRemoves(r) \/ pause_recording(r) \/ resume_recording(r)

SubscriptionsSpec == SubscriptionsInit /\ [][SubscriptionsNext]_subscriptionVars

-----------------------------------------------------------------------------
(* Which messages a recording takes                                        *)

\* Mutant: a pattern that ends in # is one more level
mqtt_topic_matchOneMore(pattern, topic) ==
    Len(pattern) = Len(topic)
    /\ \A i \in DOMAIN pattern : pattern[i] \in {"+", "#", topic[i]}

\* A # must come last, and the levels before it are compared as they are
mqtt_topic_match(pattern, topic) ==
    LET hash == {i \in DOMAIN pattern : pattern[i] = "#"}
        before == Len(pattern) - 1
    IN IF hash = {}
       THEN Len(pattern) = Len(topic)
            /\ \A i \in DOMAIN pattern : pattern[i] \in {"+", topic[i]}
       ELSE hash = {Len(pattern)} /\ Len(topic) >= before
            /\ SubSeq(pattern, 1, before) = SubSeq(topic, 1, before)

topic_matches(topic, topic_patterns) == \E p \in topic_patterns : mqtt_topic_match(p, topic)

\* MQTT 4.7: a + is any one level, a # at the end the levels from its parent on
Serves(pattern, topic) ==
    LET fits(i) == i \in DOMAIN topic /\ pattern[i] \in {"+", topic[i]}
        last == Len(pattern)
    IN IF pattern[last] = "#" THEN \A i \in 1..(last - 1) : fits(i)
       ELSE last = Len(topic) /\ \A i \in 1..last : fits(i)

\* The recordings a message on a topic would be recorded in
RecordedIn(topic) ==
    {r \in enabled : /\ \E p \in session : Serves(p, topic)
                     /\ topic_matches(topic, patterns[r])}

(***************************************************************************)
(* Between an on_connect and the loss of the connection, a message goes to *)
(* those recordings that asked for it and to no other, whichever           *)
(* recordings were started, paused and stopped in the gap, or share a      *)
(* pattern with one that was (data_recorder.py:167, :298, :357).  Before   *)
(* on_connect ran, to none that did not.  A pattern with a + before its #  *)
(* is served, but not recorded (:257).                                     *)
(***************************************************************************)
WhatIsAskedForIsRecorded ==
    \A topic \in Published :
        LET plain(p) == Last(p) = "#" => \A i \in DOMAIN p : p[i] # "+"
            asked == {r \in enabled : \E p \in patterns[r] : Serves(p, topic)}
            plainly == {r \in enabled : \E p \in patterns[r] : plain(p) /\ Serves(p, topic)}
        IN /\ RecordedIn(topic) \subseteq asked
           /\ link = "up" => plainly \subseteq RecordedIn(topic)

\* The broker serves nothing that nobody needs
NothingElseIsServed == link = "up" => session = Needed(active_recordings)

(***************************************************************************)
(* Both: what the broker serves is what is needed, and of that each        *)
(* recording takes its own.                                                *)
(***************************************************************************)
EachHearsItsOwn == WhatIsAskedForIsRecorded /\ NothingElseIsServed
===============================================================================
