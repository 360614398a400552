------------------------------ MODULE RaceEvents ------------------------------
(***************************************************************************)
(* How the events of a race get to race/event: store.py queues them under  *)
(* its lock, whoever drains the queue publishes what it took               *)
(* (mqtt_client.py after each message, app.py after each request).  An     *)
(* event is its number here, and what made it is RaceApp's business.       *)
(***************************************************************************)
EXTENDS Naturals, Sequences

CONSTANTS
    Thread,             \* paho's network loop and Flask's requests
    PENDING_EVENTS_MAX,
    MaxEvents,          \* bound
    MaxBurst            \* bound: events of one transition

ASSUME RaceEventsAssumption ==
    /\ PENDING_EVENTS_MAX \in Nat \ {0} /\ MaxEvents \in Nat /\ MaxBurst \in Nat

VARIABLES
    pending,        \* Store._pending
    step,           \* where a thread is: "idle", or about to "drain"
    hand,           \* what a thread drained and has not yet published
    connected,      \* to the broker
    made,           \* history: events ever made
    sent, lost, dropped \* history: events published, published with no
                        \*   connection (paho answers NO_CONN), put out of the queue

historyVars == <<made, sent, lost, dropped>>
eventVars == <<pending, step, hand, connected, historyVars>>

Event == 1..made
Elements(s) == {s[i] : i \in DOMAIN s}

EventsInit ==
    /\ pending = <<>>
    /\ step = [t \in Thread |-> "idle"] /\ hand = [t \in Thread |-> <<>>]
    /\ connected = FALSE
    /\ made = 0 /\ sent = {} /\ lost = {} /\ dropped = {}

\* Mutant: the oldest are
NewestNot(q) ==
    IF Len(q) > PENDING_EVENTS_MAX THEN SubSeq(q, 1, PENDING_EVENTS_MAX) ELSE q

\* The newest are kept
Newest(q) ==
    IF Len(q) > PENDING_EVENTS_MAX
    THEN SubSeq(q, Len(q) - PENDING_EVENTS_MAX + 1, Len(q))
    ELSE q

\* _queue(), with the lock held
Queue(q) ==
    /\ pending' = Newest(q)
    /\ dropped' = dropped \cup (Elements(q) \ Elements(Newest(q)))

\* A command, a fix or the clock moves the race.  A choice of a course does so
\* twice before it drains
Transition(t) ==
    /\ step[t] \in {"idle", "drain"} /\ hand[t] = <<>>
    /\ \E n \in 1..MaxBurst :
          /\ made + n <= MaxEvents
          /\ made' = made + n
          /\ Queue(pending \o [i \in 1..n |-> made + i])
    /\ step' = [step EXCEPT ![t] = "drain"]
    /\ UNCHANGED <<hand, connected, sent, lost>>

\* A message or a poll that moves nothing
PollDrains(t) ==
    /\ step[t] = "idle" /\ hand[t] = <<>>
    /\ step' = [step EXCEPT ![t] = "drain"]
    /\ UNCHANGED <<pending, hand, connected, historyVars>>

\* Mutant: the queue is read, not taken
DrainReads(t) ==
    /\ step[t] = "drain"
    /\ hand' = [hand EXCEPT ![t] = pending]
    /\ step' = [step EXCEPT ![t] = "idle"]
    /\ UNCHANGED <<pending, connected, historyVars>>

\* Mutant: only an event that came without a connection is worth a drain
DrainConnected(t) ==
    /\ step[t] = "drain" /\ pending' = IF connected THEN <<>> ELSE pending
    /\ hand' = [hand EXCEPT ![t] = IF connected THEN pending ELSE <<>>]
    /\ step' = [step EXCEPT ![t] = "idle"]
    /\ UNCHANGED <<connected, historyVars>>

Drain(t) ==
    /\ step[t] = "drain"
    /\ hand' = [hand EXCEPT ![t] = pending] /\ pending' = <<>>
    /\ step' = [step EXCEPT ![t] = "idle"]
    /\ UNCHANGED <<connected, historyVars>>

\* publish_event(), for one of those drained; nothing it raises gets out
Publish(t) ==
    /\ hand[t] # <<>>
    /\ hand' = [hand EXCEPT ![t] = Tail(@)]
    /\ IF connected THEN sent' = sent \cup {Head(hand[t])} /\ UNCHANGED lost
                    ELSE lost' = lost \cup {Head(hand[t])} /\ UNCHANGED sent
    /\ UNCHANGED <<pending, step, connected, made, dropped>>

\* The broker, and paho's retry
Connect == ~connected /\ connected' = TRUE /\ UNCHANGED <<pending, step, hand, historyVars>>
Disconnect == connected /\ connected' = FALSE /\ UNCHANGED <<pending, step, hand, historyVars>>

EventsNext ==
    \/ \E t \in Thread : Transition(t) \/ PollDrains(t) \/ Drain(t) \/ Publish(t)
    \/ Connect \/ Disconnect

EventsSpec == EventsInit /\ [][EventsNext]_eventVars

\* Threads run, and pages poll and messages come
EventsFairness == \A t \in Thread : WF_eventVars(PollDrains(t) \/ Drain(t) \/ Publish(t))

---------------------------------------------------------------------------
(***************************************************************************)
(* An event is in one place: queued, in the hands of one thread, sent,     *)
(* lost to the want of a connection, or put out of a full queue.  However  *)
(* requests and the network loop drain at once, "it still goes to the      *)
(* broker exactly once" (app.py:382).                                      *)
(***************************************************************************)
EventsAreConserved ==
    LET parts == [t \in Thread |-> Elements(hand[t])]
    IN /\ Event = (UNION {parts[t] : t \in Thread}) \cup Elements(pending) \cup sent \cup lost \cup dropped
       /\ \A t \in Thread : parts[t] \cap (Elements(pending) \cup sent \cup lost \cup dropped) = {}
       /\ \A t, u \in Thread : t # u => parts[t] \cap parts[u] = {}
       /\ Elements(pending) \cap (sent \cup lost \cup dropped) = {}
       /\ sent \cap (lost \cup dropped) = {} /\ lost \cap dropped = {}

(***************************************************************************)
(* A full queue loses its oldest, and what is left is in order: nothing    *)
(* queued is older than anything put out.                                  *)
(***************************************************************************)
OldestGoFirst ==
    /\ Len(pending) <= PENDING_EVENTS_MAX
    /\ \A i, j \in DOMAIN pending : i < j => pending[i] < pending[j]
    /\ \A i \in DOMAIN pending : \A e \in dropped : e < pending[i]

(***************************************************************************)
(* No event waits for ever: there is somebody who drains and publishes it, *)
(* though the thread that made it was overtaken by another's drain.        *)
(***************************************************************************)
EventsGoOut ==
    \A e \in 1..MaxEvents : e \in Event ~> e \in sent \cup lost \cup dropped
===============================================================================
