------------------------------- MODULE LiveCache -------------------------------
(***************************************************************************)
(* The documents of python/emon_live over a past period: Influx is asked   *)
(* once and the answer kept, for every screen that polls.  banks.Banks and *)
(* supply.Split let one thread a period ask while the rest wait, and look  *)
(* again (Locked); energy.Sankey does not.  The moment a screen is         *)
(* answered for is read before it waits.                                   *)
(***************************************************************************)
EXTENDS Integers

CONSTANTS
    Screen,                 \* the threads that answer the polls
    Locked,
    DayLength, TTL,         \* a calendar day; how long an answer is good for
    NoDoc,
    MaxNow                  \* bound

ASSUME LiveCacheAssumption ==
    /\ NoDoc \notin Screen /\ DayLength \in Nat \ {0} /\ TTL \in Nat /\ MaxNow \in Nat

VARIABLES
    clock,
    period,     \* "today", "yesterday" or "week", of all these screens
    cache,      \* _cache[period]: when it was asked for, where its window begins
    working,    \* _working[period]: who holds it
    pc, asked,  \* of a screen: where it is, and its now
    answer      \* what a screen was last answered, and, for the history, when it asked

cacheVars == <<clock, period, cache, working, pc, asked, answer>>

midnight(t) == (t \div DayLength) * DayLength

\* window(), its beginning
begins(p, now) ==
    CASE p = "today" -> midnight(now)
      [] p = "yesterday" -> midnight(midnight(now) - 1)
      [] p = "week" -> now - 7 * DayLength

\* Mutant: the answer of any day will do
still_same_windowAlways(p, start, now) == TRUE

still_same_window(p, start, now) == p = "week" \/ start = begins(p, now)

\* _cached()
Kept(now) ==
    /\ cache # NoDoc
    /\ now - cache.at <= TTL
    /\ still_same_window(period, cache.from, now)

CacheInit ==
    /\ clock = DayLength - 1 /\ period \in {"today", "yesterday", "week"}
    /\ cache = NoDoc /\ working = NoDoc
    /\ pc = [s \in Screen |-> "idle"] /\ asked = [s \in Screen |-> NoDoc]
    /\ answer = [s \in Screen |-> NoDoc]

Answer(s, doc) ==
    /\ answer' = [answer EXCEPT ![s] = [doc |-> doc, asked |-> asked[s]]]
    /\ pc' = [pc EXCEPT ![s] = "idle"]

CacheClock ==
    /\ clock < MaxNow /\ clock' = clock + 1
    /\ UNCHANGED <<period, cache, working, pc, asked, answer>>

Polls(s) ==
    /\ pc[s] = "idle"
    /\ pc' = [pc EXCEPT ![s] = "looks"] /\ asked' = [asked EXCEPT ![s] = clock]
    /\ answer' = [answer EXCEPT ![s] = NoDoc]
    /\ UNCHANGED <<clock, period, cache, working>>

Looks(s) ==
    /\ pc[s] = "looks"
    /\ IF Kept(asked[s]) THEN Answer(s, cache)
       ELSE pc' = [pc EXCEPT ![s] = IF Locked THEN "waits" ELSE "queries"] /\ UNCHANGED answer
    /\ UNCHANGED <<clock, period, cache, working, asked>>

\* Mutant: who waited asks Influx too
LooksAgainNot(s) ==
    /\ pc[s] = "waits" /\ working = NoDoc
    /\ working' = s /\ pc' = [pc EXCEPT ![s] = "queries"]
    /\ UNCHANGED <<clock, period, cache, asked, answer>>

\* with self._working[period]: the cache is looked at again
LooksAgain(s) ==
    /\ pc[s] = "waits" /\ working = NoDoc
    /\ IF Kept(asked[s]) THEN Answer(s, cache) /\ UNCHANGED working
       ELSE working' = s /\ pc' = [pc EXCEPT ![s] = "queries"] /\ UNCHANGED answer
    /\ UNCHANGED <<clock, period, cache, asked>>

\* Influx has answered, or failed, which is kept all the same
Queries(s) ==
    /\ pc[s] = "queries"
    /\ \E failed \in BOOLEAN :
          LET doc == [at |-> asked[s], from |-> begins(period, asked[s]), failed |-> failed]
          IN cache' = doc /\ Answer(s, doc)
    /\ working' = NoDoc
    /\ UNCHANGED <<clock, period, asked>>

CacheNext ==
    \/ CacheClock
    \/ \E s \in Screen : Polls(s) \/ Looks(s) \/ LooksAgain(s) \/ Queries(s)

CacheSpec == CacheInit /\ [][CacheNext]_cacheVars

---------------------------------------------------------------------------
(***************************************************************************)
(* What a screen is told is of the window it asked for, and no older than  *)
(* the answer may be: not yesterday's, whoever kept it, and however long   *)
(* the screen waited across midnight.                                      *)
(***************************************************************************)
AnswerIsOfItsWindow ==
    \A s \in Screen : answer[s] # NoDoc =>
        LET a == answer[s]
        IN /\ a.asked - a.doc.at <= TTL
           /\ period # "week" => a.doc.from = begins(period, a.asked)

(***************************************************************************)
(* One set of queries a period, however many screens ask at once           *)
(* (banks.py:190, app.py:82-83): an answer is never replaced by another    *)
(* for which it would have done.                                           *)
(***************************************************************************)
QueriedOnce ==
    [][\A s \in Screen :
          pc[s] = "queries" /\ cache' # cache /\ pc'[s] = "idle" => ~Kept(asked[s])]_cacheVars

\* Both: an answer is queried for once, and is of the window it is asked of
AnswersAreShared == []AnswerIsOfItsWindow /\ QueriedOnce
================================================================================
