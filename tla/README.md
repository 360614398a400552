# A verification project for emon_Suite

TLA+ models of the Python services of emon_Suite: the event recorder, which
records a boat's MQTT feeds while she sails, draws the recording and publishes
it; the racing display, which runs one race for every tablet on board; the live
page of energy and tanks; and the bridge that brings sensor nodes' lines to the
broker. They are checked with TLC and, where it matters most, proved with TLAPS.

Paths below are relative to `src/python`, unless they begin with `src/`; a bare
file name is of `event_recorder`. *The requirements* are
`event_recorder/docs/EVENT_RECORDER_REQUIREMENTS.md`.

## 1. The system

emon_Suite is a boat's and a house's monitoring system. Arduino sketches send
packed readings by radio; a Linux host decodes them, puts them on MQTT, logs
them and shows them. Around that pipeline, several Python services keep state
of their own.

| Component | State it keeps | Operations | Hard parts |
|---|---|---|---|
| **event_recorder / database** (`models.py`) | SQLite: recordings, their rows, posts, images | one transaction per method; the migration of older files | another writer's lock makes any write raise; survives a crash when nothing else does; a schema change commits by itself |
| **event_recorder / data recorder** (`data_recorder.py`) | the entries being recorded, their counts, one buffer for all, the topics subscribed | message, start, stop, flush, reconnect, shutdown | paho's thread, the trigger's and request threads at once; a stop is three steps with no lock between them; the broker forgets with the connection |
| **event_recorder / recording service** (`recording_service.py`) | publish jobs, kept lines of the page | start, stop, suspend, resume, process, reset, delete, page state | check-then-act on the database from any thread |
| **event_recorder / data processor** (`data_processor.py`) | plots and exports on disk, their rows | draw, export, statistics | minutes of work in a daemon thread beside a stop, a deletion or a crash; rows that came out of order |
| **event_recorder / recovery** (`recovery_manager.py`, `main.py`) | what to resume | recover, resume, suspend on SIGTERM | what each outage interrupts: recordings, drawings, publishes |
| **event_recorder / GPS trigger monitor** (`trigger_monitor.py`) | per monitor: state, timers, the recording it started | position messages, start and stop conditions, resume | callbacks that raise; durations by the wall clock |
| **event_recorder / publishing** (`recording_service.py`, `wordpress_publisher.py`) | jobs in memory, `post_drafts` rows, the WordPress site | publish, publish on stop, retry, upload | a lost answer, a crash between the site's write and ours, retries of a POST |
| **event_recorder / drafts, event page** (`models.py`, `event_page.py`) | `post_drafts`, kept lines | save whole or by field, page state | two devices editing at once; a line kept under a status that changes meanwhile |
| **event_recorder / live summary, clock-step repair** (`live_summary.py`, `main.py`) | running totals; two clock references | poll; the minute's check, shift | rows written on either side of the step before it is noticed |
| **event_recorder / configuration** (`config_manager.py`) | the events in force | choose at start, look each minute | the clock is wrong until it is put right; an editor caught half way |
| **enchantee_racing** (`engine/`, `store.py`, `app.py`, `mqtt_client.py`) | one race, its trail, its events, a waypoint, latest readings | hooters, marks, shorten, undo, every fix; drains | every device's buttons and every fix around one lock; a choice of course that is several sections; a page that asks since a number |
| **emon_live** (`derived.py`, `banks.py`, `supply.py`, ...) | feeds of the day, kept answers | reading, roll, rebuild; answer a poll | a start that rebuilds while readings come; many screens at the turn of a window |
| **pyEmon/pyemonlib, bridges** | settings in force, operators of feeds | decode, feed, reload, reconnect | old packets relayed, a node that restarts, a file read in the middle of its save |
| **emon_settings_web** | the settings files | save | under both readers |
| web interface, post rendering | none of their own | HTTP routes; HTML | thin layers over the above |
| EmonShared, sketches, C++ relays | radio packets | pack, relay, dedupe | seen here by their effect only |
| ui, grafana, provisioning, docs | - | - | no program state to model |

### How the recorder's parts meet

```
 MQTT -> paho thread --OnMessage--> buffer --flush--> recording_data
 MQTT -> trigger thread --_check_triggers--> start / stop  \
 browser -> Flask threads -- start / stop / delete / process } RecordingService
 SIGTERM -> main thread -- suspend_all, shutdown            /
 start: recover -> connect -> resume -> web interface -> main loop (60 s:
        clock step, configuration, publish_pending)
```

`recordings_lock` makes a message, the start of a recording and each half of a
stop atomic; `buffer.lock` makes a flush atomic; nothing covers a whole stop,
and nothing covers "is it active?" with what follows from the answer.

The other services are simpler: each has one lock (`Store._lock`,
`LiveState.lock`, one of `banks.Banks` per period), paho's network thread under
it and Flask's threads beside it. What is hard there is what happens *between*
two sections of the lock, and what an answer that was begun in one still shows
in the next.

### What would make it correct

* rows: every message taken is stored exactly once, or died in memory with the
  process; the count shown is the number of rows; what is exported, summed up
  and shown is what was recorded, whatever the clock did;
* life: a recording is recorded exactly while it is active, whoever starts,
  stops, deletes and resumes it; an end once given stands; what an outage
  interrupts carries on or is ended; what a recording asks for, it hears;
* artefacts: "fresh" shows the whole recording, and what the last drawing drew;
  "processing" has somebody at it;
* post: a recording is one post for its whole life; what was asked to be
  published is, or says why not; a file goes up whole and once; no device's edit
  undoes another's;
* triggers: nothing is triggered before its time, a sail once recorded is
  recorded to its end, and every triggered recording has the monitor that will
  stop it;
* the past: a database of an older release loses nothing by being opened;
* race: the course is the one chosen, a finish or rounding is earned on the
  water, the gun goes by the clock, each event goes out once, the page draws no
  track that was not sailed;
* live: totals are of their own period, every screen has the answer of its
  window, supply and demand balance, a counter's day survives its node.

## 2. The modules

| Module | Models | Kind |
|---|---|---|
| `Database` | `models.py`: the recordings and their rows, one step per transaction | state, operators |
| `DataRecorder` | `data_recorder.py`: buffer, entries, the three parts of a stop | state, actions |
| `RecordingService` | the service over both: start, stop, delete, process, suspend, recover, resume, crash | specification |
| `RecordingProperties`, `RecordingService_proofs` | what it promises; `IInv` and the theorems | properties, proofs |
| `PostLife` | what publishing promises of the recording's post | abstract specification |
| `Publishing` | one recording's publish jobs, publish on stop, `publish_pending`, the retries of a request, recovery, and the site | specification |
| `PublishingProperties`, `Publishing_proofs` | what it promises, and implements, with the symmetry its runs use; `IInv`, `CalmInv` and the theorems; and `BridgeInv`, with the two about `Bridge` | properties, proofs |
| `Uploads` | one file's way into the media library and the post | specification |
| `GPSTrigger` | one monitor, fix by fix: both kinds of start and of stop condition, and what it promises | specification |
| `Config` | which file of events is in force, and the monitors made of it | specification |
| `GPSTrigger_proofs` | `IInv` and `ConfigInv`, and the theorems about `GPSTrigger` and `Config` | proofs |
| `TriggeredRecordings`, `TriggeredRecordings_proofs` | the recordings of one event: monitor, callbacks, crew, main's resume, and what they promise, with `IInv` and `SailInv`; the theorems | specification, proofs |
| `Drafts`, `Drafts_proofs` | one draft, saved whole and by field from two devices; `DraftInv`, `PageInv` and `DrawingInv`, and the theorems about the draft, `EventPage` and `Drawing` | specification, proofs |
| `ClockStep` | the repair of a clock step, and the running totals of the live summary | specification |
| `Charts`, `Drawing` | which charts a recording is drawn as; drawings, photos and their rows | operators; specification |
| `Tracks` | the exports, attitude and statistics made of the rows | specification |
| `Subscriptions` | filters, subscriptions, the lost connection, the matcher | specification |
| `EventPage` | which recording a page opens, its picker, its kept lines | specification |
| `Migration` | `_migrate_database` over every older file, with power cuts between its transactions | specification |
| `Recorder_proofs` | `ClockInv`, `UploadsInv`, `MigrationInv` and `HearingInv`, and the theorems about `ClockStep`, `Uploads`, `Migration` and `Subscriptions` | proofs |
| `MCRecorder` | what goes on around a recording (`TriggeredRecordings` to `Migration`, and `Uploads`), for TLC | model |
| `RaceEngine` | `engine/race.py`, `engine/waypoint.py`: the race as pure functions | operators |
| `RaceApp` | the race under every device and every fix | specification |
| `RaceEvents` | the queue of events and its drains | specification |
| `Race_proofs` | `ChoiceInv`, `RaceInv`, `EventsInv`, `WaypointInv` and `CoursesInv`, and the theorems about the race, its events, the waypoint and the documents | proofs |
| `MCRace` | `RaceApp`, `RaceEvents`, `RaceWaypoint` and `Courses`, for TLC | model |
| `RaceTrail`, `RaceWaypoint`, `Hud`, `Courses` | the day's trail and the page that draws it; the waypoint beside a choice of course; the latest readings and their age; the documents courses are made of | specifications |
| `MCPosition` | `RaceTrail`, `Hud`, `GPSTrigger` and `Config`, for TLC | model |
| `FeedOperators`, `FeedCounter` | `emon_feed.py`: the operators that add up a feed; a counter's day under relays, corruption and restarts | operators; specification |
| `LiveDerived` | `emon_live` from the broker to the page, with rolls and rebuilds | specification |
| `LiveCache`, `LiveSupply` | answers kept for many screens; supply to demand in slices | specifications |
| `SettingsFiles` | which settings are in force, for two readers of one directory | specification |
| `Decoder`, `Bridge` | what a line becomes; a line on its way to broker and Influx | operators; specification |
| `Shown_proofs` | `CacheInv`, `SupplyInv`, `CounterInv`, `LiveInv`, `HudInv` and `TrailInv`, and the theorems about `LiveCache`, `LiveSupply`, `FeedCounter`, `LiveDerived`, `Hud` and `RaceTrail` | proofs |
| `MCLive` | `LiveDerived`, `LiveCache`, `LiveSupply`, `FeedCounter` and `Bridge`, for TLC | model |

`RecordingService` EXTENDS `DataRecorder` EXTENDS `Database`, and composes
them: its actions are the calls that cross all three. `PublishingProperties`
instantiates `PostLife` with the refinement mapping `Shown`. `RaceApp` EXTENDS
`RaceEngine` and `LiveDerived` EXTENDS `FeedOperators`, and put threads, restarts
and lost answers around those pure functions; `Drawing` EXTENDS `Charts`, and
`Bridge` EXTENDS `SettingsFiles` and `Decoder`, in the same way. `GPSTrigger` and
`TriggeredRecordings` are two views of the monitor: the first has all of its
timing and none of the threads, the second all of the threads and, of the
timing, only that a start and a stop come about in their time.

An MC module that holds several specifications runs one of them per behaviour:
`part` is chosen in the initial state and never changes, the variables of the
others stand still, and each specification keeps its own fairness. Nothing is
shared, so this is the sum of the runs it stands for.

Operators named after a bug (`FlushBufferDropsOnError`, `ResumeNextGivesUp`, ...)
are mutants: each stands before the definition it would replace, and shows that
the property it is paired with in `PROJECT.json` would notice that bug. No
specification uses them.

### State and code

`status`, `artefacts` and `endedBy` are columns of `recordings` (`endedBy` says
who wrote `end_time`, which is how two different end times are told apart);
`stored` counts a recording's rows. `entry` and `count` are
`DataRecorder.active_recordings`, `buffered` is `MessageBuffer.buffer`. A thread
is somewhere in a call: `op` says which, `rec` on what, `pc` where. `phase` and
`todo` are the main thread's. `accepted`, `lost`, `early`, `stopError` and
`crossed` are history: messages ever taken, rows a dying process took along,
recordings ended before the recorder had them, recordings a stop of which raised,
and recordings whose end and a drawing of theirs missed each other (section 6).

Every step is what the code does under one lock or in one transaction. So
`stop` is: the check of the status (`Stop`), the three parts of
`stop_recording` (`StopMark`, `StopFlush`, `StopRemove`), and the writes of
`_end` (`EndStatus`, `EndArtefacts`, `EndStale`). A write under `locked` raises,
and the exception goes where the code sends it: out of a stop, into the log of
a flush, or through `_resume_recordings` out of the process.

Abstractions, all of them on data: rows are counted and not told apart; topics
are in `Subscriptions`, so a message may match any set of the enabled recordings; time limits
are nondeterministic (a flush may be due at any message; any active recording
may have been silent for six hours at a recovery); a drawing reads its rows at
one moment. What publishing does when a recording stops is in `Publishing`; two
recordings of one event at a resume are in `TriggeredRecordings`.

**Publishing.** `status`, `postState`, `postId`, `link` and `wanted` are columns
(`wp_draft` counts as published: whether the post is a draft or public is data).
The job's thread is at `jpc`, with the post it updates in `target` and the
site's answer in `got`; `stopper`, `pending` and `asking` say where the stop,
the main loop and a request are between their look and their write. Of the site
there are the posts that are not in the trash (`live`) and those last written in
wp-admin (`theirs`). The comparison of `modified_gmt` with `wp_modified` is a
question about who has changed the post since, so the model keeps that:
`sinceKnown` since the value we stored, `sinceGot` since the answer the job
holds. `unheard` (posts whose making was not learned of) and `owed` (a request
not yet answered) are history. An id nothing names any more may be used for a
new post, which keeps `Post` small. Not in it: a post trashed and then restored,
two edits in one second of `modified_gmt`, the deletion of the recording during
its publish, and everything about rendering; an upload is in `Uploads`.

**Triggers.** In `GPSTrigger` a place is abstract and has distances; times are
ages at the last fix, because every use of a time in the code is a difference of
two readings of the clock. `config` never changes. `heldFor`, `steady` and
`sustained` are history: how long the condition has really been met, whether
the clock was left alone meanwhile, and what stood behind the last change of
state; `beat` turns with each fix so that a fix which changes nothing is still a
step. In `TriggeredRecordings` a recording's number is its start time;
`monitored` says whether the event still is in the configuration after a
restart; `owed`, `unstopped` and `early` are history: a sail a recording was made of,
recordings a stop of which raised, and a start that fired before main had resumed
all, as the monitors run before the resume (`main.py:198`). A clean shutdown is an outage here, since
what it leaves in the database is the same.

**A clock put right.** Two ways of telling time go through `ClockStep`,
`EventPage` and `Config`: the time that passes (`now` or `passed`, the monotonic
clock), and what the wall clock is off by. A row keeps both, so that "shifted right" can be
said of it. `slack` is history: a step below the threshold (`main.py:504`) moves
the reference and no row, so what such steps add up to is how far apart the rows
of one recording may be. `astray` is history too: fixes no repair can be right
about.

In `Config` an unscanned clock is a number no clock says. `loadedAt`, `waiting`
and `overlooked` are history: when what is in force was loaded, the file the last
look left waiting, and the files saved under a date already scanned.

**Drawings and exports.** In `Charts` a topic is a path or an envelope's parts,
and a title its words; what an operator returns is the list of charts. A word is
written in the name of a file as `Lower` has it, in lower case and, where it is only
punctuation, not at all, so that two titles may be one stem as in `_title_to_stem`:
in the run the wind's speed goes by "Wind speed" of an envelope and "Wind Speed" of
a path. `Drawing` keeps for each stem what its picture shows, so "fresh" can be
compared with what the last drawing drew. `Tracks` has places on a line and the
number of a row for its value: joins, gaps and the choice of the nearest reading
are kept, metres and degrees are not.

**A draft.** `row` is the stored draft with the revision of each field,
`recording` the title and description that are the recording's own and are
written through; a device's save is the steps its transactions are, and
`accepted` is what was last answered "saved".

**A database of an older release.** `disk` and `work` differ as long as a
transaction is open; which statements open one, and which commit by themselves,
is sqlite3's and is modelled as such.

**The race.** A state of `RaceEngine` is the dataclass of `engine/race.py` with
positions on a small grid; its functions return the new state and the events.
`RaceApp` holds one state, and every section of `Store._lock` is one step. A
choice of a course is the sections `api_select` makes of it.

**emon_live and the bridge.** The counter of `LiveDerived` counts one a unit of
time, so a reading is its feed and its time and a total can be compared with what
its period should hold; a start replays the rows it read time by time. `FeedCounter` has the node's own count beside what
`DailyDelta` makes of it. In `LiveCache` an answer keeps when it was asked for
and where its window began. `LiveSupply` goes through the slices of a day one by
one: of each series it keeps the last bucket (`solar`, `counter`), as `rises` and
`held` do, and of the night what `_export` sums up; of the site it has one circuit,
with a battery of two banks. In `SettingsFiles` a file is the moment it is named
for, and what it says is good, empty, or broken.

## 3. The runs

Each run asks one question. The bounds are in its cfg, or, where a module is
instantiated, in the INSTANCE of its MC module; a counter's bound is a guard of
the action that would pass it, and has a CONSTANT of its own.

| Run | Shows | Bounds, and why they are enough |
|---|---|---|
| `lifecycle` | `RowsConserved`, `CountIsTrue`, `SilentOnceEnded`, `ActiveIsHeard`, `FreshIsWhole`, `StoppedHasNoOrphan` | one recording, the trigger, main, one request, one worker; two messages (a flush may be due at either, so a drawing in progress can show the first row and not the second), one outage, one lock, drawing at any time. That is one of each actor a recording can meet at once; recordings share only the buffer and the lock, and what is about those is proved for any number of everything |
| `liveness` | `StopEndsIt`, `InterruptedIsTakenUp` | the same, fair, with one message, no lock, and drawings of what has stopped, none of which a stop waits for; the request, the trigger and the shutdown stop at once |
| `publishing` | `PostsAreKnown` | three posts (one known, one answered, one new), a request tried twice, every fault at once: lost answers, power cuts, locks, wp-admin at any time |
| `publishing_promise` | `KeepsPromise` | three posts; no fault, and wp-admin left alone between comparison and update, without which it fails (section 6) |
| `publishing_settled` | `PublishingIsAlive`, `AskedIsSettled` | two posts, power cuts and a boat out of range as often as they like |
| `position` | monitor: `TriggersAreSustained`, `OutingsAreRecorded`; its events: `ConfigIsInForce`; display: `PageIsTheTrack`, `ShownIsCurrent` | seven places on a line, durations of three and four units with gaps of one or two, two corrections of the clock by 3 either way, two outages; files dated 1 and 3, a clock right or three days behind and set once, four units of time with a day of three, two saves, one start; a trail of two points, four fixes kept, a day of two units and one restart, so it is cut, rolled and numbered afresh; a reading during an answer |
| `recorder` | `ActiveHasTrigger`, `SailIsRecorded`, `HomeEndsIt`; `RowsAndTotalsAgree`; `FieldIsLastSaved`; `FreshIsTheLastDrawing`; `WholeAndSentOnce`; `MigrationKeepsAll`; `TracksAreTheRecording`; `EachHearsItsOwn`; `PageIsTrue` | three recordings of one event (two may be left to resume and a third start), two outages; a clock right, off by less than the threshold, and off by more, stepped twice, three fixes, one restart; two devices, a field written through and one not, two edits; nine topics, two drawings by one thread, or two at once by two and a third after them; two contents of a file, two tries, three attachments; two power cuts; three rows, a clock put back once; two recordings of overlapping filters, two lost connections; two recordings and one request, one recording and a step, one recording and two requests |
| `race` | `CourseIsTheOneChosen`, `EndsAreEarned`, `StartIsNotMissed`; `EventsAreConserved`, `EventsGoOut`; `WaypointIsReached`; `CoursesAreRaceable` | one device, two courses of one mark and of two, places on either side of the line, and two seconds: enough for a start, a breach, a rounding, a shortening and a finish in every order. Four events, a queue of two, two threads. Two devices that choose, a waypoint in one of three places, two of them near each other. Two courses with any two slips |
| `live` | `TotalsAreOfTheirPeriods`, `AnswersAreShared`, `SliceBalances`, `CountsTheDay`, `LinesAreTold` | a day of four units, gaps bridged up to two, and a start on either side of its end; three screens at the turn of a window; two slices, a bucket missing or not, two banks each charging, discharging or idle; a node that counts to nine over two days, with each kind of disturbance, three readings apart; every node type under a complete and a partial file, a save and a lost connection |
| `resume_race`, `later`, `migration` | a finding each (section 6) | the smallest that shows it |

A type invariant stands in each proved module and is proved there, which is why
no run spends its time on it.

`PROJECT.json` pairs every property of a passing run with a mutant: a change of
one definition, as a plausible bug would make it, with which that run fails.

What the properties are about, beyond the runs' one-line answers:

* `RowsConserved` and `CountIsTrue` relate the database, the buffer and the
  in-memory counts. A failed flush, a stop's flush, two stops of one recording,
  a deletion and an outage each move rows or counts, and must do so together.
* `SilentOnceEnded` and `ActiveIsHeard` say that the recorder and the database
  agree on who is recording, except while somebody is in the middle of making
  them agree. Two exceptions are named by history variables and are findings or
  divergences: `early` and `stopError`.
* `KeepsPromise` is a refinement: `Publishing` implements `PostLife`, in which
  there is one post and a step of ours never replaces the crew's work.
* `OutingsAreRecorded` is about a boat that stays where she is, and one that is
  gone for good; the anchor that moves with her must follow for the first, and
  the timer must not start afresh at each fix for the second.
* `RowsAndTotalsAgree`: after a step is repaired the rows of a recording are of
  one clock, to within what steps below the threshold add up to, and the running
  totals are those of its track.
* `FreshIsTheLastDrawing` is about what an earlier drawing, with other settings or
  beside another, left behind: files and rows are exactly those of the last one,
  which of the charts that go to one file leaves the last, and a row of each.
* `TracksAreTheRecording` compares each export with a definition over the set of
  rows, whatever order they came in.
* `EachHearsItsOwn` keeps three sets in agreement: what is wanted, what was
  asked for, what the broker serves; and compares the second matching of a
  message with MQTT's definition.
* `PageIsTrue` says that a worked-out line is of its recording as it is, or was a
  moment ago; that what runs can be chosen; and what the page opens.
* `ConfigIsInForce` is about the clock: the newest file due is in force by the
  second look that finds it, however wrong the clock was before the first. Two
  looks may both come too soon only where they are a day apart or the clock is
  set between them, so rounds of the main loop are shorter than a day
  (`TimePasses`) and a setting of the clock begins the count again.
* `EndsAreEarned` is about a leg's state that belonged to another leg: no
  rounding, breach or finish is credited to where the boat was before it could
  count. `StartIsNotMissed` is about a gun that goes when no fix comes.
* `PageIsTheTrack` says that the line the page draws is a run of kept fixes, with
  nothing missing in its middle, through lost answers, reloads and restarts.
* `CoursesAreRaceable` compares what is served after two slips of an editor's
  hand with what can be raced, in both directions: no bad course, and no good one
  lost to a slip elsewhere.
* `TotalsAreOfTheirPeriods` is about a start that rebuilds while retained and late
  readings come in and midnight passes.
* `CountsTheDay` compares a counter's day with what its node counted.

## 4. Fairness

* **Threads** (`ThreadStep(t)`, `WorkerStep(w)`, `JobStep`, `StopStep`,
  `TriggerStep`, `CrewStep`): the operating system runs them, and a wait for the
  database's lock ends in a timeout that raises. Weak fairness of each thread's
  steps taken together. A network call that never returns would break it; the
  publisher's requests have timeouts.
* **The main loop** (`MainStep`, `PendingStep`, `PendingWaited`): it comes round
  each minute (`main.py:547`), and time passes.
* **Restart** (part of `MainStep`; `Restart`): `restart: unless-stopped`
  (`event_recorder/tests/docker-compose.example.yml:37`). Only the restart is
  fair. Nothing says that it stays up: the properties that need that say so.
* **Unlock**: another writer of the database lets go of it.
* **Fixes** (`Fixes`, `StartFires`, `StopFires`): a GPS that goes on giving
  fixes. Without fixes a monitor does nothing, and the code has no timeout for
  it.
* **The race** (`Poll`, `Tick`): a page is open and asks every second, and time
  passes. Fixes and buttons are not fair: the gun must not need them. Of its
  events, each thread that drains goes on, and a page's poll is one
  (`EventsFairness`).
* No fairness of requests, of messages other than fixes, of the crew, or of the
  site. `AskedIsSettled` supposes in so many words that the site stays within
  reach, and `ConfigIsInForce` needs no fairness: it bounds what two looks may
  leave undone.

## 5. The proofs

All theorems hold for any sets of recordings, threads, workers, posts, places,
events, devices, screens and fields, and any bounds; the assumptions are the named
`ASSUME`s of the modules. Those say that the constants have their types, that the
special values are none of the others, and, where a setting is a constant, what
its setting is known to be: a threshold is positive, a course has a leg before its
last, a pattern is not empty. `CounterAssumption` says more, and why is below.

**RecordingService_proofs** has three invariants, each on top of the one before.
`IInv` gives `TypeIsCorrect`, `RowsAreConserved`, `CountsAreTrue` and
`EndedStaysSilent`.
`CountIsTrue` is not inductive: it is the step that
starts an entry that must find the right number of rows, so one has to know
that a recording about to begin has none (`BeginsAlone`), that one to be resumed
has not been touched since recovery counted (`TodoIsUntouched`), and that memory
is empty while the process is down. `SilentOnceEnded` needs that a stop past its
first step has already silenced the recording (`StopperSilences`) and that
nobody is about to give it to the recorder again. The proof goes action by
action, and the stop's steps share lemmas about what a flush conserves.
`HeardInv` gives `ActiveStaysHeard`: an active recording the recorder does not
have is still to be resumed, or in the hands of a thread that will take it up or
end it, and only a stop that ends it switches it off while the service is up.
`CalmInv` holds where the database never locks (`NoLocks`), and gives
`FreshStaysWhole`, `StoppedStaysAttended` and `StoppedStaysSaved`. Its heart is a
mutual dependence: no flush fails because what is being deleted has ended and so
has nothing buffered (`RowsAreSaved`), and that is so because the flush of its stop
did not fail. So what is drawn after the end is whole, and what was drawn before it
is not called fresh, unless its stop has still to look (`DrawnIsWhole`). With locks
the third is false (the rows of a stop's flush that failed on one are stored later);
the first two hold in the run `lifecycle`, whose locks `crossed` notes, and are not
proved there.

**Publishing_proofs** has two invariants. `IInv` holds with every fault and gives
`PostsAreKnownThroughFaults`: what a job holds between its look at the site, its
POST and its writes is the post it looked up, or a new one where there was none.
`CalmInv` adds what holds when nothing fails (`NoFaults`): there is one post, an
edit by the crew is noticed at the next look, and a job about to update has
seen none. From it `PromiseIsKept` shows the refinement: initial states map to
initial states of `PostLife`, and every step to a step of it or to a stutter.
`PublishingStaysAlive` (from `AliveInv`: the word `publishing` is only there from
the mark of a job to its result) needs that the database never locks and that
nothing is published in progress, as in the run that checks it;
`AskedStaysAsked` needs neither.

`BridgeKeeps` and `SettingsAreTold`, in the same module, are about `Bridge`, and
give two of the three parts of `LinesAreTold` for any files, lines and intervals:
`SettingsAreOfTheTime` and `ConfigIsTold`. Their invariant is `BridgeInv`. What a
process last went by is the file in force, of the files it saw (`GoneByTheRule`);
a look that finds no change keeps that, as the file is the one it would take, and
a load does, as it lists the directory again. Between the two steps of
`on_connect` there is a connection, and what is about to be told is still in
force if no settings were loaded since (`TellingIsOfNow`), which is what makes
`ConfigIsTold` inductive. `BridgeIsSet` supposes of the constants that the moments
files are named for are bounded, and that the text that says nothing is none of
those that say something. The third part, `EnvelopesAreWhole`, is a computation
over the settings, and stays with TLC.

**GPSTrigger_proofs** proves `TypesAreKept` and `OnlySustainedTriggers`, the
latter through `TimerIsTrue`: a running timer is a lower bound of how long the
condition has been met, as long as the clock is left alone. `NoneLeftOver` is
what makes that inductive: a timer of the other state, or of before an arming,
could otherwise be taken for this one's. `ConfigInForce` proves `ConfigIsInForce`
from `ConfigInv`: a file dated before the last scan came too late for it or gave
way to the file in force, which was due when it was loaded (`Accounted`); and a
file waits only at a look that came too soon (`WaitsOnce`). Two looks a round
apart are not both too soon, by the arithmetic of what is left after whole days
(`NotTwiceInARound`). That a set of dates has a latest is drawn from the numbers'
being well founded (`Greatest`): dates have a last one, `LastDate`.

**TriggeredRecordings_proofs** proves `TypesAreKept`, `TriggerIsKept` and
`SailStaysRecorded`. `ActiveHasTrigger` speaks of quiet moments only;
`SoundIsMinded` is what it becomes in the middle of a start, a stop or a resume:
an active recording is still to be resumed, or held by the monitor, or in the
hands of the trigger. The other parts of `IInv` say who may start or hand back
one, so that there are never two. They hold as long as no start has fired before
main had resumed all (`early`); such a start is forgotten when the process ends,
because nothing of it but a status outlives the process (`DieKeeps`). `SailInv` adds what a sail needs: which
recording it is of (`Sailing`: the one held, or the newest of those still to be
resumed), that a resume carries exactly that one over (`ResumeCarries`), that an
outage leaves it active (`LeftActive`), and that no crew stop under way is of it.

**Drafts_proofs** proves `DraftsAreSound`, that `DraftInv` is inductive, and
`NoSaveIsUndone` from it. A save is several transactions, so what matters is what
a device still relies on between them: `ReadIsCurrent` says that the copy it is
about to write over or into is up to date *if* the compare-and-set will let it,
and `BaseWasThere` that no base revision is of the future, which is what makes
equal revisions mean equal drafts. `PageTrue` proves `PageIsTrue` from `PageInv`. What is kept, and what a request holds between its steps, is an answer worked out of
a recording at a known moment (`IsOf`), and the recording has since only gone on:
time passes, what has stopped stays so and gets rows only late, new rows are of now
(`WorldGoesOn`). What the page opens and
what its picker offers is drawn from the set of recordings by rank, so that a first
one exists is again the numbers' being well founded.
`LastDrawingIsThere` gives all of `FreshIsTheLastDrawing` but what `Charts` works out:
`IsWhatWasDrawn`, `IsWhatWasNoted`, `PhotosAreKept`, and that the plan is `Plan` of what
was recorded. In `DrawingInv` at most one thread draws while no drawings overlap
(`OneDraws`), what it has left is the end of its plan, what it drew and noted is before
that, and the files and rows there are are those charts' (`IsUnderWay`). Titles are
any, and several may go to one file: the chart drawn next is numbered above all that
were, so its picture is now the last of its file's and its row one more
(`OneMoreSharer`). Of the plans the theorems take only that they are sequences
(`PlansAreSequences`), which is the form of what `Charts` builds by sorts and folds the
provers cannot unfold; TLC evaluates it of the run's (`PlansAreMade`).

**Race_proofs** is about every line, course, set of marks and fixes
(`RaceAppAssumption`, and `RaceSettingsAssumption`: places and the ends of the
line are points of a grid, a course has a leg before its last). Its first half
says of each function of `RaceEngine` what state and events it returns, one lemma
each; the rest is by these lemmas alone. `RaceTypeOK` has one part that is not a
matter of form: the count of fixes astern stays below the number that ends a leg,
since the fix that reaches it ends it. `CourseChosen` comes from `ChoiceInv`:
while the last choice began with none under way, no other is, and whatever it has
put in is there. `EndsEarned` comes from `RaceInv`, which has what the properties
about steps need of the state before the step: the side the finish is detected
from is the first the boat was seen on (`FinishSideIsFresh`), and an armed leg had
its approach (`ApproachIsKnown`). Each button either leaves leg and finish what
they were or forgets what was known of them, and that is the lemma `ApplyInv`.
`EventsConserved` and `OldestFirst` come from `EventsInv`, for any number of
threads and any bound: a thread's hands are empty when it drains
(`DrainsEmptyHanded`), or what it held would be in no place, and what is queued
and held is in order (`HandsInOrder`), or a full queue would not lose its oldest.
`WaypointReached` comes from `WaypointInv`: a waypoint has itself counted what the
boat did since it was dropped, whoever dropped it and whatever was chosen meanwhile.
`CoursesRaceable` proves `CoursesAreRaceable` for any documents and any number of
edits, from `CoursesInv`: what is served is what the loader makes of the documents
it last read. The rest is about one pass of the loader: a course without an error
of its own can be raced (`FaultlessCourse`), and the errors of a course are those it
would have if it stood alone, and that its id was taken (`OwnErrors`,
`ErrorsOfACourse`), so a slip in one course cannot cost another. The proof
found that this had been stated too broadly: a warning names the id of its course,
and where two documents share an id one fault is two findings. `OneFaultOneFinding`
is now about what one course is told.

**Recorder_proofs** has an invariant for each of four modules.
`OneClock` proves `RowsAndTotalsAgree` from `ClockInv`. Between the notice of a
step and its repair, stored rows are on the old scale and buffered ones on the new
(`ScaleInv`, `RowsReference`), which is why a flush in between leads astray; where
no clock stepped, fixes are stored and read in order and the totals have walked
over the first n rows, for some n (`TrackInv`). The heart of it is `ReadsTheRest`:
the rows later than the last one read, in the order of their times, are then the
rest of the table. The proof found that the property did not hold as it was first
stated: a step below the threshold moves the reference and no row, and the offsets
of the run had been too coarse to show it. `slack` says how much that can be, and
the run's offsets now have such a step.
`PostedWholeSentOnce` needs one fact more than the property: a publish that is
about to send, and was not led astray, has found nothing (`SoughtInVain`).
`KeptThroughMigration` proves `MigrationKeepsAll` where no outage falls between
what one start commits (`~AnyMoment`; with it the property is false, which is the
run `migration`). `MigrationInv` tells a first start from a later one: a first one
has, at each of its parts, the old file as far as it has been moved (`InParts`),
and a file a start came through (`Done`) is changed by no later start, in any
part. What a recording was listed as goes through the split of its status and
post (`SplitsWell`), for every word an older release had.
`EachHears` proves `EachHearsItsOwn` from `HearingInv`: over a link that holds, the
broker serves exactly what the recordings need, and nothing once it is lost
(`BrokerServes`). The part about a message is about every pattern and every topic that may be published, a topic being without
wildcards: the matcher reads both from the left, as MQTT's definition does, and
they differ where a `+` stands before the `#`.

**Shown_proofs** has an invariant for each of six modules, which share no state.
`AnswersAreInTheirWindow` and `AskedOnce` come from `CacheInv`: what is kept is of
the window it will be compared with, and who asks Influx holds the lock and found
nothing that would do (`WhoAsksMust`); without the lock two may ask at once.
`EverySliceBalances` comes from `SupplyInv`: whatever series came before, a slice
is five natural numbers and a house that makes up to what there is (`IsSlice`).
The rest is arithmetic over any slice: of charge, export and house in turn, what is
left of each source, and the shares of it, are never less than nothing.
`EveryDayIsCounted` proves `CountsTheDay` from `CounterInv`, in which the operator
is in one of three ways behind the node: `Settled`, `Spiked` (its last reading is
one no counter has, and the true ones are counted in `below`), or `Restarted` (the
readings of the new count are in `below`, and what was counted before them is in
the total). It is about disturbances `CONFIRM` readings apart, which is as many as
are believed and so as near as they may come; a line that is corrupted upwards reads
more than any counter; and a node that begins again has counted more than it soon
will, since a reading not below the last cannot be told from its going on.
`TotalsOfTheirPeriods` proves `TotalsAreOfTheirPeriods` from `LiveInv`: each operator
is what the readings it was given make of it. For each of them that is one
definition (`TodayIs`, `NightIs` with `NightHolds`, `EnergyIs`), with one lemma each
for what a reading, a tick and the passing of time do to it. They rest on one fact
about `on_value`: a reading no newer than the last of its feed is dropped, so those
that pass come in order, and a period is never left and entered again by a reading;
what the broker brings again after a start changes nothing. A start replays what it
read time by time, and that the replay is right is proved by induction over the times
(`ReplayIs`); that it reads as far back as midnight is `ReadsToday`. The energy counts
units of time between two readings (`Units`), since a sum over a set cannot be
unfolded here and the number of elements of an interval can. The night is left out once
a reading came after a tick past it (`late`), and for the other totals no such
exception is needed.
`ShownAsOldAsItIs` comes from `HudInv`: an answer works on a copy, and the copy is
of one moment until something more comes in (`SnapshotIsThen`), so the parts that
are read later may only be fresher. `PageTracks` proves `PageIsTheTrack`, and
`Contiguous` what `Tail_` relies on, from `TrailInv`: the numbers of the trail are
without a gap (`TrailIsNumbered`), the page has the points up to the one it asks
after (`PageFollows`), and an answer on its way still joins what is drawn, or
replaces it (`AnswerFollows`), although the server may have pruned, rolled or
started again since.

**Only model-checked:** `StopEndsIt`, `InterruptedIsTakenUp`, `AskedIsSettled`,
`OutingsAreRecorded`, `HomeEndsIt`, `StartIsNotMissed` and `EventsGoOut` are
liveness under fairness, which is beyond the proof system's reach, as is ENABLED.
`TracksAreTheRecording`, the plans of `FreshIsTheLastDrawing` (`EveryFeedIsOnAChart`
and `TitlesAreApart`) and the envelopes of `LinesAreTold` stay with TLC:
`Tracks`, `Charts` and `Decoder` work out what they give by folds, sorts and
recursive functions over sequences and over sets of names. A theorem about one of
those for every input is an induction over data, for which the installed provers
cannot use the library's theorems; what was done instead where a proof needed
one induction over numbers (`AllNumbers`, which has a least counterexample contradict
itself) would be needed there at every layer. Of `TrailIsContiguous`
and `AnswerIsOfItsWindow` the second is checked as part of `AnswersAreShared`, and
the first stands behind `PageIsTheTrack`.

## 6. Where the code and what is said of it part

Three runs end in a counterexample, each against a sentence of the repository:

| Run | What happens | Where |
|---|---|---|
| `later` | of two active recordings of one event the newer is ended for the older: they are read newest first | `main.py:275`, `models.py:754` against `main.py:278` |
| `resume_race` | a trigger that ends a recording between `resume_monitor` and `resume` ends it before the recorder has it, which then records on | `main.py:284` against `main.py:249` |
| `migration` | a power cut after `recordings` is made anew and before its rows are copied: the next start finds a good table, and deletes every row of the data as orphans | `models.py:195` against the requirements, line 1311 |

Other divergences were met while modelling. The models contain them; the
properties exclude them by a bound or by a named exception, given in the last
column. Lifting the exclusion makes TLC show them. A definition in that column
that no run names states what does not hold, and is there to be tried.

**The recorder**

| What happens | Where, and what is said | Excluded by |
|---|---|---|
| two stops both find a recording active, and the later end time wins | `recording_service.py:133` against `main.py:374` | no property speaks of end times |
| a recording stopped while a worker that has read its rows draws it ends fresh, with plots that stop short of its end | `recording_service.py:203` against `models.py:46` | `crossed` in `FreshIsWhole` |
| one drawn early and then ended by recovery, or by a stop whose last write meets a lock or a power cut, stays fresh | `recovery_manager.py:95` against `models.py:46` | the same |
| a crash while an active or failed recording is drawn leaves it `processing`; so does a drawing that ends on a locked database | `recovery_manager.py:117` against its comment, line 115 | `crossed` in `StoppedHasNoOrphan` |
| rows wait in the buffer for the next message, however long the feed is silent | `data_recorder.py:65` against `data_recorder.py:24` and the requirements' "5 seconds" | no property says that rows are stored in time |
| a flush that fails inside a stop goes unnoticed | `data_recorder.py:321` against the comment above it | `crossed` in `FreshIsWhole`; `StoppedIsSaved` |
| a recording deleted while it is drawn leaves plots behind | `recording_service.py:300` against line 298 | `FreshIsWhole` speaks of stopped ones |
| of two drawings at the same time, each chart is listed and posted twice, until the recording is drawn again by itself | `data_processor.py:1807` | `overlapped` in `FreshIsTheLastDrawing`; `ListedOnce` |
| titles are told apart as they are written and files are named without case and punctuation: of two automatic charts called "Wind speed" and "Wind Speed" one picture overwrites the other, and it is listed and posted twice | `data_processor.py:1242` against line 439, "No two charts may share a title. The title becomes the PNG's filename, so a repeat silently overwrites" | in the model: `IsWhatWasDrawn` has the last of a file's; `ListedOnce` |
| a chart the config declares is not told apart from an automatic one, or another declared one, of the same title, and one picture overwrites the other | `data_processor.py:817` against line 439 | `TitlesAreApart` speaks of automatic ones |
| a recording resumed on a clock that is wrong is not moved when it is put right; a shift that raises is not tried again | `main.py:155`, `main.py:519` | `ResumedIsOnOneTimescale` |
| a recording moved forward has the fixes it had walked over walked over again | `live_summary.py:81` | `WalkedOnce` |
| a line worked out of a recording is kept although rows came while it was worked out | `recording_service.py:803`, "Once stopped, the data cannot change" | `late` in `PageIsTrue`; `AlwaysOfAllRows` |
| '+' before '#' in a filter: the broker serves it, the recorder drops it | `data_recorder.py:257` | exception in `EachHearsItsOwn` |
| every subscribe makes the broker send what it retains again, recorded again as of now | `data_recorder.py:167` | rows are not told apart |
| a GPX point before the first reading of another topic gets that first, later one | `data_processor.py:1569` | stated as it is |
| a title saved by one device and a draft by another cross between the recording and its draft | `models.py:1281` | `NameIsLastSaved` |
| the newest file of events does not parse: the minute's look raises, and `publish_pending` is not tried | `main.py:553` | `PendingIsTried` |
| `events:` with nothing under it leaves no events at all | `config_manager.py` | `EventsAreKept` |
| monitors keep what they were made of, and an edit of the file in force, or a file saved under a date already scanned, is not seen until a restart | `config_manager.py:251` | `TriggersAreInForce` |

**Triggers**

| What happens | Where, and what is said | Excluded by |
|---|---|---|
| a clock put forward between two fixes counts as time the condition has held | `trigger_monitor.py:356` against the requirements, line 115 | `steady` in `TriggersAreSustained` |
| a stop of a trigger that raises leaves an active recording nothing will stop | `trigger_monitor.py:589` against the requirements, line 1733 | `unstopped` in `ActiveHasTrigger` and `HomeEndsIt` |
| a start that fires while the interrupted recordings are being resumed: the monitor is handed the older one, or the newer is ended for it, and the other of two active recordings has nobody to stop it | `main.py:198` against the requirements, line 1733 | `early` in `ActiveHasTrigger`, `SailIsRecorded`, `HomeEndsIt` and `LaterCarriesOn` |
| a start of a trigger that raises leaves the monitor triggered with no recording | `trigger_monitor.py:565` against `PROJECT_SUMMARY.md:11` | `SailIsRecorded` speaks of recordings once made |

**Publishing**

| What happens | Where, and what is said | Excluded by |
|---|---|---|
| a POST that timed out after it was carried out is sent again: two posts | `wordpress_publisher.py:151` against `recording_service.py:443` | `AnswersLost = FALSE` in `publishing_promise`, `unheard` in `PostsAreKnown` |
| a power cut between the site's creating a post and our noting it: the next publish creates another | `recording_service.py:533` against the requirements, line 1626 | the same |
| a change made in wp-admin while the files go up is overwritten | `recording_service.py:571` against line 444 | `EditAnyTime = FALSE` in `publishing_promise` |
| an update that was carried out but not noted makes every later publish be refused as edited | `recording_service.py:571` against line 550 | `Crashes`, `Locks`, `AnswersLost = FALSE` in `publishing_promise` |
| a crash during the publish of a recording in progress leaves it `publishing` | `recovery_manager.py:121` against line 115 | `PublishActive = FALSE` in `publishing_settled` |
| `publish_pending` drops a request because somebody's job has just started, which may then not reach the site | `recording_service.py:425` against the requirements, line 938 | `owed` in `AskedIsSettled` |
| a recording ended by recovery is published if that was asked for | `recording_service.py:415` against the requirements, line 940 | no property forbids it |
| a database locked when a job settles its request ends the thread, and the job runs for ever | `recording_service.py:366` against `web_interface.py:530` | `Locks = FALSE` in `publishing_settled` |
| an upload that was kept but not answered is sent again under another name | `wordpress_publisher.py:361` | `OneCopy` |

**The race, the live page and the bridge**

| What happens | Where, and what is said | Excluded by |
|---|---|---|
| after a restart the page draws the old life's trail and the new one's as one line, once the new numbers pass the old | `enchantee_racing/store.py:472` | `PageShowsOneDay` |
| a waypoint dropped between the parts of a choice of course is there beside the race | `enchantee_racing/app.py:387` against `enchantee_racing/docs/DESIGN.md:3066` | `OneTarget` |
| a slip in the lines makes the check itself raise, and one in a leg a course that is served and cannot be chosen | `enchantee_racing/engine/course.py:285`, "Never raises on bad data" | `ChosenIsSteerable`, `ValidateReturns` |
| one answer has a bearing beside a position it calls too old: its parts are of two times | `enchantee_racing/store.py:515` | `AlwaysOneRule` |
| a late reading of yesterday rolls the period back, and a total is still yesterday's after a tick past midnight | `emon_live/app.py:48` | `TotalIsTodays` |
| two fixes with a gap between them are joined across the finish, as long as the second is fresh | `enchantee_racing/engine/race.py:123` | `GapIsNotBridged` |
| what the sources made of a slice beyond what its demands took is in no link | `emon_live/supply.py:43`, "rather than hidden" | `NothingIsHidden` |
| two screens at the turn of a window both ask Influx, where no lock is held (`energy.py`) | `emon_live/app.py:82` | `Locked = TRUE` |
| a reading of a window that comes after its close opens it again, and its next close reports from there | `pyEmon/pyemonlib/emon_feed.py:710` against line 692 | `WindowIsHeld` |
| the retained settings are those of before a reload that came between the two steps of `on_connect` | `pyEmon/pyemonlib/emon_mqtt.py`, "any consumer can see every name" | `overtaken` in `LinesAreTold`; `ConfigIsAlwaysTold` |

(`ShownIsHeld` in `Uploads`, `EndTimeStands` and `OnePost` in their modules are of
the same kind. Three rising readings under half the last are not always
taken for a restart, as `emon_feed.py:517` says they are; `RestartIsBelieved` says so.)

One more thing the monitor's model showed, about a pair of conditions the example
configuration does not use: `anchor_departure` with `gps_stopped` makes a boat at
rest outside the zone start and stop recordings for as long as she lies there.

Read in the code while modelling, and not run:

* `recovery_manager.should_resume_recording` decides by position, as its docstring
  says, and nothing calls it. The requirements (line 666) have the status loop
  snapshot the recorder's entries; it queries the database.
* The SIGTERM handler (`main.py:723`) runs in the main thread between two of its
  bytecodes, and takes locks that are not reentrant. Split latitude and longitude
  topics (`trigger_monitor.py:174`) make a position of a new half and an old one.
* A power cut in the very first `init_database`, between a RENAME and its CREATE, or
  between two ALTERs leaves a database that later starts fail on. A recording
  `published` in an older release whose post is a draft at WordPress is set
  published again by a reset (`recording_service.py:283`).
* `set_timer` leaves `shortened` as it was; a nudge after the finish changes a frozen
  elapsed time; events published without a connection are lost (QoS 0); two drainers
  may publish out of order.
* A first reading of a day that is corrupt poisons the day's base
  (`emon_feed.py`); failed answers are kept for their full time; seeded values are never published.
* `emon_settings.py:117` says what is done before the earliest file, and the code does
  another thing; the delete of `emon_settings_web` iterates keys and always answers
  500; an empty file in the middle of a save clears the nodes and every line is
  dropped; an importer started with no file raises at its first line.
* `remove_photo` deletes the file before the row; a photo that fails half way leaves
  its web copy; `cleanup_old_recordings` also takes active ones.

## 7. What is not modelled

Within the event recorder: the status publisher, the command line of recovery and
its archives, the lists of suggestions and of crew, the preview, what post and
plots look like, the routes and scripts of the web interface (their calls are
actions of other modules), the SIGTERM handler's own locks, topics of half a
position, condition types the monitor does not know, and the deletion of old
recordings. Of enchantee_racing: bearings, VMG and the line-approach instruments,
the depth chart, settings of the display and its static pages. Of emon_live:
expressions, boat angles, month and year baselines, the shape of what is served.
Of pyEmon: units and scales, the logs and CSV importers but for which settings they
read by. Not at all: the firmware and `EmonShared`, the C++ relays but for what
their copies look like to a counter, Grafana and BOM scripts, the user interface,
provisioning. `PROJECT.json` lists every component with its status and reason.

## 8. What is left

| Of | What | Why it is worth it |
|---|---|---|
| `main.py:527-600, 723` | the signal handler and the locks of what it interrupts | the one deadlock the recorder may have |
| `models.py` | the deletion of old recordings beside everything else | it looks at no status |
| `src/EmonShared` | what the relay forwards and drops | `FeedCounter` supposes it |
