# A verification project for the PDC

The program is a phasor data concentrator (PDC): it connects to phasor
measurement units (PMUs) that speak IEEE C37.118, reads their time-stamped
frames, aligns them in time for a dashboard, and, if a database is there,
stores every frame.  This directory models it in TLA+ from the bytes of a
connection to the rows of the charts and of the database, checks the models
with TLC on small instances and proves with TLAPS, for all instances, what each
part must never do: nearly all the safety properties that TLC checks, and the
three refinements.

    tlc -workers 2 -config MCAligner.cfg MCAligner     # any run of the table below
    tlapm AlignerProofs.tla                            # any of the *Proofs modules

PROJECT.json lists the runs, the lines of code each definition stands for
("map"), a mutant for each property, the disagreements with comments that
were found ("findings") and the hazards the properties are for.

## 1. Inventory

| Part | State | Operations | Talks to |
|---|---|---|---|
| Aligner bank, `aligner/buffer.go` | expected PMUs, a buffer of stamped readings for each, capacity | Ingest, Add/Remove/Set/SyncExpected, SetCapacity, MinOldest, MinNewest, TakeTickWindow, PruneBefore | called by receivers (Ingest), manager callbacks (SyncExpected), capacity API, publisher |
| Publisher, `aligner/publish.go` | ruler step, next tick, generation | stepOnce in a loop, Reset, SetPeriodUs | reads the bank, pushes rows to the dashboard |
| PMU manager, `manager/manager.go` | configured receivers, live set | StartPMU, StopPMU, StopAll, markLive, markNotLive, notifyAligner | starts receivers, is called back by them, calls SyncAlignerExpected and the history |
| REST API, `api/server.go` | none | save, replace, connect, disconnect, delete | store, manager |
| PMU store, `store/store.go` | rows of `pmu_config` and their index, pool | tryConnect (schema, migration) in a loop, SavePMU, SetPMUActive, DeletePMU, Close | PostgreSQL |
| Receiver, `receiver/receiver.go` | session, CFG-change watch, backoff; the frame being read | dial, handshake (HEADER, CFG-2 retries), DATA_ON, stream, end, backoff; TCP, UDP dial, UDP listen; framing | the PMU; manager callbacks; HandleFrame |
| Pipeline, `main.go` | time zones, trace counts | HandleFrame: parse, quality, ingest, dashboard, history | all of the above |
| History, `output/history`, `output/postgres` | layout cache, quality flags; frame and event queues, batch, pool, counters | NoteProfile, NoteFrame, NoteQuality, events; writer loop, COPY, reconnect, Close | PostgreSQL; called by receivers and the manager |
| Parser, `parser/` | profile of each PMU | ParseCFG2Frame, ParseDataFrame, CRC16, SetProfile | called by receivers and HandleFrame |
| Quality check, `aligner/aligner.go` | none | Validate | called by HandleFrame |
| Dashboard state, `monitoring/conversation.go`, `eventlog.go` | queue of readings, inventory, trends, aligned batches, event ring, rate limit, subscribers | workers, RecordAlignedFrame, RecordConversation, snapshots, event stream | called by everybody, read over HTTP |
| Meters, `monitoring/*.go` | frame rates, clock offsets, latencies, diagnostics | observe, snapshot | displayed only |
| Frame capture, `output/frame_capture.go` | queue, ring ("tape"), jumps of the stamps | record, dump | called by HandleFrame, dumped over HTTP |
| Spool, sheets | files | append, replay; export | HTTP; the spool has no caller |

What is hard in it:

* **Interleaving.** Each PMU has a goroutine, the publisher another, each HTTP
  request another; the bank, the publisher, the manager and the history have a
  lock (or channel) each and nobody holds two.  Whatever is decided from one
  lock region may be stale in the next.
* **Membership callbacks** copy a set under one lock and apply it under another.
* **Sessions** end and restart at any moment: a stop can meet a receiver in its
  dial, its handshake, its stream or its backoff, and a stop may give up waiting.
* **Deadlines inside a frame** leave the reader of a stream out of step; layouts
  come from the network, and DATA is read by a layout that may be stale.
* **Lost frames** leave gaps in the stamps the aligner works on; clocks that
  are off, or change with the season, take stamps back.
* **The database** refuses, comes back, or commits and fails to say so; a
  migration may stop between any two of its statements.  Queues are bounded and
  must not block the receivers.
* **Several workers** empty one queue; clients of the event feed come, are slow
  and go.
* **Shutdown** cancels one context under everybody at once.

What makes each part correct: the *aligner* must wait for every live PMU, put
each sample in one row at most, keep each curve and the ruler going forward and
start over cleanly; the *manager* must have exactly the streaming PMUs live, one
receiver for each configured PMU, and stop what it is told to stop; the *bank's
membership* must follow the live set; the *history* must account for every
frame, keep the order of each PMU, name the right layout and shut down; a
*session* must pair its start and end, and refresh its profile; the *parser*
must read what was sent and nothing beyond; the *tape* must keep the order, the
*event feed* have no gap, the *rate meter* recover from readings out of turn; the
*store* must open migrated, and open again.

## 2. Modules

| Module | Stands for |
|---|---|
| `Aligner` | bank and publisher; one action per lock region |
| `AlignerFeeds` | the aligner under the feeds PMUs really send, with the properties that need them |
| `ChartFeed` | what the aligner promises: a feed of rows, without buffers or concurrency |
| `AlignerProofs` | theorems about `Aligner`, with its refinement of `ChartFeed`, and about `AlignerFeeds` |
| `MCAligner` | symmetry for the large run of `Aligner` |
| `Roster` | manager, REST requests, receivers as SessionSkeleton has them, SyncExpected, boot, shutdown |
| `Session` | one receiver and its PMU over TCP, UDP dial and UDP listen |
| `SessionSkeleton` | what a session promises the manager |
| `SessionProofs` | that Session implements SessionSkeleton, and decodes with the right layout |
| `Frames` | parser, CRC and quality check: operators, no state |
| `Wire` | a PMU's bytes, the framing reader and the handshake's retries around `Frames` |
| `History` | recorder, writer, their queues and the database |
| `FrameLog` | what the history promises: a log without duplicates, in order for each PMU |
| `Alerts` | the event feed: rate limit, ring, subscribers |
| `Meters` | the frame rate meter, and a stream that reaches it out of order |
| `Dashboard`, `MCDashboard` | HandleFrame, the tape and the inventory; composes `Frames`, `Alerts` and `Meters` |
| `Store` | the address book: connecting, migrating, requests, Close, crashes |
| `FoldProofs` | induction over the natural numbers, and what a fold passes through, for the proofs about `Wire` |
| `RosterProofs`, `HistoryProofs`, `WireProofs`, `DashboardProofs`, `StoreProofs` | theorems about these modules; those of Dashboard cover `Alerts` and `Meters` |

`Roster`, `Session` and `SessionSkeleton` meet in the skeleton: Roster's
receivers take its steps, Session is proved to take no others.  `Wire` is one
handshake and stream of Session, byte by byte.  `Store` is what a store call of
Roster means.  The frames that History and the aligner take are those that
leave HandleFrame in `Dashboard`.

### Aligner

A reading is its time stamp; a buffer is a set of stamps (`byTS`).  `pub` holds
the locals of the `stepOnce` in progress and where it is; each value of `pub.pc`
names the lock region that comes next:

    idle -> names -> (setPeriod) -> start -> anchor -> jump -> land -> head
         -> take -> emit -> prune -> advance -> idle

`ReadRuler` copies the ruler under `p.mu`, `ReadNames` asks the bank for the
expected PMUs and derives the step from their profiles, `Start`/`Anchor` choose
and store a first tick, `Jump`/`Land` move the tick to the oldest buffered
sample, `ReadHead` waits for MinNewest, `Take` is TakeTickWindow, `Emit` the
dashboard callback, `Prune` PruneBefore and `Advance` the store of the next
tick.  Everything another goroutine can do to the bank (`Ingest`, `AddExpected`,
`RemoveExpected`, `SetExpected`, `SetCapacity`), to the ruler (`Reset`, `Tune`)
or to the profiles (`CfgUpdate`) may happen between any two of these.
SyncExpected is a sequence of `AddExpected` and `RemoveExpected`; what it leaves
behind is checked in `Roster`.

SetExpected and with it Reset and its generation check have no caller in the
program as it stands but for the tests; they are modelled because the code
offers them and the publisher guards against them.

`hi`, `fresh` and `anchored` are history variables: the newest stamp accepted
from each PMU since it joined, who joined since the publisher last read the
head, and the generation whose samples the ruler was last anchored to.
`resetDue` counts SetExpected calls between their unlock and their callback, and
`seen` the steps a caller of PeriodUs() may still hold when it calls SetPeriodUs.

`ReadNames` reads the names and the profile of each in one action.  A change of
membership between the two is the same as one after it, because the step derived
is not used before; a profile read before and another after two updates that fall
into the same call is left out.  So are data rates above 1000 frames a second,
whose step normalizePeriodUs (publish.go:58) takes for milliseconds.

Stamps are micro-seconds in the code and small numbers here.  Every stamp is
past the first step (`AlignerAssumption`) so that tick 0 means "no tick", as in
the code, where stamps are Unix times.

### Roster

A thread is a receiver goroutine, an HTTP request or main.  `run` records every
goroutine StartPMU ever started (its PMU, its state in the session, whether its
context is cancelled), `receivers` and `live` are the manager's maps, `note` is
where each thread is in notifyAligner and SyncExpected, and `todo` what is left
of the request a caller is serving.  A request is the sequence of store and
manager calls of its handler; a store call that reports an error ends it, whether
it changed the row or not: SetPMUActive and DeletePMU run in the request's context
and may commit and lose the answer.  A row that such a call made inactive is
`unconfirmed`: inactive, but its handler returned before StopPMU.  main
starts nothing when it cannot read its list (main.go:454).  Where it refuses what it
reads (validatePMUEndpoints, main.go:458) it exits, which is left out.

The session is reduced to what the manager sees of it: dial and handshake,
onSessionStart, stream, onSessionEnd, backoff.  These are the steps of
`SessionSkeleton`, which `Session` implements.

Passing runs serve one request at a time, let main start its PMUs first and have
no stop time out; the theorems suppose less (section 4).  What happens
otherwise is in section 5.

### Session

`pc` is where Receiver.Run and its connect are: dial; `off` and `header`, the
DATA_OFF and the optional HEADER of the long handshake, which
C37118_SIMPLE_HANDSHAKE=0 chooses (`simple`) and which UDP dial does not have;
`ask` and `wait`, the
CFG-2 retry loop, which asks in SYNC version 1 and 2 by turns; `on`, DATA_ON;
`start`, onSessionStart; `stream`; `end`, endSession; `ended`, the return;
`backoff`; `done`.  The three transports share these steps, as the three connect functions
share their order; they differ in the channels.  `commands` and `wire` are the
two directions of the socket, and in listen mode `control` is the way back of
the TCP connection, which the handshake reads and drainTCPQuiet empties later.
TCP delivers in order, UDP in any order or not at all.  A write error, a read error, a
frame that cannot be read and a missed deadline are one step, ConnectFails or StreamBreaks.
`watch` is cfgChangeWatch without its clock: `clear`, `seen`, `requested`.  Of the
layouts in `unreadable` ParseCFG2Frame refuses the CFG-2: a handshake then
fails (`RefusedCfg2`), having remembered the version of its SYNC word, and a
stream goes on with its profile and its watch as they are (`MidstreamCfg2`).  A
request for CFG-2 that cannot be written is tried again by the next round of the
loop, if its connection lives that long; the model has only the last try.

The PMU is external.  The model gives it what the code relies on: it obeys
commands in the SYNC versions it speaks (any of the two, or both), answers on
the connection it was asked on, and keeps STAT bit 13 up from a change of its
layout until it has sent the new CFG-2.  Left out: CFG-2 frames nobody asked
for.  Framing is in `Wire`.

### Frames and Wire

`Frames` has the parser as operators.  A payload is a length and a function from
offsets to values, each with its size: what matters is which bytes the code
reads as what, so reading a value of another size, or from inside one, yields
garbage.  ParseCFG2Frame walks its NUM_PMU blocks with the code's four
checks of the length, parseDataWithProfile moves a cursor by the reads of the
code, in its order (`Reads`), and mapPhasorsToStandard finds the phasors for
the charts by label, then by place, then by index.  Of its last fallbacks for
IA (cfg2.go:443-450) one would need a name that begins with I and is
classified as a voltage's; that spelling is left out, and the others find what
the place has found.  Validate's cases of a reading without a stamp, which the parser does
not produce, and of a frequency that is no number are left out.  The CRC is computed on a
register of 16 bits, bit by bit.

`Wire` is a PMU that encodes its layout and its samples, a connection on which a
frame is three pieces (SYNC and size; the rest; the CRC), and readFrameTimed with
the retries around it.  A deadline may pass between any two pieces, and
what was read of the frame is then lost: the next read begins inside
it, and ends at its SYNC check or its CRC.  Where a frame that is read out of
step ends is left open, since its length is whatever the bytes there say.
`trouble` is what may go wrong in a behaviour: deadlines and a damaged frame
here and there; noise, any error of one or two bits or a burst of up to
four in a frame; a CFG-2 that breaks off at any byte; or nothing, for every
layout.  The CRC is computed, on a stamp of one or two bytes that stands for a
frame's contents.

### Dashboard, Alerts and Meters

`Dashboard` is pipeline.HandleFrame and deliverLocal, one action for each call
that another goroutine can see: parse and Validate, RecordFrameAsync,
RecordReading.  `at` is where a receiver is in it, `frame` what it works on:
garbled, from a PMU that is not synchronised, or stamped by a clock that is off,
by less than MAX_CLOCK_SKEW, by as much or by more (`Kinds`), so that any two frames may be
stamped in the wrong order; the verdict is `Frames`'.  The tape (`captureCh`, `taping`,
`tape`, `lastGap`) has one worker, the inventory (`dashboardCh`, `working`,
`lastFrame`, `totalFrames`) as many as DASHBOARD_WORKERS says.  A cancelled
context ends the workers and leaves what is queued.

`Alerts` is RecordConversation and handleConversationEvents.  An event passes
the rate limit (`recent`; `Expire` is time passing) before the bus is locked
for it (`pending`), so that two goroutines' events may be put on the bus in
either order.  A client's `step` is where its handler is: it subscribes, copies
the ring, follows its channel, and unsubscribes before its channel is closed.

`Meters` is noteUniqueStampFPS, with the snapping to DATA_RATE and the fallback
of the snapshot, and the stream of readings that feeds it: none is lost, but the
workers (`AtOnce` of them) record what they hold (`held`) in any order, and
the connection pauses anywhere.  Stamps are on the grid of the PMU's
rate, cut off to milliseconds.  `lastSteady` says of the window that closed last
that its readings were recorded in turn.

### Store

`opening` is where tryConnect is: `connect`, `schema`, `list` (the SELECT of
migrateEndpointIdentities), `migrate` (row by row, `todo`).  Each statement
commits by itself, `up` may change between any two, and `Restart` is a crash
anywhere followed by a new start.  A row that cannot take its endpoint's name
because another has it is deactivated, by a statement of its own (`blocked`).
`index` is the unique index on active endpoints; rows from before it may break
it, and then ensureSchema fails.  A behaviour begins with any rows: under
nicknames, from before, and under endpoints, as requests and earlier migrations
leave them, active and inactive; only that a row named by an endpoint has
this endpoint is supposed.  `enabled` and `shadowed` are history variables: the
endpoints that were active after the last request, and those of them whose own
row stood inactive beside the active one.

### History

One action is what the writer's loop does on one branch of its select.  `frames`
and `events` are its channels (of events only the number matters), `buf` the
batch, `pool` whether it is connected, `table` what is committed.  A frame has
its PMU, its number of arrival, the layout it was decoded with and the layout
id it was given.  `NoteProfile` may find the database unable to store a layout
at any moment, a COPY may fail before or after the commit, and a lost pool comes
back by the reconnect ticker.  EnqueueFrame sends before it counts: `tally` is
the counter a receiver has yet to bump.  The contents of events and rows are left out, and a layout's
database id is the layout itself.

## 3. Runs

| Run | Module | Bounds | Shows |
|---|---|---|---|
| align_interleavings | MCAligner | 2 PMUs, stamps 4..6, step 2, capacity 2, 2 membership changes | TypeOK, RowsAwaitEveryPMU, NoStaleTick, ChartFeedSpec |
| align_retuned | AlignerFeeds | 2 PMUs, stamps 6..9, capacities 1 and 2, steps 2, 6 and unknown | BuffersFit, CurvesRunForward, RulerNeverRewindsAStep |
| align_steady | AlignerFeeds | 2 PMUs, stamps 4..11, step 2, capacity 4 | RulerAwaitsSlowest, EverySampleCharted |
| roster | Roster | 1 PMU, 3 requests, failing store, interrupt | LiveIsStreaming, OneRunPerPMU, StoppedRunsEnd, CallersFinish |
| roster_pair | Roster | 2 PMUs, 1 request, failing store, interrupt | TypeOK, ConfiguredIsActive, LoneSyncIsExact |
| roster_stale (violation) | Roster | 2 PMUs, no request | ExpectedIsLive fails |
| session | Session | all transports, both handshakes, 2 layouts, the second readable or not, 2 attempts, 2 DATA frames under way | TypeOK, DecodedInItsLayout, SkeletonSpec, SessionsStream, RefreshedOverTCP, CancelledEnds |
| session_listen (violation) | Session | listen only, 1 attempt, 1 DATA frame under way, a PMU that keeps streaming | Refreshed fails |
| history | History | 1 PMU, 2 layouts, queues of 1, batches of 2, 2 frames, 2 CFG-2 frames | TypeOK, Accounted, LayoutsFollowProfiles, FrameLogSpec, FramesLeave, ShutdownFinishes |
| wire | Wire | deadlines: 2 attempts, 4 frames; noise: 3 stamps, one frame; short CFG-2: 20 layouts; no trouble: 864 layouts of formats, 1554 of up to 4 labels | DeliveredAsSent, NothingReadBeyondEnd, FramesRoundTrip, LiveLabelsKept, CrcSeesErrors |
| dashboard | MCDashboard | 1 PMU, 2 workers, queues of 1, rings of 2, 1 client; 3 frames of 5 kinds, or 1 frame and 2 events, or 4 events, or a rate of 12 or of 1/2 for 2 windows with 4 overtakings and a pause | FeedIsSafe, TapeKeepsOrder, SteadyWindowShown, ReadingsShownOrCounted |
| store | Store | 2 endpoints, 2 nicknames, any rows, 1 crash, 2 requests | PoolsAreClosed, OpensMigrated, ComesBack |

Why the bounds are enough to be interesting.  With a step of 2 and stamps 4..6
there are samples on, between and next to ticks, ties in a window, a capacity of
2 that a third stamp overflows, and two ticks in a row; two membership changes
give a join, a leave or a reset on top of any initial membership, or a leave and
a join again.  Steps 2 and 6 put two grids on the stamps 6..9 that share a tick.
Three requests are enough for stop-start-stop sequences and for a run that
outlives two others; two PMUs are the least with which two membership callbacks
differ.  Queues of 1 and batches of 2 make both full with two frames, and two
CFG-2 frames are a layout and its change.

In `wire` two attempts are a retry after a deadline inside a frame, and four
frames a reply to each request with DATA between them.  The parser's layouts
combine both formats of each kind of value with 0 to 2 phasors and analogs, a
digital word or none, and a second block of another size: every boundary between
two kinds of values moves.  Two labels alike, a missing one and a dead channel
fit in four phasors, which is also where the code's fallback by index begins.

In `dashboard` three frames overflow a queue of one place behind a busy worker,
and two workers swap two of them; four events overflow a ring of two and a
channel of one.  Frames and events share no state but the alerts of bad frames,
so they are bounded together (`DashboardBounds`).  The kinds of frames (`DashboardKinds`)
have clocks that are off by the skew allowed, either way, and by twice as much.
At 12 frames a second four readings overtaken make a window measure
less than the rate by more than the 3 fps that are snapped, so that what was
shown before matters; two windows show the smoothed rate as well
as the first.  In `store` up to four rows may have one endpoint or two, be active
or not, and one crash on top of any number of failed attempts stops a
migration anywhere.

Two attempts of a handshake are one in each SYNC version and
leave a reply of the first under way when the second is answered; two DATA
frames under way are one before and one after that reply; the number of sessions is not bounded.

Bounded by a constant: membership changes (`MaxChurn`), requests
(`MaxRequests`), frames and CFG-2 frames of a PMU (`MaxFrames`, `MaxConfigs`),
layouts, those that may be refused, handshake attempts and DATA frames under way (`MaxLayout`,
`MayRefuse`, `MaxAttempts`, `WireSize`), frames of the PMU in Wire (`MaxSent`), frames,
events and clients of the dashboard (`Bounds`), what a frame may be (`Kinds`), what its rate meter is fed
(`Windows`, `AtOnce`, `Overtakings`, `Pauses`), crashes and requests of the
store (`MaxCrashes`, `MaxRequests`).
The sets of stamps, capacities and steps are constants as well.
Deadlock is checked in the aligner's runs; the others have a real end (the
program exits) and say CHECK_DEADLOCK FALSE.

### Fairness

* `WF(stepOnce)`: Run calls stepOnce for ever, at most 5 ms apart (align_steady),
  and each live PMU goes on sending: `WF` of its next frame.
* Receivers, requests and main are goroutines the scheduler runs: `WF` of each
  one's next step.  A stream may last for ever; one whose context is cancelled
  ends, because every read has a deadline or the context closes the connection.
* The writer's loop is one `select` over five channels; Go picks at random among
  the ready ones, which is `SF` of a branch that is ready again and again
  (frames, flush ticker, context), besides `WF` of the loop.
* A receiver's session: `WF` of its steps but for the end of a stream, which
  only a cancelled context or silence brings about; `WF` of the wait for CFG-2
  ending, because its deadline runs however much DATA there is to skip; `WF` of
  reading what arrives and of the PMU's answers.  The wait for the HEADER ends
  by its own deadline.  In `session_listen` the PMU
  keeps sending (`WF`) and some of what it sends gets through UDP (`SF`), so that
  no liveness timeout is due.
* Dashboard: `WF` of a receiver in HandleFrame, of each worker and of an event
  that is past its rate limit.  Clients, cancels and new frames may not come.
* Store: the ticker ticks and an attempt takes its next step (`WF`).  `ComesBack`
  supposes that Postgres stays up in the end and that nothing forbids the index.

## 4. What is proved

Each theorem is for all values of the constants that satisfy the module's named
assumptions, and so for all bounds of the runs.  An assumption is what the code
guarantees (a capacity is at least 1, a tape has one worker and a place at
least) or says of the model's sets (PMUs are finitely many).  A further
hypothesis is part of the theorem's statement, and is discussed below.

| Theorem | Property | Hypotheses |
|---|---|---|
| `AlignerProofs!TypeCorrect` | TypeOK | |
| `AlignerProofs!TickIsCurrent` | NoStaleTick | |
| `AlignerProofs!RowsAwait` | RowsAwaitEveryPMU | |
| `AlignerProofs!AlwaysFit` | BuffersFit | |
| `AlignerProofs!AlignerIsChartFeed` | ChartFeedSpec | SingleRate |
| `AlignerProofs!AlwaysForward` | CurvesRunForward | |
| `AlignerProofs!NeverRewindsAStep` | RulerNeverRewindsAStep | |
| `AlignerProofs!AwaitsSlowest` | RulerAwaitsSlowest | SingleRate, no buffer overflows |
| `RosterProofs!AlwaysTypeOK` | TypeOK | |
| `RosterProofs!AlwaysLoneSyncIsExact` | LoneSyncIsExact | |
| `RosterProofs!AlwaysOneCurrentRun` | OneCurrentRun | |
| `RosterProofs!ApartLiveIsStreaming` | LiveIsStreaming | Apart, Patient |
| `RosterProofs!ApartOneRunPerPMU` | OneRunPerPMU | Apart, Patient |
| `RosterProofs!ApartConfiguredIsActive` | ConfiguredIsActive | Apart, Patient |
| `SessionProofs!SessionIsSkeleton` | SkeletonSpec | |
| `SessionProofs!AlwaysTypeOK` | TypeOK | |
| `SessionProofs!AlwaysInItsLayout` | DecodedInItsLayout | |
| `HistoryProofs!AlwaysTypeOK` | TypeOK | |
| `HistoryProofs!AlwaysLayoutsFollow` | LayoutsFollowProfiles | |
| `HistoryProofs!ImplementsFrameLog` | FrameLogSpec | |
| `HistoryProofs!AlwaysAccounted` | Accounted | |
| `WireProofs!AlwaysInOrder` | first part of DeliveredAsSent | |
| `WireProofs!AlwaysDeliveredAsSent` | DeliveredAsSent | |
| `WireProofs!AlwaysCrcSeesErrors` | CrcSeesErrors | |
| `WireProofs!BurstSeen` | any bits of two adjacent bytes, in a frame of any length | the CRC fitted before |
| `WireProofs!PairSeen` | one or two bits, at most three bytes apart, in a frame of any length | the CRC fitted before |
| `WireProofs!AlwaysNothingReadBeyondEnd` | NothingReadBeyondEnd | |
| `WireProofs!AlwaysFramesRoundTrip` | FramesRoundTrip | |
| `WireProofs!AlwaysLiveLabelsKept` | LiveLabelsKept | |
| `DashboardProofs!AlwaysFeedIsSafe` | FeedIsSafe | |
| `DashboardProofs!AlwaysTapeKeepsOrder` | TapeKeepsOrder | |
| `DashboardProofs!AlwaysSteadyWindowShown` | SteadyWindowShown | UsualRates |
| `StoreProofs!NoPoolLeaks` | PoolsAreClosed | |
| `StoreProofs!AlwaysOpensMigrated` | OpensMigrated | |

### The inductive invariants

**Aligner.**  TypeOK is inductive as it stands; it says, beyond types, that
only live PMUs have samples buffered.  NoStaleTick needs that the generation a
stepOnce copied is never ahead of the publisher's, and that a tick copied in the
current generation is one that generation was anchored to (GenInv).
RowsAwaitEveryPMU needs that every buffered stamp is at most `hi`, and that at
`take` every expected PMU that is not fresh has `hi` at the tick or past it
(AwaitInv); a row is only about to be pushed after `head`, `take` and `emit`,
and joins go to `fresh`.  The refinement of ChartFeed needs four facts (FeedInv):
the step stepOnce copied is the one there is; ticks are on the grid; the last
row is of no later generation than the step in progress and the ruler, and in
its own generation the next tick, and the tick in hand, are a step past it or
more; the row has no sample later than half a step past its tick, and the row
in hand fits behind it.

**AlignerFeeds.**  In its three specifications all PMUs are live from the start and
stay so.  CurvesRunForward does not hold while a row is pushed, so its
invariant says what replaces it there: what is left of a buffer from the tick on
is newer than the sample the row took.  RulerNeverRewindsAStep needs where the
tick in hand and the ruler stand to each other (RulerInv).
RulerAwaitsSlowest needs most (LagInv): buffered stamps are whole steps apart
and have no gap but where rows have been; until every PMU has begun, the sample
the ruler was anchored at is still there; a tick past the head, or jumped to, is
one every PMU has come near.  The jump goes to the oldest sample: were there one
before it yet to come, the sample before that would be missing from the buffer.

**Roster.**  LoneSyncIsExact needs that a SyncExpected that is alone so far
has, for each name it is past, added or removed it (LoneInv).  OneCurrentRun needs
that a run under way that was not cancelled is the one configured (Current).  The three
theorems under Apart and Patient share one invariant (OrdersInv): the orders a request has
in hand are in a harmless order (a wait comes first, a start last and only of a
PMU that is active or will be, a PMU that leaves the address book is stopped
right before or after and not started again); a receiver that has not ended is
its PMU's own or is being waited for; the live set is that of the receivers
past onSessionStart; a configured PMU that is not active is about to be stopped,
or its row is unconfirmed.

**Session.**  DecodedInItsLayout follows from what is under way on the wire:
DATA behind a CFG-2 is in the layout that CFG-2 announced, or has bit 13 up, and
so is DATA before the first CFG-2 with respect to the profile (InOrder).  The
refinement of SessionSkeleton needs no invariant: each step of Session is one
of the skeleton or leaves the manager's view alone.

**History.**  One invariant (HistoryInv) has the types and bounds, that a
receiver past its handshake has a profile which is the one cached unless it
could not be stored, that rows name their layouts in the table, the batch and
the queue alike, and that the frames of a PMU are in order within each of the
three and from one to the next.  From this the refinement of FrameLog follows
step by step, and with it Accounted, whose sum is over the PMUs with a count
yet to bump (which is why they must be finitely many).

**Wire.**  What is read and what is under way are the last pieces sent, without
a gap: a deadline loses what was read and never what follows (StreamInv).  So
three pieces of which the first is a SYNC are one frame.  For the parser, the
profile registered is the one that the PMU's whole CFG-2 gives (ReaderInv), which
is not by construction: a CFG-2 cut anywhere must be refused, and every field of
a whole one read at the offset it was written at.  The lemmas that say so hold
for a layout of any number of blocks, channels and digital words (AnyLayout), of
which the layouts of the run are instances: ParseCut for a CFG-2 of any length,
WalkAny for the reads of a DATA frame against any profile, WalkData and Measured
for those of the PMU's own, LabelsKept for the labels.  The parser's loops are
folds; FoldProofs gives a fold as the sequence of values it passes through, about
which an induction over a set of naturals proves what the loop keeps.

For the CRC, a register is a vector of 16 bits, and a byte goes into it by an
exclusive or and eight shifts.  A shift is linear and loses nothing.  So when the
CRC fits a frame and fits its damaged copy too, the difference of the two
registers begins and ends at zero, gets the difference of the bytes at each byte,
and cannot vanish between two damaged bytes (Drifting).  The difference of one
byte, shifted eight times, is not that of another, since the lower half of the
register is not empty: hence BurstSeen.  For two bytes that are two or three
apart, the powers of x modulo the polynomial are written out (Powers), and
none of those that count lies in the upper half alone: hence PairSeen.  A frame
as short as those that are sent has no other errors of one or two bits or bursts
of up to four, so the CRC of a frame on its way fits exactly if nothing was
damaged (CrcTells), and then nothing damaged is delivered.

**Dashboard.**  For FeedIsSafe: the ring holds the latest events, where a client
is in its handler tells whether the bus has its channel and whether it is
closed, and what a client is owed is in what it was sent or in its channel
(FeedInv).  For TapeKeepsOrder: entries keep their order from the queue through
the worker to the tape, and the last stamp of a PMU is that of an earlier frame
than any to come, off by no more than what the quality check allows when rejected
frames are dropped (TapeInv).  For SteadyWindowShown: while the readings of a window come in
turn it began with a known reading and has counted every one since, so that when it closes
the count is that of the grid's stamps between its ends, whatever was shown
before (MeterInv).

**Store.**  That an attempt is only under way in a store neither open nor over
gives PoolsAreClosed.  OpensMigrated needs the index from the listing on, that
what is neither listed nor blocked is done, that a row whose name is an endpoint
has that endpoint, and that an endpoint of `enabled` has an active row, and none of
its own that is inactive unless it is in `shadowed` (Inv).

### The hypotheses

* `SingleRate`: PMUs announce the rate the ruler started with, or none.
  Refinement of ChartFeed with several step sizes is not true, and not claimed:
  a new, larger step may put the ruler back (RulerNeverRewindsAStep says by how
  much at most).
* *No buffer overflows* (`[][DropsNothing]_vars`): where a full buffer drops its
  oldest sample, the ruler jumps to what is left.  In align_steady the capacity
  of 4 keeps this by one stamp; with 3 TLC finds the ruler racing ahead.
* `Apart` and `Patient`: no two callers, main among them, are busy with the same PMU at
  once, and no wait of StopPMU ends before its receiver has.  The code enforces
  neither (server.go:151, main.go:464; manager.go:283), and without them TLC
  finds OneRunPerPMU, LiveIsStreaming or ConfiguredIsActive violated (section 5).
  Callers with different PMUs, at any time and in any number, are covered.  What holds
  without any hypothesis is OneCurrentRun: of the receivers of a PMU at most one
  has neither ended nor been told to.
* `UsualRates`: DATA_RATE is from -1000 to 1000, as stamps in milliseconds can tell
  apart.  Those whose period is no whole number of milliseconds are
  among them.

### Only model-checked

All liveness properties (SessionsStream, RefreshedOverTCP, CancelledEnds,
StoppedRunsEnd, CallersFinish, EverySampleCharted, FramesLeave,
ShutdownFinishes, ReadingsShownOrCounted, ComesBack): the prover does not treat
fairness.  Every other property of the passing runs is a theorem.

Frames are stamped with the few contents of `Stamps` (section 3), and
CrcSeesErrors speaks of those.  BurstSeen and PairSeen have no such bound: what
they leave out is two flipped bits whose bytes are four or more apart, and
bursts that reach over three bytes.

## 5. Where the code and its comments disagree

Two disagreements have a run of their own: `roster_stale` (two membership
callbacks of different PMUs may leave the bank expecting a PMU that is not live)
and `session_listen` (in UDP listen mode the CFG-2 that was asked for after a
change is thrown away, and the profile never refreshed).  The following were met
as well; each can be reproduced with the modules as they are.

* *Gaps.*  `SPECIFICATION GappySpec`, `PROPERTY RulerAwaitsSlowest` in
  AlignerFeeds: the jump to MinOldest (publish.go:215) takes the ruler past ticks
  a slower PMU has yet to deliver, though publish.go:226 is to wait for it.
* *A stop that gives up.*  Roster with `StopCanTimeOut = TRUE`: StopPMU waits
  15 s, a read may block for 30 s, and the old session's end, told by name,
  takes the new session out of the live set (LiveIsStreaming; manager.go:283).
* *Requests while the program starts.*  Roster with `ApiDuringBoot = TRUE`: main
  starts a PMU that was disconnected after main read its list
  (ConfiguredIsActive; main.go:464).
* *A call that commits and fails.*  `INVARIANT ReceiversAreActive` in the runs of Roster:
  DeletePMU or SetPMUActive makes the row inactive, reports an error (a lost answer, a
  request whose context ended), and the handler returns before StopPMU
  (server.go:152, 185; store.go:410-431).  The receiver runs on for a PMU the
  address book calls inactive, until the operator, who was told of a failure, repeats the request.
  ConfiguredIsActive makes an exception of this one.
* *A CFG-2 that cannot be read.*  `PROPERTY RefreshedWhateverComes` in the run of Session:
  applyMidstreamCFG2 fails and the watch stays `requested` for ever (receiver.go:386,
  950), though it is to track "config changed" until a new CFG-2 arrives
  (receiver.go:349): what comes after is decoded with the old profile.
* *Time goes backwards.*  `INVARIANT TapeNeverJumpsBack` in the run of Dashboard: "time
  went backwards - should not happen" (frame_capture.go:63), but a stamp may be off by up
  to MAX_CLOCK_SKEW, either way, and pass Validate (aligner.go:41-47), and datagrams
  may be reordered: recordLocked counts a jump back (frame_capture.go:155) of
  almost twice the skew, with rejected frames dropped too.
* *A fault where no frame was lost.*  `INVARIANT NoLossNoFault` in the run of Dashboard:
  snapReportedFPS is there so that the dashboard "does not look like a fault when no
  frames were lost" (fps.go:34), but what workers record out of turn in one
  window is counted twice or not at all.  TLC finds another rate shown with four
  readings overtaken by two workers (`Overtakings = 4`, `AtOnce = 2`), or three by
  three (3 and 3); not with three by two.  The program has four workers and a stream no
  bound on overtakings.  What does hold is that the next window recorded in
  turn shows the advertised rate again (SteadyWindowShown).
* *A row set aside.*  `PROPERTY NoneSetAside` in the run of Store: an active row under a
  nickname and an inactive one under their endpoint's name, such as a PMU that was saved,
  disconnected, and connected by its nickname.  The migration cannot rename the active
  one (store.go:320) and sets it inactive (store.go:327), so that the
  endpoint has no active row any more and is not connected to when the program starts.
* *Two requests at once* about one PMU may start two receivers of it
  (server.go:151; OneRunPerPMU with two members in `Clients`).
* *A layout that could not be stored.*  `INVARIANT FramesNameTheirLayout` in the
  run of History: rows keep naming the layout before it (recorder.go:187).
* *A retry that is not safe.*  `INVARIANT RetryIsSafe` in Wire: "safe to retry
  CFG2" (receiver.go:1037) does not hold when the 500 ms pass inside a frame.
  The retry then reads from inside it and the handshake fails on the SYNC
  byte; the next dial begins afresh, and nothing wrong is delivered
  (DeliveredAsSent).
* *A late HEADER.*  The long handshake calls the HEADER optional
  (receiver.go:764), and gives it C37118_HDR_WAIT, 200 ms by default.  One that
  comes later is met by the wait for CFG-2, which refuses it ("expected CFG2, got
  HDR", receiver.go:1078), so that a PMU that always takes longer never
  gets through a long handshake (ConnectFails at `wait` in Session).
* *Names in the address book.*  `INVARIANT ShownIsFound` in Store: rows that are
  not active are not migrated, and are listed by an endpoint under which they
  cannot be found (config.go:32).
* *An index that cannot be made.*  Two active rows of one endpoint, from before
  the unique index (store.go:50), make ensureSchema fail before the migration
  that would put them right: ComesBack excludes them.
* *The latest frame.*  Two workers may record two readings in the wrong order, so
  that what "the latest parsed DATA frame" (conversation.go:59) says may be the
  last but one until the next.
* *Steady loss.*  Rates within 3 fps, or 5 %, of DATA_RATE are shown as DATA_RATE
  (fps.go:29), and so is 46 or 47 of 50: that the advertised rate is shown does
  not mean that nothing is lost.

## 6. Not modelled, and why

* Contents of readings beyond their place in the frame: engineering units,
  sequence components, power.  They are arithmetic without state, on floats.
* The HEADER's text, names and wording, formatting, exports to CSV and sheets,
  logs, Prometheus metrics, environment files and the web application: they keep
  no state the rest depends on.
* Trends, aligned batches and the snapshots of the dashboard: rings of what
  other modules deliver, each under one lock, with no decision taken on them.
* Latency windows, clock offsets, frame diagnostics and socket depths:
  measurements that are displayed and that nothing else reads.
* Time zones: a reading's stamp is what the correction made of it.  That stamps
  may step back where clocks change is among what the aligner's large run has,
  because its samples come with any stamps in any order.
* The spool (`output/spool.go`): it has no caller in the program.
* Clocks: a timeout is a step that may happen whenever the code waits.
* Goroutines as a resource (receiver.go:871), and what other sources send to a
  UDP socket (receiver.go:664).

## 7. Plan

Modelled, in this order: `Aligner` with `ChartFeed` and its proofs, `Roster`,
`History` with `FrameLog`, `Session` with `SessionSkeleton`, `Wire` on `Frames`,
`Dashboard` on `Alerts` and `Meters`, `Store`.  Then the proofs of section 4,
component by component.  Left:

1. Parts that keep state and are not modelled yet: trends and aligned batches of
   the dashboard, the spool's file protocol if it gets a caller again.
2. What Roster keeps when requests about the *same* PMU overlap, beyond
   OneCurrentRun.
3. ReadingsShownOrCounted's safety half: what the counters say at each moment.
