------------------------------ MODULE History -------------------------------
(***************************************************************************)
(* The optional history: the Recorder that receivers call for every CFG-2  *)
(* and DATA frame (output/history/recorder.go), the Writer with its        *)
(* bounded queue, batches and pool (output/postgres/writer.go), and main's *)
(* shutdown of both.                                                       *)
(*                                                                         *)
(* Threads are one receiver per PMU, the writer's loop and main.  What the *)
(* loop does on one branch of its select is one action: only the channels  *)
(* and counters are shared, so a frame enqueued during a COPY may as well  *)
(* be enqueued after it.  A frame is its PMU, its number of arrival and    *)
(* the layout it was decoded with; an event is nothing but its place in    *)
(* the event queue.  The database commits, refuses, or commits and fails   *)
(* to say so.                                                              *)
(***************************************************************************)
EXTENDS Integers, Sequences, FiniteSets

CONSTANTS
  PMUs,
  Layouts,      \* CFG-2 layouts; a layout's cfg_id is the layout itself
  NoLayout,     \* cfg_id 0, NULL in the table
  QueueSize,    \* capacity of the frame channel
  EventQueue,   \* capacity of the event channel
  BatchSize,
  MaxFrames,    \* bound: DATA frames of each PMU
  MaxConfigs    \* bound: CFG-2 frames of each PMU

ASSUME HistoryAssumption ==
  /\ IsFiniteSet(PMUs)
  /\ {QueueSize, EventQueue, BatchSize} \subseteq Nat \ {0}
  /\ {MaxFrames, MaxConfigs} \subseteq Nat
  /\ NoLayout \notin Layouts

VARIABLES
  profile,     \* the parser's profile of each PMU
  cached,      \* Recorder.hash and Recorder.cfgID, which are set together
  quality,     \* Recorder.qualityOK: "unseen", "ok" or "bad"
  tally,       \* the counter a receiver in EnqueueFrame has yet to bump
  arrived,     \* DATA frames each receiver has handed to NoteFrame
  configs,     \* CFG-2 frames each receiver has applied
  session,     \* where each receiver is in its session
  frames,      \* Writer.frames
  events,      \* length of Writer.events
  buf,         \* the loop's batch in the making
  loop,        \* where the loop is
  pool,        \* Writer.pool is not nil
  table,       \* pmu_frame, in the order of commit
  enqueued, dropped, written,  \* the Writer's counters of frames
  copyErrors,  \* failed COPYs (the code's counter adds failed event inserts)
  ctxDone,     \* the program's context, and with it the loop's, is cancelled
  stops,       \* operator_stop and left_live events StopAll has yet to emit
  closed,      \* Close has returned
  failed       \* history: PMUs for which EnsureCfgVersion failed

recorderVars == <<profile, cached, quality, configs, failed>>
counters == <<enqueued, dropped, written, copyErrors>>
mainVars == <<ctxDone, stops, closed>>
vars == <<recorderVars, counters, mainVars, tally, arrived, session, frames,
          events, buf, loop, pool, table>>

Init ==
  /\ profile = [p \in PMUs |-> NoLayout]
  /\ cached = [p \in PMUs |-> NoLayout]
  /\ quality = [p \in PMUs |-> "unseen"]
  /\ tally = [p \in PMUs |-> "none"]
  /\ arrived = [p \in PMUs |-> 0]
  /\ configs = [p \in PMUs |-> 0]
  /\ session = [p \in PMUs |-> "dial"]
  /\ frames = <<>> /\ buf = <<>> /\ table = <<>>
  /\ events = 0
  /\ loop = "select"
  /\ pool \in BOOLEAN
  /\ enqueued = 0 /\ dropped = 0 /\ written = 0 /\ copyErrors = 0
  /\ ctxDone = FALSE
  /\ stops = 2 * Cardinality(PMUs)
  /\ closed = FALSE
  /\ failed = {}

-----------------------------------------------------------------------------
(* Receivers: dial, handshake (CFG-2), ready once DATA_ON is sent, live. *)

(* EnqueueEvent: into the channel if there is room. *)
Emitted(n) == IF n < EventQueue THEN n + 1 ELSE n

InSession(p, s) == session[p] = s /\ tally[p] = "none"
Goto(p, s) == session' = [session EXCEPT ![p] = s]

(* Mutant of NoteProfile: only the first layout is remembered. *)
NoteFirstProfile(p, l, n) ==
  \/ /\ cached' = [cached EXCEPT ![p] = IF @ = NoLayout THEN l ELSE @]
     /\ events' = n
     /\ UNCHANGED failed
  \/ /\ cached[p] = NoLayout
     /\ failed' = failed \cup {p}
     /\ UNCHANGED <<cached, events>>

(* A layout that is not the cached one is stored (cfg_changed is emitted if *)
(* there was one before), or storing it fails and the cache stays.  n is    *)
(* the length of the event channel before.                                  *)
NoteProfile(p, l, n) ==
  \/ /\ cached[p] = l
     /\ events' = n
     /\ UNCHANGED <<cached, failed>>
  \/ /\ cached[p] # l /\ pool
     /\ cached' = [cached EXCEPT ![p] = l]
     /\ events' = IF cached[p] = NoLayout THEN n ELSE Emitted(n)
     /\ UNCHANGED failed
  \/ /\ cached[p] # l
     /\ events' = Emitted(n)
     /\ failed' = failed \cup {p}
     /\ UNCHANGED cached

receiverEnv == <<arrived, frames, buf, loop, pool, table, tally, counters, mainVars>>

(* A CFG-2 frame: SetProfile, then onProfileUpdate. *)
ReceiveConfig(p, l) ==
  /\ configs[p] < MaxConfigs
  /\ profile' = [profile EXCEPT ![p] = l]
  /\ NoteProfile(p, l, events)
  /\ configs' = [configs EXCEPT ![p] = @ + 1]
  /\ UNCHANGED <<quality, receiverEnv>>

Handshake(p, l) == InSession(p, "dial") /\ ReceiveConfig(p, l) /\ Goto(p, "ready")

MidstreamConfig(p, l) ==
  InSession(p, "live") /\ ReceiveConfig(p, l) /\ UNCHANGED session

(* markLive: NoteBecameLive makes sure of the layout once more. *)
BecomeLive(p) ==
  /\ InSession(p, "ready")
  /\ Goto(p, "live")
  /\ NoteProfile(p, profile[p], Emitted(events))
  /\ UNCHANGED <<profile, quality, configs, receiverEnv>>

(* The session ends: left_live, unless StopAll has emptied the live set. *)
LeaveLive(p) ==
  /\ InSession(p, "live")
  /\ Goto(p, IF ctxDone THEN "ended" ELSE "dial")
  /\ events' = Emitted(events) \/ (ctxDone /\ events' = events)
  /\ UNCHANGED <<recorderVars, receiverEnv>>

GiveUp(p) ==
  /\ InSession(p, "dial") \/ InSession(p, "ready")
  /\ Goto(p, IF ctxDone THEN "ended" ELSE "dial")
  /\ UNCHANGED <<recorderVars, events, receiverEnv>>

(* NoteQuality: an event on every change, and on a first bad frame. *)
QualityEvent(p, ok) ==
  \/ ok = "bad" /\ quality[p] # "bad"
  \/ ok = "ok" /\ quality[p] = "bad"

(* A DATA frame decoded with the PMU's profile: NoteQuality and NoteFrame. *)
(* EnqueueFrame sends before it counts.                                    *)
ReceiveData(p, ok) ==
  /\ InSession(p, "live") /\ arrived[p] < MaxFrames
  /\ arrived' = [arrived EXCEPT ![p] = @ + 1]
  /\ quality' = [quality EXCEPT ![p] = ok]
  /\ events' = IF QualityEvent(p, ok) THEN Emitted(events) ELSE events
  /\ IF Len(frames) < QueueSize
     THEN /\ frames' = Append(frames, [pmu |-> p, n |-> arrived[p] + 1,
                                       layout |-> profile[p], cfg |-> cached[p]])
          /\ tally' = [tally EXCEPT ![p] = "enqueued"]
     ELSE /\ tally' = [tally EXCEPT ![p] = "dropped"]
          /\ UNCHANGED frames
  /\ UNCHANGED <<profile, cached, configs, failed, session, buf, loop, pool,
                 table, counters, mainVars>>

Count(p) ==
  /\ tally[p] # "none"
  /\ tally' = [tally EXCEPT ![p] = "none"]
  /\ IF tally[p] = "enqueued"
     THEN enqueued' = enqueued + 1 /\ UNCHANGED dropped
     ELSE dropped' = dropped + 1 /\ UNCHANGED enqueued
  /\ UNCHANGED <<recorderVars, arrived, session, frames, events, buf, loop,
                 pool, table, written, copyErrors, mainVars>>

Receiver(p) ==
  \/ \E l \in Layouts : Handshake(p, l) \/ MidstreamConfig(p, l)
  \/ \E ok \in {"ok", "bad"} : ReceiveData(p, ok)
  \/ Count(p) \/ BecomeLive(p) \/ LeaveLive(p) \/ GiveUp(p)

-----------------------------------------------------------------------------
(* The writer's loop. *)

(* Mutants of flushFrames: a batch that meets no pool is not counted; a *)
(* batch whose COPY failed is tried again at once.                      *)
FlushUncounted(batch) ==
  IF batch = <<>> \/ ~ pool
  THEN UNCHANGED <<table, counters, pool>>
  ELSE /\ table' = table \o batch
       /\ written' = written + Len(batch)
       /\ UNCHANGED <<enqueued, dropped, copyErrors, pool>>

FlushTwice(batch) ==
  IF batch = <<>>
  THEN UNCHANGED <<table, counters, pool>>
  ELSE \E before \in {table, table \o batch} :
         /\ table' = before \o batch
         /\ written' = written + Len(batch)
         /\ UNCHANGED <<enqueued, dropped, copyErrors, pool>>

(* No pool: the batch is dropped.  A COPY that fails loses the batch (or    *)
(* the answer to it), and the pool with it if the error names a connection. *)
flushFrames(batch) ==
  \/ /\ batch = <<>>
     /\ UNCHANGED <<table, counters, pool>>
  \/ /\ batch # <<>> /\ ~ pool
     /\ dropped' = dropped + Len(batch)
     /\ UNCHANGED <<table, enqueued, written, copyErrors, pool>>
  \/ /\ batch # <<>> /\ pool
     /\ table' = table \o batch
     /\ written' = written + Len(batch)
     /\ UNCHANGED <<enqueued, dropped, copyErrors, pool>>
  \/ /\ batch # <<>> /\ pool
     /\ table' \in {table, table \o batch}
     /\ copyErrors' = copyErrors + 1
     /\ pool' \in BOOLEAN
     /\ UNCHANGED <<enqueued, dropped, written>>

loopEnv == <<recorderVars, mainVars, tally, arrived, session>>

(* Mutant of TakeFrame: the batch may grow one frame too long. *)
TakeFrameTooMany(at) ==
  /\ loop = at /\ frames # <<>>
  /\ frames' = Tail(frames)
  /\ LET filled == Append(buf, Head(frames)) IN
     IF Len(filled) > BatchSize
     THEN buf' = <<>> /\ flushFrames(filled)
     ELSE buf' = filled /\ UNCHANGED <<table, counters, pool>>
  /\ UNCHANGED <<loopEnv, events, loop>>

(* A frame from the channel; a full batch is flushed at once. *)
TakeFrame(at) ==
  /\ loop = at /\ frames # <<>>
  /\ frames' = Tail(frames)
  /\ LET filled == Append(buf, Head(frames)) IN
     IF Len(filled) >= BatchSize
     THEN buf' = <<>> /\ flushFrames(filled)
     ELSE buf' = filled /\ UNCHANGED <<table, counters, pool>>
  /\ UNCHANGED <<loopEnv, events, loop>>

(* Mutant of Tick: a batch waits until it is full. *)
TickLeavesBatch ==
  /\ loop = "select"
  /\ loop' = "events"
  /\ UNCHANGED <<loopEnv, frames, events, buf, table, counters, pool>>

(* The flush ticker: whatever there is is flushed, then all events. *)
Tick ==
  /\ loop = "select"
  /\ flushFrames(buf)
  /\ buf' = <<>>
  /\ loop' = "events"
  /\ UNCHANGED <<loopEnv, frames, events>>

(* writeEvent: dropped without a pool, inserted, or the insert fails; in  *)
(* each case the event is gone.                                            *)
WriteEvent ==
  /\ loop \in {"select", "events", "lastEvents"} /\ events > 0
  /\ events' = events - 1
  /\ UNCHANGED <<loopEnv, frames, buf, loop, pool, table, counters>>

(* Mutant of EventsDrained: the loop goes back to its select in any case. *)
EventsDrainedAgain ==
  /\ loop \in {"events", "lastEvents"} /\ events = 0
  /\ loop' = "select"
  /\ UNCHANGED <<loopEnv, frames, events, buf, pool, table, counters>>

(* drainEvents returns once the channel is empty. *)
EventsDrained ==
  /\ loop \in {"events", "lastEvents"} /\ events = 0
  /\ loop' = IF loop = "events" THEN "select" ELSE "ended"
  /\ UNCHANGED <<loopEnv, frames, events, buf, pool, table, counters>>

Reconnect ==
  /\ loop = "select" /\ ~ pool
  /\ pool' = TRUE
  /\ UNCHANGED <<loopEnv, frames, events, buf, loop, table, counters>>

ContextDone ==
  /\ loop = "select" /\ ctxDone
  /\ loop' = "drain"
  /\ UNCHANGED <<loopEnv, frames, events, buf, pool, table, counters>>

(* The channel is empty: flush what is left, then the events. *)
FramesDrained ==
  /\ loop = "drain" /\ frames = <<>>
  /\ flushFrames(buf)
  /\ buf' = <<>>
  /\ loop' = "lastEvents"
  /\ UNCHANGED <<loopEnv, frames, events>>

Loop ==
  \/ TakeFrame("select") \/ Tick \/ WriteEvent \/ EventsDrained \/ Reconnect
  \/ ContextDone \/ TakeFrame("drain") \/ FramesDrained

-----------------------------------------------------------------------------
(* main. *)

Interrupt ==
  /\ ~ ctxDone
  /\ ctxDone' = TRUE
  /\ UNCHANGED <<recorderVars, tally, arrived, session, frames, events, buf,
                 loop, pool, table, counters, stops, closed>>

(* StopAll, when every receiver has ended: an operator_stop and a left_live *)
(* event for each.                                                          *)
NoteStop ==
  /\ ctxDone /\ stops > 0 /\ \A p \in PMUs : session[p] = "ended"
  /\ stops' = stops - 1
  /\ events' = Emitted(events)
  /\ UNCHANGED <<recorderVars, tally, arrived, session, frames, buf, loop,
                 pool, table, counters, ctxDone, closed>>

(* Close, deferred by main: wait for the loop, close the pool. *)
Close ==
  /\ stops = 0 /\ loop = "ended" /\ ~ closed
  /\ closed' = TRUE
  /\ pool' = FALSE
  /\ UNCHANGED <<recorderVars, tally, arrived, session, frames, events, buf,
                 loop, table, counters, ctxDone, stops>>

Next ==
  \/ \E p \in PMUs : Receiver(p)
  \/ Loop
  \/ Interrupt \/ NoteStop \/ Close

(* The scheduler runs every goroutine; the loop's select picks at random    *)
(* among the branches that are ready, so it does not pass one over for      *)
(* ever; a receiver whose context is cancelled ends.                        *)
Spec ==
  /\ Init /\ [][Next]_vars
  /\ WF_vars(Loop)
  /\ SF_vars(TakeFrame("select")) /\ SF_vars(Tick) /\ SF_vars(ContextDone)
  /\ \A p \in PMUs :
       WF_vars(Count(p)) /\ WF_vars(ctxDone /\ (LeaveLive(p) \/ GiveUp(p)))
  /\ WF_vars(NoteStop \/ Close)

-----------------------------------------------------------------------------
(* Properties. *)

Waiting(rows, p, n) == \E i \in DOMAIN rows : rows[i].pmu = p /\ rows[i].n = n

Frame == [pmu : PMUs, n : 1 .. MaxFrames, layout : Layouts, cfg : Layouts \cup {NoLayout}]

(* Every variable has its type, and no queue outgrows its capacity. *)
TypeOK ==
  /\ profile \in [PMUs -> Layouts \cup {NoLayout}]
  /\ cached \in [PMUs -> Layouts \cup {NoLayout}]
  /\ quality \in [PMUs -> {"unseen", "ok", "bad"}]
  /\ tally \in [PMUs -> {"none", "enqueued", "dropped"}]
  /\ arrived \in [PMUs -> 0 .. MaxFrames] /\ configs \in [PMUs -> 0 .. MaxConfigs]
  /\ session \in [PMUs -> {"dial", "ready", "live", "ended"}]
  /\ frames \in Seq(Frame) /\ Len(frames) <= QueueSize
  /\ buf \in Seq(Frame) /\ Len(buf) < BatchSize
  /\ table \in Seq(Frame)
  /\ events \in 0 .. EventQueue
  /\ loop \in {"select", "events", "drain", "lastEvents", "ended"}
  /\ {enqueued, dropped, written, copyErrors} \subseteq Nat
  /\ pool \in BOOLEAN /\ ctxDone \in BOOLEAN /\ closed \in BOOLEAN
  /\ stops \in 0 .. 2 * Cardinality(PMUs)
  /\ failed \subseteq PMUs

Arrived == {f \in PMUs \X (1 .. MaxFrames) : f[2] <= arrived[f[1]]}

Uncounted(what) == Cardinality({p \in PMUs : tally[p] = what})

(* Every frame that arrived is waiting, written, counted as dropped, or was *)
(* in a batch whose COPY failed, which copyErrors tells; and so is every    *)
(* frame that enqueued counts (writer.go, "DB slowness drops frames and     *)
(* increments metrics").                                                    *)
Accounted ==
  LET left == Len(frames) + Len(buf) + written
      lost == Cardinality(Arrived) - left - dropped - Uncounted("dropped")
      gone == enqueued + Uncounted("enqueued") - left
  IN  /\ lost \in 0 .. copyErrors * BatchSize
      /\ gone \in lost .. lost + dropped

(* A row names the layout its frame was decoded with, as long as no layout  *)
(* of its PMU failed to be stored.                                          *)
LayoutsFollowProfiles ==
  \A i \in DOMAIN table :
    table[i].pmu \notin failed => table[i].cfg = table[i].layout

(* "CfgID returns the cached layout id for a PMU (0 if unknown)"            *)
(* (recorder.go): a row names the layout its frame was decoded with, or none. *)
FramesNameTheirLayout ==
  \A i \in DOMAIN table : table[i].cfg \in {table[i].layout, NoLayout}

(* The table is a frame log (see FrameLog): no frame twice, none before one *)
(* of its PMU that came earlier, whatever was dropped in between.           *)
Log == INSTANCE FrameLog WITH log <- table
FrameLogSpec == Log!Spec

(* No frame stays in the channel or in a half-full batch while the loop     *)
(* runs, and shutdown flushes what the loop still finds.                    *)
FramesLeave ==
  \A p \in PMUs, n \in 1 .. MaxFrames :
    Waiting(frames \o buf, p, n) ~> ~ Waiting(buf, p, n)
                                     /\ (Waiting(frames, p, n) => loop = "ended")

(* After an interrupt the program exits: StopAll and Close both return. *)
ShutdownFinishes == ctxDone ~> closed
=============================================================================
