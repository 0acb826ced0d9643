------------------------------ MODULE Dashboard ------------------------------
(***************************************************************************)
(* What becomes of a DATA frame on its way to the dashboard: HandleFrame   *)
(* and deliverLocal (main.go) with the quality check, the tape of recent   *)
(* frames (output/frame_capture.go), the inventory that several workers    *)
(* fill from one channel (monitoring/conversation.go), and the alerts      *)
(* raised meanwhile.                                                       *)
(*                                                                         *)
(* A PMU's receiver hands over one frame at a time.  A frame is its number *)
(* and what is wrong with it.  History, aligner and latency metrics are    *)
(* left to their own modules.                                              *)
(***************************************************************************)
EXTENDS Frames, Alerts, Meters

CONSTANTS
  PMUs, Manager,  \* the goroutines that raise events: receivers and another
  Workers, Gone,  \* DASHBOARD_WORKERS; a worker that has ended
  TapeWorkers,    \* the goroutines that startWorker starts: one
  DashboardQueue, \* DASHBOARD_QUEUE_SIZE
  CaptureQueue,   \* FRAME_CAPTURE_QUEUE
  TapeSize,       \* FRAME_CAPTURE_SIZE
  MaxClockSkew,   \* MAX_CLOCK_SKEW, in units of 50 ms
  Kinds,          \* bound: what a frame may be
  Bounds          \* bounds: frames of a PMU, events, clients that come, rates

ASSUME ThreadsAssumption == Threads = PMUs \cup {Manager} /\ Manager \notin PMUs

(* ConfigureFrameCapture has no tape of size 0, startWorker no second worker. *)
ASSUME TapeAssumption ==
  TapeSize \in Nat \ {0} /\ \A v, w \in TapeWorkers : v = w

(* NewChecker replaces a skew of 0 or less.  SOC is unsigned: no stamp is    *)
(* from before the epoch, however wrong the clock.                         *)
ASSUME KindsAssumption ==
  /\ MaxClockSkew \in Nat \ {0}
  /\ Kinds \subseteq [fault : {"garbled", "unsynced", "none"}, off : Int]
  /\ \A k \in Kinds : k.off > -100

ASSUME BoundsAssumption == \A b \in Bounds : b.clients \subseteq Clients

VARIABLES
  bound,        \* the member of Bounds that holds
  dropRejected, \* DROP_QUALITY_REJECTED
  count,        \* frames a PMU has sent
  frame,        \* what its receiver is working on
  at,           \* where HandleFrame is with it
  dashboardCh,  \* readings for the workers
  working,      \* the reading a worker has taken, None or Gone
  lastFrame,    \* the number of the frame the inventory shows
  totalFrames,  \* readings in the inventory
  dropped,      \* dashboard queue drops
  delivered,    \* history: readings handed to RecordReading
  captureCh,    \* entries for the tape
  taping,       \* the entry a tape worker has taken
  tape,         \* frameCapture.buf
  lastByPMU,    \* the stamp last taped
  lastGap,      \* jumpStat.lastGapMs: the last gap that was counted as a jump
  done          \* the program's context is cancelled

handlerVars == <<bound, dropRejected, count, frame, at>>
boardVars == <<dashboardCh, working, lastFrame, totalFrames, dropped, delivered>>
tapeVars == <<captureCh, taping, tape, lastByPMU, lastGap>>
dashVars == <<handlerVars, boardVars, tapeVars, done, alertVars, meterVars>>

-----------------------------------------------------------------------------
NoFrame == [n |-> 0, kind |-> [fault |-> "none", off |-> 0]]

(* Frames come 100 ms apart; times are in units of 50 ms.  A stamp is off    *)
(* by what the PMU's clock is, or by what a datagram has been on its way    *)
(* while others came: of any two frames either may have the later stamp.   *)
Clock(f) == 100 + 2 * f.n

Stamp(f) == Clock(f) + f.kind.off

Reading(f) ==
  [timestamp |-> Stamp(f), frequency |-> 50000,
   stat |-> IF f.kind.fault = "unsynced" THEN 2 ^ 10 ELSE 0]

Verdict(f) == Validate(Reading(f), Clock(f), MaxClockSkew)

(* makeEntry: what the tape keeps of a frame. *)
Entry(p) == [pmu |-> p, n |-> frame[p].n, stamp |-> Stamp(frame[p])]

Init ==
  /\ AlertsInit
  /\ bound \in Bounds
  /\ MeterInit(bound.rates)
  /\ dropRejected \in BOOLEAN
  /\ count = [p \in PMUs |-> 0]
  /\ frame = [p \in PMUs |-> NoFrame]
  /\ at = [p \in PMUs |-> "idle"]
  /\ dashboardCh = <<>>
  /\ working = [w \in Workers |-> None]
  /\ lastFrame = [p \in PMUs |-> 0]
  /\ totalFrames = [p \in PMUs |-> 0]
  /\ dropped = 0
  /\ delivered = [p \in PMUs |-> 0]
  /\ captureCh = <<>> /\ tape = <<>>
  /\ taping = [w \in TapeWorkers |-> None]
  /\ lastByPMU = [p \in PMUs |-> 0]
  /\ lastGap = [p \in PMUs |-> 0]
  /\ done = FALSE

Goto(p, place) == at' = [at EXCEPT ![p] = place]

(* The receiver dispatches the next frame. *)
Arrive(p) ==
  /\ at[p] = "idle" /\ pending[p] = None /\ count[p] < bound.frames /\ ~ done
  /\ count' = [count EXCEPT ![p] = @ + 1]
  /\ \E kind \in Kinds : frame' = [frame EXCEPT ![p] = [n |-> count'[p], kind |-> kind]]
  /\ Goto(p, "handle")
  /\ UNCHANGED <<bound, dropRejected, boardVars, tapeVars, done, alertVars, meterVars>>

(* Beyond the bound every event counts as one too many for the rate limit. *)
Alert(t, kind) ==
  IF Underway < bound.events THEN Log(t, kind) ELSE UNCHANGED <<recent, pending>>

(* ParseDataFrame and Validate.  Errors raise an alert; a rejected frame     *)
(* goes on unless rejected frames are dropped.                             *)
HandleFrame(p) ==
  /\ at[p] = "handle"
  /\ \/ /\ frame[p].kind.fault = "garbled"
        /\ Alert(p, "parse error") /\ Goto(p, "idle")
     \/ /\ frame[p].kind.fault # "garbled" /\ Verdict(frame[p]) # "ok"
        /\ Alert(p, "quality rejected") /\ Goto(p, IF dropRejected THEN "idle" ELSE "capture")
     \/ /\ frame[p].kind.fault # "garbled" /\ Verdict(frame[p]) = "ok"
        /\ Goto(p, "capture")
        /\ UNCHANGED <<recent, pending>>
  /\ UNCHANGED <<bound, dropRejected, count, frame, boardVars, tapeVars, done,
                 busVars, clientVars, meterVars>>

(* A gap of more than 100 ms forward, or 10 ms back, is a jump. *)
IsJump(gap) == gap > 2 \/ gap < 0

(* recordLocked: one entry onto the tape. *)
Record(entry) ==
  LET p == entry.pmu
      gap == entry.stamp - lastByPMU[p]
  IN
  /\ lastGap' = IF lastByPMU[p] # 0 /\ IsJump(gap)
                THEN [lastGap EXCEPT ![p] = gap] ELSE lastGap
  /\ lastByPMU' = [lastByPMU EXCEPT ![p] = entry.stamp]
  /\ tape' = Newest(Append(tape, entry), TapeSize)

(* Mutant of RecordFrameAsync: a full queue is passed by. *)
RecordPastQueue(p) ==
  /\ at[p] = "capture" /\ pending[p] = None
  /\ \/ /\ Len(captureCh) < CaptureQueue
        /\ captureCh' = Append(captureCh, Entry(p))
        /\ UNCHANGED <<tape, lastByPMU, lastGap>>
     \/ /\ Len(captureCh) >= CaptureQueue
        /\ Record(Entry(p))
        /\ UNCHANGED captureCh
  /\ Goto(p, "deliver")
  /\ UNCHANGED <<bound, dropRejected, count, frame, boardVars, taping, done, alertVars, meterVars>>

(* RecordFrameAsync: the tape does without the frame when its queue is full. *)
RecordFrameAsync(p) ==
  /\ at[p] = "capture" /\ pending[p] = None
  /\ captureCh' = IF Len(captureCh) < CaptureQueue
                  THEN Append(captureCh, Entry(p)) ELSE captureCh
  /\ Goto(p, "deliver")
  /\ UNCHANGED <<bound, dropRejected, count, frame, boardVars, taping, tape, lastByPMU,
                 lastGap, done, alertVars, meterVars>>

(* Mutant of RecordReading: what the full queue refuses is not counted. *)
RecordUncounted(p) ==
  /\ at[p] = "deliver"
  /\ delivered' = [delivered EXCEPT ![p] = @ + 1]
  /\ dashboardCh' = IF Len(dashboardCh) < DashboardQueue
                    THEN Append(dashboardCh, [pmu |-> p, n |-> frame[p].n])
                    ELSE dashboardCh
  /\ Goto(p, "idle")
  /\ UNCHANGED <<bound, dropRejected, count, frame, working, lastFrame, totalFrames,
                 dropped, tapeVars, done, alertVars, meterVars>>

RecordReading(p) ==
  /\ at[p] = "deliver"
  /\ delivered' = [delivered EXCEPT ![p] = @ + 1]
  /\ \/ /\ Len(dashboardCh) < DashboardQueue
        /\ dashboardCh' = Append(dashboardCh, [pmu |-> p, n |-> frame[p].n])
        /\ UNCHANGED dropped
     \/ /\ Len(dashboardCh) >= DashboardQueue
        /\ dropped' = dropped + 1
        /\ UNCHANGED dashboardCh
  /\ Goto(p, "idle")
  /\ UNCHANGED <<bound, dropRejected, count, frame, working, lastFrame, totalFrames,
                 tapeVars, done, alertVars, meterVars>>

(* Heartbeats of receivers, between frames, and what the manager does. *)
Raise(t) ==
  /\ Underway < bound.events
  /\ \/ t \in PMUs /\ at[t] = "idle" /\ Alert(t, "stream ok")
     \/ t = Manager /\ Alert(t, "manager ok")
  /\ UNCHANGED <<handlerVars, boardVars, tapeVars, done, busVars, clientVars, meterVars>>

-----------------------------------------------------------------------------
(* The dashboard's workers.  A cancelled context ends them between two      *)
(* readings, whatever the queue still holds.                               *)
Take(w) ==
  /\ working[w] = None /\ dashboardCh # <<>>
  /\ working' = [working EXCEPT ![w] = Head(dashboardCh)]
  /\ dashboardCh' = Tail(dashboardCh)
  /\ UNCHANGED <<handlerVars, lastFrame, totalFrames, dropped, delivered,
                 tapeVars, done, alertVars, meterVars>>

recordReadingSync(w) ==
  /\ working[w] \notin {None, Gone}
  /\ LET r == working[w]
     IN /\ lastFrame' = [lastFrame EXCEPT ![r.pmu] = r.n]
        /\ totalFrames' = [totalFrames EXCEPT ![r.pmu] = @ + 1]
  /\ working' = [working EXCEPT ![w] = None]
  /\ UNCHANGED <<handlerVars, dashboardCh, dropped, delivered, tapeVars, done,
                 alertVars, meterVars>>

Quit(w) ==
  /\ done /\ working[w] = None
  /\ working' = [working EXCEPT ![w] = Gone]
  /\ UNCHANGED <<handlerVars, dashboardCh, lastFrame, totalFrames, dropped,
                 delivered, tapeVars, done, alertVars, meterVars>>

Cancel ==
  /\ ~ done /\ done' = TRUE
  /\ UNCHANGED <<handlerVars, boardVars, tapeVars, alertVars, meterVars>>

-----------------------------------------------------------------------------
(* The tape. *)
Capture(w) ==
  /\ taping[w] = None /\ captureCh # <<>>
  /\ taping' = [taping EXCEPT ![w] = Head(captureCh)]
  /\ captureCh' = Tail(captureCh)
  /\ UNCHANGED <<handlerVars, boardVars, tape, lastByPMU, lastGap, done, alertVars, meterVars>>

recordLocked(w) ==
  /\ taping[w] # None
  /\ Record(taping[w])
  /\ taping' = [taping EXCEPT ![w] = None]
  /\ UNCHANGED <<handlerVars, boardVars, captureCh, done, alertVars, meterVars>>

-----------------------------------------------------------------------------
Feed ==
  /\ AlertsNext(bound.clients)
  /\ UNCHANGED <<handlerVars, boardVars, tapeVars, done, meterVars>>

Rates ==
  /\ MeterNext
  /\ UNCHANGED <<handlerVars, boardVars, tapeVars, done, alertVars>>

Next ==
  \/ Cancel \/ Feed \/ Rates
  \/ \E t \in Threads : Raise(t)
  \/ \E p \in PMUs : Arrive(p) \/ HandleFrame(p) \/ RecordFrameAsync(p) \/ RecordReading(p)
  \/ \E w \in Workers : Take(w) \/ recordReadingSync(w) \/ Quit(w)
  \/ \E w \in TapeWorkers : Capture(w) \/ recordLocked(w)

(* The goroutines run; clients, cancels and what arrives may not come. *)
Fairness ==
  /\ \A t \in Threads :
       WF_dashVars(/\ Post(t)
                   /\ UNCHANGED <<handlerVars, boardVars, tapeVars, done, meterVars>>)
  /\ \A p \in PMUs : WF_dashVars(HandleFrame(p) \/ RecordFrameAsync(p) \/ RecordReading(p))
  /\ \A w \in Workers : WF_dashVars(Take(w) \/ recordReadingSync(w))
  /\ \A w \in TapeWorkers : WF_dashVars(Capture(w) \/ recordLocked(w))

Spec == Init /\ [][Next]_dashVars /\ Fairness

-----------------------------------------------------------------------------
(* However frames are rejected and queues fill, the tape has each PMU's     *)
(* frames in the order they came (output/frame_capture.go, RecordFrame-    *)
(* Async, recordLocked); and when rejected frames are dropped, no jump      *)
(* back that it counts is as long as twice MAX_CLOCK_SKEW, however the      *)
(* stamps err and datagrams are reordered.                                 *)
TapeKeepsOrder ==
  /\ \A i, j \in DOMAIN tape :
       i < j /\ tape[i].pmu = tape[j].pmu => tape[i].n < tape[j].n
  /\ dropRejected => \A p \in PMUs : lastGap[p] > -2 * MaxClockSkew

(* "time went backwards - should not happen" (output/frame_capture.go:63). *)
(* It does, with rejected frames dropped too: no run checks this one, see  *)
(* the README.                                                             *)
TapeNeverJumpsBack == dropRejected => \A p \in PMUs : lastGap[p] >= 0

(* Every reading handed to RecordReading reaches the inventory or is       *)
(* counted as dropped, again and again until the program is cancelled      *)
(* (monitoring/conversation.go:402).                                       *)
ShownSoFar == FoldFunctionOnSet(+, 0, totalFrames, PMUs)

DeliveredSoFar == FoldFunctionOnSet(+, 0, delivered, PMUs)

ReadingsShownOrCounted == []<>(done \/ DeliveredSoFar = ShownSoFar + dropped)
=============================================================================
