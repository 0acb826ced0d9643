------------------------------- MODULE Meters -------------------------------
(***************************************************************************)
(* The frame rate the dashboard shows (monitoring/fps.go and the fallbacks *)
(* of monitoring/conversation.go).  Frames are counted by their stamps     *)
(* over windows of at least a second of PMU time; rates are in 1/1000 fps, *)
(* times in ms.  The parser stamps every reading, so the branches for      *)
(* readings without a stamp are left out.                                  *)
(***************************************************************************)
EXTENDS Integers, FiniteSets, Sequences, SequencesExt

(* DATA_RATE of CFG-2 is frames per second or, below 0, seconds per frame. *)
cfgRateFPS(dataRate) ==
  IF dataRate > 0 THEN 1000 * dataRate
  ELSE IF dataRate < 0 THEN 1000 \div (-dataRate) ELSE 0

Tolerance(cfgRate) == LET share == cfgRate \div 20
                      IN IF share > 3000 THEN share ELSE 3000

Away(a, b) == IF a < b THEN b - a ELSE a - b

snapReportedFPS(measured, cfgRate) ==
  IF cfgRate <= 0 \/ measured <= 0 THEN measured
  ELSE IF Away(measured, cfgRate) <= Tolerance(cfgRate) THEN cfgRate
  ELSE measured

NoMeter == [started |-> FALSE, start |-> 0, count |-> 0, stamp |-> -1, fps |-> 0]

(* The meter with a window that has begun, counted so far up to a stamp. *)
Rate(start, count, stamp, fps) ==
  [started |-> TRUE, start |-> start, count |-> count, stamp |-> stamp, fps |-> fps]

(* One reading: its stamp, and the time since the one before it was         *)
(* recorded.  A pause, or a stamp from before the window, begins a new one; *)
(* a second of stamps closes one.                                          *)
Restarts(m, reading) ==
  ~ m.started \/ reading.gap > 750 \/ reading.stamp < m.start

Closes(m, reading) ==
  /\ ~ Restarts(m, reading) /\ reading.stamp # m.stamp
  /\ reading.stamp - m.start >= 1000 /\ m.count >= 1

Measured(m, reading, cfgRate) ==
  LET instant == snapReportedFPS((m.count * 1000 * 1000) \div (reading.stamp - m.start),
                                 cfgRate)
  IN IF m.fps <= 0 \/ (cfgRate > 0 /\ instant = cfgRate) THEN instant
     ELSE snapReportedFPS((35 * m.fps + 65 * instant) \div 100, cfgRate)

(* Mutant of NextWindow: the count goes on. *)
CountGoesOn(m, stamp, fps) == Rate(stamp, m.count + 1, stamp, fps)

NextWindow(m, stamp, fps) == Rate(stamp, 1, stamp, fps)

noteUniqueStampFPS(m, reading, cfgRate) ==
  LET new == reading.stamp # m.stamp
  IN IF Restarts(m, reading)
     THEN Rate(reading.stamp, IF new THEN 1 ELSE 0, reading.stamp, m.fps)
     ELSE IF Closes(m, reading)
     THEN NextWindow(m, reading.stamp, Measured(m, reading, cfgRate))
     ELSE IF new THEN Rate(m.start, m.count + 1, reading.stamp, m.fps) ELSE m

(* What the snapshot shows: what was measured or else DATA_RATE. *)
ApproxFPS(m, dataRate) == IF m.fps <= 0 THEN cfgRateFPS(dataRate) ELSE m.fps

-----------------------------------------------------------------------------
(* A stream that loses no frame, on its way to the meter.  The workers of  *)
(* the dashboard take the readings in turn and record them as they come to *)
(* it; the connection may pause.                                           *)

CONSTANTS
  AtOnce,       \* bound: readings that workers hold at once
  Overtakings,  \* bound: readings recorded before an earlier one
  Pauses,       \* bound: pauses of the connection
  Windows       \* bound: windows of a second that the stream lasts

VARIABLES
  dataRate,    \* DATA_RATE of the PMU's CFG-2
  meter,       \* the rate meter of its runtime
  next,        \* the number of the reading that is taken next
  held,        \* the readings that workers have taken and not recorded
  noted,       \* history: the reading recorded last, 0 if none
  steady,      \* history: the window's readings have been recorded in turn
  lastSteady,  \* history: so were those of the window that closed last
  overtaken,   \* for the bound on Overtakings
  paused       \* for the bound on Pauses

meterVars ==
  <<dataRate, meter, next, held, noted, steady, lastSteady, overtaken, paused>>

MeterInit(rates) ==
  /\ dataRate \in rates
  /\ meter = NoMeter /\ next = 1 /\ held = {} /\ noted = 0
  /\ steady = TRUE /\ lastSteady = TRUE
  /\ overtaken = 0 /\ paused = 0

(* The stamp of reading n, on the grid of the PMU's rate; what it has below *)
(* a millisecond is cut off.                                               *)
StampOf(n) ==
  5000 + (IF dataRate > 0 THEN (n * 1000) \div dataRate ELSE n * 1000 * (-dataRate))

Length ==
  IF dataRate > 0 THEN Windows * dataRate + 4 ELSE IF dataRate < 0 THEN 6 ELSE 0

(* A worker takes the next reading. *)
TakeReading ==
  /\ next <= Length /\ Cardinality(held) < AtOnce
  /\ next' = next + 1 /\ held' = held \cup {next}
  /\ UNCHANGED <<dataRate, meter, noted, steady, lastSteady, overtaken, paused>>

(* recordReadingSync notes reading n, some time after the one before it: of *)
(* this the meter asks only whether it is more than 750 ms.                *)
Note(n) ==
  \E gap \in {10, 2000} :
    LET reading == [stamp |-> StampOf(n), gap |-> gap]
        inTurn == steady /\ n = noted + 1
        closes == Closes(meter, reading)
    IN
    /\ paused' = paused + (IF gap > 750 THEN 1 ELSE 0)
    /\ paused' <= Pauses
    /\ meter' = noteUniqueStampFPS(meter, reading, cfgRateFPS(dataRate))
    /\ noted' = n
    /\ steady' = (Restarts(meter, reading) \/ closes \/ inTurn)
    /\ lastSteady' = IF closes THEN inTurn ELSE lastSteady

(* The one that took it records it, before or after the ones taken earlier. *)
RecordHeld(n) ==
  /\ Note(n) /\ held' = held \ {n}
  /\ overtaken' = overtaken + (IF \E earlier \in held : earlier < n THEN 1 ELSE 0)
  /\ overtaken' <= Overtakings
  /\ UNCHANGED <<dataRate, next>>

MeterNext == TakeReading \/ \E n \in held : RecordHeld(n)

(* The rate shown recovers: once the readings of a window have been        *)
(* recorded in turn the dashboard shows the advertised rate, whatever was  *)
(* overtaken before or since, and wherever the connection has paused, until *)
(* a window closes that was not (monitoring/fps.go, noteUniqueStampFPS).   *)
SteadyWindowShown == lastSteady => ApproxFPS(meter, dataRate) = cfgRateFPS(dataRate)

(* snapReportedFPS exists so that the dashboard "does not look like a fault *)
(* when no frames were lost" (monitoring/fps.go:34).  Enough overtakings in *)
(* one window do look like one: no run checks this one, see the README.    *)
NoLossNoFault == ApproxFPS(meter, dataRate) = cfgRateFPS(dataRate)
=============================================================================
