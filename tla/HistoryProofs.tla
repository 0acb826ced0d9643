--------------------------- MODULE HistoryProofs ---------------------------
(***************************************************************************)
(* The history, for any PMUs, layouts, capacities and batch size: types    *)
(* and bounds, the layouts rows name, and that the table is a FrameLog.    *)
(***************************************************************************)
EXTENDS History, SequenceTheorems, FiniteSetTheorems, TLAPS

(* A receiver past its handshake has a profile, and it is the one cached   *)
(* unless it could not be stored.                                          *)
ProfilesCached ==
  \A p \in PMUs : session[p] \in {"ready", "live"} =>
    /\ profile[p] \in Layouts
    /\ p \notin failed => cached[p] = profile[p]

(* Rows written, in the batch and in the channel name their layouts.       *)
NamesLayout(rows, except) ==
  \A i \in DOMAIN rows : rows[i].pmu \notin except => rows[i].cfg = rows[i].layout

RowsNameLayouts ==
  NamesLayout(table, failed) /\ NamesLayout(buf, failed) /\ NamesLayout(frames, failed)

(* The frames of a PMU are in their order, in each of table, batch and     *)
(* channel and from one to the next, and all have arrived.                 *)
Sorted(rows) ==
  \A i, j \in DOMAIN rows : i < j /\ rows[i].pmu = rows[j].pmu => rows[i].n < rows[j].n

Precede(rows, more) ==
  \A i \in DOMAIN rows, j \in DOMAIN more :
    rows[i].pmu = more[j].pmu => rows[i].n < more[j].n

UpTo(rows, latest) == \A i \in DOMAIN rows : rows[i].n <= latest[rows[i].pmu]

RowsInOrder ==
  /\ Sorted(table) /\ Sorted(buf) /\ Sorted(frames)
  /\ Precede(table, buf) /\ Precede(table, frames) /\ Precede(buf, frames)
  /\ UpTo(table, arrived) /\ UpTo(buf, arrived) /\ UpTo(frames, arrived)

HistoryInv == TypeOK /\ ProfilesCached /\ RowsNameLayouts /\ RowsInOrder

-----------------------------------------------------------------------------
(* Lemmas about sequences of rows. *)

LEMMA ConcatRows ==
  ASSUME NEW s \in Seq(Frame), NEW t \in Seq(Frame)
  PROVE  /\ s \o t \in Seq(Frame)
         /\ Len(s) \in Nat /\ Len(t) \in Nat
         /\ DOMAIN s = 1 .. Len(s) /\ DOMAIN t = 1 .. Len(t)
         /\ DOMAIN (s \o t) = 1 .. Len(s) + Len(t)
         /\ \A i \in 1 .. Len(s) : (s \o t)[i] = s[i]
         /\ \A i \in Len(s) + 1 .. Len(s) + Len(t) :
              (s \o t)[i] = t[i - Len(s)] /\ i - Len(s) \in 1 .. Len(t)
<1>1. /\ Len(s) \in Nat /\ Len(t) \in Nat
      /\ DOMAIN s = 1 .. Len(s) /\ DOMAIN t = 1 .. Len(t)
  BY LenProperties
<1> QED
  BY <1>1, ConcatProperties

LEMMA SortedConcat ==
  ASSUME NEW s \in Seq(Frame), NEW t \in Seq(Frame), Sorted(s), Sorted(t), Precede(s, t)
  PROVE  Sorted(s \o t)
<1> DEFINE u == s \o t
<1>1. /\ Len(s) \in Nat /\ Len(t) \in Nat /\ DOMAIN u = 1 .. Len(s) + Len(t)
      /\ DOMAIN s = 1 .. Len(s) /\ DOMAIN t = 1 .. Len(t)
      /\ \A i \in 1 .. Len(s) : u[i] = s[i]
      /\ \A i \in Len(s) + 1 .. Len(s) + Len(t) :
           u[i] = t[i - Len(s)] /\ i - Len(s) \in 1 .. Len(t)
  BY ConcatRows
<1> HIDE DEF u
<1> SUFFICES ASSUME NEW i \in DOMAIN u, NEW j \in DOMAIN u, i < j, u[i].pmu = u[j].pmu
             PROVE  u[i].n < u[j].n
  BY DEF Sorted, u
<1>2. CASE j <= Len(s)
  BY <1>1, <1>2 DEF Sorted
<1>3. CASE i <= Len(s) /\ j > Len(s)
  BY <1>1, <1>3 DEF Precede
<1>4. CASE i > Len(s)
  <2>1. /\ u[i] = t[i - Len(s)] /\ i - Len(s) \in DOMAIN t
        /\ u[j] = t[j - Len(s)] /\ j - Len(s) \in DOMAIN t
        /\ i - Len(s) < j - Len(s)
    BY <1>1, <1>4
  <2> QED
    BY <2>1 DEF Sorted
<1> QED
  BY <1>1, <1>2, <1>3, <1>4

LEMMA PrecedeConcat ==
  ASSUME NEW s \in Seq(Frame), NEW t \in Seq(Frame), NEW u
  PROVE  /\ Precede(s, u) /\ Precede(t, u) => Precede(s \o t, u)
         /\ Precede(u, s) /\ Precede(u, t) => Precede(u, s \o t)
<1>1. /\ Len(s) \in Nat /\ Len(t) \in Nat /\ DOMAIN (s \o t) = 1 .. Len(s) + Len(t)
      /\ DOMAIN s = 1 .. Len(s) /\ DOMAIN t = 1 .. Len(t)
  BY ConcatRows
<1>2. ASSUME NEW i \in DOMAIN (s \o t)
      PROVE  \/ i \in DOMAIN s /\ (s \o t)[i] = s[i]
             \/ i - Len(s) \in DOMAIN t /\ (s \o t)[i] = t[i - Len(s)]
  BY <1>1, ConcatRows
<1> QED
  BY <1>2 DEF Precede

LEMMA EachConcat ==
  ASSUME NEW s \in Seq(Frame), NEW t \in Seq(Frame), NEW latest, NEW except
  PROVE  /\ UpTo(s, latest) /\ UpTo(t, latest) => UpTo(s \o t, latest)
         /\ NamesLayout(s, except) /\ NamesLayout(t, except) => NamesLayout(s \o t, except)
BY ConcatRows DEF UpTo, NamesLayout

(* A batch of no frames, or of one. *)
LEMMA NoRows ==
  ASSUME NEW s \in Seq(Frame), NEW latest, NEW except
  PROVE  /\ <<>> \in Seq(Frame) /\ Len(<<>>) = 0
         /\ Sorted(<<>>) /\ UpTo(<<>>, latest) /\ NamesLayout(<<>>, except)
         /\ Precede(<<>>, s) /\ Precede(s, <<>>)
BY EmptySeq DEF Sorted, UpTo, NamesLayout, Precede

LEMMA OneRow ==
  ASSUME NEW f \in Frame
  PROVE  <<f>> \in Seq(Frame) /\ Sorted(<<f>>)
BY DEF Sorted

(* The first frame of a channel, and what is left behind it. *)
LEMMA TakenRow ==
  ASSUME NEW s \in Seq(Frame), s # <<>>, Sorted(s), NEW latest, NEW except,
         UpTo(s, latest), NamesLayout(s, except)
  PROVE  /\ Head(s) \in Frame /\ <<Head(s)>> \in Seq(Frame) /\ Tail(s) \in Seq(Frame)
         /\ Len(Tail(s)) = Len(s) - 1 /\ Len(s) \in Nat \ {0}
         /\ Sorted(<<Head(s)>>) /\ Sorted(Tail(s)) /\ Precede(<<Head(s)>>, Tail(s))
         /\ UpTo(<<Head(s)>>, latest) /\ UpTo(Tail(s), latest)
         /\ NamesLayout(<<Head(s)>>, except) /\ NamesLayout(Tail(s), except)
<1>1. /\ Len(s) \in Nat \ {0} /\ Head(s) \in Frame /\ Head(s) = s[1] /\ DOMAIN s = 1 .. Len(s)
      /\ Tail(s) \in Seq(Frame) /\ Len(Tail(s)) = Len(s) - 1
      /\ \A i \in 1 .. Len(s) - 1 : Tail(s)[i] = s[i + 1]
      /\ DOMAIN Tail(s) = 1 .. Len(s) - 1
  BY HeadTailProperties, EmptySeq, LenProperties
<1>2. /\ <<Head(s)>> \in Seq(Frame) /\ Sorted(<<Head(s)>>)
      /\ DOMAIN <<Head(s)>> = {1} /\ <<Head(s)>>[1] = s[1]
  BY <1>1, OneRow
<1> DEFINE h == <<Head(s)>>
           t == Tail(s)
<1> HIDE DEF h, t
<1>3. Sorted(t) /\ Precede(h, t)
  <2>1. DOMAIN t = 1 .. Len(s) - 1 /\ \A i \in 1 .. Len(s) - 1 : t[i] = s[i + 1]
    BY <1>1 DEF t
  <2>2. Sorted(t)
    BY <1>1, <2>1 DEF Sorted
  <2>3. Precede(h, t)
    BY <1>1, <1>2, <2>1, SMTT(30) DEF Sorted, Precede, h
  <2> QED
    BY <2>2, <2>3
<1>4. UpTo(h, latest) /\ UpTo(t, latest)
  BY <1>1, <1>2 DEF UpTo, h, t
<1>5. NamesLayout(h, except) /\ NamesLayout(t, except)
  BY <1>1, <1>2 DEF NamesLayout, h, t
<1> QED
  BY <1>1, <1>2, <1>3, <1>4, <1>5 DEF h, t

LEMMA PrecedeTaken ==
  ASSUME NEW s \in Seq(Frame), s # <<>>, NEW r, Precede(r, s)
  PROVE  Precede(r, <<Head(s)>>) /\ Precede(r, Tail(s))
<1>1. /\ Len(s) \in Nat \ {0} /\ Head(s) = s[1] /\ DOMAIN s = 1 .. Len(s)
      /\ \A i \in 1 .. Len(s) - 1 : Tail(s)[i] = s[i + 1]
      /\ DOMAIN Tail(s) = 1 .. Len(s) - 1
      /\ DOMAIN <<Head(s)>> = {1} /\ <<Head(s)>>[1] = s[1]
  BY HeadTailProperties, EmptySeq, LenProperties
<1> QED
  BY <1>1 DEF Precede

-----------------------------------------------------------------------------
(* Types, and the bounds of queues and batch. *)

ReceiverTypes ==
  /\ profile \in [PMUs -> Layouts \cup {NoLayout}]
  /\ cached \in [PMUs -> Layouts \cup {NoLayout}]
  /\ quality \in [PMUs -> {"unseen", "ok", "bad"}]
  /\ tally \in [PMUs -> {"none", "enqueued", "dropped"}]
  /\ arrived \in [PMUs -> 0 .. MaxFrames] /\ configs \in [PMUs -> 0 .. MaxConfigs]
  /\ session \in [PMUs -> {"dial", "ready", "live", "ended"}]
  /\ failed \subseteq PMUs

RowTypes ==
  /\ frames \in Seq(Frame) /\ Len(frames) <= QueueSize
  /\ buf \in Seq(Frame) /\ Len(buf) < BatchSize
  /\ table \in Seq(Frame)

CounterTypes ==
  enqueued \in Nat /\ dropped \in Nat /\ written \in Nat /\ copyErrors \in Nat

PhaseTypes ==
  /\ events \in 0 .. EventQueue
  /\ loop \in {"select", "events", "drain", "lastEvents", "ended"}
  /\ pool \in BOOLEAN /\ ctxDone \in BOOLEAN /\ closed \in BOOLEAN
  /\ stops \in 0 .. 2 * Cardinality(PMUs)

LEMMA TypeParts ==
  TypeOK <=> ReceiverTypes /\ RowTypes /\ CounterTypes /\ PhaseTypes
<1>1. {enqueued, dropped, written, copyErrors} \subseteq Nat <=> CounterTypes
  BY DEF CounterTypes
<1> QED
  BY <1>1 DEF TypeOK, ReceiverTypes, RowTypes, PhaseTypes

LEMMA TypePartsNext ==
  TypeOK' <=> ReceiverTypes' /\ RowTypes' /\ CounterTypes' /\ PhaseTypes'
BY TypeParts, PTL

LEMMA Sizes ==
  /\ QueueSize \in Nat \ {0} /\ EventQueue \in Nat \ {0} /\ BatchSize \in Nat \ {0}
  /\ MaxFrames \in Nat /\ MaxConfigs \in Nat /\ NoLayout \notin Layouts
  /\ Cardinality(PMUs) \in Nat
BY HistoryAssumption, FS_CardinalityType

LEMMA InitHistory == Init => HistoryInv
<1> SUFFICES ASSUME Init PROVE HistoryInv
  OBVIOUS
<1>1. frames = <<>> /\ buf = <<>> /\ table = <<>>
  BY DEF Init
<1>2. RowTypes
  BY <1>1, Sizes, EmptySeq DEF RowTypes
<1>3. ReceiverTypes
  BY Sizes DEF Init, ReceiverTypes
<1>4. CounterTypes /\ PhaseTypes
  <2>1. CounterTypes
    BY DEF Init, CounterTypes
  <2>2. pool \in BOOLEAN /\ ctxDone \in BOOLEAN /\ closed \in BOOLEAN
    BY DEF Init
  <2>3. /\ stops \in 0 .. 2 * Cardinality(PMUs) /\ events \in 0 .. EventQueue
        /\ loop \in {"select", "events", "drain", "lastEvents", "ended"}
    <3> DEFINE c == Cardinality(PMUs)
    <3>1. c \in Nat /\ stops = 2 * c
      BY Sizes DEF Init
    <3> HIDE DEF c
    <3>2. stops \in 0 .. 2 * c
      BY <3>1
    <3> QED
      BY <3>2, Sizes DEF Init, c
  <2> QED
    BY <2>1, <2>2, <2>3 DEF PhaseTypes
<1>5. ProfilesCached
  BY DEF Init, ProfilesCached
<1>6. RowsNameLayouts /\ RowsInOrder
  BY <1>1, EmptySeq, NoRows DEF RowsNameLayouts, RowsInOrder
<1> QED
  BY <1>2, <1>3, <1>4, <1>5, <1>6, TypeParts DEF HistoryInv

LEMMA EmittedType == \A n \in 0 .. EventQueue : Emitted(n) \in 0 .. EventQueue
BY Sizes DEF Emitted

LEMMA NoteProfileType ==
  ASSUME ReceiverTypes, NEW p \in PMUs, NEW l \in Layouts, NEW n \in 0 .. EventQueue,
         NoteProfile(p, l, n)
  PROVE  /\ cached' \in [PMUs -> Layouts \cup {NoLayout}]
         /\ events' \in 0 .. EventQueue
         /\ failed \subseteq failed' /\ failed' \subseteq PMUs
         /\ p \notin failed' => cached'[p] = l
         /\ \A q \in PMUs \ {p} : cached'[q] = cached[q]
BY EmittedType DEF ReceiverTypes, NoteProfile

(* What a flush does to table and counters. *)
LEMMA FlushType ==
  ASSUME RowTypes, CounterTypes, NEW batch \in Seq(Frame), flushFrames(batch)
  PROVE  /\ table' = table \/ table' = table \o batch
         /\ table' \in Seq(Frame)
         /\ CounterTypes'
         /\ pool' \in {pool, TRUE, FALSE}
<1>1. Len(batch) \in Nat /\ table \o batch \in Seq(Frame)
  BY ConcatProperties, LenProperties DEF RowTypes
<1>2. table' = table \/ table' = table \o batch
  BY DEF flushFrames
<1>3. CounterTypes'
  BY <1>1 DEF CounterTypes, flushFrames, counters
<1>4. pool' \in {pool, TRUE, FALSE}
  BY DEF flushFrames
<1> QED
  BY <1>1, <1>2, <1>3, <1>4 DEF RowTypes

(* A CFG-2 frame or NoteBecameLive: the cache follows the profile. *)
LEMMA ReceiverType ==
  ASSUME ReceiverTypes, ProfilesCached, events \in 0 .. EventQueue, NEW p \in PMUs, Receiver(p)
  PROVE  /\ ReceiverTypes' /\ ProfilesCached' /\ failed \subseteq failed'
         /\ events' \in 0 .. EventQueue
<1> USE DEF ReceiverTypes, ProfilesCached, InSession, Goto, receiverEnv, recorderVars, counters,
            mainVars
<1>1. ASSUME NEW l \in Layouts, Handshake(p, l) \/ MidstreamConfig(p, l)
      PROVE  /\ ReceiverTypes' /\ ProfilesCached' /\ failed \subseteq failed'
             /\ events' \in 0 .. EventQueue
  <2>1. /\ profile' = [profile EXCEPT ![p] = l] /\ configs' = [configs EXCEPT ![p] = @ + 1]
        /\ configs[p] < MaxConfigs
        /\ UNCHANGED <<quality, tally, arrived>>
        /\ \/ session' = [session EXCEPT ![p] = "ready"] 
           \/ session' = session
        /\ NoteProfile(p, l, events)
    BY <1>1 DEF Handshake, MidstreamConfig, ReceiveConfig
  <2>2. /\ cached' \in [PMUs -> Layouts \cup {NoLayout}]
        /\ events' \in 0 .. EventQueue
        /\ failed \subseteq failed' /\ failed' \subseteq PMUs
        /\ p \notin failed' => cached'[p] = l
        /\ \A q \in PMUs \ {p} : cached'[q] = cached[q]
    BY <2>1, NoteProfileType
  <2>3. configs' \in [PMUs -> 0 .. MaxConfigs]
    BY <2>1, Sizes
  <2>4. ReceiverTypes'
    BY <2>1, <2>2, <2>3
  <2>5. ProfilesCached'
    BY <2>1, <2>2
  <2> QED
    BY <2>2, <2>4, <2>5
<1>2. CASE BecomeLive(p)
  <2>1. /\ profile[p] \in Layouts /\ Emitted(events) \in 0 .. EventQueue
        /\ NoteProfile(p, profile[p], Emitted(events))
    BY <1>2, EmittedType DEF BecomeLive
  <2>2. /\ cached' \in [PMUs -> Layouts \cup {NoLayout}]
        /\ events' \in 0 .. EventQueue
        /\ failed \subseteq failed' /\ failed' \subseteq PMUs
        /\ p \notin failed' => cached'[p] = profile[p]
        /\ \A q \in PMUs \ {p} : cached'[q] = cached[q]
    BY <2>1, NoteProfileType
  <2> QED
    BY <1>2, <2>1, <2>2 DEF BecomeLive
<1>3. ASSUME NEW ok \in {"ok", "bad"}, ReceiveData(p, ok)
      PROVE  /\ ReceiverTypes' /\ ProfilesCached' /\ failed \subseteq failed'
             /\ events' \in 0 .. EventQueue
  <2>1. /\ arrived[p] < MaxFrames /\ arrived' = [arrived EXCEPT ![p] = @ + 1]
        /\ quality' = [quality EXCEPT ![p] = ok]
        /\ tally' \in {[tally EXCEPT ![p] = "enqueued"], [tally EXCEPT ![p] = "dropped"]}
        /\ UNCHANGED <<profile, cached, configs, failed, session>>
    BY <1>3 DEF ReceiveData
  <2>2. events' \in 0 .. EventQueue
    BY <1>3, EmittedType DEF ReceiveData
  <2>3. arrived' \in [PMUs -> 0 .. MaxFrames]
    BY <2>1, Sizes
  <2>4. /\ quality' \in [PMUs -> {"unseen", "ok", "bad"}]
        /\ tally' \in [PMUs -> {"none", "enqueued", "dropped"}]
    BY <2>1
  <2> QED
    BY <2>1, <2>2, <2>3, <2>4
<1>4. CASE Count(p)
  BY <1>4 DEF Count
<1>5. CASE LeaveLive(p) \/ GiveUp(p)
  BY <1>5, EmittedType DEF LeaveLive, GiveUp
<1> QED
  BY <1>1, <1>2, <1>3, <1>4, <1>5 DEF Receiver

-----------------------------------------------------------------------------
(* Rows: where they are, what they name and in which order. *)

LEMMA AppendedRow ==
  ASSUME NEW s \in Seq(Frame), NEW f \in Frame
  PROVE  Append(s, f) = s \o <<f>> /\ Len(Append(s, f)) = Len(s) + 1
BY AppendProperties, ConcatProperties

LEMMA UpToGrows ==
  ASSUME NEW s \in Seq(Frame), NEW a \in [PMUs -> Nat], NEW b \in [PMUs -> Nat],
         UpTo(s, a), \A q \in PMUs : a[q] <= b[q]
  PROVE  UpTo(s, b)
<1> SUFFICES ASSUME NEW i \in DOMAIN s PROVE s[i].n <= b[s[i].pmu]
  BY DEF UpTo
<1>1. s[i] \in Frame
  BY LenProperties, ElementOfSeq
<1>2. s[i].n \in Nat /\ s[i].pmu \in PMUs
  BY <1>1, Sizes DEF Frame
<1>3. s[i].n <= a[s[i].pmu]
  BY DEF UpTo
<1>4. /\ a[s[i].pmu] \in Nat /\ b[s[i].pmu] \in Nat
      /\ a[s[i].pmu] <= b[s[i].pmu]
  BY <1>2
<1> QED
  BY <1>2, <1>3, <1>4

LEMMA NamesLayoutShrinks ==
  ASSUME NEW s, NEW few, NEW many, few \subseteq many, NamesLayout(s, few)
  PROVE  NamesLayout(s, many)
BY DEF NamesLayout

(* What of the rows survives a step that leaves them alone. *)
LEMMA RowsStay ==
  ASSUME RowTypes, RowsNameLayouts, RowsInOrder, UNCHANGED <<frames, buf, table>>,
         failed \subseteq failed',
         arrived \in [PMUs -> Nat], arrived' \in [PMUs -> Nat],
         \A q \in PMUs : arrived[q] <= arrived'[q]
  PROVE  RowTypes' /\ RowsNameLayouts' /\ RowsInOrder'
<1>1. RowTypes'
  BY DEF RowTypes
<1>2. RowsNameLayouts'
  BY NamesLayoutShrinks DEF RowsNameLayouts
<1>3. UpTo(table, arrived') /\ UpTo(buf, arrived') /\ UpTo(frames, arrived')
  BY UpToGrows DEF RowsInOrder, RowTypes
<1>4. RowsInOrder'
  BY <1>3 DEF RowsInOrder
<1> QED
  BY <1>1, <1>2, <1>4

(* A frame joins the channel: the latest of its PMU, with the layout that  *)
(* it was decoded with, which is the cached one unless storing it failed.  *)
LEMMA RowsEnqueued ==
  ASSUME TypeOK, ProfilesCached, RowsNameLayouts, RowsInOrder,
         NEW p \in PMUs, NEW ok, ReceiveData(p, ok), Len(frames) < QueueSize
  PROVE  RowTypes' /\ RowsNameLayouts' /\ RowsInOrder'
<1> DEFINE f == [pmu |-> p, n |-> arrived[p] + 1, layout |-> profile[p], cfg |-> cached[p]]
<1>0. ReceiverTypes /\ RowTypes
  BY TypeParts
<1>1. /\ arrived[p] < MaxFrames /\ session[p] = "live"
      /\ arrived' = [arrived EXCEPT ![p] = @ + 1]
      /\ UNCHANGED <<failed, buf, table>>
      /\ frames' = Append(frames, f)
  BY DEF ReceiveData, InSession
<1>2. profile[p] \in Layouts /\ (p \notin failed => cached[p] = profile[p])
  BY <1>1 DEF ProfilesCached
<1>3. f \in Frame
  <2>1. arrived[p] \in 0 .. MaxFrames /\ cached[p] \in Layouts \cup {NoLayout}
    BY <1>0 DEF ReceiverTypes
  <2>2. arrived[p] + 1 \in 1 .. MaxFrames
    BY <2>1, <1>1, Sizes
  <2> QED
    BY <1>2, <2>1, <2>2 DEF Frame
<1>4. /\ arrived \in [PMUs -> Nat] /\ arrived' \in [PMUs -> Nat]
      /\ arrived'[p] = arrived[p] + 1 /\ arrived[p] \in Nat
      /\ \A q \in PMUs : arrived[q] <= arrived'[q]
  BY <1>0, <1>1, Sizes DEF ReceiverTypes
<1>5. /\ f.pmu = p /\ f.n = arrived[p] + 1 /\ f.layout = profile[p] /\ f.cfg = cached[p]
  OBVIOUS
<1> HIDE DEF f
<1>6. /\ frames' = frames \o <<f>> /\ Len(frames') = Len(frames) + 1
      /\ <<f>> \in Seq(Frame) /\ Sorted(<<f>>)
      /\ DOMAIN <<f>> = {1} /\ <<f>>[1] = f
  BY <1>0, <1>1, <1>3, AppendedRow, OneRow DEF RowTypes
<1>7. ASSUME NEW s \in Seq(Frame), UpTo(s, arrived)
      PROVE  Precede(s, <<f>>) /\ UpTo(s, arrived')
  <2>1. UpTo(s, arrived')
    BY <1>4, <1>7, UpToGrows
  <2>2. ASSUME NEW i \in DOMAIN s, s[i].pmu = f.pmu
        PROVE  s[i].n < f.n
    <3>1. s[i] \in Frame
      BY LenProperties, ElementOfSeq
    <3>2. s[i].n \in Nat
      BY <3>1, Sizes DEF Frame
    <3>3. s[i].n <= arrived[p]
      BY <1>7, <1>5, <2>2 DEF UpTo
    <3> QED
      BY <3>2, <3>3, <1>4, <1>5
  <2> QED
    BY <2>1, <2>2, <1>6 DEF Precede
<1>8. UpTo(<<f>>, arrived') /\ NamesLayout(<<f>>, failed')
  BY <1>1, <1>2, <1>4, <1>5, <1>6 DEF UpTo, NamesLayout
<1>9. RowTypes'
  <2>1. Len(frames) \in Nat /\ QueueSize \in Nat /\ Len(frames') <= QueueSize
    BY <1>0, <1>6, Sizes, LenProperties DEF RowTypes
  <2>2. frames' \in Seq(Frame)
    BY <1>0, <1>6, ConcatRows DEF RowTypes
  <2> QED
    BY <1>0, <1>1, <2>1, <2>2 DEF RowTypes
<1>10. RowsNameLayouts'
  BY <1>0, <1>1, <1>6, <1>8, EachConcat DEF RowsNameLayouts, RowTypes
<1>11. Sorted(frames') /\ UpTo(frames', arrived')
  <2>1. UpTo(frames, arrived') /\ Precede(frames, <<f>>)
    BY <1>0, <1>7 DEF RowsInOrder, RowTypes
  <2> QED
    BY <1>0, <1>6, <1>8, <2>1, SortedConcat, EachConcat DEF RowsInOrder, RowTypes
<1>12. Precede(table', frames') /\ Precede(buf', frames')
  <2>1. Precede(table, <<f>>) /\ Precede(buf, <<f>>)
    BY <1>0, <1>7 DEF RowsInOrder, RowTypes
  <2> QED
    BY <1>0, <1>1, <1>6, <2>1, PrecedeConcat DEF RowsInOrder, RowTypes
<1>13. UpTo(table', arrived') /\ UpTo(buf', arrived')
  BY <1>0, <1>1, <1>7 DEF RowsInOrder, RowTypes
<1> QED
  BY <1>1, <1>9, <1>10, <1>11, <1>12, <1>13 DEF RowsInOrder

(* A batch, flushed or not, goes to the end of the table or is lost.       *)
LEMMA RowsFlushed ==
  ASSUME RowTypes, CounterTypes, NEW batch \in Seq(Frame), flushFrames(batch),
         Sorted(table), Sorted(batch), Precede(table, batch),
         UpTo(table, arrived), UpTo(batch, arrived),
         NamesLayout(table, failed), NamesLayout(batch, failed),
         NEW rest, Precede(table, rest), Precede(batch, rest)
  PROVE  /\ Sorted(table') /\ Precede(table', rest) /\ Precede(table', <<>>)
         /\ UpTo(table', arrived) /\ NamesLayout(table', failed)
<1>1. (table' = table \/ table' = table \o batch) /\ table' \in Seq(Frame)
  BY FlushType
<1>2. Sorted(table') /\ Precede(table', rest)
  BY <1>1, SortedConcat, PrecedeConcat DEF RowTypes
<1>3. UpTo(table', arrived) /\ NamesLayout(table', failed)
  BY <1>1, EachConcat DEF RowTypes
<1> QED
  BY <1>1, <1>2, <1>3, NoRows

(* The loop flushes its whole batch. *)
LEMMA BatchFlushed ==
  ASSUME TypeOK, RowsNameLayouts, RowsInOrder, flushFrames(buf), buf' = <<>>,
         UNCHANGED <<frames, arrived, failed>>
  PROVE  RowTypes' /\ CounterTypes' /\ RowsNameLayouts' /\ RowsInOrder'
<1>1. RowTypes /\ CounterTypes
  BY TypeParts
<1>2. table' \in Seq(Frame) /\ CounterTypes'
  BY <1>1, FlushType DEF RowTypes
<1>3. /\ Sorted(table') /\ Precede(table', frames) /\ Precede(table', <<>>)
      /\ UpTo(table', arrived) /\ NamesLayout(table', failed)
  BY <1>1, RowsFlushed DEF RowTypes, RowsInOrder, RowsNameLayouts
<1>4. RowTypes'
  BY <1>1, <1>2, Sizes, EmptySeq DEF RowTypes
<1>5. RowsNameLayouts' /\ RowsInOrder'
  BY <1>1, <1>3, NoRows DEF RowTypes, RowsInOrder, RowsNameLayouts
<1> QED
  BY <1>2, <1>4, <1>5

(* The loop takes the first frame of the channel into its batch.           *)
LEMMA RowsTaken ==
  ASSUME TypeOK, RowsNameLayouts, RowsInOrder, NEW at, TakeFrame(at)
  PROVE  RowTypes' /\ CounterTypes' /\ RowsNameLayouts' /\ RowsInOrder'
<1> DEFINE h == <<Head(frames)>>
           filled == Append(buf, Head(frames))
<1>0. RowTypes /\ CounterTypes
  BY TypeParts
<1>1. /\ frames # <<>> /\ frames' = Tail(frames) /\ UNCHANGED <<arrived, failed>>
      /\ \/ /\ Len(filled) >= BatchSize /\ buf' = <<>> /\ flushFrames(filled)
         \/ /\ ~ (Len(filled) >= BatchSize) /\ buf' = filled
            /\ UNCHANGED <<table, counters>>
  BY DEF TakeFrame, loopEnv, recorderVars
<1>2. /\ Head(frames) \in Frame /\ h \in Seq(Frame) /\ Tail(frames) \in Seq(Frame)
      /\ Len(Tail(frames)) = Len(frames) - 1 /\ Len(frames) \in Nat \ {0}
      /\ Sorted(h) /\ Sorted(Tail(frames)) /\ Precede(h, Tail(frames))
      /\ UpTo(h, arrived) /\ UpTo(Tail(frames), arrived)
      /\ NamesLayout(h, failed) /\ NamesLayout(Tail(frames), failed)
  BY <1>0, <1>1, TakenRow DEF RowTypes, RowsInOrder, RowsNameLayouts
<1>3. /\ Precede(table, h) /\ Precede(table, Tail(frames))
      /\ Precede(buf, h) /\ Precede(buf, Tail(frames))
  BY <1>0, <1>1, PrecedeTaken DEF RowTypes, RowsInOrder
<1>4. filled = buf \o h /\ Len(filled) = Len(buf) + 1 /\ filled \in Seq(Frame)
  BY <1>0, <1>2, AppendedRow, ConcatRows DEF RowTypes
<1> HIDE DEF h, filled
<1>5. /\ Sorted(filled) /\ Precede(table, filled) /\ Precede(filled, Tail(frames))
      /\ UpTo(filled, arrived) /\ NamesLayout(filled, failed)
  <2>1. Sorted(filled) /\ Precede(table, filled) /\ Precede(filled, Tail(frames))
    BY <1>0, <1>2, <1>3, <1>4, SortedConcat, PrecedeConcat DEF RowTypes, RowsInOrder
  <2>2. UpTo(filled, arrived) /\ NamesLayout(filled, failed)
    BY <1>0, <1>2, <1>4, EachConcat DEF RowTypes, RowsInOrder, RowsNameLayouts
  <2> QED
    BY <2>1, <2>2
<1>6. Len(frames') <= QueueSize /\ frames' \in Seq(Frame)
  BY <1>0, <1>1, <1>2, Sizes DEF RowTypes
<1>7. CASE /\ Len(filled) >= BatchSize /\ buf' = <<>> /\ flushFrames(filled)
  <2>1. table' \in Seq(Frame) /\ CounterTypes'
    BY <1>0, <1>4, <1>7, FlushType
  <2>2. /\ Sorted(table') /\ Precede(table', Tail(frames)) /\ Precede(table', <<>>)
        /\ UpTo(table', arrived) /\ NamesLayout(table', failed)
    BY <1>0, <1>3, <1>4, <1>5, <1>7, RowsFlushed DEF RowsInOrder, RowsNameLayouts
  <2>3. RowTypes'
    BY <1>6, <1>7, <2>1, Sizes, EmptySeq DEF RowTypes
  <2>4. RowsNameLayouts' /\ RowsInOrder'
    BY <1>1, <1>2, <1>7, <2>2, NoRows DEF RowsInOrder, RowsNameLayouts
  <2> QED
    BY <2>1, <2>3, <2>4
<1>8. CASE /\ ~ (Len(filled) >= BatchSize) /\ buf' = filled
           /\ UNCHANGED <<table, counters>>
  <2>1. CounterTypes'
    BY <1>0, <1>8 DEF CounterTypes, counters
  <2>2. RowTypes'
    <3>1. Len(filled) < BatchSize
      BY <1>0, <1>4, <1>8, Sizes, LenProperties DEF RowTypes
    <3> QED
      BY <1>0, <1>4, <1>6, <1>8, <3>1 DEF RowTypes
  <2>3. RowsNameLayouts' /\ RowsInOrder'
    BY <1>1, <1>2, <1>3, <1>5, <1>8 DEF RowsInOrder, RowsNameLayouts
  <2> QED
    BY <2>1, <2>2, <2>3
<1> QED
  BY <1>1, <1>7, <1>8

-----------------------------------------------------------------------------
(* Every step keeps the invariant. *)

LEMMA ReceiverKeeps ==
  ASSUME HistoryInv, NEW p \in PMUs, Receiver(p)
  PROVE  HistoryInv'
<1>0. /\ TypeOK /\ ProfilesCached /\ RowsNameLayouts /\ RowsInOrder
      /\ ReceiverTypes /\ RowTypes /\ CounterTypes /\ PhaseTypes
  BY TypeParts DEF HistoryInv
<1>1. /\ ReceiverTypes' /\ ProfilesCached' /\ failed \subseteq failed'
      /\ events' \in 0 .. EventQueue
  BY <1>0, ReceiverType DEF PhaseTypes
<1>2. /\ UNCHANGED <<buf, table, loop, pool, written, copyErrors, ctxDone, stops, closed>>
      /\ \/ UNCHANGED <<frames, arrived>>
         \/ UNCHANGED frames /\ arrived' = [arrived EXCEPT ![p] = @ + 1]
         \/ \E ok \in {"ok", "bad"} : ReceiveData(p, ok) /\ Len(frames) < QueueSize
  BY DEF Receiver, Handshake, MidstreamConfig, ReceiveConfig, ReceiveData, Count, BecomeLive,
         LeaveLive, GiveUp, receiverEnv, counters, mainVars
<1>3. CounterTypes'
  <2>1. enqueued' \in {enqueued, enqueued + 1} /\ dropped' \in {dropped, dropped + 1}
    BY DEF Receiver, Handshake, MidstreamConfig, ReceiveConfig, ReceiveData, Count, BecomeLive,
           LeaveLive, GiveUp, receiverEnv, counters
  <2> QED
    BY <1>0, <1>2, <2>1 DEF CounterTypes
<1>4. PhaseTypes'
  BY <1>0, <1>1, <1>2 DEF PhaseTypes
<1>5. RowTypes' /\ RowsNameLayouts' /\ RowsInOrder'
  <2>1. arrived \in [PMUs -> Nat] /\ arrived' \in [PMUs -> Nat]
    BY <1>0, <1>1, Sizes DEF ReceiverTypes
  <2>2. CASE UNCHANGED <<frames, arrived>>
    BY <1>0, <1>1, <1>2, <2>1, <2>2, RowsStay
  <2>3. CASE UNCHANGED frames /\ arrived' = [arrived EXCEPT ![p] = @ + 1]
    <3>1. \A q \in PMUs : arrived[q] <= arrived'[q]
      BY <2>1, <2>3
    <3> QED
      BY <1>0, <1>1, <1>2, <2>1, <2>3, <3>1, RowsStay
  <2>4. CASE \E ok \in {"ok", "bad"} : ReceiveData(p, ok) /\ Len(frames) < QueueSize
    BY <1>0, <2>4, RowsEnqueued
  <2> QED
    BY <1>2, <2>2, <2>3, <2>4
<1> QED
  BY <1>1, <1>3, <1>4, <1>5, TypePartsNext DEF HistoryInv

LEMMA LoopKeeps == HistoryInv /\ Loop => HistoryInv'
<1> SUFFICES ASSUME HistoryInv, Loop PROVE HistoryInv'
  OBVIOUS
<1>0. /\ TypeOK /\ ProfilesCached /\ RowsNameLayouts /\ RowsInOrder
      /\ ReceiverTypes /\ RowTypes /\ CounterTypes /\ PhaseTypes
  BY TypeParts DEF HistoryInv
<1>1. UNCHANGED <<profile, cached, quality, tally, arrived, configs, session, failed, ctxDone,
                  stops, closed>>
  BY DEF Loop, TakeFrame, Tick, WriteEvent, EventsDrained, Reconnect, ContextDone, FramesDrained,
         loopEnv, recorderVars, mainVars
<1>2. ReceiverTypes' /\ ProfilesCached'
  BY <1>0, <1>1 DEF ReceiverTypes, ProfilesCached
<1>3. events' \in 0 .. EventQueue
  <2>1. events' = events \/ (events > 0 /\ events' = events - 1)
    BY DEF Loop, TakeFrame, Tick, WriteEvent, EventsDrained, Reconnect, ContextDone, FramesDrained
  <2> QED
    BY <1>0, <2>1, Sizes DEF PhaseTypes
<1>4. loop' \in {"select", "events", "drain", "lastEvents", "ended"}
  <2>1. loop' \in {loop, "select", "events", "drain", "lastEvents", "ended"}
    BY DEF Loop, TakeFrame, Tick, WriteEvent, EventsDrained, Reconnect, ContextDone, FramesDrained
  <2> QED
    BY <1>0, <2>1 DEF PhaseTypes
<1>5. pool' \in {pool, TRUE, FALSE}
  BY DEF Loop, TakeFrame, Tick, WriteEvent, EventsDrained, Reconnect, ContextDone, FramesDrained,
         flushFrames, counters
<1>6. pool' \in BOOLEAN
  BY <1>0, <1>5 DEF PhaseTypes
<1>7. PhaseTypes'
  BY <1>0, <1>1, <1>3, <1>4, <1>6 DEF PhaseTypes
<1>8. RowTypes' /\ CounterTypes' /\ RowsNameLayouts' /\ RowsInOrder'
  <2>1. CASE TakeFrame("select") \/ TakeFrame("drain")
    BY <1>0, <2>1, RowsTaken
  <2>2. CASE Tick \/ FramesDrained
    BY <1>0, <1>1, <2>2, BatchFlushed DEF Tick, FramesDrained
  <2>3. CASE WriteEvent \/ EventsDrained \/ Reconnect \/ ContextDone
    <3>1. UNCHANGED <<frames, buf, table, enqueued, dropped, written, copyErrors>>
      BY <2>3 DEF WriteEvent, EventsDrained, Reconnect, ContextDone, counters
    <3>2. CounterTypes'
      BY <1>0, <3>1 DEF CounterTypes
    <3>3. arrived \in [PMUs -> Nat] /\ \A q \in PMUs : arrived[q] <= arrived[q]
      BY <1>0, Sizes DEF ReceiverTypes
    <3> QED
      BY <1>0, <1>1, <3>1, <3>2, <3>3, RowsStay
  <2> QED
    BY <2>1, <2>2, <2>3 DEF Loop
<1> QED
  BY <1>2, <1>7, <1>8, TypePartsNext DEF HistoryInv

LEMMA MainKeeps == HistoryInv /\ (Interrupt \/ NoteStop \/ Close) => HistoryInv'
<1> SUFFICES ASSUME HistoryInv, Interrupt \/ NoteStop \/ Close PROVE HistoryInv'
  OBVIOUS
<1>0. /\ TypeOK /\ ProfilesCached /\ RowsNameLayouts /\ RowsInOrder
      /\ ReceiverTypes /\ RowTypes /\ CounterTypes /\ PhaseTypes
  BY TypeParts DEF HistoryInv
<1>1. UNCHANGED <<profile, cached, quality, tally, arrived, configs, session, failed, frames, buf,
                  table, loop, enqueued, dropped, written, copyErrors>>
  BY DEF Interrupt, NoteStop, Close, recorderVars, counters
<1>2. ReceiverTypes' /\ ProfilesCached' /\ CounterTypes'
  BY <1>0, <1>1 DEF ReceiverTypes, ProfilesCached, CounterTypes
<1>3. RowTypes' /\ RowsNameLayouts' /\ RowsInOrder'
  <2>1. arrived \in [PMUs -> Nat] /\ \A q \in PMUs : arrived[q] <= arrived[q]
    BY <1>0, Sizes DEF ReceiverTypes
  <2> QED
    BY <1>0, <1>1, <2>1, RowsStay
<1>4. events' \in 0 .. EventQueue
  BY <1>0, EmittedType DEF Interrupt, NoteStop, Close, PhaseTypes
<1>5. stops' \in 0 .. 2 * Cardinality(PMUs)
  <2> DEFINE most == 2 * Cardinality(PMUs)
  <2>1. most \in Nat /\ stops \in 0 .. most
    BY <1>0, Sizes DEF PhaseTypes
  <2> HIDE DEF most
  <2>2. stops' = stops \/ (stops > 0 /\ stops' = stops - 1)
    BY DEF Interrupt, NoteStop, Close
  <2>3. stops' \in 0 .. most
    BY <2>1, <2>2
  <2> QED
    BY <2>3 DEF most
<1>6. pool' \in BOOLEAN /\ ctxDone' \in BOOLEAN /\ closed' \in BOOLEAN
  BY <1>0 DEF Interrupt, NoteStop, Close, PhaseTypes
<1>7. PhaseTypes'
  BY <1>0, <1>1, <1>4, <1>5, <1>6 DEF PhaseTypes
<1> QED
  BY <1>2, <1>3, <1>7, TypePartsNext DEF HistoryInv

LEMMA NextKeeps == HistoryInv /\ [Next]_vars => HistoryInv'
<1> SUFFICES ASSUME HistoryInv, [Next]_vars PROVE HistoryInv'
  OBVIOUS
<1>1. CASE UNCHANGED vars
  <2>0. /\ ProfilesCached /\ RowsNameLayouts /\ RowsInOrder
        /\ ReceiverTypes /\ RowTypes /\ CounterTypes /\ PhaseTypes
    BY TypeParts DEF HistoryInv
  <2>1. ReceiverTypes' /\ ProfilesCached' /\ CounterTypes' /\ PhaseTypes'
    BY <1>1, <2>0 DEF vars, recorderVars, counters, mainVars,
       ReceiverTypes, ProfilesCached, CounterTypes, PhaseTypes
  <2>2. RowTypes' /\ RowsNameLayouts' /\ RowsInOrder'
    BY <1>1, <2>0 DEF vars, recorderVars, RowTypes, RowsNameLayouts, RowsInOrder
  <2> QED
    BY <2>1, <2>2, TypePartsNext DEF HistoryInv
<1> QED
  BY <1>1, ReceiverKeeps, LoopKeeps, MainKeeps DEF Next

(* The invariant holds of every history, for any PMUs, layouts and sizes.  *)
THEOREM AlwaysHistoryInv == Spec => []HistoryInv
BY InitHistory, NextKeeps, PTL DEF Spec

(* Every variable has its type; the channels never hold more than their    *)
(* capacity and the batch is flushed before it reaches BatchSize           *)
(* (writer.go, loop).                                                      *)
THEOREM AlwaysTypeOK == Spec => []TypeOK
BY AlwaysHistoryInv, PTL DEF HistoryInv

(* A row names the layout its frame was decoded with, unless a layout of   *)
(* its PMU could not be stored: however sessions, mid-stream CFG-2 frames, *)
(* batches and failed COPYs interleave (recorder.go, NoteProfile).         *)
THEOREM AlwaysLayoutsFollow == Spec => []LayoutsFollowProfiles
<1>1. HistoryInv => LayoutsFollowProfiles
  BY DEF HistoryInv, RowsNameLayouts, NamesLayout, LayoutsFollowProfiles
<1> QED
  BY <1>1, AlwaysHistoryInv, PTL

-----------------------------------------------------------------------------
(* The table is a FrameLog. *)

LEMMA SortedIsInOrder ==
  ASSUME NEW s \in Seq(Frame), Sorted(s), UpTo(s, arrived), ReceiverTypes
  PROVE  Log!InOrder(s)
<1>1. Len(s) \in Nat /\ DOMAIN s = 1 .. Len(s) /\ \A j \in DOMAIN s : s[j] \in Frame
  BY LenProperties, ElementOfSeq
<1>2. ASSUME NEW j \in DOMAIN s
      PROVE  s[j].n \in 1 .. arrived[s[j].pmu]
  <2>1. s[j].n \in 1 .. MaxFrames /\ s[j].pmu \in PMUs
    BY <1>1 DEF Frame
  <2>2. arrived[s[j].pmu] \in 0 .. MaxFrames /\ s[j].n <= arrived[s[j].pmu]
    BY <2>1 DEF ReceiverTypes, UpTo
  <2> QED
    BY <2>1, <2>2, Sizes
<1>3. ASSUME NEW j \in DOMAIN s, NEW i \in 1 .. (j - 1), s[i].pmu = s[j].pmu
      PROVE  s[i].n < s[j].n
  BY <1>1, <1>3 DEF Sorted
<1> QED
  BY <1>2, <1>3 DEF Log!InOrder

LEMMA ConcatIsPrefix ==
  ASSUME NEW s \in Seq(Frame), NEW t \in Seq(Frame)
  PROVE  Log!IsPrefix(s, s \o t) /\ Log!IsPrefix(s, s)
<1>1. /\ s \o t \in Seq(Frame) /\ Len(s) \in Nat /\ Len(t) \in Nat
      /\ Len(s \o t) = Len(s) + Len(t)
      /\ DOMAIN s = 1 .. Len(s)
      /\ \A i \in 1 .. Len(s) : (s \o t)[i] = s[i]
  BY ConcatRows, ConcatProperties
<1>2. ASSUME NEW u \in Seq(Frame), Len(s) <= Len(u), \A i \in 1 .. Len(s) : u[i] = s[i]
      PROVE  SubSeq(s, 1, Len(s)) = SubSeq(u, 1, Len(s))
  <2>1. Len(u) \in Nat
    BY LenProperties
  <2>2. /\ SubSeq(s, 1, Len(s)) = [i \in 1 .. Len(s) |-> s[i]]
        /\ SubSeq(u, 1, Len(s)) = [i \in 1 .. Len(s) |-> u[i]]
    BY <1>1, <1>2, <2>1, SubSeqProperties
  <2> QED
    BY <1>2, <2>2
<1> QED
  BY <1>1, <1>2 DEF Log!IsPrefix

LEMMA FlushLogs ==
  ASSUME HistoryInv, HistoryInv', NEW batch \in Seq(Frame), flushFrames(batch), arrived' = arrived
  PROVE  Log!LogSome
<1>1. RowTypes /\ CounterTypes /\ ReceiverTypes
  BY TypeParts DEF HistoryInv
<1>2. (table' = table \/ table' = table \o batch) /\ table' \in Seq(Frame)
  BY <1>1, FlushType
<1>3. Log!IsPrefix(table, table')
  BY <1>1, <1>2, ConcatIsPrefix DEF RowTypes
<1>4. Sorted(table') /\ UpTo(table', arrived)
  BY DEF HistoryInv, RowsInOrder
<1>5. Log!InOrder(table')
  BY <1>1, <1>2, <1>4, SortedIsInOrder
<1> QED
  BY <1>3, <1>5 DEF Log!LogSome

(* Every step logs some frames, or one arrives, or neither. *)
LEMMA StepLogs ==
  HistoryInv /\ HistoryInv' /\ [Next]_vars => [Log!Next]_<<arrived, table>>
<1> SUFFICES ASSUME HistoryInv, HistoryInv', [Next]_vars
             PROVE  Log!Next \/ UNCHANGED <<arrived, table>>
  OBVIOUS
<1>1. ASSUME NEW p \in PMUs, Receiver(p)
      PROVE  Log!Arrive(p) \/ UNCHANGED <<arrived, table>>
  BY <1>1 DEF Receiver, Handshake, MidstreamConfig, ReceiveConfig, ReceiveData, Count, BecomeLive,
              LeaveLive, GiveUp, receiverEnv, Log!Arrive
<1>2. CASE Tick \/ FramesDrained
  <2>1. buf \in Seq(Frame) /\ flushFrames(buf) /\ arrived' = arrived
    BY <1>2, TypeParts DEF Tick, FramesDrained, loopEnv, HistoryInv, RowTypes
  <2> QED
    BY <2>1, FlushLogs DEF Log!Next
<1>3. CASE TakeFrame("select") \/ TakeFrame("drain")
  <2> DEFINE filled == Append(buf, Head(frames))
  <2>1. /\ frames # <<>> /\ arrived' = arrived
        /\ table' = table \/ flushFrames(filled)
    BY <1>3 DEF TakeFrame, loopEnv
  <2>2. frames \in Seq(Frame) /\ buf \in Seq(Frame)
    BY TypeParts DEF HistoryInv, RowTypes
  <2>3. filled \in Seq(Frame)
    BY <2>1, <2>2, HeadTailProperties, AppendProperties
  <2> HIDE DEF filled
  <2> QED
    BY <2>1, <2>3, FlushLogs DEF Log!Next
<1>4. CASE WriteEvent \/ EventsDrained \/ Reconnect \/ ContextDone
  BY <1>4 DEF WriteEvent, EventsDrained, Reconnect, ContextDone, loopEnv
<1>5. CASE Interrupt \/ NoteStop \/ Close
  BY <1>5 DEF Interrupt, NoteStop, Close
<1>6. CASE UNCHANGED vars
  BY <1>6 DEF vars
<1> QED
  BY <1>1, <1>2, <1>3, <1>4, <1>5, <1>6 DEF Next, Loop, Log!Next

(* The table holds each frame at most once, those of a PMU in the order    *)
(* they arrived, whatever is dropped, refused or written without an answer *)
(* (writer.go: one loop owns the batch, and a failed COPY is not retried). *)
THEOREM ImplementsFrameLog == Spec => FrameLogSpec
<1>1. Init => Log!Init
  BY DEF Init, Log!Init
<1> QED
  BY <1>1, StepLogs, AlwaysHistoryInv, PTL DEF Spec, FrameLogSpec, Log!Spec

-----------------------------------------------------------------------------
(* No frame is lost without a count that tells. *)

Tallied(f, what) == Cardinality({p \in PMUs : f[p] = what})

LEMMA Counts ==
  /\ IsFiniteSet(Arrived) /\ Cardinality(Arrived) \in Nat
  /\ Tallied(tally, "enqueued") \in Nat /\ Tallied(tally, "dropped") \in Nat
<1>1. IsFiniteSet(PMUs \X (1 .. MaxFrames))
  <2>1. IsFiniteSet(1 .. MaxFrames)
    BY Sizes, FS_Interval
  <2>2. IsFiniteSet(PMUs)
    BY HistoryAssumption
  <2> QED
    BY ONLY <2>1, <2>2, FS_Product
<1>2. IsFiniteSet(Arrived)
  BY <1>1, FS_Subset DEF Arrived
<1>3. ASSUME NEW what PROVE Tallied(tally, what) \in Nat
  BY HistoryAssumption, FS_Subset, FS_CardinalityType DEF Tallied
<1> QED
  BY <1>2, <1>3, FS_CardinalityType

LEMMA OneMoreArrived ==
  ASSUME arrived \in [PMUs -> 0 .. MaxFrames], NEW p \in PMUs, arrived[p] < MaxFrames,
         arrived' = [arrived EXCEPT ![p] = @ + 1]
  PROVE  Cardinality(Arrived') = Cardinality(Arrived) + 1
<1> DEFINE f == <<p, arrived[p] + 1>>
<1>1. arrived[p] \in Nat /\ MaxFrames \in Nat
  BY Sizes
<1>2. f \in PMUs \X (1 .. MaxFrames) /\ f \notin Arrived
  BY <1>1 DEF Arrived
<1>3. ASSUME NEW g \in PMUs \X (1 .. MaxFrames)
      PROVE  g[2] <= arrived'[g[1]] <=> g[2] <= arrived[g[1]] \/ g = f
  <2>1. /\ g = <<g[1], g[2]>> /\ g[1] \in PMUs /\ g[2] \in Nat
        /\ arrived[g[1]] \in Nat
    BY Sizes
  <2>2. CASE g[1] = p
    BY <2>1, <2>2, <1>1
  <2>3. CASE g[1] # p
    BY <2>1, <2>3, <1>1
  <2> QED
    BY <2>2, <2>3
<1>4. Arrived' = Arrived \cup {f}
  BY <1>2, <1>3 DEF Arrived
<1> QED
  BY <1>2, <1>4, Counts, FS_AddElement

Is(a, b) == IF a = b THEN 1 ELSE 0

(* One entry of the tally changes.                                         *)
LEMMA TallyChanges ==
  ASSUME ReceiverTypes, NEW p \in PMUs, NEW t, tally' = [tally EXCEPT ![p] = t], NEW what
  PROVE  Tallied(tally', what) = Tallied(tally, what) + Is(t, what) - Is(tally[p], what)
<1> DEFINE A == {q \in PMUs : tally[q] = what}
           B == {q \in PMUs : tally'[q] = what}
<1>1. /\ Tallied(tally, what) = Cardinality(A) /\ Tallied(tally', what) = Cardinality(B)
  BY DEF Tallied
<1>2. IsFiniteSet(A)
  BY HistoryAssumption, FS_Subset
<1>3. Cardinality(A) \in Nat
  BY <1>2, FS_CardinalityType
<1>4. p \in A <=> tally[p] = what
  OBVIOUS
<1>5. /\ t = what => B = A \cup {p}
      /\ t # what => B = A \ {p}
  BY DEF ReceiverTypes
<1> HIDE DEF A, B
<1>6. /\ p \notin A => Cardinality(A \cup {p}) = Cardinality(A) + 1
      /\ p \in A => Cardinality(A \cup {p}) = Cardinality(A)
  BY <1>2, FS_AddElement
<1>7. /\ p \in A => Cardinality(A \ {p}) = Cardinality(A) - 1
      /\ p \notin A => Cardinality(A \ {p}) = Cardinality(A)
  BY <1>2, FS_RemoveElement
<1>8. (Is(t, what) = 1 /\ t = what) \/ (Is(t, what) = 0 /\ t # what)
  BY DEF Is
<1>9. CASE p \in A
  <2>1. Is(tally[p], what) = 1
    BY <1>4, <1>9 DEF Is
  <2> QED
    BY <1>1, <1>3, <1>5, <1>6, <1>7, <1>8, <1>9, <2>1
<1>10. CASE p \notin A
  <2>1. Is(tally[p], what) = 0
    BY <1>4, <1>10 DEF Is
  <2> QED
    <3>1. CASE t = what
      <4>1. /\ Tallied(tally', what) = Cardinality(A) + 1 /\ Is(t, what) = 1
            /\ Tallied(tally, what) = Cardinality(A)
        BY <1>1, <1>5, <1>6, <1>8, <1>10, <3>1
      <4>2. Cardinality(A) + 1 = Cardinality(A) + 1 - 0
        BY <1>3
      <4> QED
        BY <2>1, <4>1, <4>2
    <3>2. CASE t # what
      <4>1. /\ Tallied(tally', what) = Cardinality(A) /\ Is(t, what) = 0
            /\ Tallied(tally, what) = Cardinality(A)
        BY <1>1, <1>5, <1>7, <1>8, <1>10, <3>2
      <4>2. Cardinality(A) = Cardinality(A) + 0 - 0
        BY <1>3
      <4> QED
        BY <2>1, <4>1, <4>2
    <3> QED
      BY <3>1, <3>2
<1> QED
  BY <1>9, <1>10

Queued == Len(frames) + Len(buf)
Left == Queued + written
Lost == Cardinality(Arrived) - Left - dropped - Tallied(tally, "dropped")
Gone == enqueued + Tallied(tally, "enqueued") - Left

(* The sums of Accounted are integers. *)
LEMMA SumTypes ==
  ASSUME TypeOK
  PROVE  /\ Lost \in Int /\ Gone \in Int /\ Left \in Int
         /\ dropped \in Nat /\ copyErrors \in Nat /\ copyErrors * BatchSize \in Nat
<1>1. /\ dropped \in Nat /\ copyErrors \in Nat /\ written \in Nat /\ enqueued \in Nat
      /\ Queued \in Nat
  BY TypeParts, LenProperties DEF CounterTypes, RowTypes, Queued
<1>2. Left \in Int
  BY <1>1 DEF Left
<1>3. /\ Cardinality(Arrived) \in Nat
      /\ Tallied(tally, "enqueued") \in Nat /\ Tallied(tally, "dropped") \in Nat
  BY Counts
<1>4. Lost \in Int /\ Gone \in Int
  BY <1>1, <1>2, <1>3 DEF Lost, Gone
<1> QED
  BY <1>1, <1>2, <1>4, Sizes

LEMMA AccountedSums ==
  Accounted <=> Lost \in 0 .. copyErrors * BatchSize /\ Gone \in Lost .. Lost + dropped
BY DEF Accounted, Lost, Gone, Left, Queued, Uncounted, Tallied

LEMMA AccountedSumsNext ==
  Accounted' <=> Lost' \in 0 .. copyErrors' * BatchSize /\ Gone' \in Lost' .. Lost' + dropped'
BY DEF Accounted, Lost, Gone, Left, Queued, Uncounted, Tallied

(* b frames may leave by being counted as dropped, or by a failed COPY.    *)
LEMMA Balance ==
  ASSUME TypeOK, TypeOK', Accounted, NEW b \in 0 .. BatchSize,
         \/ /\ Lost' = Lost /\ Gone' = Gone /\ dropped' \in {dropped, dropped + 1}
            /\ copyErrors' = copyErrors
         \/ /\ Lost' = Lost /\ Gone' = Gone + b /\ dropped' = dropped + b
            /\ copyErrors' = copyErrors
         \/ /\ Lost' = Lost + b /\ Gone' = Gone + b /\ dropped' = dropped
            /\ copyErrors' = copyErrors + 1
  PROVE  Accounted'
<1>1. /\ Lost \in Int /\ Gone \in Int /\ dropped \in Nat /\ copyErrors \in Nat
      /\ copyErrors * BatchSize \in Nat /\ b \in Nat /\ BatchSize \in Nat /\ b <= BatchSize
  BY SumTypes, Sizes
<1>2. Lost' \in Int /\ Gone' \in Int /\ dropped' \in Nat
  <2>1. CounterTypes'
    BY TypePartsNext
  <2> QED
    BY <1>1, <2>1 DEF CounterTypes
<1>3. Lost \in 0 .. copyErrors * BatchSize /\ Gone \in Lost .. Lost + dropped
  BY AccountedSums
<1>4. (copyErrors + 1) * BatchSize = copyErrors * BatchSize + BatchSize
  BY <1>1
<1>5. copyErrors' * BatchSize \in {copyErrors * BatchSize, copyErrors * BatchSize + BatchSize}
  BY <1>4
<1>6. Lost' \in 0 .. copyErrors' * BatchSize
  BY <1>1, <1>2, <1>3, <1>4
<1>7. Gone' \in Lost' .. Lost' + dropped'
  <2>1. /\ Lost \in Int /\ Gone \in Int /\ dropped \in Nat /\ b \in Nat
        /\ Lost <= Gone /\ Gone <= Lost + dropped
    BY <1>1, <1>3
  <2>2. CASE Lost' = Lost /\ Gone' = Gone /\ dropped' \in {dropped, dropped + 1}
    <3>1. CASE dropped' = dropped
      BY <1>2, <2>1, <2>2, <3>1
    <3>2. CASE dropped' = dropped + 1
      BY <1>2, <2>1, <2>2, <3>2
    <3> QED
      BY <2>2, <3>1, <3>2
  <2>3. CASE Lost' = Lost /\ Gone' = Gone + b /\ dropped' = dropped + b
    BY <1>2, <2>1, <2>3
  <2>4. CASE Lost' = Lost + b /\ Gone' = Gone + b /\ dropped' = dropped
    BY <1>2, <2>1, <2>4
  <2> QED
    BY <2>2, <2>3, <2>4
<1> QED
  BY <1>6, <1>7, AccountedSumsNext

(* A step that leaves the sums alone. *)
LEMMA SameSums ==
  ASSUME TypeOK, TypeOK', Accounted, Lost' = Lost, Gone' = Gone, dropped' \in {dropped, dropped + 1},
         copyErrors' = copyErrors
  PROVE  Accounted'
<1>1. 0 \in 0 .. BatchSize
  BY Sizes
<1> QED
  BY <1>1, Balance

LEMMA ReceiverAccounts ==
  ASSUME TypeOK, TypeOK', Accounted, NEW p \in PMUs, Receiver(p)
  PROVE  Accounted'
<1>0. /\ ReceiverTypes /\ RowTypes /\ CounterTypes
      /\ Cardinality(Arrived) \in Nat /\ Queued \in Nat
      /\ Tallied(tally, "enqueued") \in Nat /\ Tallied(tally, "dropped") \in Nat
  BY TypeParts, Counts, LenProperties DEF RowTypes, Queued
<1>1. UNCHANGED <<buf, written, copyErrors>>
  BY DEF Receiver, Handshake, MidstreamConfig, ReceiveConfig, ReceiveData, Count, BecomeLive,
         LeaveLive, GiveUp, receiverEnv, counters
<1>2. ASSUME NEW ok \in {"ok", "bad"}, ReceiveData(p, ok)
      PROVE  Accounted'
  <2>1. /\ tally[p] = "none" /\ UNCHANGED <<enqueued, dropped>>
        /\ arrived[p] < MaxFrames /\ arrived' = [arrived EXCEPT ![p] = @ + 1]
    BY <1>2 DEF ReceiveData, InSession, counters
  <2>2. Cardinality(Arrived') = Cardinality(Arrived) + 1
    BY <1>0, <2>1, OneMoreArrived DEF ReceiverTypes
  <2>3. \/ /\ tally' = [tally EXCEPT ![p] = "enqueued"] /\ Queued' = Queued + 1
        \/ /\ tally' = [tally EXCEPT ![p] = "dropped"] /\ Queued' = Queued
    <3>1. \/ /\ tally' = [tally EXCEPT ![p] = "enqueued"]
             /\ frames' = Append(frames, [pmu |-> p, n |-> arrived[p] + 1,
                                          layout |-> profile[p], cfg |-> cached[p]])
          \/ /\ tally' = [tally EXCEPT ![p] = "dropped"] /\ frames' = frames
      BY <1>2 DEF ReceiveData
    <3>2. \A f : Len(Append(frames, f)) = Len(frames) + 1
      BY <1>0 DEF RowTypes
    <3>3. Len(frames) \in Nat /\ Len(buf) \in Nat /\ buf' = buf
      BY <1>0, <1>1, LenProperties DEF RowTypes
    <3> QED
      BY <3>1, <3>2, <3>3 DEF Queued
  <2>4. CASE tally' = [tally EXCEPT ![p] = "enqueued"] /\ Queued' = Queued + 1
    <3>0. /\ Tallied(tally', "enqueued") =
               Tallied(tally, "enqueued") + Is("enqueued", "enqueued") - Is(tally[p], "enqueued")
          /\ Tallied(tally', "dropped") =
               Tallied(tally, "dropped") + Is("enqueued", "dropped") - Is(tally[p], "dropped")
      BY <1>0, <2>1, <2>4, TallyChanges
    <3>1. /\ Tallied(tally', "enqueued") = Tallied(tally, "enqueued") + 1
          /\ Tallied(tally', "dropped") = Tallied(tally, "dropped")
      BY <1>0, <2>1, <2>4, <3>0 DEF Is
    <3>2. Lost' = Lost /\ Gone' = Gone
      BY <1>0, <1>1, <2>1, <2>2, <2>4, <3>1 DEF Lost, Gone, Left, CounterTypes
    <3> QED
      BY <1>0, <1>1, <2>1, <3>2, SameSums DEF CounterTypes
  <2>5. CASE tally' = [tally EXCEPT ![p] = "dropped"] /\ Queued' = Queued
    <3>0. /\ Tallied(tally', "enqueued") =
               Tallied(tally, "enqueued") + Is("dropped", "enqueued") - Is(tally[p], "enqueued")
          /\ Tallied(tally', "dropped") =
               Tallied(tally, "dropped") + Is("dropped", "dropped") - Is(tally[p], "dropped")
      BY <1>0, <2>1, <2>5, TallyChanges
    <3>1. /\ Tallied(tally', "enqueued") = Tallied(tally, "enqueued")
          /\ Tallied(tally', "dropped") = Tallied(tally, "dropped") + 1
      BY <1>0, <2>1, <2>5, <3>0 DEF Is
    <3>2. Lost' = Lost /\ Gone' = Gone
      BY <1>0, <1>1, <2>1, <2>2, <2>5, <3>1 DEF Lost, Gone, Left, CounterTypes
    <3> QED
      BY <1>0, <1>1, <2>1, <3>2, SameSums DEF CounterTypes
  <2> QED
    BY <2>3, <2>4, <2>5
<1>3. CASE Count(p)
  <2>1. /\ tally' = [tally EXCEPT ![p] = "none"] /\ UNCHANGED <<frames, arrived>>
        /\ \/ /\ tally[p] = "enqueued" /\ enqueued' = enqueued + 1 /\ dropped' = dropped
           \/ /\ tally[p] = "dropped" /\ dropped' = dropped + 1 /\ enqueued' = enqueued
    BY <1>0, <1>3 DEF Count, ReceiverTypes
  <2>2. Arrived' = Arrived
    BY <2>1 DEF Arrived
  <2>5. Queued' = Queued
    BY <1>1, <2>1 DEF Queued
  <2>3. CASE /\ tally[p] = "enqueued" /\ enqueued' = enqueued + 1 /\ dropped' = dropped
    <3>0. /\ Tallied(tally', "enqueued") =
               Tallied(tally, "enqueued") + Is("none", "enqueued") - Is(tally[p], "enqueued")
          /\ Tallied(tally', "dropped") =
               Tallied(tally, "dropped") + Is("none", "dropped") - Is(tally[p], "dropped")
      BY <1>0, <2>1, <2>3, TallyChanges
    <3>1. /\ Tallied(tally', "enqueued") = Tallied(tally, "enqueued") - 1
          /\ Tallied(tally', "dropped") = Tallied(tally, "dropped")
      BY <1>0, <2>1, <2>3, <3>0 DEF Is
    <3>2. Lost' = Lost /\ Gone' = Gone
      BY <1>0, <1>1, <2>1, <2>2, <2>3, <2>5, <3>1 DEF Lost, Gone, Left, CounterTypes
    <3> QED
      BY <1>0, <1>1, <2>3, <3>2, SameSums DEF CounterTypes
  <2>4. CASE /\ tally[p] = "dropped" /\ dropped' = dropped + 1 /\ enqueued' = enqueued
    <3>0. /\ Tallied(tally', "enqueued") =
               Tallied(tally, "enqueued") + Is("none", "enqueued") - Is(tally[p], "enqueued")
          /\ Tallied(tally', "dropped") =
               Tallied(tally, "dropped") + Is("none", "dropped") - Is(tally[p], "dropped")
      BY <1>0, <2>1, <2>4, TallyChanges
    <3>1. /\ Tallied(tally', "enqueued") = Tallied(tally, "enqueued")
          /\ Tallied(tally', "dropped") = Tallied(tally, "dropped") - 1
      BY <1>0, <2>1, <2>4, <3>0 DEF Is
    <3>2. Lost' = Lost /\ Gone' = Gone
      BY <1>0, <1>1, <2>1, <2>2, <2>4, <2>5, <3>1 DEF Lost, Gone, Left, CounterTypes
    <3> QED
      BY <1>0, <1>1, <2>4, <3>2, SameSums DEF CounterTypes
  <2> QED
    BY <2>1, <2>3, <2>4
<1>4. CASE UNCHANGED <<frames, arrived, tally, enqueued, dropped>>
  <2>1. Lost' = Lost /\ Gone' = Gone
    BY <1>1, <1>4 DEF Lost, Gone, Left, Queued, Arrived
  <2> QED
    BY <1>0, <1>1, <1>4, <2>1, SameSums DEF CounterTypes
<1> QED
  BY <1>2, <1>3, <1>4 DEF Receiver, Handshake, MidstreamConfig, ReceiveConfig, BecomeLive,
     LeaveLive, GiveUp, receiverEnv, counters

(* A flush of a batch of at most BatchSize frames, none of which is in     *)
(* channel or batch afterwards.                                            *)
LEMMA FlushAccounts ==
  ASSUME TypeOK, TypeOK', Accounted, NEW batch \in Seq(Frame), Len(batch) <= BatchSize,
         flushFrames(batch), Len(frames') + Len(buf') + Len(batch) = Len(frames) + Len(buf),
         UNCHANGED <<arrived, tally>>
  PROVE  Accounted'
<1> DEFINE b == Len(batch)
<1>0. /\ CounterTypes /\ Cardinality(Arrived) \in Nat
      /\ Tallied(tally, "enqueued") \in Nat /\ Tallied(tally, "dropped") \in Nat
  BY TypeParts, Counts
<1>1. b \in Nat /\ Queued \in Nat /\ Queued' = Queued - b
  <2>1. RowTypes /\ RowTypes'
    BY TypeParts, TypePartsNext
  <2>2. /\ b \in Nat /\ Len(frames) \in Nat /\ Len(buf) \in Nat
        /\ Len(frames') \in Nat /\ Len(buf') \in Nat
    BY <2>1, LenProperties DEF RowTypes
  <2> DEFINE fewer == Len(frames') + Len(buf')
  <2>3. fewer \in Nat /\ Queued \in Nat /\ fewer + b = Queued /\ Queued' = fewer
    BY <2>2 DEF Queued
  <2> QED
    BY <2>2, <2>3
<1>2. b \in 0 .. BatchSize
  BY <1>1, Sizes
<1>3. /\ Arrived' = Arrived /\ Tallied(tally', "enqueued") = Tallied(tally, "enqueued")
      /\ Tallied(tally', "dropped") = Tallied(tally, "dropped")
  BY DEF Arrived
<1>4. /\ enqueued' = enqueued
      /\ \/ b = 0 /\ UNCHANGED <<dropped, written, copyErrors>>
         \/ dropped' = dropped + b /\ UNCHANGED <<written, copyErrors>>
         \/ written' = written + b /\ UNCHANGED <<dropped, copyErrors>>
         \/ copyErrors' = copyErrors + 1 /\ UNCHANGED <<dropped, written>>
  BY EmptySeq DEF flushFrames, counters
<1> HIDE DEF b
<1>9. /\ enqueued \in Nat /\ dropped \in Nat /\ written \in Nat
      /\ Left \in Int /\ Left' = Left - b + (written' - written)
  <2>1. enqueued \in Nat /\ dropped \in Nat /\ written \in Nat /\ written' \in Nat
    BY <1>0, <1>1, <1>4 DEF CounterTypes
  <2> QED
    BY <1>1, <2>1 DEF Left
<1>5. CASE b = 0 /\ UNCHANGED <<dropped, written, copyErrors>>
  <2>1. Lost' = Lost /\ Gone' = Gone
    BY <1>0, <1>1, <1>3, <1>4, <1>5, <1>9 DEF Lost, Gone
  <2> QED
    BY <1>0, <1>2, <1>5, <2>1, Balance DEF CounterTypes
<1>6. CASE dropped' = dropped + b /\ UNCHANGED <<written, copyErrors>>
  <2>1. Lost' = Lost /\ Gone' = Gone + b
    BY <1>0, <1>1, <1>3, <1>4, <1>6, <1>9 DEF Lost, Gone
  <2> QED
    BY <1>2, <1>6, <2>1, Balance
<1>7. CASE written' = written + b /\ UNCHANGED <<dropped, copyErrors>>
  <2>1. Lost' = Lost /\ Gone' = Gone
    BY <1>0, <1>1, <1>3, <1>4, <1>7, <1>9 DEF Lost, Gone
  <2> QED
    BY <1>0, <1>2, <1>7, <2>1, Balance DEF CounterTypes
<1>8. CASE copyErrors' = copyErrors + 1 /\ UNCHANGED <<dropped, written>>
  <2>0. Left' = Left - b
    BY <1>1, <1>8, <1>9
  <2>1. Lost' = Lost + b
    BY <1>0, <1>1, <1>3, <1>8, <1>9, <2>0 DEF Lost
  <2>2. Gone' = Gone + b
    <3> DEFINE u == Tallied(tally, "enqueued")
    <3>1. /\ u \in Nat /\ enqueued \in Nat /\ Left \in Int /\ b \in Nat
          /\ Gone = enqueued + u - Left /\ Gone' = enqueued + u - (Left - b)
      BY <1>0, <1>1, <1>3, <1>4, <1>9, <2>0 DEF Gone
    <3> HIDE DEF u
    <3> QED
      BY <3>1
  <2> QED
    BY <1>2, <1>8, <2>1, <2>2, Balance
<1> QED
  BY <1>4, <1>5, <1>6, <1>7, <1>8

LEMMA NextAccounts ==
  ASSUME HistoryInv, HistoryInv', Accounted, [Next]_vars
  PROVE  Accounted'
<1>0. TypeOK /\ TypeOK' /\ RowTypes /\ RowTypes' /\ CounterTypes
  BY TypeParts, TypePartsNext DEF HistoryInv
<1>1. ASSUME NEW p \in PMUs, Receiver(p) PROVE Accounted'
  BY <1>0, <1>1, ReceiverAccounts
<1>2. CASE Tick \/ FramesDrained
  <2>1. /\ flushFrames(buf) /\ buf' = <<>> /\ UNCHANGED <<frames, arrived, tally>>
    BY <1>2 DEF Tick, FramesDrained, loopEnv
  <2>2. /\ buf \in Seq(Frame) /\ Len(buf) <= BatchSize
        /\ Len(frames') + Len(buf') + Len(buf) = Len(frames) + Len(buf)
    BY <1>0, <2>1, Sizes, LenProperties, EmptySeq DEF RowTypes
  <2> QED
    BY <1>0, <2>1, <2>2, FlushAccounts
<1>3. CASE TakeFrame("select") \/ TakeFrame("drain")
  <2> DEFINE filled == Append(buf, Head(frames))
  <2>1. /\ frames # <<>> /\ frames' = Tail(frames) /\ UNCHANGED <<arrived, tally>>
        /\ \/ buf' = <<>> /\ flushFrames(filled)
           \/ buf' = filled /\ UNCHANGED <<table, counters, pool>>
    BY <1>3 DEF TakeFrame, loopEnv
  <2>2. /\ Len(frames) \in Nat /\ Len(buf) \in Nat /\ Len(frames') = Len(frames) - 1
        /\ Head(frames) \in Frame
    BY <1>0, <2>1, LenProperties, HeadTailProperties DEF RowTypes
  <2>3. filled \in Seq(Frame) /\ Len(filled) = Len(buf) + 1
    BY <1>0, <2>2, AppendProperties DEF RowTypes
  <2> HIDE DEF filled
  <2>4. Len(filled) <= BatchSize
    BY <1>0, <2>2, <2>3, Sizes DEF RowTypes
  <2>5. CASE buf' = <<>> /\ flushFrames(filled)
    <3>1. Len(buf') = 0 /\ Len(frames') + Len(buf') + Len(filled) = Len(frames) + Len(buf)
      BY <2>2, <2>3, <2>5, EmptySeq
    <3> QED
      BY <1>0, <2>1, <2>3, <2>4, <2>5, <3>1, FlushAccounts
  <2>6. CASE buf' = filled /\ UNCHANGED <<table, counters, pool>>
    <3>1. Queued' = Queued
      BY <2>2, <2>3, <2>6 DEF Queued
    <3>2. UNCHANGED <<enqueued, dropped, written, copyErrors>>
      BY <2>6 DEF counters
    <3>3. Lost' = Lost /\ Gone' = Gone
      BY <2>1, <3>1, <3>2 DEF Lost, Gone, Left, Arrived
    <3> QED
      BY <1>0, <3>2, <3>3, SameSums
  <2> QED
    BY <2>1, <2>5, <2>6
<1>4. CASE UNCHANGED <<frames, buf, arrived, tally, enqueued, dropped, written, copyErrors>>
  <2>1. Lost' = Lost /\ Gone' = Gone
    BY <1>4 DEF Lost, Gone, Left, Queued, Arrived
  <2> QED
    BY <1>0, <1>4, <2>1, SameSums
<1>5. CASE WriteEvent \/ EventsDrained \/ Reconnect \/ ContextDone
  BY <1>4, <1>5 DEF WriteEvent, EventsDrained, Reconnect, ContextDone, loopEnv, counters
<1>6. CASE Interrupt \/ NoteStop \/ Close
  BY <1>4, <1>6 DEF Interrupt, NoteStop, Close, counters
<1>7. CASE UNCHANGED vars
  BY <1>4, <1>7 DEF vars, counters
<1> QED
  BY <1>1, <1>2, <1>3, <1>5, <1>6, <1>7 DEF Next, Loop

LEMMA InitAccounts == Init => Accounted
<1> SUFFICES ASSUME Init PROVE Accounted
  OBVIOUS
<1>1. /\ Queued = 0 /\ written = 0 /\ dropped = 0 /\ enqueued = 0 /\ copyErrors = 0
  BY EmptySeq DEF Init, Queued
<1>2. Arrived = {}
  <2>1. ASSUME NEW f \in PMUs \X (1 .. MaxFrames) PROVE ~ (f[2] <= arrived[f[1]])
    <3>1. f[2] \in 1 .. MaxFrames /\ arrived[f[1]] = 0
      BY DEF Init
    <3> QED
      BY <3>1, Sizes
  <2> QED
    BY <2>1 DEF Arrived
<1>3. /\ {p \in PMUs : tally[p] = "enqueued"} = {}
      /\ {p \in PMUs : tally[p] = "dropped"} = {}
  BY DEF Init
<1>4. Lost = 0 /\ Gone = 0
  BY <1>1, <1>2, <1>3, FS_EmptySet DEF Lost, Gone, Left, Tallied
<1> QED
  BY <1>1, <1>4, Sizes, AccountedSums

(* Every frame that arrived is waiting, written, counted as dropped, or    *)
(* was in a batch whose COPY failed, of which there are no more than       *)
(* BatchSize for each error counted: whatever the database answers, and    *)
(* however a receiver's send and its count are interleaved with the loop   *)
(* (writer.go, EnqueueFrame and flushFrames).                              *)
THEOREM AlwaysAccounted == Spec => []Accounted
<1>1. HistoryInv /\ HistoryInv' /\ Accounted /\ [Next]_vars => Accounted'
  BY NextAccounts
<1> QED
  BY <1>1, InitAccounts, AlwaysHistoryInv, PTL DEF Spec
=============================================================================
