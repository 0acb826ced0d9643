--------------------------- MODULE SessionProofs ---------------------------
(***************************************************************************)
(* For any number of layouts and attempts: every session of Session, over  *)
(* every transport, is one of SessionSkeleton, which Roster takes for      *)
(* granted of its receivers; the type invariant, and over TCP that a frame *)
(* is decoded in its layout.                                               *)
(***************************************************************************)
EXTENDS Session, SequenceTheorems, TLAPS

(* What the manager sees: the place of the receiver, and its context. *)
seen == <<managerState, cancelled>>

LEMMA SkeletonInit == Init => Skeleton!Init
  BY DEF Init, managerState, Skeleton!Init

(* Until DATA_ON is sent the receiver is in its dial, as the manager sees it. *)
LEMMA HandshakeStep == Handshaking => [Skeleton!Next]_seen
<1> SUFFICES ASSUME Handshaking PROVE [Skeleton!Next]_seen
  OBVIOUS
<1> USE DEF At, quiet, seen, managerState
<1>1. CASE Dial
  BY <1>1 DEF Dial
<1>2. CASE Ask
  BY <1>2 DEF Ask
<1>3. CASE WaitTimesOut
  BY <1>3 DEF WaitTimesOut
<1>4. CASE SkipData
  BY <1>4 DEF SkipData, receiverVars
<1>5. CASE GotCfg2
  BY <1>5 DEF GotCfg2
<1>6. CASE SendOn
  BY <1>6 DEF SendOn, Skeleton!Next, Skeleton!HandshakeDone, Skeleton!Go
<1>7. CASE AskHeader
  BY <1>7 DEF AskHeader
<1>8. CASE HeaderWaitEnds
  BY <1>8 DEF HeaderWaitEnds
<1>9. CASE RefusedCfg2
  BY <1>9 DEF RefusedCfg2, Skeleton!Next, Skeleton!ConnectFails, Skeleton!Go
<1> QED
  BY <1>1, <1>2, <1>3, <1>4, <1>5, <1>6, <1>7, <1>8, <1>9 DEF Handshaking

(* A session starts, ends and is over as the skeleton says. *)
LEMMA ReceiverStep == Receiver => [Skeleton!Next]_seen
<1> SUFFICES ASSUME Receiver PROVE [Skeleton!Next]_seen
  OBVIOUS
<1> USE DEF At, quiet, seen, managerState, Skeleton!Next, Skeleton!Go
<1>1. CASE Handshaking
  BY <1>1, HandshakeStep
<1>2. CASE ConnectFails
  BY <1>2 DEF ConnectFails, Skeleton!ConnectFails
<1>3. CASE Backoff
  BY <1>3 DEF Backoff, Skeleton!Backoff
<1>4. CASE SessionStart
  BY <1>4 DEF SessionStart, Skeleton!SessionStart
<1>5. CASE RequestCfg2
  BY <1>5 DEF RequestCfg2
<1>6. CASE Receive
  BY <1>6 DEF Receive, ReceiveData, MidstreamCfg2
<1>7. CASE StreamBreaks
  BY <1>7 DEF StreamBreaks, Skeleton!StreamBreaks
<1>8. CASE SessionEnd
  BY <1>8 DEF SessionEnd, Skeleton!SessionEnd
<1>9. CASE SessionOver
  BY <1>9 DEF SessionOver, Skeleton!SessionOver
<1> QED
  BY <1>1, <1>2, <1>3, <1>4, <1>5, <1>6, <1>7, <1>8, <1>9 DEF Receiver

LEMMA SkeletonStep == [Next]_vars => [Skeleton!Next]_seen
<1> SUFFICES ASSUME [Next]_vars PROVE [Skeleton!Next]_seen
  OBVIOUS
<1> USE DEF receiverVars, seen, managerState
<1>1. CASE Receiver
  BY <1>1, ReceiverStep
<1>2. CASE DrainControl
  BY <1>2 DEF DrainControl
<1>3. CASE Lose
  BY <1>3 DEF Lose
<1>4. CASE Cancel
  BY <1>4 DEF Cancel, Skeleton!Next, Skeleton!Cancel
<1>5. CASE Pmu
  BY <1>5 DEF Pmu, PmuObeys, PmuSends, PmuReconfigures
<1>6. CASE UNCHANGED vars
  BY <1>6 DEF vars
<1> QED
  BY <1>1, <1>2, <1>3, <1>4, <1>5, <1>6 DEF Next

(* Whatever the transport, and wherever a session fails, the manager is    *)
(* told of its start after the handshake and of its end before the next    *)
(* dial, each once (receiver.go, onSessionStart and endSession).           *)
THEOREM SessionIsSkeleton == Spec => SkeletonSpec
<1>1. Init /\ [][Next]_vars => Skeleton!Spec
  BY SkeletonInit, SkeletonStep, PTL DEF Skeleton!Spec, seen
<1> QED
  BY <1>1, PTL DEF Spec, SkeletonSpec

-----------------------------------------------------------------------------
(* The type invariant.  Where a request may follow, there is an attempt    *)
(* left for it.                                                            *)

AttemptLeft == pc \in {"off", "header", "ask"} => attempt < MaxAttempts

(* A CFG-2 is of use unless its layout is one of the bad ones.             *)
Useful(frame, bad) == frame.type = "cfg2" /\ frame.layout \notin bad

(* What announces a layout to a frame of channel w: the useful CFG-2       *)
(* before it, or, place 0, the profile p of a session that has one.  The   *)
(* places that may announce begin with from, 0 or 1.                       *)
Announces(w, bad, from, j) == IF j = 0 THEN from = 0 ELSE Useful(w[j], bad)

Announced(w, p, j) == IF j = 0 THEN p ELSE w[j].layout

(* The announcement at place j is the last one before place i. *)
LastBefore(w, bad, from, j, i) ==
  /\ j \in 0 .. i - 1 /\ Announces(w, bad, from, j)
  /\ \A k \in j + 1 .. i - 1 : ~ Useful(w[k], bad)

(* DATA that does not say otherwise is in the layout announced last.       *)
DataInOrder(w, bad, from, p) ==
  \A i \in 1 .. Len(w), j \in 0 .. Len(w) :
    w[i].type = "data" /\ ~ w[i].bit13 /\ w[i].layout \notin bad /\ LastBefore(w, bad, from, j, i) =>
      w[i].layout = Announced(w, p, j)

(* The layout announced last is l. *)
LastIs(w, bad, from, p, l) ==
  \A j \in 0 .. Len(w) : LastBefore(w, bad, from, j, Len(w) + 1) => l = Announced(w, p, j)

First == IF pc \in {"on", "start", "stream"} THEN 0 ELSE 1

InOrder ==
  transport = "tcp" =>
    /\ DataInOrder(wire, unreadable, First, profile)
    /\ ~ bit13 /\ layout \notin unreadable =>
         LastIs(wire, unreadable, First, profile, layout)

LayoutInv == TypeOK /\ AttemptLeft /\ InOrder /\ DecodedInItsLayout

LEMMA RemoveAtType ==
  ASSUME NEW S, NEW s \in Seq(S), NEW i \in DOMAIN s
  PROVE  RemoveAt(s, i) \in Seq(S)
BY DEF RemoveAt

(* A read from a connection takes its first frame. *)
LEMMA RemoveAtFirst ==
  ASSUME NEW S, NEW s \in Seq(S), s # <<>>
  PROVE  /\ Len(RemoveAt(s, 1)) = Len(s) - 1
         /\ \A i \in 1 .. Len(s) - 1 : RemoveAt(s, 1)[i] = s[i + 1]
<1>1. Len(s) \in Nat \ {0} /\ \A i \in 1 .. Len(s) : s[i] \in S
  BY EmptySeq, LenProperties
<1>2. RemoveAt(s, 1) = Tail(s)
  <2>1. SubSeq(s, 1, 0) = <<>>
    BY SubSeqEmpty
  <2>2. SubSeq(s, 2, Len(s)) = Tail(s) /\ Tail(s) \in Seq(S)
    BY TailIsSubSeq, HeadTailProperties
  <2> QED
    BY <2>1, <2>2, ConcatEmptySeq DEF RemoveAt
<1> QED
  BY <1>1, <1>2, HeadTailProperties

Commands == [cmd : {"off", "hdr", "cfg2", "on"}, ver : {1, 2}]

LEMMA InitLayoutInv == Init => LayoutInv
<1> SUFFICES ASSUME Init PROVE LayoutInv
  OBVIOUS
<1> USE SessionAssumption DEF Init
<1>1. TypeOK
  <2>1. commands \in Seq(Commands) /\ wire \in Seq(Frame) /\ control \in Seq(Frame)
    BY EmptySeq
  <2>2. MaxLayout \in Nat /\ MaxAttempts \in Nat /\ 1 <= MaxLayout
    OBVIOUS
  <2>3. decoded \in [layout : 0 .. MaxLayout, bit13 : BOOLEAN, as : 0 .. MaxLayout]
    BY <2>2 DEF NoData
  <2>5. layout \in 1 .. MaxLayout /\ profile \in 0 .. MaxLayout /\ attempt \in 0 .. MaxAttempts
    BY <2>2
  <2>6. speaks \subseteq {1, 2} /\ unreadable \subseteq MayRefuse /\ bit13 \in BOOLEAN /\ cancelled \in BOOLEAN
    OBVIOUS
  <2>4. simple \in BOOLEAN /\ streaming \in BOOLEAN
    OBVIOUS
  <2> QED
    BY <2>1, <2>3, <2>4, <2>5, <2>6 DEF TypeOK, Places, Commands
<1>2. AttemptLeft /\ DecodedInItsLayout
  BY DEF AttemptLeft, DecodedInItsLayout, NoData
<1>3. InOrder
  BY DEF InOrder, First, DataInOrder, LastIs, LastBefore, Announces
<1> QED
  BY <1>1, <1>2, <1>3 DEF LayoutInv

LEMMA CmdSyncVer == TypeOK => cmdSyncVer \in {1, 2}
BY DEF TypeOK, cmdSyncVer

LEMMA SendType ==
  ASSUME TypeOK, NEW cmd \in {"off", "hdr", "cfg2", "on"}, Command(cmd, cmdSyncVer)
  PROVE  commands' \in Seq(Commands)
BY CmdSyncVer DEF TypeOK, Command, Commands

LEMMA ClosedType ==
  ASSUME TypeOK, Closed
  PROVE  /\ commands' \in Seq(Commands) /\ wire' \in Seq(Frame) /\ control' \in Seq(Frame)
         /\ streaming' \in BOOLEAN
BY EmptySeq DEF TypeOK, Closed

LEMMA TakeReplyType ==
  ASSUME TypeOK, NEW i \in DOMAIN Replies, TakeReply(i)
  PROVE  /\ commands' = commands
         /\ wire' \in Seq(Frame) /\ control' \in Seq(Frame)
         /\ Replies[i] \in Frame
BY RemoveAtType DEF TypeOK, TakeReply, Replies

LEMMA ReplyIsFrame ==
  ASSUME TypeOK, NEW i \in DOMAIN Replies
  PROVE  Replies[i] \in Frame
<1>1. CASE transport = "listen"
  BY <1>1 DEF TypeOK, Replies
<1>2. CASE transport # "listen"
  BY <1>2 DEF TypeOK, Replies
<1> QED
  BY <1>1, <1>2

LEMMA HandshakeType == LayoutInv /\ Handshaking => TypeOK' /\ AttemptLeft'
<1> SUFFICES ASSUME LayoutInv, Handshaking PROVE TypeOK' /\ AttemptLeft'
  OBVIOUS
<1>t. TypeOK /\ AttemptLeft /\ MaxAttempts \in Nat /\ 0 < MaxAttempts
  BY SessionAssumption DEF LayoutInv
<1> USE <1>t DEF TypeOK, Places, Commands, AttemptLeft, At, fixed, quiet, linkVars, pmuVars
<1>1. CASE Dial
  BY <1>1 DEF Dial
<1>2. CASE Ask
  BY <1>2 DEF Ask, Command
<1>3. CASE WaitTimesOut
  BY <1>3 DEF WaitTimesOut
<1>4. CASE SkipData
  BY <1>4, TakeReplyType DEF SkipData, Readable, receiverVars
<1>5. CASE GotCfg2
  <2>1. PICK i \in DOMAIN Replies :
          profile' = Replies[i].layout /\ cmdVersion' = Replies[i].ver /\ TakeReply(i)
    BY <1>5 DEF GotCfg2, Readable
  <2>2. profile' \in 0 .. MaxLayout /\ cmdVersion' \in 0 .. 2
    BY <2>1, TakeReplyType, SessionAssumption DEF Frame
  <2> QED
    BY <1>5, <2>1, <2>2, TakeReplyType DEF GotCfg2
<1>6. CASE SendOn
  BY <1>6, CmdSyncVer DEF SendOn, Command
<1>7. CASE AskHeader
  BY <1>7, CmdSyncVer DEF AskHeader
<1>8. CASE HeaderWaitEnds
  BY <1>8, TakeReplyType DEF HeaderWaitEnds, Readable
<1>9. CASE RefusedCfg2
  <2>1. PICK i \in DOMAIN Replies : cmdVersion' = Replies[i].ver
    BY <1>9 DEF RefusedCfg2, Readable
  <2>2. cmdVersion' \in 0 .. 2
    BY <2>1, ReplyIsFrame DEF Frame
  <2> QED
    BY <1>9, <2>2, ClosedType DEF RefusedCfg2, Closed
<1> QED
  BY <1>1, <1>2, <1>3, <1>4, <1>5, <1>6, <1>7, <1>8, <1>9 DEF Handshaking

LEMMA ReceiverType == LayoutInv /\ Receiver => TypeOK' /\ AttemptLeft'
<1> SUFFICES ASSUME LayoutInv, Receiver PROVE TypeOK' /\ AttemptLeft'
  OBVIOUS
<1>t. TypeOK /\ AttemptLeft /\ MaxAttempts \in Nat /\ 0 < MaxAttempts
  BY SessionAssumption DEF LayoutInv
<1> USE <1>t DEF TypeOK, Places, Commands, AttemptLeft, At, fixed, quiet, linkVars, pmuVars
<1>1. CASE Handshaking
  BY <1>1, HandshakeType
<1>2. CASE ConnectFails
  BY <1>2, ClosedType DEF ConnectFails, Closed
<1>3. CASE Backoff
  BY <1>3 DEF Backoff
<1>4. CASE SessionStart
  <2>1. decoded' \in [layout : 0 .. MaxLayout, bit13 : BOOLEAN, as : 0 .. MaxLayout]
    BY <1>4, SessionAssumption DEF SessionStart, NoData
  <2> QED
    BY <1>4, <2>1 DEF SessionStart
<1>5. CASE RequestCfg2
  BY <1>5, SendType DEF RequestCfg2
<1>6. ASSUME ReceiveData PROVE TypeOK' /\ AttemptLeft'
  <2>1. PICK i \in DOMAIN wire :
          /\ wire' = RemoveAt(wire, i)
          /\ decoded' = [layout |-> wire[i].layout, bit13 |-> wire[i].bit13, as |-> profile]
          /\ watch' = IF wire[i].bit13 /\ watch = "clear" THEN "seen" ELSE watch
    BY <1>6 DEF ReceiveData, NextFrame
  <2>2. wire[i] \in Frame /\ wire' \in Seq(Frame)
    BY <2>1, RemoveAtType
  <2>3. decoded' \in [layout : 0 .. MaxLayout, bit13 : BOOLEAN, as : 0 .. MaxLayout]
    BY <2>1, <2>2, SessionAssumption DEF Frame
  <2> QED
    BY <1>6, <2>1, <2>2, <2>3 DEF ReceiveData
<1>7. ASSUME MidstreamCfg2 PROVE TypeOK' /\ AttemptLeft'
  <2>1. PICK i \in DOMAIN wire :
          /\ wire' = RemoveAt(wire, i)
          /\ \/ profile' = wire[i].layout /\ watch' = "clear"
             \/ profile' = profile /\ watch' = watch
    BY <1>7 DEF MidstreamCfg2, NextFrame
  <2>2. wire[i] \in Frame /\ wire' \in Seq(Frame)
    BY <2>1, RemoveAtType
  <2>3. profile' \in 0 .. MaxLayout /\ watch' \in {"clear", "seen", "requested"}
    BY <2>1, <2>2, SessionAssumption DEF Frame
  <2> QED
    BY <1>7, <2>2, <2>3 DEF MidstreamCfg2
<1>8. CASE StreamBreaks \/ SessionEnd
  BY <1>8 DEF StreamBreaks, SessionEnd
<1>9. CASE SessionOver
  BY <1>9, ClosedType DEF SessionOver, Closed
<1> QED
  BY <1>1, <1>2, <1>3, <1>4, <1>5, <1>6, <1>7, <1>8, <1>9 DEF Receiver, Receive

LEMMA ReplyType ==
  ASSUME TypeOK, NEW frame \in Frame, Reply(frame)
  PROVE  wire' \in Seq(Frame) /\ control' \in Seq(Frame)
<1> wire \in Seq(Frame) /\ control \in Seq(Frame)
  BY DEF TypeOK
<1>1. CASE transport = "listen"
  BY <1>1 DEF Reply
<1>2. CASE transport # "listen"
  BY <1>2 DEF Reply
<1> QED
  BY <1>1, <1>2

LEMMA PmuType == LayoutInv /\ Pmu => TypeOK' /\ AttemptLeft'
<1> SUFFICES ASSUME LayoutInv, Pmu PROVE TypeOK' /\ AttemptLeft'
  OBVIOUS
<1>t. TypeOK /\ AttemptLeft
  BY DEF LayoutInv
<1> USE <1>t DEF TypeOK, Commands, AttemptLeft, fixed, receiverVars, linkVars
<1>1. CASE PmuObeys
  <2>1. PICK i \in DOMAIN commands :
          /\ commands' = RemoveAt(commands, i)
          /\ \/ \E ver \in speaks : Reply(Cfg2(ver))
             \/ Reply(Header)
             \/ UNCHANGED <<wire, control>>
    BY <1>1 DEF PmuObeys, Readable
  <2>2. commands' \in Seq(Commands)
    BY <2>1, RemoveAtType
  <2>3. Header \in Frame /\ \A ver \in speaks : Cfg2(ver) \in Frame
    BY DEF Header, Cfg2, Frame
  <2>6. wire' \in Seq(Frame) /\ control' \in Seq(Frame)
    BY <2>1, <2>3, ReplyType
  <2>5. bit13' \in BOOLEAN /\ streaming' \in BOOLEAN
    BY <1>1 DEF PmuObeys
  <2> QED
    BY <1>1, <2>2, <2>5, <2>6 DEF PmuObeys
<1>2. CASE PmuSends
  <2>1. [type |-> "data", layout |-> layout, bit13 |-> bit13, ver |-> 0] \in Frame
    BY DEF Frame
  <2>2. wire' \in Seq(Frame)
    BY <1>2, <2>1, AppendProperties DEF PmuSends
  <2> QED
    BY <1>2, <2>2 DEF PmuSends, pmuVars
<1>3. CASE PmuReconfigures
  BY <1>3, SessionAssumption DEF PmuReconfigures
<1> QED
  BY <1>1, <1>2, <1>3 DEF Pmu

LEMMA NextTyping == LayoutInv /\ [Next]_vars => TypeOK' /\ AttemptLeft'
<1> SUFFICES ASSUME LayoutInv, [Next]_vars PROVE TypeOK' /\ AttemptLeft'
  OBVIOUS
<1>t. TypeOK /\ AttemptLeft
  BY DEF LayoutInv
<1> USE <1>t DEF TypeOK, AttemptLeft, fixed, receiverVars, linkVars, pmuVars
<1>1. CASE Receiver
  BY <1>1, ReceiverType
<1>2. CASE DrainControl
  <2>1. control' \in Seq(Frame)
    BY <1>2, HeadTailProperties DEF DrainControl
  <2> QED
    BY <1>2, <2>1 DEF DrainControl
<1>3. CASE Lose
  <2>1. wire' \in Seq(Frame) /\ commands' \in Seq(Commands)
    BY <1>3, RemoveAtType DEF Lose, Commands
  <2> QED
    BY <1>3, <2>1 DEF Lose, Commands
<1>4. CASE Cancel
  BY <1>4 DEF Cancel
<1>5. CASE Pmu
  BY <1>5, PmuType
<1>6. CASE UNCHANGED vars
  BY <1>6 DEF vars
<1> QED
  BY <1>1, <1>2, <1>3, <1>4, <1>5, <1>6 DEF Next

-----------------------------------------------------------------------------
(* The announcements over TCP. *)

(* Lemmas about the announcements in a channel.                            *)

(* No session, no profile that announces anything. *)
LEMMA SessionCloses ==
  ASSUME NEW w, NEW bad, NEW from, NEW p, NEW q, NEW l
  PROVE  /\ DataInOrder(w, bad, from, p) => DataInOrder(w, bad, 1, q)
         /\ LastIs(w, bad, from, p, l) => LastIs(w, bad, 1, q, l)
BY DEF DataInOrder, LastIs, LastBefore, Announces, Announced

(* The first frame of w is taken, v is left.  A CFG-2 becomes the profile, *)
(* so that place 1 becomes place 0; another frame announces nothing.       *)
Takes(frame, bad, from, p, to, q) ==
  \/ to = 1
  \/ Useful(frame, bad) /\ q = frame.layout
  \/ ~ Useful(frame, bad) /\ q = p /\ from = 0

PlacesMove(w, bad, from, p, v, to, q) ==
  \A i \in 1 .. Len(w) : \A j : LastBefore(v, bad, to, j, i) =>
    \E m \in 0 .. Len(w) :
      LastBefore(w, bad, from, m, i + 1) /\ Announced(w, p, m) = Announced(v, q, j)

LEMMA FirstPlaceMoves ==
  ASSUME NEW w \in Seq(Frame), w # <<>>, NEW v, v = RemoveAt(w, 1),
         NEW bad, NEW from \in {0, 1}, NEW p, NEW q, NEW to \in {0, 1},
         Takes(w[1], bad, from, p, to, q)
  PROVE  PlacesMove(w, bad, from, p, v, to, q)
<1> SUFFICES ASSUME NEW i \in 1 .. Len(w), NEW j, LastBefore(v, bad, to, j, i)
             PROVE  \E m \in 0 .. Len(w) :
                      LastBefore(w, bad, from, m, i + 1) /\ Announced(w, p, m) = Announced(v, q, j)
  BY DEF PlacesMove
<1>1. /\ Len(w) \in Nat \ {0} /\ Len(v) = Len(w) - 1
      /\ \A n \in 1 .. Len(w) - 1 : v[n] = w[n + 1]
  BY RemoveAtFirst, EmptySeq
<1>2. /\ j \in 0 .. i - 1 /\ Announces(v, bad, to, j)
      /\ \A k \in j + 1 .. i - 1 : ~ Useful(v[k], bad)
  BY DEF LastBefore
<1>3. ASSUME NEW k \in j + 2 .. i PROVE ~ Useful(w[k], bad)
  <2>1. k - 1 \in j + 1 .. i - 1 /\ k - 1 \in 1 .. Len(w) - 1
    BY <1>1, <1>2
  <2>2. v[k - 1] = w[(k - 1) + 1] /\ (k - 1) + 1 = k
    BY <1>1, <1>2, <2>1
  <2> QED
    BY <1>2, <2>1, <2>2
<1>4. CASE j > 0 \/ (Useful(w[1], bad) /\ q = w[1].layout)
  <2>1. Announces(w, bad, from, j + 1) /\ Announced(w, p, j + 1) = Announced(v, q, j)
    BY <1>1, <1>2, <1>4 DEF Announces, Announced
  <2> QED
    BY <1>1, <1>2, <1>3, <2>1 DEF LastBefore
<1>5. CASE j = 0 /\ ~ Useful(w[1], bad) /\ q = p /\ from = 0
  <2>1. Announces(w, bad, from, 0) /\ Announced(w, p, 0) = Announced(v, q, j)
    BY <1>5 DEF Announces, Announced
  <2>2. \A k \in 1 .. i : ~ Useful(w[k], bad)
    BY <1>3, <1>5
  <2>3. LastBefore(w, bad, from, 0, i + 1)
    BY <2>1, <2>2 DEF LastBefore
  <2> QED
    BY <1>1, <2>1, <2>3
<1>6. j = 0 => to = 0
  BY <1>2 DEF Announces
<1> QED
  BY <1>2, <1>4, <1>5, <1>6 DEF Takes

LEMMA OrderMoves ==
  ASSUME NEW w \in Seq(Frame), w # <<>>, NEW v, v = RemoveAt(w, 1),
         NEW bad, NEW from, NEW p, NEW to, NEW q, PlacesMove(w, bad, from, p, v, to, q),
         DataInOrder(w, bad, from, p)
  PROVE  DataInOrder(v, bad, to, q)
<1> SUFFICES ASSUME NEW i \in 1 .. Len(v), NEW j \in 0 .. Len(v),
                    v[i].type = "data", ~ v[i].bit13, v[i].layout \notin bad,
                    LastBefore(v, bad, to, j, i)
             PROVE  v[i].layout = Announced(v, q, j)
  BY DEF DataInOrder
<1>1. i \in 1 .. Len(w) /\ i + 1 \in 1 .. Len(w) /\ v[i] = w[i + 1]
  BY RemoveAtFirst, EmptySeq
<1>2. PICK m \in 0 .. Len(w) :
        LastBefore(w, bad, from, m, i + 1) /\ Announced(w, p, m) = Announced(v, q, j)
  BY <1>1 DEF PlacesMove
<1> QED
  BY <1>1, <1>2 DEF DataInOrder

LEMMA LastMoves ==
  ASSUME NEW w \in Seq(Frame), w # <<>>, NEW v, v = RemoveAt(w, 1),
         NEW bad, NEW from, NEW p, NEW to, NEW q, PlacesMove(w, bad, from, p, v, to, q),
         NEW l, LastIs(w, bad, from, p, l)
  PROVE  LastIs(v, bad, to, q, l)
<1> SUFFICES ASSUME NEW j \in 0 .. Len(v), LastBefore(v, bad, to, j, Len(v) + 1)
             PROVE  l = Announced(v, q, j)
  BY DEF LastIs
<1>1. Len(w) \in 1 .. Len(w) /\ Len(v) + 1 = Len(w)
  BY RemoveAtFirst, EmptySeq
<1>2. PICK m \in 0 .. Len(w) :
        LastBefore(w, bad, from, m, Len(w) + 1) /\ Announced(w, p, m) = Announced(v, q, j)
  BY <1>1 DEF PlacesMove
<1> QED
  BY <1>2 DEF LastIs

(* A frame is sent after w, v is the result: DATA in the layout announced  *)
(* last, or saying that it is not, or a CFG-2.                             *)
PlacesStay(w, v, bad, from, p) ==
  \A i \in 1 .. Len(w) + 1 : \A j : LastBefore(v, bad, from, j, i) =>
    /\ j \in 0 .. Len(w) /\ LastBefore(w, bad, from, j, i)
    /\ Announced(v, p, j) = Announced(w, p, j)

LEMMA SentPlaces ==
  ASSUME NEW w \in Seq(Frame), NEW frame \in Frame, NEW v, v = Append(w, frame),
         NEW bad, NEW from, NEW p
  PROVE  PlacesStay(w, v, bad, from, p)
<1> SUFFICES ASSUME NEW i \in 1 .. Len(w) + 1, NEW j, LastBefore(v, bad, from, j, i)
             PROVE  /\ j \in 0 .. Len(w) /\ LastBefore(w, bad, from, j, i)
                    /\ Announced(v, p, j) = Announced(w, p, j)
  BY DEF PlacesStay
<1> QED
  BY DEF LastBefore, Announces, Announced

LEMMA OrderSent ==
  ASSUME NEW w \in Seq(Frame), NEW frame \in Frame, NEW v, v = Append(w, frame),
         NEW bad, NEW from, NEW p, DataInOrder(w, bad, from, p),
         frame.type = "data" /\ ~ frame.bit13 /\ frame.layout \notin bad =>
           LastIs(w, bad, from, p, frame.layout)
  PROVE  DataInOrder(v, bad, from, p)
<1> SUFFICES ASSUME NEW i \in 1 .. Len(v), NEW j \in 0 .. Len(v),
                    v[i].type = "data", ~ v[i].bit13, v[i].layout \notin bad,
                    LastBefore(v, bad, from, j, i)
             PROVE  v[i].layout = Announced(v, p, j)
  BY DEF DataInOrder
<1>p. PlacesStay(w, v, bad, from, p)
  BY SentPlaces
<1>1. Len(w) \in Nat /\ i \in 1 .. Len(w) + 1
  OBVIOUS
<1>2. /\ j \in 0 .. Len(w) /\ LastBefore(w, bad, from, j, i)
      /\ Announced(v, p, j) = Announced(w, p, j)
  BY <1>1, <1>p DEF PlacesStay
<1>3. CASE i \in 1 .. Len(w)
  BY <1>2, <1>3 DEF DataInOrder
<1>4. CASE i = Len(w) + 1
  BY <1>1, <1>2, <1>4 DEF LastIs
<1> QED
  BY <1>1, <1>3, <1>4

LEMMA LastSent ==
  ASSUME NEW w \in Seq(Frame), NEW frame \in Frame, NEW v, v = Append(w, frame),
         NEW bad, NEW from, NEW p, NEW l,
         IF Useful(frame, bad) THEN l = frame.layout ELSE LastIs(w, bad, from, p, l)
  PROVE  LastIs(v, bad, from, p, l)
<1> SUFFICES ASSUME NEW j \in 0 .. Len(v), LastBefore(v, bad, from, j, Len(v) + 1)
             PROVE  l = Announced(v, p, j)
  BY DEF LastIs
<1>p. PlacesStay(w, v, bad, from, p)
  BY SentPlaces
<1>1. Len(w) \in Nat /\ Len(v) = Len(w) + 1 /\ v[Len(w) + 1] = frame
  OBVIOUS
<1>2. CASE Useful(frame, bad)
  BY <1>1, <1>2 DEF LastBefore, Announced
<1>3. CASE ~ Useful(frame, bad)
  <2>1. LastBefore(v, bad, from, j, Len(w) + 1) /\ Len(w) + 1 \in 1 .. Len(w) + 1
    BY <1>1, <1>3 DEF LastBefore, Announces
  <2>2. /\ j \in 0 .. Len(w) /\ LastBefore(w, bad, from, j, Len(w) + 1)
        /\ Announced(v, p, j) = Announced(w, p, j)
    BY <2>1, <1>p DEF PlacesStay
  <2> QED
    BY <1>3, <2>2 DEF LastIs
<1> QED
  BY <1>2, <1>3

-----------------------------------------------------------------------------
(* No step of a session over TCP breaks the order of announcements.        *)

LEMMA OrderStays ==
  ASSUME InOrder, UNCHANGED <<transport, unreadable, wire, layout>>, ~ bit13' => ~ bit13,
         First' = 1 \/ (First' = First /\ profile' = profile)
  PROVE  InOrder'
<1>1. CASE First' = First /\ profile' = profile
  BY <1>1 DEF InOrder
<1>2. CASE First' = 1
  <2> SUFFICES ASSUME transport = "tcp"
               PROVE  /\ DataInOrder(wire, unreadable, 1, profile')
                      /\ ~ bit13 /\ layout \notin unreadable =>
                           LastIs(wire, unreadable, 1, profile', layout)
    BY <1>2 DEF InOrder
  <2>1. DataInOrder(wire, unreadable, First, profile) /\ (~ bit13 /\ layout \notin unreadable => LastIs(wire, unreadable, First, profile, layout))
    BY DEF InOrder
  <2> QED
    BY <2>1, SessionCloses
<1> QED
  BY <1>1, <1>2

LEMMA OrderEmptied ==
  ASSUME wire' = <<>>, First' = 1
  PROVE  InOrder'
BY EmptySeq DEF InOrder, DataInOrder, LastIs, LastBefore, Announces

LEMMA OrderTaken ==
  ASSUME TypeOK, InOrder, wire # <<>>, wire' = RemoveAt(wire, 1),
         UNCHANGED <<transport, unreadable, layout, bit13>>,
         Takes(wire[1], unreadable, First, profile, First', profile')
  PROVE  InOrder'
<1>1. First \in {0, 1} /\ First' \in {0, 1} /\ wire \in Seq(Frame)
  BY DEF First, TypeOK
<1>2. PlacesMove(wire, unreadable, First, profile, wire', First', profile')
  BY <1>1, FirstPlaceMoves
<1>3. DataInOrder(wire, unreadable, First, profile) => DataInOrder(wire', unreadable, First', profile')
  BY <1>1, <1>2, OrderMoves
<1>4. LastIs(wire, unreadable, First, profile, layout) => LastIs(wire', unreadable, First', profile', layout)
  BY <1>1, <1>2, LastMoves
<1> QED
  BY <1>3, <1>4 DEF InOrder

LEMMA OrderAppended ==
  ASSUME TypeOK, InOrder, NEW frame \in Frame,
         wire' = Append(wire, frame), UNCHANGED <<transport, unreadable, profile, pc, layout>>,
         \/ frame.type = "cfg2" /\ frame.layout = layout
         \/ /\ frame.type # "cfg2" /\ bit13' = bit13
            /\ frame.type = "data" => frame.layout = layout /\ frame.bit13 = bit13
  PROVE  InOrder'
<1> SUFFICES ASSUME transport = "tcp"
             PROVE  /\ DataInOrder(wire', unreadable, First, profile)
                    /\ ~ bit13' /\ layout \notin unreadable =>
                         LastIs(wire', unreadable, First, profile, layout)
  BY DEF InOrder, First
<1>1. /\ wire \in Seq(Frame) /\ DataInOrder(wire, unreadable, First, profile)
      /\ ~ bit13 /\ layout \notin unreadable => LastIs(wire, unreadable, First, profile, layout)
  BY DEF TypeOK, InOrder
<1>2. frame.type = "data" /\ ~ frame.bit13 /\ frame.layout \notin unreadable =>
        LastIs(wire, unreadable, First, profile, frame.layout)
  BY <1>1
<1>3. DataInOrder(wire', unreadable, First, profile)
  BY <1>1, <1>2, OrderSent
<1>4. ASSUME ~ bit13', layout \notin unreadable
      PROVE  IF Useful(frame, unreadable) THEN layout = frame.layout
             ELSE LastIs(wire, unreadable, First, profile, layout)
  BY <1>1, <1>4 DEF Useful
<1>5. ~ bit13' /\ layout \notin unreadable => LastIs(wire', unreadable, First, profile, layout)
  BY <1>1, <1>4, LastSent
<1> QED
  BY <1>3, <1>5

LEMMA TransportFixed == [Next]_vars => transport' = transport
BY DEF Next, Receiver, Handshaking, Receive, Pmu, fixed, vars, Dial, AskHeader,
       HeaderWaitEnds, Ask, WaitTimesOut, SkipData, GotCfg2, RefusedCfg2, SendOn, ConnectFails,
       Backoff, Closed, SessionStart, RequestCfg2, ReceiveData, MidstreamCfg2, StreamBreaks,
       SessionEnd, SessionOver, DrainControl, Lose, Cancel, PmuObeys, PmuSends,
       PmuReconfigures

LEMMA NextInOrder == LayoutInv /\ [Next]_vars => InOrder'
<1> SUFFICES ASSUME LayoutInv, [Next]_vars, transport = "tcp" PROVE InOrder'
  BY TransportFixed DEF InOrder
<1>t. TypeOK /\ InOrder
  BY DEF LayoutInv
<1> USE DEF At, fixed, quiet, linkVars, pmuVars, receiverVars
<1>1. CASE Dial \/ AskHeader \/ Ask \/ WaitTimesOut \/ Backoff
  BY <1>1, <1>t, OrderStays DEF Dial, AskHeader, Ask, WaitTimesOut, Backoff, First
<1>2. CASE SendOn \/ RequestCfg2 \/ SessionStart
  BY <1>2, <1>t, OrderStays DEF SendOn, RequestCfg2, SessionStart, First
<1>3. CASE StreamBreaks \/ SessionEnd \/ DrainControl \/ Cancel \/ UNCHANGED vars
  BY <1>3, <1>t, OrderStays DEF StreamBreaks, SessionEnd, DrainControl, Cancel, First, vars
<1>4. CASE ConnectFails \/ RefusedCfg2 \/ SessionOver
  BY <1>4, OrderEmptied DEF ConnectFails, RefusedCfg2, SessionOver, Closed, First
<1>5. CASE HeaderWaitEnds
  <2>1. CASE UNCHANGED linkVars
    BY <1>5, <2>1, <1>t, OrderStays DEF HeaderWaitEnds, First
  <2>2. CASE wire # <<>> /\ wire' = RemoveAt(wire, 1)
    BY <1>5, <2>2, <1>t, OrderTaken DEF HeaderWaitEnds, First, Takes
  <2> QED
    BY <1>5, <2>1, <2>2 DEF HeaderWaitEnds, Readable, Replies, TakeReply
<1>6. CASE SkipData
  <2>1. wire # <<>> /\ wire' = RemoveAt(wire, 1) /\ pc \in {"header", "wait"}
    BY <1>6 DEF SkipData, Readable, Replies, TakeReply
  <2> QED
    BY <1>6, <2>1, <1>t, OrderTaken DEF SkipData, First, Takes
<1>7. CASE GotCfg2
  <2>1. /\ wire # <<>> /\ wire' = RemoveAt(wire, 1)
        /\ Useful(wire[1], unreadable) /\ profile' = wire[1].layout
    BY <1>7 DEF GotCfg2, Readable, Replies, TakeReply, Parses, Useful
  <2> QED
    BY <1>7, <2>1, <1>t, OrderTaken DEF GotCfg2, Takes
<1>8. CASE ReceiveData
  <2>1. /\ wire # <<>> /\ wire' = RemoveAt(wire, 1)
        /\ wire[1].type = "data" /\ pc = "stream"
    BY <1>8 DEF ReceiveData, NextFrame, Readable, Udp
  <2> QED
    BY <1>8, <2>1, <1>t, OrderTaken DEF ReceiveData, First, Takes, Useful
<1>9. CASE MidstreamCfg2
  <2>1. /\ wire # <<>> /\ wire' = RemoveAt(wire, 1) /\ pc = "stream" /\ pc' = pc
        /\ \/ Useful(wire[1], unreadable) /\ profile' = wire[1].layout
           \/ ~ Useful(wire[1], unreadable) /\ profile' = profile
    BY <1>9 DEF MidstreamCfg2, NextFrame, Readable, Udp, Parses, Refused, Useful
  <2>2. Takes(wire[1], unreadable, First, profile, First', profile')
    BY <2>1 DEF First, Takes
  <2> QED
    BY <1>9, <2>1, <2>2, <1>t, OrderTaken DEF MidstreamCfg2
<1>10. CASE Lose
  BY <1>10, <1>t, OrderStays DEF Lose, Udp, First
<1>11. CASE PmuReconfigures
  BY <1>11, <1>t DEF PmuReconfigures, InOrder, First
<1>12. CASE PmuSends
  <2> DEFINE frame == [type |-> "data", layout |-> layout, bit13 |-> bit13, ver |-> 0]
  <2>1. frame \in Frame
    BY <1>t DEF Frame, TypeOK
  <2>2. wire' = Append(wire, frame)
    BY <1>12 DEF PmuSends
  <2> QED
    BY <1>12, <1>t, <2>1, <2>2, OrderAppended DEF PmuSends
<1>13. CASE PmuObeys
  <2>1. Header \in Frame /\ \A ver \in speaks : Cfg2(ver) \in Frame
    BY <1>t DEF Header, Cfg2, Frame, TypeOK
  <2>2. \/ \E ver \in speaks : wire' = Append(wire, Cfg2(ver))
        \/ wire' = Append(wire, Header) /\ bit13' = bit13
        \/ wire' = wire /\ bit13' = bit13
    BY <1>13, <1>t DEF PmuObeys, Reply, TypeOK
  <2>3. UNCHANGED <<transport, unreadable, profile, pc, layout>>
    BY <1>13 DEF PmuObeys
  <2>4. CASE \E ver \in speaks : wire' = Append(wire, Cfg2(ver))
    BY <1>t, <2>1, <2>3, <2>4, OrderAppended DEF Cfg2
  <2>5. CASE wire' = Append(wire, Header) /\ bit13' = bit13
    BY <1>t, <2>1, <2>3, <2>5, OrderAppended DEF Header
  <2>6. CASE wire' = wire /\ bit13' = bit13
    BY <1>t, <2>3, <2>6, OrderStays DEF First
  <2> QED
    BY <2>2, <2>4, <2>5, <2>6
<1> QED
  BY <1>1, <1>2, <1>3, <1>4, <1>5, <1>6, <1>7, <1>8, <1>9, <1>10, <1>11, <1>12, <1>13
     DEF Next, Receiver, Handshaking, Receive, Pmu

(* What is decoded is the first frame, and nothing is announced before it. *)
LEMMA NextDecoded == LayoutInv /\ [Next]_vars => DecodedInItsLayout'
<1> SUFFICES ASSUME LayoutInv, [Next]_vars PROVE DecodedInItsLayout'
  OBVIOUS
<1>t. TypeOK /\ InOrder /\ DecodedInItsLayout
  BY DEF LayoutInv
<1>1. CASE UNCHANGED <<transport, unreadable, decoded>>
  BY <1>t, <1>1 DEF DecodedInItsLayout
<1>2. CASE SessionStart
  BY <1>2 DEF SessionStart, NoData, DecodedInItsLayout
<1>3. CASE ReceiveData
  <2> SUFFICES ASSUME transport = "tcp", ~ wire[1].bit13, wire[1].layout \notin unreadable
               PROVE  wire[1].layout = profile
    BY <1>3 DEF ReceiveData, NextFrame, Readable, Udp, DecodedInItsLayout, fixed
  <2>1. wire # <<>> /\ 1 \in 1 .. Len(wire) /\ wire[1].type = "data" /\ pc = "stream"
    BY <1>3, <1>t DEF ReceiveData, NextFrame, Readable, Udp, At, TypeOK
  <2>2. LastBefore(wire, unreadable, First, 0, 1) /\ Announced(wire, profile, 0) = profile
    BY <2>1 DEF LastBefore, Announces, Announced, First
  <2>3. DataInOrder(wire, unreadable, First, profile) /\ 0 \in 0 .. Len(wire)
    BY <1>t, <2>1 DEF InOrder
  <2> QED
    BY <2>1, <2>2, <2>3 DEF DataInOrder
<1> QED
  BY <1>1, <1>2, <1>3
     DEF Next, Receiver, Handshaking, Receive, Pmu, fixed, receiverVars, quiet, vars,
         Dial, AskHeader, HeaderWaitEnds, Ask, WaitTimesOut, SkipData, GotCfg2, RefusedCfg2,
         SendOn, ConnectFails, Backoff, Closed, RequestCfg2, MidstreamCfg2, StreamBreaks, SessionEnd,
         SessionOver, DrainControl, Lose, Cancel, PmuObeys, PmuSends, PmuReconfigures

(* The inductive invariant holds of every session, for any transports,     *)
(* layouts and attempts (receiver.go, handshakeCFG, applyMidstreamCFG2).   *)
THEOREM AlwaysLayoutInv == Spec => []LayoutInv
<1>1. LayoutInv /\ [Next]_vars => LayoutInv'
  BY NextTyping, NextInOrder, NextDecoded DEF LayoutInv
<1> QED
  BY <1>1, InitLayoutInv, PTL DEF Spec

(* Every variable has its type, and no handshake asks more often than its  *)
(* deadline allows (receiver.go, requestCFG2).                             *)
THEOREM AlwaysTypeOK == Spec => []TypeOK
BY AlwaysLayoutInv, PTL DEF LayoutInv

(* Over TCP a DATA frame is decoded with the layout it was encoded with,   *)
(* unless it says itself that CFG-2 is due: whenever the PMU reconfigures, *)
(* wherever the session breaks, and however late the replies to the        *)
(* handshake's requests come (receiver.go, applyMidstreamCFG2).            *)
THEOREM AlwaysInItsLayout == Spec => []DecodedInItsLayout
BY AlwaysLayoutInv, PTL DEF LayoutInv
=============================================================================
