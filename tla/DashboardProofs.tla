--------------------------- MODULE DashboardProofs ---------------------------
(***************************************************************************)
(* Theorems about what the dashboard is fed, for any PMUs, clients, queue  *)
(* sizes, rings and rates: a client that follows the events misses none and *)
(* is never sent one on a closed channel, the tape keeps the order of the   *)
(* frames, and the frame rate shown recovers.                              *)
(***************************************************************************)
EXTENDS Dashboard, SequenceTheorems, TLAPS

(* The newest entries of a sequence are its last ones, in their order. *)
LEMMA NewestLast ==
  ASSUME NEW S, NEW seq \in Seq(S), NEW n \in Nat \ {0}
  PROVE  /\ Newest(seq, n) \in Seq(S)
         /\ \E k \in Nat : /\ Len(Newest(seq, n)) + k = Len(seq)
                           /\ \A i \in DOMAIN Newest(seq, n) :
                                i + k \in DOMAIN seq /\ Newest(seq, n)[i] = seq[i + k]
<1> DEFINE m == IF Len(seq) > n THEN Len(seq) - n + 1 ELSE 1
           new == SubSeq(seq, m, Len(seq))
<1>1. Len(seq) \in Nat /\ DOMAIN seq = 1 .. Len(seq) /\ \A i \in 1 .. Len(seq) : seq[i] \in S
  BY LenProperties
<1>2. m \in 1 .. Len(seq) + 1
  BY <1>1
<1>3. Newest(seq, n) = new
  BY DEF Newest
<1> HIDE DEF m
<1>4. /\ new \in Seq(S) /\ Len(new) = Len(seq) - m + 1
      /\ \A i \in 1 .. Len(seq) - m + 1 : new[i] = seq[m + i - 1]
  <2>1. \A i \in m .. Len(seq) : seq[i] \in S
    BY <1>1, <1>2
  <2>2. /\ new \in Seq(S) /\ Len(new) = IF m <= Len(seq) THEN Len(seq) - m + 1 ELSE 0
        /\ \A i \in 1 .. Len(seq) - m + 1 : new[i] = seq[m + i - 1]
    BY <1>1, <1>2, <2>1, SubSeqProperties
  <2> QED
    BY <1>1, <1>2, <2>2
<1> HIDE DEF new
<1>5. DOMAIN new = 1 .. Len(seq) - m + 1
  BY <1>4, LenProperties
<1>6. m - 1 \in Nat /\ Len(new) + (m - 1) = Len(seq)
  BY <1>1, <1>2, <1>4
<1>7. ASSUME NEW i \in DOMAIN new
      PROVE  i + (m - 1) \in DOMAIN seq /\ new[i] = seq[i + (m - 1)]
  <2>1. i + (m - 1) = m + i - 1 /\ i + (m - 1) \in 1 .. Len(seq)
    BY <1>1, <1>2, <1>5
  <2> QED
    BY <1>1, <1>4, <1>5, <2>1
<1> QED
  BY <1>3, <1>4, <1>6, <1>7

LEMMA HeadOfSeq ==
  ASSUME NEW S, NEW s \in Seq(S), s # <<>>
  PROVE  /\ Len(s) \in Nat \ {0} /\ DOMAIN s = 1 .. Len(s)
         /\ Head(s) = s[1] /\ Head(s) \in S
         /\ Tail(s) \in Seq(S) /\ DOMAIN Tail(s) = 1 .. Len(s) - 1
         /\ \A i \in DOMAIN Tail(s) : i + 1 \in DOMAIN s /\ Tail(s)[i] = s[i + 1]
<1>1. /\ Len(s) \in Nat \ {0} /\ DOMAIN s = 1 .. Len(s)
      /\ Head(s) \in S /\ Tail(s) \in Seq(S) /\ Len(Tail(s)) = Len(s) - 1
      /\ \A i \in 1 .. Len(Tail(s)) : Tail(s)[i] = s[i + 1]
  BY EmptySeq, LenProperties, HeadTailProperties
<1>2. DOMAIN Tail(s) = 1 .. Len(s) - 1
  BY <1>1, LenProperties
<1>3. Head(s) = s[1]
  OBVIOUS
<1> QED
  BY <1>1, <1>2, <1>3

LEMMA AppendToSeq ==
  ASSUME NEW S, NEW s \in Seq(S), NEW e \in S
  PROVE  /\ Append(s, e) \in Seq(S) /\ Len(Append(s, e)) = Len(s) + 1 /\ Len(s) \in Nat
         /\ DOMAIN s = 1 .. Len(s) /\ DOMAIN Append(s, e) = 1 .. Len(s) + 1
         /\ \A i \in 1 .. Len(s) + 1 : Append(s, e)[i] = IF i = Len(s) + 1 THEN e ELSE s[i]
<1>1. /\ Append(s, e) \in Seq(S) /\ Len(Append(s, e)) = Len(s) + 1
      /\ \A i \in 1 .. Len(s) : Append(s, e)[i] = s[i]
      /\ Append(s, e)[Len(s) + 1] = e
  BY AppendProperties
<1>2. Len(s) \in Nat /\ DOMAIN s = 1 .. Len(s) /\ DOMAIN Append(s, e) = 1 .. Len(s) + 1
  BY <1>1, LenProperties
<1> QED
  BY <1>1, <1>2

LEMMA AppendToSet ==
  ASSUME NEW S, NEW s \in Seq(S), NEW e \in S
  PROVE  ToSet(Append(s, e)) = ToSet(s) \cup {e}
<1> DEFINE t == Append(s, e)
<1>1. /\ Len(s) \in Nat /\ DOMAIN s = 1 .. Len(s) /\ DOMAIN t = 1 .. Len(s) + 1
      /\ \A i \in 1 .. Len(s) + 1 : t[i] = IF i = Len(s) + 1 THEN e ELSE s[i]
  BY AppendToSeq
<1> HIDE DEF t
<1>2. \A i \in DOMAIN s : i \in DOMAIN t /\ t[i] = s[i]
  BY <1>1
<1>3. \A i \in DOMAIN t : t[i] = e \/ (i \in DOMAIN s /\ t[i] = s[i])
  BY <1>1
<1>4. Len(s) + 1 \in DOMAIN t /\ t[Len(s) + 1] = e
  BY <1>1
<1>5. ToSet(t) = ToSet(s) \cup {e}
  BY <1>2, <1>3, <1>4 DEF ToSet
<1> QED
  BY <1>5 DEF t

-----------------------------------------------------------------------------
(* The feed. *)

Steps == {"visit", "subscribe", "copy", "stream", "unsubscribe", "close", "gone"}

LEMMA OrderOfSteps ==
  /\ After(Opening, "visit") = "subscribe" /\ After(Opening, "subscribe") = "copy"
  /\ After(Opening, "copy") = "stream"
  /\ After(Closing, "stream") = "unsubscribe" /\ After(Closing, "unsubscribe") = "close"
  /\ After(Closing, "close") = "gone"
<1>1. DOMAIN Opening = {1, 2, 3, 4} /\ DOMAIN Closing = {1, 2, 3, 4}
  BY DEF Opening, Closing
<1>2. /\ Opening[1] = "visit" /\ Opening[2] = "subscribe" /\ Opening[3] = "copy"
      /\ Opening[4] = "stream"
  BY DEF Opening
<1>3. /\ Closing[1] = "stream" /\ Closing[2] = "unsubscribe" /\ Closing[3] = "close"
      /\ Closing[4] = "gone"
  BY DEF Closing
<1>4. After(Opening, "visit") = "subscribe"
  BY <1>1, <1>2 DEF After
<1>5. After(Opening, "subscribe") = "copy"
  BY <1>1, <1>2 DEF After
<1>6. After(Opening, "copy") = "stream"
  BY <1>1, <1>2 DEF After
<1>7. After(Closing, "stream") = "unsubscribe"
  BY <1>1, <1>3 DEF After
<1>8. After(Closing, "unsubscribe") = "close"
  BY <1>1, <1>3 DEF After
<1>9. After(Closing, "close") = "gone"
  BY <1>1, <1>3 DEF After
<1> QED
  BY <1>4, <1>5, <1>6, <1>7, <1>8, <1>9

FeedTypes ==
  /\ raised \in Nat /\ ring \in Seq(Nat)
  /\ channel \in [Clients -> Seq(Nat)] /\ written \in [Clients -> Seq(Nat)]
  /\ step \in [Clients -> Steps] /\ first \in [Clients -> Nat]
  /\ bound.clients \subseteq Clients

(* The ring holds the latest events, without a gap, up to the last one. *)
RingIsLatest == \A i \in DOMAIN ring : ring[i] = raised - Len(ring) + i

(* Where a client is in handleConversationEvents tells whether the bus has *)
(* its channel, and whether that is closed.                                *)
Subscribed ==
  /\ subscribers = {c \in Clients : step[c] \in {"copy", "stream", "unsubscribe"}}
  /\ closed = {c \in Clients : step[c] = "gone"}

FeedInv == FeedTypes /\ RingIsLatest /\ Subscribed /\ FeedHasNoGap

(* What a client was sent or is about to be sent. *)
LEMMA GapStays ==
  ASSUME FeedTypes, FeedHasNoGap, NEW d \in Clients, raised' = raised, first' = first,
         lossy' = lossy, step' \in {step, [step EXCEPT ![d] = "unsubscribe"]},
         \A c \in Clients : ToSet(written'[c]) \cup ToSet(channel'[c])
                            = ToSet(written[c]) \cup ToSet(channel[c])
  PROVE  FeedHasNoGap'
<1> SUFFICES ASSUME NEW c \in Clients, step'[c] = "stream", c \notin lossy
             PROVE  first[c] .. raised \subseteq ToSet(written'[c]) \cup ToSet(channel'[c])
  BY DEF FeedHasNoGap
<1>1. step[c] = "stream"
  BY DEF FeedTypes
<1> QED
  BY <1>1 DEF FeedHasNoGap

LEMMA PostFeeds ==
  ASSUME FeedInv, NEW t \in Threads, Post(t), bound' = bound
  PROVE  FeedInv'
<1>1. /\ raised' = raised + 1 /\ ring' = Newest(Append(ring, raised + 1), RingSize)
      /\ channel' = [c \in Clients |->
                       IF c \in subscribers /\ Len(channel[c]) < ChannelSize
                       THEN Append(channel[c], raised + 1) ELSE channel[c]]
      /\ lossy' = lossy \cup {c \in subscribers : Len(channel[c]) >= ChannelSize}
      /\ UNCHANGED <<subscribers, closed, written, step, first>>
  BY DEF Post
<1>2. FeedTypes /\ RingIsLatest /\ Subscribed /\ FeedHasNoGap /\ raised + 1 \in Nat
  BY DEF FeedInv, FeedTypes
<1>3. /\ Append(ring, raised + 1) \in Seq(Nat) /\ Len(ring) \in Nat
      /\ \A i \in 1 .. Len(ring) + 1 :
           Append(ring, raised + 1)[i] = IF i = Len(ring) + 1 THEN raised + 1 ELSE ring[i]
      /\ Len(Append(ring, raised + 1)) = Len(ring) + 1
      /\ DOMAIN ring = 1 .. Len(ring) /\ DOMAIN Append(ring, raised + 1) = 1 .. Len(ring) + 1
  BY <1>2, AppendToSeq DEF FeedTypes
<1>4. ring' \in Seq(Nat) /\ RingIsLatest'
  <2> DEFINE all == Append(ring, raised + 1)
  <2>1. \A i \in DOMAIN all : all[i] = raised + 1 - (Len(ring) + 1) + i
    BY <1>2, <1>3 DEF RingIsLatest, FeedTypes
  <2> HIDE DEF all
  <2>2. /\ ring' \in Seq(Nat)
        /\ \E k \in Nat : /\ Len(ring') + k = Len(ring) + 1
                          /\ \A i \in DOMAIN ring' : i + k \in DOMAIN all /\ ring'[i] = all[i + k]
    <3>1. all \in Seq(Nat) /\ Len(all) = Len(ring) + 1 /\ RingSize \in Nat \ {0}
      BY <1>3, SizeAssumption DEF all
    <3>2. ring' = Newest(all, RingSize)
      BY <1>1 DEF all
    <3>3. PICK rest, S : rest = Newest(all, RingSize) /\ S = Nat
      OBVIOUS
    <3>4. all \in Seq(S) /\ RingSize \in Nat \ {0}
      BY <3>1, <3>3, Zenon
    <3>5. /\ rest \in Seq(S)
          /\ \E k \in Nat : /\ Len(rest) + k = Len(all)
                            /\ \A i \in DOMAIN rest : i + k \in DOMAIN all /\ rest[i] = all[i + k]
      BY <3>3, <3>4, NewestLast, ZenonT(30)
    <3>6. ring' = rest
      BY <3>2, <3>3
    <3> QED
      BY <3>1, <3>3, <3>5, <3>6, Zenon
  <2>3. PICK k \in Nat : /\ Len(ring') + k = Len(ring) + 1
                         /\ \A i \in DOMAIN ring' : i + k \in DOMAIN all /\ ring'[i] = all[i + k]
    BY <2>2
  <2>4. Len(ring') \in Nat /\ DOMAIN ring' = 1 .. Len(ring')
    BY <2>2, LenProperties
  <2>5. \A i \in DOMAIN ring' : ring'[i] = raised' - Len(ring') + i
    <3> TAKE i \in DOMAIN ring'
    <3>1. ring'[i] = raised + 1 - (Len(ring) + 1) + (i + k)
      BY <2>1, <2>3
    <3> QED
      BY <1>1, <1>2, <1>3, <2>3, <2>4, <3>1 DEF FeedTypes
  <2> QED
    BY <2>2, <2>5 DEF RingIsLatest
<1>5. FeedTypes'
  BY <1>1, <1>2, <1>4, AppendToSeq DEF FeedTypes
<1>6. FeedHasNoGap'
  <2> SUFFICES ASSUME NEW c \in Clients, step[c] = "stream", c \notin lossy'
               PROVE  first[c] .. raised + 1 \subseteq ToSet(written[c]) \cup ToSet(channel'[c])
    BY <1>1 DEF FeedHasNoGap
  <2>1. c \in subscribers /\ c \notin lossy
    BY <1>1, <1>2 DEF Subscribed
  <2>2. Len(channel[c]) \in Nat /\ DOMAIN channel[c] = 1 .. Len(channel[c])
    BY <1>2, LenProperties DEF FeedTypes
  <2>3. Len(channel[c]) < ChannelSize
    BY <1>1, <2>1, <2>2, SizeAssumption
  <2>4. channel'[c] = Append(channel[c], raised + 1)
    BY <1>1, <2>1, <2>3
  <2>5. ToSet(channel[c]) \subseteq ToSet(channel'[c]) /\ raised + 1 \in ToSet(channel'[c])
    <3>1. channel[c] \in Seq(Nat)
      BY <1>2 DEF FeedTypes
    <3>2. ToSet(channel'[c]) = ToSet(channel[c]) \cup {raised + 1}
      BY <1>2, <2>4, <3>1, AppendToSet
    <3> QED
      BY <3>2
  <2>6. first[c] .. raised + 1 \subseteq first[c] .. raised \cup {raised + 1}
    BY <1>2 DEF FeedTypes
  <2> QED
    BY <1>2, <2>1, <2>5, <2>6 DEF FeedHasNoGap
<1> QED
  BY <1>1, <1>2, <1>4, <1>5, <1>6 DEF FeedInv, Subscribed

LEMMA ClientFeeds ==
  ASSUME FeedInv, NEW d \in Clients, bound' = bound,
         \/ Visit(d) \/ Subscribe(d) \/ Copy(d) \/ Follow(d)
         \/ Leave(d) \/ Unsubscribe(d) \/ Close(d)
  PROVE  FeedInv'
<1>0. FeedTypes /\ RingIsLatest /\ Subscribed /\ FeedHasNoGap /\ UNCHANGED <<raised, ring>>
  BY DEF FeedInv, Visit, Subscribe, Copy, Follow, Leave, Unsubscribe, Close, busVars
<1>1. RingIsLatest'
  BY <1>0 DEF RingIsLatest
<1>2. CASE Visit(d) \/ Subscribe(d) \/ Leave(d) \/ Unsubscribe(d) \/ Close(d)
  <2>1. /\ UNCHANGED <<channel, written, first, lossy>>
        /\ \/ Visit(d) /\ step[d] = "visit" /\ step' = [step EXCEPT ![d] = "subscribe"]
                       /\ UNCHANGED <<subscribers, closed>>
           \/ Subscribe(d) /\ step[d] = "subscribe" /\ step' = [step EXCEPT ![d] = "copy"]
                       /\ subscribers' = subscribers \cup {d} /\ closed' = closed
           \/ Leave(d) /\ step[d] = "stream" /\ step' = [step EXCEPT ![d] = "unsubscribe"]
                       /\ UNCHANGED <<subscribers, closed>>
           \/ Unsubscribe(d) /\ step[d] = "unsubscribe" /\ step' = [step EXCEPT ![d] = "close"]
                       /\ subscribers' = subscribers \ {d} /\ closed' = closed
           \/ Close(d) /\ step[d] = "close" /\ step' = [step EXCEPT ![d] = "gone"]
                       /\ subscribers' = subscribers /\ closed' = closed \cup {d}
    BY <1>2, OrderOfSteps DEF Visit, Subscribe, Leave, Unsubscribe, Close, Goes
  <2>2. FeedTypes'
    BY <1>0, <2>1 DEF FeedTypes, Steps
  <2>3. Subscribed'
    BY <1>0, <2>1, ZenonT(30) DEF Subscribed, FeedTypes
  <2>4. FeedHasNoGap'
    BY <1>0, <2>1 DEF FeedHasNoGap, FeedTypes
  <2> QED
    BY <1>1, <2>2, <2>3, <2>4 DEF FeedInv
<1>3. CASE Copy(d)
  <2>1. /\ step[d] = "copy" /\ step' = [step EXCEPT ![d] = "stream"]
        /\ written' = [written EXCEPT ![d] = ring]
        /\ first' = [first EXCEPT ![d] = IF ring = <<>> THEN raised + 1 ELSE Head(ring)]
        /\ UNCHANGED <<subscribers, closed, channel, lossy>>
    BY <1>3, OrderOfSteps DEF Copy, Goes
  <2>2. (IF ring = <<>> THEN raised + 1 ELSE Head(ring)) \in Nat
    BY <1>0, HeadOfSeq DEF FeedTypes
  <2>3. FeedTypes'
    BY <1>0, <2>1, <2>2 DEF FeedTypes, Steps
  <2>4. Subscribed'
    BY <1>0, <2>1 DEF Subscribed, FeedTypes
  <2>5. FeedHasNoGap'
    <3> SUFFICES ASSUME NEW c \in Clients, step'[c] = "stream", c \notin lossy
                 PROVE  first'[c] .. raised \subseteq ToSet(written'[c]) \cup ToSet(channel[c])
      BY <1>0, <2>1 DEF FeedHasNoGap
    <3>1. CASE c # d
      BY <1>0, <2>1, <3>1 DEF FeedHasNoGap, FeedTypes
    <3>2. CASE c = d /\ ring = <<>>
      <4>1. first'[c] = raised + 1
        BY <1>0, <2>1, <3>2 DEF FeedTypes
      <4> QED
        BY <1>0, <4>1 DEF FeedTypes
    <3>3. CASE c = d /\ ring # <<>>
      <4>1. written'[c] = ring /\ first'[c] = Head(ring)
        BY <1>0, <2>1, <3>3 DEF FeedTypes
      <4>2. Len(ring) \in Nat \ {0} /\ DOMAIN ring = 1 .. Len(ring) /\ Head(ring) = ring[1]
        BY <1>0, <3>3, HeadOfSeq DEF FeedTypes
      <4>3. first'[c] = raised - Len(ring) + 1
        BY <1>0, <4>1, <4>2 DEF RingIsLatest
      <4>4. ASSUME NEW e \in first'[c] .. raised PROVE e \in ToSet(ring)
        <5> DEFINE i == e - raised + Len(ring)
        <5>1. i \in DOMAIN ring /\ raised - Len(ring) + i = e
          BY <1>0, <4>2, <4>3, SMTT(30) DEF FeedTypes
        <5> HIDE DEF i
        <5>2. ring[i] = e
          BY <1>0, <5>1 DEF RingIsLatest
        <5> QED
          BY <5>1, <5>2 DEF ToSet
      <4> QED
        BY <4>1, <4>4
    <3> QED
      BY <3>1, <3>2, <3>3
  <2> QED
    BY <1>1, <2>3, <2>4, <2>5 DEF FeedInv
<1>4. CASE Follow(d)
  <2>1. /\ channel[d] # <<>>
        /\ written' = [written EXCEPT ![d] = Append(written[d], Head(channel[d]))]
        /\ channel' = [channel EXCEPT ![d] = Tail(channel[d])]
        /\ UNCHANGED <<subscribers, closed, step, first, lossy>>
    BY <1>4 DEF Follow
  <2>2. /\ written[d] \in Seq(Nat) /\ channel[d] \in Seq(Nat)
        /\ DOMAIN channel[d] = 1 .. Len(channel[d]) /\ Len(channel[d]) \in Nat \ {0}
        /\ Head(channel[d]) \in Nat /\ Head(channel[d]) = channel[d][1]
        /\ Tail(channel[d]) \in Seq(Nat) /\ DOMAIN Tail(channel[d]) = 1 .. Len(channel[d]) - 1
        /\ \A i \in DOMAIN Tail(channel[d]) :
             i + 1 \in DOMAIN channel[d] /\ Tail(channel[d])[i] = channel[d][i + 1]
    <3>1. written[d] \in Seq(Nat) /\ channel[d] \in Seq(Nat)
      BY <1>0 DEF FeedTypes
    <3> QED
      BY <2>1, <3>1, HeadOfSeq
  <2>3. Append(written[d], Head(channel[d])) \in Seq(Nat)
    BY <2>2, AppendToSeq
  <2>4. FeedTypes'
    BY <1>0, <2>1, <2>2, <2>3 DEF FeedTypes
  <2>5. Subscribed'
    BY <1>0, <2>1 DEF Subscribed
  <2>6. ToSet(channel[d]) = {Head(channel[d])} \cup ToSet(Tail(channel[d]))
    <3>1. ASSUME NEW i \in DOMAIN channel[d]
          PROVE  channel[d][i] \in {Head(channel[d])} \cup ToSet(Tail(channel[d]))
      <4>1. CASE i = 1
        BY <2>2, <4>1
      <4>2. CASE i # 1
        <5>1. i - 1 \in DOMAIN Tail(channel[d]) /\ (i - 1) + 1 = i
          BY <2>2, <4>2
        <5> QED
          BY <2>2, <5>1 DEF ToSet
      <4> QED
        BY <4>1, <4>2
    <3>2. 1 \in DOMAIN channel[d]
      BY <2>2
    <3> QED
      BY <2>2, <3>1, <3>2 DEF ToSet
  <2>7. ToSet(Append(written[d], Head(channel[d]))) = ToSet(written[d]) \cup {Head(channel[d])}
    BY <2>2, AppendToSet
  <2>8. \A c \in Clients : ToSet(written'[c]) \cup ToSet(channel'[c])
                           = ToSet(written[c]) \cup ToSet(channel[c])
    BY <1>0, <2>1, <2>6, <2>7 DEF FeedTypes
  <2>9. FeedHasNoGap'
    BY <1>0, <2>1, <2>8, GapStays
  <2> QED
    BY <1>1, <2>4, <2>5, <2>9 DEF FeedInv
<1> QED
  BY <1>2, <1>3, <1>4

(* Frames, readings, rates and the tape have nothing to do with the feed. *)
LEMMA OthersFeed ==
  ASSUME FeedInv, UNCHANGED <<bound, busVars, clientVars>>
  PROVE  FeedInv'
<1>1. UNCHANGED <<bound, raised, ring, subscribers, closed, channel, written, step, first, lossy>>
  BY DEF busVars, clientVars
<1> QED
  BY <1>1 DEF FeedInv, FeedTypes, RingIsLatest, Subscribed, FeedHasNoGap

LEMMA NextFeeds == FeedInv /\ [Next]_dashVars => FeedInv'
<1> SUFFICES ASSUME FeedInv, [Next]_dashVars PROVE FeedInv'
  OBVIOUS
<1>1. CASE Feed
  <2>1. AlertsNext(bound.clients) /\ bound' = bound
    BY <1>1 DEF Feed, handlerVars
  <2>2. ASSUME NEW t \in Threads, Post(t) PROVE FeedInv'
    BY <2>1, <2>2, PostFeeds
  <2>3. ASSUME NEW key \in recent, Expire(key) PROVE FeedInv'
    BY <2>1, <2>3, OthersFeed DEF Expire
  <2>4. ASSUME NEW c \in bound.clients,
               \/ Visit(c) \/ Subscribe(c) \/ Copy(c) \/ Follow(c)
               \/ Leave(c) \/ Unsubscribe(c) \/ Close(c)
        PROVE  FeedInv'
    <3>1. c \in Clients
      BY DEF FeedInv, FeedTypes
    <3> QED
      BY <2>1, <2>4, <3>1, ClientFeeds
  <2> QED
    BY <2>1, <2>2, <2>3, <2>4 DEF AlertsNext
<1>2. CASE Cancel \/ Rates
  BY <1>2, OthersFeed DEF Cancel, Rates, handlerVars, alertVars
<1>3. ASSUME NEW t \in Threads, Raise(t) PROVE FeedInv'
  BY <1>3, OthersFeed DEF Raise, handlerVars
<1>4. ASSUME NEW p \in PMUs, \/ Arrive(p) \/ HandleFrame(p) \/ RecordFrameAsync(p)
                             \/ RecordReading(p)
      PROVE  FeedInv'
  BY <1>4, OthersFeed DEF Arrive, HandleFrame, RecordFrameAsync, RecordReading, alertVars
<1>5. ASSUME NEW w \in Workers, Take(w) \/ recordReadingSync(w) \/ Quit(w) PROVE FeedInv'
  BY <1>5, OthersFeed DEF Take, recordReadingSync, Quit, handlerVars, alertVars
<1>6. ASSUME NEW w \in TapeWorkers, Capture(w) \/ recordLocked(w) PROVE FeedInv'
  BY <1>6, OthersFeed DEF Capture, recordLocked, handlerVars, alertVars
<1>7. CASE UNCHANGED dashVars
  BY <1>7, OthersFeed DEF dashVars, handlerVars, alertVars
<1> QED
  BY <1>1, <1>2, <1>3, <1>4, <1>5, <1>6, <1>7 DEF Next

LEMMA InitFeeds == Init => FeedInv
<1> SUFFICES ASSUME Init PROVE FeedInv
  OBVIOUS
<1>1. AlertsInit /\ bound \in Bounds
  BY DEF Init
<1>2. FeedTypes
  BY <1>1, BoundsAssumption DEF AlertsInit, FeedTypes, Steps
<1>3. RingIsLatest /\ Subscribed /\ FeedHasNoGap
  BY <1>1 DEF AlertsInit, RingIsLatest, Subscribed, FeedHasNoGap
<1> QED
  BY <1>2, <1>3 DEF FeedInv

(* A client gets the backlog and everything that follows unless its own    *)
(* channel was full, and nothing is sent on a closed channel, whoever      *)
(* raises events while clients come and go (monitoring/conversation.go,    *)
(* handleConversationEvents and RecordConversation).                       *)
THEOREM AlwaysFeedIsSafe == Spec => []FeedIsSafe
<1>1. FeedInv => FeedIsSafe
  BY DEF FeedInv, Subscribed, FeedIsSafe, NeverSendsOnClosed
<1> QED
  BY <1>1, InitFeeds, NextFeeds, PTL DEF Spec

-----------------------------------------------------------------------------
(* The tape. *)

(* A frame has its number, and a kind that is one of Kinds or NoFrame's. *)
Numbered == [n : Nat, kind : [fault : {"garbled", "unsynced", "none"}, off : Int]]

Entries == [pmu : PMUs, n : Nat, stamp : Int]

Earlier(a, b) == a.pmu = b.pmu => a.n < b.n

Rising(seq) == \A i, j \in DOMAIN seq : i < j => Earlier(seq[i], seq[j])

(* What the tape worker holds. *)
Taken == {taping[w] : w \in TapeWorkers} \ {None}

(* PMU p has sent frame number n, and is done with it: its receiver has     *)
(* another one in hand, or none.                                           *)
Sent(p, n) == n <= count[p] /\ (at[p] \in {"handle", "capture"} => n < frame[p].n)

TapeTypes ==
  /\ count \in [PMUs -> Nat] /\ frame \in [PMUs -> Numbered]
  /\ at \in [PMUs -> {"idle", "handle", "capture", "deliver"}]
  /\ captureCh \in Seq(Entries) /\ tape \in Seq(Entries)
  /\ taping \in [TapeWorkers -> Entries \cup {None}]
  /\ lastByPMU \in [PMUs -> Int]
  /\ lastGap \in [PMUs -> Int]

(* Entries keep their order from the queue through the worker to the tape. *)
InOrder ==
  /\ Rising(tape) /\ Rising(captureCh)
  /\ \A a \in ToSet(tape), b \in Taken \cup ToSet(captureCh) : Earlier(a, b)
  /\ \A a \in Taken, b \in ToSet(captureCh) : Earlier(a, b)

AllSent ==
  /\ \A p \in PMUs : at[p] \in {"handle", "capture"} => frame[p].n <= count[p]
  /\ \A e \in ToSet(tape) \cup Taken \cup ToSet(captureCh) : Sent(e.pmu, e.n)

(* The stamp is off by no more than the quality check allows. *)
Near(stamp, n) ==
  100 + 2 * n - MaxClockSkew <= stamp /\ stamp <= 100 + 2 * n + MaxClockSkew

(* The quality check believes a stamp that is near its time, and the last  *)
(* stamp on the tape is near the time of an earlier frame.                 *)
Believed ==
  /\ \A p \in PMUs : at[p] = "capture" => Near(Stamp(frame[p]), frame[p].n)
  /\ \A p \in PMUs : lastGap[p] > -2 * MaxClockSkew
  /\ \A p \in PMUs : lastByPMU[p] <= 100 + 2 * count[p] + MaxClockSkew
  /\ \A p \in PMUs : at[p] \in {"handle", "capture"} =>
       lastByPMU[p] < 100 + 2 * frame[p].n + MaxClockSkew
  /\ \A e \in Taken \cup ToSet(captureCh) :
       Near(e.stamp, e.n) /\ lastByPMU[e.pmu] < 100 + 2 * e.n + MaxClockSkew

Stamped == dropRejected => Believed

TapeInv == TapeTypes /\ InOrder /\ AllSent /\ Stamped

LEMMA Stamps ==
  ASSUME NEW f \in Numbered
  PROVE  Stamp(f) \in Int /\ (Verdict(f) = "ok" => Near(Stamp(f), f.n))
<1>1. Clock(f) \in Int /\ Clock(f) = 100 + 2 * f.n /\ Stamp(f) \in Int
  BY DEF Clock, Stamp, Numbered
<1>2. MaxClockSkew \in Nat /\ f.n \in Nat
  BY KindsAssumption DEF Numbered
<1>3. ASSUME Verdict(f) = "ok" PROVE Near(Stamp(f), f.n)
  <2>1. Reading(f).timestamp = Stamp(f)
    BY DEF Reading
  <2>2. ~ (abs(Clock(f) - Stamp(f)) > MaxClockSkew)
    BY <1>3, <2>1 DEF Verdict, Validate
  <2>3. ASSUME NEW c \in Int, NEW t \in Int, ~ (abs(c - t) > MaxClockSkew)
        PROVE  c - MaxClockSkew <= t /\ t <= c + MaxClockSkew
    BY <1>2, <2>3 DEF abs
  <2>4. Clock(f) - MaxClockSkew <= Stamp(f) /\ Stamp(f) <= Clock(f) + MaxClockSkew
    BY <1>1, <2>2, <2>3
  <2> QED
    BY <1>1, <1>2, <2>4 DEF Near
<1> QED
  BY <1>1, <1>3

LEMMA OthersTape ==
  ASSUME TapeInv, UNCHANGED <<dropRejected, count, frame, at, tapeVars>>
  PROVE  TapeInv'
BY DEF TapeInv, TapeTypes, InOrder, Rising, Taken, AllSent, Sent, Stamped, Believed, tapeVars

LEMMA EntriesThere ==
  ASSUME TapeTypes
  PROVE  /\ ToSet(tape) \subseteq Entries /\ ToSet(captureCh) \subseteq Entries
         /\ Taken \subseteq Entries
<1>1. ToSet(tape) \subseteq Entries /\ ToSet(captureCh) \subseteq Entries
  BY LenProperties DEF TapeTypes, ToSet
<1> QED
  BY <1>1 DEF TapeTypes, Taken

(* A receiver's frame moves on, and is not taped yet. *)
LEMMA FrameMoves ==
  ASSUME TapeInv, NEW p \in PMUs,
         NEW place \in {"idle", "handle", "capture", "deliver"}, Goto(p, place),
         UNCHANGED <<dropRejected, count, frame, tapeVars>>,
         place \in {"handle", "capture"} => at[p] \in {"handle", "capture"},
         place = "capture" /\ dropRejected => Near(Stamp(frame[p]), frame[p].n)
  PROVE  TapeInv'
<1>1. /\ TapeTypes /\ InOrder /\ AllSent /\ Stamped
      /\ UNCHANGED <<dropRejected, count, frame, captureCh, taping, tape, lastByPMU, lastGap>>
  BY DEF TapeInv, tapeVars
<1>2. \A q \in PMUs : at'[q] = IF q = p THEN place ELSE at[q]
  BY <1>1 DEF Goto, TapeTypes
<1>3. TapeTypes'
  BY <1>1 DEF TapeTypes, Goto
<1>4. InOrder'
  BY <1>1 DEF InOrder, Rising, Taken
<1>5. \A q \in PMUs : at'[q] \in {"handle", "capture"} => at[q] \in {"handle", "capture"}
  BY <1>2
<1>6. AllSent'
  <2>1. \A e \in ToSet(tape) \cup Taken \cup ToSet(captureCh) : e.pmu \in PMUs
    BY <1>1, EntriesThere DEF Entries
  <2>2. (ToSet(tape) \cup Taken \cup ToSet(captureCh))' = ToSet(tape) \cup Taken \cup ToSet(captureCh)
    BY <1>1 DEF Taken
  <2>3. \A q \in PMUs : \A n : Sent(q, n) => Sent(q, n)'
    BY <1>1, <1>5 DEF Sent
  <2> QED
    BY <1>1, <1>5, <2>1, <2>2, <2>3 DEF AllSent
<1>7. Stamped'
  BY <1>1, <1>2, <1>5 DEF Stamped, Believed, Taken
<1> QED
  BY <1>3, <1>4, <1>6, <1>7 DEF TapeInv

LEMMA ArriveTape ==
  ASSUME TapeInv, NEW p \in PMUs, Arrive(p)
  PROVE  TapeInv'
<1>1. /\ TapeTypes /\ InOrder /\ AllSent /\ Stamped
      /\ UNCHANGED <<dropRejected, captureCh, taping, tape, lastByPMU, lastGap>>
      /\ count' = [count EXCEPT ![p] = @ + 1] /\ at' = [at EXCEPT ![p] = "handle"]
  BY DEF Arrive, TapeInv, tapeVars, Goto
<1>2. PICK kind \in Kinds : frame' = [frame EXCEPT ![p] = [n |-> count'[p], kind |-> kind]]
  BY DEF Arrive
<1>3. ASSUME NEW q \in PMUs
      PROVE  /\ count[q] \in Nat /\ frame[q].n \in Nat /\ lastByPMU[q] \in Int
             /\ count'[q] = (IF q = p THEN count[q] + 1 ELSE count[q])
             /\ at'[q] = (IF q = p THEN "handle" ELSE at[q])
             /\ frame'[q].n = (IF q = p THEN count[q] + 1 ELSE frame[q].n)
             /\ q # p => frame'[q] = frame[q]
  BY <1>1, <1>2 DEF TapeTypes, Numbered
<1>4. TapeTypes'
  <2>1. count' \in [PMUs -> Nat]
    BY <1>1 DEF TapeTypes
  <2>2. frame' \in [PMUs -> Numbered]
    <3>1. [n |-> count'[p], kind |-> kind] \in Numbered
      BY <2>1, KindsAssumption DEF Numbered
    <3> QED
      BY <1>1, <1>2, <3>1 DEF TapeTypes
  <2> QED
    BY <1>1, <2>1, <2>2 DEF TapeTypes
<1>5. InOrder'
  BY <1>1 DEF InOrder, Rising, Taken
<1>6. AllSent'
  <2>1. \A e \in ToSet(tape) \cup Taken \cup ToSet(captureCh) : e.pmu \in PMUs /\ e.n \in Nat
    BY <1>1, EntriesThere DEF Entries
  <2>2. (ToSet(tape) \cup Taken \cup ToSet(captureCh))' = ToSet(tape) \cup Taken \cup ToSet(captureCh)
    BY <1>1 DEF Taken
  <2>3. \A q \in PMUs, n \in Nat : Sent(q, n) => Sent(q, n)'
    <3> TAKE q \in PMUs, n \in Nat
    <3>1. CASE q = p
      <4>1. at'[q] = "handle" /\ frame'[q].n = count[q] + 1 /\ count'[q] = count[q] + 1
        BY <1>3, <3>1
      <4> QED
        BY <1>3, <4>1 DEF Sent
    <3>2. CASE q # p
      BY <1>3, <3>2 DEF Sent
    <3> QED
      BY <3>1, <3>2
  <2>4. \A q \in PMUs : at'[q] \in {"handle", "capture"} => frame'[q].n <= count'[q]
    <3> TAKE q \in PMUs
    <3>1. CASE q = p
      BY <1>3, <3>1
    <3>2. CASE q # p
      BY <1>1, <1>3, <3>2 DEF AllSent
    <3> QED
      BY <3>1, <3>2
  <2> QED
    BY <1>1, <2>1, <2>2, <2>3, <2>4 DEF AllSent
<1>7. Stamped'
  <2> SUFFICES ASSUME dropRejected, NEW q \in PMUs
               PROVE  /\ at'[q] = "capture" => Near(Stamp(frame'[q]), frame'[q].n)
                      /\ lastGap[q] > -2 * MaxClockSkew
                      /\ lastByPMU[q] <= 100 + 2 * count'[q] + MaxClockSkew
                      /\ at'[q] \in {"handle", "capture"} =>
                           lastByPMU[q] < 100 + 2 * frame'[q].n + MaxClockSkew
    <3>1. Taken' = Taken
      BY <1>1 DEF Taken
    <3> QED
      BY <1>1, <3>1 DEF Stamped, Believed
  <2>0. Believed /\ MaxClockSkew \in Nat
    BY <1>1, KindsAssumption DEF Stamped
  <2>1. CASE q = p
    <3>1. at'[q] = "handle" /\ frame'[q].n = count[q] + 1 /\ count'[q] = count[q] + 1
      BY <1>3, <2>1
    <3> QED
      BY <1>3, <2>0, <3>1 DEF Believed
  <2>2. CASE q # p
    BY <1>1, <1>3, <2>0, <2>2 DEF Believed
  <2> QED
    BY <2>1, <2>2
<1> QED
  BY <1>4, <1>5, <1>6, <1>7 DEF TapeInv

LEMMA HandleTape ==
  ASSUME TapeInv, NEW p \in PMUs, HandleFrame(p)
  PROVE  TapeInv'
<1>1. /\ at[p] = "handle" /\ UNCHANGED <<dropRejected, count, frame, tapeVars>>
      /\ frame[p] \in Numbered
  BY DEF HandleFrame, TapeInv, TapeTypes
<1>2. PICK place \in {"idle", "capture"} :
        Goto(p, place) /\ (place = "capture" /\ dropRejected => Verdict(frame[p]) = "ok")
  BY DEF HandleFrame
<1>3. place = "capture" /\ dropRejected => Near(Stamp(frame[p]), frame[p].n)
  BY <1>1, <1>2, Stamps
<1> QED
  BY <1>1, <1>2, <1>3, FrameMoves

LEMMA RisingAppend ==
  ASSUME NEW s \in Seq(Entries), Rising(s), NEW e \in Entries, \A a \in ToSet(s) : Earlier(a, e)
  PROVE  Rising(Append(s, e))
<1> DEFINE t == Append(s, e)
<1>1. /\ Len(s) \in Nat /\ DOMAIN s = 1 .. Len(s) /\ DOMAIN t = 1 .. Len(s) + 1
      /\ \A i \in 1 .. Len(s) + 1 : t[i] = IF i = Len(s) + 1 THEN e ELSE s[i]
  BY AppendToSeq
<1> HIDE DEF t
<1>2. ASSUME NEW i \in DOMAIN t, NEW j \in DOMAIN t, i < j PROVE Earlier(t[i], t[j])
  <2>1. i \in DOMAIN s /\ t[i] = s[i]
    BY <1>1, <1>2
  <2>2. CASE j = Len(s) + 1
    BY <1>1, <2>1, <2>2 DEF ToSet
  <2>3. CASE j # Len(s) + 1
    <3>1. j \in DOMAIN s /\ t[j] = s[j]
      BY <1>1, <2>3
    <3> QED
      BY <1>2, <2>1, <3>1 DEF Rising
  <2> QED
    BY <2>2, <2>3
<1> QED
  BY <1>2 DEF Rising, t

(* What a handler puts into the queue is newer than all that is there. *)
LEMMA AsyncTape ==
  ASSUME TapeInv, NEW p \in PMUs, RecordFrameAsync(p)
  PROVE  TapeInv'
<1>0. PICK e \in {Entry(p)} : TRUE
  OBVIOUS
<1>1. /\ TapeTypes /\ InOrder /\ AllSent /\ Stamped /\ at[p] = "capture"
      /\ UNCHANGED <<dropRejected, count, frame, taping, tape, lastByPMU, lastGap>>
      /\ at' = [at EXCEPT ![p] = "deliver"]
      /\ captureCh' \in {captureCh, Append(captureCh, e)}
  BY <1>0 DEF RecordFrameAsync, TapeInv, Goto
<1>2. CASE captureCh' = captureCh
  BY <1>1, <1>2, FrameMoves DEF Goto, tapeVars
<1>3. CASE captureCh' = Append(captureCh, e)
  <2>1. e \in Entries /\ e.pmu = p /\ e.n = frame[p].n /\ e.stamp = Stamp(frame[p])
    BY <1>0, <1>1, Stamps DEF Entry, Entries, TapeTypes, Numbered
  <2>2. /\ captureCh' \in Seq(Entries) /\ ToSet(captureCh') = ToSet(captureCh) \cup {e}
    BY <1>1, <1>3, <2>1, AppendToSeq, AppendToSet DEF TapeTypes
  <2>3. \A a \in ToSet(tape) \cup Taken \cup ToSet(captureCh) : Earlier(a, e)
    BY <1>1, <2>1 DEF AllSent, Sent, Earlier
  <2>4. TapeTypes'
    BY <1>1, <2>2 DEF TapeTypes
  <2>5. InOrder'
    <3>1. Rising(captureCh')
      BY <1>1, <1>3, <2>1, <2>3, RisingAppend DEF InOrder, TapeTypes
    <3> QED
      BY <1>1, <2>2, <2>3, <3>1 DEF InOrder, Taken
  <2>6. \A q \in PMUs : at'[q] = IF q = p THEN "deliver" ELSE at[q]
    BY <1>1 DEF TapeTypes
  <2>7. AllSent'
    <3>1. \A a \in ToSet(tape) \cup Taken \cup ToSet(captureCh) : a.pmu \in PMUs
      BY <1>1, EntriesThere DEF Entries
    <3>2. \A q \in PMUs : \A n : Sent(q, n) => Sent(q, n)'
      BY <1>1, <2>6 DEF Sent
    <3>3. Sent(e.pmu, e.n)'
      BY <1>1, <2>1, <2>6 DEF AllSent, Sent
    <3>4. Taken' = Taken /\ tape' = tape
      BY <1>1 DEF Taken
    <3>5. \A q \in PMUs : at'[q] \in {"handle", "capture"} => frame'[q].n <= count'[q]
      BY <1>1, <2>6 DEF AllSent
    <3> QED
      BY <1>1, <2>2, <3>1, <3>2, <3>3, <3>4, <3>5 DEF AllSent
  <2>8. Stamped'
    <3> SUFFICES ASSUME dropRejected PROVE Believed'
      BY <1>1 DEF Stamped
    <3>1. Believed
      BY <1>1 DEF Stamped
    <3>2. Near(e.stamp, e.n) /\ lastByPMU[e.pmu] < 100 + 2 * e.n + MaxClockSkew
      BY <1>1, <2>1, <3>1 DEF Believed
    <3>3. (Taken \cup ToSet(captureCh))' = Taken \cup ToSet(captureCh) \cup {e}
      BY <1>1, <2>2 DEF Taken
    <3> QED
      BY <1>1, <2>6, <3>1, <3>2, <3>3 DEF Believed
  <2> QED
    BY <2>4, <2>5, <2>7, <2>8 DEF TapeInv
<1> QED
  BY <1>1, <1>2, <1>3

LEMMA CaptureTape ==
  ASSUME TapeInv, NEW w \in TapeWorkers, Capture(w)
  PROVE  TapeInv'
<1>1. /\ TapeTypes /\ InOrder /\ AllSent /\ Stamped /\ taping[w] = None /\ captureCh # <<>>
      /\ UNCHANGED <<dropRejected, count, frame, at, tape, lastByPMU, lastGap>>
      /\ taping' = [taping EXCEPT ![w] = Head(captureCh)]
      /\ captureCh' = Tail(captureCh)
  BY DEF Capture, TapeInv, handlerVars
<1>0. PICK e \in {Head(captureCh)} : TRUE
  OBVIOUS
<1>2. /\ captureCh \in Seq(Entries) /\ DOMAIN captureCh = 1 .. Len(captureCh)
      /\ Len(captureCh) \in Nat \ {0} /\ e \in Entries /\ e = captureCh[1]
      /\ captureCh' \in Seq(Entries) /\ DOMAIN captureCh' = 1 .. Len(captureCh) - 1
      /\ \A i \in DOMAIN captureCh' :
           i + 1 \in DOMAIN captureCh /\ captureCh'[i] = captureCh[i + 1]
  <2>1. captureCh \in Seq(Entries)
    BY <1>1 DEF TapeTypes
  <2> QED
    BY <1>0, <1>1, <2>1, HeadOfSeq
<1>3. Taken = {} /\ Taken' \subseteq {e}
  <2>1. \A v \in TapeWorkers : v = w
    BY TapeAssumption
  <2> QED
    BY <1>0, <1>1, <2>1 DEF Taken, TapeTypes
<1>4. ToSet(captureCh') \subseteq ToSet(captureCh) /\ e \in ToSet(captureCh)
  BY <1>2 DEF ToSet
<1>5. \A b \in ToSet(captureCh') : Earlier(e, b)
  <2> SUFFICES ASSUME NEW i \in DOMAIN captureCh' PROVE Earlier(e, captureCh'[i])
    BY DEF ToSet
  <2>1. 1 \in DOMAIN captureCh /\ i + 1 \in DOMAIN captureCh /\ 1 < i + 1
    BY <1>2
  <2> QED
    BY <1>1, <1>2, <2>1 DEF InOrder, Rising
<1>6. Rising(captureCh')
  <2> SUFFICES ASSUME NEW i \in DOMAIN captureCh', NEW j \in DOMAIN captureCh', i < j
               PROVE  Earlier(captureCh'[i], captureCh'[j])
    BY DEF Rising
  <2>1. i + 1 \in DOMAIN captureCh /\ j + 1 \in DOMAIN captureCh /\ i + 1 < j + 1
    BY <1>2
  <2> QED
    BY <1>1, <1>2, <2>1 DEF InOrder, Rising
<1>7. TapeTypes'
  BY <1>0, <1>1, <1>2 DEF TapeTypes
<1>8. InOrder'
  BY <1>1, <1>3, <1>4, <1>5, <1>6 DEF InOrder
<1>9. AllSent'
  BY <1>1, <1>3, <1>4 DEF AllSent, Sent
<1>10. Stamped'
  <2> SUFFICES ASSUME dropRejected PROVE Believed'
    BY <1>1 DEF Stamped
  <2>1. Believed
    BY <1>1 DEF Stamped
  <2> QED
    BY <1>1, <1>3, <1>4, <2>1 DEF Believed
<1> QED
  BY <1>7, <1>8, <1>9, <1>10 DEF TapeInv

LEMMA RecordTape ==
  ASSUME TapeInv, NEW w \in TapeWorkers, recordLocked(w)
  PROVE  TapeInv'
<1>0. PICK e \in {taping[w]} : TRUE
  OBVIOUS
<1>1. /\ TapeTypes /\ InOrder /\ AllSent /\ Stamped /\ e \in Taken /\ e \in Entries
      /\ UNCHANGED <<dropRejected, count, frame, at, captureCh>>
      /\ taping' = [taping EXCEPT ![w] = None]
  BY <1>0, EntriesThere DEF recordLocked, TapeInv, handlerVars, Taken
<1>2. /\ lastGap' \in {lastGap, [lastGap EXCEPT ![e.pmu] = e.stamp - lastByPMU[e.pmu]]}
      /\ lastByPMU' = [lastByPMU EXCEPT ![e.pmu] = e.stamp]
      /\ tape' = Newest(Append(tape, e), TapeSize)
  BY <1>0 DEF recordLocked, Record
<1>3. Taken' = {}
  <2>1. \A v \in TapeWorkers : v = w
    BY TapeAssumption
  <2> QED
    BY <1>1, <2>1 DEF Taken, TapeTypes
<1>4. tape' \in Seq(Entries) /\ Rising(tape') /\ ToSet(tape') \subseteq ToSet(tape) \cup {e}
  <2>1. tape \in Seq(Entries) /\ TapeSize \in Nat \ {0}
    BY <1>1, TapeAssumption DEF TapeTypes
  <2>2. PICK all \in Seq(Entries) : all = Append(tape, e)
    BY <1>1, <2>1, AppendToSeq
  <2>3. Rising(all) /\ ToSet(all) = ToSet(tape) \cup {e}
    BY <1>1, <2>1, <2>2, RisingAppend, AppendToSet DEF InOrder
  <2>4. /\ tape' \in Seq(Entries)
        /\ \E k \in Nat : /\ Len(tape') + k = Len(all)
                          /\ \A i \in DOMAIN tape' : i + k \in DOMAIN all /\ tape'[i] = all[i + k]
    <3>1. PICK rest : rest = Newest(all, TapeSize) /\ tape' = rest
      BY <1>2, <2>2
    <3>2. /\ rest \in Seq(Entries)
          /\ \E k \in Nat : /\ Len(rest) + k = Len(all)
                            /\ \A i \in DOMAIN rest : i + k \in DOMAIN all /\ rest[i] = all[i + k]
      BY <2>1, <3>1, NewestLast, ZenonT(30)
    <3> QED
      BY <3>1, <3>2, Zenon
  <2>5. PICK k \in Nat : \A i \in DOMAIN tape' : i + k \in DOMAIN all /\ tape'[i] = all[i + k]
    BY <2>4
  <2>6. DOMAIN tape' \subseteq Nat
    BY <2>4, LenProperties
  <2>7. Rising(tape')
    <3> SUFFICES ASSUME NEW i \in DOMAIN tape', NEW j \in DOMAIN tape', i < j
                 PROVE  Earlier(tape'[i], tape'[j])
      BY DEF Rising
    <3>1. i + k < j + k
      BY <2>6
    <3> QED
      BY <2>3, <2>5, <3>1 DEF Rising
  <2>8. ToSet(tape') \subseteq ToSet(all)
    BY <2>5 DEF ToSet
  <2> QED
    BY <2>3, <2>4, <2>7, <2>8
<1>5. e.pmu \in PMUs /\ e.n \in Nat /\ e.stamp \in Int
  BY <1>1 DEF Entries
<1>6. TapeTypes'
  <2>1. lastGap' \in [PMUs -> Int]
    <3>1. lastGap \in [PMUs -> Int] /\ lastByPMU[e.pmu] \in Int
      BY <1>1, <1>5 DEF TapeTypes
    <3>2. PICK gap \in Int : gap = e.stamp - lastByPMU[e.pmu]
      BY <1>5, <3>1
    <3>3. lastGap' \in {lastGap, [lastGap EXCEPT ![e.pmu] = gap]}
      BY <1>2, <3>2
    <3> QED
      BY <3>1, <3>3
  <2>2. taping' \in [TapeWorkers -> Entries \cup {None}]
    BY <1>1 DEF TapeTypes
  <2>3. lastByPMU' \in [PMUs -> Int]
    BY <1>1, <1>2, <1>5 DEF TapeTypes
  <2> QED
    BY <1>1, <1>4, <2>1, <2>2, <2>3 DEF TapeTypes
<1>7. InOrder'
  BY <1>1, <1>3, <1>4 DEF InOrder
<1>8. AllSent'
  BY <1>1, <1>3, <1>4 DEF AllSent, Sent
<1>9. Stamped'
  <2> SUFFICES ASSUME dropRejected PROVE Believed'
    BY <1>1 DEF Stamped
  <2>1. Believed
    BY <1>1 DEF Stamped
  <2>2. /\ Near(e.stamp, e.n) /\ lastByPMU[e.pmu] < 100 + 2 * e.n + MaxClockSkew
        /\ Sent(e.pmu, e.n) /\ MaxClockSkew \in Nat
    BY <1>1, <2>1, KindsAssumption DEF Believed, AllSent
  <2>3. \A q \in PMUs : lastByPMU'[q] = IF q = e.pmu THEN e.stamp ELSE lastByPMU[q]
    BY <1>1, <1>2 DEF TapeTypes
  <2>4. \A q \in PMUs : lastGap'[q] > -2 * MaxClockSkew
    <3>1. e.stamp - lastByPMU[e.pmu] > -2 * MaxClockSkew
      <4>1. ASSUME NEW x \in Int, NEW k \in Int, NEW m \in Nat, NEW y \in Int,
                   100 + 2 * k - m <= y, x < 100 + 2 * k + m
            PROVE  y - x > -2 * m
        BY <4>1
      <4>2. lastByPMU[e.pmu] \in Int
        BY <1>1, <1>5 DEF TapeTypes
      <4> QED
        BY <1>5, <2>2, <4>1, <4>2 DEF Near
    <3> QED
      BY <1>1, <1>2, <1>5, <2>1, <3>1 DEF Believed, TapeTypes
  <2>5. \A q \in PMUs : lastByPMU'[q] <= 100 + 2 * count[q] + MaxClockSkew
    <3>1. e.stamp <= 100 + 2 * count[e.pmu] + MaxClockSkew
      BY <1>1, <1>5, <2>2, SMTT(30) DEF Sent, TapeTypes, Near
    <3> QED
      BY <2>1, <2>3, <3>1 DEF Believed
  <2>6. \A q \in PMUs : at[q] \in {"handle", "capture"} =>
          lastByPMU'[q] < 100 + 2 * frame[q].n + MaxClockSkew
    <3>1. at[e.pmu] \in {"handle", "capture"} =>
            e.stamp < 100 + 2 * frame[e.pmu].n + MaxClockSkew
      <4>1. frame[e.pmu].n \in Nat
        BY <1>1, <1>5 DEF TapeTypes, Numbered
      <4> QED
        BY <1>5, <2>2, <4>1, SMTT(30) DEF Sent, Near
    <3> QED
      BY <2>1, <2>3, <3>1 DEF Believed
  <2>7. ASSUME NEW a \in ToSet(captureCh)
        PROVE  Near(a.stamp, a.n) /\ lastByPMU'[a.pmu] < 100 + 2 * a.n + MaxClockSkew
    <3>1. /\ a \in Entries /\ Earlier(e, a) /\ Near(a.stamp, a.n)
          /\ lastByPMU[a.pmu] < 100 + 2 * a.n + MaxClockSkew
      BY <1>1, <2>1, EntriesThere DEF InOrder, Believed
    <3>2. CASE a.pmu = e.pmu
      <4>1. e.n < a.n /\ lastByPMU'[a.pmu] = e.stamp /\ a.n \in Nat
        BY <1>5, <2>3, <3>1, <3>2 DEF Earlier, Entries
      <4> QED
        BY <1>5, <2>2, <3>1, <4>1 DEF Near
    <3>3. CASE a.pmu # e.pmu
      BY <2>3, <3>1, <3>3 DEF Entries
    <3> QED
      BY <3>2, <3>3
  <2> QED
    BY <1>1, <1>3, <2>1, <2>4, <2>5, <2>6, <2>7 DEF Believed
<1> QED
  BY <1>6, <1>7, <1>8, <1>9 DEF TapeInv

LEMMA NextTapes == TapeInv /\ [Next]_dashVars => TapeInv'
<1> SUFFICES ASSUME TapeInv, [Next]_dashVars PROVE TapeInv'
  OBVIOUS
<1>1. CASE Cancel \/ Feed \/ Rates
  BY <1>1, OthersTape DEF Cancel, Feed, Rates, handlerVars
<1>2. ASSUME NEW t \in Threads, Raise(t) PROVE TapeInv'
  BY <1>2, OthersTape DEF Raise, handlerVars
<1>3. ASSUME NEW p \in PMUs, RecordReading(p) PROVE TapeInv'
  BY <1>3, FrameMoves DEF RecordReading
<1>4. ASSUME NEW p \in PMUs, Arrive(p) \/ HandleFrame(p) \/ RecordFrameAsync(p) PROVE TapeInv'
  BY <1>4, ArriveTape, HandleTape, AsyncTape
<1>5. ASSUME NEW w \in Workers, Take(w) \/ recordReadingSync(w) \/ Quit(w) PROVE TapeInv'
  BY <1>5, OthersTape DEF Take, recordReadingSync, Quit, handlerVars
<1>6. ASSUME NEW w \in TapeWorkers, Capture(w) \/ recordLocked(w) PROVE TapeInv'
  BY <1>6, CaptureTape, RecordTape
<1>7. CASE UNCHANGED dashVars
  BY <1>7, OthersTape DEF dashVars, handlerVars
<1> QED
  BY <1>1, <1>2, <1>3, <1>4, <1>5, <1>6, <1>7 DEF Next

LEMMA InitTapes == Init => TapeInv
<1> SUFFICES ASSUME Init PROVE TapeInv
  OBVIOUS
<1>1. /\ count = [p \in PMUs |-> 0] /\ frame = [p \in PMUs |-> NoFrame]
      /\ at = [p \in PMUs |-> "idle"] /\ captureCh = <<>> /\ tape = <<>>
      /\ taping = [w \in TapeWorkers |-> None] /\ lastByPMU = [p \in PMUs |-> 0]
      /\ lastGap = [p \in PMUs |-> 0] /\ MaxClockSkew \in Nat \ {0}
  BY KindsAssumption DEF Init
<1>2. Taken = {} /\ ToSet(tape) = {} /\ ToSet(captureCh) = {}
  BY <1>1 DEF Taken, ToSet
<1>3. TapeTypes
  BY <1>1 DEF TapeTypes, NoFrame, Numbered
<1>4. InOrder
  BY <1>1, <1>2 DEF InOrder, Rising
<1>5. AllSent /\ Stamped
  BY <1>1, <1>2 DEF AllSent, Stamped, Believed
<1> QED
  BY <1>3, <1>4, <1>5 DEF TapeInv

(* Through the queue, which may be full, and the worker, each PMU's frames  *)
(* come onto the tape in the order they were sent; and when rejected frames *)
(* are dropped no jump back is counted that is as long as twice the skew    *)
(* the quality check allows (output/frame_capture.go, recordLocked).       *)
THEOREM AlwaysTapeKeepsOrder == Spec => []TapeKeepsOrder
<1>1. TapeInv => TapeKeepsOrder
  <2> SUFFICES ASSUME TapeInv PROVE TapeKeepsOrder
    OBVIOUS
  <2>1. \A i, j \in DOMAIN tape : i < j /\ tape[i].pmu = tape[j].pmu => tape[i].n < tape[j].n
    BY DEF TapeInv, InOrder, Rising, Earlier
  <2>2. dropRejected => \A p \in PMUs : lastGap[p] > -2 * MaxClockSkew
    BY DEF TapeInv, Stamped, Believed
  <2> QED
    BY <2>1, <2>2 DEF TapeKeepsOrder
<1> QED
  BY <1>1, InitTapes, NextTapes, PTL DEF Spec

-----------------------------------------------------------------------------
(* The rate meter. *)

(* A quotient lies between the bounds that its dividend lies between. *)
LEMMA QuotientBetween ==
  ASSUME NEW d \in Nat \ {0}, NEW n \in Int, NEW lo \in Int, NEW hi \in Int,
         lo * d <= n, n <= hi * d
  PROVE  n \div d \in Int /\ lo <= n \div d /\ n \div d <= hi
<1> DEFINE q == n \div d
<1>1. q \in Int /\ q * d <= n /\ n < (q + 1) * d
  BY SMT
<1> HIDE DEF q
<1>2. ASSUME NEW x \in Int, NEW y \in Int, x * d < y * d PROVE x < y
  <2>1. (y - x) * d > 0
    BY <1>2
  <2>2. ASSUME y <= x PROVE FALSE
    <3>1. (x - y) \in Nat /\ d \in Nat
      BY <2>2
    <3>2. (x - y) * d >= 0
      BY <3>1
    <3> QED
      BY <2>1, <3>2
  <2> QED
    BY <2>2
<1>3. lo < q + 1
  <2>1. lo * d < (q + 1) * d
    BY <1>1
  <2> QED
    BY <1>1, <1>2, <2>1
<1>4. q < hi + 1
  <2>1. q * d < (hi + 1) * d
    BY <1>1
  <2> QED
    BY <1>1, <1>2, <2>1
<1>5. q \in Int /\ lo <= q /\ q <= hi
  BY <1>1, <1>3, <1>4
<1> QED
  BY <1>5 DEF q

LEMMA Quotient ==
  ASSUME NEW num \in Int, NEW den \in Nat \ {0}
  PROVE  /\ num \div den \in Int
         /\ (num \div den) * den <= num /\ num < (num \div den + 1) * den
BY SMT

(* A window holds StepsOfWindow steps of the PMU's grid. *)
StepsOfWindow == IF dataRate > 0 THEN dataRate ELSE 1

(* The grid of a rate of r frames per second. *)
Grid(r, n) == 5000 + (n * 1000) \div r

(* k steps of the grid are some time, fewer than r less than a second. *)
StepsTake(r, n, k) ==
  /\ Grid(r, n) \in Nat
  /\ k >= 1 => Grid(r, n) < Grid(r, n + k)
  /\ k < r => Grid(r, n + k) - Grid(r, n) < 1000
  /\ Grid(r, n + r) - Grid(r, n) = 1000

Hertz == 1 .. 1000

LEMMA GridSteps ==
  ASSUME NEW r \in Hertz, NEW n \in Nat, NEW k \in Nat
  PROVE  StepsTake(r, n, k)
<1> DEFINE q == (n * 1000) \div r
<1>0. r \in Nat \ {0} /\ r <= 1000 /\ n * 1000 \in Nat /\ k * 1000 \in Nat
  BY DEF Hertz
<1>1. q \in Int /\ q * r <= n * 1000 /\ n * 1000 < (q + 1) * r
  BY <1>0, SMT
<1>2. q >= 0
  <2>1. 0 * r <= n * 1000 /\ n * 1000 <= (n * 1000) * r
    BY <1>0
  <2>2. 0 <= (n * 1000) \div r
    BY <1>0, <2>1, QuotientBetween
  <2> QED
    BY <2>2
<1>3. Grid(r, n) = 5000 + q
  BY DEF Grid
<1> HIDE DEF q
<1>4. (n + k) * 1000 = n * 1000 + k * 1000 /\ (n + r) * 1000 = n * 1000 + r * 1000
  BY <1>0
<1>5. /\ (q + 1) * r = q * r + r /\ (q + 999) * r = q * r + 999 * r
      /\ (q + 1000) * r = q * r + 1000 * r
  BY <1>0, <1>1
<1>6. (n + k) * 1000 \in Int /\ (n + r) * 1000 \in Int
  BY <1>0
<1>7. ASSUME k >= 1 PROVE Grid(r, n) < Grid(r, n + k)
  <2>1. (q + 1) * r <= (n + k) * 1000
    BY <1>0, <1>1, <1>4, <1>5, <1>7
  <2>2. (n + k) * 1000 <= ((n + k) * 1000) * r
    BY <1>0, <1>6
  <2>3. q + 1 <= ((n + k) * 1000) \div r /\ ((n + k) * 1000) \div r \in Int
    BY <1>0, <1>1, <1>6, <2>1, <2>2, QuotientBetween
  <2> QED
    BY <1>1, <1>3, <2>3 DEF Grid
<1>8. ASSUME k < r PROVE Grid(r, n + k) - Grid(r, n) < 1000
  <2>1. k * 1000 <= 999 * r
    BY <1>0, <1>8
  <2>2. (n + k) * 1000 < (q + 1) * r + 999 * r
    BY <1>0, <1>1, <1>4, <2>1
  <2>3. (n + k) * 1000 < (q + 1000) * r
    BY <1>0, <1>1, <1>5, <2>2
  <2>4. PICK p \in Int : p = ((n + k) * 1000) \div r /\ p * r <= (n + k) * 1000
    BY <1>0, <1>6, SMT
  <2>5. p * r < (q + 1000) * r
    BY <1>0, <1>1, <1>6, <2>3, <2>4
  <2>6. p < q + 1000
    <3>1. ASSUME q + 1000 <= p PROVE FALSE
      <4>1. p - (q + 1000) \in Nat /\ (p - (q + 1000)) * r >= 0
        BY <1>0, <1>1, <2>4, <3>1
      <4>2. (p - (q + 1000)) * r = p * r - (q + 1000) * r
        BY <1>0, <1>1, <2>4
      <4> QED
        BY <1>0, <1>1, <2>4, <2>5, <4>1, <4>2
    <3> QED
      BY <1>1, <2>4, <3>1
  <2> QED
    BY <1>1, <1>3, <2>4, <2>6 DEF Grid
<1>9. Grid(r, n + r) - Grid(r, n) = 1000
  <2>1. (q + 1000) * r <= (n + r) * 1000
    BY <1>0, <1>1, <1>4, <1>5
  <2>2. (n + r) * 1000 < (q + 1001) * r
    <3>1. (q + 1001) * r = (q + 1) * r + 1000 * r
      BY <1>0, <1>1
    <3> QED
      BY <1>0, <1>1, <1>4, <3>1
  <2>3. PICK p \in Int : /\ p = ((n + r) * 1000) \div r
                         /\ p * r <= (n + r) * 1000 /\ (n + r) * 1000 < (p + 1) * r
    BY <1>0, <1>6, SMT
  <2>4. ASSUME NEW x \in Int, NEW y \in Int, x * r < y * r PROVE x < y
    <3>1. ASSUME y <= x PROVE FALSE
      <4>1. (x - y) \in Nat /\ (x - y) * r >= 0
        BY <1>0, <3>1
      <4>2. (x - y) * r = x * r - y * r
        BY <1>0
      <4> QED
        BY <1>0, <2>4, <4>1, <4>2
    <3> QED
      BY <3>1
  <2>5. (q + 1000) * r < (p + 1) * r /\ p * r < (q + 1001) * r
    BY <1>0, <1>1, <1>6, <2>1, <2>2, <2>3
  <2>6. q + 1000 < p + 1 /\ p < q + 1001
    BY <1>1, <2>3, <2>4, <2>5
  <2> QED
    BY <1>1, <1>3, <2>3, <2>6 DEF Grid
<1> QED
  BY <1>1, <1>2, <1>3, <1>7, <1>8, <1>9 DEF StepsTake

LEMMA SnapExact ==
  ASSUME NEW c \in Nat \ {0}
  PROVE  snapReportedFPS(c, c) = c
BY DEF snapReportedFPS

LEMMA GridOfRate ==
  ASSUME dataRate \in Hertz, NEW n \in Nat, NEW k \in Nat
  PROVE  StepsTake(dataRate, n, k)
BY GridSteps, Zenon

(* The stamps of the readings: what StepsOfWindow steps of the grid measure is     *)
(* the advertised rate, and fewer do not close a window.                   *)
SpacedAt(n, k) ==
  /\ StampOf(n) \in Nat
  /\ k >= 1 => StampOf(n) < StampOf(n + k)
  /\ k < StepsOfWindow => StampOf(n + k) - StampOf(n) < 1000
  /\ StampOf(n + StepsOfWindow) - StampOf(n) >= 1000

Spaced == \A from \in Nat, steps \in Nat : SpacedAt(from, steps)

ExactAt(n) ==
  snapReportedFPS((StepsOfWindow * 1000 * 1000) \div (StampOf(n + StepsOfWindow) - StampOf(n)),
                  cfgRateFPS(dataRate)) = cfgRateFPS(dataRate)

Exact == \A from \in Nat : ExactAt(from)

LEMMA StampsSpaced ==
  ASSUME dataRate \in -1000 .. 1000, dataRate # 0
  PROVE  Spaced /\ Exact /\ StepsOfWindow \in Nat \ {0} /\ cfgRateFPS(dataRate) \in Nat \ {0}
<1>1. CASE dataRate > 0
  <2>1. StepsOfWindow = dataRate /\ dataRate \in 1 .. 1000 /\ cfgRateFPS(dataRate) = 1000 * dataRate
    BY <1>1 DEF StepsOfWindow, cfgRateFPS
  <2>0. dataRate \in Hertz
    BY <1>1 DEF Hertz
  <2>2. \A n : StampOf(n) = Grid(dataRate, n)
    BY <1>1 DEF StampOf, Grid
  <2>3. Spaced
    <3> SUFFICES ASSUME NEW n \in Nat, NEW k \in Nat PROVE SpacedAt(n, k)
      BY DEF Spaced
    <3>1. StepsTake(dataRate, n, k)
      BY <2>0, GridOfRate
    <3>2. /\ StampOf(n) = Grid(dataRate, n) /\ StampOf(n + k) = Grid(dataRate, n + k)
          /\ StampOf(n + StepsOfWindow) = Grid(dataRate, n + dataRate)
      BY <2>1, <2>2
    <3> QED
      BY <2>1, <3>1, <3>2 DEF StepsTake, SpacedAt
  <2>4. Exact
    <3> SUFFICES ASSUME NEW n \in Nat
                 PROVE  snapReportedFPS((StepsOfWindow * 1000 * 1000)
                                          \div (StampOf(n + StepsOfWindow) - StampOf(n)),
                                        cfgRateFPS(dataRate)) = cfgRateFPS(dataRate)
      BY DEF Exact, ExactAt
    <3>0. StepsTake(dataRate, n, n)
      BY <2>0, GridOfRate
    <3>1. StampOf(n + StepsOfWindow) - StampOf(n) = 1000
      BY <2>1, <2>2, <3>0 DEF StepsTake
    <3>2. (dataRate * 1000 * 1000) \div 1000 = 1000 * dataRate
      BY <2>1
    <3>3. 1000 * dataRate \in Nat \ {0}
      BY <2>1
    <3> QED
      BY <2>1, <3>1, <3>2, <3>3, SnapExact
  <2> QED
    BY <2>1, <2>3, <2>4
<1>2. CASE dataRate < 0
  <2>0. PICK r \in 1 .. 1000 : r = -dataRate
    BY <1>2
  <2>1. StepsOfWindow = 1 /\ cfgRateFPS(dataRate) = 1000 \div r
    BY <1>2, <2>0 DEF StepsOfWindow, cfgRateFPS
  <2>2. \A n : StampOf(n) = 5000 + n * 1000 * r
    BY <1>2, <2>0 DEF StampOf
  <2>3. ASSUME NEW n \in Nat, NEW k \in Nat
        PROVE  /\ n * 1000 * r \in Nat /\ k * 1000 * r \in Nat
               /\ (n + k) * 1000 * r = n * 1000 * r + k * 1000 * r
               /\ k >= 1 => k * 1000 * r >= 1000
    OBVIOUS
  <2>4. \A n \in Nat : StampOf(n + 1) - StampOf(n) = 1000 * r
    <3> TAKE n \in Nat
    <3>1. StampOf(n + 1) = 5000 + (n + 1) * 1000 * r /\ StampOf(n) = 5000 + n * 1000 * r
      BY <2>2
    <3>2. (n + 1) * 1000 * r = n * 1000 * r + 1 * 1000 * r /\ n * 1000 * r \in Nat
      BY <2>3
    <3> QED
      BY <3>1, <3>2
  <2>5. Spaced
    <3> SUFFICES ASSUME NEW n \in Nat, NEW k \in Nat PROVE SpacedAt(n, k)
      BY DEF Spaced
    <3>1. /\ StampOf(n + k) = 5000 + (n + k) * 1000 * r
          /\ StampOf(n) = 5000 + n * 1000 * r
      BY <2>2
    <3>2. StampOf(n + 1) - StampOf(n) = 1000 * r /\ 1000 * r >= 1000
      BY <2>4
    <3>3. k < 1 => k * 1000 * r = 0
      OBVIOUS
    <3>4. PICK a \in Nat, b \in Nat :
            a = n * 1000 * r /\ b = k * 1000 * r /\ (n + k) * 1000 * r = a + b
      BY <2>3
    <3>9. k >= 1 => b >= 1000
      <4>1. k >= 1 => k * 1000 * r >= 1000
        BY <2>3
      <4>2. b = k * 1000 * r
        BY <3>4
      <4> QED
        BY <4>1, <4>2
    <3>5. StampOf(n) = 5000 + a /\ StampOf(n + k) = 5000 + a + b
      BY <3>1, <3>4
    <3>6. StampOf(n + StepsOfWindow) - StampOf(n) >= 1000
      BY <2>1, <3>2
    <3>7. StampOf(n) \in Nat /\ (k >= 1 => StampOf(n) < StampOf(n + k))
      <4>1. StampOf(n) \in Nat /\ (b >= 1000 => StampOf(n) < StampOf(n + k))
        BY <3>5
      <4> QED
        BY <3>9, <4>1
    <3>8. k < StepsOfWindow => StampOf(n + k) - StampOf(n) < 1000
      <4>1. k < 1 => b = 0
        BY <3>3, <3>4
      <4>2. b = 0 => StampOf(n + k) - StampOf(n) < 1000
        BY <3>4, <3>5
      <4> QED
        BY <2>1, <4>1, <4>2
    <3> QED
      BY <3>6, <3>7, <3>8 DEF SpacedAt
  <2>6. 1000 \div r \in Nat \ {0} /\ (1 * 1000 * 1000) \div (1000 * r) = 1000 \div r
    <3>1. PICK q \in Int : q = 1000 \div r /\ q * r <= 1000 /\ 1000 < (q + 1) * r
      <4>1. 1000 \in Int /\ r \in Nat \ {0}
        OBVIOUS
      <4> QED
        BY <4>1, Quotient
    <3>2. 1 <= 1000 \div r
      <4>1. 1 * r <= 1000 /\ 1000 <= 1000 * r
        OBVIOUS
      <4> QED
        BY <4>1, QuotientBetween
    <3>3. /\ q * (1000 * r) = 1000 * (q * r)
          /\ (q + 1) * (1000 * r) = 1000 * ((q + 1) * r)
      BY <3>1
    <3>4. q * (1000 * r) <= 1000000 /\ 1000000 < (q + 1) * (1000 * r)
      BY <3>1, <3>3
    <3>5. 1000000 \div (1000 * r) = q
      <4>1. PICK d \in Nat \ {0} : d = 1000 * r
        OBVIOUS
      <4>2. PICK p \in Int : p = 1000000 \div d /\ p * d <= 1000000 /\ 1000000 < (p + 1) * d
        BY SMT
      <4>3. ASSUME NEW x \in Int, NEW y \in Int, x * d < y * d PROVE x < y
        <5>1. ASSUME y <= x PROVE FALSE
          <6>1. (x - y) \in Nat /\ (x - y) * d >= 0
            BY <5>1
          <6>2. (x - y) * d = x * d - y * d
            OBVIOUS
          <6> QED
            BY <4>3, <6>1, <6>2
        <5> QED
          BY <5>1
      <4>4. q * d < (p + 1) * d /\ p * d < (q + 1) * d
        BY <3>4, <4>1, <4>2
      <4>5. q < p + 1 /\ p < q + 1
        BY <4>2, <4>3, <4>4
      <4> QED
        BY <4>1, <4>2, <4>5
    <3>6. 1 * 1000 * 1000 = 1000000
      OBVIOUS
    <3> QED
      BY <3>1, <3>2, <3>5, <3>6
  <2>7. Exact
    BY <2>1, <2>4, <2>6, SnapExact DEF Exact, ExactAt
  <2> QED
    BY <2>1, <2>5, <2>6, <2>7
<1> QED
  BY <1>1, <1>2

(* What one reading does to the meter, if its stamp is a new one. *)
LEMMA NoteCases ==
  ASSUME NEW m, NEW s \in Int, NEW gap, NEW cfgRate, s # m.stamp,
         m.start \in Int, m.count \in Nat,
         NEW reading, reading = [stamp |-> s, gap |-> gap],
         NEW new, new = noteUniqueStampFPS(m, reading, cfgRate)
  PROVE  \/ /\ Restarts(m, reading) /\ ~ Closes(m, reading)
            /\ new = Rate(s, 1, s, m.fps)
         \/ /\ ~ Restarts(m, reading) /\ Closes(m, reading)
            /\ m.started /\ s - m.start >= 1000
            /\ new = Rate(s, 1, s, Measured(m, reading, cfgRate))
         \/ /\ ~ Restarts(m, reading) /\ ~ Closes(m, reading)
            /\ m.started /\ (m.count >= 1 => s - m.start < 1000)
            /\ new = Rate(m.start, m.count + 1, s, m.fps)
<1>1. reading.stamp = s
  OBVIOUS
<1>2. CASE Restarts(m, reading)
  BY <1>1, <1>2 DEF noteUniqueStampFPS, Closes
<1>3. CASE ~ Restarts(m, reading) /\ Closes(m, reading)
  BY <1>1, <1>3 DEF noteUniqueStampFPS, Closes, Restarts, NextWindow
<1>4. CASE ~ Restarts(m, reading) /\ ~ Closes(m, reading)
  BY <1>1, <1>4 DEF noteUniqueStampFPS, Closes, Restarts
<1> QED
  BY <1>2, <1>3, <1>4

-----------------------------------------------------------------------------
Usual(rate) == rate \in -1000 .. 1000 /\ rate # 0

(* The window that the meter counts when reading l was the last one: if all *)
(* of it came in turn, up to now, it began at the first one it counts.     *)
Window(m, l, inOrder) ==
  /\ m.count \in Nat /\ m.start \in Int
  /\ l = 0 => ~ m.started /\ m.stamp = -1
  /\ l # 0 => m.started /\ m.stamp = StampOf(l)
  /\ l # 0 /\ inOrder => /\ m.count \in 1 .. StepsOfWindow /\ m.count <= l
                         /\ m.start = StampOf(l - m.count + 1)

Shown(m) == m.fps \in {0, cfgRateFPS(dataRate)}

FullWindow(w, rd) ==
  /\ rd.stamp - w.start >= 1000 <=> w.count = StepsOfWindow
  /\ w.count = StepsOfWindow
     => Measured(w, rd, cfgRateFPS(dataRate)) = cfgRateFPS(dataRate)

(* A reading that came in turn closes a window of StepsOfWindow of them.      *)
LEMMA InTurnMeasures ==
  ASSUME Usual(dataRate),
         NEW w, NEW last \in Nat \ {0}, Window(w, last, TRUE),
         NEW rd, rd.stamp = StampOf(last + 1)
  PROVE  FullWindow(w, rd)
<1>1. /\ Spaced /\ Exact /\ StepsOfWindow \in Nat \ {0}
      /\ cfgRateFPS(dataRate) \in Nat \ {0}
  BY StampsSpaced DEF Usual
<1>2. /\ w.count \in 1 .. StepsOfWindow /\ w.count <= last
      /\ w.start = StampOf(last - w.count + 1)
  BY DEF Window
<1>3. PICK c \in Nat \ {0} : c = w.count
  BY <1>1, <1>2
<1>4. PICK f \in Nat : f = last - c + 1
  BY <1>2, <1>3
<1>5. f + c = last + 1 /\ w.start = StampOf(f) /\ rd.stamp = StampOf(f + c)
  BY <1>2, <1>3, <1>4
<1>6. /\ c < StepsOfWindow => StampOf(f + c) - StampOf(f) < 1000
      /\ StampOf(f) \in Nat /\ StampOf(f + c) \in Nat
      /\ StampOf(f + StepsOfWindow) - StampOf(f) >= 1000
  <2>1. SpacedAt(f, c) /\ SpacedAt(f + c, c)
    <3>1. c \in Nat /\ f \in Nat /\ f + c \in Nat
      BY <1>3, <1>4
    <3> QED
      BY <1>1, <3>1, Zenon DEF Spaced
  <2> QED
    BY <2>1 DEF SpacedAt
<1>7. rd.stamp - w.start >= 1000 <=> w.count = StepsOfWindow
  BY <1>1, <1>2, <1>3, <1>5, <1>6
<1>8. ASSUME w.count = StepsOfWindow
      PROVE  Measured(w, rd, cfgRateFPS(dataRate)) = cfgRateFPS(dataRate)
  <2>1. snapReportedFPS((StepsOfWindow * 1000 * 1000)
                          \div (StampOf(f + StepsOfWindow) - StampOf(f)),
                        cfgRateFPS(dataRate)) = cfgRateFPS(dataRate)
    <3>1. ExactAt(f)
      BY <1>1, <1>4, Zenon DEF Exact
    <3> QED
      BY <3>1 DEF ExactAt
  <2>2. rd.stamp - w.start = StampOf(f + StepsOfWindow) - StampOf(f)
    BY <1>3, <1>5, <1>8
  <2>3. cfgRateFPS(dataRate) > 0
    BY <1>1
  <2> QED
    BY <1>8, <2>1, <2>2, <2>3 DEF Measured
<1> QED
  BY <1>7, <1>8 DEF FullWindow

(* What Note says of the meter, for one gap. *)
NoteIn(n, gap) ==
  LET reading == [stamp |-> StampOf(n), gap |-> gap]
      inTurn == steady /\ n = noted + 1
  IN /\ meter' = noteUniqueStampFPS(meter, reading, cfgRateFPS(dataRate))
     /\ noted' = n
     /\ steady' = (Restarts(meter, reading) \/ Closes(meter, reading) \/ inTurn)
     /\ lastSteady' = IF Closes(meter, reading) THEN inTurn ELSE lastSteady

(* A reading keeps the window and, as long as windows are steady, the rate. *)
LEMMA NoteKeeps ==
  ASSUME Usual(dataRate), NEW n \in Nat \ {0}, Note(n),
         noted \in Nat, noted # n, steady \in BOOLEAN,
         Window(meter, noted, steady), lastSteady => Shown(meter)
  PROVE  noted' = n /\ Window(meter', n, steady') /\ (lastSteady' => Shown(meter'))
         /\ steady' \in BOOLEAN
<1>0. \E gap : NoteIn(n, gap)
  <2>1. PICK gap \in {10, 2000} : NoteIn(n, gap)
    BY DEF Note, NoteIn
  <2> QED
    BY <2>1
<1>1. PICK gap : NoteIn(n, gap)
  BY <1>0
<1> DEFINE reading == [stamp |-> StampOf(n), gap |-> gap]
           inTurn == steady /\ n = noted + 1
<1>3. /\ meter' = noteUniqueStampFPS(meter, reading, cfgRateFPS(dataRate))
      /\ noted' = n
      /\ steady' = (Restarts(meter, reading) \/ Closes(meter, reading) \/ inTurn)
      /\ lastSteady' = IF Closes(meter, reading) THEN inTurn ELSE lastSteady
  BY <1>1 DEF NoteIn
<1>2. reading = [stamp |-> StampOf(n), gap |-> gap]
  OBVIOUS
<1>i. inTurn => steady /\ n = noted + 1
  OBVIOUS
<1> HIDE DEF reading, inTurn
<1>4. PICK s : s = StampOf(n)
  OBVIOUS
<1>5. Spaced /\ StepsOfWindow \in Nat \ {0}
  BY StampsSpaced DEF Usual
<1>6. ASSUME NEW i \in Nat, NEW j \in Nat, i < j
      PROVE  StampOf(i) \in Nat /\ StampOf(i) < StampOf(j)
  <2>1. PICK k \in Nat : k >= 1 /\ j = i + k
    <3>1. j - i \in Nat /\ j - i >= 1 /\ j = i + (j - i)
      BY <1>6
    <3> QED
      BY <3>1
  <2>2. StampOf(i) \in Nat /\ StampOf(i) < StampOf(i + k)
    <3>1. SpacedAt(i, k)
      BY <1>5, <2>1, Zenon DEF Spaced
    <3> QED
      BY <2>1, <3>1 DEF SpacedAt
  <2> QED
    BY <2>1, <2>2
<1>7. s \in Int /\ s # meter.stamp
  <2>1. s \in Nat
    <3>1. n < n + 1 /\ n \in Nat /\ n + 1 \in Nat
      OBVIOUS
    <3> QED
      BY <1>4, <1>6, <3>1
  <2>2. CASE noted = 0
    BY <2>1, <2>2 DEF Window
  <2>3. CASE noted # 0
    <3>1. meter.stamp = StampOf(noted)
      BY <2>3 DEF Window
    <3>2. CASE noted < n
      BY <1>4, <1>6, <2>1, <3>1, <3>2
    <3>3. CASE n < noted
      BY <1>4, <1>6, <2>1, <3>1, <3>3
    <3> QED
      BY <3>2, <3>3
  <2> QED
    BY <2>1, <2>2, <2>3
<1>8. meter.start \in Int /\ meter.count \in Nat /\ reading = [stamp |-> s, gap |-> gap]
  BY <1>2, <1>4 DEF Window
<1>9. \/ /\ Restarts(meter, reading) /\ ~ Closes(meter, reading)
         /\ meter' = Rate(s, 1, s, meter.fps)
      \/ /\ ~ Restarts(meter, reading) /\ Closes(meter, reading)
         /\ meter.started /\ s - meter.start >= 1000
         /\ meter' = Rate(s, 1, s, Measured(meter, reading, cfgRateFPS(dataRate)))
      \/ /\ ~ Restarts(meter, reading) /\ ~ Closes(meter, reading)
         /\ meter.started /\ (meter.count >= 1 => s - meter.start < 1000)
         /\ meter' = Rate(meter.start, meter.count + 1, s, meter.fps)
  BY <1>3, <1>7, <1>8, NoteCases
<1>10. steady' \in BOOLEAN
  BY <1>3
<1>11. ASSUME NEW fps, meter' = Rate(s, 1, s, fps) PROVE Window(meter', n, steady')
  <2>1. meter'.count = 1 /\ meter'.start = s /\ meter'.stamp = s
    BY <1>11 DEF Rate
  <2>2. meter'.started
    BY <1>11 DEF Rate
  <2>3. n - 1 + 1 = n /\ 1 \in 1 .. StepsOfWindow /\ 1 <= n
    BY <1>5
  <2> QED
    BY <1>4, <1>7, <2>1, <2>2, <2>3 DEF Window
<1>12. CASE Restarts(meter, reading)
  <2>1. meter' = Rate(s, 1, s, meter.fps) /\ ~ Closes(meter, reading)
    BY <1>9, <1>12
  <2>2. meter'.fps = meter.fps
    BY <2>1 DEF Rate
  <2>3. lastSteady' => Shown(meter')
    BY <1>3, <2>1, <2>2 DEF Shown
  <2> QED
    BY <1>3, <1>10, <1>11, <2>1, <2>3
<1>13. CASE ~ Restarts(meter, reading) /\ Closes(meter, reading)
  <2>1. /\ meter.started /\ s - meter.start >= 1000
        /\ meter' = Rate(s, 1, s, Measured(meter, reading, cfgRateFPS(dataRate)))
    BY <1>9, <1>13
  <2>2. meter'.fps = Measured(meter, reading, cfgRateFPS(dataRate))
    BY <2>1 DEF Rate
  <2>3. ASSUME steady, n = noted + 1 PROVE Shown(meter')
    <3>1. noted \in Nat \ {0}
      BY <2>1 DEF Window
    <3>2. Window(meter, noted, TRUE)
      BY <2>3 DEF Window
    <3>3. reading.stamp = StampOf(noted + 1) /\ reading.stamp - meter.start >= 1000
      BY <1>4, <1>8, <2>1, <2>3
    <3>4. Measured(meter, reading, cfgRateFPS(dataRate)) = cfgRateFPS(dataRate)
      <4>1. FullWindow(meter, reading)
        BY <3>1, <3>2, <3>3, InTurnMeasures, Zenon
      <4> QED
        BY <3>3, <4>1, Zenon DEF FullWindow
    <3> QED
      BY <2>2, <3>4 DEF Shown
  <2>4. lastSteady' => Shown(meter')
    <3>1. lastSteady' = inTurn
      BY <1>3, <1>13
    <3>2. inTurn => Shown(meter')
      BY <1>i, <2>3
    <3> QED
      BY <3>1, <3>2, Zenon
  <2> QED
    BY <1>3, <1>10, <1>11, <2>1, <2>4
<1>14. CASE ~ Restarts(meter, reading) /\ ~ Closes(meter, reading)
  <2>1. /\ meter.started /\ (meter.count >= 1 => s - meter.start < 1000)
        /\ meter' = Rate(meter.start, meter.count + 1, s, meter.fps)
    BY <1>9, <1>14
  <2>2. /\ meter'.fps = meter.fps /\ meter'.count = meter.count + 1
        /\ meter'.start = meter.start /\ meter'.stamp = s
    BY <2>1 DEF Rate
  <2>3. meter'.started
    BY <2>1 DEF Rate
  <2>4. lastSteady' => Shown(meter')
    BY <1>3, <1>14, <2>2 DEF Shown
  <2>5. noted \in Nat \ {0}
    BY <2>1 DEF Window
  <2>6. ASSUME steady'
        PROVE  /\ meter.count + 1 \in 1 .. StepsOfWindow /\ meter.count + 1 <= n
               /\ meter.start = StampOf(n - (meter.count + 1) + 1)
    <3>1. steady /\ n = noted + 1
      <4>1. steady' => inTurn
        BY <1>3, <1>14, Zenon
      <4> QED
        BY <1>i, <2>6, <4>1
    <3>2. Window(meter, noted, TRUE)
      BY <3>1 DEF Window
    <3>3. reading.stamp = StampOf(noted + 1) /\ reading.stamp = s
      BY <1>4, <1>8, <3>1
    <3>4. /\ meter.count \in 1 .. StepsOfWindow /\ meter.count <= noted
          /\ meter.start = StampOf(noted - meter.count + 1)
      BY <2>5, <3>2 DEF Window
    <3>5. reading.stamp - meter.start >= 1000 <=> meter.count = StepsOfWindow
      <4>1. FullWindow(meter, reading)
        BY <2>5, <3>2, <3>3, InTurnMeasures, Zenon
      <4> QED
        BY <4>1, Zenon DEF FullWindow
    <3>6. meter.count # StepsOfWindow
      BY <1>7, <1>8, <2>1, <3>3, <3>4, <3>5
    <3>7. n - (meter.count + 1) + 1 = noted - meter.count + 1
      BY <1>8, <3>1
    <3> QED
      BY <1>5, <3>1, <3>4, <3>6, <3>7
  <2>7. Window(meter', n, steady')
    BY <1>4, <1>8, <2>2, <2>3, <2>6 DEF Window
  <2> QED
    BY <1>3, <1>10, <2>4, <2>7
<1> QED
  BY <1>12, <1>13, <1>14

(* Every rate that a PMU may have is at most 1000 frames per second, or       *)
(* seconds per frame.                                                      *)
DataRates == -1000 .. 1000

UsualRates == \A b \in Bounds : b.rates \subseteq DataRates

MeterInv ==
  /\ dataRate \in DataRates
  /\ next \in Nat \ {0} /\ held \subseteq 1 .. next - 1
  /\ noted \in Nat /\ noted \notin held /\ noted < next
  /\ steady \in BOOLEAN
  /\ dataRate = 0 => held = {} /\ meter = NoMeter
  /\ dataRate # 0 => Window(meter, noted, steady) /\ (lastSteady => Shown(meter))

LEMMA NextMeters == MeterInv /\ [Next]_dashVars => MeterInv'
<1> SUFFICES ASSUME MeterInv, [Next]_dashVars PROVE MeterInv'
  OBVIOUS
<1>1. CASE Rates
  <2>1. CASE TakeReading
    <3>1. next' = next + 1 /\ held' = held \cup {next} /\ next <= Length
      BY <2>1 DEF TakeReading
    <3>2. UNCHANGED <<dataRate, meter, noted, steady, lastSteady>>
      BY <2>1 DEF TakeReading
    <3>3. dataRate # 0
      BY <3>1 DEF MeterInv, Length
    <3>4. /\ next' \in Nat \ {0} /\ held' \subseteq 1 .. next' - 1
          /\ noted \notin held' /\ noted < next'
      BY <3>1 DEF MeterInv
    <3>5. Window(meter, noted, steady)' /\ (lastSteady => Shown(meter))'
      BY <3>2, <3>3 DEF MeterInv, Window, Shown, StampOf, StepsOfWindow
    <3> QED
      BY <3>2, <3>3, <3>4, <3>5 DEF MeterInv
  <2>2. ASSUME NEW n \in held, RecordHeld(n) PROVE MeterInv'
    <3>1. Note(n) /\ held' = held \ {n} /\ dataRate' = dataRate /\ next' = next
      BY <2>2 DEF RecordHeld
    <3>2. n \in Nat \ {0} /\ n < next /\ noted # n /\ noted \in Nat
      BY DEF MeterInv
    <3>3. dataRate # 0 /\ steady \in BOOLEAN
      BY DEF MeterInv
    <3>4. Usual(dataRate)
      BY <3>3 DEF MeterInv, Usual, DataRates
    <3>5. Window(meter, noted, steady) /\ (lastSteady => Shown(meter))
      BY <3>3 DEF MeterInv
    <3>6. /\ noted' = n /\ Window(meter', n, steady') /\ (lastSteady' => Shown(meter'))
          /\ steady' \in BOOLEAN
      BY <3>1, <3>2, <3>3, <3>4, <3>5, NoteKeeps
    <3>7. /\ next' \in Nat \ {0} /\ held' \subseteq 1 .. next' - 1
          /\ noted' \in Nat /\ noted' \notin held' /\ noted' < next'
      BY <3>1, <3>2, <3>6 DEF MeterInv
    <3>8. Window(meter, noted, steady)' /\ (lastSteady => Shown(meter))'
      BY <3>1, <3>6 DEF Window, Shown, StampOf, StepsOfWindow
    <3>9. dataRate' # 0 /\ dataRate' \in DataRates /\ steady' \in BOOLEAN
      BY <3>1, <3>3, <3>6 DEF MeterInv
    <3> QED
      BY <3>7, <3>8, <3>9, Zenon DEF MeterInv
  <2> QED
    BY <1>1, <2>1, <2>2 DEF Rates, MeterNext
<1>2. CASE UNCHANGED meterVars
  <2>1. UNCHANGED <<dataRate, meter, next, held, noted, steady, lastSteady>>
    BY <1>2 DEF meterVars
  <2>2. dataRate # 0 => Window(meter, noted, steady)' /\ (lastSteady => Shown(meter))'
    BY <2>1 DEF MeterInv, Window, Shown, StampOf, StepsOfWindow
  <2> QED
    BY <2>1, <2>2 DEF MeterInv
<1>3. CASE Cancel \/ Feed
  BY <1>2, <1>3 DEF Cancel, Feed
<1>4. CASE \E t \in Threads : Raise(t)
  BY <1>2, <1>4 DEF Raise
<1>5. CASE \E p \in PMUs : \/ Arrive(p) \/ HandleFrame(p) \/ RecordFrameAsync(p)
                           \/ RecordReading(p)
  BY <1>2, <1>5 DEF Arrive, HandleFrame, RecordFrameAsync, RecordReading
<1>6. CASE \E w \in Workers : Take(w) \/ recordReadingSync(w) \/ Quit(w)
  BY <1>2, <1>6 DEF Take, recordReadingSync, Quit
<1>7. CASE \E w \in TapeWorkers : Capture(w) \/ recordLocked(w)
  BY <1>2, <1>7 DEF Capture, recordLocked
<1>8. CASE UNCHANGED dashVars
  BY <1>2, <1>8 DEF dashVars
<1> QED
  BY <1>1, <1>3, <1>4, <1>5, <1>6, <1>7, <1>8 DEF Next

LEMMA InitMeters == UsualRates /\ Init => MeterInv
<1> SUFFICES ASSUME UsualRates, Init PROVE MeterInv
  OBVIOUS
<1>1. bound \in Bounds /\ dataRate \in bound.rates
  BY DEF Init, MeterInit
<1>2. dataRate \in DataRates
  BY <1>1 DEF UsualRates
<1>3. /\ meter = NoMeter /\ next = 1 /\ held = {} /\ noted = 0
      /\ steady = TRUE /\ lastSteady = TRUE
  BY DEF Init, MeterInit
<1>4. ~ NoMeter.started
  BY DEF NoMeter
<1>5. /\ NoMeter.count = 0 /\ NoMeter.start = 0 /\ NoMeter.stamp = -1
      /\ NoMeter.fps = 0
  BY DEF NoMeter
<1>6. Window(NoMeter, 0, steady) /\ Shown(NoMeter)
  BY <1>4, <1>5 DEF Window, Shown
<1>9. dataRate = 0 => held = {} /\ meter = NoMeter
  BY <1>3
<1>7. /\ next \in Nat \ {0} /\ held \subseteq 1 .. next - 1
      /\ noted \in Nat /\ noted \notin held /\ noted < next /\ steady \in BOOLEAN
  BY <1>3
<1>8. Window(meter, noted, steady) /\ (lastSteady => Shown(meter))
  <2> HIDE DEF NoMeter
  <2> QED
    BY <1>3, <1>6
<1> QED
  BY <1>2, <1>7, <1>8, <1>9, Zenon DEF MeterInv

(* The rate shown recovers (monitoring/fps.go, noteUniqueStampFPS), for every *)
(* usual rate, also those whose period is no whole number of milliseconds, *)
(* and whatever was overtaken or paused before: a window of readings in     *)
(* turn has all the stamps of the grid between its ends, and measures the   *)
(* advertised rate whatever the meter showed until then.                   *)
THEOREM AlwaysSteadyWindowShown == UsualRates => (Spec => []SteadyWindowShown)
<1> SUFFICES ASSUME UsualRates PROVE Spec => []SteadyWindowShown
  OBVIOUS
<1>1. Init => MeterInv
  BY InitMeters
<1>2. MeterInv /\ [Next]_dashVars => MeterInv'
  BY NextMeters
<1>3. MeterInv => SteadyWindowShown
  <2> SUFFICES ASSUME MeterInv, lastSteady PROVE ApproxFPS(meter, dataRate) = cfgRateFPS(dataRate)
    BY DEF SteadyWindowShown
  <2>1. CASE dataRate = 0
    <3>1. meter.fps = 0
      BY <2>1 DEF MeterInv, NoMeter
    <3> QED
      BY <3>1 DEF ApproxFPS
  <2>2. CASE dataRate # 0
    <3>1. meter.fps = 0 \/ meter.fps = cfgRateFPS(dataRate)
      BY <2>2 DEF MeterInv, Shown
    <3>2. cfgRateFPS(dataRate) \in Nat \ {0}
      BY <2>2, StampsSpaced DEF MeterInv, DataRates
    <3> QED
      BY <3>1, <3>2 DEF ApproxFPS
  <2> QED
    BY <2>1, <2>2
<1> HIDE DEF UsualRates
<1> QED
  BY <1>1, <1>2, <1>3, PTL DEF Spec
=============================================================================
