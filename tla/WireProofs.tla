----------------------------- MODULE WireProofs -----------------------------
(***************************************************************************)
(* What the receiver makes of a TCP connection, for any layouts, errors of *)
(* the line, and deadlines that pass between any two pieces: first the     *)
(* order of what readFrameTimed delivers, then what the parser reads of a  *)
(* CFG-2 frame and of the DATA behind it, for any number of blocks and of  *)
(* channels, then the two put together, and last what the CRC sees.        *)
(***************************************************************************)
EXTENDS Wire, SequenceTheorems, TLAPS

Pieces == [n : Nat, part : 1 .. 3]

(* The pieces of a connection in the order they are sent. *)
Place(piece) == 3 * (piece.n - 1) + piece.part

(* How many pieces were sent before those that are still to be read. *)
Behind == 3 * Len(sent) - Len(got) - Len(wire)

WireTypes ==
  /\ \E S : sent \in Seq(S)
  /\ wire \in Seq(Pieces) /\ got \in Seq(Pieces)
  /\ delivered \in Seq(Nat)

(* What is read and what is under way are the last pieces sent, without a  *)
(* gap: a deadline that passes loses what was read, never what follows.    *)
Gapless ==
  /\ Behind \in Nat
  /\ \A i \in 1 .. Len(got) : Place(got[i]) = Behind + i
  /\ \A i \in 1 .. Len(wire) : Place(wire[i]) = Behind + Len(got) + i

(* A frame with its CRC right that was delivered is behind. *)
Past(n) == n \in 1 .. Len(sent) /\ 3 * n <= Behind /\ Fits(sent[n].bytes)

AllPast == \A i \in DOMAIN delivered : Past(delivered[i])

StreamInv == WireTypes /\ Gapless /\ AllPast /\ InOrder

-----------------------------------------------------------------------------
LEMMA AppendsTo ==
  ASSUME NEW S, NEW s \in Seq(S), NEW e, NEW t, t = Append(s, e)
  PROVE  /\ \E T : t \in Seq(T)
         /\ Len(s) \in Nat /\ Len(t) = Len(s) + 1
         /\ DOMAIN s = 1 .. Len(s) /\ DOMAIN t = 1 .. Len(s) + 1
         /\ \A i \in 1 .. Len(s) : t[i] = s[i]
         /\ t[Len(s) + 1] = e
<1> DEFINE T == S \cup {e}
<1>1. s \in Seq(T)
  BY SeqMonotonic
<1>2. e \in T
  OBVIOUS
<1> HIDE DEF T
<1>3. /\ t \in Seq(T) /\ Len(t) = Len(s) + 1
      /\ \A i \in 1 .. Len(s) : t[i] = s[i]
      /\ t[Len(s) + 1] = e
  BY <1>1, <1>2, AppendProperties
<1>4. Len(s) \in Nat /\ DOMAIN s = 1 .. Len(s) /\ DOMAIN t = 1 .. Len(s) + 1
  BY <1>1, <1>3, LenProperties
<1> QED
  BY <1>3, <1>4

(* The head of a sequence, and where the rest of it comes to stand. *)
LEMMA Taken ==
  ASSUME NEW S, NEW s \in Seq(S), s # <<>>
  PROVE  /\ Len(s) \in Nat \ {0} /\ Head(s) \in S /\ Head(s) = s[1]
         /\ Tail(s) \in Seq(S) /\ Len(Tail(s)) = Len(s) - 1
         /\ \A i \in 1 .. Len(s) - 1 : Tail(s)[i] = s[i + 1]
<1>1. /\ Len(s) \in Nat \ {0} /\ Head(s) \in S
      /\ Tail(s) \in Seq(S) /\ Len(Tail(s)) = Len(s) - 1
      /\ \A i \in 1 .. Len(Tail(s)) : Tail(s)[i] = s[i + 1]
  BY EmptySeq, LenProperties, HeadTailProperties
<1>2. Head(s) = s[1]
  OBVIOUS
<1> QED
  BY <1>1, <1>2

LEMMA Facts ==
  ASSUME StreamInv
  PROVE  /\ Len(sent) \in Nat /\ Len(got) \in Nat /\ Len(wire) \in Nat /\ Behind \in Nat
         /\ Behind = 3 * Len(sent) - Len(got) - Len(wire)
<1>1. PICK S : sent \in Seq(S)
  BY DEF StreamInv, WireTypes
<1> QED
  BY <1>1, LenProperties DEF StreamInv, WireTypes, Gapless, Behind

(* What was delivered stays so while no frame is delivered. *)
LEMMA StaysPast ==
  ASSUME StreamInv, delivered' = delivered, Len(sent') >= Len(sent), Len(sent') \in Nat,
         \A n \in 1 .. Len(sent) : sent'[n] = sent[n], Behind' >= Behind, Behind' \in Nat
  PROVE  AllPast' /\ InOrder'
<1>1. ASSUME NEW i \in DOMAIN delivered PROVE Past(delivered[i])'
  <2>1. Past(delivered[i])
    BY DEF StreamInv, AllPast
  <2> QED
    BY <2>1, Facts, SMTT(30) DEF Past
<1> QED
  BY <1>1 DEF AllPast, InOrder, StreamInv

LEMMA InitStream == Init => StreamInv
<1> SUFFICES ASSUME Init PROVE StreamInv
  OBVIOUS
<1>1. sent = <<>> /\ wire = <<>> /\ got = <<>> /\ delivered = <<>>
  BY DEF Init
<1>2. Len(<<>>) = 0 /\ \A S : <<>> \in Seq(S)
  BY EmptySeq
<1>3. Behind = 0
  BY <1>1, <1>2 DEF Behind
<1> QED
  BY <1>1, <1>2, <1>3 DEF StreamInv, WireTypes, Gapless, AllPast, InOrder

(* What is being read is thrown away, and what follows it stays, goes with *)
(* it, or loses its first piece, which was read too.                       *)
LEMMA ReadIsOver ==
  ASSUME StreamInv, sent' = sent, got' = <<>>,
         wire' = wire \/ wire' = <<>> \/ (wire # <<>> /\ wire' = Tail(wire))
  PROVE  /\ Gapless' /\ wire' \in Seq(Pieces) /\ got' \in Seq(Pieces)
         /\ Behind' \in Nat /\ Behind' >= Behind
         /\ wire # <<>> /\ wire' # wire => Behind' >= Behind + Len(got) + 1
<1>0. /\ wire \in Seq(Pieces) /\ Len(sent) \in Nat /\ Len(got) \in Nat /\ Len(wire) \in Nat
      /\ Behind \in Nat /\ Behind = 3 * Len(sent) - Len(got) - Len(wire)
      /\ \A i \in 1 .. Len(wire) : Place(wire[i]) = Behind + Len(got) + i
  BY Facts DEF StreamInv, WireTypes, Gapless
<1>1. got' \in Seq(Pieces) /\ Len(got') = 0
  BY EmptySeq
<1>2. CASE wire' = wire
  <2>1. Behind' = 3 * Len(sent) - Len(wire)
    BY <1>1, <1>2 DEF Behind
  <2> QED
    BY <1>0, <1>1, <1>2, <2>1 DEF Gapless
<1>3. CASE wire' = <<>>
  <2>1. wire' \in Seq(Pieces) /\ Len(wire') = 0
    BY <1>3, EmptySeq
  <2>2. Behind' = 3 * Len(sent)
    BY <1>0, <1>1, <2>1 DEF Behind
  <2>3. wire # <<>> => Len(wire) # 0
    BY <1>0, EmptySeq
  <2> QED
    BY <1>0, <1>1, <2>1, <2>2, <2>3 DEF Gapless
<1>4. CASE wire # <<>> /\ wire' = Tail(wire)
  <2>1. /\ Len(wire) \in Nat \ {0} /\ wire' \in Seq(Pieces) /\ Len(wire') = Len(wire) - 1
        /\ \A i \in 1 .. Len(wire) - 1 : wire'[i] = wire[i + 1]
    BY <1>0, <1>4, Taken
  <2>2. Behind' = 3 * Len(sent) - (Len(wire) - 1)
    BY <1>1, <2>1 DEF Behind
  <2>3. Behind' = Behind + Len(got) + 1
    BY <1>0, <2>1, <2>2
  <2>4. ASSUME NEW i \in 1 .. Len(wire') PROVE Place(wire'[i]) = Behind' + Len(got') + i
    <3>1. wire'[i] = wire[i + 1] /\ i + 1 \in 1 .. Len(wire)
      BY <2>1
    <3>2. Place(wire'[i]) = Behind + Len(got) + (i + 1)
      BY <1>0, <3>1
    <3> QED
      BY <1>0, <1>1, <2>1, <2>3, <3>2
  <2> QED
    BY <1>0, <1>1, <2>1, <2>3, <2>4 DEF Gapless
<1> QED
  BY <1>2, <1>3, <1>4

LEMMA DroppedStream ==
  ASSUME StreamInv, sent' = sent, delivered' = delivered, got' = <<>>,
         wire' = wire \/ wire' = <<>>
  PROVE  StreamInv'
<1>1. Gapless' /\ wire' \in Seq(Pieces) /\ got' \in Seq(Pieces) /\ Behind' \in Nat /\ Behind' >= Behind
  BY ReadIsOver
<1>2. AllPast' /\ InOrder'
  BY <1>1, Facts, StaysPast
<1> QED
  BY <1>1, <1>2 DEF StreamInv, WireTypes

(* Another piece is put to those of the frame that is being read. *)
LEMMA ReadStream ==
  ASSUME StreamInv, wire # <<>>, got' = Append(got, Head(wire)), wire' = Tail(wire),
         UNCHANGED <<sent, delivered>>
  PROVE  StreamInv'
<1>0. /\ Len(sent) \in Nat /\ wire \in Seq(Pieces) /\ got \in Seq(Pieces)
      /\ Behind \in Nat /\ Behind = 3 * Len(sent) - Len(got) - Len(wire)
      /\ \A i \in 1 .. Len(got) : Place(got[i]) = Behind + i
      /\ \A i \in 1 .. Len(wire) : Place(wire[i]) = Behind + Len(got) + i
  BY Facts DEF StreamInv, WireTypes, Gapless
<1>1. /\ Len(wire) \in Nat \ {0} /\ Head(wire) \in Pieces /\ Head(wire) = wire[1]
      /\ wire' \in Seq(Pieces) /\ Len(wire') = Len(wire) - 1
      /\ \A i \in 1 .. Len(wire) - 1 : wire'[i] = wire[i + 1]
  BY <1>0, Taken
<1>2. /\ got' \in Seq(Pieces) /\ Len(got') = Len(got) + 1 /\ Len(got) \in Nat
      /\ \A i \in 1 .. Len(got) : got'[i] = got[i]
      /\ got'[Len(got) + 1] = Head(wire)
  BY <1>0, <1>1, AppendProperties, LenProperties
<1>3. Behind' = Behind
  BY <1>0, <1>1, <1>2 DEF Behind
<1>4. ASSUME NEW i \in 1 .. Len(got') PROVE Place(got'[i]) = Behind' + i
  <2>1. CASE i = Len(got) + 1
    <3>1. got'[i] = wire[1] /\ 1 \in 1 .. Len(wire)
      BY <1>1, <1>2, <2>1
    <3>2. Place(wire[1]) = Behind + Len(got) + 1
      BY <1>0, <3>1
    <3> QED
      BY <1>3, <2>1, <3>1, <3>2, <1>0, <1>2
  <2>2. CASE i # Len(got) + 1
    <3>1. i \in 1 .. Len(got) /\ got'[i] = got[i]
      BY <1>2, <2>2
    <3> QED
      BY <1>0, <1>3, <3>1
  <2> QED
    BY <2>1, <2>2
<1>5. ASSUME NEW i \in 1 .. Len(wire') PROVE Place(wire'[i]) = Behind' + Len(got') + i
  <2>1. wire'[i] = wire[i + 1] /\ i + 1 \in 1 .. Len(wire)
    BY <1>1
  <2>2. Place(wire'[i]) = Behind + Len(got) + (i + 1)
    BY <1>0, <2>1
  <2> QED
    BY <1>0, <1>1, <1>2, <1>3, <2>2
<1>6. AllPast' /\ InOrder'
  BY <1>0, <1>3, StaysPast
<1> QED
  BY <1>0, <1>1, <1>2, <1>3, <1>4, <1>5, <1>6 DEF StreamInv, WireTypes, Gapless

(* A frame goes out in three pieces behind those under way. *)
LEMMA SendStream ==
  ASSUME StreamInv, NEW type, PmuSends(type)
  PROVE  StreamInv'
<1>0. /\ Len(sent) \in Nat /\ wire \in Seq(Pieces) /\ Len(wire) \in Nat /\ Len(got) \in Nat
      /\ Behind \in Nat /\ Behind = 3 * Len(sent) - Len(got) - Len(wire)
      /\ \A i \in 1 .. Len(got) : Place(got[i]) = Behind + i
      /\ \A i \in 1 .. Len(wire) : Place(wire[i]) = Behind + Len(got) + i
      /\ UNCHANGED <<got, delivered>>
  BY Facts DEF StreamInv, WireTypes, Gapless, PmuSends
<1>1. PICK e : sent' = Append(sent, e)
  BY DEF PmuSends
<1>2. PICK S : sent \in Seq(S)
  BY DEF StreamInv, WireTypes
<1>3. /\ \E T : sent' \in Seq(T)
      /\ Len(sent') = Len(sent) + 1 /\ \A n \in 1 .. Len(sent) : sent'[n] = sent[n]
  <2>1. PICK all : all = Append(sent, e)
    OBVIOUS
  <2>2. /\ \E T : all \in Seq(T)
        /\ Len(all) = Len(sent) + 1 /\ \A n \in 1 .. Len(sent) : all[n] = sent[n]
    BY <1>2, <2>1, AppendsTo
  <2> QED
    BY <1>1, <2>1, <2>2
<1>4. PICK m \in Nat : m = Len(sent') /\ m = Len(sent) + 1
  BY <1>0, <1>3
<1> DEFINE more == [i \in 1 .. 3 |-> [n |-> m, part |-> i]]
<1>5. more \in Seq(Pieces) /\ Len(more) = 3
  <2>1. \A i \in 1 .. 3 : [n |-> m, part |-> i] \in Pieces
    BY DEF Pieces
  <2> QED
    BY <2>1, IsASeq, LenProperties
<1>6. \A i \in 1 .. 3 : Place(more[i]) = 3 * Len(sent) + i
  BY <1>0, <1>4 DEF Place
<1>7. wire' = wire \o more
  BY <1>4 DEF PmuSends
<1> HIDE DEF more
<1>8. /\ wire' \in Seq(Pieces) /\ Len(wire') = Len(wire) + 3
      /\ \A i \in 1 .. Len(wire) + 3 :
           wire'[i] = IF i <= Len(wire) THEN wire[i] ELSE more[i - Len(wire)]
  <2>1. PICK all : all = wire \o more
    OBVIOUS
  <2>2. /\ all \in Seq(Pieces) /\ Len(all) = Len(wire) + Len(more)
        /\ \A i \in 1 .. Len(wire) + Len(more) :
             all[i] = IF i <= Len(wire) THEN wire[i] ELSE more[i - Len(wire)]
    BY <1>0, <1>5, <2>1, ConcatProperties
  <2> QED
    BY <1>5, <1>7, <2>1, <2>2
<1>9. Behind' = Behind
  BY <1>0, <1>3, <1>8 DEF Behind
<1>10. ASSUME NEW i \in 1 .. Len(wire') PROVE Place(wire'[i]) = Behind' + Len(got') + i
  <2>0. i \in 1 .. Len(wire) + 3
    BY <1>8
  <2>1. CASE i <= Len(wire)
    <3>1. wire'[i] = wire[i] /\ i \in 1 .. Len(wire)
      BY <1>0, <1>8, <2>0, <2>1
    <3> QED
      BY <1>0, <1>9, <3>1
  <2>2. CASE i > Len(wire)
    <3>1. wire'[i] = more[i - Len(wire)] /\ i - Len(wire) \in 1 .. 3
      BY <1>0, <1>8, <2>0, <2>2
    <3>2. Place(wire'[i]) = 3 * Len(sent) + (i - Len(wire))
      BY <1>6, <3>1
    <3> QED
      BY <1>0, <1>8, <1>9, <3>2
  <2> QED
    BY <1>0, <2>0, <2>1, <2>2
<1>11. Gapless'
  BY <1>0, <1>9, <1>10 DEF Gapless
<1>12. AllPast' /\ InOrder'
  BY <1>0, <1>3, <1>9, StaysPast
<1> QED
  BY <1>0, <1>3, <1>8, <1>11, <1>12 DEF StreamInv, WireTypes

(* Two pieces after the first piece of a frame comes its last one. *)
LEMMA ThirdPiece ==
  ASSUME NEW g \in Pieces, NEW p \in Pieces, NEW b \in Nat,
         g.part = 1, Place(g) = b + 1, Place(p) = b + 3
  PROVE  g.n = p.n /\ 3 * p.n = b + 3
<1>1. g.n \in Nat /\ p.n \in Nat /\ p.part \in 1 .. 3
  BY DEF Pieces
<1>2. 3 * (g.n - 1) + 1 = b + 1 /\ 3 * (p.n - 1) + p.part = b + 3
  BY DEF Place
<1> QED
  BY <1>1, <1>2

(* A frame's last piece is the third. *)
LEMMA TwoAndOne ==
  ASSUME NEW x \in Nat, x + 1 = 3
  PROVE  x = 2
OBVIOUS

(* A frame is delivered: its three pieces are those that come next. *)
LEMMA DeliverStream ==
  ASSUME StreamInv, wire # <<>>, NEW n, Fits16(Append(got, Head(wire))), n = Head(wire).n,
         sent' = sent, delivered' = Append(delivered, n), got' = <<>>,
         wire' = <<>> \/ wire' = Tail(wire)
  PROVE  StreamInv'
<1>0. /\ Len(sent) \in Nat /\ wire \in Seq(Pieces) /\ got \in Seq(Pieces)
      /\ Behind \in Nat /\ Behind = 3 * Len(sent) - Len(got) - Len(wire)
      /\ \A i \in 1 .. Len(got) : Place(got[i]) = Behind + i
      /\ \A i \in 1 .. Len(wire) : Place(wire[i]) = Behind + Len(got) + i
      /\ delivered \in Seq(Nat)
  BY Facts DEF StreamInv, WireTypes, Gapless
<1>1. PICK piece \in Pieces : piece = Head(wire) /\ piece = wire[1] /\ Len(wire) \in Nat \ {0}
  BY <1>0, Taken
<1>2. PICK pieces \in Seq(Pieces) : pieces = Append(got, piece)
  BY <1>0, <1>1, AppendProperties
<1>2a. /\ Len(pieces) = Len(got) + 1 /\ Len(got) \in Nat
       /\ \A i \in 1 .. Len(got) : pieces[i] = got[i]
  BY <1>0, <1>1, <1>2, AppendProperties, LenProperties
<1>3. pieces[1].part = 1 /\ Fits(sent[pieces[1].n].bytes)
  BY <1>1, <1>2 DEF Fits16, Whole
<1>3a. Len(pieces) = 3
  BY <1>1, <1>2 DEF Fits16, Whole
<1>4. Len(got) = 2
  BY <1>2a, <1>3a, TwoAndOne
<1>5. PICK g \in Pieces : g = got[1] /\ g = pieces[1]
  <2>1. 1 \in 1 .. Len(got)
    BY <1>4
  <2>2. got[1] \in Pieces
    BY <1>0, <2>1, ElementOfSeq
  <2> QED
    BY <1>2a, <2>1, <2>2
<1>6. Place(g) = Behind + 1 /\ Place(piece) = Behind + 3
  <2>1. Place(got[1]) = Behind + 1
    BY <1>0, <1>4
  <2>2. Place(wire[1]) = Behind + 2 + 1
    BY <1>0, <1>1, <1>4
  <2> QED
    BY <1>0, <1>1, <1>5, <2>1, <2>2
<1>7. g.n = n /\ 3 * n = Behind + 3 /\ n \in Nat
  <2>1. g.n = piece.n /\ 3 * piece.n = Behind + 3
    BY <1>0, <1>3, <1>5, <1>6, ThirdPiece
  <2> QED
    BY <1>1, <2>1 DEF Pieces
<1>8. /\ Gapless' /\ wire' \in Seq(Pieces) /\ got' \in Seq(Pieces)
      /\ Behind' \in Nat /\ Behind' >= Behind + 3
  <2>1. wire' # wire
    <3>1. wire' = Tail(wire) => Len(wire') = Len(wire) - 1
      BY <1>0, Taken
    <3> QED
      BY <1>1, <3>1
  <2>2. Behind' >= Behind + Len(got) + 1
    BY <2>1, ReadIsOver
  <2> QED
    BY <1>0, <1>4, <2>2, ReadIsOver, SMTT(30)
<1> DEFINE PastNow(k) == k \in 1 .. Len(sent) /\ 3 * k <= Behind' /\ Fits(sent[k].bytes)
<1>9. PastNow(n)
  <2>0. /\ n \in Nat /\ 3 * n = Behind + 3 /\ Behind \in Nat /\ Len(sent) \in Nat
        /\ Behind = 3 * Len(sent) - 2 - Len(wire) /\ Len(wire) \in Nat \ {0}
        /\ Behind' \in Nat /\ Behind' >= Behind + 3
    BY <1>0, <1>1, <1>4, <1>7, <1>8
  <2>1. n \in 1 .. Len(sent)
    BY <2>0, SMTT(30)
  <2>2. 3 * n <= Behind'
    BY <2>0
  <2> QED
    BY <1>3, <1>5, <1>7, <2>1, <2>2
<1>10. /\ delivered' \in Seq(Nat) /\ Len(delivered') = Len(delivered) + 1
       /\ \A i \in 1 .. Len(delivered) : delivered'[i] = delivered[i]
       /\ delivered'[Len(delivered) + 1] = n
       /\ DOMAIN delivered = 1 .. Len(delivered) /\ Len(delivered) \in Nat
       /\ DOMAIN delivered' = 1 .. Len(delivered) + 1
  BY <1>0, <1>7, AppendProperties, LenProperties
<1>11. ASSUME NEW i \in DOMAIN delivered PROVE PastNow(delivered[i]) /\ delivered[i] < n
  <2>1. PICK k : k = delivered[i] /\ Past(k)
    BY DEF StreamInv, AllPast
  <2>2. k \in 1 .. Len(sent) /\ 3 * k <= Behind /\ Fits(sent[k].bytes)
    BY <2>1 DEF Past
  <2>0. /\ n \in Nat /\ 3 * n = Behind + 3 /\ Behind \in Nat
        /\ Behind' \in Nat /\ Behind' >= Behind + 3 /\ k \in Int
    BY <1>0, <1>7, <1>8, <2>2
  <2>3. 3 * k <= Behind' /\ k < n
    BY <2>0, <2>2
  <2> QED
    BY <2>1, <2>2, <2>3
<1>12. AllPast'
  <2>1. ASSUME NEW i \in DOMAIN delivered' PROVE PastNow(delivered'[i])
    <3>1. CASE i = Len(delivered) + 1
      BY <1>9, <1>10, <3>1
    <3>2. CASE i # Len(delivered) + 1
      <4>1. i \in DOMAIN delivered /\ delivered'[i] = delivered[i]
        BY <1>10, <3>2
      <4> QED
        BY <1>11, <4>1
    <3> QED
      BY <3>1, <3>2
  <2> QED
    BY <2>1 DEF AllPast, Past
<1> HIDE DEF PastNow
<1>13. InOrder'
  <2> SUFFICES ASSUME NEW i \in DOMAIN delivered', NEW j \in DOMAIN delivered', i < j
               PROVE  delivered'[i] < delivered'[j]
    BY DEF InOrder
  <2>1. i \in DOMAIN delivered /\ delivered'[i] = delivered[i]
    BY <1>10
  <2>2. CASE j = Len(delivered) + 1
    BY <1>10, <1>11, <2>1, <2>2
  <2>3. CASE j # Len(delivered) + 1
    <3>1. j \in DOMAIN delivered /\ delivered'[j] = delivered[j]
      BY <1>10, <2>3
    <3> QED
      BY <2>1, <3>1 DEF StreamInv, InOrder
  <2> QED
    BY <2>2, <2>3
<1> QED
  BY <1>8, <1>10, <1>12, <1>13 DEF StreamInv, WireTypes

LEMMA ReceiveStream ==
  ASSUME StreamInv, Receive
  PROVE  StreamInv'
<1>1. wire # <<>> /\ IF got = <<>> THEN ReadHeader(Head(wire)) ELSE ReadOn(Head(wire))
  BY DEF Receive
<1>2. PICK piece : piece = Head(wire)
  OBVIOUS
<1>3. ASSUME NEW why, Down(why) PROVE StreamInv'
  BY <1>3, DroppedStream DEF Down
<1>4. CASE got = <<>>
  <2>1. ReadHeader(piece)
    BY <1>1, <1>2, <1>4
  <2>2. CASE got' = <<piece>> /\ wire' = Tail(wire) /\ UNCHANGED <<pmuVars, delivered>>
    <3>1. got' = Append(got, Head(wire))
      BY <1>2, <1>4, <2>2
    <3> QED
      BY <1>1, <2>2, <3>1, ReadStream DEF pmuVars
  <2> QED
    BY <1>3, <2>1, <2>2 DEF ReadHeader
<1>5. CASE got # <<>>
  <2>1. ReadOn(piece)
    BY <1>1, <1>2, <1>5
  <2>2. CASE got' = Append(got, piece) /\ wire' = Tail(wire) /\ UNCHANGED <<pmuVars, delivered>>
    BY <1>1, <1>2, <2>2, ReadStream DEF pmuVars
  <2>3. CASE Fits16(Append(got, piece)) /\ (DeliverCFG2(piece.n) \/ DeliverData(piece.n))
    <3>1. /\ sent' = sent /\ delivered' = Append(delivered, piece.n) /\ got' = <<>>
          /\ wire' = <<>> \/ wire' = Tail(wire)
      <4>1. CASE DeliverCFG2(piece.n)
        BY <4>1 DEF DeliverCFG2
      <4>2. CASE DeliverData(piece.n)
        BY <4>2 DEF DeliverData, pmuVars
      <4> QED
        BY <2>3, <4>1, <4>2
    <3> QED
      BY <1>1, <1>2, <2>3, <3>1, DeliverStream
  <2> QED
    BY <1>3, <2>1, <2>2, <2>3 DEF ReadOn
<1> QED
  BY <1>4, <1>5

LEMMA NextStream == StreamInv /\ [Next]_wireVars => StreamInv'
<1> SUFFICES ASSUME StreamInv, [Next]_wireVars PROVE StreamInv'
  OBVIOUS
<1>1. ASSUME UNCHANGED <<sent, wire, got, delivered>> PROVE StreamInv'
  BY <1>1 DEF StreamInv, WireTypes, Gapless, Behind, AllPast, Past, InOrder
<1>2. CASE Ask \/ Redial
  BY <1>1, <1>2 DEF Ask, Redial, pmuVars
<1>3. CASE Timeout
  <2>1. ASSUME Down("timeout") PROVE StreamInv'
    BY <2>1, DroppedStream DEF Down
  <2>2. ASSUME got' = <<>>, UNCHANGED <<pmuVars, wire, delivered>> PROVE StreamInv'
    BY <2>2, DroppedStream DEF pmuVars
  <2> QED
    BY <1>3, <2>1, <2>2 DEF Timeout
<1>4. CASE Receive
  BY <1>4, ReceiveStream
<1>5. CASE \E type \in {"cfg2", "data"} : PmuSends(type)
  BY <1>5, SendStream
<1>6. CASE UNCHANGED wireVars
  BY <1>1, <1>6 DEF wireVars, pmuVars
<1> QED
  BY <1>2, <1>3, <1>4, <1>5, <1>6 DEF Next

LEMMA AlwaysStream == Spec => []StreamInv
BY InitStream, NextStream, PTL DEF Spec

(* readFrameTimed (receiver/receiver.go:170) never delivers a frame twice   *)
(* or one before an earlier one, wherever a deadline passes inside a frame *)
(* and whatever is read out of step: DeliveredAsSent's first part.         *)
THEOREM AlwaysInOrder == Spec => []InOrder
<1>1. StreamInv => InOrder
  BY DEF StreamInv
<1> QED
  BY <1>1, AlwaysStream, PTL

(* Where the CRC sees the errors of the line, which CrcSeesErrors says, no *)
(* damaged frame is delivered: DeliveredAsSent's second part.              *)
UndamagedIfSeen ==
  (\A n \in DOMAIN sent : Fits(sent[n].bytes) => ~ Damaged(n)) =>
    \A i \in DOMAIN delivered : ~ Damaged(delivered[i])

(* Pieces of two frames are never put together (receiver/receiver.go:170,  *)
(* readFrameTimed): what is delivered is one frame, whose CRC was checked  *)
(* over its own bytes, so that it is undamaged if the CRC sees errors.     *)
LEMMA AlwaysUndamagedIfSeen == Spec => []UndamagedIfSeen
<1>1. StreamInv => UndamagedIfSeen
  <2> SUFFICES ASSUME StreamInv, \A n \in DOMAIN sent : Fits(sent[n].bytes) => ~ Damaged(n),
                      NEW i \in DOMAIN delivered
               PROVE  ~ Damaged(delivered[i])
    BY DEF UndamagedIfSeen
  <2>1. Past(delivered[i])
    BY DEF StreamInv, AllPast
  <2>2. DOMAIN sent = 1 .. Len(sent)
    <3>1. PICK S : sent \in Seq(S)
      BY DEF StreamInv, WireTypes
    <3> QED
      BY <3>1, LenProperties
  <2> QED
    BY <2>1, <2>2 DEF Past
<1> QED
  BY <1>1, AlwaysStream, PTL

-----------------------------------------------------------------------------
(* Payloads: fields laid end to end. *)
EndsStep(q, ends, f) == Append(ends, Last(ends) + f.size)

Ends == INSTANCE FoldProofs WITH Op <- EndsStep

(* Fields f stand in a payload p one after the other from offset o on, and *)
(* end at offset o2.                                                       *)
Offsets(f, e) == \A i \in 1 .. Len(f) : e[i] = e[i - 1] + f[i].size

Standing(p, f, e) ==
  \A i \in 1 .. Len(f) : e[i - 1] \in DOMAIN p.at /\ p.at[e[i - 1]] = f[i]

Laid(p, o, f, o2) ==
  \E e \in [0 .. Len(f) -> Nat] :
     e[0] = o /\ e[Len(f)] = o2 /\ Offsets(f, e) /\ Standing(p, f, e)

SizedIn(S) == \A x \in S : x.size \in Nat \ {0}

(* Ends of fields that are not empty grow. *)
LEMMA Increasing ==
  ASSUME NEW n \in Nat, NEW e, \A i \in 0 .. n : e[i] \in Nat,
         \A i \in 1 .. n : e[i - 1] < e[i]
  PROVE  \A i, j \in 0 .. n : i < j => e[i] < e[j]
<1> DEFINE J == {k \in Nat : k <= n => \A i \in 0 .. n : i < k => e[i] < e[k]}
<1>1. 0 \in J
  OBVIOUS
<1>2. ASSUME NEW k \in Nat, k \in J PROVE k + 1 \in J
  <2> SUFFICES ASSUME k + 1 <= n, NEW i \in 0 .. n, i < k + 1 PROVE e[i] < e[k + 1]
    OBVIOUS
  <2>1. e[k] < e[k + 1] /\ e[k] \in Nat /\ e[k + 1] \in Nat /\ e[i] \in Nat
    <3>1. k + 1 \in 1 .. n /\ (k + 1) - 1 = k
      OBVIOUS
    <3> QED
      BY <3>1
  <2>2. CASE i = k
    BY <2>1, <2>2
  <2>3. CASE i < k
    BY <1>2, <2>1, <2>3
  <2> QED
    BY <2>2, <2>3
<1>3. \A k \in Nat : k \in J
  <2> HIDE DEF J
  <2> QED
    BY <1>1, <1>2, Ends!CountUp
<1> QED
  BY <1>3

(* The fields that are put together to a payload stand in it, end to end. *)
LEMMA BytesLaid ==
  ASSUME NEW S, SizedIn(S), NEW f \in Seq(S)
  PROVE  Bytes(f).len \in Nat /\ Laid(Bytes(f), 0, f, Bytes(f).len)
<1> DEFINE n == Len(f)
           end == FoldLeft(LAMBDA ends, x : Append(ends, Last(ends) + x.size), <<0>>, f)
<1>1. n \in Nat /\ DOMAIN f = 1 .. n /\ \A i \in 1 .. n : f[i] \in S /\ f[i].size \in Nat \ {0}
  BY LenProperties, ElementOfSeq DEF SizedIn
<1>2a. PICK st : Ends!Passes(0, <<0>>, f, n, st) /\ Ends!Fold(0, <<0>>, f) = st[n]
  BY <1>1, Ends!FoldStates
<1>2. st[0] = <<0>> /\ \A i \in 1 .. n : st[i] = EndsStep(0, st[i - 1], f[i])
  BY <1>2a DEF Ends!Passes, EndsStep
<1>3. end = st[n]
  <2>1. Ends!Fold(0, <<0>>, f) = end
    BY DEF EndsStep, Ends!Fold, FoldLeft, MapThenFoldSet, Max, Ends!MapThenFoldSet, Ends!Most
  <2> QED
    BY <1>2a, <2>1
<1> DEFINE Good(k) == /\ st[k] \in Seq(Nat) /\ Len(st[k]) = k + 1 /\ st[k][1] = 0
                      /\ \A j \in 1 .. k : st[k][j + 1] = st[k][j] + f[j].size
           J == {k \in Nat : k <= n => Good(k)}
<1>4. 0 \in J
  <2>1. <<0>> \in Seq(Nat) /\ Len(<<0>>) = 1 /\ <<0>>[1] = 0
    OBVIOUS
  <2>2. Good(0)
    BY <1>2, <2>1
  <2> QED
    BY <2>2
<1>5. ASSUME NEW k \in Nat, k \in J PROVE k + 1 \in J
  <2> SUFFICES ASSUME k + 1 <= n PROVE Good(k + 1)
    OBVIOUS
  <2>1. Good(k)
    BY <1>5
  <2>2. k + 1 \in 1 .. n /\ (k + 1) - 1 = k
    BY <1>1
  <2>3. PICK s \in Seq(Nat) : s = st[k]
    BY <2>1
  <2>4. Len(s) = k + 1 /\ s[1] = 0 /\ \A j \in 1 .. k : s[j + 1] = s[j] + f[j].size
    BY <2>1, <2>3
  <2>5. s[k + 1] \in Nat
    BY <2>3, <2>4, ElementOfSeq
  <2>6. PICK x \in Nat : x = s[k + 1] + f[k + 1].size
    BY <1>1, <2>2, <2>5
  <2>7. st[k + 1] = Append(s, x)
    BY <1>2, <2>2, <2>3, <2>4, <2>6 DEF EndsStep, Last
  <2>8. PICK t : t = Append(s, x)
    OBVIOUS
  <2>9. t \in Seq(Nat) /\ Len(t) = k + 2 /\ t[k + 2] = x /\ \A i \in 1 .. k + 1 : t[i] = s[i]
    BY <2>3, <2>4, <2>6, <2>8, AppendProperties
  <2>10. ASSUME NEW j \in 1 .. k + 1 PROVE t[j + 1] = t[j] + f[j].size
    <3>1. CASE j = k + 1
      BY <2>6, <2>9, <3>1
    <3>2. CASE j # k + 1
      BY <2>4, <2>9, <3>2
    <3> QED
      BY <3>1, <3>2
  <2> QED
    BY <2>4, <2>7, <2>8, <2>9, <2>10
<1>6. Good(n)
  <2>1. \A k \in Nat : k \in J
    <3> HIDE DEF J
    <3> QED
      BY <1>4, <1>5, Ends!CountUp
  <2> QED
    BY <1>1, <2>1
<1> HIDE DEF end
<1>7. /\ end \in Seq(Nat) /\ Len(end) = n + 1 /\ end[1] = 0
      /\ \A j \in 1 .. n : end[j + 1] = end[j] + f[j].size
      /\ \A j \in 1 .. n + 1 : end[j] \in Nat
  <2>1. \A j \in 1 .. n + 1 : end[j] \in Nat
    BY <1>1, <1>3, <1>6, ElementOfSeq
  <2> QED
    BY <1>3, <1>6, <2>1
<1>8. PICK e \in [0 .. n -> Nat] : \A i \in 0 .. n : e[i] = end[i + 1]
  <2>1. [i \in 0 .. n |-> end[i + 1]] \in [0 .. n -> Nat]
    BY <1>1, <1>7
  <2> QED
    BY <2>1
<1>9. e[0] = 0 /\ \A i \in 1 .. n : e[i] = e[i - 1] + f[i].size /\ e[i - 1] = end[i]
  <2>1. ASSUME NEW i \in 1 .. n PROVE e[i] = e[i - 1] + f[i].size /\ e[i - 1] = end[i]
    BY <1>1, <1>7, <1>8
  <2> QED
    BY <1>1, <1>7, <1>8, <2>1
<1>10. \A i, j \in 0 .. n : i < j => e[i] < e[j]
  <2>1. ASSUME NEW i \in 1 .. n PROVE e[i - 1] < e[i]
    BY <1>1, <1>8, <1>9
  <2>2. \A i \in 0 .. n : e[i] \in Nat
    BY <1>8
  <2> QED
    BY <1>1, <2>1, <2>2, Increasing
<1>11. Bytes(f) = [len |-> Last(end),
                   at |-> [o \in {end[i] : i \in DOMAIN f} |->
                             f[CHOOSE i \in DOMAIN f : end[i] = o]]]
  BY DEF Bytes, end
<1>12. Bytes(f).len = e[n]
  BY <1>1, <1>7, <1>8, <1>11 DEF Last
<1>13. ASSUME NEW i \in 1 .. n
       PROVE  e[i - 1] \in DOMAIN Bytes(f).at /\ Bytes(f).at[e[i - 1]] = f[i]
  <2>1. \A j \in 1 .. n : end[j] = end[i] => j = i
    <3> SUFFICES ASSUME NEW j \in 1 .. n, end[j] = end[i], j # i PROVE FALSE
      OBVIOUS
    <3>1. e[j - 1] = e[i - 1] /\ i - 1 \in 0 .. n /\ j - 1 \in 0 .. n /\ e[i - 1] \in Nat
      BY <1>1, <1>8, <1>9
    <3>2. i - 1 < j - 1 \/ j - 1 < i - 1
      BY <1>1
    <3> QED
      BY <1>10, <3>1, <3>2
  <2>2. (CHOOSE k \in 1 .. n : end[k] = end[i]) = i
    BY <2>1
  <2>3. end[i] \in {end[k] : k \in 1 .. n}
    OBVIOUS
  <2> DEFINE start == {end[k] : k \in 1 .. n}
             which(o) == CHOOSE k \in 1 .. n : end[k] = o
  <2>4. Bytes(f).at = [o \in start |-> f[which(o)]]
    BY <1>1, <1>11
  <2>5. end[i] \in start /\ which(end[i]) = i
    BY <2>2, <2>3
  <2> HIDE DEF start, which
  <2> QED
    BY <1>9, <2>4, <2>5
<1>14. e[n] \in Nat
  BY <1>1, <1>8
<1> QED
  BY <1>8, <1>9, <1>12, <1>13, <1>14 DEF Laid, Offsets, Standing

(* Fields laid one after the other, in two parts. *)
LEMMA LaidSplit ==
  ASSUME NEW S, NEW a \in Seq(S), NEW b \in Seq(S), NEW p, NEW o, NEW o2,
         Laid(p, o, a \o b, o2)
  PROVE  \E m \in Nat : Laid(p, o, a, m) /\ Laid(p, m, b, o2)
<1> DEFINE n == Len(a)
           k == Len(b)
<1>1. n \in Nat /\ k \in Nat
  BY LenProperties
<1>2. PICK f : f = a \o b
  OBVIOUS
<1>3. /\ Len(f) = n + k
      /\ \A i \in 1 .. n : f[i] = a[i]
      /\ \A i \in 1 .. k : f[n + i] = b[i]
  <2>1. \A i \in 1 .. n + k : f[i] = IF i <= n THEN a[i] ELSE b[i - n]
    BY <1>2, ConcatProperties
  <2>2. Len(f) = n + k
    BY <1>2, ConcatProperties
  <2>3. ASSUME NEW i \in 1 .. n PROVE f[i] = a[i]
    BY <1>1, <2>1
  <2>4. ASSUME NEW i \in 1 .. k PROVE f[n + i] = b[i]
    <3>1. n + i \in 1 .. n + k /\ ~ (n + i <= n) /\ (n + i) - n = i
      BY <1>1
    <3> QED
      BY <2>1, <3>1
  <2> QED
    BY <2>2, <2>3, <2>4
<1>4. PICK e \in [0 .. Len(f) -> Nat] :
        e[0] = o /\ e[Len(f)] = o2 /\ Offsets(f, e) /\ Standing(p, f, e)
  BY <1>2 DEF Laid
<1>5. \A i \in 1 .. n + k : /\ e[i] = e[i - 1] + f[i].size
                            /\ e[i - 1] \in DOMAIN p.at /\ p.at[e[i - 1]] = f[i]
  BY <1>3, <1>4 DEF Offsets, Standing
<1>6. \A i \in 0 .. n + k : e[i] \in Nat
  BY <1>3, <1>4
<1> HIDE DEF n, k
<1>7. PICK ea \in [0 .. n -> Nat] : \A i \in 0 .. n : ea[i] = e[i]
  <2>1. [i \in 0 .. n |-> e[i]] \in [0 .. n -> Nat]
    BY <1>1, <1>6
  <2> QED
    BY <2>1
<1>8. PICK eb \in [0 .. k -> Nat] : \A i \in 0 .. k : eb[i] = e[n + i]
  <2>1. [i \in 0 .. k |-> e[n + i]] \in [0 .. k -> Nat]
    BY <1>1, <1>6
  <2> QED
    BY <2>1
<1>9. ASSUME NEW i \in 1 .. n
      PROVE  /\ ea[i] = ea[i - 1] + a[i].size
             /\ ea[i - 1] \in DOMAIN p.at /\ p.at[ea[i - 1]] = a[i]
  <2>1. i - 1 \in 0 .. n /\ i \in 0 .. n /\ i \in 1 .. n + k
    BY <1>1
  <2>2. ea[i] = e[i] /\ ea[i - 1] = e[i - 1] /\ f[i] = a[i]
    BY <1>3, <1>7, <2>1
  <2> QED
    BY <1>5, <2>1, <2>2
<1>10. ASSUME NEW i \in 1 .. k
       PROVE  /\ eb[i] = eb[i - 1] + b[i].size
              /\ eb[i - 1] \in DOMAIN p.at /\ p.at[eb[i - 1]] = b[i]
  <2>1. n + i \in 1 .. n + k /\ (n + i) - 1 = n + (i - 1) /\ i - 1 \in 0 .. k /\ i \in 0 .. k
    BY <1>1
  <2>2. eb[i] = e[n + i] /\ eb[i - 1] = e[(n + i) - 1] /\ f[n + i] = b[i]
    BY <1>3, <1>8, <2>1
  <2> QED
    BY <1>5, <2>1, <2>2
<1>11. Laid(p, o, a, e[n])
  <2>1. ea[0] = o /\ ea[n] = e[n] /\ Offsets(a, ea) /\ Standing(p, a, ea)
    BY <1>1, <1>4, <1>7, <1>9 DEF Offsets, Standing, n
  <2> QED
    BY <2>1 DEF Laid, n
<1>12. Laid(p, e[n], b, o2)
  <2>1. eb[0] = e[n] /\ eb[k] = o2 /\ Offsets(b, eb) /\ Standing(p, b, eb)
    BY <1>1, <1>3, <1>4, <1>8, <1>10 DEF Offsets, Standing, k
  <2> QED
    BY <2>1 DEF Laid, k
<1>13. e[n] \in Nat
  BY <1>1, <1>6
<1> QED
  BY <1>11, <1>12, <1>13

(* A field that stands at an offset, and fields of one size c. *)
Holds(p, o, x) == o \in DOMAIN p.at /\ p.at[o] = x

EvenAt(p, o, f, c, o2) ==
  /\ o2 = o + c * Len(f)
  /\ \A i \in 1 .. Len(f) : Holds(p, o + c * (i - 1), f[i])

(* Fields of one size stand at even distances. *)
LEMMA LaidEven ==
  ASSUME NEW S, NEW f \in Seq(S), NEW c \in Nat, \A i \in 1 .. Len(f) : f[i].size = c,
         NEW p, NEW o \in Nat, NEW o2, Laid(p, o, f, o2)
  PROVE  EvenAt(p, o, f, c, o2)
<1> DEFINE n == Len(f)
<1>1. n \in Nat
  BY LenProperties
<1>2. PICK e \in [0 .. n -> Nat] :
        e[0] = o /\ e[n] = o2 /\ Offsets(f, e) /\ Standing(p, f, e)
  BY DEF Laid
<1>3. \A i \in 1 .. n : /\ e[i] = e[i - 1] + c
                        /\ e[i - 1] \in DOMAIN p.at /\ p.at[e[i - 1]] = f[i]
  BY <1>2 DEF Offsets, Standing
<1> HIDE DEF n
<1> DEFINE J == {k \in Nat : k <= n => e[k] = o + c * k}
<1>4. 0 \in J
  <2>1. c * 0 = 0
    OBVIOUS
  <2> QED
    BY <1>2, <2>1
<1>5. ASSUME NEW k \in Nat, k \in J PROVE k + 1 \in J
  <2> SUFFICES ASSUME k + 1 <= n PROVE e[k + 1] = o + c * (k + 1)
    OBVIOUS
  <2>1. k + 1 \in 1 .. n /\ (k + 1) - 1 = k
    BY <1>1
  <2>2. e[k + 1] = e[k] + c /\ e[k] = o + c * k
    BY <1>1, <1>3, <1>5, <2>1
  <2>3. PICK m \in Nat : m = c * k /\ c * (k + 1) = m + c
    <3>1. c * k \in Nat /\ c * (k + 1) = c * k + c
      OBVIOUS
    <3> QED
      BY <3>1
  <2> QED
    BY <2>2, <2>3
<1>6. \A k \in 0 .. n : e[k] = o + c * k
  <2>1. \A k \in Nat : k \in J
    <3> HIDE DEF J
    <3> QED
      BY <1>4, <1>5, Ends!CountUp
  <2> QED
    BY <1>1, <2>1
<1>7. o2 = o + c * n
  BY <1>1, <1>2, <1>6
<1>8. ASSUME NEW i \in 1 .. n
      PROVE Holds(p, o + c * (i - 1), f[i])
  <2>1. i - 1 \in 0 .. n
    BY <1>1
  <2>2. e[i - 1] = o + c * (i - 1)
    BY <1>6, <2>1
  <2> QED
    BY <1>3, <2>2 DEF Holds
<1> QED
  BY <1>7, <1>8 DEF n, EvenAt

(* Sequences of sequences, one after the other. *)
LEMMA Flattened ==
  ASSUME NEW ss, NEW m \in Nat \ {0}, Len(ss) = m
  PROVE  \E fl : /\ fl[1] = ss[1] /\ FlattenSeq(ss) = fl[m]
                 /\ \A j \in 1 .. m : j # 1 => fl[j] = fl[j - 1] \o ss[j]
<1> DEFINE Joining(g, j) == IF j = 1 THEN ss[j] ELSE g[j - 1] \o ss[j]
           Upto(k) == \E g : g = [j \in 1 .. k |-> Joining(g, j)]
           K == {k \in Nat : Upto(k)}
<1>1. 0 \in K
  <2>1. PICK g : g = [j \in 1 .. 0 |-> 0]
    OBVIOUS
  <2>2. g = [j \in 1 .. 0 |-> Joining(g, j)]
    BY <2>1
  <2> QED
    BY <2>2
<1>2. ASSUME NEW k \in Nat, k \in K PROVE k + 1 \in K
  <2>1. PICK g : g = [j \in 1 .. k |-> Joining(g, j)]
    BY <1>2
  <2>2. PICK h : h = [j \in 1 .. k + 1 |->
                        IF j = k + 1 THEN Joining(g, k + 1) ELSE g[j]]
    OBVIOUS
  <2>3. ASSUME NEW j \in 1 .. k + 1 PROVE h[j] = Joining(h, j)
    <3>0. j = 1 \/ (j - 1 \in 1 .. k + 1 /\ j - 1 # k + 1 /\ j - 1 \in 1 .. k)
      OBVIOUS
    <3>1. j # 1 => h[j - 1] = g[j - 1]
      BY <2>2, <3>0
    <3>2. CASE j = k + 1
      BY <2>2, <3>1, <3>2
    <3>3. CASE j # k + 1
      <4>1. j \in 1 .. k
        BY <3>3
      <4>2. h[j] = g[j] /\ g[j] = Joining(g, j)
        BY <2>1, <2>2, <3>3, <4>1
      <4> QED
        BY <3>1, <4>2
    <3> QED
      BY <3>2, <3>3
  <2> HIDE DEF Joining
  <2>4. h = [j \in 1 .. k + 1 |-> Joining(h, j)]
    BY <2>2, <2>3
  <2> QED
    BY <2>4
<1>3. Upto(m)
  <2> HIDE DEF K
  <2>1. \A k \in Nat : k \in K
    BY <1>1, <1>2, Ends!CountUp
  <2> QED
    BY <2>1 DEF K
<1> DEFINE fl == CHOOSE g : g = [j \in 1 .. m |-> Joining(g, j)]
<1>4. fl = [j \in 1 .. m |-> Joining(fl, j)]
  <2> HIDE DEF Joining
  <2> QED
    BY <1>3
<1>5. FlattenSeq(ss) = fl[m]
  BY DEF FlattenSeq
<1> HIDE DEF fl
<1>6. \A j \in 1 .. m : fl[j] = Joining(fl, j)
  BY <1>4
<1>7. fl[1] = ss[1] /\ \A j \in 1 .. m : j # 1 => fl[j] = fl[j - 1] \o ss[j]
  <2>1. 1 \in 1 .. m
    OBVIOUS
  <2>2. fl[1] = ss[1]
    BY <1>6, <2>1
  <2>3. ASSUME NEW j \in 1 .. m, j # 1 PROVE fl[j] = fl[j - 1] \o ss[j]
    <3>1. fl[j] = IF j = 1 THEN ss[j] ELSE fl[j - 1] \o ss[j]
      BY <1>6
    <3> QED
      BY <2>3, <3>1, Zenon
  <2> QED
    BY <2>2, <2>3, Zenon
<1> QED
  BY <1>5, <1>7

(* Where each of the first m parts of what is laid begins. *)
Bases(p, o, ss, m, o2, base) ==
  /\ base[0] = o /\ base[m] = o2 /\ \A j \in 0 .. m : base[j] \in Nat
  /\ \A j \in 1 .. m : Laid(p, base[j - 1], ss[j], base[j])

(* What is laid in parts has each part behind the one before. *)
LEMMA LaidFlat ==
  ASSUME NEW S, NEW ss \in Seq(Seq(S)), NEW m \in Nat \ {0}, Len(ss) = m
  PROVE  /\ FlattenSeq(ss) \in Seq(S)
         /\ \A p, o2 : \A o \in Nat : Laid(p, o, FlattenSeq(ss), o2) =>
              \E base : Bases(p, o, ss, m, o2, base)
<1>1. PICK fl : /\ fl[1] = ss[1] /\ FlattenSeq(ss) = fl[m]
                /\ \A j \in 1 .. m : j # 1 => fl[j] = fl[j - 1] \o ss[j]
  BY Flattened
<1>2. \A j \in 1 .. m : ss[j] \in Seq(S)
  BY ElementOfSeq
<1> DEFINE J == {k \in Nat : k + 1 <= m => fl[k + 1] \in Seq(S)}
<1>3. \A k \in Nat : k \in J
  <2>1. 0 \in J
    BY <1>1, <1>2
  <2>2. ASSUME NEW k \in Nat, k \in J PROVE k + 1 \in J
    <3> SUFFICES ASSUME (k + 1) + 1 <= m PROVE fl[(k + 1) + 1] \in Seq(S)
      OBVIOUS
    <3>1. PICK j \in 1 .. m : j = (k + 1) + 1 /\ j # 1 /\ j - 1 = k + 1
      OBVIOUS
    <3>2. fl[j] = fl[j - 1] \o ss[j] /\ fl[j - 1] \in Seq(S) /\ ss[j] \in Seq(S)
      <4>1. fl[k + 1] \in Seq(S)
        <5>1. k + 1 <= m
          OBVIOUS
        <5> QED
          BY <2>2, <5>1
      <4>2. fl[j] = fl[j - 1] \o ss[j]
        BY <1>1, <3>1
      <4> QED
        BY <1>2, <3>1, <4>1, <4>2
    <3>3. fl[j] \in Seq(S)
      BY <3>2, ConcatProperties
    <3> QED
      BY <3>1, <3>3
  <2> HIDE DEF J
  <2> QED
    BY <2>1, <2>2, Ends!CountUp
<1>4. ASSUME NEW k \in 1 .. m PROVE fl[k] \in Seq(S)
  <2>1. k - 1 \in Nat /\ (k - 1) + 1 = k
    OBVIOUS
  <2>2. k - 1 \in J
    BY <1>3, <2>1
  <2> QED
    BY <2>1, <2>2
<1> HIDE DEF J
<1>5. ASSUME NEW p, NEW o \in Nat, NEW o2, Laid(p, o, fl[m], o2)
      PROVE \E base : Bases(p, o, ss, m, o2, base)
  <2> DEFINE B(k) == \A z : Laid(p, o, fl[k], z) => \E base : Bases(p, o, ss, k, z, base)
             L == {k \in Nat : k + 1 <= m => B(k + 1)}
  <2>1. ASSUME NEW f \in Seq(S), NEW x, NEW z, Laid(p, x, f, z) PROVE z \in Nat
    BY <2>1, LenProperties DEF Laid
  <2>2. 0 \in L
    <3> SUFFICES ASSUME NEW z, Laid(p, o, fl[1], z) PROVE \E base : Bases(p, o, ss, 1, z, base)
      OBVIOUS
    <3>1. z \in Nat /\ Laid(p, o, ss[1], z)
      BY <1>1, <1>2, <2>1
    <3>2. PICK base : base = [j \in 0 .. 1 |-> IF j = 0 THEN o ELSE z]
      OBVIOUS
    <3>3. base[0] = o /\ base[1] = z
      BY <3>2
    <3>4. ASSUME NEW j \in 1 .. 1 PROVE Laid(p, base[j - 1], ss[j], base[j])
      <4>1. j = 1 /\ j - 1 = 0
        OBVIOUS
      <4> QED
        BY <3>1, <3>3, <4>1
    <3>5. ASSUME NEW j \in 0 .. 1 PROVE base[j] \in Nat
      BY <3>1, <3>2
    <3> QED
      BY <3>3, <3>4, <3>5 DEF Bases
  <2>3. ASSUME NEW k \in Nat, k \in L PROVE k + 1 \in L
    <3> SUFFICES ASSUME (k + 1) + 1 <= m, NEW z, Laid(p, o, fl[(k + 1) + 1], z)
                 PROVE  \E base : Bases(p, o, ss, (k + 1) + 1, z, base)
      OBVIOUS
    <3>1. PICK j \in 1 .. m : j = (k + 1) + 1 /\ j # 1 /\ j - 1 = k + 1 /\ j - 1 \in 1 .. m
      OBVIOUS
    <3>2. PICK x \in Nat : Laid(p, o, fl[j - 1], x) /\ Laid(p, x, ss[j], z)
      <4>1. fl[j] = fl[j - 1] \o ss[j] /\ fl[j - 1] \in Seq(S) /\ ss[j] \in Seq(S)
        BY <1>1, <1>2, <1>4, <3>1
      <4>2. PICK a \in Seq(S) : a = fl[j - 1]
        BY <4>1
      <4>3. Laid(p, o, a \o ss[j], z)
        BY <3>1, <4>1, <4>2
      <4> QED
        BY <4>1, <4>2, <4>3, LaidSplit
    <3>3. z \in Nat
      BY <1>2, <2>1, <3>1, <3>2
    <3>4. PICK base : Bases(p, o, ss, k + 1, x, base)
      <4>1. B(k + 1)
        <5> HIDE DEF B
        <5>1. k + 1 <= m
          OBVIOUS
        <5> QED
          BY <2>3, <5>1
      <4> QED
        BY <3>1, <3>2, <4>1
    <3>5. PICK more : more = [i \in 0 .. j |-> IF i = j THEN z ELSE base[i]]
      OBVIOUS
    <3>6. more[j] = z /\ \A i \in 0 .. k + 1 : more[i] = base[i]
      BY <3>1, <3>5
    <3>7. ASSUME NEW i \in 0 .. j PROVE more[i] \in Nat
      <4>1. i = j \/ i \in 0 .. k + 1
        BY <3>1
      <4> QED
        BY <3>3, <3>4, <3>6, <4>1 DEF Bases
    <3>8. ASSUME NEW i \in 1 .. j PROVE Laid(p, more[i - 1], ss[i], more[i])
      <4>1. CASE i = j
        <5>1. i - 1 = k + 1 /\ k + 1 \in 0 .. k + 1
          BY <3>1, <4>1
        <5>2. more[i - 1] = x /\ more[i] = z
          BY <3>4, <3>6, <4>1, <5>1 DEF Bases
        <5> QED
          BY <3>2, <4>1, <5>2
      <4>2. CASE i # j
        <5>1. i \in 1 .. k + 1 /\ i \in 0 .. k + 1 /\ i - 1 \in 0 .. k + 1
          BY <3>1, <4>2
        <5>2. more[i - 1] = base[i - 1] /\ more[i] = base[i]
          BY <3>6, <5>1
        <5> QED
          BY <3>4, <5>1, <5>2 DEF Bases
      <4> QED
        BY <4>1, <4>2
    <3>9. more[0] = o
      <4>1. 0 \in 0 .. k + 1
        OBVIOUS
      <4> QED
        BY <3>4, <3>6, <4>1 DEF Bases
    <3> QED
      BY <3>1, <3>6, <3>7, <3>8, <3>9 DEF Bases
  <2>4. B(m)
    <3>1. \A k \in Nat : k \in L
      <4> HIDE DEF L
      <4> QED
        BY <2>2, <2>3, Ends!CountUp
    <3>2. m - 1 \in Nat /\ (m - 1) + 1 = m
      OBVIOUS
    <3>3. m - 1 \in L
      BY <3>1, <3>2
    <3> HIDE DEF B
    <3> QED
      BY <3>2, <3>3
  <2> QED
    BY <1>5, <2>4
<1>6. FlattenSeq(ss) \in Seq(S)
  BY <1>1, <1>4
<1>7. FlattenSeq(ss) = fl[m]
  BY <1>1
<1> QED
  BY <1>5, <1>6, <1>7

-----------------------------------------------------------------------------
(* What is read of a payload that was cut. *)
LEMMA ReadCut ==
  ASSUME NEW p, NEW o \in Nat, NEW x, x.size \in Nat, Holds(p, o, x),
         NEW n \in Nat, o + x.size <= n
  PROVE  Read(Cut(p, n), o, x.size) = x /\ Value(Cut(p, n), o, x.size) = x.val
BY DEF Holds, Read, Cut, Value

(* A single field. *)
LEMMA LaidOne ==
  ASSUME NEW x, x.size \in Nat, NEW p, NEW o \in Nat, NEW o2, Laid(p, o, <<x>>, o2)
  PROVE  Holds(p, o, x) /\ o2 = o + x.size
<1>1. Len(<<x>>) = 1 /\ <<x>>[1] = x
  OBVIOUS
<1>2. PICK e \in [0 .. 1 -> Nat] :
        e[0] = o /\ e[1] = o2 /\ Offsets(<<x>>, e) /\ Standing(p, <<x>>, e)
  BY <1>1 DEF Laid
<1>3. 1 \in 1 .. 1 /\ 1 - 1 = 0
  OBVIOUS
<1>4. e[1] = e[0] + x.size /\ e[0] \in DOMAIN p.at /\ p.at[e[0]] = x
  BY <1>1, <1>2, <1>3 DEF Offsets, Standing
<1> QED
  BY <1>2, <1>4 DEF Holds

(* Two fields. *)
LEMMA LaidPair ==
  ASSUME NEW x, x.size \in Nat, NEW y, y.size \in Nat, NEW f, f = <<x, y>>,
         NEW p, NEW o \in Nat, NEW o2, Laid(p, o, f, o2)
  PROVE  Holds(p, o, x) /\ Holds(p, o + x.size, y) /\ o2 = o + x.size + y.size
<1>1. <<x>> \in Seq({x, y}) /\ <<y>> \in Seq({x, y}) /\ <<x, y>> = <<x>> \o <<y>>
  OBVIOUS
<1>2. PICK m \in Nat : Laid(p, o, <<x>>, m) /\ Laid(p, m, <<y>>, o2)
  <2>1. Laid(p, o, <<x>> \o <<y>>, o2)
    BY <1>1
  <2> QED
    BY <1>1, <2>1, LaidSplit
<1>3. Holds(p, o, x) /\ m = o + x.size
  BY <1>2, LaidOne
<1>4. Holds(p, m, y) /\ o2 = m + y.size
  BY <1>2, LaidOne
<1> QED
  BY <1>3, <1>4

-----------------------------------------------------------------------------
(* Layouts: any number of blocks, of channels of any names. *)
Names == Labels \cup {"VA", "", "IA", "MW"}

Kinds ==
  {"timebase", "station", "id", "format", "count", "name", "bit", "unit", "fnom", "cfgcnt",
   "rate", "stat", "magnitude", "angle", "freq", "rocof", "analog", "digital"}

Fields == [size : Nat \ {0}, kind : Kinds, val : Int \cup Formats \cup Names]

AnyBlock == [format : Formats, phasors : Seq(Names), analogs : Seq(Names),
             dgnmr : Nat, fnomWord : {0, 1}]

AnyLayout == [timeBase : Nat, dataRate : Nat, blocks : Seq(AnyBlock) \ {<<>>}]

(* A field's parts. *)
LEMMA FieldSize == \A size, kind, val : Field(size, kind, val).size = size
BY DEF Field

(* Channels of a block, in the order of their names. *)
Channel(b, i) ==
  LET ph == Len(b.phasors)
      an == Len(b.analogs)
  IN IF i <= ph THEN Field(16, "name", b.phasors[i])
     ELSE IF i <= ph + an THEN Field(16, "name", b.analogs[i - ph])
     ELSE Field(16, "bit", i - ph - an)

Channels(b) == ChannelCount(Len(b.phasors), Len(b.analogs), b.dgnmr)

(* Where a block that begins at o ends. *)
BlockEnd(b, o) ==
  o + 30 + 16 * Channels(b) + 4 * (Len(b.phasors) + Len(b.analogs) + b.dgnmr)

(* The counts of a block. *)
LEMMA BlockNumbers ==
  ASSUME NEW b \in AnyBlock
  PROVE  /\ Len(b.phasors) \in Nat /\ Len(b.analogs) \in Nat /\ b.dgnmr \in Nat
         /\ Channels(b) \in Nat
         /\ Channels(b) = Len(b.phasors) + Len(b.analogs) + 16 * b.dgnmr
         /\ b.format \in Formats /\ b.fnomWord \in {0, 1} /\ b.fnomWord \in Int
         /\ b.phasors \in Seq(Names) /\ b.analogs \in Seq(Names)
BY LenProperties DEF AnyBlock, Channels, ChannelCount

HeadFields(b) ==
  <<Field(16, "station", 1), Field(2, "id", 7), Field(2, "format", b.format),
    Field(2, "count", Len(b.phasors)), Field(2, "count", Len(b.analogs)),
    Field(2, "count", b.dgnmr)>>

NameFields(names) == [i \in 1 .. Len(names) |-> Field(16, "name", names[i])]

EndFields(b) == <<Field(2, "fnom", b.fnomWord), Field(2, "cfgcnt", 0)>>

(* The fields of a block, part by part. *)
LEMMA BlockFieldsAre ==
  ASSUME NEW b \in AnyBlock
  PROVE  BlockFields(b) =
           HeadFields(b) \o NameFields(b.phasors) \o NameFields(b.analogs)
             \o Each(16 * b.dgnmr, 16, "bit")
             \o Each(Len(b.phasors) + Len(b.analogs) + b.dgnmr, 4, "unit") \o EndFields(b)
BY DEF BlockFields, HeadFields, NameFields, EndFields

(* Numbered fields. *)
LEMMA EachTyped ==
  ASSUME NEW n \in Nat, NEW size \in Nat \ {0}, NEW kind \in Kinds
  PROVE  /\ Each(n, size, kind) \in Seq(Fields) /\ Len(Each(n, size, kind)) = n
         /\ \A i \in 1 .. n : Each(n, size, kind)[i] = Field(size, kind, i)
<1>1. \A i \in 1 .. n : Field(size, kind, i) \in Fields
  BY DEF Fields, Field
<1>2. PICK s : s = [i \in 1 .. n |-> Field(size, kind, i)]
  OBVIOUS
<1>3. s \in Seq(Fields)
  <2>1. s \in [1 .. n -> Fields]
    BY <1>1, <1>2
  <2> QED
    BY <2>1
<1>4. Len(s) = n
  BY <1>2, <1>3, LenProperties
<1> QED
  BY <1>2, <1>3, <1>4 DEF Each

(* Name fields. *)
LEMMA NamesTyped ==
  ASSUME NEW names \in Seq(Names)
  PROVE  /\ NameFields(names) \in Seq(Fields) /\ Len(NameFields(names)) = Len(names)
         /\ \A i \in 1 .. Len(names) : NameFields(names)[i] = Field(16, "name", names[i])
<1>0. Len(names) \in Nat
  BY LenProperties
<1>1. ASSUME NEW i \in 1 .. Len(names) PROVE Field(16, "name", names[i]) \in Fields
  <2>1. names[i] \in Names
    BY ElementOfSeq
  <2> QED
    BY <2>1 DEF Fields, Field, Kinds
<1>2. [i \in 1 .. Len(names) |-> Field(16, "name", names[i])] \in Seq(Fields)
  BY <1>0, <1>1, IsASeq
<1> QED
  BY <1>0, <1>2 DEF NameFields

(* The six fields that a block begins with. *)
LEMMA HeadTyped ==
  ASSUME NEW b \in AnyBlock
  PROVE  HeadFields(b) \in Seq(Fields) /\ EndFields(b) \in Seq(Fields)
<1>1. /\ Field(16, "station", 1) \in Fields /\ Field(2, "id", 7) \in Fields
      /\ Field(2, "format", b.format) \in Fields
      /\ Field(2, "count", Len(b.phasors)) \in Fields
      /\ Field(2, "count", Len(b.analogs)) \in Fields
      /\ Field(2, "count", b.dgnmr) \in Fields
      /\ Field(2, "fnom", b.fnomWord) \in Fields /\ Field(2, "cfgcnt", 0) \in Fields
  <2>1. /\ b.format \in Formats /\ Len(b.phasors) \in Int /\ Len(b.analogs) \in Int
        /\ b.dgnmr \in Int /\ b.fnomWord \in Int
    <3>1. b.format \in Formats /\ b.fnomWord \in Int
      BY BlockNumbers
    <3>2. Len(b.phasors) \in Nat /\ Len(b.analogs) \in Nat /\ b.dgnmr \in Nat
      BY BlockNumbers
    <3> QED
      BY <3>1, <3>2
  <2>2. /\ Field(16, "station", 1) \in Fields /\ Field(2, "id", 7) \in Fields
        /\ Field(2, "cfgcnt", 0) \in Fields
    BY DEF Fields, Field, Kinds
  <2>3. Field(2, "format", b.format) \in Fields
    BY <2>1 DEF Fields, Field, Kinds
  <2>4. \A n \in Int : Field(2, "count", n) \in Fields /\ Field(2, "fnom", n) \in Fields
    BY DEF Fields, Field, Kinds
  <2> QED
    BY <2>1, <2>2, <2>3, <2>4
<1> QED
  BY <1>1 DEF HeadFields, EndFields

(* The offsets of those six. *)
LEMMA LaidHead ==
  ASSUME NEW b \in AnyBlock, NEW p, NEW o \in Nat, NEW o2, Laid(p, o, HeadFields(b), o2)
  PROVE  /\ Holds(p, o + 16, Field(2, "id", 7))
         /\ Holds(p, o + 18, Field(2, "format", b.format))
         /\ Holds(p, o + 20, Field(2, "count", Len(b.phasors)))
         /\ Holds(p, o + 22, Field(2, "count", Len(b.analogs)))
         /\ Holds(p, o + 24, Field(2, "count", b.dgnmr))
         /\ o2 = o + 26
<1> DEFINE f == HeadFields(b)
<1>1. /\ Len(f) = 6 /\ f[1].size = 16 /\ f[2].size = 2 /\ f[3].size = 2 /\ f[4].size = 2
      /\ f[5].size = 2 /\ f[6].size = 2
      /\ f[2] = Field(2, "id", 7) /\ f[3] = Field(2, "format", b.format)
      /\ f[4] = Field(2, "count", Len(b.phasors)) /\ f[5] = Field(2, "count", Len(b.analogs))
      /\ f[6] = Field(2, "count", b.dgnmr)
  BY DEF HeadFields, Field
<1> HIDE DEF f
<1>2. PICK e \in [0 .. 6 -> Nat] :
        e[0] = o /\ e[6] = o2 /\ Offsets(f, e) /\ Standing(p, f, e)
  BY <1>1 DEF Laid, f
<1>3. \A i \in 1 .. 6 : /\ e[i] = e[i - 1] + f[i].size
                        /\ e[i - 1] \in DOMAIN p.at /\ p.at[e[i - 1]] = f[i]
  BY <1>1, <1>2 DEF Offsets, Standing
<1>3a. /\ e[1] = e[0] + 16 /\ e[2] = e[1] + 2 /\ e[3] = e[2] + 2 /\ e[4] = e[3] + 2
       /\ e[5] = e[4] + 2 /\ e[6] = e[5] + 2
       /\ Holds(p, e[1], f[2]) /\ Holds(p, e[2], f[3]) /\ Holds(p, e[3], f[4])
       /\ Holds(p, e[4], f[5]) /\ Holds(p, e[5], f[6])
  <2>1. /\ e[1] = e[1 - 1] + f[1].size /\ e[2] = e[2 - 1] + f[2].size
        /\ e[3] = e[3 - 1] + f[3].size /\ e[4] = e[4 - 1] + f[4].size
        /\ e[5] = e[5 - 1] + f[5].size /\ e[6] = e[6 - 1] + f[6].size
    BY <1>3
  <2>2. /\ Holds(p, e[2 - 1], f[2]) /\ Holds(p, e[3 - 1], f[3]) /\ Holds(p, e[4 - 1], f[4])
        /\ Holds(p, e[5 - 1], f[5]) /\ Holds(p, e[6 - 1], f[6])
    BY <1>3 DEF Holds
  <2>3. 1 - 1 = 0 /\ 2 - 1 = 1 /\ 3 - 1 = 2 /\ 4 - 1 = 3 /\ 5 - 1 = 4 /\ 6 - 1 = 5
    OBVIOUS
  <2> QED
    BY <1>1, <2>1, <2>2, <2>3
<1>4. e[1] = o + 16
  BY <1>2, <1>3a
<1>5. e[2] = o + 18 /\ Holds(p, o + 16, f[2])
  BY <1>3a, <1>4
<1>6. e[3] = o + 20 /\ Holds(p, o + 18, f[3])
  BY <1>3a, <1>5
<1>7. e[4] = o + 22 /\ Holds(p, o + 20, f[4])
  BY <1>3a, <1>6
<1>8. e[5] = o + 24 /\ Holds(p, o + 22, f[5])
  BY <1>3a, <1>7
<1>9. e[6] = o + 26 /\ Holds(p, o + 24, f[6])
  BY <1>3a, <1>8
<1> QED
  BY <1>1, <1>2, <1>5, <1>6, <1>7, <1>8, <1>9

(* What stands where in the block b that is laid from o on. *)
BlockHolds(p, b, o) ==
  /\ Holds(p, o + 16, Field(2, "id", 7))
  /\ Holds(p, o + 18, Field(2, "format", b.format))
  /\ Holds(p, o + 20, Field(2, "count", Len(b.phasors)))
  /\ Holds(p, o + 22, Field(2, "count", Len(b.analogs)))
  /\ Holds(p, o + 24, Field(2, "count", b.dgnmr))
  /\ \A i \in 1 .. Channels(b) : Holds(p, o + 10 + 16 * i, Channel(b, i))
  /\ Holds(p, BlockEnd(b, o) - 4, Field(2, "fnom", b.fnomWord))

(* Where everything of a block stands. *)
LEMMA BlockLaid ==
  ASSUME NEW b \in AnyBlock, NEW p, NEW o \in Nat, NEW o2, Laid(p, o, BlockFields(b), o2)
  PROVE  BlockHolds(p, b, o) /\ o2 = BlockEnd(b, o)
<1> DEFINE ph == Len(b.phasors)
           an == Len(b.analogs)
           dg == b.dgnmr
           A == HeadFields(b)
           B == NameFields(b.phasors)
           C == NameFields(b.analogs)
           D == Each(16 * dg, 16, "bit")
           E == Each(ph + an + dg, 4, "unit")
           F == EndFields(b)
<1>0. /\ ph \in Nat /\ an \in Nat /\ dg \in Nat /\ 16 * dg \in Nat /\ ph + an + dg \in Nat
      /\ Channels(b) = ph + an + 16 * dg
  <2> HIDE DEF B, C, D, E
  <2>1. ph \in Nat /\ an \in Nat /\ dg \in Nat /\ Channels(b) = ph + an + 16 * dg
    BY BlockNumbers
  <2> HIDE DEF ph, an, dg
  <2> QED
    BY <2>1
<1>0a. /\ b.phasors \in Seq(Names) /\ b.analogs \in Seq(Names)
       /\ "bit" \in Kinds /\ "unit" \in Kinds /\ 16 \in Nat \ {0} /\ 4 \in Nat \ {0}
  <2>1. "bit" \in Kinds /\ "unit" \in Kinds
    BY DEF Kinds
  <2>2. b.phasors \in Seq(Names) /\ b.analogs \in Seq(Names)
    BY BlockNumbers
  <2> QED
    BY <2>1, <2>2
<1>1a. B \in Seq(Fields) /\ Len(B) = ph /\ \A i \in 1 .. ph : B[i] = Field(16, "name", b.phasors[i])
  BY <1>0a, NamesTyped
<1>1b. C \in Seq(Fields) /\ Len(C) = an /\ \A i \in 1 .. an : C[i] = Field(16, "name", b.analogs[i])
  BY <1>0a, NamesTyped
<1>1c. D \in Seq(Fields) /\ Len(D) = 16 * dg /\ \A i \in 1 .. 16 * dg : D[i] = Field(16, "bit", i)
  BY <1>0, <1>0a, EachTyped
<1>1d. /\ E \in Seq(Fields) /\ Len(E) = ph + an + dg
       /\ \A i \in 1 .. ph + an + dg : E[i] = Field(4, "unit", i)
  BY <1>0, <1>0a, EachTyped
<1>1. /\ A \in Seq(Fields) /\ B \in Seq(Fields) /\ C \in Seq(Fields)
      /\ D \in Seq(Fields) /\ E \in Seq(Fields) /\ F \in Seq(Fields)
  BY <1>1a, <1>1b, <1>1c, <1>1d, HeadTyped
<1>2. BlockFields(b) = A \o B \o C \o D \o E \o F
  BY BlockFieldsAre
<1>3. /\ Len(B) = ph /\ \A i \in 1 .. ph : B[i] = Field(16, "name", b.phasors[i])
      /\ Len(C) = an /\ \A i \in 1 .. an : C[i] = Field(16, "name", b.analogs[i])
      /\ Len(D) = 16 * dg /\ \A i \in 1 .. 16 * dg : D[i] = Field(16, "bit", i)
      /\ Len(E) = ph + an + dg /\ \A i \in 1 .. ph + an + dg : E[i] = Field(4, "unit", i)
  BY <1>1a, <1>1b, <1>1c, <1>1d
<1>3a. /\ \A i \in 1 .. Len(B) : B[i].size = 16
       /\ \A i \in 1 .. Len(C) : C[i].size = 16
       /\ \A i \in 1 .. Len(D) : D[i].size = 16
       /\ \A i \in 1 .. Len(E) : E[i].size = 4
  <2> HIDE DEF B, C, D, E, ph, an, dg
  <2>1. ASSUME NEW i \in 1 .. ph PROVE B[i].size = 16
    BY <1>3, FieldSize
  <2>2. ASSUME NEW i \in 1 .. an PROVE C[i].size = 16
    BY <1>3, FieldSize
  <2>3. ASSUME NEW i \in 1 .. 16 * dg PROVE D[i].size = 16
    BY <1>3, FieldSize
  <2>4. ASSUME NEW i \in 1 .. ph + an + dg PROVE E[i].size = 4
    BY <1>3, FieldSize
  <2> QED
    BY <1>3, <2>1, <2>2, <2>3, <2>4
<1>4. PICK s, t, u, v, w :
        /\ s = A /\ t = A \o B /\ u = A \o B \o C /\ v = A \o B \o C \o D
        /\ w = A \o B \o C \o D \o E
  OBVIOUS
<1>5. /\ t = s \o B /\ u = t \o C /\ v = u \o D /\ w = v \o E /\ BlockFields(b) = w \o F
      /\ s = A
  BY <1>2, <1>4
<1> HIDE DEF ph, an, dg, A, B, C, D, E, F
<1>6. s \in Seq(Fields) /\ t \in Seq(Fields)
  BY <1>1, <1>5, ConcatProperties
<1>7. u \in Seq(Fields)
  BY <1>1, <1>5, <1>6, ConcatProperties
<1>8. v \in Seq(Fields)
  BY <1>1, <1>5, <1>7, ConcatProperties
<1>9. w \in Seq(Fields)
  BY <1>1, <1>5, <1>8, ConcatProperties
<1>10. PICK ow \in Nat : Laid(p, o, w, ow) /\ Laid(p, ow, F, o2)
  BY <1>1, <1>5, <1>9, LaidSplit
<1>11. PICK ov \in Nat : Laid(p, o, v, ov) /\ Laid(p, ov, E, ow)
  BY <1>1, <1>5, <1>8, <1>10, LaidSplit
<1>12. PICK ou \in Nat : Laid(p, o, u, ou) /\ Laid(p, ou, D, ov)
  BY <1>1, <1>5, <1>7, <1>11, LaidSplit
<1>13. PICK ot \in Nat : Laid(p, o, t, ot) /\ Laid(p, ot, C, ou)
  BY <1>1, <1>5, <1>6, <1>12, LaidSplit
<1>14. PICK os \in Nat : Laid(p, o, s, os) /\ Laid(p, os, B, ot)
  BY <1>1, <1>5, <1>6, <1>13, LaidSplit
<1>15. /\ Holds(p, o + 16, Field(2, "id", 7))
       /\ Holds(p, o + 18, Field(2, "format", b.format))
       /\ Holds(p, o + 20, Field(2, "count", ph))
       /\ Holds(p, o + 22, Field(2, "count", an))
       /\ Holds(p, o + 24, Field(2, "count", dg))
       /\ os = o + 26
  BY <1>5, <1>14, LaidHead DEF A, ph, an, dg
<1>16. ot = os + 16 * ph /\ \A i \in 1 .. ph : Holds(p, os + 16 * (i - 1), B[i])
  <2>1. EvenAt(p, os, B, 16, ot)
    BY <1>1, <1>3a, <1>14, LaidEven
  <2> QED
    BY <1>3, <2>1 DEF EvenAt
<1>17. ou = ot + 16 * an /\ \A i \in 1 .. an : Holds(p, ot + 16 * (i - 1), C[i])
  <2>1. EvenAt(p, ot, C, 16, ou)
    BY <1>1, <1>3a, <1>13, LaidEven
  <2> QED
    BY <1>3, <2>1 DEF EvenAt
<1>18. ov = ou + 16 * (16 * dg) /\ \A i \in 1 .. 16 * dg : Holds(p, ou + 16 * (i - 1), D[i])
  <2>1. EvenAt(p, ou, D, 16, ov)
    BY <1>1, <1>3a, <1>12, LaidEven
  <2> QED
    BY <1>3, <2>1 DEF EvenAt
<1>19. ow = ov + 4 * (ph + an + dg)
  <2>1. EvenAt(p, ov, E, 4, ow)
    BY <1>1, <1>3a, <1>11, LaidEven
  <2> QED
    BY <1>3, <2>1 DEF EvenAt
<1>20. Holds(p, ow, Field(2, "fnom", b.fnomWord)) /\ o2 = ow + 4
  <2>1. Field(2, "fnom", b.fnomWord).size = 2 /\ Field(2, "cfgcnt", 0).size = 2
    BY DEF Field
  <2> QED
    BY <1>10, <2>1, LaidPair DEF F, EndFields
<1>21. o2 = BlockEnd(b, o)
  <2>1. BlockEnd(b, o) = o + 30 + 16 * (ph + an + 16 * dg) + 4 * (ph + an + dg)
    BY <1>0 DEF BlockEnd, ph, an, dg
  <2>2. /\ os = o + 26 /\ ot = os + 16 * ph /\ ou = ot + 16 * an /\ ov = ou + 16 * (16 * dg)
        /\ ow = ov + 4 * (ph + an + dg) /\ o2 = ow + 4
    BY <1>15, <1>16, <1>17, <1>18, <1>19, <1>20
  <2> QED
    BY <1>0, <2>1, <2>2
<1>22. ASSUME NEW i \in 1 .. Channels(b) PROVE Holds(p, o + 10 + 16 * i, Channel(b, i))
  <2>1. CASE i <= ph
    <3>1. i \in 1 .. ph /\ os + 16 * (i - 1) = o + 10 + 16 * i
      BY <1>0, <1>15, <2>1
    <3>2. Channel(b, i) = B[i]
      BY <1>3, <2>1, <3>1 DEF Channel, ph
    <3> QED
      BY <1>16, <3>1, <3>2
  <2>2. CASE ~ (i <= ph) /\ i <= ph + an
    <3>1. i - ph \in 1 .. an /\ ot + 16 * ((i - ph) - 1) = o + 10 + 16 * i
      BY <1>0, <1>15, <1>16, <2>2
    <3>2. Channel(b, i) = C[i - ph]
      BY <1>3, <2>2, <3>1 DEF Channel, ph, an
    <3> QED
      BY <1>17, <3>1, <3>2
  <2>3. CASE ~ (i <= ph) /\ ~ (i <= ph + an)
    <3>1. i - ph - an \in 1 .. 16 * dg /\ ou + 16 * ((i - ph - an) - 1) = o + 10 + 16 * i
      BY <1>0, <1>15, <1>16, <1>17, <2>3
    <3>2. Channel(b, i) = D[i - ph - an]
      BY <1>3, <2>3, <3>1 DEF Channel, ph, an
    <3> QED
      BY <1>18, <3>1, <3>2
  <2> QED
    BY <2>1, <2>2, <2>3
<1>23. Holds(p, BlockEnd(b, o) - 4, Field(2, "fnom", b.fnomWord))
  BY <1>20, <1>21
<1> QED
  BY <1>15, <1>21, <1>22, <1>23 DEF BlockHolds, ph, an, dg

-----------------------------------------------------------------------------
(* What parseOnePMUBlock makes of a block. *)
Parts(id, format, phnmr, annmr, dgnmr, channels, fnom, next) ==
  [ok |-> TRUE, id |-> id, format |-> format, phnmr |-> phnmr, annmr |-> annmr,
   dgnmr |-> dgnmr, channels |-> channels, fnom |-> fnom, next |-> next]

BlockRead(b, o) ==
  Parts(7, b.format, Len(b.phasors), Len(b.analogs), b.dgnmr,
        [i \in 1 .. Channels(b) |-> Channel(b, i)], Fnom(b), BlockEnd(b, o))

(* How long a block is. *)
LEMMA BlockEnds ==
  ASSUME NEW b \in AnyBlock, NEW o \in Nat
  PROVE  /\ BlockEnd(b, o) \in Nat /\ BlockEnd(b, o) >= o + 30 + 16 * Channels(b)
         /\ o + 26 + 16 * Channels(b) + 4 * (Len(b.phasors) + Len(b.analogs) + b.dgnmr) =
            BlockEnd(b, o) - 4
<1>1. PICK ph \in Nat, an \in Nat, dg \in Nat, c \in Nat :
        ph = Len(b.phasors) /\ an = Len(b.analogs) /\ dg = b.dgnmr /\ c = Channels(b)
  BY BlockNumbers
<1>2. BlockEnd(b, o) = o + 30 + 16 * c + 4 * (ph + an + dg)
  BY <1>1 DEF BlockEnd
<1>3. PICK end : end = BlockEnd(b, o)
  OBVIOUS
<1>4. end \in Nat /\ end >= o + 30 + 16 * c /\ o + 26 + 16 * c + 4 * (ph + an + dg) = end - 4
  BY <1>2, <1>3
<1> QED
  BY <1>1, <1>3, <1>4

(* A name is 16 bytes. *)
LEMMA ChannelSize == \A b, i : Channel(b, i).size = 16
BY DEF Channel, Field

(* parseOnePMUBlock once what it reads of the block's head is known. *)
Parsed(p, o, id, format, phnmr, annmr, dgnmr, chnCount, units, fnom) ==
  IF p.len < o + 26 THEN Error
  ELSE IF p.len < units \/ p.len < fnom + 4 THEN Error
  ELSE Parts(id, format, phnmr, annmr, dgnmr,
             [i \in 1 .. chnCount |-> Read(p, o + 10 + 16 * i, 16)],
             IF Value(p, fnom, 2) % 2 = 1 THEN 50000 ELSE 60000, fnom + 4)

(* parseOnePMUBlock in its parts. *)
LEMMA Parse ==
  ASSUME NEW p, NEW o, NEW ph, NEW an, NEW dg, NEW c, NEW units, NEW fnom,
         NEW id, NEW format,
         id = Value(p, o + 16, 2), format = Value(p, o + 18, 2),
         ph = Value(p, o + 20, 2), an = Value(p, o + 22, 2), dg = Value(p, o + 24, 2),
         c = ChannelCount(ph, an, dg), units = o + 26 + 16 * c,
         fnom = units + 4 * (ph + an + dg)
  PROVE  parseOnePMUBlock(p, o) = Parsed(p, o, id, format, ph, an, dg, c, units, fnom)
<1>1. parseOnePMUBlock(p, o) =
        Parsed(p, o, Value(p, o + 16, 2), Value(p, o + 18, 2),
               Value(p, o + 20, 2), Value(p, o + 22, 2), Value(p, o + 24, 2),
               ChannelCount(Value(p, o + 20, 2), Value(p, o + 22, 2), Value(p, o + 24, 2)),
               o + 26 + 16 * ChannelCount(Value(p, o + 20, 2), Value(p, o + 22, 2), Value(p, o + 24, 2)),
               o + 26 + 16 * ChannelCount(Value(p, o + 20, 2), Value(p, o + 22, 2), Value(p, o + 24, 2))
                 + 4 * (Value(p, o + 20, 2) + Value(p, o + 22, 2) + Value(p, o + 24, 2)))
  BY SMT DEF parseOnePMUBlock, Parsed, Parts
<1> QED
  BY <1>1, Zenon

(* A block that does not fit is refused. *)
LEMMA ParsedShort ==
  ASSUME NEW p, NEW o, NEW ph, NEW an, NEW dg, NEW c, NEW units, NEW fnom,
         NEW id, NEW format, p.len < fnom + 4
  PROVE  Parsed(p, o, id, format, ph, an, dg, c, units, fnom) = Error
BY SMT DEF Parsed

(* A block that fits is taken. *)
LEMMA ParsedWhole ==
  ASSUME NEW p, NEW o, NEW ph, NEW an, NEW dg, NEW c, NEW units, NEW fnom,
         NEW id, NEW format, ~ (p.len < o + 26), ~ (p.len < units), ~ (p.len < fnom + 4)
  PROVE  Parsed(p, o, id, format, ph, an, dg, c, units, fnom) =
           Parts(id, format, ph, an, dg,
                 [i \in 1 .. c |-> Read(p, o + 10 + 16 * i, 16)],
                 IF Value(p, fnom, 2) % 2 = 1 THEN 50000 ELSE 60000, fnom + 4)
BY SMT DEF Parsed

(* A block of a payload that is cut at n bytes: it is read as it was laid, *)
(* or it is an error.                                                      *)
LEMMA BlockCut ==
  ASSUME NEW b \in AnyBlock, NEW p, NEW o \in Nat, BlockHolds(p, b, o), NEW n \in Nat
  PROVE  parseOnePMUBlock(Cut(p, n), o) =
           IF n < BlockEnd(b, o) THEN Error ELSE BlockRead(b, o)
<1>1. PICK q : q = Cut(p, n)
  OBVIOUS
<1>2. q.len = n
  BY <1>1 DEF Cut
<1>3. PICK ph, an, dg, c, end :
        /\ ph = Len(b.phasors) /\ an = Len(b.analogs) /\ dg = b.dgnmr /\ c = Channels(b)
        /\ end = BlockEnd(b, o)
  OBVIOUS
<1>3a. ph \in Nat /\ an \in Nat /\ dg \in Nat /\ c \in Nat
  BY <1>3, BlockNumbers
<1>3b. /\ end \in Nat /\ end >= o + 30 + 16 * c
       /\ o + 26 + 16 * c + 4 * (ph + an + dg) = end - 4
  BY <1>3, BlockEnds
<1>4. CASE n < o + 26
  <2>1. parseOnePMUBlock(q, o) = Error
    BY <1>2, <1>4 DEF parseOnePMUBlock
  <2> QED
    BY <1>1, <1>3, <1>3a, <1>3b, <1>4, <2>1
<1>5. CASE n >= o + 26
  <2>1. /\ Value(q, o + 16, 2) = 7 /\ Value(q, o + 18, 2) = b.format
        /\ Value(q, o + 20, 2) = ph /\ Value(q, o + 22, 2) = an /\ Value(q, o + 24, 2) = dg
    <3>1. ASSUME NEW k \in Nat, k <= o + 24, NEW kind, NEW val, Holds(p, k, Field(2, kind, val))
          PROVE  Value(q, k, 2) = val
      <4>0. PICK x : x = Field(2, kind, val)
        OBVIOUS
      <4>1. x.size = 2 /\ x.val = val
        BY <4>0 DEF Field
      <4>2a. k + 2 <= n
        BY <1>5, <3>1
      <4>2. k + x.size <= n /\ x.size \in Nat
        BY <4>1, <4>2a
      <4>2b. Holds(p, k, x)
        BY <3>1, <4>0
      <4>3. Value(Cut(p, n), k, x.size) = x.val
        BY <4>2, <4>2b DEF Holds, Read, Cut, Value
      <4> QED
        BY <1>1, <4>1, <4>3
    <3>2. /\ Holds(p, o + 16, Field(2, "id", 7))
          /\ Holds(p, o + 18, Field(2, "format", b.format))
          /\ Holds(p, o + 20, Field(2, "count", ph))
          /\ Holds(p, o + 22, Field(2, "count", an))
          /\ Holds(p, o + 24, Field(2, "count", dg))
      BY <1>3 DEF BlockHolds
    <3>3. /\ o + 16 \in Nat /\ o + 18 \in Nat /\ o + 20 \in Nat /\ o + 22 \in Nat
          /\ o + 24 \in Nat /\ o + 16 <= o + 24 /\ o + 18 <= o + 24 /\ o + 20 <= o + 24
          /\ o + 22 <= o + 24 /\ o + 24 <= o + 24
      OBVIOUS
    <3> QED
      BY <3>1, <3>2, <3>3
  <2>2. ChannelCount(ph, an, dg) = c
    BY <1>3 DEF Channels
  <2>3. PICK units : units = o + 26 + 16 * c
    OBVIOUS
  <2>3a. PICK fnom : fnom = units + 4 * (ph + an + dg)
    OBVIOUS
  <2>3b. /\ units \in Nat /\ fnom \in Nat /\ fnom = end - 4 /\ fnom + 4 = end
         /\ units <= end /\ o + 26 <= end
    BY <1>3a, <1>3b, <2>3, <2>3a
  <2>3c. parseOnePMUBlock(q, o) = Parsed(q, o, 7, b.format, ph, an, dg, c, units, fnom)
    BY <2>1, <2>2, <2>3, <2>3a, Parse
  <2>4. CASE n < end
    <3>1. parseOnePMUBlock(q, o) = Error
      <4>1. n < fnom + 4
        BY <2>3b, <2>4
      <4> QED
        BY <1>2, <2>3c, <4>1, ParsedShort
    <3> QED
      BY <1>1, <1>3, <2>4, <3>1
  <2>5. CASE n >= end
    <3>1. ~ (n < o + 26) /\ ~ (n < units) /\ ~ (n < fnom + 4)
      BY <1>3a, <1>3b, <1>5, <2>3b, <2>5
    <3>2. ASSUME NEW i \in 1 .. c PROVE Read(q, o + 10 + 16 * i, 16) = Channel(b, i)
      <4>0. c \in Nat /\ i \in Nat /\ i <= c
        BY <1>3a
      <4>1. PICK k \in Nat : k = o + 10 + 16 * i
        BY <4>0
      <4>1a. PICK x : x = Channel(b, i)
        OBVIOUS
      <4>1b. x.size = 16
        BY <4>1a, ChannelSize
      <4>2. Holds(p, k, x)
        BY <1>3, <4>1, <4>1a DEF BlockHolds
      <4>3a. k + 16 <= n
        BY <1>3b, <2>5, <4>0, <4>1
      <4>3. k + x.size <= n /\ x.size \in Nat
        BY <4>1b, <4>3a
      <4>4. Read(Cut(p, n), k, x.size) = x
        BY <4>2, <4>3 DEF Holds, Read, Cut
      <4> QED
        BY <1>1, <4>1, <4>1a, <4>1b, <4>4
    <3>3. [i \in 1 .. c |-> Read(q, o + 10 + 16 * i, 16)] =
          [i \in 1 .. Channels(b) |-> Channel(b, i)]
      BY <1>3, <3>2
    <3>4. (IF Value(q, fnom, 2) % 2 = 1 THEN 50000 ELSE 60000) = Fnom(b)
      <4>1a. PICK x : x = Field(2, "fnom", b.fnomWord)
        OBVIOUS
      <4>1. x.size = 2 /\ x.val = b.fnomWord
        BY <4>1a DEF Field
      <4>2. Holds(p, fnom, x)
        BY <1>3, <2>3b, <4>1a DEF BlockHolds
      <4>3a. fnom + 2 <= n
        BY <2>3b, <2>5, <1>3b
      <4>3. fnom + x.size <= n /\ x.size \in Nat
        BY <4>1, <4>3a
      <4>4. Value(Cut(p, n), fnom, x.size) = x.val
        BY <2>3b, <4>2, <4>3, ReadCut
      <4>5. Value(q, fnom, 2) = b.fnomWord
        BY <1>1, <4>1, <4>4
      <4>6. b.fnomWord = 0 \/ b.fnomWord = 1
        BY BlockNumbers
      <4> QED
        BY <4>5, <4>6 DEF Fnom
    <3>5. parseOnePMUBlock(q, o) = BlockRead(b, o)
      <4>0. ~ (q.len < o + 26) /\ ~ (q.len < units) /\ ~ (q.len < fnom + 4)
        BY <1>2, <3>1
      <4>a. PICK chans : chans = [i \in 1 .. c |-> Read(q, o + 10 + 16 * i, 16)]
        OBVIOUS
      <4>b. PICK nominal : nominal = IF Value(q, fnom, 2) % 2 = 1 THEN 50000 ELSE 60000
        OBVIOUS
      <4>1. Parsed(q, o, 7, b.format, ph, an, dg, c, units, fnom) =
              Parts(7, b.format, ph, an, dg, chans, nominal, fnom + 4)
        BY <4>0, <4>a, <4>b, ParsedWhole
      <4>2. fnom + 4 = BlockEnd(b, o)
        BY <1>3, <2>3b
      <4>3. chans = [i \in 1 .. Channels(b) |-> Channel(b, i)] /\ nominal = Fnom(b)
        BY <3>3, <3>4, <4>a, <4>b
      <4> QED
        BY <1>3, <2>3c, <4>1, <4>2, <4>3, Zenon DEF BlockRead
    <3>6. ~ (n < BlockEnd(b, o))
      BY <1>3, <1>3b, <2>5
    <3> QED
      BY <1>1, <3>5, <3>6
  <2> QED
    BY <1>3, <1>3b, <2>4, <2>5
<1> QED
  BY <1>3, <1>3b, <1>4, <1>5

(* The size of a block's DATA. *)
DataSize(b) ==
  2 + Len(b.phasors) * (IF b.format.phFloat THEN 8 ELSE 4)
    + (IF b.format.freqFloat THEN 8 ELSE 4)
    + Len(b.analogs) * (IF b.format.anFloat THEN 4 ELSE 2)
    + b.dgnmr * 2

(* What DATA of a block that was read must be long. *)
LEMMA BlockReadSize == \A b, o : ExpectedDataPayloadSize(BlockRead(b, o)) = DataSize(b)
BY DEF ExpectedDataPayloadSize, BlockRead, Parts, DataSize

BlockStep(p, walk, i) ==
  IF ~ walk.ok THEN walk
  ELSE LET b == parseOnePMUBlock(p, walk.next)
       IN IF ~ b.ok THEN Error
          ELSE [ok |-> TRUE, next |-> b.next,
                first |-> IF i = 1 THEN b ELSE walk.first,
                total |-> walk.total + ExpectedDataPayloadSize(b)]

Block == INSTANCE FoldProofs WITH Op <- BlockStep

BlocksOf(blocks) == [j \in DOMAIN blocks |-> BlockFields(blocks[j])]

(* Sums of the sizes of the blocks' DATA. *)
DataEnds(blocks, d) ==
  d[0] = 0 /\ \A j \in 1 .. Len(blocks) : d[j - 1] \in Nat /\ d[j] = d[j - 1] + DataSize(blocks[j])

BlocksRead(blocks, base, d, i) ==
  [ok |-> TRUE, next |-> base[i], first |-> IF i = 0 THEN Error ELSE BlockRead(blocks[1], 6),
   total |-> d[i]]

(* Blocks behind one another, of a payload that is cut. *)
LEMMA BlocksCut ==
  ASSUME NEW blocks \in Seq(AnyBlock), NEW m \in Nat, m = Len(blocks),
         NEW p, NEW z, NEW base, Bases(p, 6, BlocksOf(blocks), m, z, base),
         NEW d, DataEnds(blocks, d), NEW n \in Nat, 6 <= n
  PROVE  IF base[m] <= n THEN Blocks(Cut(p, n), m) = BlocksRead(blocks, base, d, m)
         ELSE ~ Blocks(Cut(p, n), m).ok
<1>0. \A j \in 1 .. m : blocks[j] \in AnyBlock
  BY ElementOfSeq
<1>1. PICK q : q = Cut(p, n)
  OBVIOUS
<1>2. ASSUME NEW j \in 1 .. m
      PROVE  /\ base[j - 1] \in Nat /\ base[j] \in Nat /\ base[j - 1] < base[j]
             /\ base[j] = BlockEnd(blocks[j], base[j - 1])
             /\ parseOnePMUBlock(q, base[j - 1]) =
                  IF n < base[j] THEN Error ELSE BlockRead(blocks[j], base[j - 1])
  <2>1. base[j - 1] \in Nat /\ base[j] \in Nat
    BY DEF Bases
  <2>2. BlocksOf(blocks)[j] = BlockFields(blocks[j])
    BY LenProperties DEF BlocksOf
  <2>3. Laid(p, base[j - 1], BlockFields(blocks[j]), base[j])
    BY <2>2 DEF Bases
  <2>4. PICK b \in AnyBlock, o \in Nat : b = blocks[j] /\ o = base[j - 1]
    BY <1>0, <2>1
  <2>5. BlockHolds(p, b, o) /\ base[j] = BlockEnd(b, o)
    BY <2>3, <2>4, BlockLaid
  <2>6. base[j - 1] < base[j]
    <3>1. BlockEnd(b, o) \in Nat /\ BlockEnd(b, o) >= o + 30 + 16 * Channels(b) /\ Channels(b) \in Nat
      BY BlockEnds, BlockNumbers
    <3> QED
      BY <2>4, <2>5, <3>1
  <2> QED
    BY <1>1, <2>1, <2>4, <2>5, <2>6, BlockCut
<1>3. PICK seq : seq = [i \in 1 .. m |-> i]
  OBVIOUS
<1>4. PICK init : init = [ok |-> TRUE, next |-> 6, first |-> Error, total |-> 0]
  OBVIOUS
<1>5. PICK st : Block!Passes(q, init, seq, m, st) /\ Block!Fold(q, init, seq) = st[m]
  <2>1. DOMAIN seq = 1 .. m
    BY <1>3
  <2> QED
    BY <2>1, Block!FoldStates
<1>6. st[0] = init /\ \A i \in 1 .. m : st[i] = BlockStep(q, st[i - 1], i)
  <2>1. st[0] = init /\ \A i \in 1 .. m : st[i] = BlockStep(q, st[i - 1], seq[i])
    BY <1>5 DEF Block!Passes, BlockStep
  <2> QED
    BY <1>3, <2>1
<1>7. Blocks(q, m) = st[m]
  <2>1. Block!Fold(q, init, seq) = Blocks(q, m)
    BY <1>3, <1>4 DEF Blocks, BlockStep, Block!Fold, FoldLeft, MapThenFoldSet, Max,
                      Block!MapThenFoldSet, Block!Most
  <2> QED
    BY <1>5, <2>1
<1> DEFINE Good(i) == IF base[i] <= n THEN st[i] = BlocksRead(blocks, base, d, i) ELSE ~ st[i].ok
           J == {k \in Nat : k <= m => Good(k)}
<1>8. 0 \in J
  <2>1. base[0] = 6 /\ d[0] = 0
    BY DEF Bases, DataEnds
  <2>2. st[0] = BlocksRead(blocks, base, d, 0)
    BY <1>4, <1>6, <2>1 DEF BlocksRead
  <2> QED
    BY <2>1, <2>2
<1>9. ASSUME NEW k \in Nat, k \in J PROVE k + 1 \in J
  <2> SUFFICES ASSUME k + 1 <= m PROVE Good(k + 1)
    OBVIOUS
  <2>1. k + 1 \in 1 .. m /\ (k + 1) - 1 = k /\ Good(k)
    BY <1>9
  <2>2. st[k + 1] = BlockStep(q, st[k], k + 1)
    BY <1>6, <2>1
  <2>3. /\ base[k] \in Nat /\ base[k + 1] \in Nat /\ base[k] < base[k + 1]
        /\ base[k + 1] = BlockEnd(blocks[k + 1], base[k])
        /\ parseOnePMUBlock(q, base[k]) =
             IF n < base[k + 1] THEN Error ELSE BlockRead(blocks[k + 1], base[k])
    BY <1>2, <2>1
  <2> HIDE DEF J
  <2>4. CASE base[k] > n
    <3>1. ~ st[k].ok
      BY <2>1, <2>3, <2>4
    <3>2. st[k + 1] = st[k] /\ ~ (base[k + 1] <= n)
      BY <2>2, <2>3, <2>4, <3>1 DEF BlockStep
    <3> QED
      BY <3>1, <3>2
  <2>5. CASE base[k] <= n /\ base[k + 1] > n
    <3>1. st[k] = BlocksRead(blocks, base, d, k)
      BY <2>1, <2>5
    <3>2. st[k].ok /\ st[k].next = base[k]
      BY <3>1 DEF BlocksRead
    <3>3. parseOnePMUBlock(q, base[k]) = Error /\ ~ Error.ok
      BY <2>3, <2>5 DEF Error
    <3>4. st[k + 1] = Error
      BY <2>2, <3>2, <3>3 DEF BlockStep
    <3> QED
      BY <2>3, <2>5, <3>3, <3>4
  <2>6. CASE base[k + 1] <= n
    <3>1. st[k] = BlocksRead(blocks, base, d, k)
      BY <2>1, <2>3, <2>6
    <3>2. /\ st[k].ok /\ st[k].next = base[k] /\ st[k].total = d[k]
          /\ st[k].first = IF k = 0 THEN Error ELSE BlockRead(blocks[1], 6)
      BY <3>1 DEF BlocksRead
    <3>3. PICK r : r = BlockRead(blocks[k + 1], base[k])
      OBVIOUS
    <3>4. parseOnePMUBlock(q, base[k]) = r
      BY <2>3, <2>6, <3>3
    <3>5. r.ok /\ r.next = base[k + 1] /\ ExpectedDataPayloadSize(r) = DataSize(blocks[k + 1])
      BY <2>3, <3>3, BlockReadSize DEF BlockRead, Parts
    <3>6. st[k + 1] = [ok |-> TRUE, next |-> base[k + 1],
                       first |-> IF k + 1 = 1 THEN r ELSE st[k].first,
                       total |-> d[k] + DataSize(blocks[k + 1])]
      BY <2>2, <3>2, <3>4, <3>5 DEF BlockStep
    <3>7. d[k + 1] = d[k] + DataSize(blocks[k + 1])
      BY <2>1 DEF DataEnds
    <3>8. (IF k + 1 = 1 THEN r ELSE st[k].first) = BlockRead(blocks[1], 6)
      <4>1. base[0] = 6
        BY DEF Bases
      <4> QED
        BY <3>2, <3>3, <4>1
    <3>9. st[k + 1] = BlocksRead(blocks, base, d, k + 1)
      <4>1. BlocksRead(blocks, base, d, k + 1) =
              [ok |-> TRUE, next |-> base[k + 1], first |-> BlockRead(blocks[1], 6),
               total |-> d[k + 1]]
        <5>1. k + 1 # 0
          OBVIOUS
        <5> QED
          BY <5>1, Zenon DEF BlocksRead
      <4> QED
        BY <3>6, <3>7, <3>8, <4>1, Zenon
    <3> QED
      BY <2>6, <3>9
  <2> QED
    BY <2>3, <2>4, <2>5, <2>6
<1>10. Good(m)
  <2>1. \A k \in Nat : k \in J
    <3> HIDE DEF J
    <3> QED
      BY <1>8, <1>9, Ends!CountUp
  <2> QED
    BY <2>1
<1> QED
  BY <1>1, <1>7, <1>10

-----------------------------------------------------------------------------
(* What a CFG-2 frame of a layout holds. *)
CfgHolds(l, p, z, base) ==
  /\ Holds(p, 0, Field(4, "timebase", l.timeBase))
  /\ Holds(p, 4, Field(2, "count", Len(l.blocks)))
  /\ Bases(p, 6, BlocksOf(l.blocks), Len(l.blocks), z, base)
  /\ Holds(p, z, Field(2, "rate", l.dataRate))
  /\ p.len = z + 2 /\ z \in Nat

(* The parts of a layout. *)
LEMMA LayoutParts ==
  ASSUME NEW l \in AnyLayout
  PROVE  /\ l.blocks \in Seq(AnyBlock) /\ Len(l.blocks) \in Nat \ {0}
         /\ l.timeBase \in Int /\ l.dataRate \in Int /\ l.blocks[1] \in AnyBlock
         /\ DOMAIN l.blocks = 1 .. Len(l.blocks)
<1>1. l.blocks \in Seq(AnyBlock) /\ l.blocks # <<>> /\ l.timeBase \in Nat /\ l.dataRate \in Nat
  BY DEF AnyLayout
<1>2. Len(l.blocks) \in Nat /\ Len(l.blocks) # 0 /\ DOMAIN l.blocks = 1 .. Len(l.blocks)
  BY <1>1, EmptySeq, LenProperties
<1>3. l.blocks[1] \in AnyBlock
  BY <1>1, <1>2, ElementOfSeq
<1> QED
  BY <1>1, <1>2, <1>3

(* The fields of a layout's blocks. *)
LEMMA BlocksTyped ==
  ASSUME NEW blocks \in Seq(AnyBlock)
  PROVE  BlocksOf(blocks) \in Seq(Seq(Fields)) /\ Len(BlocksOf(blocks)) = Len(blocks)
<1>1. Len(blocks) \in Nat /\ DOMAIN blocks = 1 .. Len(blocks)
  BY LenProperties
<1>2. ASSUME NEW j \in 1 .. Len(blocks) PROVE BlockFields(blocks[j]) \in Seq(Fields)
  <2>1. PICK b \in AnyBlock : b = blocks[j]
    BY ElementOfSeq
  <2>2. /\ HeadFields(b) \in Seq(Fields) /\ EndFields(b) \in Seq(Fields)
        /\ NameFields(b.phasors) \in Seq(Fields) /\ NameFields(b.analogs) \in Seq(Fields)
    BY BlockNumbers, HeadTyped, NamesTyped
  <2>3. PICK dg, units : dg = b.dgnmr /\ units = Len(b.phasors) + Len(b.analogs) + b.dgnmr
    OBVIOUS
  <2>4. 16 * dg \in Nat /\ units \in Nat
    <3>1. PICK ph, an : ph = Len(b.phasors) /\ an = Len(b.analogs)
      OBVIOUS
    <3>2. ph \in Nat /\ an \in Nat /\ dg \in Nat
      BY <2>3, <3>1, BlockNumbers
    <3>3. units = ph + an + dg
      BY <2>3, <3>1
    <3> QED
      BY <3>2, <3>3
  <2>5. Each(16 * dg, 16, "bit") \in Seq(Fields) /\ Each(units, 4, "unit") \in Seq(Fields)
    <3>1. "bit" \in Kinds /\ "unit" \in Kinds /\ 16 \in Nat \ {0} /\ 4 \in Nat \ {0}
      BY DEF Kinds
    <3> QED
      BY <2>4, <3>1, EachTyped
  <2>6. BlockFields(b) = HeadFields(b) \o NameFields(b.phasors) \o NameFields(b.analogs)
                           \o Each(16 * dg, 16, "bit") \o Each(units, 4, "unit") \o EndFields(b)
    BY <2>3, BlockFieldsAre
  <2>7. PICK f1, f2, f3, f4, f5, f6 :
          /\ f1 = HeadFields(b) /\ f2 = NameFields(b.phasors) /\ f3 = NameFields(b.analogs)
          /\ f4 = Each(16 * dg, 16, "bit") /\ f5 = Each(units, 4, "unit") /\ f6 = EndFields(b)
    OBVIOUS
  <2>8. /\ f1 \in Seq(Fields) /\ f2 \in Seq(Fields) /\ f3 \in Seq(Fields)
        /\ f4 \in Seq(Fields) /\ f5 \in Seq(Fields) /\ f6 \in Seq(Fields)
    BY <2>2, <2>5, <2>7
  <2>9. f1 \o f2 \o f3 \o f4 \o f5 \o f6 \in Seq(Fields)
    BY <2>8
  <2> QED
    BY <2>1, <2>6, <2>7, <2>9
<1>3. PICK ss : ss = BlocksOf(blocks)
  OBVIOUS
<1>4. ss = [j \in 1 .. Len(blocks) |-> BlockFields(blocks[j])]
  BY <1>1, <1>3 DEF BlocksOf
<1>5. ss \in [1 .. Len(blocks) -> Seq(Fields)]
  BY <1>2, <1>4
<1>6. ss \in Seq(Seq(Fields))
  BY <1>1, <1>5
<1> QED
  BY <1>1, <1>3, <1>4, <1>6, LenProperties

(* A CFG-2 in its four parts. *)
LEMMA LaidFourTwo ==
  ASSUME NEW x, NEW y, x.size = 4, y.size = 2, NEW p, NEW u, Laid(p, 0, <<x, y>>, u)
  PROVE  Holds(p, 0, x) /\ Holds(p, 4, y) /\ u = 6
<1>1. PICK zero \in Nat : zero = 0
  OBVIOUS
<1>2. PICK sx \in Nat : sx = 4
  OBVIOUS
<1>3. PICK sy \in Nat : sy = 2
  OBVIOUS
<1>4. PICK f : f = <<x, y>>
  OBVIOUS
<1>5. x.size = sx /\ y.size = sy /\ Laid(p, zero, f, u)
  BY <1>1, <1>2, <1>3, <1>4
<1>6. Holds(p, zero, x) /\ Holds(p, zero + sx, y) /\ u = zero + sx + sy
  BY <1>4, <1>5, LaidPair
<1> QED
  BY <1>1, <1>2, <1>3, <1>6

(* Where everything of a CFG-2 stands. *)
LEMMA CfgLaid ==
  ASSUME NEW l \in AnyLayout
  PROVE  \E z, base : CfgHolds(l, CfgRaw(l).p, z, base)
<1>1. PICK p : p = CfgRaw(l).p
  OBVIOUS
<1>2. PICK x, y, r, flat :
        /\ x = Field(4, "timebase", l.timeBase) /\ y = Field(2, "count", Len(l.blocks))
        /\ r = Field(2, "rate", l.dataRate) /\ flat = FlattenSeq(BlocksOf(l.blocks))
  OBVIOUS
<1>3. p = Bytes(<<x, y>> \o flat \o <<r>>)
  BY <1>1, <1>2 DEF CfgRaw, BlocksOf
<1>4. /\ l.blocks \in Seq(AnyBlock) /\ Len(l.blocks) \in Nat \ {0}
      /\ l.timeBase \in Int /\ l.dataRate \in Int
  BY LayoutParts
<1>5. PICK ss \in Seq(Seq(Fields)), m \in Nat \ {0} : ss = BlocksOf(l.blocks) /\ m = Len(l.blocks) /\ Len(ss) = m
  BY <1>4, BlocksTyped
<1>6. flat \in Seq(Fields)
  BY <1>2, <1>5, LaidFlat
<1>7. x \in Fields /\ y \in Fields /\ r \in Fields /\ x.size = 4 /\ y.size = 2 /\ r.size = 2
  <2>1. Len(l.blocks) \in Int
    BY <1>4
  <2>2. x.size = 4 /\ y.size = 2 /\ r.size = 2
    BY <1>2 DEF Field
  <2> QED
    BY <1>2, <1>4, <2>1, <2>2 DEF Fields, Field, Kinds
<1>8. <<x, y>> \in Seq(Fields) /\ <<r>> \in Seq(Fields)
  BY <1>7
<1>9. PICK a, c : a = <<x, y>> \o flat /\ c = a \o <<r>>
  OBVIOUS
<1>10. a \in Seq(Fields) /\ c \in Seq(Fields)
  BY <1>6, <1>8, <1>9
<1>11. SizedIn(Fields)
  BY DEF SizedIn, Fields
<1>12. p.len \in Nat /\ Laid(p, 0, c, p.len)
  BY <1>3, <1>9, <1>10, <1>11, BytesLaid
<1>13. PICK z \in Nat : Laid(p, 0, a, z) /\ Laid(p, z, <<r>>, p.len)
  BY <1>8, <1>9, <1>10, <1>12, LaidSplit
<1>14. PICK u \in Nat : Laid(p, 0, <<x, y>>, u) /\ Laid(p, u, flat, z)
  BY <1>6, <1>8, <1>9, <1>13, LaidSplit
<1>15. Holds(p, 0, x) /\ Holds(p, 4, y) /\ u = 6
  BY <1>7, <1>14, LaidFourTwo
<1>16. Holds(p, z, r) /\ p.len = z + 2
  <2>1. r.size \in Nat
    BY <1>7
  <2>2. Holds(p, z, r) /\ p.len = z + r.size
    BY <1>13, <2>1, LaidOne, Zenon
  <2> QED
    BY <1>7, <2>2
<1>17. PICK base : Bases(p, 6, ss, m, z, base)
  BY <1>2, <1>5, <1>14, <1>15, LaidFlat
<1> QED
  BY <1>1, <1>2, <1>5, <1>15, <1>16, <1>17 DEF CfgHolds

(* What a profile says when its CFG-2 is accepted. *)
LEMMA Accepted ==
  ASSUME NEW raw, NEW prof, prof = ParseCFG2Frame(raw), prof.ok,
         NEW walk, NEW m, m = Value(raw.p, 4, 2), walk = Blocks(raw.p, m)
  PROVE  /\ ~ (raw.p.len < 34) /\ walk.ok /\ ~ (raw.p.len # walk.next + 2)
         /\ prof.format = walk.first.format /\ prof.numPMU = m
         /\ prof.timeBase = Value(raw.p, 0, 4)
         /\ prof.phnmr = walk.first.phnmr /\ prof.annmr = walk.first.annmr
         /\ prof.dgnmr = walk.first.dgnmr /\ prof.channels = walk.first.channels
         /\ prof.fnom = walk.first.fnom /\ prof.dataRate = Value(raw.p, walk.next, 2)
         /\ prof.payload = ExpectedDataPayloadSize(walk.first) /\ prof.total = walk.total
<1> USE DEF Error
<1>1. /\ ~ (raw.p.len < 34) /\ walk.ok /\ ~ (raw.p.len # walk.next + 2)
  BY SMT DEF ParseCFG2Frame
<1>2. prof = [ok |-> TRUE, id |-> walk.first.id, format |-> walk.first.format, numPMU |-> m,
           timeBase |-> Value(raw.p, 0, 4), ver |-> raw.ver,
           phnmr |-> walk.first.phnmr, annmr |-> walk.first.annmr, dgnmr |-> walk.first.dgnmr,
           channels |-> walk.first.channels, fnom |-> walk.first.fnom,
           dataRate |-> Value(raw.p, walk.next, 2),
           payload |-> ExpectedDataPayloadSize(walk.first), total |-> walk.total]
  BY SMT DEF ParseCFG2Frame
<1> QED
  BY <1>1, <1>2

-----------------------------------------------------------------------------
(* Five sequences, one after the other. *)
LEMMA ConcatTwo ==
  ASSUME NEW S, NEW a \in Seq(S), NEW b \in Seq(S)
  PROVE  /\ a \o b \in Seq(S) /\ Len(a \o b) = Len(a) + Len(b)
         /\ \A i \in 1 .. Len(a) : (a \o b)[i] = a[i]
         /\ \A i \in 1 .. Len(b) : (a \o b)[Len(a) + i] = b[i]
<1>0. Len(a) \in Nat /\ Len(b) \in Nat
  BY LenProperties
<1>0a. PICK n \in Nat : n = Len(a)
  BY <1>0
<1>0b. PICK k \in Nat : k = Len(b)
  BY <1>0
<1>0c. PICK f : f = a \o b
  OBVIOUS
<1>1. f = a \o b /\ n = Len(a) /\ k = Len(b)
  BY <1>0a, <1>0b, <1>0c
<1>2. f \in Seq(S) /\ Len(f) = n + k /\ \A i \in 1 .. n + k : f[i] = IF i <= n THEN a[i] ELSE b[i - n]
  BY <1>1, ConcatProperties
<1>3. ASSUME NEW i \in 1 .. n PROVE f[i] = a[i]
  BY <1>2
<1>4. ASSUME NEW i \in 1 .. k PROVE f[n + i] = b[i]
  <2>1. n + i \in 1 .. n + k /\ ~ (n + i <= n) /\ (n + i) - n = i
    OBVIOUS
  <2> QED
    BY <1>2, <2>1
<1> QED
  BY <1>1, <1>2, <1>3, <1>4

(* Where the parts of a DATA body, and of what is read of one, stand. *)
Parted(f, a, b, c, d, e) ==
  /\ Len(f) = Len(a) + Len(b) + Len(c) + Len(d) + Len(e)
  /\ \A i \in 1 .. Len(a) : f[i] = a[i]
  /\ \A i \in 1 .. Len(b) : f[Len(a) + i] = b[i]
  /\ \A i \in 1 .. Len(c) : f[Len(a) + Len(b) + i] = c[i]
  /\ \A i \in 1 .. Len(d) : f[Len(a) + Len(b) + Len(c) + i] = d[i]
  /\ \A i \in 1 .. Len(e) : f[Len(a) + Len(b) + Len(c) + Len(d) + i] = e[i]

(* Five sequences, element by element. *)
LEMMA ConcatFive ==
  ASSUME NEW S, NEW a \in Seq(S), NEW b \in Seq(S), NEW c \in Seq(S), NEW d \in Seq(S),
         NEW e \in Seq(S), NEW f, f = a \o b \o c \o d \o e
  PROVE  f \in Seq(S) /\ Parted(f, a, b, c, d, e)
<1>1. PICK t, u, v : t = a \o b /\ u = t \o c /\ v = u \o d
  OBVIOUS
<1>2. PICK na, nb, nc, nd, ne : /\ na = Len(a) /\ nb = Len(b) /\ nc = Len(c) /\ nd = Len(d)
                                /\ ne = Len(e)
  OBVIOUS
<1>3. na \in Nat /\ nb \in Nat /\ nc \in Nat /\ nd \in Nat /\ ne \in Nat
  BY <1>2, LenProperties
<1>4. /\ t \in Seq(S) /\ Len(t) = na + nb
      /\ \A i \in 1 .. na : t[i] = a[i]
      /\ \A i \in 1 .. nb : t[na + i] = b[i]
  BY <1>1, <1>2, ConcatTwo
<1>5. /\ u \in Seq(S) /\ Len(u) = na + nb + nc
      /\ \A i \in 1 .. na + nb : u[i] = t[i]
      /\ \A i \in 1 .. nc : u[na + nb + i] = c[i]
  BY <1>1, <1>2, <1>4, ConcatTwo, SMTT(30)
<1>6. /\ v \in Seq(S) /\ Len(v) = na + nb + nc + nd
      /\ \A i \in 1 .. na + nb + nc : v[i] = u[i]
      /\ \A i \in 1 .. nd : v[na + nb + nc + i] = d[i]
  BY <1>1, <1>2, <1>5, ConcatTwo, SMTT(30)
<1>7. /\ f \in Seq(S) /\ Len(f) = na + nb + nc + nd + ne
      /\ \A i \in 1 .. na + nb + nc + nd : f[i] = v[i]
      /\ \A i \in 1 .. ne : f[na + nb + nc + nd + i] = e[i]
  <2>1. f = v \o e
    BY <1>1
  <2>2. /\ f \in Seq(S) /\ Len(f) = Len(v) + Len(e)
        /\ \A i \in 1 .. Len(v) : f[i] = v[i]
        /\ \A i \in 1 .. Len(e) : f[Len(v) + i] = e[i]
    <3>1. v \in Seq(S)
      BY <1>6
    <3>2. PICK g : g = v \o e
      OBVIOUS
    <3>3. /\ g \in Seq(S) /\ Len(g) = Len(v) + Len(e)
          /\ \A i \in 1 .. Len(v) : g[i] = v[i]
          /\ \A i \in 1 .. Len(e) : g[Len(v) + i] = e[i]
      BY <3>1, <3>2, ConcatTwo
    <3> QED
      BY <2>1, <3>2, <3>3
  <2> QED
    BY <1>2, <1>6, <2>2
<1>8. ASSUME NEW i \in 1 .. na PROVE f[i] = a[i]
  <2>1. i \in 1 .. na + nb /\ i \in 1 .. na + nb + nc /\ i \in 1 .. na + nb + nc + nd
    BY <1>3
  <2> QED
    BY <1>4, <1>5, <1>6, <1>7, <2>1, ZenonT(30)
<1>9. ASSUME NEW i \in 1 .. nb PROVE f[na + i] = b[i]
  <2>1. PICK k : k = na + i
    OBVIOUS
  <2>2. k \in 1 .. na + nb /\ k \in 1 .. na + nb + nc /\ k \in 1 .. na + nb + nc + nd
    BY <1>3, <2>1
  <2>3. f[k] = v[k]
    BY <1>7, <2>2
  <2>4. v[k] = u[k]
    BY <1>6, <2>2
  <2>5. u[k] = t[k]
    BY <1>5, <2>2
  <2>6. t[k] = b[i]
    BY <1>4, <2>1
  <2> QED
    BY <2>1, <2>3, <2>4, <2>5, <2>6
<1>10. ASSUME NEW i \in 1 .. nc PROVE f[na + nb + i] = c[i]
  <2>1. PICK k : k = na + nb + i
    OBVIOUS
  <2>2. k \in 1 .. na + nb + nc /\ k \in 1 .. na + nb + nc + nd
    BY <1>3, <2>1
  <2>3. f[k] = v[k]
    BY <1>7, <2>2
  <2>4. v[k] = u[k]
    BY <1>6, <2>2
  <2>5. u[k] = c[i]
    BY <1>5, <2>1
  <2> QED
    BY <2>1, <2>3, <2>4, <2>5
<1>11. ASSUME NEW i \in 1 .. nd PROVE f[na + nb + nc + i] = d[i]
  <2>1. na + nb + nc + i \in 1 .. na + nb + nc + nd
    BY <1>3
  <2> QED
    BY <1>6, <1>7, <2>1
<1> QED
  BY <1>2, <1>7, <1>8, <1>9, <1>10, <1>11, Zenon DEF Parted

-----------------------------------------------------------------------------
(* A DATA body of a block. *)
AnySample == [freq : Int, dead : SUBSET Nat]

Size(float) == IF float THEN 4 ELSE 2

PhasorField(b, s, k) ==
  IF k % 2 = 1
  THEN Field(Size(b.format.phFloat), "magnitude", Magnitude(s, (k + 1) \div 2))
  ELSE Field(Size(b.format.phFloat), "angle", k \div 2)

StatFields == <<Field(2, "stat", 0)>>
PhasorFields(b, s) == [k \in 1 .. 2 * Len(b.phasors) |-> PhasorField(b, s, k)]
FreqFields(b, s) ==
  <<Field(Size(b.format.freqFloat), "freq",
          IF b.format.freqFloat THEN s.freq ELSE s.freq - Fnom(b)),
    Field(Size(b.format.freqFloat), "rocof", 1)>>
AnalogFields(b) == Each(Len(b.analogs), Size(b.format.anFloat), "analog")
DigitalFields(b) == Each(b.dgnmr, 2, "digital")

(* DATA of a block, in five parts. *)
LEMMA BlockDataAre ==
  ASSUME NEW b, NEW s
  PROVE  BlockData(b, s) = StatFields \o PhasorFields(b, s) \o FreqFields(b, s)
                             \o AnalogFields(b) \o DigitalFields(b)
BY DEF BlockData, StatFields, PhasorFields, FreqFields, AnalogFields, DigitalFields,
       PhasorField, Size

(* Fields of two bytes or of four. *)
LEMMA Sizes == \A float : Size(float) \in {2, 4} /\ Size(float) \in Nat \ {0}
BY DEF Size

(* The fields of a sample, part by part. *)
LEMMA DataTyped ==
  ASSUME NEW b \in AnyBlock, NEW s \in AnySample
  PROVE  /\ StatFields \in Seq(Fields) /\ Len(StatFields) = 1
         /\ PhasorFields(b, s) \in Seq(Fields) /\ Len(PhasorFields(b, s)) = 2 * Len(b.phasors)
         /\ FreqFields(b, s) \in Seq(Fields) /\ Len(FreqFields(b, s)) = 2
         /\ AnalogFields(b) \in Seq(Fields) /\ Len(AnalogFields(b)) = Len(b.analogs)
         /\ DigitalFields(b) \in Seq(Fields) /\ Len(DigitalFields(b)) = b.dgnmr
<1>1. PICK ph, an, dg : ph = Len(b.phasors) /\ an = Len(b.analogs) /\ dg = b.dgnmr
  OBVIOUS
<1>2. ph \in Nat /\ an \in Nat /\ dg \in Nat
  BY <1>1, BlockNumbers
<1>3. Field(2, "stat", 0) \in Fields
  BY DEF Fields, Field, Kinds
<1>4. \A z \in Nat \ {0} : \A n \in Int : /\ Field(z, "magnitude", n) \in Fields
                                       /\ Field(z, "angle", n) \in Fields
                                       /\ Field(z, "freq", n) \in Fields
                                       /\ Field(z, "rocof", n) \in Fields
  BY DEF Fields, Field, Kinds
<1>5. StatFields \in Seq(Fields) /\ Len(StatFields) = 1
  BY <1>3 DEF StatFields
<1>6. ASSUME NEW k \in 1 .. 2 * ph PROVE PhasorField(b, s, k) \in Fields
  <2>1. PICK z \in Nat \ {0} : z = Size(b.format.phFloat)
    BY Sizes
  <2>2. PICK i : i = (k + 1) \div 2
    OBVIOUS
  <2>3. i \in Int /\ k \div 2 \in Int
    BY <1>2, <2>2
  <2>4. Magnitude(s, i) \in Int
    BY <2>3 DEF Magnitude
  <2> QED
    BY <1>4, <2>1, <2>2, <2>3, <2>4 DEF PhasorField
<1>7. PhasorFields(b, s) \in Seq(Fields) /\ Len(PhasorFields(b, s)) = 2 * ph
  <2>1. PICK n : n = 2 * ph
    OBVIOUS
  <2>2. n \in Nat
    BY <1>2, <2>1
  <2>3. PICK f : f = [k \in 1 .. n |-> PhasorField(b, s, k)]
    OBVIOUS
  <2>4. f \in [1 .. n -> Fields]
    BY <1>6, <2>1, <2>3
  <2>5. f \in Seq(Fields)
    BY <2>2, <2>4
  <2>6. Len(f) = n
    BY <2>2, <2>3, <2>5, LenProperties
  <2> QED
    BY <1>1, <2>1, <2>3, <2>5, <2>6 DEF PhasorFields
<1>8. FreqFields(b, s) \in Seq(Fields) /\ Len(FreqFields(b, s)) = 2
  <2>1. PICK z \in Nat \ {0} : z = Size(b.format.freqFloat)
    BY Sizes
  <2>2. PICK val : val = IF b.format.freqFloat THEN s.freq ELSE s.freq - Fnom(b)
    OBVIOUS
  <2>3. s.freq \in Int /\ Fnom(b) \in Int
    BY DEF AnySample, Fnom
  <2>4. val \in Int
    BY <2>2, <2>3
  <2>5. Field(z, "freq", val) \in Fields /\ Field(z, "rocof", 1) \in Fields
    BY <1>4, <2>4
  <2>6. FreqFields(b, s) = <<Field(z, "freq", val), Field(z, "rocof", 1)>>
    BY <2>1, <2>2 DEF FreqFields
  <2> QED
    BY <2>5, <2>6
<1>9. AnalogFields(b) \in Seq(Fields) /\ Len(AnalogFields(b)) = an
  <2>1. "analog" \in Kinds
    BY DEF Kinds
  <2> QED
    BY <1>1, <1>2, <2>1, Sizes, EachTyped DEF AnalogFields
<1>10. DigitalFields(b) \in Seq(Fields) /\ Len(DigitalFields(b)) = dg
  <2>1. "digital" \in Kinds /\ 2 \in Nat \ {0}
    BY DEF Kinds
  <2> QED
    BY <1>1, <1>2, <2>1, EachTyped DEF DigitalFields
<1> QED
  BY <1>1, <1>5, <1>7, <1>8, <1>9, <1>10

(* The fields of a sample are those parts. *)
LEMMA BlockDataTyped ==
  ASSUME NEW b \in AnyBlock, NEW s \in AnySample
  PROVE  /\ BlockData(b, s) \in Seq(Fields)
         /\ Parted(BlockData(b, s), StatFields, PhasorFields(b, s), FreqFields(b, s),
                   AnalogFields(b), DigitalFields(b))
<1>1. PICK f1, f2, f3, f4, f5 :
        /\ f1 = StatFields /\ f2 = PhasorFields(b, s) /\ f3 = FreqFields(b, s)
        /\ f4 = AnalogFields(b) /\ f5 = DigitalFields(b)
  OBVIOUS
<1>2. f1 \in Seq(Fields) /\ f2 \in Seq(Fields) /\ f3 \in Seq(Fields)
  BY <1>1, DataTyped
<1>3. f4 \in Seq(Fields) /\ f5 \in Seq(Fields)
  BY <1>1, DataTyped
<1>4. PICK f : f = f1 \o f2 \o f3 \o f4 \o f5
  OBVIOUS
<1>5. f \in Seq(Fields) /\ Parted(f, f1, f2, f3, f4, f5)
  BY <1>2, <1>3, <1>4, ConcatFive
<1>6. f = BlockData(b, s)
  BY <1>1, <1>4, BlockDataAre
<1> QED
  BY <1>1, <1>5, <1>6

(* Every field of one size. *)
SizedAs(f, c) == \A i \in 1 .. Len(f) : f[i].size = c

(* How long what is laid out is. *)
LEMMA LaidSized ==
  ASSUME NEW f \in Seq(Fields), NEW c \in Nat, SizedAs(f, c),
         NEW p, NEW o \in Nat, NEW o2, Laid(p, o, f, o2)
  PROVE  o2 = o + c * Len(f)
<1>1. EvenAt(p, o, f, c, o2)
  BY LaidEven DEF SizedAs
<1> QED
  BY <1>1 DEF EvenAt

(* The sizes of the five parts of DATA. *)
LEMMA PartSizes ==
  ASSUME NEW b \in AnyBlock, NEW s \in AnySample
  PROVE  /\ SizedAs(StatFields, 2) /\ SizedAs(PhasorFields(b, s), Size(b.format.phFloat))
         /\ SizedAs(FreqFields(b, s), Size(b.format.freqFloat))
         /\ SizedAs(AnalogFields(b), Size(b.format.anFloat)) /\ SizedAs(DigitalFields(b), 2)
<1>1. SizedAs(StatFields, 2)
  BY DEF SizedAs, StatFields, Field
<1>2. SizedAs(PhasorFields(b, s), Size(b.format.phFloat))
  <2>1. PICK n : n = 2 * Len(b.phasors)
    OBVIOUS
  <2>2. Len(PhasorFields(b, s)) = n
    BY <2>1, DataTyped
  <2>3. ASSUME NEW i \in 1 .. n PROVE PhasorFields(b, s)[i].size = Size(b.format.phFloat)
    <3>1. PhasorFields(b, s)[i] = PhasorField(b, s, i)
      BY <2>1 DEF PhasorFields
    <3>2. PhasorField(b, s, i).size = Size(b.format.phFloat)
      BY FieldSize DEF PhasorField
    <3> QED
      BY <3>1, <3>2
  <2> QED
    BY <2>2, <2>3 DEF SizedAs
<1>3. SizedAs(FreqFields(b, s), Size(b.format.freqFloat))
  BY DEF SizedAs, FreqFields, Field
<1>4. SizedAs(AnalogFields(b), Size(b.format.anFloat))
  <2>1. PICK n : n = Len(b.analogs)
    OBVIOUS
  <2>2. n \in Nat
    BY <2>1, BlockNumbers
  <2>3. "analog" \in Kinds
    BY DEF Kinds
  <2>4. /\ Len(AnalogFields(b)) = n
        /\ \A i \in 1 .. n : AnalogFields(b)[i] = Field(Size(b.format.anFloat), "analog", i)
    BY <2>1, <2>2, <2>3, Sizes, EachTyped, ZenonT(30) DEF AnalogFields
  <2> QED
    BY <2>4, FieldSize DEF SizedAs
<1>5. SizedAs(DigitalFields(b), 2)
  <2>1. PICK n : n = b.dgnmr
    OBVIOUS
  <2>2. n \in Nat
    BY <2>1, BlockNumbers
  <2>3. "digital" \in Kinds /\ 2 \in Nat \ {0}
    BY DEF Kinds
  <2>4. /\ Len(DigitalFields(b)) = n
        /\ \A i \in 1 .. n : DigitalFields(b)[i] = Field(2, "digital", i)
    BY <2>1, <2>2, <2>3, EachTyped, ZenonT(30) DEF DigitalFields
  <2> QED
    BY <2>4, FieldSize DEF SizedAs
<1> QED
  BY <1>1, <1>2, <1>3, <1>4, <1>5

(* DATA of a block is as long as its formats say. *)
LEMMA DataLaid ==
  ASSUME NEW b \in AnyBlock, NEW s \in AnySample,
         NEW p, NEW o \in Nat, NEW o2, Laid(p, o, BlockData(b, s), o2)
  PROVE  o2 = o + DataSize(b)
<1>1. PICK f1, f2, f3, f4, f5 :
        /\ f1 = StatFields /\ f2 = PhasorFields(b, s) /\ f3 = FreqFields(b, s)
        /\ f4 = AnalogFields(b) /\ f5 = DigitalFields(b)
  OBVIOUS
<1>2. PICK ph, an, dg : ph = Len(b.phasors) /\ an = Len(b.analogs) /\ dg = b.dgnmr
  OBVIOUS
<1>3. ph \in Nat /\ an \in Nat /\ dg \in Nat
  BY <1>2, BlockNumbers
<1>4. f1 \in Seq(Fields) /\ Len(f1) = 1
  BY <1>1, DataTyped
<1>5. f2 \in Seq(Fields) /\ Len(f2) = 2 * ph
  BY <1>1, <1>2, DataTyped
<1>6. f3 \in Seq(Fields) /\ Len(f3) = 2
  BY <1>1, DataTyped
<1>7. f4 \in Seq(Fields) /\ Len(f4) = an
  BY <1>1, <1>2, DataTyped
<1>8. f5 \in Seq(Fields) /\ Len(f5) = dg
  BY <1>1, <1>2, DataTyped
<1>9. PICK sp \in Nat : sp = Size(b.format.phFloat)
  BY Sizes
<1>10. PICK sf \in Nat : sf = Size(b.format.freqFloat)
  BY Sizes
<1>11. PICK sa \in Nat : sa = Size(b.format.anFloat)
  BY Sizes
<1>12. SizedAs(f1, 2) /\ SizedAs(f2, sp) /\ SizedAs(f3, sf) /\ SizedAs(f4, sa) /\ SizedAs(f5, 2)
  BY <1>1, <1>9, <1>10, <1>11, PartSizes
<1>13. PICK t, u, v : t = f1 \o f2 /\ u = t \o f3 /\ v = u \o f4
  OBVIOUS
<1>14. t \in Seq(Fields)
  BY <1>4, <1>5, <1>13
<1>15. u \in Seq(Fields)
  BY <1>6, <1>13, <1>14
<1>16. v \in Seq(Fields)
  BY <1>7, <1>13, <1>15
<1>17. Laid(p, o, v \o f5, o2)
  BY <1>1, <1>13, BlockDataAre
<1>18. PICK ov \in Nat : Laid(p, o, v, ov) /\ Laid(p, ov, f5, o2)
  BY <1>8, <1>16, <1>17, LaidSplit
<1>19. PICK ou \in Nat : Laid(p, o, u, ou) /\ Laid(p, ou, f4, ov)
  BY <1>7, <1>13, <1>15, <1>18, LaidSplit
<1>20. PICK ot \in Nat : Laid(p, o, t, ot) /\ Laid(p, ot, f3, ou)
  BY <1>6, <1>13, <1>14, <1>19, LaidSplit
<1>21. PICK os \in Nat : Laid(p, o, f1, os) /\ Laid(p, os, f2, ot)
  BY <1>4, <1>5, <1>13, <1>20, LaidSplit
<1>22. os = o + 2 * Len(f1)
  BY <1>4, <1>12, <1>21, LaidSized
<1>23. ot = os + sp * Len(f2)
  BY <1>5, <1>12, <1>21, LaidSized
<1>24. ou = ot + sf * Len(f3)
  BY <1>6, <1>12, <1>20, LaidSized
<1>25. ov = ou + sa * Len(f4)
  BY <1>7, <1>12, <1>19, LaidSized
<1>26. o2 = ov + 2 * Len(f5)
  BY <1>8, <1>12, <1>18, LaidSized
<1>27. sp * Len(f2) = ph * (IF b.format.phFloat THEN 8 ELSE 4)
  BY <1>3, <1>5, <1>9 DEF Size
<1>28. sf * Len(f3) = IF b.format.freqFloat THEN 8 ELSE 4
  BY <1>6, <1>10 DEF Size
<1>29. sa * Len(f4) = an * (IF b.format.anFloat THEN 4 ELSE 2)
  BY <1>3, <1>7, <1>11 DEF Size
<1>30. PICK x2, x3, x4 : /\ x2 = sp * Len(f2) /\ x3 = sf * Len(f3) /\ x4 = sa * Len(f4)
  OBVIOUS
<1>31. DataSize(b) = 2 + x2 + x3 + x4 + dg * 2
  BY <1>2, <1>27, <1>28, <1>29, <1>30 DEF DataSize
<1>32. x2 \in Nat /\ x3 \in Nat /\ x4 \in Nat
  <2>1. x2 \in Nat
    BY <1>3, <1>27, <1>30
  <2>2. x3 \in Nat
    BY <1>28, <1>30
  <2>3. x4 \in Nat
    BY <1>3, <1>29, <1>30
  <2> QED
    BY <2>1, <2>2, <2>3
<1>33. os = o + 2 /\ ot = os + x2 /\ ou = ot + x3 /\ ov = ou + x4 /\ o2 = ov + 2 * dg
  BY <1>4, <1>8, <1>22, <1>23, <1>24, <1>25, <1>26, <1>30
<1> QED
  BY <1>3, <1>31, <1>32, <1>33

(* DATA of a block has a length. *)
LEMMA DataSizes == \A b \in AnyBlock : DataSize(b) \in Nat /\ DataSize(b) >= 2
<1> SUFFICES ASSUME NEW b \in AnyBlock PROVE DataSize(b) \in Nat /\ DataSize(b) >= 2
  OBVIOUS
<1>1. PICK ph, an, dg : ph = Len(b.phasors) /\ an = Len(b.analogs) /\ dg = b.dgnmr
  OBVIOUS
<1>2. ph \in Nat /\ an \in Nat /\ dg \in Nat
  BY <1>1, BlockNumbers
<1>3. PICK x2, x3, x4 : /\ x2 = ph * (IF b.format.phFloat THEN 8 ELSE 4)
                        /\ x3 = (IF b.format.freqFloat THEN 8 ELSE 4)
                        /\ x4 = an * (IF b.format.anFloat THEN 4 ELSE 2)
  OBVIOUS
<1>4. x2 \in Nat /\ x3 \in Nat /\ x4 \in Nat
  BY <1>2, <1>3
<1>5. DataSize(b) = 2 + x2 + x3 + x4 + dg * 2
  BY <1>1, <1>3 DEF DataSize
<1> QED
  BY <1>2, <1>4, <1>5

(* The DATA frame of a layout: its blocks follow each other, and end with it. *)
LEMMA DataRawLaid ==
  ASSUME NEW l \in AnyLayout, NEW s \in AnySample, NEW p, p = DataRaw(l, s).p
  PROVE  /\ p.len \in Nat
         /\ \E d : DataEnds(l.blocks, d) /\ d[Len(l.blocks)] = p.len
         /\ DataSize(l.blocks[1]) <= p.len
         /\ Laid(p, 0, BlockData(l.blocks[1], s), DataSize(l.blocks[1]))
<1>1. PICK blocks, m : blocks = l.blocks /\ m = Len(blocks)
  OBVIOUS
<1>2. /\ blocks \in Seq(AnyBlock) /\ m \in Nat \ {0} /\ DOMAIN blocks = 1 .. m
      /\ \A j \in 1 .. m : blocks[j] \in AnyBlock
  <2>1. blocks \in Seq(AnyBlock) /\ m \in Nat \ {0} /\ DOMAIN blocks = 1 .. m
    BY <1>1, LayoutParts
  <2> QED
    BY <1>1, <2>1, ElementOfSeq
<1>3. PICK ss : ss = [j \in 1 .. m |-> BlockData(blocks[j], s)]
  OBVIOUS
<1>4. ss \in [1 .. m -> Seq(Fields)]
  BY <1>2, <1>3, BlockDataTyped
<1>5. ss \in Seq(Seq(Fields)) /\ Len(ss) = m
  <2>1. ss \in Seq(Seq(Fields))
    BY <1>2, <1>4
  <2>2. m \in Nat
    BY <1>2
  <2> QED
    BY <1>3, <2>1, <2>2, LenProperties
<1>6. PICK f : f = FlattenSeq(ss)
  OBVIOUS
<1>7. p = Bytes(f)
  BY <1>1, <1>2, <1>3, <1>6 DEF DataRaw
<1>8. f \in Seq(Fields)
  BY <1>2, <1>5, <1>6, LaidFlat
<1>9. SizedIn(Fields)
  BY DEF SizedIn, Fields
<1>10. p.len \in Nat /\ Laid(p, 0, f, p.len)
  BY <1>7, <1>8, <1>9, BytesLaid
<1>11. PICK d : Bases(p, 0, ss, m, p.len, d)
  <2>1. 0 \in Nat
    OBVIOUS
  <2> QED
    BY <1>2, <1>5, <1>6, <1>10, <2>1, LaidFlat
<1>12. ASSUME NEW j \in 1 .. m
       PROVE  /\ d[j - 1] \in Nat /\ d[j] \in Nat
              /\ Laid(p, d[j - 1], BlockData(blocks[j], s), d[j])
              /\ d[j] = d[j - 1] + DataSize(blocks[j]) /\ d[j - 1] < d[j]
  <2>1. j - 1 \in 0 .. m /\ j \in 0 .. m
    BY <1>2
  <2>2. d[j - 1] \in Nat /\ d[j] \in Nat /\ Laid(p, d[j - 1], BlockData(blocks[j], s), d[j])
    BY <1>3, <1>11, <2>1 DEF Bases
  <2>3. PICK b \in AnyBlock : b = blocks[j]
    BY <1>2
  <2>4. PICK o \in Nat : o = d[j - 1]
    BY <2>2
  <2>5. Laid(p, o, BlockData(b, s), d[j])
    BY <2>2, <2>3, <2>4
  <2>6. d[j] = o + DataSize(b)
    BY <2>5, DataLaid
  <2>7. DataSize(b) \in Nat /\ DataSize(b) >= 2
    BY DataSizes
  <2> QED
    BY <2>2, <2>3, <2>4, <2>6, <2>7
<1>13. d[0] = 0 /\ d[m] = p.len /\ \A i \in 0 .. m : d[i] \in Nat
  BY <1>11 DEF Bases
<1>14. DataEnds(blocks, d)
  BY <1>1, <1>12, <1>13 DEF DataEnds
<1>15. 1 \in 1 .. m /\ 1 - 1 = 0
  BY <1>2
<1>16. d[1] = DataSize(blocks[1]) /\ Laid(p, 0, BlockData(blocks[1], s), d[1])
  <2>1. /\ Laid(p, d[1 - 1], BlockData(blocks[1], s), d[1])
        /\ d[1] = d[1 - 1] + DataSize(blocks[1])
    BY <1>12, <1>15
  <2>2. blocks[1] \in AnyBlock
    BY <1>2, <1>15
  <2>3. DataSize(blocks[1]) \in Nat
    BY <2>2, DataSizes
  <2> QED
    BY <1>13, <1>15, <2>1, <2>3
<1>17. d[1] <= d[m]
  <2>1. \A i, j \in 0 .. m : i < j => d[i] < d[j]
    <3>1. m \in Nat /\ \A i \in 1 .. m : d[i - 1] < d[i]
      BY <1>2, <1>12
    <3> QED
      BY <1>13, <3>1, Increasing
  <2>2. m = 1 \/ 1 < m
    BY <1>2
  <2>3. 1 \in 0 .. m /\ m \in 0 .. m /\ d[1] \in Nat /\ d[m] \in Nat
    BY <1>2, <1>13
  <2> QED
    BY <2>1, <2>2, <2>3
<1> QED
  BY <1>1, <1>10, <1>13, <1>14, <1>16, <1>17

-----------------------------------------------------------------------------
(* The cursor over a payload. *)
WalkStep(p, at, size) ==
  IF ~ at.ok \/ at.o + size > p.len THEN [at EXCEPT !.ok = FALSE]
  ELSE [ok |-> TRUE, o |-> at.o + size, vals |-> Append(at.vals, Read(p, at.o, size))]

Cursor == INSTANCE FoldProofs WITH Op <- WalkStep

(* Where the reads of these sizes begin and end. *)
Reaches(sizes, e, n) ==
  /\ e[0] = 0 /\ \A i \in 0 .. n : e[i] \in Nat
  /\ \A i \in 1 .. n : e[i] = e[i - 1] + sizes[i] /\ e[i] <= e[n]

(* A walk that ends within the payload reads every value. *)
LEMMA WalkReads ==
  ASSUME NEW n \in Nat, NEW sizes \in [1 .. n -> Nat], NEW e, Reaches(sizes, e, n),
         NEW p, p.len \in Nat, e[n] <= p.len
  PROVE  Walk(p, sizes) = [ok |-> TRUE, o |-> e[n],
                           vals |-> [i \in 1 .. n |-> Read(p, e[i - 1], sizes[i])]]
<1>1. PICK init : init = [ok |-> TRUE, o |-> 0, vals |-> <<>>]
  OBVIOUS
<1>2. PICK st : Cursor!Passes(p, init, sizes, n, st) /\ Cursor!Fold(p, init, sizes) = st[n]
  <2>1. DOMAIN sizes = 1 .. n
    OBVIOUS
  <2> QED
    BY <2>1, Cursor!FoldStates
<1>3. st[0] = init /\ \A i \in 1 .. n : st[i] = WalkStep(p, st[i - 1], sizes[i])
  BY <1>2 DEF Cursor!Passes, WalkStep
<1>4. Walk(p, sizes) = st[n]
  <2>1. Cursor!Fold(p, init, sizes) = Walk(p, sizes)
    BY <1>1 DEF Walk, WalkStep, Cursor!Fold, FoldLeft, MapThenFoldSet, Max,
                Cursor!MapThenFoldSet, Cursor!Most
  <2> QED
    BY <1>2, <2>1
<1> DEFINE v(i) == Read(p, e[i - 1], sizes[i])
           S == {v(i) : i \in 1 .. n}
           Vals(k) == [i \in 1 .. k |-> v(i)]
           J == {k \in Nat : k <= n => st[k] = [ok |-> TRUE, o |-> e[k], vals |-> Vals(k)]}
<1>5. 0 \in J
  <2>1. Vals(0) = <<>>
    OBVIOUS
  <2>2. e[0] = 0
    BY DEF Reaches
  <2> QED
    BY <1>1, <1>3, <2>1, <2>2
<1>6. ASSUME NEW k \in Nat, k \in J PROVE k + 1 \in J
  <2> SUFFICES ASSUME k + 1 <= n
               PROVE  st[k + 1] = [ok |-> TRUE, o |-> e[k + 1], vals |-> Vals(k + 1)]
    OBVIOUS
  <2>1. st[k] = [ok |-> TRUE, o |-> e[k], vals |-> Vals(k)]
    BY <1>6
  <2>2. k + 1 \in 1 .. n /\ (k + 1) - 1 = k
    OBVIOUS
  <2>3. PICK r : r = v(k + 1)
    OBVIOUS
  <2>4. PICK a : a = Vals(k)
    OBVIOUS
  <2>5. Append(a, r) = Vals(k + 1)
    <3>1. \A i \in 1 .. k : v(i) \in S
      <4> HIDE DEF v
      <4> QED
        BY <2>2
    <3>2. r \in S
      <4> HIDE DEF v
      <4> QED
        BY <2>2, <2>3
    <3> HIDE DEF S, v
    <3>3. a \in [1 .. k -> S] /\ \A i \in 1 .. k : a[i] = v(i)
      BY <2>4, <3>1
    <3>4. a \in Seq(S)
      BY <3>3
    <3>5. Len(a) = k
      BY <3>3, <3>4, LenProperties
    <3>6. PICK b : b = Append(a, r)
      OBVIOUS
    <3>7. b \in Seq(S) /\ Len(b) = k + 1 /\ b[k + 1] = r /\ \A i \in 1 .. k : b[i] = a[i]
      BY <3>2, <3>4, <3>5, <3>6, AppendProperties
    <3>8. \A i \in 1 .. k + 1 : b[i] = v(i)
      BY <2>3, <3>3, <3>7
    <3>9. b = [i \in 1 .. k + 1 |-> b[i]]
      BY <3>7, LenProperties
    <3> QED
      BY <3>6, <3>8, <3>9
  <2> HIDE DEF v, Vals, J
  <2>6. st[k].ok /\ st[k].o = e[k] /\ st[k].vals = a
    BY <2>1, <2>4
  <2>7. e[k] \in Nat /\ e[k + 1] \in Nat /\ e[k + 1] = e[k] + sizes[k + 1] /\ e[k + 1] <= e[n]
        /\ e[n] \in Nat
    <3>1. k \in 0 .. n /\ k + 1 \in 0 .. n /\ n \in 0 .. n
      BY <2>2
    <3> QED
      BY <2>2, <3>1 DEF Reaches
  <2>8. ~ (st[k].o + sizes[k + 1] > p.len)
    BY <2>6, <2>7
  <2>9. r = Read(p, st[k].o, sizes[k + 1])
    BY <2>2, <2>3, <2>6 DEF v
  <2>10. st[k + 1] = [ok |-> TRUE, o |-> st[k].o + sizes[k + 1],
                      vals |-> Append(st[k].vals, Read(p, st[k].o, sizes[k + 1]))]
    <3>1. st[k + 1] = WalkStep(p, st[k], sizes[k + 1])
      BY <1>3, <2>2
    <3> QED
      BY <2>6, <2>8, <3>1 DEF WalkStep
  <2> QED
    BY <2>5, <2>6, <2>7, <2>9, <2>10
<1>7. n \in J
  <2> HIDE DEF J
  <2> QED
    BY <1>5, <1>6, Ends!CountUp
<1> QED
  BY <1>4, <1>7

-----------------------------------------------------------------------------
(* A profile says what the layout does. *)
ProfileOf(l, prof) ==
  LET b == l.blocks[1]
  IN /\ prof.ok /\ prof.format = b.format /\ prof.numPMU = Len(l.blocks)
     /\ prof.timeBase = l.timeBase /\ prof.dataRate = l.dataRate
     /\ prof.phnmr = Len(b.phasors) /\ prof.annmr = Len(b.analogs)
     /\ prof.dgnmr = b.dgnmr
     /\ prof.channels = [i \in 1 .. Channels(b) |-> Channel(b, i)]
     /\ prof.fnom = Fnom(b) /\ prof.payload = DataSize(b)
     /\ \A s \in AnySample : prof.total = DataRaw(l, s).p.len

(* A CFG-2 that is cut anywhere but at its end is not accepted. *)
LEMMA ParseCut ==
  ASSUME NEW l \in AnyLayout, NEW n \in Nat, NEW raw, raw.p = Cut(CfgRaw(l).p, n),
         NEW prof, prof = ParseCFG2Frame(raw), prof.ok
  PROVE  n = CfgRaw(l).p.len /\ ProfileOf(l, prof)
<1>1. PICK p, q : p = CfgRaw(l).p /\ q = Cut(p, n)
  OBVIOUS
<1>2. PICK z, base : CfgHolds(l, p, z, base)
  BY <1>1, CfgLaid
<1>3. q.len = n
  BY <1>1 DEF Cut
<1>4. PICK blocks, m : blocks = l.blocks /\ m = Len(blocks)
  OBVIOUS
<1>5. /\ blocks \in Seq(AnyBlock) /\ m \in Nat \ {0} /\ l.timeBase \in Int /\ l.dataRate \in Int
      /\ blocks[1] \in AnyBlock
  BY <1>4, LayoutParts
<1>6. /\ Holds(p, 0, Field(4, "timebase", l.timeBase)) /\ Holds(p, 4, Field(2, "count", m))
      /\ Bases(p, 6, BlocksOf(blocks), m, z, base) /\ Holds(p, z, Field(2, "rate", l.dataRate))
      /\ p.len = z + 2 /\ z \in Nat
  BY <1>2, <1>4 DEF CfgHolds
<1>7. PICK count : count = Value(q, 4, 2)
  OBVIOUS
<1>8. PICK walk : walk = Blocks(q, count)
  OBVIOUS
<1>9. PICK first : first = walk.first
  OBVIOUS
<1>10. /\ ~ (n < 34) /\ walk.ok /\ ~ (n # walk.next + 2)
       /\ prof.format = first.format /\ prof.numPMU = count
       /\ prof.timeBase = Value(q, 0, 4)
       /\ prof.phnmr = first.phnmr /\ prof.annmr = first.annmr
       /\ prof.dgnmr = first.dgnmr /\ prof.channels = first.channels
       /\ prof.fnom = first.fnom /\ prof.dataRate = Value(q, walk.next, 2)
       /\ prof.payload = ExpectedDataPayloadSize(first) /\ prof.total = walk.total
  <2>1. raw.p = q
    BY <1>1
  <2> QED
    BY <1>3, <1>7, <1>8, <1>9, <2>1, Accepted
<1>11. n >= 34
  BY <1>10
<1>12. ASSUME NEW o \in Nat, NEW size \in Nat, o + size <= n, NEW kind, NEW val,
              Holds(p, o, Field(size, kind, val))
       PROVE  Value(q, o, size) = val
  BY <1>1, <1>12 DEF Holds, Value, Read, Cut, Field
<1>13. count = m
  <2>1. 4 \in Nat /\ 2 \in Nat /\ 4 + 2 <= n
    BY <1>11
  <2> QED
    BY <1>6, <1>7, <1>12, <2>1
<1>14. Value(q, 0, 4) = l.timeBase
  <2>1. 4 \in Nat /\ 0 \in Nat /\ 0 + 4 <= n
    BY <1>11
  <2> QED
    BY <1>6, <1>12, <2>1
<1>15. ASSUME NEW d, DataEnds(blocks, d)
       PROVE  base[m] <= n /\ walk = BlocksRead(blocks, base, d, m)
  <2>1. 6 <= n /\ m \in Nat
    BY <1>5, <1>11
  <2>2. IF base[m] <= n THEN Blocks(q, m) = BlocksRead(blocks, base, d, m)
        ELSE ~ Blocks(q, m).ok
    BY <1>1, <1>4, <1>5, <1>6, <1>15, <2>1, BlocksCut
  <2> QED
    BY <1>8, <1>10, <1>13, <2>2
<1>16. PICK s \in AnySample : TRUE
  <2>1. [freq |-> 50000, dead |-> {}] \in AnySample
    BY DEF AnySample
  <2> QED
    BY <2>1
<1>17. PICK d : DataEnds(blocks, d)
  BY <1>4, <1>16, DataRawLaid
<1>18. walk.next = z /\ first = BlockRead(blocks[1], 6)
  <2>1. walk = BlocksRead(blocks, base, d, m)
    BY <1>15, <1>17
  <2>2. base[m] = z
    BY <1>6 DEF Bases
  <2>3. m # 0
    BY <1>5
  <2> QED
    BY <1>9, <2>1, <2>2, <2>3 DEF BlocksRead
<1>19. n = z + 2 /\ n = p.len
  BY <1>6, <1>10, <1>18
<1>20. Value(q, z, 2) = l.dataRate
  <2>1. 2 \in Nat /\ z \in Nat /\ z + 2 <= n
    BY <1>6, <1>19
  <2> QED
    BY <1>6, <1>12, <2>1
<1>21. ASSUME NEW t \in AnySample PROVE prof.total = DataRaw(l, t).p.len
  <2>1. PICK e : DataEnds(blocks, e) /\ e[m] = DataRaw(l, t).p.len
    BY <1>4, DataRawLaid
  <2>2. walk.total = e[m]
    BY <1>15, <2>1 DEF BlocksRead
  <2> QED
    BY <1>10, <2>1, <2>2
<1>22. PICK b : b = blocks[1]
  OBVIOUS
<1>23. /\ first.format = b.format /\ first.phnmr = Len(b.phasors)
       /\ first.annmr = Len(b.analogs) /\ first.dgnmr = b.dgnmr
       /\ first.channels = [i \in 1 .. Channels(b) |-> Channel(b, i)]
       /\ first.fnom = Fnom(b)
  BY <1>18, <1>22 DEF BlockRead, Parts
<1>24. prof.payload = DataSize(b)
  BY <1>10, <1>18, <1>22, BlockReadSize
<1>25. ProfileOf(l, prof)
  <2>1. b = l.blocks[1] /\ m = Len(l.blocks)
    BY <1>4, <1>22
  <2>2. prof.dataRate = l.dataRate /\ prof.timeBase = l.timeBase /\ prof.numPMU = m
    BY <1>10, <1>13, <1>14, <1>18, <1>20
  <2> QED
    BY <1>10, <1>21, <1>23, <1>24, <2>1, <2>2 DEF ProfileOf
<1> QED
  BY <1>1, <1>19, <1>25

-----------------------------------------------------------------------------
(* Reading DATA with the profile of its layout. *)
SizesOf(g, f) == Len(g) = Len(f) /\ \A i \in 1 .. Len(f) : g[i] = f[i].size

(* The sizes of five parts are the five parts of the sizes. *)
LEMMA PartedSizes ==
  ASSUME NEW f, NEW a, NEW b, NEW c, NEW d, NEW e, Parted(f, a, b, c, d, e),
         NEW g, NEW sa, NEW sb, NEW sc, NEW sd, NEW se, Parted(g, sa, sb, sc, sd, se),
         SizesOf(sa, a), SizesOf(sb, b), SizesOf(sc, c), SizesOf(sd, d), SizesOf(se, e),
         Len(a) \in Nat, Len(b) \in Nat, Len(c) \in Nat, Len(d) \in Nat, Len(e) \in Nat
  PROVE  SizesOf(g, f)
<1>1. PICK na, nb, nc, nd, ne : /\ na = Len(a) /\ nb = Len(b) /\ nc = Len(c) /\ nd = Len(d)
                                /\ ne = Len(e)
  OBVIOUS
<1>2. na \in Nat /\ nb \in Nat /\ nc \in Nat /\ nd \in Nat /\ ne \in Nat
  BY <1>1
<1>3. /\ Len(f) = na + nb + nc + nd + ne
      /\ \A i \in 1 .. na : f[i] = a[i]
      /\ \A i \in 1 .. nb : f[na + i] = b[i]
      /\ \A i \in 1 .. nc : f[na + nb + i] = c[i]
      /\ \A i \in 1 .. nd : f[na + nb + nc + i] = d[i]
      /\ \A i \in 1 .. ne : f[na + nb + nc + nd + i] = e[i]
  BY <1>1 DEF Parted
<1>4. /\ Len(g) = na + nb + nc + nd + ne
      /\ \A i \in 1 .. na : g[i] = a[i].size
      /\ \A i \in 1 .. nb : g[na + i] = b[i].size
      /\ \A i \in 1 .. nc : g[na + nb + i] = c[i].size
      /\ \A i \in 1 .. nd : g[na + nb + nc + i] = d[i].size
      /\ \A i \in 1 .. ne : g[na + nb + nc + nd + i] = e[i].size
  BY <1>1 DEF Parted, SizesOf
<1>5. ASSUME NEW i \in 1 .. na + nb + nc + nd + ne PROVE g[i] = f[i].size
  <2>1. CASE i <= na
    <3>1. i \in 1 .. na
      BY <1>2, <2>1
    <3> QED
      BY <1>3, <1>4, <3>1
  <2>2. CASE i > na /\ i <= na + nb
    <3>1. i - na \in 1 .. nb /\ na + (i - na) = i
      BY <1>2, <2>2
    <3> QED
      BY <1>3, <1>4, <3>1
  <2>3. CASE i > na + nb /\ i <= na + nb + nc
    <3>1. i - (na + nb) \in 1 .. nc /\ na + nb + (i - (na + nb)) = i
      BY <1>2, <2>3
    <3> QED
      BY <1>3, <1>4, <3>1
  <2>4. CASE i > na + nb + nc /\ i <= na + nb + nc + nd
    <3>1. i - (na + nb + nc) \in 1 .. nd /\ na + nb + nc + (i - (na + nb + nc)) = i
      BY <1>2, <2>4
    <3> QED
      BY <1>3, <1>4, <3>1
  <2>5. CASE i > na + nb + nc + nd
    <3>1. /\ i - (na + nb + nc + nd) \in 1 .. ne
          /\ na + nb + nc + nd + (i - (na + nb + nc + nd)) = i
      BY <1>2, <2>5
    <3> QED
      BY <1>3, <1>4, <3>1
  <2> QED
    BY <1>2, <2>1, <2>2, <2>3, <2>4, <2>5, SMTT(30)
<1> QED
  BY <1>3, <1>4, <1>5 DEF SizesOf

(* n reads of one size. *)
Repeated(n, c) == [i \in 1 .. n |-> c]

(* A size that repeats. *)
LEMMA RepeatedTyped ==
  ASSUME NEW n \in Nat, NEW c \in Nat
  PROVE  /\ Repeated(n, c) \in Seq(Nat) /\ Len(Repeated(n, c)) = n
         /\ \A i \in 1 .. n : Repeated(n, c)[i] = c
<1>1. PICK f : f = [i \in 1 .. n |-> c]
  OBVIOUS
<1>2. f \in [1 .. n -> Nat]
  BY <1>1
<1>3. f \in Seq(Nat)
  BY <1>2
<1>4. Len(f) = n
  BY <1>1, <1>3, LenProperties
<1> QED
  BY <1>1, <1>3, <1>4 DEF Repeated

(* The sizes that are read are those of the fields. *)
LEMMA ReadsAre ==
  ASSUME NEW b \in AnyBlock, NEW s \in AnySample, NEW prof, prof.format = b.format,
         prof.phnmr = Len(b.phasors), prof.annmr = Len(b.analogs), prof.dgnmr = b.dgnmr
  PROVE  Reads(prof) \in Seq(Nat) /\ SizesOf(Reads(prof), BlockData(b, s))
<1>1. PICK ph, an, dg : ph = Len(b.phasors) /\ an = Len(b.analogs) /\ dg = b.dgnmr
  OBVIOUS
<1>2. ph \in Nat /\ an \in Nat /\ dg \in Nat /\ 2 * ph \in Nat
  <2>1. ph \in Nat /\ an \in Nat /\ dg \in Nat
    BY <1>1, BlockNumbers
  <2> QED
    BY <2>1
<1>3. PICK sp \in Nat : sp = Size(b.format.phFloat)
  BY Sizes
<1>4. PICK sf \in Nat : sf = Size(b.format.freqFloat)
  BY Sizes
<1>5. PICK sa \in Nat : sa = Size(b.format.anFloat)
  BY Sizes
<1>6. PICK g1, g2, g3, g4, g5 :
        /\ g1 = <<2>> /\ g2 = Repeated(2 * ph, sp) /\ g3 = <<sf, sf>>
        /\ g4 = Repeated(an, sa) /\ g5 = Repeated(dg, 2)
  OBVIOUS
<1>7. PICK g : g = g1 \o g2 \o g3 \o g4 \o g5
  OBVIOUS
<1>8. Reads(prof) = g
  BY <1>1, <1>3, <1>4, <1>5, <1>6, <1>7 DEF Reads, Size, Repeated
<1>9. g1 \in Seq(Nat) /\ Len(g1) = 1 /\ \A i \in 1 .. 1 : g1[i] = 2
  BY <1>6
<1>10. g2 \in Seq(Nat) /\ Len(g2) = 2 * ph /\ \A i \in 1 .. 2 * ph : g2[i] = sp
  BY <1>2, <1>6, RepeatedTyped
<1>11. g3 \in Seq(Nat) /\ Len(g3) = 2 /\ \A i \in 1 .. 2 : g3[i] = sf
  BY <1>6
<1>12. g4 \in Seq(Nat) /\ Len(g4) = an /\ \A i \in 1 .. an : g4[i] = sa
  BY <1>2, <1>6, RepeatedTyped
<1>13. g5 \in Seq(Nat) /\ Len(g5) = dg /\ \A i \in 1 .. dg : g5[i] = 2
  <2>1. PICK two \in Nat : two = 2
    OBVIOUS
  <2>2. g5 = Repeated(dg, two)
    BY <1>6, <2>1
  <2>3. Repeated(dg, two) \in Seq(Nat) /\ Len(Repeated(dg, two)) = dg
    BY <1>2, RepeatedTyped
  <2>4. \A i \in 1 .. dg : g5[i] = 2
    BY <2>1, <2>2 DEF Repeated
  <2> QED
    BY <2>2, <2>3, <2>4
<1>14. g \in Seq(Nat) /\ Parted(g, g1, g2, g3, g4, g5)
  BY <1>7, <1>9, <1>10, <1>11, <1>12, <1>13, ConcatFive
<1>15. PICK f, f1, f2, f3, f4, f5 :
         /\ f = BlockData(b, s) /\ f1 = StatFields /\ f2 = PhasorFields(b, s)
         /\ f3 = FreqFields(b, s) /\ f4 = AnalogFields(b) /\ f5 = DigitalFields(b)
  OBVIOUS
<1>16. Parted(f, f1, f2, f3, f4, f5)
  BY <1>15, BlockDataTyped
<1>17. Len(f1) = 1 /\ Len(f2) = 2 * ph /\ Len(f3) = 2 /\ Len(f4) = an /\ Len(f5) = dg
  BY <1>1, <1>15, DataTyped
<1>18. SizedAs(f1, 2) /\ SizedAs(f2, sp) /\ SizedAs(f3, sf) /\ SizedAs(f4, sa) /\ SizedAs(f5, 2)
  BY <1>3, <1>4, <1>5, <1>15, PartSizes
<1>19. /\ Len(g1) = Len(f1) /\ Len(g2) = Len(f2) /\ Len(g3) = Len(f3) /\ Len(g4) = Len(f4)
       /\ Len(g5) = Len(f5)
       /\ Len(f1) \in Nat /\ Len(f2) \in Nat /\ Len(f3) \in Nat /\ Len(f4) \in Nat
       /\ Len(f5) \in Nat
  BY <1>2, <1>9, <1>10, <1>11, <1>12, <1>13, <1>17
<1>20. SizesOf(g1, f1)
  BY <1>9, <1>17, <1>18 DEF SizedAs, SizesOf
<1>21. SizesOf(g2, f2)
  BY <1>10, <1>17, <1>18 DEF SizedAs, SizesOf
<1>22. SizesOf(g3, f3)
  BY <1>11, <1>17, <1>18 DEF SizedAs, SizesOf
<1>23. SizesOf(g4, f4)
  BY <1>12, <1>17, <1>18 DEF SizedAs, SizesOf
<1>24. SizesOf(g5, f5)
  BY <1>13, <1>17, <1>18 DEF SizedAs, SizesOf
<1>25. SizesOf(g, f)
  BY <1>14, <1>16, <1>19, <1>20, <1>21, <1>22, <1>23, <1>24, PartedSizes
<1> QED
  BY <1>8, <1>14, <1>15, <1>25

(* What a profile says of the first block. *)
LEMMA ProfileParts ==
  ASSUME NEW l \in AnyLayout, NEW prof, ProfileOf(l, prof), NEW b, b = l.blocks[1]
  PROVE  /\ b \in AnyBlock /\ prof.format = b.format
         /\ prof.phnmr = Len(b.phasors) /\ prof.annmr = Len(b.analogs)
         /\ prof.dgnmr = b.dgnmr /\ prof.payload = DataSize(b)
         /\ \A s \in AnySample : prof.total = DataRaw(l, s).p.len
BY LayoutParts DEF ProfileOf

(* The reads of a profile's DATA, and the fields they meet. *)
LEMMA Reached ==
  ASSUME NEW l \in AnyLayout, NEW prof, ProfileOf(l, prof), NEW s \in AnySample,
         NEW f, f = BlockData(l.blocks[1], s)
  PROVE  \E n \in Nat : \E e :
           /\ Len(f) = n /\ Reads(prof) \in [1 .. n -> Nat] /\ Reaches(Reads(prof), e, n)
           /\ e[n] = prof.payload /\ SizesOf(Reads(prof), f)
           /\ Standing(DataRaw(l, s).p, f, e)
           /\ prof.payload <= prof.total /\ prof.total \in Nat
<1>1. PICK b, p, r : b = l.blocks[1] /\ p = DataRaw(l, s).p /\ r = Reads(prof)
  OBVIOUS
<1>2. /\ b \in AnyBlock /\ prof.payload = DataSize(b) /\ prof.total = p.len
      /\ r \in Seq(Nat) /\ SizesOf(r, f)
  <2>1. /\ b \in AnyBlock /\ prof.payload = DataSize(b) /\ prof.total = p.len
        /\ prof.format = b.format /\ prof.phnmr = Len(b.phasors)
        /\ prof.annmr = Len(b.analogs) /\ prof.dgnmr = b.dgnmr
    BY <1>1, ProfileParts
  <2>2. r \in Seq(Nat) /\ SizesOf(r, f)
    BY <1>1, <2>1, ReadsAre
  <2> QED
    BY <2>1, <2>2
<1>3. p.len \in Nat /\ DataSize(b) <= p.len /\ Laid(p, 0, f, DataSize(b))
  BY <1>1, DataRawLaid
<1>4. f \in Seq(Fields)
  BY <1>1, <1>2, BlockDataTyped
<1>5. PICK n : n = Len(f)
  OBVIOUS
<1>6. n \in Nat
  BY <1>4, <1>5, LenProperties
<1>7. PICK e \in [0 .. n -> Nat] :
        e[0] = 0 /\ e[n] = DataSize(b) /\ Offsets(f, e) /\ Standing(p, f, e)
  BY <1>3, <1>5 DEF Laid
<1>8. Len(r) = n /\ \A i \in 1 .. n : r[i] = f[i].size
  BY <1>2, <1>5 DEF SizesOf
<1>9. r \in [1 .. n -> Nat]
  BY <1>2, <1>8, LenProperties
<1>10. ASSUME NEW i \in 1 .. n PROVE e[i] = e[i - 1] + r[i] /\ e[i - 1] < e[i]
  <2>1. f[i] \in Fields
    BY <1>4, <1>5, ElementOfSeq
  <2>2. f[i].size \in Nat \ {0}
    BY <2>1 DEF Fields
  <2>3. e[i] = e[i - 1] + f[i].size
    BY <1>5, <1>7 DEF Offsets
  <2>4. e[i - 1] \in Nat /\ e[i] \in Nat
    BY <1>6, <1>7
  <2>5. r[i] = f[i].size
    BY <1>8
  <2> QED
    BY <2>2, <2>3, <2>4, <2>5
<1>11. \A i \in 0 .. n : e[i] \in Nat
  BY <1>7
<1>12. \A i, j \in 0 .. n : i < j => e[i] < e[j]
  BY <1>6, <1>10, <1>11, Increasing
<1>13. ASSUME NEW i \in 1 .. n PROVE e[i] <= e[n]
  <2>1. i \in 0 .. n /\ n \in 0 .. n /\ (i < n \/ i = n)
    BY <1>6
  <2>2. e[i] \in Nat /\ e[n] \in Nat
    BY <1>11, <2>1
  <2> QED
    BY <1>12, <2>1, <2>2
<1>14. Reaches(r, e, n)
  BY <1>7, <1>10, <1>11, <1>13 DEF Reaches
<1> QED
  BY <1>1, <1>2, <1>3, <1>5, <1>6, <1>7, <1>9, <1>14

(* Every payload that passes the check of its length is long enough. *)
LEMMA WalkAny ==
  ASSUME NEW l \in AnyLayout, NEW prof, ProfileOf(l, prof),
         NEW p, p.len = prof.total
  PROVE  Walk(p, Reads(prof)).ok /\ Walk(p, Reads(prof)).o = prof.payload
<1>2. PICK s \in AnySample : TRUE
  <2>1. [freq |-> 50000, dead |-> {}] \in AnySample
    BY DEF AnySample
  <2> QED
    BY <2>1
<1>3. PICK f : f = BlockData(l.blocks[1], s)
  OBVIOUS
<1>4a. PICK n \in Nat : \E e :
           /\ Len(f) = n /\ Reads(prof) \in [1 .. n -> Nat] /\ Reaches(Reads(prof), e, n)
           /\ e[n] = prof.payload /\ SizesOf(Reads(prof), f)
           /\ Standing(DataRaw(l, s).p, f, e)
           /\ prof.payload <= prof.total /\ prof.total \in Nat
  BY <1>2, <1>3, Reached
<1>4. PICK e : /\ Reads(prof) \in [1 .. n -> Nat] /\ Reaches(Reads(prof), e, n)
               /\ e[n] = prof.payload /\ prof.payload <= prof.total /\ prof.total \in Nat
  BY <1>4a
<1>5. Walk(p, Reads(prof)) = [ok |-> TRUE, o |-> e[n],
                              vals |-> [i \in 1 .. n |-> Read(p, e[i - 1], Reads(prof)[i])]]
  BY <1>4, WalkReads
<1> QED
  BY <1>4, <1>5

(* The fields of its own DATA come out as they went in. *)
LEMMA WalkData ==
  ASSUME NEW l \in AnyLayout, NEW prof, ProfileOf(l, prof), NEW s \in AnySample,
         NEW f, f = BlockData(l.blocks[1], s), NEW p, p = DataRaw(l, s).p
  PROVE  /\ p.len = prof.total
         /\ Walk(p, Reads(prof)).ok /\ Walk(p, Reads(prof)).o = prof.payload
         /\ Walk(p, Reads(prof)).vals = f
<1>1a. PICK n \in Nat : \E e :
           /\ Len(f) = n /\ Reads(prof) \in [1 .. n -> Nat] /\ Reaches(Reads(prof), e, n)
           /\ e[n] = prof.payload /\ SizesOf(Reads(prof), f)
           /\ Standing(p, f, e)
           /\ prof.payload <= prof.total /\ prof.total \in Nat
  BY Reached
<1>1. PICK e :
        /\ Len(f) = n /\ Reads(prof) \in [1 .. n -> Nat] /\ Reaches(Reads(prof), e, n)
        /\ e[n] = prof.payload /\ SizesOf(Reads(prof), f)
        /\ Standing(p, f, e)
        /\ prof.payload <= prof.total /\ prof.total \in Nat
  BY <1>1a
<1>2. p.len = prof.total
  BY ProfileParts
<1>3. Walk(p, Reads(prof)) = [ok |-> TRUE, o |-> e[n],
                              vals |-> [i \in 1 .. n |-> Read(p, e[i - 1], Reads(prof)[i])]]
  <2>1. p.len \in Nat /\ e[n] <= p.len
    BY <1>1, <1>2
  <2>2. PICK sizes : sizes = Reads(prof)
    OBVIOUS
  <2>3. sizes \in [1 .. n -> Nat] /\ Reaches(sizes, e, n)
    BY <1>1, <2>2
  <2>4. Walk(p, sizes) = [ok |-> TRUE, o |-> e[n],
                          vals |-> [i \in 1 .. n |-> Read(p, e[i - 1], sizes[i])]]
    BY <2>1, <2>3, WalkReads, ZenonT(30)
  <2> QED
    BY <2>2, <2>4
<1>4. ASSUME NEW i \in 1 .. n PROVE Read(p, e[i - 1], Reads(prof)[i]) = f[i]
  <2>1. Reads(prof)[i] = f[i].size /\ e[i - 1] \in DOMAIN p.at /\ p.at[e[i - 1]] = f[i]
    BY <1>1 DEF SizesOf, Standing
  <2> QED
    BY <2>1 DEF Read
<1>5. f \in Seq(Fields)
  <2>1. l.blocks[1] \in AnyBlock
    BY ProfileParts
  <2> QED
    BY <2>1, BlockDataTyped
<1>6. f = [i \in 1 .. n |-> f[i]]
  BY <1>1, <1>5, LenProperties
<1>7. [i \in 1 .. n |-> Read(p, e[i - 1], Reads(prof)[i])] = f
  BY <1>4, <1>6
<1>8. /\ Walk(p, Reads(prof)).ok /\ Walk(p, Reads(prof)).o = e[n]
      /\ Walk(p, Reads(prof)).vals = f
  BY <1>3, <1>7
<1> QED
  BY <1>1, <1>2, <1>8

(* What parseDataWithProfile returns of the values it walked over. *)
Phasors(cfg, vals) ==
  [i \in 1 .. cfg.phnmr |->
     [magnitude |-> vals[2 * i].val, source |-> vals[2 * i], angle |-> vals[2 * i + 1]]]

NamesOf(cfg) == [i \in 1 .. cfg.phnmr |-> cfg.channels[i].val]

Decoded(raw, cfg, vals, names, phasors, f, freq, nominal) ==
  [ok |-> TRUE,
   timestamp |-> Timestamp(raw.soc, raw.frac, cfg.timeBase),
   stat |-> vals[1].val,
   phasors |-> [i \in 1 .. cfg.phnmr |->
                  [name |-> NameOr(names[i], "PH"), phasor |-> phasors[i]]],
   standard |-> mapPhasorsToStandard(names, phasors),
   frequency |-> freq, frequencyDeviation |-> freq - nominal,
   fnomHz |-> nominal, rocof |-> vals[f + 2],
   analogs |-> [i \in 1 .. cfg.annmr |->
                  [name |-> NameOr(cfg.channels[cfg.phnmr + i].val, "ANA"),
                   value |-> vals[f + 2 + i]]],
   digitals |-> [i \in 1 .. cfg.dgnmr |-> vals[f + 2 + cfg.annmr + i]],
   digitalNames |-> [i \in 1 .. Len(cfg.channels) - cfg.phnmr - cfg.annmr |->
                       cfg.channels[cfg.phnmr + cfg.annmr + i].val]]

Checked(raw, cfg, walk, decoded) ==
  IF raw.type # "data" THEN Failed("type")
  ELSE IF raw.p.len # cfg.total THEN Failed("length")
  ELSE IF ~ walk.ok THEN Failed("short")
  ELSE IF walk.o # cfg.payload THEN Failed("block")
  ELSE decoded

(* parseDataWithProfile in its parts. *)
LEMMA ReadingParts ==
  ASSUME NEW raw, NEW cfg, raw.type = "data", ~ (raw.p.len # cfg.total),
         NEW walk, walk = Walk(raw.p, Reads(cfg)), walk.ok, ~ (walk.o # cfg.payload),
         NEW vals, vals = walk.vals, NEW f, f = 1 + 2 * cfg.phnmr,
         NEW freq, freq = IF cfg.format.freqFloat THEN vals[f + 1].val
                          ELSE cfg.fnom + vals[f + 1].val
  PROVE  parseDataWithProfile(raw, cfg) =
           Decoded(raw, cfg, vals, NamesOf(cfg), Phasors(cfg, vals), f, freq,
                   ResolveNominalHz(freq, cfg.fnom, cfg.format.freqFloat))
<1> DEFINE w == Walk(raw.p, Reads(cfg))
           g == 1 + 2 * cfg.phnmr
           x == IF cfg.format.freqFloat THEN w.vals[g + 1].val
                ELSE cfg.fnom + w.vals[g + 1].val
<1>1. parseDataWithProfile(raw, cfg) =
        Checked(raw, cfg, w, Decoded(raw, cfg, w.vals, NamesOf(cfg), Phasors(cfg, w.vals), g, x,
                                     ResolveNominalHz(x, cfg.fnom, cfg.format.freqFloat)))
  BY SMT DEF parseDataWithProfile, Checked, Decoded, NamesOf, Phasors
<1> HIDE DEF w, g, x
<1>2. w = walk /\ g = f
  BY DEF w, g
<1>3. x = freq
  BY <1>2 DEF x
<1>4. parseDataWithProfile(raw, cfg) =
        Checked(raw, cfg, walk, Decoded(raw, cfg, vals, NamesOf(cfg), Phasors(cfg, vals), f, freq,
                                        ResolveNominalHz(freq, cfg.fnom, cfg.format.freqFloat)))
  BY <1>1, <1>2, <1>3, Zenon
<1> QED
  BY <1>4 DEF Checked

Shaped(b, ph, an, dg) == ph = Len(b.phasors) /\ an = Len(b.analogs) /\ dg = b.dgnmr

(* The fields of DATA, by their numbers. *)
LEMMA DataAt ==
  ASSUME NEW b \in AnyBlock, NEW s \in AnySample, NEW f, f = BlockData(b, s),
         NEW ph, NEW an, NEW dg, Shaped(b, ph, an, dg)
  PROVE  /\ \A i \in 1 .. 2 * ph : f[1 + i] = PhasorField(b, s, i)
         /\ f[2 * ph + 2] = Field(Size(b.format.freqFloat), "freq",
                                  IF b.format.freqFloat THEN s.freq ELSE s.freq - Fnom(b))
         /\ f[2 * ph + 3] = Field(Size(b.format.freqFloat), "rocof", 1)
         /\ \A i \in 1 .. an : f[2 * ph + 3 + i] = Field(Size(b.format.anFloat), "analog", i)
         /\ \A i \in 1 .. dg : f[2 * ph + 3 + an + i] = Field(2, "digital", i)
<1>0. ph = Len(b.phasors) /\ an = Len(b.analogs) /\ dg = b.dgnmr
  BY DEF Shaped
<1>1. ph \in Nat /\ an \in Nat /\ dg \in Nat
  BY <1>0, BlockNumbers
<1>2. PICK f1, f2, f3, f4, f5 :
        /\ f1 = StatFields /\ f2 = PhasorFields(b, s) /\ f3 = FreqFields(b, s)
        /\ f4 = AnalogFields(b) /\ f5 = DigitalFields(b)
  OBVIOUS
<1>3. Len(f1) = 1 /\ Len(f2) = 2 * ph /\ Len(f3) = 2 /\ Len(f4) = an /\ Len(f5) = dg
  BY <1>0, <1>2, DataTyped
<1>4. Parted(f, f1, f2, f3, f4, f5)
  BY <1>2, BlockDataTyped
<1>5. PICK np : np = 2 * ph
  OBVIOUS
<1>6. np \in Nat
  BY <1>1, <1>5
<1>7. /\ \A i \in 1 .. np : f[1 + i] = f2[i]
      /\ \A i \in 1 .. 2 : f[1 + np + i] = f3[i]
      /\ \A i \in 1 .. an : f[1 + np + 2 + i] = f4[i]
      /\ \A i \in 1 .. dg : f[1 + np + 2 + an + i] = f5[i]
  BY <1>3, <1>4, <1>5 DEF Parted
<1>8. ASSUME NEW i \in 1 .. np PROVE f[1 + i] = PhasorField(b, s, i)
  <2>1. f2[i] = PhasorField(b, s, i)
    BY <1>0, <1>2, <1>5 DEF PhasorFields
  <2> QED
    BY <1>7, <2>1
<1>9. f[np + 2] = f3[1] /\ f[np + 3] = f3[2]
  <2>1. 1 + np + 1 = np + 2 /\ 1 + np + 2 = np + 3 /\ 1 \in 1 .. 2 /\ 2 \in 1 .. 2
    BY <1>6
  <2>2. f[1 + np + 1] = f3[1] /\ f[1 + np + 2] = f3[2]
    BY <1>7, <2>1
  <2> QED
    BY <2>1, <2>2
<1>10. /\ f3[1] = Field(Size(b.format.freqFloat), "freq",
                        IF b.format.freqFloat THEN s.freq ELSE s.freq - Fnom(b))
       /\ f3[2] = Field(Size(b.format.freqFloat), "rocof", 1)
  BY <1>2 DEF FreqFields
<1>11. ASSUME NEW i \in 1 .. an
       PROVE  f[np + 3 + i] = Field(Size(b.format.anFloat), "analog", i)
  <2>1. f4[i] = Field(Size(b.format.anFloat), "analog", i)
    BY <1>0, <1>2 DEF AnalogFields, Each
  <2>2. 1 + np + 2 + i = np + 3 + i
    BY <1>1, <1>6
  <2>3. f[1 + np + 2 + i] = f4[i]
    BY <1>7
  <2> QED
    BY <2>1, <2>2, <2>3
<1>12. ASSUME NEW i \in 1 .. dg PROVE f[np + 3 + an + i] = Field(2, "digital", i)
  <2>1. f5[i] = Field(2, "digital", i)
    BY <1>0, <1>2 DEF DigitalFields, Each
  <2>2. 1 + np + 2 + an + i = np + 3 + an + i
    BY <1>1, <1>6
  <2>3. f[1 + np + 2 + an + i] = f5[i]
    BY <1>7
  <2> QED
    BY <2>1, <2>2, <2>3
<1> QED
  BY <1>5, <1>8, <1>9, <1>10, <1>11, <1>12

(* The bands of the frequencies of Samples. *)
Nearby(freq) == CHOOSE band \in {50000, 60000} : abs(freq - band) < 3000

BandOf(b, freq) == IF ~ b.format.freqFloat THEN Fnom(b) ELSE Nearby(freq)

(* The nominal frequency that a sample is measured against. *)
LEMMA Bands ==
  ASSUME NEW s \in Samples, NEW b, b.format.freqFloat \in BOOLEAN
  PROVE  ResolveNominalHz(s.freq, Fnom(b), b.format.freqFloat) = BandOf(b, s.freq)
<1>1. PICK freq, fnom : freq = s.freq /\ fnom = Fnom(b)
  OBVIOUS
<1>2. freq = 47100 \/ freq = 50000 \/ freq = 50020 \/ freq = 59980
  BY <1>1 DEF Samples
<1>3. fnom = 50000 \/ fnom = 60000
  BY <1>1 DEF Fnom
<1>4. PICK res, band :
        res = ResolveNominalHz(freq, fnom, b.format.freqFloat) /\ band = BandOf(b, freq)
  OBVIOUS
<1>5. ASSUME ~ b.format.freqFloat PROVE res = band
  BY <1>1, <1>4, <1>5 DEF ResolveNominalHz, BandOf
<1>6. ASSUME b.format.freqFloat, freq # 59980 PROVE res = band
  <2>1. /\ abs(freq - 50000) < 3000 /\ ~ (abs(freq - 60000) < 3000)
        /\ ~ (abs(freq - 50000) > 5000) /\ abs(freq - 60000) > 5000
    BY <1>2, <1>6 DEF abs
  <2>2. Nearby(freq) = 50000
    BY <2>1 DEF Nearby
  <2>3. band = 50000
    BY <1>4, <1>6, <2>2 DEF BandOf
  <2>4. res = 50000
    BY <1>3, <1>4, <1>6, <2>1 DEF ResolveNominalHz
  <2> QED
    BY <2>3, <2>4
<1>7. ASSUME b.format.freqFloat, freq = 59980 PROVE res = band
  <2>1. /\ abs(freq - 60000) < 3000 /\ ~ (abs(freq - 50000) < 3000)
        /\ ~ (abs(freq - 60000) > 5000) /\ abs(freq - 50000) > 5000
    BY <1>7 DEF abs
  <2>2. Nearby(freq) = 60000
    BY <2>1 DEF Nearby
  <2>3. band = 60000
    BY <1>4, <1>7, <2>2 DEF BandOf
  <2>4. res = 60000
    BY <1>3, <1>4, <1>7, <2>1 DEF ResolveNominalHz
  <2> QED
    BY <2>3, <2>4
<1>8. res = band
  BY <1>5, <1>6, <1>7
<1> QED
  BY <1>1, <1>4, <1>8, Zenon

(* The values of the channels c of a block, by their numbers. *)
ValuesAre(c, b, ph, an, dg) ==
  /\ Len(c) = ph + an + 16 * dg
  /\ \A i \in 1 .. ph : c[i].val = b.phasors[i]
  /\ \A i \in 1 .. an : c[ph + i].val = b.analogs[i]
  /\ \A i \in 1 .. 16 * dg : c[ph + an + i].val = i

(* The channels of a profile, by their numbers. *)
LEMMA ChannelVals ==
  ASSUME NEW l \in AnyLayout, NEW prof, ProfileOf(l, prof), NEW b, b = l.blocks[1],
         NEW ph, NEW an, NEW dg, Shaped(b, ph, an, dg)
  PROVE  ValuesAre(prof.channels, b, ph, an, dg)
<1>1. b \in AnyBlock
  BY LayoutParts
<1>2a. ph = Len(b.phasors) /\ an = Len(b.analogs) /\ dg = b.dgnmr
  BY DEF Shaped
<1>2. ph \in Nat /\ an \in Nat /\ dg \in Nat
  BY <1>1, <1>2a, BlockNumbers
<1>3. PICK c : c = Channels(b)
  OBVIOUS
<1>4. c = ph + an + 16 * dg
  BY <1>1, <1>2a, <1>3, BlockNumbers
<1>5. c \in Nat
  BY <1>2, <1>4
<1>6. prof.channels = [i \in 1 .. c |-> Channel(b, i)]
  BY <1>3 DEF ProfileOf
<1>7. Len(prof.channels) = c
  <2>1. PICK S : S = {Channel(b, i) : i \in 1 .. c}
    OBVIOUS
  <2>2. \A i \in 1 .. c : Channel(b, i) \in S
    BY <2>1
  <2>3. PICK f : f = [i \in 1 .. c |-> Channel(b, i)]
    OBVIOUS
  <2>4. f \in [1 .. c -> S]
    BY <2>2, <2>3
  <2>5. f \in Seq(S)
    BY <1>5, <2>4
  <2> QED
    BY <1>5, <1>6, <2>3, <2>5, LenProperties
<1>8. ASSUME NEW i \in 1 .. ph PROVE prof.channels[i].val = b.phasors[i]
  <2>1. i \in 1 .. c /\ i <= ph
    BY <1>2, <1>4
  <2>2. Channel(b, i) = Field(16, "name", b.phasors[i])
    BY <1>2a, <2>1 DEF Channel
  <2> QED
    BY <1>6, <2>1, <2>2 DEF Field
<1>9. ASSUME NEW i \in 1 .. an PROVE prof.channels[ph + i].val = b.analogs[i]
  <2>1. PICK k \in Nat : k = ph + i
    BY <1>2
  <2>2. k \in 1 .. c /\ ~ (k <= ph) /\ k <= ph + an /\ k - ph = i
    BY <1>2, <1>4, <2>1
  <2>3. Channel(b, k) = Field(16, "name", b.analogs[i])
    BY <1>2a, <2>2 DEF Channel
  <2> QED
    BY <1>6, <2>1, <2>2, <2>3 DEF Field
<1>10. ASSUME NEW i \in 1 .. 16 * dg PROVE prof.channels[ph + an + i].val = i
  <2>1. PICK k \in Nat : k = ph + an + i
    BY <1>2
  <2>2. k \in 1 .. c /\ ~ (k <= ph) /\ ~ (k <= ph + an) /\ k - ph - an = i
    BY <1>2, <1>4, <2>1
  <2>3. Channel(b, k) = Field(16, "bit", i)
    BY <1>2a, <2>2 DEF Channel
  <2> QED
    BY <1>6, <2>1, <2>2, <2>3 DEF Field
<1> QED
  BY <1>4, <1>7, <1>8, <1>9, <1>10 DEF ValuesAre

(* The walk over a sample's own DATA. *)
LEMMA WalkOwn ==
  ASSUME NEW l \in AnyLayout, NEW prof, ProfileOf(l, prof), NEW s \in AnySample
  PROVE  /\ DataRaw(l, s).p.len = prof.total
         /\ Walk(DataRaw(l, s).p, Reads(prof)).ok
         /\ Walk(DataRaw(l, s).p, Reads(prof)).o = prof.payload
         /\ Walk(DataRaw(l, s).p, Reads(prof)).vals = BlockData(l.blocks[1], s)
<1>1. PICK f : f = BlockData(l.blocks[1], s)
  OBVIOUS
<1>2. PICK p : p = DataRaw(l, s).p
  OBVIOUS
<1>3. /\ p.len = prof.total
      /\ Walk(p, Reads(prof)).ok /\ Walk(p, Reads(prof)).o = prof.payload
      /\ Walk(p, Reads(prof)).vals = f
  BY <1>1, <1>2, WalkData
<1> QED
  BY <1>1, <1>2, <1>3

(* The reading of a sample that a PMU of this layout sends. *)
LEMMA Measured ==
  ASSUME NEW l \in AnyLayout, NEW prof, ProfileOf(l, prof), NEW b, b = l.blocks[1],
         NEW s \in Samples, NEW r, r = parseDataWithProfile(DataRaw(l, s), prof),
         NEW size, size = Size(b.format.phFloat)
  PROVE  /\ r.ok
         /\ [i \in DOMAIN r.phasors |-> r.phasors[i].name] = Named(b.phasors, "PH")
         /\ \A i \in DOMAIN r.phasors :
              /\ r.phasors[i].phasor.source = Field(size, "magnitude", i)
              /\ r.phasors[i].phasor.angle = Field(size, "angle", i)
         /\ r.frequency = s.freq /\ r.rocof.kind = "rocof"
         /\ r.frequencyDeviation = s.freq - BandOf(b, s.freq)
         /\ [i \in DOMAIN r.analogs |-> r.analogs[i].name] = Named(b.analogs, "ANA")
         /\ \A i \in DOMAIN r.analogs :
              r.analogs[i].value.kind = "analog" /\ r.analogs[i].value.val = i
         /\ \A i \in DOMAIN r.digitals : r.digitals[i] = Field(2, "digital", i)
         /\ r.digitalNames = [i \in 1 .. 16 * b.dgnmr |-> i]
<1>1. s \in AnySample /\ s.dead = {} /\ s.freq \in Int
  BY DEF Samples, AnySample
<1>2. /\ b \in AnyBlock /\ b.phasors \in Seq(Names) /\ b.analogs \in Seq(Names)
      /\ b.format \in Formats
  <2>1. b \in AnyBlock
    BY LayoutParts
  <2> QED
    BY <2>1, BlockNumbers
<1>3. PICK ph, an, dg : ph = Len(b.phasors) /\ an = Len(b.analogs) /\ dg = b.dgnmr
  OBVIOUS
<1>3a. Shaped(b, ph, an, dg)
  BY <1>3 DEF Shaped
<1>4. ph \in Nat /\ an \in Nat /\ dg \in Nat
  BY <1>2, <1>3, BlockNumbers
<1>5. /\ prof.format = b.format /\ prof.phnmr = ph /\ prof.annmr = an /\ prof.dgnmr = dg
      /\ prof.fnom = Fnom(b)
  BY <1>3 DEF ProfileOf
<1>6. PICK raw, vals, walk :
        /\ raw = DataRaw(l, s) /\ vals = BlockData(b, s) /\ walk = Walk(raw.p, Reads(prof))
  OBVIOUS
<1>7. /\ ~ (raw.p.len # prof.total) /\ walk.ok /\ ~ (walk.o # prof.payload)
      /\ vals = walk.vals
  <2>1. /\ raw.p.len = prof.total /\ walk.ok /\ walk.o = prof.payload
        /\ walk.vals = vals
    <3>1. /\ DataRaw(l, s).p.len = prof.total
          /\ Walk(DataRaw(l, s).p, Reads(prof)).ok
          /\ Walk(DataRaw(l, s).p, Reads(prof)).o = prof.payload
          /\ Walk(DataRaw(l, s).p, Reads(prof)).vals = BlockData(l.blocks[1], s)
      BY <1>1, WalkOwn
    <3> QED
      BY <1>6, <3>1
  <2> QED
    BY <2>1
<1>8. raw.type = "data"
  BY <1>6 DEF DataRaw
<1>9. PICK f \in Nat : f = 1 + 2 * ph
  BY <1>4
<1>10. /\ \A i \in 1 .. 2 * ph : vals[1 + i] = PhasorField(b, s, i)
       /\ vals[2 * ph + 2] = Field(Size(b.format.freqFloat), "freq",
                                   IF b.format.freqFloat THEN s.freq ELSE s.freq - Fnom(b))
       /\ vals[2 * ph + 3] = Field(Size(b.format.freqFloat), "rocof", 1)
       /\ \A i \in 1 .. an : vals[2 * ph + 3 + i] = Field(Size(b.format.anFloat), "analog", i)
       /\ \A i \in 1 .. dg : vals[2 * ph + 3 + an + i] = Field(2, "digital", i)
  <2>1. vals = BlockData(b, s) /\ b \in AnyBlock /\ s \in AnySample
    BY <1>1, <1>2, <1>6
  <2> QED
    BY <1>3a, <2>1, DataAt
<1>11. f + 1 = 2 * ph + 2 /\ f + 2 = 2 * ph + 3
  BY <1>4, <1>9
<1>12. vals[f + 1].val = (IF b.format.freqFloat THEN s.freq ELSE s.freq - Fnom(b))
  BY <1>10, <1>11 DEF Field
<1>13. PICK freq : freq = IF prof.format.freqFloat THEN vals[f + 1].val
                          ELSE prof.fnom + vals[f + 1].val
  OBVIOUS
<1>14. freq = s.freq
  <2>1. Fnom(b) \in Int
    BY DEF Fnom
  <2> QED
    BY <1>1, <1>5, <1>12, <1>13, <2>1
<1>15. PICK nominal : nominal = ResolveNominalHz(freq, prof.fnom, prof.format.freqFloat)
  OBVIOUS
<1>16. nominal = BandOf(b, s.freq)
  <2>1. b.format.freqFloat \in BOOLEAN
    BY <1>2 DEF Formats
  <2>2. ResolveNominalHz(s.freq, Fnom(b), b.format.freqFloat) = BandOf(b, s.freq)
    BY <2>1, Bands
  <2> QED
    BY <1>5, <1>14, <1>15, <2>2, Zenon
<1>17. r = Decoded(raw, prof, vals, NamesOf(prof), Phasors(prof, vals), f, freq, nominal)
  <2>1. f = 1 + 2 * prof.phnmr
    BY <1>5, <1>9
  <2>2. parseDataWithProfile(raw, prof) =
          Decoded(raw, prof, vals, NamesOf(prof), Phasors(prof, vals), f, freq,
                  ResolveNominalHz(freq, prof.fnom, prof.format.freqFloat))
    BY <1>6, <1>7, <1>8, <1>13, <2>1, ReadingParts
  <2> QED
    BY <1>6, <1>15, <2>2, Zenon
<1>18. /\ r.ok
       /\ r.phasors = [i \in 1 .. ph |-> [name |-> NameOr(NamesOf(prof)[i], "PH"),
                                          phasor |-> Phasors(prof, vals)[i]]]
       /\ r.frequency = freq /\ r.frequencyDeviation = freq - nominal /\ r.rocof = vals[f + 2]
       /\ r.analogs = [i \in 1 .. an |-> [name |-> NameOr(prof.channels[ph + i].val, "ANA"),
                                          value |-> vals[f + 2 + i]]]
       /\ r.digitals = [i \in 1 .. dg |-> vals[f + 2 + an + i]]
       /\ r.digitalNames = [i \in 1 .. Len(prof.channels) - ph - an |->
                              prof.channels[ph + an + i].val]
  BY <1>5, <1>17 DEF Decoded
<1>19. /\ Len(prof.channels) = ph + an + 16 * dg
       /\ \A i \in 1 .. ph : prof.channels[i].val = b.phasors[i]
       /\ \A i \in 1 .. an : prof.channels[ph + i].val = b.analogs[i]
       /\ \A i \in 1 .. 16 * dg : prof.channels[ph + an + i].val = i
  <2>1. ValuesAre(prof.channels, b, ph, an, dg)
    BY <1>3a, ChannelVals
  <2> QED
    BY <2>1 DEF ValuesAre
<1>20. DOMAIN r.phasors = 1 .. ph /\ DOMAIN r.analogs = 1 .. an /\ DOMAIN r.digitals = 1 .. dg
  BY <1>18
<1>21. [i \in DOMAIN r.phasors |-> r.phasors[i].name] = Named(b.phasors, "PH")
  <2>1. ASSUME NEW i \in 1 .. ph PROVE r.phasors[i].name = NameOr(b.phasors[i], "PH")
    <3>1. NamesOf(prof)[i] = b.phasors[i]
      BY <1>5, <1>19 DEF NamesOf
    <3>2. r.phasors[i].name = NameOr(NamesOf(prof)[i], "PH")
      BY <1>18
    <3> QED
      BY <3>1, <3>2
  <2>2. DOMAIN b.phasors = 1 .. ph
    BY <1>2, <1>3, LenProperties
  <2> QED
    BY <1>20, <2>1, <2>2 DEF Named
<1>22. ASSUME NEW i \in 1 .. ph
       PROVE  /\ r.phasors[i].phasor.source = Field(size, "magnitude", i)
              /\ r.phasors[i].phasor.angle = Field(size, "angle", i)
  <2>1. /\ r.phasors[i].phasor = Phasors(prof, vals)[i]
        /\ Phasors(prof, vals)[i].source = vals[2 * i]
        /\ Phasors(prof, vals)[i].angle = vals[2 * i + 1]
    BY <1>5, <1>18 DEF Phasors
  <2>2. PICK j \in Nat : j = 2 * i - 1
    BY <1>4
  <2>3. /\ j \in 1 .. 2 * ph /\ 1 + j = 2 * i /\ j % 2 = 1 /\ (j + 1) \div 2 = i
        /\ 2 * i \in 1 .. 2 * ph /\ 1 + 2 * i = 2 * i + 1 /\ (2 * i) % 2 = 0
        /\ (2 * i) \div 2 = i
    BY <1>4, <2>2
  <2>4. vals[2 * i] = PhasorField(b, s, j)
    BY <1>10, <2>3
  <2>5. PhasorField(b, s, j) = Field(size, "magnitude", Magnitude(s, i))
    BY <2>3 DEF PhasorField
  <2>6. Magnitude(s, i) = i
    BY <1>1 DEF Magnitude
  <2>7. vals[2 * i + 1] = PhasorField(b, s, 2 * i)
    BY <1>10, <2>3
  <2>8. PhasorField(b, s, 2 * i) = Field(size, "angle", i)
    BY <2>3 DEF PhasorField
  <2> QED
    BY <2>1, <2>4, <2>5, <2>6, <2>7, <2>8
<1>23. r.rocof.kind = "rocof"
  BY <1>10, <1>11, <1>18 DEF Field
<1>24. [i \in DOMAIN r.analogs |-> r.analogs[i].name] = Named(b.analogs, "ANA")
  <2>1. ASSUME NEW i \in 1 .. an PROVE r.analogs[i].name = NameOr(b.analogs[i], "ANA")
    BY <1>18, <1>19
  <2>2. DOMAIN b.analogs = 1 .. an
    BY <1>2, <1>3, LenProperties
  <2> QED
    BY <1>20, <2>1, <2>2 DEF Named
<1>25. ASSUME NEW i \in 1 .. an
       PROVE  r.analogs[i].value.kind = "analog" /\ r.analogs[i].value.val = i
  <2>1. r.analogs[i].value = vals[f + 2 + i]
    BY <1>18
  <2>2. vals[f + 2 + i] = Field(Size(b.format.anFloat), "analog", i)
    BY <1>10, <1>11
  <2> QED
    BY <2>1, <2>2 DEF Field
<1>26. ASSUME NEW i \in 1 .. dg PROVE r.digitals[i] = Field(2, "digital", i)
  <2>1. r.digitals[i] = vals[f + 2 + an + i]
    BY <1>18
  <2> QED
    BY <1>10, <1>11, <2>1
<1>27. r.digitalNames = [i \in 1 .. 16 * dg |-> i]
  <2>1. Len(prof.channels) - ph - an = 16 * dg
    BY <1>4, <1>19
  <2> QED
    BY <1>18, <1>19, <2>1
<1> QED
  BY <1>3, <1>14, <1>16, <1>18, <1>20, <1>21, <1>22, <1>23, <1>24, <1>25, <1>26, <1>27

-----------------------------------------------------------------------------
(* What a profile of the PMU's layout is good for. *)

(* The names of the phasors, then those of the analogs. *)
LEMMA NamesBack ==
  ASSUME NEW b \in AnyBlock, NEW ph, NEW an, NEW dg, Shaped(b, ph, an, dg),
         NEW c, ValuesAre(c, b, ph, an, dg)
  PROVE  [i \in 1 .. ph + an |-> c[i].val] = b.phasors \o b.analogs
<1>1. PICK s1, s2 : s1 = b.phasors /\ s2 = b.analogs
  OBVIOUS
<1>2. s1 \in Seq(Names) /\ s2 \in Seq(Names) /\ Len(s1) = ph /\ Len(s2) = an
  BY <1>1, BlockNumbers DEF Shaped
<1>3. ph \in Nat /\ an \in Nat
  BY <1>2, LenProperties
<1>4. PICK z : z = s1 \o s2
  OBVIOUS
<1>5. z \in Seq(Names) /\ Len(z) = ph + an
  BY <1>2, <1>4, ConcatProperties
<1>6. z = [i \in 1 .. ph + an |-> z[i]]
  BY <1>5, LenProperties
<1>7. ASSUME NEW i \in 1 .. ph + an PROVE c[i].val = z[i]
  <2>1. CASE i <= ph
    <3>1. i \in 1 .. ph
      BY <1>3, <2>1
    <3>2. z[i] = s1[i]
      BY <1>2, <1>4, <3>1, ConcatTwo
    <3>3. c[i].val = s1[i]
      BY <1>1, <3>1 DEF ValuesAre
    <3> QED
      BY <3>2, <3>3
  <2>2. CASE ~ (i <= ph)
    <3>1. PICK k \in 1 .. an : i = ph + k
      <4>1. i - ph \in 1 .. an /\ i = ph + (i - ph)
        BY <1>3, <2>2
      <4> QED
        BY <4>1
    <3>2. z[Len(s1) + k] = s2[k]
      BY <1>2, <1>4, ConcatTwo
    <3>3. c[ph + k].val = s2[k]
      BY <1>1 DEF ValuesAre
    <3> QED
      BY <1>2, <3>1, <3>2, <3>3
  <2> QED
    BY <2>1, <2>2
<1>8. [i \in 1 .. ph + an |-> c[i].val] = [i \in 1 .. ph + an |-> z[i]]
  BY <1>7
<1> QED
  BY <1>1, <1>4, <1>6, <1>8

(* The profile of a layout that came through says what the layout does. *)
LEMMA ComesBack ==
  ASSUME layout \in AnyLayout, ProfileOf(layout, profile)
  PROVE  CfgComesBack
<1>1. PICK b : b = layout.blocks[1]
  OBVIOUS
<1>2. b \in AnyBlock
  BY <1>1, LayoutParts
<1>3. PICK ph, an, dg : ph = Len(b.phasors) /\ an = Len(b.analogs) /\ dg = b.dgnmr
  OBVIOUS
<1>4. Shaped(b, ph, an, dg)
  BY <1>3 DEF Shaped
<1>5. PICK c : c = profile.channels
  OBVIOUS
<1>6. ValuesAre(c, b, ph, an, dg)
  BY <1>1, <1>4, <1>5, ChannelVals
<1>7. [i \in 1 .. ph + an |-> c[i].val] = b.phasors \o b.analogs
  BY <1>2, <1>4, <1>6, NamesBack
<1>8. /\ profile.format = b.format /\ profile.numPMU = Len(layout.blocks)
      /\ profile.timeBase = layout.timeBase /\ profile.dataRate = layout.dataRate
      /\ profile.phnmr = ph /\ profile.annmr = an /\ profile.dgnmr = dg
      /\ profile.fnom = Fnom(b)
  BY <1>1, <1>3 DEF ProfileOf
<1>9. First = b
  BY <1>1 DEF First
<1>10. [i \in 1 .. profile.phnmr + profile.annmr |-> profile.channels[i].val] =
       First.phasors \o First.analogs
  BY <1>5, <1>7, <1>8, <1>9
<1> QED
  BY <1>3, <1>8, <1>9, <1>10 DEF CfgComesBack

(* And what its PMU measures is what is read. *)
LEMMA IsMeasured ==
  ASSUME layout \in AnyLayout, ProfileOf(layout, profile)
  PROVE  ReadingIsMeasured
<1>1. PICK b : b = layout.blocks[1]
  OBVIOUS
<1>2. First = b
  BY <1>1 DEF First
<1>3. PICK size : size = Size(b.format.phFloat)
  OBVIOUS
<1>4. size = (IF First.format.phFloat THEN 4 ELSE 2)
  BY <1>2, <1>3 DEF Size
<1>5. \A freq : Band(freq) = BandOf(b, freq)
  BY <1>2 DEF Band, BandOf, Nearby
<1>6. ASSUME NEW s \in Samples, NEW r, r = parseDataWithProfile(DataRaw(layout, s), profile)
      PROVE  /\ r.ok
             /\ [i \in DOMAIN r.phasors |-> r.phasors[i].name] = Named(First.phasors, "PH")
             /\ \A i \in DOMAIN r.phasors :
                  /\ r.phasors[i].phasor.source = Field(size, "magnitude", i)
                  /\ r.phasors[i].phasor.angle = Field(size, "angle", i)
             /\ r.frequency = s.freq /\ r.rocof.kind = "rocof"
             /\ r.frequencyDeviation = s.freq - Band(s.freq)
             /\ [i \in DOMAIN r.analogs |-> r.analogs[i].name] = Named(First.analogs, "ANA")
             /\ \A i \in DOMAIN r.analogs :
                  r.analogs[i].value.kind = "analog" /\ r.analogs[i].value.val = i
             /\ \A i \in DOMAIN r.digitals : r.digitals[i] = Field(2, "digital", i)
             /\ r.digitalNames = [i \in 1 .. 16 * First.dgnmr |-> i]
  BY <1>1, <1>2, <1>3, <1>5, <1>6, Measured
<1> QED
  BY <1>4, <1>6 DEF ReadingIsMeasured

-----------------------------------------------------------------------------
(* The slots of the standard phasors. *)

StandardLabels == {"VA", "VB", "VC", "IA"}

(* The channel with a label that no other has is found by it. *)
LEMMA FoundByLabel ==
  ASSUME NEW n \in Nat, NEW names, DOMAIN names = 1 .. n, NEW dead,
         NEW phasors, phasors = LabelledPhasors(names, dead),
         NEW label \in StandardLabels, Live(names, dead, label)
  PROVE  \E i \in 1 .. n : /\ names[i] = label
                           /\ Labelled(names, phasors, label) = phasors[i]
                           /\ phasors[i].magnitude = i /\ phasors[i].source = i
<1>1. PICK i \in 1 .. n :
        /\ i \notin dead /\ names[i] = label
        /\ \A j \in (1 .. n) \ {i} : names[j] # label
  BY DEF Live
<1>2. PICK at : at = {j \in 1 .. n : ClassifyPhasorName(names[j]) = label}
  OBVIOUS
<1>3. \A j \in 1 .. n : ClassifyPhasorName(names[j]) = label <=> names[j] = label
  BY DEF ClassifyPhasorName, StandardLabels
<1>4. at = {i}
  BY <1>1, <1>2, <1>3
<1>5. i \in Nat /\ i <= i
  OBVIOUS
<1>6. (CHOOSE k \in at : \A j \in at : j <= k) = i
  BY <1>4, <1>5
<1>7. Labelled(names, phasors, label) = phasors[i]
  BY <1>2, <1>4, <1>6 DEF Labelled
<1>8. phasors[i].magnitude = i /\ phasors[i].source = i
  BY <1>1 DEF LabelledPhasors
<1> QED
  BY <1>1, <1>7, <1>8

(* The slots, with what is looked up taken out of them. *)
Mapped(names, phasors, va, vb, vc, ia, i1, n) ==
  LET legacy == va.magnitude = 0 /\ vb.magnitude = 0 /\ n >= 4
      a == IF legacy THEN phasors[1] ELSE va
      c == IF legacy THEN phasors[4] ELSE ia
  IN [va |-> IF n >= 1 THEN Or(a, phasors[1]) ELSE a,
      vb |-> IF legacy THEN phasors[2] ELSE vb,
      vc |-> IF legacy THEN phasors[3] ELSE vc,
      ia |-> IF n < 2 THEN c
             ELSE IF \E i \in DOMAIN names : names[i] \in Currents THEN Or(c, i1)
             ELSE c]

(* mapPhasorsToStandard in its parts. *)
LEMMA MappedBy ==
  ASSUME NEW names, NEW phasors
  PROVE  \E v1, v2, v3, i1, n :
           mapPhasorsToStandard(names, phasors) =
             Mapped(names, phasors, Or(Labelled(names, phasors, "VA"), v1),
                    Or(Labelled(names, phasors, "VB"), v2),
                    Or(Labelled(names, phasors, "VC"), v3),
                    Or(Labelled(names, phasors, "IA"), i1), i1, n)
<1>1. mapPhasorsToStandard(names, phasors) =
        Mapped(names, phasors,
               Or(Labelled(names, phasors, "VA"), Nth(names, phasors, Voltages, 1)),
               Or(Labelled(names, phasors, "VB"), Nth(names, phasors, Voltages, 2)),
               Or(Labelled(names, phasors, "VC"), Nth(names, phasors, Voltages, 3)),
               Or(Labelled(names, phasors, "IA"), Nth(names, phasors, Currents, 1)),
               Nth(names, phasors, Currents, 1), Len(phasors))
  BY DEF mapPhasorsToStandard, Mapped
<1> QED
  BY <1>1

(* A slot that has something under its label keeps it, the places being no *)
(* matter when one of the first two has something.                         *)
LEMMA SlotOf ==
  ASSUME NEW names, NEW phasors, NEW va, NEW vb, NEW vc, NEW ia, NEW i1, NEW n,
         va.magnitude # 0 \/ vb.magnitude # 0,
         NEW s, s = Mapped(names, phasors, va, vb, vc, ia, i1, n)
  PROVE  /\ va.magnitude # 0 => s.va = va
         /\ s.vb = vb /\ s.vc = vc
         /\ ia.magnitude # 0 => s.ia = ia
BY DEF Mapped, Or

(* The four slots keep the labels of live channels. *)
LEMMA LabelsKept ==
  ASSUME NEW n \in Nat, NEW names, DOMAIN names = 1 .. n, NEW dead,
         Live(names, dead, "VA") \/ Live(names, dead, "VB")
  PROVE  SlotsKept(names, dead)
<1>1. PICK ps : ps = LabelledPhasors(names, dead)
  OBVIOUS
<1>2. PICK v1, v2, v3, i1, k :
        mapPhasorsToStandard(names, ps) =
          Mapped(names, ps, Or(Labelled(names, ps, "VA"), v1), Or(Labelled(names, ps, "VB"), v2),
                 Or(Labelled(names, ps, "VC"), v3), Or(Labelled(names, ps, "IA"), i1), i1, k)
  BY MappedBy
<1>3. PICK va, vb, vc, ia :
        /\ va = Or(Labelled(names, ps, "VA"), v1) /\ vb = Or(Labelled(names, ps, "VB"), v2)
        /\ vc = Or(Labelled(names, ps, "VC"), v3) /\ ia = Or(Labelled(names, ps, "IA"), i1)
  OBVIOUS
<1>4. PICK s : s = mapPhasorsToStandard(names, ps)
  OBVIOUS
<1>5. s = Mapped(names, ps, va, vb, vc, ia, i1, k)
  BY <1>2, <1>3, <1>4
<1>6. \A label \in StandardLabels : \A v :
        Live(names, dead, label) =>
          /\ Or(Labelled(names, ps, label), v).magnitude # 0
          /\ names[Or(Labelled(names, ps, label), v).source] = label
  <2> TAKE label \in StandardLabels
  <2> TAKE v
  <2> HAVE Live(names, dead, label)
  <2>1. PICK i \in 1 .. n : /\ names[i] = label /\ Labelled(names, ps, label) = ps[i]
                            /\ ps[i].magnitude = i /\ ps[i].source = i
    BY <1>1, FoundByLabel
  <2>2. i # 0
    OBVIOUS
  <2>3. Or(ps[i], v) = ps[i]
    BY <2>1, <2>2 DEF Or
  <2> QED
    BY <2>1, <2>2, <2>3
<1>7. /\ Live(names, dead, "VA") => va.magnitude # 0 /\ names[va.source] = "VA"
      /\ Live(names, dead, "VB") => vb.magnitude # 0 /\ names[vb.source] = "VB"
      /\ Live(names, dead, "VC") => names[vc.source] = "VC"
      /\ Live(names, dead, "IA") => ia.magnitude # 0 /\ names[ia.source] = "IA"
  BY <1>3, <1>6 DEF StandardLabels
<1>8. /\ va.magnitude # 0 => s.va = va
      /\ s.vb = vb /\ s.vc = vc
      /\ ia.magnitude # 0 => s.ia = ia
  BY <1>5, <1>7, SlotOf
<1>9. ASSUME NEW label \in StandardLabels, Live(names, dead, label)
      PROVE  names[Slot(s, label).source] = label
  <2>1. CASE label = "VA"
    BY <1>7, <1>8, <1>9, <2>1 DEF Slot
  <2>2. CASE label = "VB"
    BY <1>7, <1>8, <1>9, <2>2 DEF Slot
  <2>3. CASE label = "VC"
    BY <1>7, <1>8, <1>9, <2>3 DEF Slot
  <2>4. CASE label = "IA"
    BY <1>7, <1>8, <1>9, <2>4 DEF Slot
  <2> QED
    BY <2>1, <2>2, <2>3, <2>4 DEF StandardLabels
<1> QED
  BY <1>1, <1>4, <1>9 DEF SlotsKept, StandardLabels

-----------------------------------------------------------------------------
(* The layouts of the PMU are layouts. *)

(* The first names of a sequence. *)
LEMMA SomeNames ==
  ASSUME NEW seq \in Seq(Names), NEW k \in Nat, k <= Len(seq)
  PROVE  SubSeq(seq, 1, k) \in Seq(Names) /\ Len(SubSeq(seq, 1, k)) = k
<1>1. Len(seq) \in Nat
  BY LenProperties
<1>2. CASE k = 0
  <2>1. SubSeq(seq, 1, k) = <<>>
    BY <1>2, SubSeqEmpty
  <2> QED
    BY <1>2, <2>1, EmptySeq
<1>3. CASE k # 0
  <2>1. 1 \in 1 .. k + 1 /\ k \in 0 .. Len(seq) /\ 1 \in 1 .. Len(seq) + 1
    BY <1>1, <1>3
  <2>2. Len(SubSeq(seq, 1, k)) = k
    BY <1>1, <1>3, <2>1, SubSeqProperties
  <2>3. SubSeq(seq, 1, k) \in Seq(Names)
    BY <1>1, <1>3, <2>1, SubSeqProperties
  <2> QED
    BY <2>2, <2>3
<1> QED
  BY <1>2, <1>3

(* The blocks of a PMU are blocks. *)
LEMMA PmuBlocksTyped == PmuBlocks \subseteq AnyBlock
<1> SUFFICES ASSUME NEW b \in PmuBlocks PROVE b \in AnyBlock
  OBVIOUS
<1>1. /\ b \in [format : Formats, phasors : {SubSeq(<<"VA", "", "IA">>, 1, n) : n \in 0 .. MaxPhasors},
                analogs : {SubSeq(<<"MW", "">>, 1, n) : n \in 0 .. MaxAnalogs},
                dgnmr : 0 .. MaxDigitals, fnomWord : {0, 1}]
      /\ MaxPhasors \in 1 .. 3 /\ MaxAnalogs \in 0 .. 2 /\ MaxDigitals \in Nat
  BY BoundsAssumption DEF PmuBlocks
<1>2. PICK n \in 0 .. MaxPhasors : b.phasors = SubSeq(<<"VA", "", "IA">>, 1, n)
  BY <1>1
<1>3. PICK k \in 0 .. MaxAnalogs : b.analogs = SubSeq(<<"MW", "">>, 1, k)
  BY <1>1
<1>4. <<"VA", "", "IA">> \in Seq(Names) /\ <<"MW", "">> \in Seq(Names)
  BY DEF Names
<1>5. Len(<<"VA", "", "IA">>) = 3 /\ Len(<<"MW", "">>) = 2
  OBVIOUS
<1>5a. PICK mp \in 1 .. 3, ma \in 0 .. 2, md \in Nat :
         mp = MaxPhasors /\ ma = MaxAnalogs /\ md = MaxDigitals
  BY <1>1
<1>5b. n \in 0 .. mp /\ k \in 0 .. ma /\ b.dgnmr \in 0 .. md
  BY <1>1, <1>2, <1>3, <1>5a
<1>6. n \in Nat /\ n <= 3 /\ k \in Nat /\ k <= 2
  BY <1>5a, <1>5b
<1>7. b.phasors \in Seq(Names)
  BY <1>2, <1>4, <1>5, <1>6, SomeNames
<1>8. b.analogs \in Seq(Names)
  BY <1>3, <1>4, <1>5, <1>6, SomeNames
<1>9. b.dgnmr \in Nat
  BY <1>5a, <1>5b
<1> QED
  BY <1>1, <1>7, <1>8, <1>9 DEF AnyBlock

(* Some blocks make a layout. *)
LEMMA LayoutTyped ==
  ASSUME NEW blocks \in Seq(AnyBlock), blocks # <<>>
  PROVE  Layout(blocks) \in AnyLayout
BY DEF Layout, AnyLayout

(* Layouts of every format. *)
LEMMA FormatTyped == FormatLayouts \subseteq AnyLayout
<1> SUFFICES ASSUME NEW l \in FormatLayouts PROVE l \in AnyLayout
  OBVIOUS
<1>1. (\E b \in PmuBlocks : l = Layout(<<b>>)) \/ (\E b, c \in PmuBlocks : l = Layout(<<b, c>>))
  BY DEF FormatLayouts, OtherBlocks
<1>2. ASSUME NEW b \in PmuBlocks, l = Layout(<<b>>) PROVE l \in AnyLayout
  <2>1. <<b>> \in Seq(AnyBlock) /\ <<b>> # <<>>
    BY PmuBlocksTyped
  <2> QED
    BY <1>2, <2>1, LayoutTyped
<1>3. ASSUME NEW b \in PmuBlocks, NEW c \in PmuBlocks, l = Layout(<<b, c>>) PROVE l \in AnyLayout
  <2>1. <<b, c>> \in Seq(AnyBlock) /\ <<b, c>> # <<>>
    BY PmuBlocksTyped
  <2> QED
    BY <1>3, <2>1, LayoutTyped
<1> QED
  BY <1>1, <1>2, <1>3

(* Layouts that are sent too short. *)
LEMMA ShortTyped == ShortLayouts \subseteq AnyLayout
<1> SUFFICES ASSUME NEW l \in ShortLayouts PROVE l \in AnyLayout
  OBVIOUS
<1>1. (\E b \in PmuBlocks : l = Layout(<<b>>)) \/ (\E b, c \in PmuBlocks : l = Layout(<<b, c>>))
  <2>1. OtherBlocks \subseteq PmuBlocks
    BY Zenon DEF OtherBlocks
  <2>2. (\E b \in OtherBlocks : l = Layout(<<b>>)) \/ (\E b, c \in OtherBlocks : l = Layout(<<b, c>>))
    BY DEF ShortLayouts
  <2> QED
    BY <2>1, <2>2, Zenon
<1>2. ASSUME NEW b \in PmuBlocks, l = Layout(<<b>>) PROVE l \in AnyLayout
  <2>1. <<b>> \in Seq(AnyBlock) /\ <<b>> # <<>>
    BY PmuBlocksTyped
  <2> QED
    BY <1>2, <2>1, LayoutTyped
<1>3. ASSUME NEW b \in PmuBlocks, NEW c \in PmuBlocks, l = Layout(<<b, c>>) PROVE l \in AnyLayout
  <2>1. <<b, c>> \in Seq(AnyBlock) /\ <<b, c>> # <<>>
    BY PmuBlocksTyped
  <2> QED
    BY <1>3, <2>1, LayoutTyped
<1> QED
  BY <1>1, <1>2, <1>3

(* Layouts of every combination of labels. *)
LEMMA LabelTyped == LabelLayouts \subseteq AnyLayout
<1> SUFFICES ASSUME NEW l \in LabelLayouts PROVE l \in AnyLayout
  OBVIOUS
<1>1. PICK names \in UNION {[1 .. n -> Labels] : n \in 1 .. 4} :
        l = Layout(<<[format |-> [phFloat |-> TRUE, anFloat |-> FALSE, freqFloat |-> TRUE],
                      phasors |-> names, analogs |-> <<>>, dgnmr |-> 0, fnomWord |-> 1]>>)
  BY DEF LabelLayouts
<1>2. PICK n \in 1 .. 4 : names \in [1 .. n -> Labels]
  BY <1>1
<1>3. names \in Seq(Names)
  <2>1. PICK f \in [1 .. n -> Labels] : f = names
    BY <1>2
  <2>2. \A i \in 1 .. n : f[i] \in Names
    BY <2>1 DEF Names
  <2>3. f \in [1 .. n -> Names]
    BY <2>1, <2>2
  <2>4. n \in Nat
    OBVIOUS
  <2>5. f \in Seq(Names)
    BY <2>3, <2>4
  <2> QED
    BY <2>1, <2>5
<1>4. PICK b : b = [format |-> [phFloat |-> TRUE, anFloat |-> FALSE, freqFloat |-> TRUE],
                    phasors |-> names, analogs |-> <<>>, dgnmr |-> 0, fnomWord |-> 1]
  OBVIOUS
<1>5. [phFloat |-> TRUE, anFloat |-> FALSE, freqFloat |-> TRUE] \in Formats
  BY DEF Formats
<1>6. <<>> \in Seq(Names)
  BY EmptySeq
<1>7. b \in AnyBlock
  BY <1>3, <1>4, <1>5, <1>6 DEF AnyBlock
<1>8. <<b>> \in Seq(AnyBlock) /\ <<b>> # <<>>
  BY <1>7
<1>9. Layout(<<b>>) \in AnyLayout
  BY <1>8, LayoutTyped
<1> QED
  BY <1>1, <1>4, <1>9, Zenon

(* The layout that is sent over a bad line. *)
LEMMA PlainTyped == PlainLayout \in AnyLayout
<1>1. PICK b : b = [format |-> [phFloat |-> TRUE, anFloat |-> TRUE, freqFloat |-> TRUE],
                    phasors |-> <<"VA">>, analogs |-> <<>>, dgnmr |-> 0, fnomWord |-> 1]
  OBVIOUS
<1>2. MaxPhasors \in 1 .. 3 /\ MaxAnalogs \in 0 .. 2 /\ MaxDigitals \in Nat
  BY BoundsAssumption
<1>3. <<"VA">> \in {SubSeq(<<"VA", "", "IA">>, 1, n) : n \in 0 .. MaxPhasors}
  <2>1. 1 \in 0 .. MaxPhasors
    BY <1>2
  <2>2. SubSeq(<<"VA", "", "IA">>, 1, 1) = <<"VA">>
    <3>1. PICK seq : seq = <<"VA", "", "IA">>
      OBVIOUS
    <3>1a. <<"VA", "", "IA">> \in Seq(Names)
      BY DEF Names
    <3>1b. Len(<<"VA", "", "IA">>) = 3
      OBVIOUS
    <3>1c. <<"VA", "", "IA">>[1] = "VA"
      OBVIOUS
    <3>1d. "VA" \in Names
      BY DEF Names
    <3>2. seq \in Seq(Names) /\ Len(seq) = 3 /\ seq[1] = "VA"
      BY <3>1, <3>1a, <3>1b, <3>1c
    <3>3. PICK sub : sub = SubSeq(seq, 1, 1)
      OBVIOUS
    <3>4. sub \in Seq(Names) /\ Len(sub) = 1 /\ sub[1] = seq[1]
      <4>1. 1 <= Len(seq) /\ \A i \in 1 .. 1 : seq[i] \in Names
        BY <3>1d, <3>2
      <4> QED
        BY <3>2, <3>3, <4>1, SomeNames, SubSeqProperties
    <3>5. sub = <<"VA">>
      BY <3>2, <3>4
    <3> QED
      BY <3>1, <3>3, <3>5
  <2> QED
    BY <2>1, <2>2
<1>4. <<>> \in {SubSeq(<<"MW", "">>, 1, n) : n \in 0 .. MaxAnalogs}
  <2>1. 0 \in 0 .. MaxAnalogs
    BY <1>2
  <2>2. SubSeq(<<"MW", "">>, 1, 0) = <<>>
    OBVIOUS
  <2> QED
    BY <2>1, <2>2
<1>5. [phFloat |-> TRUE, anFloat |-> TRUE, freqFloat |-> TRUE] \in Formats
  BY DEF Formats
<1>6. 0 \in 0 .. MaxDigitals
  BY <1>2
<1>7. b \in PmuBlocks
  BY <1>1, <1>3, <1>4, <1>5, <1>6 DEF PmuBlocks
<1>8. PICK l : l = Layout(<<b>>)
  OBVIOUS
<1>9. l \in FormatLayouts
  BY <1>7, <1>8 DEF FormatLayouts
<1>10. l.blocks = <<b>>
  BY <1>8 DEF Layout
<1>11. /\ Len(l.blocks) = 1 /\ l.blocks[1].phasors = <<"VA">> /\ l.blocks[1].analogs = <<>>
       /\ l.blocks[1].dgnmr = 0 /\ l.blocks[1].format.phFloat
  BY <1>1, <1>10
<1>12. PlainLayout \in FormatLayouts
  BY <1>9, <1>11 DEF PlainLayout
<1> QED
  BY <1>12, FormatTyped

(* Whatever may go wrong, the PMU has a layout. *)
LEMMA InitLayout == Init => layout \in AnyLayout
BY FormatTyped, LabelTyped, ShortTyped, PlainTyped DEF Init

-----------------------------------------------------------------------------
(* What the receiver knows of the layout. *)

(* A CFG-2 that was read to its end. *)
CfgSeen == \E i \in DOMAIN delivered : /\ sent[delivered[i]].type = "cfg2"
                                      /\ sent[delivered[i]].len = CfgRaw(layout).p.len

ReaderInv ==
  /\ layout \in AnyLayout
  /\ profile = Error \/ ProfileOf(layout, profile)
  /\ pc = "stream" => profile # Error
  /\ \A n \in 1 .. Len(sent) : sent[n].len \in Nat
  /\ profile # Error => CfgSeen
  /\ reading # Error => reading.ok

(* Nothing is known at first. *)
LEMMA InitReader == Init => ReaderInv
<1> SUFFICES ASSUME Init PROVE ReaderInv
  OBVIOUS
<1>1. layout \in AnyLayout
  BY InitLayout
<1>2. sent = <<>> /\ profile = Error /\ pc = "ask" /\ reading = Error
  BY DEF Init
<1>3. Len(<<>>) = 0
  BY EmptySeq
<1> QED
  BY <1>1, <1>2, <1>3 DEF ReaderInv

(* The frames that were delivered are among those that were sent. *)
LEMMA DeliveredSent ==
  ASSUME StreamInv, NEW i \in DOMAIN delivered
  PROVE  delivered[i] \in 1 .. Len(sent)
BY DEF StreamInv, AllPast, Past

(* A step of the connection alone. *)
LEMMA KeepsReader ==
  ASSUME ReaderInv, UNCHANGED <<layout, sent, profile, delivered, reading>>,
         pc' = "stream" => pc = "stream"
  PROVE  ReaderInv'
BY DEF ReaderInv, CfgSeen

(* A CFG-2 has a length. *)
LEMMA CfgLength == \A l \in AnyLayout : CfgRaw(l).p.len \in Nat
<1> SUFFICES ASSUME NEW l \in AnyLayout PROVE CfgRaw(l).p.len \in Nat
  OBVIOUS
<1>1. PICK p : p = CfgRaw(l).p
  OBVIOUS
<1>2. PICK z, base : CfgHolds(l, p, z, base)
  BY <1>1, CfgLaid
<1>3. p.len = z + 2 /\ z \in Nat
  BY <1>2 DEF CfgHolds
<1>4. p.len \in Nat
  BY <1>3
<1> QED
  BY <1>1, <1>4

(* What the PMU sends changes nothing of what is known. *)
LEMMA SendReader ==
  ASSUME StreamInv, ReaderInv, NEW type, PmuSends(type)
  PROVE  ReaderInv'
<1>1. PICK e : sent' = Append(sent, e) /\ e.len \in Lengths(type)
  <2>1. PICK stamp \in Stamps, len \in Lengths(type) :
          \E flips \in Flips(Sealed(stamp)) :
            sent' = Append(sent, [type |-> type, bytes |-> Flip(Sealed(stamp), flips),
                                  flips |-> flips, len |-> len])
    BY DEF PmuSends
  <2>2. PICK flips :
            sent' = Append(sent, [type |-> type, bytes |-> Flip(Sealed(stamp), flips),
                                  flips |-> flips, len |-> len])
    BY <2>1
  <2> QED
    BY <2>2
<1>2. e.len \in Nat
  <2>1. PICK n \in Nat : n = CfgRaw(layout).p.len
    BY CfgLength DEF ReaderInv
  <2>2. e.len \in 0 .. n \/ e.len = n
    BY <1>1, <2>1 DEF Lengths
  <2> QED
    BY <2>2
<1>3. PICK S : sent \in Seq(S)
  BY DEF StreamInv, WireTypes
<1>4. PICK more, n : more = sent' /\ n = Len(sent)
  OBVIOUS
<1>5. /\ n \in Nat /\ Len(more) = n + 1 /\ more[n + 1] = e
      /\ \A i \in 1 .. n : more[i] = sent[i]
  BY <1>1, <1>3, <1>4, AppendsTo
<1>6. UNCHANGED <<layout, profile, pc, delivered, reading>>
  BY DEF PmuSends
<1>7. ASSUME NEW i \in 1 .. n + 1 PROVE more[i].len \in Nat
  <2>1. CASE i = n + 1
    BY <1>2, <1>5, <2>1
  <2>2. CASE i # n + 1
    <3>1. i \in 1 .. n
      BY <1>5, <2>2
    <3> QED
      BY <1>4, <1>5, <3>1 DEF ReaderInv
  <2> QED
    BY <2>1, <2>2
<1>8. ASSUME CfgSeen PROVE CfgSeen'
  <2>1. PICK i \in DOMAIN delivered : /\ sent[delivered[i]].type = "cfg2"
                                      /\ sent[delivered[i]].len = CfgRaw(layout).p.len
    BY <1>8 DEF CfgSeen
  <2>2. delivered[i] \in 1 .. n
    BY <1>4, DeliveredSent
  <2>3. more[delivered[i]] = sent[delivered[i]]
    BY <1>5, <2>2
  <2> QED
    BY <1>4, <1>6, <2>1, <2>3 DEF CfgSeen
<1>9. \A i \in 1 .. Len(sent') : sent'[i].len \in Nat
  BY <1>4, <1>5, <1>7
<1> QED
  BY <1>6, <1>8, <1>9 DEF ReaderInv

(* What was delivered before stays delivered. *)
LEMMA SeenStays ==
  ASSUME StreamInv, NEW n, delivered' = Append(delivered, n), UNCHANGED <<layout, sent>>,
         CfgSeen
  PROVE  CfgSeen'
<1>1. PICK i \in DOMAIN delivered : /\ sent[delivered[i]].type = "cfg2"
                                    /\ sent[delivered[i]].len = CfgRaw(layout).p.len
  BY DEF CfgSeen
<1>2. PICK d, e : d = delivered /\ e = Append(d, n)
  OBVIOUS
<1>3. d \in Seq(Nat)
  BY <1>2 DEF StreamInv, WireTypes
<1>4. /\ DOMAIN d = 1 .. Len(d) /\ DOMAIN e = 1 .. Len(d) + 1 /\ Len(d) \in Nat
      /\ \A j \in 1 .. Len(d) : e[j] = d[j]
  BY <1>2, <1>3, AppendsTo
<1>5. i \in DOMAIN e /\ e[i] = d[i]
  BY <1>1, <1>2, <1>4
<1>6. delivered' = e
  BY <1>2
<1> QED
  BY <1>1, <1>2, <1>5, <1>6 DEF CfgSeen

(* A CFG-2 that is registered was read to its end, and says what the layout *)
(* does.                                                                   *)
LEMMA CfgReader ==
  ASSUME StreamInv, ReaderInv, NEW n \in 1 .. Len(sent), sent[n].type = "cfg2", DeliverCFG2(n)
  PROVE  ReaderInv'
<1>1. PICK raw : raw = [CfgRaw(layout) EXCEPT !.p = Cut(CfgRaw(layout).p, sent[n].len)]
  OBVIOUS
<1>2. PICK prof : prof = ParseCFG2Frame(raw)
  OBVIOUS
<1>3. /\ profile' = (IF prof.ok THEN prof ELSE profile)
      /\ delivered' = Append(delivered, n)
      /\ UNCHANGED <<layout, sent, reading>>
      /\ prof.ok \/ pc = "stream" \/ pc' = "down"
  BY <1>1, <1>2 DEF DeliverCFG2
<1>4. layout \in AnyLayout
  BY DEF ReaderInv
<1>5. CASE prof.ok
  <2>1. raw.p = Cut(CfgRaw(layout).p, sent[n].len)
    BY <1>1 DEF CfgRaw
  <2>2. PICK len \in Nat : len = sent[n].len
    BY DEF ReaderInv
  <2>3. raw.p = Cut(CfgRaw(layout).p, len)
    BY <2>1, <2>2
  <2>4. len = CfgRaw(layout).p.len /\ ProfileOf(layout, prof)
    BY <1>2, <1>4, <1>5, <2>3, ParseCut
  <2>5. prof # Error
    BY <1>5 DEF Error
  <2>6. profile' = prof
    BY <1>3, <1>5
  <2>7. CfgSeen'
    <3>1. PICK d, e : d = delivered /\ e = Append(d, n)
      OBVIOUS
    <3>2. d \in Seq(Nat)
      BY <3>1 DEF StreamInv, WireTypes
    <3>3. DOMAIN e = 1 .. Len(d) + 1 /\ Len(d) \in Nat /\ e[Len(d) + 1] = n
      BY <3>1, <3>2, AppendsTo
    <3>4. Len(d) + 1 \in DOMAIN e
      BY <3>3
    <3>5. delivered' = e /\ sent' = sent /\ layout' = layout
      BY <1>3, <3>1
    <3> QED
      BY <2>2, <2>4, <3>3, <3>4, <3>5 DEF CfgSeen
  <2> QED
    BY <1>3, <2>4, <2>5, <2>6, <2>7 DEF ReaderInv
<1>6. CASE ~ prof.ok
  <2>1. profile' = profile /\ (pc' = "stream" => pc = "stream")
    <3>1. profile' = profile
      BY <1>3, <1>6
    <3>2. pc = "stream" \/ pc' = "down"
      BY <1>3, <1>6
    <3> QED
      BY <3>1, <3>2
  <2>2. CfgSeen => CfgSeen'
    BY <1>3, SeenStays
  <2> QED
    BY <1>3, <2>1, <2>2 DEF ReaderInv
<1> QED
  BY <1>5, <1>6

(* What is read of DATA passes the checks. *)
LEMMA DataReader ==
  ASSUME StreamInv, ReaderInv, NEW n, DeliverData(n)
  PROVE  ReaderInv'
<1>1. /\ delivered' = Append(delivered, n)
      /\ UNCHANGED <<layout, sent, profile, pc>>
  BY DEF DeliverData, pmuVars
<1>2. [freq |-> 50000, dead |-> {}] \in Samples
  BY DEF Samples
<1>3. PICK s \in Samples : s = [freq |-> 50000, dead |-> {}]
  BY <1>2
<1>4. reading' = (IF pc = "stream" THEN parseDataWithProfile(DataRaw(layout, s), profile)
                  ELSE reading)
  BY <1>3 DEF DeliverData
<1>5. ASSUME pc = "stream" PROVE reading'.ok
  <2>1. layout \in AnyLayout /\ ProfileOf(layout, profile)
    BY <1>5 DEF ReaderInv
  <2>2. parseDataWithProfile(DataRaw(layout, s), profile).ok
    BY <2>1, IsMeasured DEF ReadingIsMeasured
  <2> QED
    BY <1>4, <1>5, <2>2
<1>6. CfgSeen => CfgSeen'
  BY <1>1, SeenStays
<1>7. reading' # Error => reading'.ok
  BY <1>4, <1>5 DEF ReaderInv
<1> QED
  BY <1>1, <1>6, <1>7 DEF ReaderInv

(* The last piece of a frame is a piece of the frame that is read. *)
LEMMA SentPiece ==
  ASSUME StreamInv, wire # <<>>, NEW piece, piece = Head(wire), Fits16(Append(got, piece)),
         delivered' = Append(delivered, piece.n), StreamInv', UNCHANGED sent
  PROVE  piece.n \in 1 .. Len(sent)
<1>1. PICK n : n = piece.n
  OBVIOUS
<1>2. PICK d, e : d = delivered /\ e = Append(d, n)
  OBVIOUS
<1>3. d \in Seq(Nat)
  BY <1>2 DEF StreamInv, WireTypes
<1>4. DOMAIN e = 1 .. Len(d) + 1 /\ Len(d) \in Nat /\ e[Len(d) + 1] = n
  BY <1>2, <1>3, AppendsTo
<1>5. Len(d) + 1 \in DOMAIN e
  BY <1>4
<1>6. delivered' = e
  BY <1>1, <1>2
<1>7. \A i \in DOMAIN delivered' : delivered'[i] \in 1 .. Len(sent')
  BY DEF StreamInv, AllPast, Past
<1> QED
  BY <1>1, <1>4, <1>5, <1>6, <1>7

(* Whatever is read, what is known stays true. *)
LEMMA ReceiveReader ==
  ASSUME StreamInv, ReaderInv, Receive
  PROVE  ReaderInv'
<1>1. wire # <<>> /\ IF got = <<>> THEN ReadHeader(Head(wire)) ELSE ReadOn(Head(wire))
  BY DEF Receive
<1>2. PICK piece : piece = Head(wire)
  OBVIOUS
<1>3. ASSUME NEW why, Down(why) PROVE ReaderInv'
  BY <1>3, KeepsReader DEF Down
<1>4. ASSUME UNCHANGED <<pmuVars, pc, attempt, profile, delivered, reading, cause>>
      PROVE  ReaderInv'
  BY <1>4, KeepsReader DEF pmuVars
<1>5. CASE got = <<>>
  <2>1. ReadHeader(piece)
    BY <1>1, <1>2, <1>5
  <2> QED
    BY <1>3, <1>4, <2>1 DEF ReadHeader
<1>6. CASE got # <<>>
  <2>1. ReadOn(piece)
    BY <1>1, <1>2, <1>6
  <2>2. CASE /\ Fits16(Append(got, piece))
             /\ IF sent[piece.n].type = "cfg2" THEN DeliverCFG2(piece.n) ELSE DeliverData(piece.n)
    <3>1. delivered' = Append(delivered, piece.n) /\ UNCHANGED sent
      <4>1. CASE DeliverCFG2(piece.n)
        BY <4>1 DEF DeliverCFG2
      <4>2. CASE DeliverData(piece.n)
        BY <4>2 DEF DeliverData, pmuVars
      <4> QED
        BY <2>2, <4>1, <4>2
    <3>2. StreamInv'
      BY ReceiveStream
    <3>3. piece.n \in 1 .. Len(sent)
      BY <1>1, <1>2, <2>2, <3>1, <3>2, SentPiece
    <3> QED
      BY <2>2, <3>3, CfgReader, DataReader
  <2> QED
    BY <1>3, <1>4, <2>1, <2>2 DEF ReadOn
<1> QED
  BY <1>5, <1>6

(* So does it in every step. *)
LEMMA NextReader == StreamInv /\ ReaderInv /\ [Next]_wireVars => ReaderInv'
<1> SUFFICES ASSUME StreamInv, ReaderInv, [Next]_wireVars PROVE ReaderInv'
  OBVIOUS
<1>1. CASE Ask \/ Redial
  BY <1>1, KeepsReader DEF Ask, Redial, pmuVars
<1>2. CASE Timeout
  <2>1. ASSUME Down("timeout") PROVE ReaderInv'
    BY <2>1, KeepsReader DEF Down
  <2>2. ASSUME pc' = "ask", UNCHANGED <<pmuVars, wire, attempt, profile, delivered, reading, cause>>
        PROVE ReaderInv'
    BY <2>2, KeepsReader DEF pmuVars
  <2> QED
    BY <1>2, <2>1, <2>2 DEF Timeout
<1>3. CASE Receive
  BY <1>3, ReceiveReader
<1>4. CASE \E type \in {"cfg2", "data"} : PmuSends(type)
  BY <1>4, SendReader
<1>5. CASE UNCHANGED wireVars
  BY <1>5, KeepsReader DEF wireVars, pmuVars
<1> QED
  BY <1>1, <1>2, <1>3, <1>4, <1>5 DEF Next

(* What the receiver knows of the layout is always true. *)
LEMMA AlwaysReader == Spec => []ReaderInv
BY AlwaysStream, InitReader, NextReader, PTL DEF Spec

(* No byte beyond the end of a frame is read (parser/cfg2.go:125,           *)
(* parser/parser.go:283): a CFG-2 cut at any byte is not registered, and   *)
(* a DATA payload of the length that a profile gives ends where what is    *)
(* read of it ends, for every layout.                                      *)
THEOREM AlwaysNothingReadBeyondEnd == Spec => []NothingReadBeyondEnd
<1>1. ReaderInv => NothingReadBeyondEnd
  <2> SUFFICES ASSUME ReaderInv, profile # Error PROVE NothingReadBeyondEnd
    BY DEF NothingReadBeyondEnd
  <2>1. layout \in AnyLayout /\ ProfileOf(layout, profile) /\ CfgSeen
    BY DEF ReaderInv
  <2>2. PICK p : p = [len |-> profile.total, at |-> <<>>]
    OBVIOUS
  <2>3. p.len = profile.total
    BY <2>2
  <2>4. Walk(p, Reads(profile)).ok /\ Walk(p, Reads(profile)).o = profile.payload
    BY <2>1, <2>3, WalkAny
  <2> QED
    BY <2>1, <2>2, <2>4 DEF NothingReadBeyondEnd, CfgSeen
<1> QED
  BY <1>1, AlwaysReader, PTL

(* Frames come out of the parser as the PMU put them in (parser/cfg2.go:181, *)
(* parser/parser.go:234), for every layout, of any number of blocks.       *)
THEOREM AlwaysFramesRoundTrip == Spec => []FramesRoundTrip
<1>1. ReaderInv => FramesRoundTrip
  <2> SUFFICES ASSUME ReaderInv, profile # Error PROVE FramesRoundTrip
    BY DEF FramesRoundTrip
  <2>1. layout \in AnyLayout /\ ProfileOf(layout, profile)
    BY DEF ReaderInv
  <2> QED
    BY <2>1, ComesBack, IsMeasured DEF FramesRoundTrip
<1> QED
  BY <1>1, AlwaysReader, PTL

(* A labelled channel that measures something keeps its label, whatever    *)
(* the other channels are, when one of VA and VB is live                   *)
(* (parser/cfg2.go:391), for any labels and any number of channels.        *)
THEOREM AlwaysLiveLabelsKept == Spec => []LiveLabelsKept
<1>1. ReaderInv => LiveLabelsKept
  <2> SUFFICES ASSUME ReaderInv, profile # Error PROVE LiveLabelsKept
    BY DEF LiveLabelsKept
  <2>1. layout \in AnyLayout /\ ProfileOf(layout, profile)
    BY DEF ReaderInv
  <2>2. PICK b : b = layout.blocks[1] /\ b \in AnyBlock
    BY <2>1, LayoutParts
  <2>3. profile.phnmr = Len(b.phasors)
    BY <2>1, <2>2 DEF ProfileOf
  <2>4. PICK n \in Nat : n = profile.phnmr
    BY <2>2, <2>3, BlockNumbers
  <2>5. PICK names : names = [i \in 1 .. profile.phnmr |-> profile.channels[i].val]
    OBVIOUS
  <2>6. DOMAIN names = 1 .. n
    BY <2>4, <2>5
  <2>7. \A dead : Live(names, dead, "VA") \/ Live(names, dead, "VB") => SlotsKept(names, dead)
    BY <2>6, LabelsKept
  <2> QED
    BY <2>5, <2>7 DEF LiveLabelsKept
<1> QED
  BY <1>1, AlwaysReader, PTL

-----------------------------------------------------------------------------
(* The CRC's register: a vector of bits, and sums of them. *)

Register == [0 .. 15 -> {0, 1}]

Zero == [i \in 0 .. 15 |-> 0]

LEMMA XorAt ==
  ASSUME NEW a \in Register, NEW b \in Register
  PROVE  /\ Xor(a, b) \in Register
         /\ \A i \in 0 .. 15 : Xor(a, b)[i] = IF a[i] = b[i] THEN 0 ELSE 1
<1>1. ASSUME NEW i \in 0 .. 15 PROVE (a[i] + b[i]) % 2 = IF a[i] = b[i] THEN 0 ELSE 1
  <2>1. a[i] \in {0, 1} /\ b[i] \in {0, 1}
    BY DEF Register
  <2> QED
    BY <2>1
<1>2. Xor(a, b) = [i \in 0 .. 15 |-> (a[i] + b[i]) % 2]
  BY DEF Xor, Register
<1>3. Xor(a, b) = [i \in 0 .. 15 |-> IF a[i] = b[i] THEN 0 ELSE 1]
  BY <1>1, <1>2
<1> QED
  BY <1>3 DEF Register

(* Two registers that agree in every bit. *)
LEMMA SameRegister ==
  ASSUME NEW a \in Register, NEW b \in Register, \A i \in 0 .. 15 : a[i] = b[i]
  PROVE  a = b
BY DEF Register

LEMMA ZeroRegister == Zero \in Register
BY DEF Zero, Register

(* A step of the inner loop, bit by bit. *)
LEMMA ShiftAt ==
  ASSUME NEW c \in Register
  PROVE  /\ Shift(c) \in Register /\ Shift(c)[0] = c[15]
         /\ \A i \in 1 .. 15 : Shift(c)[i] = IF i \in {5, 12} /\ c[15] = 1
                                             THEN IF c[i - 1] = 1 THEN 0 ELSE 1
                                             ELSE c[i - 1]
<1>1. \A i \in 0 .. 15 : c[i] \in {0, 1}
  BY DEF Register
<1>2. PICK moved : moved = [i \in 0 .. 15 |-> IF i = 0 THEN 0 ELSE c[i - 1]]
  OBVIOUS
<1>3. ASSUME NEW i \in 0 .. 15 PROVE moved[i] \in {0, 1}
  <2>1. CASE i = 0
    BY <1>2, <2>1
  <2>2. CASE i # 0
    <3>1. i - 1 \in 0 .. 15
      BY <2>2
    <3> QED
      BY <1>1, <1>2, <2>2, <3>1
  <2> QED
    BY <2>1, <2>2
<1>4. moved \in Register
  <2>1. DOMAIN moved = 0 .. 15
    BY <1>2
  <2>2. moved = [i \in 0 .. 15 |-> moved[i]]
    BY <1>2
  <2> QED
    BY <1>3, <2>2 DEF Register
<1>5. Poly \in Register /\ \A i \in 0 .. 15 : Poly[i] = IF i \in {0, 5, 12} THEN 1 ELSE 0
  BY DEF Poly, Register
<1>6. Shift(c) = IF c[15] = 1 THEN Xor(moved, Poly) ELSE moved
  BY <1>2 DEF Shift
<1>7. CASE c[15] = 1
  <2>1. Shift(c) = Xor(moved, Poly)
    BY <1>6, <1>7
  <2>2. /\ Shift(c) \in Register
        /\ \A i \in 0 .. 15 : Shift(c)[i] = IF moved[i] = Poly[i] THEN 0 ELSE 1
    BY <1>4, <1>5, <2>1, XorAt
  <2>3. Shift(c)[0] = 1
    <3>1. moved[0] = 0 /\ Poly[0] = 1
      BY <1>2, <1>5
    <3> QED
      BY <2>2, <3>1
  <2>4. ASSUME NEW i \in 1 .. 15
        PROVE  Shift(c)[i] = IF i \in {5, 12} THEN IF c[i - 1] = 1 THEN 0 ELSE 1 ELSE c[i - 1]
    <3>1. moved[i] = c[i - 1] /\ Poly[i] = (IF i \in {5, 12} THEN 1 ELSE 0) /\ i - 1 \in 0 .. 15
      BY <1>2, <1>5
    <3> QED
      BY <1>1, <2>2, <3>1
  <2> QED
    BY <1>7, <2>2, <2>3, <2>4
<1>8. CASE c[15] = 0
  <2>1. Shift(c) = moved
    BY <1>6, <1>8
  <2> QED
    BY <1>2, <1>4, <1>8, <2>1
<1> QED
  BY <1>1, <1>7, <1>8

(* No two registers become the same in a step. *)
LEMMA ShiftBack ==
  ASSUME NEW a \in Register, NEW b \in Register, Shift(a) = Shift(b)
  PROVE  a = b
<1>1. a[15] = b[15]
  BY ShiftAt
<1>2. \A i \in 0 .. 15 : a[i] \in {0, 1} /\ b[i] \in {0, 1}
  BY DEF Register
<1>3. ASSUME NEW i \in 0 .. 15 PROVE a[i] = b[i]
  <2>1. CASE i = 15
    BY <1>1, <2>1
  <2>2. CASE i # 15
    <3>1. PICK k \in 1 .. 15 : k = i + 1 /\ k - 1 = i
      <4>1. i + 1 \in 1 .. 15 /\ (i + 1) - 1 = i
        BY <2>2
      <4> QED
        BY <4>1
    <3>2. Shift(a)[k] = IF k \in {5, 12} /\ a[15] = 1 THEN IF a[i] = 1 THEN 0 ELSE 1 ELSE a[i]
      BY <3>1, ShiftAt
    <3>3. Shift(b)[k] = IF k \in {5, 12} /\ b[15] = 1 THEN IF b[i] = 1 THEN 0 ELSE 1 ELSE b[i]
      BY <3>1, ShiftAt
    <3> QED
      BY <1>1, <1>2, <3>2, <3>3
  <2> QED
    BY <2>1, <2>2
<1> QED
  BY <1>3, SameRegister

(* A step of a sum is the sum of the steps. *)
LEMMA ShiftSum ==
  ASSUME NEW a \in Register, NEW b \in Register
  PROVE  Shift(Xor(a, b)) = Xor(Shift(a), Shift(b))
<1>1. PICK s : s = Xor(a, b)
  OBVIOUS
<1>2. s \in Register /\ \A i \in 0 .. 15 : s[i] = IF a[i] = b[i] THEN 0 ELSE 1
  BY <1>1, XorAt
<1>3. PICK sa, sb, ss : sa = Shift(a) /\ sb = Shift(b) /\ ss = Shift(s)
  OBVIOUS
<1>4. sa \in Register /\ sb \in Register /\ ss \in Register
  BY <1>2, <1>3, ShiftAt
<1>5. PICK x : x = Xor(sa, sb)
  OBVIOUS
<1>6. x \in Register /\ \A i \in 0 .. 15 : x[i] = IF sa[i] = sb[i] THEN 0 ELSE 1
  BY <1>4, <1>5, XorAt
<1>7. \A i \in 0 .. 15 : a[i] \in {0, 1} /\ b[i] \in {0, 1}
  BY DEF Register
<1>8. ASSUME NEW i \in 0 .. 15 PROVE ss[i] = x[i]
  <2>1. CASE i = 0
    <3>1. sa[0] = a[15] /\ sb[0] = b[15] /\ ss[0] = s[15]
      BY <1>2, <1>3, ShiftAt
    <3> QED
      BY <1>2, <1>6, <2>1, <3>1
  <2>2. CASE i # 0
    <3>1. PICK j \in 0 .. 15 : j = i - 1
      BY <2>2
    <3>2. i \in 1 .. 15
      BY <2>2
    <3>3. sa[i] = IF i \in {5, 12} /\ a[15] = 1 THEN IF a[j] = 1 THEN 0 ELSE 1 ELSE a[j]
      BY <1>3, <3>1, <3>2, ShiftAt
    <3>4. sb[i] = IF i \in {5, 12} /\ b[15] = 1 THEN IF b[j] = 1 THEN 0 ELSE 1 ELSE b[j]
      BY <1>3, <3>1, <3>2, ShiftAt
    <3>5. ss[i] = IF i \in {5, 12} /\ s[15] = 1 THEN IF s[j] = 1 THEN 0 ELSE 1 ELSE s[j]
      BY <1>2, <1>3, <3>1, <3>2, ShiftAt
    <3>6. /\ s[15] = (IF a[15] = b[15] THEN 0 ELSE 1) /\ s[j] = IF a[j] = b[j] THEN 0 ELSE 1
      BY <1>2
    <3>7. x[i] = IF sa[i] = sb[i] THEN 0 ELSE 1
      BY <1>6
    <3>8. /\ a[15] \in {0, 1} /\ b[15] \in {0, 1} /\ a[j] \in {0, 1} /\ b[j] \in {0, 1}
      BY <1>7
    <3> QED
      BY <3>3, <3>4, <3>5, <3>6, <3>7, <3>8
  <2> QED
    BY <2>1, <2>2
<1>9. ss = x
  BY <1>4, <1>6, <1>8, SameRegister
<1> QED
  BY <1>1, <1>3, <1>5, <1>9

LEMMA ShiftZero == Shift(Zero) = Zero
<1>1. Shift(Zero) \in Register /\ Zero \in Register
  BY ZeroRegister, ShiftAt
<1>2. ASSUME NEW i \in 0 .. 15 PROVE Shift(Zero)[i] = 0
  <2>1. CASE i = 0
    BY <2>1, ZeroRegister, ShiftAt DEF Zero
  <2>2. CASE i # 0
    <3>1. i \in 1 .. 15 /\ i - 1 \in 0 .. 15
      BY <2>2
    <3>2. Zero[15] = 0 /\ Zero[i - 1] = 0
      BY <3>1 DEF Zero
    <3> QED
      BY <3>1, <3>2, ZeroRegister, ShiftAt
  <2> QED
    BY <2>1, <2>2
<1> QED
  BY <1>1, <1>2, SameRegister DEF Zero

(* Sums of registers. *)
LEMMA XorZero ==
  ASSUME NEW a \in Register
  PROVE  Xor(a, a) = Zero /\ Xor(Zero, a) = a
<1>1. \A i \in 0 .. 15 : a[i] \in {0, 1}
  BY DEF Register
<1>2. Xor(a, a) \in Register /\ Xor(Zero, a) \in Register
  BY ZeroRegister, XorAt
<1>3. \A i \in 0 .. 15 : Xor(a, a)[i] = Zero[i]
  BY XorAt DEF Zero
<1>4. \A i \in 0 .. 15 : Xor(Zero, a)[i] = a[i]
  BY <1>1, ZeroRegister, XorAt DEF Zero
<1> QED
  BY <1>2, <1>3, <1>4, ZeroRegister, SameRegister

LEMMA XorCancels ==
  ASSUME NEW a \in Register, NEW b \in Register, Xor(a, b) = Zero
  PROVE  a = b
<1>1. ASSUME NEW i \in 0 .. 15 PROVE a[i] = b[i]
  <2>1. Zero[i] = IF a[i] = b[i] THEN 0 ELSE 1
    BY XorAt
  <2> QED
    BY <2>1 DEF Zero
<1> QED
  BY <1>1, SameRegister

LEMMA XorPairs ==
  ASSUME NEW a \in Register, NEW b \in Register, NEW c \in Register, NEW d \in Register
  PROVE  Xor(Xor(a, b), Xor(c, d)) = Xor(Xor(a, c), Xor(b, d))
<1>1. PICK p, q, r, s : p = Xor(a, b) /\ q = Xor(c, d) /\ r = Xor(a, c) /\ s = Xor(b, d)
  OBVIOUS
<1>2. p \in Register /\ q \in Register /\ r \in Register /\ s \in Register
  BY <1>1, XorAt
<1>3. PICK x, y : x = Xor(p, q) /\ y = Xor(r, s)
  OBVIOUS
<1>4. x \in Register /\ y \in Register
  BY <1>2, <1>3, XorAt
<1>5. ASSUME NEW i \in 0 .. 15 PROVE x[i] = y[i]
  <2>1. a[i] \in {0, 1} /\ b[i] \in {0, 1} /\ c[i] \in {0, 1} /\ d[i] \in {0, 1}
    BY DEF Register
  <2>2. /\ p[i] = (IF a[i] = b[i] THEN 0 ELSE 1) /\ q[i] = (IF c[i] = d[i] THEN 0 ELSE 1)
        /\ r[i] = (IF a[i] = c[i] THEN 0 ELSE 1) /\ s[i] = (IF b[i] = d[i] THEN 0 ELSE 1)
    BY <1>1, XorAt
  <2>3. x[i] = (IF p[i] = q[i] THEN 0 ELSE 1) /\ y[i] = (IF r[i] = s[i] THEN 0 ELSE 1)
    BY <1>2, <1>3, XorAt
  <2> QED
    BY <2>1, <2>2, <2>3
<1>6. x = y
  BY <1>4, <1>5, SameRegister
<1> QED
  BY <1>1, <1>3, <1>6

(* The eight steps that a byte takes. *)
Twice(c) == Shift(Shift(c))
Four(c) == Twice(Twice(c))
Eight(c) == Four(Four(c))

LEMMA TwiceIs ==
  /\ \A a \in Register : Twice(a) \in Register
  /\ \A a, b \in Register : Twice(a) = Twice(b) => a = b
  /\ \A a, b \in Register : Twice(Xor(a, b)) = Xor(Twice(a), Twice(b))
  /\ Twice(Zero) = Zero
<1>1. \A a \in Register : Twice(a) \in Register
  BY ShiftAt DEF Twice
<1>2. \A a, b \in Register : Twice(a) = Twice(b) => a = b
  BY ShiftAt, ShiftBack DEF Twice
<1>3. \A a, b \in Register : Twice(Xor(a, b)) = Xor(Twice(a), Twice(b))
  BY ShiftAt, ShiftSum DEF Twice
<1>4. Twice(Zero) = Zero
  BY ShiftZero DEF Twice
<1> QED
  BY <1>1, <1>2, <1>3, <1>4

LEMMA FourIs ==
  /\ \A a \in Register : Four(a) \in Register
  /\ \A a, b \in Register : Four(a) = Four(b) => a = b
  /\ \A a, b \in Register : Four(Xor(a, b)) = Xor(Four(a), Four(b))
  /\ Four(Zero) = Zero
<1>1. \A a \in Register : Four(a) \in Register
  BY TwiceIs DEF Four
<1>2. \A a, b \in Register : Four(a) = Four(b) => a = b
  BY TwiceIs DEF Four
<1>3. \A a, b \in Register : Four(Xor(a, b)) = Xor(Four(a), Four(b))
  BY TwiceIs DEF Four
<1>4. Four(Zero) = Zero
  BY TwiceIs DEF Four
<1> QED
  BY <1>1, <1>2, <1>3, <1>4

LEMMA EightIs ==
  /\ \A a \in Register : Eight(a) \in Register
  /\ \A a, b \in Register : Eight(a) = Eight(b) => a = b
  /\ \A a, b \in Register : Eight(Xor(a, b)) = Xor(Eight(a), Eight(b))
  /\ Eight(Zero) = Zero
<1>1. \A a \in Register : Eight(a) \in Register
  BY FourIs DEF Eight
<1>2. \A a, b \in Register : Eight(a) = Eight(b) => a = b
  BY FourIs DEF Eight
<1>3. \A a, b \in Register : Eight(Xor(a, b)) = Xor(Eight(a), Eight(b))
  BY FourIs DEF Eight
<1>4. Eight(Zero) = Zero
  BY FourIs DEF Eight
<1> QED
  BY <1>1, <1>2, <1>3, <1>4

(* The inner loop of the CRC. *)
ShiftStep(q, x, y) == Shift(x)

Inner == INSTANCE FoldProofs WITH Op <- ShiftStep

LEMMA EightSteps ==
  ASSUME NEW c
  PROVE  FoldLeft(LAMBDA x, step : Shift(x), c, <<1, 2, 3, 4, 5, 6, 7, 8>>) = Eight(c)
<1>1. PICK seq : seq = <<1, 2, 3, 4, 5, 6, 7, 8>>
  OBVIOUS
<1>n. PICK n \in Nat : n = 8
  OBVIOUS
<1>2. DOMAIN seq = 1 .. n
  BY <1>1, <1>n
<1>3a. PICK st : Inner!Passes(0, c, seq, n, st) /\ Inner!Fold(0, c, seq) = st[n]
  BY <1>2, Inner!FoldStates
<1>3. Inner!Passes(0, c, seq, 8, st) /\ Inner!Fold(0, c, seq) = st[8]
  BY <1>3a, <1>n
<1>4. FoldLeft(LAMBDA x, step : Shift(x), c, seq) = Inner!Fold(0, c, seq)
  BY DEF ShiftStep, Inner!Fold, FoldLeft, MapThenFoldSet, Max,
         Inner!MapThenFoldSet, Inner!Most
<1>5. st[0] = c /\ \A i \in 1 .. 8 : st[i] = Shift(st[i - 1])
  BY <1>3 DEF Inner!Passes, ShiftStep
<1>6. /\ st[1] = Shift(st[0]) /\ st[2] = Shift(st[1]) /\ st[3] = Shift(st[2])
      /\ st[4] = Shift(st[3]) /\ st[5] = Shift(st[4]) /\ st[6] = Shift(st[5])
      /\ st[7] = Shift(st[6]) /\ st[8] = Shift(st[7])
  BY <1>5
<1>7. st[4] = Four(st[0]) /\ st[8] = Four(st[4])
  BY <1>6, Zenon DEF Four, Twice
<1> QED
  BY <1>1, <1>3, <1>4, <1>5, <1>7 DEF Eight

(* A byte at the top of the register. *)
Top(byte) == [i \in 0 .. 15 |-> IF i >= 8 /\ Bit(byte, i - 8) THEN 1 ELSE 0]

LEMMA TopRegister == \A byte : Top(byte) \in Register
<1>1. \A byte : \A i \in 0 .. 15 : (IF i >= 8 /\ Bit(byte, i - 8) THEN 1 ELSE 0) \in {0, 1}
  OBVIOUS
<1> QED
  BY <1>1 DEF Top, Register

LEMMA CrcByteIs == \A crc, byte : CrcByte(crc, byte) = Eight(Xor(crc, Top(byte)))
<1> SUFFICES ASSUME NEW crc, NEW byte PROVE CrcByte(crc, byte) = Eight(Xor(crc, Top(byte)))
  OBVIOUS
<1>1. CrcByte(crc, byte) =
        FoldLeft(LAMBDA x, step : Shift(x), Xor(crc, Top(byte)), <<1, 2, 3, 4, 5, 6, 7, 8>>)
  BY DEF CrcByte, Top
<1> QED
  BY <1>1, EightSteps

(* A register without its low k and its high m bits. *)
Empty(c, k, m) == \A i \in 0 .. 15 : i < k \/ i > 15 - m => c[i] = 0

LEMMA ShiftEmpty ==
  ASSUME NEW c \in Register, NEW k \in 1 .. 8, NEW m \in 0 .. 8, Empty(Shift(c), k, m)
  PROVE  Empty(c, k - 1, m + 1)
<1>1. c[15] = 0
  BY ShiftAt DEF Empty
<1>2. ASSUME NEW i \in 0 .. 15, i < k - 1 \/ i > 15 - (m + 1) PROVE c[i] = 0
  <2>1. CASE i = 15
    BY <1>1, <2>1
  <2>2. CASE i # 15
    <3>1. i + 1 \in 1 .. 15 /\ (i + 1) - 1 = i /\ (i + 1 < k \/ i + 1 > 15 - m)
      BY <1>2, <2>2
    <3>2. Shift(c)[i + 1] = 0
      BY <3>1 DEF Empty
    <3>3. Shift(c)[i + 1] = c[i]
      BY <1>1, <3>1, ShiftAt
    <3> QED
      BY <3>2, <3>3
  <2> QED
    BY <2>1, <2>2
<1> QED
  BY <1>2 DEF Empty

(* Eight steps leave something in the low byte of whatever was in the high. *)
LEMMA EightEmpty ==
  ASSUME NEW c \in Register, Empty(c, 8, 0), Empty(Eight(c), 8, 0)
  PROVE  c = Zero
<1>1. PICK c1, c2, c3, c4, c5, c6, c7 :
        /\ c1 = Shift(c) /\ c2 = Shift(c1) /\ c3 = Shift(c2) /\ c4 = Shift(c3)
        /\ c5 = Shift(c4) /\ c6 = Shift(c5) /\ c7 = Shift(c6)
  OBVIOUS
<1>2. Eight(c) = Shift(c7)
  BY <1>1, Zenon DEF Eight, Four, Twice
<1>3. /\ c1 \in Register /\ c2 \in Register /\ c3 \in Register /\ c4 \in Register
      /\ c5 \in Register /\ c6 \in Register /\ c7 \in Register
  BY <1>1, ShiftAt
<1>4. Empty(c7, 7, 1)
  BY <1>2, <1>3, ShiftEmpty
<1>5. Empty(c6, 6, 2)
  BY <1>1, <1>3, <1>4, ShiftEmpty
<1>6. Empty(c5, 5, 3)
  BY <1>1, <1>3, <1>5, ShiftEmpty
<1>7. Empty(c4, 4, 4)
  BY <1>1, <1>3, <1>6, ShiftEmpty
<1>8. Empty(c3, 3, 5)
  BY <1>1, <1>3, <1>7, ShiftEmpty
<1>9. Empty(c2, 2, 6)
  BY <1>1, <1>3, <1>8, ShiftEmpty
<1>10. Empty(c1, 1, 7)
  BY <1>1, <1>3, <1>9, ShiftEmpty
<1>11. Empty(c, 0, 8)
  BY <1>1, <1>10, ShiftEmpty
<1>12. \A i \in 0 .. 15 : c[i] = Zero[i]
  BY <1>11 DEF Empty, Zero
<1> QED
  BY <1>12, ZeroRegister, SameRegister

(* d is c moved up by k places. *)
MovedBy(c, d, k) == \A i \in 0 .. 15 : d[i] = IF i < k THEN 0 ELSE c[i - k]

LEMMA ShiftMoves ==
  ASSUME NEW c \in Register, NEW d \in Register, NEW k \in 0 .. 7,
         Empty(c, 0, 8), MovedBy(c, d, k)
  PROVE  MovedBy(c, Shift(d), k + 1)
<1>1. d[15] = 0
  <2>1. d[15] = c[15 - k] /\ 15 - k \in 0 .. 15 /\ 15 - k > 15 - 8
    BY DEF MovedBy
  <2> QED
    BY <2>1 DEF Empty
<1>2. ASSUME NEW i \in 0 .. 15
      PROVE  Shift(d)[i] = IF i < k + 1 THEN 0 ELSE c[i - (k + 1)]
  <2>1. CASE i = 0
    BY <1>1, <2>1, ShiftAt
  <2>2. CASE i # 0
    <3>1. i \in 1 .. 15 /\ i - 1 \in 0 .. 15
      BY <2>2
    <3>2. Shift(d)[i] = d[i - 1]
      BY <1>1, <3>1, ShiftAt
    <3>3. d[i - 1] = IF i - 1 < k THEN 0 ELSE c[(i - 1) - k]
      BY <3>1 DEF MovedBy
    <3>4. (i - 1 < k <=> i < k + 1) /\ (i - 1) - k = i - (k + 1)
      BY <3>1
    <3> QED
      BY <3>2, <3>3, <3>4
  <2> QED
    BY <2>1, <2>2
<1> QED
  BY <1>2 DEF MovedBy

(* Eight steps move a low byte to the top. *)
LEMMA EightMoves ==
  ASSUME NEW c \in Register, Empty(c, 0, 8)
  PROVE  MovedBy(c, Eight(c), 8)
<1>1. PICK c1, c2, c3, c4, c5, c6, c7 :
        /\ c1 = Shift(c) /\ c2 = Shift(c1) /\ c3 = Shift(c2) /\ c4 = Shift(c3)
        /\ c5 = Shift(c4) /\ c6 = Shift(c5) /\ c7 = Shift(c6)
  OBVIOUS
<1>2. Eight(c) = Shift(c7)
  BY <1>1, Zenon DEF Eight, Four, Twice
<1>3. /\ c1 \in Register /\ c2 \in Register /\ c3 \in Register /\ c4 \in Register
      /\ c5 \in Register /\ c6 \in Register /\ c7 \in Register
  BY <1>1, ShiftAt
<1>4. MovedBy(c, c, 0)
  BY DEF MovedBy
<1>5. MovedBy(c, c1, 1)
  BY <1>1, <1>4, ShiftMoves
<1>6. MovedBy(c, c2, 2)
  BY <1>1, <1>3, <1>5, ShiftMoves
<1>7. MovedBy(c, c3, 3)
  BY <1>1, <1>3, <1>6, ShiftMoves
<1>8. MovedBy(c, c4, 4)
  BY <1>1, <1>3, <1>7, ShiftMoves
<1>9. MovedBy(c, c5, 5)
  BY <1>1, <1>3, <1>8, ShiftMoves
<1>10. MovedBy(c, c6, 6)
  BY <1>1, <1>3, <1>9, ShiftMoves
<1>11. MovedBy(c, c7, 7)
  BY <1>1, <1>3, <1>10, ShiftMoves
<1> QED
  BY <1>2, <1>3, <1>11, ShiftMoves

-----------------------------------------------------------------------------
(* Bytes and their bits. *)

Word(f) == f[0] + 2 * f[1] + 4 * f[2] + 8 * f[3] + 16 * f[4] + 32 * f[5] + 64 * f[6] + 128 * f[7]

LEMMA BitIs ==
  ASSUME NEW b
  PROVE  /\ Bit(b, 0) <=> (b \div 1) % 2 = 1
         /\ Bit(b, 1) <=> (b \div 2) % 2 = 1
         /\ Bit(b, 2) <=> (b \div 4) % 2 = 1
         /\ Bit(b, 3) <=> (b \div 8) % 2 = 1
         /\ Bit(b, 4) <=> (b \div 16) % 2 = 1
         /\ Bit(b, 5) <=> (b \div 32) % 2 = 1
         /\ Bit(b, 6) <=> (b \div 64) % 2 = 1
         /\ Bit(b, 7) <=> (b \div 128) % 2 = 1
<1>1. /\ 2 ^ 0 = 1 /\ 2 ^ 1 = 2 /\ 2 ^ 2 = 4 /\ 2 ^ 3 = 8
      /\ 2 ^ 4 = 16 /\ 2 ^ 5 = 32 /\ 2 ^ 6 = 64 /\ 2 ^ 7 = 128
  OBVIOUS
<1> QED
  BY <1>1, Zenon DEF Bit

LEMMA WordBits ==
  ASSUME NEW f, \A n \in 0 .. 7 : f[n] \in {0, 1}
  PROVE  Word(f) \in 0 .. 255 /\ \A n \in 0 .. 7 : Bit(Word(f), n) <=> f[n] = 1
<1>1. PICK b0, b1, b2, b3, b4, b5, b6, b7 \in {0, 1} :
        /\ f[0] = b0 /\ f[1] = b1 /\ f[2] = b2 /\ f[3] = b3
        /\ f[4] = b4 /\ f[5] = b5 /\ f[6] = b6 /\ f[7] = b7
  OBVIOUS
<1>2. PICK w : w = Word(f)
  OBVIOUS
<1>3. w = b0 + 2 * b1 + 4 * b2 + 8 * b3 + 16 * b4 + 32 * b5 + 64 * b6 + 128 * b7
  BY <1>1, <1>2 DEF Word
<1>4. w \in 0 .. 255
  BY <1>3
<1>5. Bit(w, 0) <=> b0 = 1
  <2>1. (w \div 1) % 2 = b0
    BY <1>3
  <2> QED
    BY <2>1, BitIs
<1>6. Bit(w, 1) <=> b1 = 1
  <2>1. (w \div 2) % 2 = b1
    BY <1>3
  <2> QED
    BY <2>1, BitIs
<1>7. Bit(w, 2) <=> b2 = 1
  <2>1. (w \div 4) % 2 = b2
    BY <1>3
  <2> QED
    BY <2>1, BitIs
<1>8. Bit(w, 3) <=> b3 = 1
  <2>1. (w \div 8) % 2 = b3
    BY <1>3
  <2> QED
    BY <2>1, BitIs
<1>9. Bit(w, 4) <=> b4 = 1
  <2>1. (w \div 16) % 2 = b4
    BY <1>3
  <2> QED
    BY <2>1, BitIs
<1>10. Bit(w, 5) <=> b5 = 1
  <2>1. (w \div 32) % 2 = b5
    BY <1>3
  <2> QED
    BY <2>1, BitIs
<1>11. Bit(w, 6) <=> b6 = 1
  <2>1. (w \div 64) % 2 = b6
    BY <1>3
  <2> QED
    BY <2>1, BitIs
<1>12. Bit(w, 7) <=> b7 = 1
  <2>1. (w \div 128) % 2 = b7
    BY <1>3
  <2> QED
    BY <2>1, BitIs
<1>13. ASSUME NEW n \in 0 .. 7 PROVE Bit(w, n) <=> f[n] = 1
  <2>1. n \in {0, 1, 2, 3, 4, 5, 6, 7}
    OBVIOUS
  <2> QED
    BY <1>1, <1>5, <1>6, <1>7, <1>8, <1>9, <1>10, <1>11, <1>12, <2>1, Zenon
<1> QED
  BY <1>2, <1>4, <1>13

(* A byte is the sum of its bits. *)
LEMMA ByteWord ==
  ASSUME NEW b \in 0 .. 255
  PROVE  b = Word([n \in 0 .. 7 |-> IF Bit(b, n) THEN 1 ELSE 0])
<1>1. b = ((b \div 1) % 2) + 2 * ((b \div 2) % 2) + 4 * ((b \div 4) % 2) + 8 * ((b \div 8) % 2)
          + 16 * ((b \div 16) % 2) + 32 * ((b \div 32) % 2) + 64 * ((b \div 64) % 2)
          + 128 * ((b \div 128) % 2)
  OBVIOUS
<1>2. PICK f : f = [n \in 0 .. 7 |-> IF Bit(b, n) THEN 1 ELSE 0]
  OBVIOUS
<1>3. /\ f[0] = (b \div 1) % 2 /\ f[1] = (b \div 2) % 2
      /\ f[2] = (b \div 4) % 2 /\ f[3] = (b \div 8) % 2
      /\ f[4] = (b \div 16) % 2 /\ f[5] = (b \div 32) % 2
      /\ f[6] = (b \div 64) % 2 /\ f[7] = (b \div 128) % 2
  <2>1. /\ f[0] = (IF Bit(b, 0) THEN 1 ELSE 0) /\ f[1] = (IF Bit(b, 1) THEN 1 ELSE 0)
        /\ f[2] = (IF Bit(b, 2) THEN 1 ELSE 0) /\ f[3] = (IF Bit(b, 3) THEN 1 ELSE 0)
        /\ f[4] = (IF Bit(b, 4) THEN 1 ELSE 0) /\ f[5] = (IF Bit(b, 5) THEN 1 ELSE 0)
        /\ f[6] = (IF Bit(b, 6) THEN 1 ELSE 0) /\ f[7] = (IF Bit(b, 7) THEN 1 ELSE 0)
    BY <1>2
  <2> QED
    BY <2>1, BitIs, SMTT(30)
<1> QED
  BY <1>1, <1>2, <1>3 DEF Word

LEMMA SameByte ==
  ASSUME NEW a \in 0 .. 255, NEW b \in 0 .. 255, \A n \in 0 .. 7 : Bit(a, n) <=> Bit(b, n)
  PROVE  a = b
<1>1. [n \in 0 .. 7 |-> IF Bit(a, n) THEN 1 ELSE 0] = [n \in 0 .. 7 |-> IF Bit(b, n) THEN 1 ELSE 0]
  OBVIOUS
<1> QED
  BY <1>1, ByteWord

(* The two bytes of a CRC: crc stands for the register, and q for it in the *)
(* fold.                                                                   *)
HighStep(q, x, y) == x + q[8 + y] * 2 ^ y
LowStep(q, x, y) == x + q[0 + y] * 2 ^ y

HighSum(crc) ==
  FoldLeft(LAMBDA sum, n : sum + crc[8 + n] * 2 ^ n, 0, <<0, 1, 2, 3, 4, 5, 6, 7>>)
LowSum(crc) ==
  FoldLeft(LAMBDA sum, n : sum + crc[0 + n] * 2 ^ n, 0, <<0, 1, 2, 3, 4, 5, 6, 7>>)

High == INSTANCE FoldProofs WITH Op <- HighStep
Low == INSTANCE FoldProofs WITH Op <- LowStep

(* The sum of eight bits, one at a time. *)
LEMMA BitsSummed ==
  ASSUME NEW f, \A m \in 0 .. 7 : f[m] \in {0, 1},
         NEW st, st[0] = 0, NEW pw, pw = [y \in 0 .. 7 |-> 2 ^ y],
         \A i \in 1 .. 8 : st[i] = st[i - 1] + f[i - 1] * pw[i - 1]
  PROVE  st[8] = Word(f)
<1>1. /\ pw[0] = 2 ^ 0 /\ pw[1] = 2 ^ 1 /\ pw[2] = 2 ^ 2 /\ pw[3] = 2 ^ 3
      /\ pw[4] = 2 ^ 4 /\ pw[5] = 2 ^ 5 /\ pw[6] = 2 ^ 6 /\ pw[7] = 2 ^ 7
  OBVIOUS
<1>2. /\ 2 ^ 0 = 1 /\ 2 ^ 1 = 2 /\ 2 ^ 2 = 4 /\ 2 ^ 3 = 8
      /\ 2 ^ 4 = 16 /\ 2 ^ 5 = 32 /\ 2 ^ 6 = 64 /\ 2 ^ 7 = 128
  OBVIOUS
<1>3. /\ pw[0] = 1 /\ pw[1] = 2 /\ pw[2] = 4 /\ pw[3] = 8
      /\ pw[4] = 16 /\ pw[5] = 32 /\ pw[6] = 64 /\ pw[7] = 128
  BY <1>1, <1>2, Zenon
<1>4. /\ st[1] = st[0] + f[0] * pw[0] /\ st[2] = st[1] + f[1] * pw[1]
      /\ st[3] = st[2] + f[2] * pw[2] /\ st[4] = st[3] + f[3] * pw[3]
      /\ st[5] = st[4] + f[4] * pw[4] /\ st[6] = st[5] + f[5] * pw[5]
      /\ st[7] = st[6] + f[6] * pw[6] /\ st[8] = st[7] + f[7] * pw[7]
  <2> HIDE DEF Word
  <2>1. \A i, j : i \in 1 .. 8 /\ j = i - 1 => st[i] = st[j] + f[j] * pw[j]
    OBVIOUS
  <2>2. /\ st[1] = st[0] + f[0] * pw[0] /\ st[2] = st[1] + f[1] * pw[1]
        /\ st[3] = st[2] + f[2] * pw[2] /\ st[4] = st[3] + f[3] * pw[3]
    BY <2>1
  <2>3. /\ st[5] = st[4] + f[4] * pw[4] /\ st[6] = st[5] + f[5] * pw[5]
        /\ st[7] = st[6] + f[6] * pw[6] /\ st[8] = st[7] + f[7] * pw[7]
    BY <2>1
  <2> QED
    BY <2>2, <2>3
<1>5. PICK b0, b1, b2, b3, b4, b5, b6, b7 \in {0, 1} :
        /\ f[0] = b0 /\ f[1] = b1 /\ f[2] = b2 /\ f[3] = b3
        /\ f[4] = b4 /\ f[5] = b5 /\ f[6] = b6 /\ f[7] = b7
  OBVIOUS
<1>6. /\ st[1] = 0 + b0 * 1 /\ st[2] = st[1] + b1 * 2
      /\ st[3] = st[2] + b2 * 4 /\ st[4] = st[3] + b3 * 8
      /\ st[5] = st[4] + b4 * 16 /\ st[6] = st[5] + b5 * 32
      /\ st[7] = st[6] + b6 * 64 /\ st[8] = st[7] + b7 * 128
  BY <1>3, <1>4, <1>5, ZenonT(30)
<1>7. st[8] = b0 + 2 * b1 + 4 * b2 + 8 * b3 + 16 * b4 + 32 * b5 + 64 * b6 + 128 * b7
  BY <1>6
<1> QED
  BY <1>5, <1>7 DEF Word

LEMMA HighByte ==
  ASSUME NEW crc \in Register
  PROVE  HighSum(crc) = Word([n \in 0 .. 7 |-> crc[8 + n]])
<1>1. PICK seq : seq = <<0, 1, 2, 3, 4, 5, 6, 7>>
  OBVIOUS
<1>n. PICK n \in Nat : n = 8
  OBVIOUS
<1>2. DOMAIN seq = 1 .. n
  BY <1>1, <1>n
<1>3. PICK st : High!Passes(crc, 0, seq, n, st) /\ High!Fold(crc, 0, seq) = st[n]
  BY <1>2, High!FoldStates
<1>4. FoldLeft(LAMBDA sum, m : sum + crc[8 + m] * 2 ^ m, 0, seq) = High!Fold(crc, 0, seq)
  BY DEF HighStep, High!Fold, FoldLeft, MapThenFoldSet, Max,
         High!MapThenFoldSet, High!Most
<1>5. st[0] = 0 /\ \A i \in 1 .. 8 : st[i] = st[i - 1] + crc[8 + seq[i]] * 2 ^ seq[i]
  BY <1>3, <1>n DEF High!Passes, HighStep
<1>6. PICK pw : pw = [y \in 0 .. 7 |-> 2 ^ y]
  OBVIOUS
<1>7. PICK f : f = [m \in 0 .. 7 |-> crc[8 + m]]
  OBVIOUS
<1>8. \A m \in 0 .. 7 : f[m] = crc[8 + m] /\ f[m] \in {0, 1}
  BY <1>7 DEF Register
<1>9. ASSUME NEW i \in 1 .. 8 PROVE st[i] = st[i - 1] + f[i - 1] * pw[i - 1]
  <2>1. seq[i] = i - 1
    BY <1>1
  <2>2. i - 1 \in 0 .. 7
    OBVIOUS
  <2>3. PICK k \in 0 .. 7 : k = i - 1
    BY <2>2
  <2>4. st[i] = st[k] + crc[8 + k] * 2 ^ k
    BY <1>5, <2>1, <2>3
  <2>5. crc[8 + k] = f[k] /\ 2 ^ k = pw[k]
    BY <1>6, <1>8
  <2> QED
    BY <2>3, <2>4, <2>5, Zenon
<1>10. st[8] = Word(f)
  BY <1>5, <1>6, <1>8, <1>9, BitsSummed
<1> QED
  BY <1>1, <1>n, <1>3, <1>4, <1>7, <1>10 DEF HighSum

LEMMA LowByte ==
  ASSUME NEW crc \in Register
  PROVE  LowSum(crc) = Word([n \in 0 .. 7 |-> crc[0 + n]])
<1>1. PICK seq : seq = <<0, 1, 2, 3, 4, 5, 6, 7>>
  OBVIOUS
<1>n. PICK n \in Nat : n = 8
  OBVIOUS
<1>2. DOMAIN seq = 1 .. n
  BY <1>1, <1>n
<1>3. PICK st : Low!Passes(crc, 0, seq, n, st) /\ Low!Fold(crc, 0, seq) = st[n]
  BY <1>2, Low!FoldStates
<1>4. FoldLeft(LAMBDA sum, m : sum + crc[0 + m] * 2 ^ m, 0, seq) = Low!Fold(crc, 0, seq)
  BY DEF LowStep, Low!Fold, FoldLeft, MapThenFoldSet, Max,
         Low!MapThenFoldSet, Low!Most
<1>5. st[0] = 0 /\ \A i \in 1 .. 8 : st[i] = st[i - 1] + crc[0 + seq[i]] * 2 ^ seq[i]
  BY <1>3, <1>n DEF Low!Passes, LowStep
<1>6. PICK pw : pw = [y \in 0 .. 7 |-> 2 ^ y]
  OBVIOUS
<1>7. PICK f : f = [m \in 0 .. 7 |-> crc[0 + m]]
  OBVIOUS
<1>8. \A m \in 0 .. 7 : f[m] = crc[0 + m] /\ f[m] \in {0, 1}
  BY <1>7 DEF Register
<1>9. ASSUME NEW i \in 1 .. 8 PROVE st[i] = st[i - 1] + f[i - 1] * pw[i - 1]
  <2>1. seq[i] = i - 1
    BY <1>1
  <2>2. i - 1 \in 0 .. 7
    OBVIOUS
  <2>3. PICK k \in 0 .. 7 : k = i - 1
    BY <2>2
  <2>4. st[i] = st[k] + crc[0 + k] * 2 ^ k
    BY <1>5, <2>1, <2>3
  <2>5. crc[0 + k] = f[k] /\ 2 ^ k = pw[k]
    BY <1>6, <1>8
  <2> QED
    BY <2>3, <2>4, <2>5, Zenon
<1>10. st[8] = Word(f)
  BY <1>5, <1>6, <1>8, <1>9, BitsSummed
<1> QED
  BY <1>1, <1>n, <1>3, <1>4, <1>7, <1>10 DEF LowSum

LEMMA CrcBytesAre ==
  ASSUME NEW bytes, CRC16(bytes) \in Register
  PROVE  \E hi, lo \in 0 .. 255 :
           /\ CrcBytes(bytes) = <<hi, lo>>
           /\ \A n \in 0 .. 7 : /\ Bit(hi, n) <=> CRC16(bytes)[8 + n] = 1
                                /\ Bit(lo, n) <=> CRC16(bytes)[n] = 1
<1>1. PICK crc \in Register : crc = CRC16(bytes)
  OBVIOUS
<1>2. PICK f : f = [n \in 0 .. 7 |-> crc[8 + n]]
  OBVIOUS
<1>3. PICK g : g = [n \in 0 .. 7 |-> crc[0 + n]]
  OBVIOUS
<1>4. \A n \in 0 .. 7 : f[n] = crc[8 + n] /\ f[n] \in {0, 1} /\ g[n] = crc[n] /\ g[n] \in {0, 1}
  BY <1>2, <1>3 DEF Register
<1>5a. CrcBytes(bytes) = <<HighSum(CRC16(bytes)), LowSum(CRC16(bytes))>>
  BY DEF CrcBytes, HighSum, LowSum
<1>5. CrcBytes(bytes) = <<HighSum(crc), LowSum(crc)>>
  BY <1>1, <1>5a
<1>6. HighSum(crc) = Word(f)
  BY <1>2, HighByte
<1>7. LowSum(crc) = Word(g)
  BY <1>3, LowByte
<1>8. CrcBytes(bytes) = <<Word(f), Word(g)>>
  BY <1>5, <1>6, <1>7
<1>9. Word(f) \in 0 .. 255 /\ \A n \in 0 .. 7 : Bit(Word(f), n) <=> f[n] = 1
  BY <1>4, WordBits
<1>10. Word(g) \in 0 .. 255 /\ \A n \in 0 .. 7 : Bit(Word(g), n) <=> g[n] = 1
  BY <1>4, WordBits
<1>11. PICK hi, lo \in 0 .. 255 : hi = Word(f) /\ lo = Word(g)
  BY <1>9, <1>10
<1>12. \A n \in 0 .. 7 : /\ Bit(hi, n) <=> crc[8 + n] = 1
                         /\ Bit(lo, n) <=> crc[n] = 1
  BY <1>4, <1>9, <1>10, <1>11
<1> QED
  BY <1>1, <1>8, <1>11, <1>12

(* The CRC of a sequence of bytes, as the registers it passes through. *)
CrcStep(q, x, y) == CrcByte(x, y)

Outer == INSTANCE FoldProofs WITH Op <- CrcStep

Ones == [i \in 0 .. 15 |-> 1]

Runs(s, n, st) ==
  /\ st[0] = Ones
  /\ \A k \in 0 .. n : st[k] \in Register
  /\ \A k \in 1 .. n : st[k] = Eight(Xor(st[k - 1], Top(s[k])))

LEMMA OuterFold == \A bytes : CRC16(bytes) = Outer!Fold(0, Ones, bytes)
  BY DEF CRC16, Ones, CrcStep, Outer!Fold, FoldLeft, MapThenFoldSet, Max,
         Outer!MapThenFoldSet, Outer!Most

LEMMA CrcRuns ==
  ASSUME NEW s, NEW n \in Nat, DOMAIN s = 1 .. n
  PROVE  \E st : Runs(s, n, st) /\ st[n] = CRC16(s)
<1>1. PICK st : Outer!Passes(0, Ones, s, n, st) /\ Outer!Fold(0, Ones, s) = st[n]
  BY Outer!FoldStates
<1>2. CRC16(s) = st[n]
  BY <1>1, OuterFold
<1>3. st[0] = Ones /\ \A k \in 1 .. n : st[k] = CrcByte(st[k - 1], s[k])
  BY <1>1 DEF Outer!Passes, CrcStep
<1>4. \A k \in 1 .. n : st[k] = Eight(Xor(st[k - 1], Top(s[k])))
  BY <1>3, CrcByteIs
<1>5. \A k \in 0 .. n : st[k] \in Register
  <2> DEFINE J == {k \in Nat : k <= n => st[k] \in Register}
  <2>1. 0 \in J
    <3>1. Ones \in Register
      BY DEF Ones, Register
    <3> QED
      BY <1>3, <3>1
  <2>2. ASSUME NEW k \in Nat, k \in J PROVE k + 1 \in J
    <3>1. CASE k + 1 <= n
      <4>1. k + 1 \in 1 .. n /\ (k + 1) - 1 = k /\ st[k] \in Register
        BY <2>2, <3>1
      <4>2. st[k + 1] = Eight(Xor(st[k], Top(s[k + 1])))
        BY <1>4, <4>1
      <4>3. Xor(st[k], Top(s[k + 1])) \in Register
        BY <4>1, TopRegister, XorAt
      <4> QED
        BY <4>2, <4>3, EightIs
    <3>2. CASE ~ (k + 1 <= n)
      BY <3>2
    <3> QED
      BY <3>1, <3>2
  <2> HIDE DEF J
  <2>3. \A k \in Nat : k \in J
    BY <2>1, <2>2, Ends!CountUp
  <2> QED
    BY <2>3 DEF J
<1> QED
  BY <1>2, <1>3, <1>4, <1>5 DEF Runs

LEMMA TopAt ==
  ASSUME NEW b
  PROVE  /\ Top(b) \in Register /\ Empty(Top(b), 8, 0)
         /\ \A i \in 8 .. 15 : Top(b)[i] = 1 <=> Bit(b, i - 8)
<1>1. \A i \in 0 .. 15 : Top(b)[i] = IF i >= 8 /\ Bit(b, i - 8) THEN 1 ELSE 0
  BY DEF Top
<1>2. \A i \in 8 .. 15 : Top(b)[i] = 1 <=> Bit(b, i - 8)
  BY <1>1
<1>3. Empty(Top(b), 8, 0)
  BY <1>1 DEF Empty
<1> QED
  BY <1>2, <1>3, TopRegister

(* The CRC bytes of a register take it to Zero. *)
LEMMA OwnBytes ==
  ASSUME NEW c \in Register, NEW hi, NEW lo,
         \A n \in 0 .. 7 : /\ Bit(hi, n) <=> c[8 + n] = 1
                           /\ Bit(lo, n) <=> c[n] = 1
  PROVE  Eight(Xor(Eight(Xor(c, Top(hi))), Top(lo))) = Zero
<1>1. PICK x : x = Xor(c, Top(hi))
  OBVIOUS
<1>2. x \in Register /\ \A i \in 0 .. 15 : x[i] = IF c[i] = Top(hi)[i] THEN 0 ELSE 1
  BY <1>1, TopAt, XorAt
<1>3. \A i \in 0 .. 15 : c[i] \in {0, 1} /\ Top(hi)[i] \in {0, 1} /\ Top(lo)[i] \in {0, 1}
  BY TopAt DEF Register
<1>4. ASSUME NEW i \in 8 .. 15 PROVE x[i] = 0
  <2>1. PICK n \in 0 .. 7 : n = i - 8 /\ 8 + n = i
    OBVIOUS
  <2>2. Top(hi)[i] = 1 <=> c[i] = 1
    BY <2>1, TopAt
  <2> QED
    BY <1>2, <1>3, <2>2
<1>5. ASSUME NEW i \in 0 .. 7 PROVE x[i] = c[i]
  <2>1. Top(hi)[i] = 0
    BY TopAt DEF Empty
  <2> QED
    BY <1>2, <1>3, <2>1
<1>6. Empty(x, 0, 8)
  BY <1>4 DEF Empty
<1>7. PICK y \in Register : y = Eight(x)
  BY <1>2, EightIs
<1>8. MovedBy(x, y, 8)
  BY <1>2, <1>6, <1>7, EightMoves
<1>9. ASSUME NEW i \in 0 .. 15 PROVE y[i] = Top(lo)[i]
  <2>1. CASE i < 8
    BY <1>8, <2>1, TopAt DEF MovedBy, Empty
  <2>2. CASE ~ (i < 8)
    <3>1. PICK n \in 0 .. 7 : n = i - 8 /\ i \in 8 .. 15
      BY <2>2
    <3>2. y[i] = c[n]
      BY <1>5, <1>8, <2>2, <3>1 DEF MovedBy
    <3>3. Top(lo)[i] = 1 <=> c[n] = 1
      BY <3>1, TopAt
    <3> QED
      BY <1>3, <3>1, <3>2, <3>3
  <2> QED
    BY <2>1, <2>2
<1>10. y = Top(lo)
  BY <1>7, <1>9, TopAt, SameRegister
<1>11. Xor(y, Top(lo)) = Zero
  BY <1>7, <1>10, XorZero
<1> QED
  BY <1>1, <1>7, <1>11, EightIs

LEMMA FitsRuns ==
  ASSUME NEW n \in Nat, n >= 2, NEW s \in [1 .. n -> 0 .. 255], Fits(s)
  PROVE  \E st : Runs(s, n, st) /\ st[n] = Zero
<1>1. PICK m \in Nat : m + 2 = n
  <2>1. n - 2 \in Nat /\ (n - 2) + 2 = n
    OBVIOUS
  <2> QED
    BY <2>1
<1>2. s \in Seq(0 .. 255) /\ Len(s) = n
  OBVIOUS
<1>3. PICK p : p = SubSeq(s, 1, m)
  OBVIOUS
<1>4. p \in Seq(0 .. 255) /\ Len(p) = m /\ DOMAIN p = 1 .. m /\ \A i \in 1 .. m : p[i] = s[i]
  <2>1. p = [i \in 1 .. m |-> s[i]]
    BY <1>1, <1>2, <1>3
  <2>2. \A i \in 1 .. m : s[i] \in 0 .. 255
    BY <1>1
  <2> QED
    BY <2>1, <2>2
<1>5. s = Sealed(p)
  <2>1. Len(s) - 2 = m
    BY <1>1, <1>2
  <2> QED
    BY <1>3, <2>1, Zenon DEF Fits
<1>6. PICK st : Runs(p, m, st) /\ st[m] = CRC16(p)
  BY <1>4, CrcRuns
<1>7. CRC16(p) \in Register
  BY <1>6 DEF Runs
<1>8. PICK hi, lo \in 0 .. 255 :
        /\ CrcBytes(p) = <<hi, lo>>
        /\ \A k \in 0 .. 7 : /\ Bit(hi, k) <=> CRC16(p)[8 + k] = 1
                             /\ Bit(lo, k) <=> CRC16(p)[k] = 1
  BY <1>7, CrcBytesAre
<1>9. s = p \o <<hi, lo>>
  BY <1>5, <1>8 DEF Sealed
<1>10. s[m + 1] = hi /\ s[m + 2] = lo
  <2>1. PICK q : q = <<hi, lo>>
    OBVIOUS
  <2>2. q \in Seq(0 .. 255) /\ Len(q) = 2 /\ q[1] = hi /\ q[2] = lo
    BY <2>1
  <2>3. s = p \o q
    BY <1>9, <2>1
  <2>4. \A i \in 1 .. Len(q) : s[Len(p) + i] = q[i]
    <3>1. PICK B : B = 0 .. 255
      OBVIOUS
    <3>2. p \in Seq(B) /\ q \in Seq(B)
      BY <1>4, <2>2, <3>1
    <3>3. \A i \in 1 .. Len(q) : (p \o q)[Len(p) + i] = q[i]
      BY <3>2, ConcatTwo
    <3> QED
      BY <2>3, <3>3
  <2>5. s[m + 1] = q[1] /\ s[m + 2] = q[2]
    BY <1>4, <2>2, <2>4
  <2> QED
    BY <2>2, <2>5
<1>11. PICK y : y = Eight(Xor(st[m], Top(hi)))
  OBVIOUS
<1>12. y \in Register
  BY <1>6, <1>7, <1>11, TopAt, XorAt, EightIs
<1>13. Eight(Xor(y, Top(lo))) = Zero
  <2>1. PICK c \in Register : c = CRC16(p)
    BY <1>7
  <2>2. \A k \in 0 .. 7 : /\ Bit(hi, k) <=> c[8 + k] = 1
                          /\ Bit(lo, k) <=> c[k] = 1
    BY <1>8, <2>1, Zenon
  <2>3. Eight(Xor(Eight(Xor(c, Top(hi))), Top(lo))) = Zero
    BY <2>2, OwnBytes
  <2> QED
    BY <1>6, <1>11, <2>1, <2>3
<1>14. PICK t : t = [k \in 0 .. n |-> IF k <= m THEN st[k] ELSE IF k = m + 1 THEN y ELSE Zero]
  OBVIOUS
<1>15. \A k \in 0 .. m : t[k] = st[k]
  BY <1>1, <1>14
<1>16. t[m + 1] = y /\ t[n] = Zero
  BY <1>1, <1>14
<1>17. \A k \in 0 .. n : t[k] \in Register
  <2>1. ASSUME NEW k \in 0 .. n PROVE t[k] \in Register
    <3>1. CASE k <= m
      BY <1>6, <1>15, <3>1 DEF Runs
    <3>2. CASE k = m + 1
      BY <1>12, <1>16, <3>2
    <3>3. CASE k = n
      BY <1>16, <3>3, ZeroRegister
    <3> QED
      BY <1>1, <3>1, <3>2, <3>3
  <2> QED
    BY <2>1
<1>18. \A k \in 1 .. n : t[k] = Eight(Xor(t[k - 1], Top(s[k])))
  <2>1. ASSUME NEW k \in 1 .. n PROVE t[k] = Eight(Xor(t[k - 1], Top(s[k])))
    <3>1. CASE k <= m
      <4>1. k \in 1 .. m /\ k \in 0 .. m /\ k - 1 \in 0 .. m
        BY <3>1
      <4>2. st[k] = Eight(Xor(st[k - 1], Top(p[k])))
        BY <1>6, <4>1 DEF Runs
      <4> QED
        BY <1>4, <1>15, <4>1, <4>2
    <3>2. CASE k = m + 1
      <4>1. k - 1 = m /\ m \in 0 .. m
        BY <3>2
      <4>2. t[k - 1] = st[m]
        BY <1>15, <4>1
      <4> QED
        BY <1>10, <1>11, <1>16, <3>2, <4>2
    <3>3. CASE k = n
      <4>1. k - 1 = m + 1 /\ k = m + 2
        BY <1>1, <3>3
      <4> QED
        BY <1>10, <1>13, <1>16, <3>3, <4>1
    <3> QED
      BY <1>1, <3>1, <3>2, <3>3
  <2> QED
    BY <2>1
<1>19. t[0] = Ones
  <2>1. 0 \in 0 .. m
    OBVIOUS
  <2> QED
    BY <1>6, <1>15, <2>1 DEF Runs
<1> QED
  BY <1>16, <1>17, <1>18, <1>19 DEF Runs

-----------------------------------------------------------------------------
(* Two frames that both have their CRC right, byte by byte: E is where they *)
(* differ, D how their registers do.                                       *)
Drift(n, D, E) ==
  /\ D[0] = Zero /\ D[n] = Zero
  /\ \A k \in 0 .. n : D[k] \in Register
  /\ \A k \in 1 .. n : E[k] \in Register /\ Empty(E[k], 8, 0)
  /\ \A k \in 1 .. n : D[k] = Eight(Xor(D[k - 1], E[k]))

Apart(a, b, n) == [k \in 1 .. n |-> Xor(Top(a[k]), Top(b[k]))]

LEMMA ApartAt ==
  ASSUME NEW n \in Nat, NEW a, NEW b, NEW k \in 1 .. n
  PROVE  /\ Apart(a, b, n)[k] \in Register /\ Empty(Apart(a, b, n)[k], 8, 0)
         /\ \A m \in 0 .. 7 : Apart(a, b, n)[k][8 + m] = 0 <=> (Bit(a[k], m) <=> Bit(b[k], m))
<1>1. PICK e : e = Apart(a, b, n)[k]
  OBVIOUS
<1>2. PICK p, q : p = Top(a[k]) /\ q = Top(b[k])
  OBVIOUS
<1>3. e = Xor(p, q)
  BY <1>1, <1>2 DEF Apart
<1>4. p \in Register /\ q \in Register /\ Empty(p, 8, 0) /\ Empty(q, 8, 0)
  BY <1>2, TopAt
<1>5. e \in Register /\ \A i \in 0 .. 15 : e[i] = IF p[i] = q[i] THEN 0 ELSE 1
  BY <1>3, <1>4, XorAt
<1>6. Empty(e, 8, 0)
  BY <1>4, <1>5 DEF Empty
<1>7. ASSUME NEW m \in 0 .. 7 PROVE e[8 + m] = 0 <=> (Bit(a[k], m) <=> Bit(b[k], m))
  <2>1. PICK i \in 8 .. 15 : i = 8 + m /\ i - 8 = m
    <3>1. 8 + m \in 8 .. 15 /\ (8 + m) - 8 = m
      OBVIOUS
    <3> QED
      BY <3>1
  <2>2. p[i] = 1 <=> Bit(a[k], m)
    BY <1>2, <2>1, TopAt
  <2>3. q[i] = 1 <=> Bit(b[k], m)
    BY <1>2, <2>1, TopAt
  <2>4. p[i] \in {0, 1} /\ q[i] \in {0, 1}
    BY <1>4, <2>1 DEF Register
  <2>5. e[i] = IF p[i] = q[i] THEN 0 ELSE 1
    BY <1>5, <2>1
  <2> QED
    BY <2>1, <2>2, <2>3, <2>4, <2>5
<1> QED
  BY <1>1, <1>5, <1>6, <1>7

LEMMA Drifting ==
  ASSUME NEW n \in Nat, n >= 2, NEW a \in [1 .. n -> 0 .. 255], NEW b \in [1 .. n -> 0 .. 255],
         Fits(a), Fits(b)
  PROVE  \E D : Drift(n, D, Apart(a, b, n))
<1>1. PICK s : Runs(a, n, s) /\ s[n] = Zero
  BY FitsRuns
<1>2. PICK t : Runs(b, n, t) /\ t[n] = Zero
  BY FitsRuns
<1>3. PICK D : D = [k \in 0 .. n |-> Xor(s[k], t[k])]
  OBVIOUS
<1>4. PICK E : E = Apart(a, b, n)
  OBVIOUS
<1>5. \A k \in 0 .. n : s[k] \in Register /\ t[k] \in Register
  BY <1>1, <1>2 DEF Runs
<1>6. \A k \in 0 .. n : D[k] = Xor(s[k], t[k]) /\ D[k] \in Register
  BY <1>3, <1>5, XorAt
<1>7. D[0] = Zero
  <2>1. s[0] = Ones /\ t[0] = Ones /\ 0 \in 0 .. n
    BY <1>1, <1>2 DEF Runs
  <2>2. Ones \in Register
    BY <1>5, <2>1
  <2> QED
    BY <1>6, <2>1, <2>2, XorZero
<1>8. D[n] = Zero
  <2>1. n \in 0 .. n
    OBVIOUS
  <2> QED
    BY <1>1, <1>2, <1>6, <2>1, ZeroRegister, XorZero
<1>9. \A k \in 1 .. n : E[k] \in Register /\ Empty(E[k], 8, 0)
  BY <1>4, ApartAt
<1>10. ASSUME NEW k \in 1 .. n PROVE D[k] = Eight(Xor(D[k - 1], E[k]))
  <2>1. PICK j \in 0 .. n : j = k - 1
    OBVIOUS
  <2>2. PICK p, q : p = Top(a[k]) /\ q = Top(b[k])
    OBVIOUS
  <2>3. p \in Register /\ q \in Register
    BY <2>2, TopAt
  <2>4. s[k] = Eight(Xor(s[j], p)) /\ t[k] = Eight(Xor(t[j], q))
    BY <1>1, <1>2, <2>1, <2>2 DEF Runs
  <2>5. Xor(s[j], p) \in Register /\ Xor(t[j], q) \in Register
    BY <1>5, <2>1, <2>3, XorAt
  <2>6. Xor(s[k], t[k]) = Eight(Xor(Xor(s[j], p), Xor(t[j], q)))
    BY <2>4, <2>5, EightIs
  <2>7. Xor(Xor(s[j], p), Xor(t[j], q)) = Xor(Xor(s[j], t[j]), Xor(p, q))
    BY <1>5, <2>1, <2>3, XorPairs
  <2>8. E[k] = Xor(p, q)
    BY <1>4, <2>2 DEF Apart
  <2>9. D[k] = Xor(s[k], t[k]) /\ D[j] = Xor(s[j], t[j])
    BY <1>6, <2>1
  <2> QED
    BY <2>1, <2>6, <2>7, <2>8, <2>9
<1> QED
  BY <1>4, <1>6, <1>7, <1>8, <1>9, <1>10 DEF Drift

(* Before the first difference the registers are the same, and after the   *)
(* last one they are, because no step makes two registers the same.        *)
LEMMA DriftBefore ==
  ASSUME NEW n \in Nat, NEW D, NEW E, Drift(n, D, E), NEW j \in 0 .. n,
         \A k \in 1 .. j : E[k] = Zero
  PROVE  D[j] = Zero
<1> DEFINE J == {k \in Nat : k <= j => D[k] = Zero}
<1>1. 0 \in J
  BY DEF Drift
<1>2. ASSUME NEW k \in Nat, k \in J PROVE k + 1 \in J
  <2>1. CASE k + 1 <= j
    <3>1. k + 1 \in 1 .. j /\ k + 1 \in 1 .. n /\ (k + 1) - 1 = k /\ D[k] = Zero
      BY <1>2, <2>1
    <3>2. D[k + 1] = Eight(Xor(D[k], E[k + 1]))
      BY <3>1 DEF Drift
    <3>3. Xor(Zero, Zero) = Zero
      BY ZeroRegister, XorZero
    <3>4. D[k + 1] = Zero
      BY <3>1, <3>2, <3>3, EightIs
    <3> QED
      BY <3>4
  <2>2. CASE ~ (k + 1 <= j)
    BY <2>2
  <2> QED
    BY <2>1, <2>2
<1> HIDE DEF J
<1>3. \A k \in Nat : k \in J
  BY <1>1, <1>2, Ends!CountUp
<1> QED
  BY <1>3 DEF J

LEMMA DriftAfter ==
  ASSUME NEW n \in Nat, NEW D, NEW E, Drift(n, D, E), NEW j \in 0 .. n,
         \A k \in j + 1 .. n : E[k] = Zero
  PROVE  D[j] = Zero
<1> DEFINE J == {k \in Nat : k <= n - j => D[n - k] = Zero}
<1>1. 0 \in J
  <2>1. n - 0 = n
    OBVIOUS
  <2> QED
    BY <2>1 DEF Drift
<1>2. ASSUME NEW k \in Nat, k \in J PROVE k + 1 \in J
  <2>1. CASE k + 1 <= n - j
    <3>1. PICK m \in j + 1 .. n : m = n - k
      <4>1. n - k \in j + 1 .. n
        BY <2>1
      <4> QED
        BY <4>1
    <3>2. D[m] = Zero
      BY <1>2, <2>1, <3>1
    <3>3. PICK l \in 0 .. n : l = m - 1 /\ l = n - (k + 1)
      <4>1. m - 1 \in 0 .. n /\ m - 1 = n - (k + 1)
        BY <3>1
      <4> QED
        BY <4>1
    <3>4. m \in 1 .. n
      BY <3>1
    <3>5. D[m] = Eight(Xor(D[l], E[m])) /\ D[l] \in Register
      BY <3>3, <3>4 DEF Drift
    <3>6. E[m] = Zero
      BY <3>1
    <3>7. Xor(D[l], Zero) \in Register
      BY <3>5, ZeroRegister, XorAt
    <3>8. Xor(D[l], Zero) = Zero
      BY <3>2, <3>5, <3>6, <3>7, ZeroRegister, EightIs
    <3>9. D[l] = Zero
      BY <3>5, <3>8, ZeroRegister, XorCancels
    <3> QED
      BY <3>3, <3>9
  <2>2. CASE ~ (k + 1 <= n - j)
    BY <2>2
  <2> QED
    BY <2>1, <2>2
<1> HIDE DEF J
<1>3. \A k \in Nat : k \in J
  BY <1>1, <1>2, Ends!CountUp
<1>4. n - j \in Nat /\ n - (n - j) = j
  OBVIOUS
<1>5. D[n - (n - j)] = Zero
  BY <1>3, <1>4 DEF J
<1> QED
  BY <1>4, <1>5

(* What one byte takes the difference to. *)
LEMMA DriftOne ==
  ASSUME NEW n \in Nat, NEW D, NEW E, Drift(n, D, E), NEW j \in 1 .. n
  PROVE  /\ D[j - 1] = Zero => D[j] = Eight(E[j])
         /\ E[j] = Zero => D[j] = Eight(D[j - 1])
         /\ D[j] = Zero => D[j - 1] = E[j]
<1>1. PICK l \in 0 .. n : l = j - 1
  OBVIOUS
<1>2. /\ D[j] = Eight(Xor(D[l], E[j])) /\ D[l] \in Register /\ E[j] \in Register
  BY <1>1 DEF Drift
<1>3. D[l] = Zero => D[j] = Eight(E[j])
  BY <1>2, XorZero
<1>4. E[j] = Zero => D[j] = Eight(D[l])
  <2>1. Xor(D[l], Zero) = D[l]
    <3>1. Xor(D[l], Zero) \in Register
      BY <1>2, ZeroRegister, XorAt
    <3>2. \A i \in 0 .. 15 : D[l][i] \in {0, 1} /\ Zero[i] = 0
      BY <1>2 DEF Register, Zero
    <3>3. \A i \in 0 .. 15 : Xor(D[l], Zero)[i] = D[l][i]
      BY <1>2, <3>2, ZeroRegister, XorAt
    <3> QED
      BY <1>2, <3>1, <3>3, SameRegister
  <2> QED
    BY <1>2, <2>1
<1>5. D[j] = Zero => D[l] = E[j]
  <2> SUFFICES ASSUME D[j] = Zero PROVE D[l] = E[j]
    OBVIOUS
  <2>1. Xor(D[l], E[j]) \in Register
    BY <1>2, XorAt
  <2>2. Xor(D[l], E[j]) = Zero
    BY <1>2, <2>1, ZeroRegister, EightIs
  <2> QED
    BY <1>2, <2>2, XorCancels
<1> QED
  BY <1>1, <1>3, <1>4, <1>5

(* No differences but in bytes j and m. *)
Only(E, n, j, m) == \A k \in 1 .. n : k # j /\ k # m => E[k] = Zero

(* Differences in two bytes next to each other do not cancel out. *)
LEMMA DriftNear ==
  ASSUME NEW n \in Nat, NEW D, NEW E, Drift(n, D, E),
         NEW j \in 1 .. n, NEW m \in 1 .. n, m = j + 1, Only(E, n, j, m)
  PROVE  E[j] = Zero /\ E[m] = Zero
<1>1. PICK l \in 0 .. n : l = j - 1
  OBVIOUS
<1>2. m - 1 = j
  OBVIOUS
<1>3. D[l] = Zero
  <2>1. \A k \in 1 .. l : E[k] = Zero
    BY <1>1 DEF Only
  <2> QED
    BY <2>1, DriftBefore
<1>4. D[m] = Zero
  <2>1. \A k \in m + 1 .. n : E[k] = Zero
    BY DEF Only
  <2>2. m \in 0 .. n
    OBVIOUS
  <2> QED
    BY <2>1, <2>2, DriftAfter
<1>5. D[j] = Eight(E[j])
  BY <1>1, <1>3, DriftOne
<1>6. D[j] = E[m]
  BY <1>2, <1>4, DriftOne
<1>7. E[j] \in Register /\ Empty(E[j], 8, 0) /\ Empty(E[m], 8, 0)
  BY DEF Drift
<1>8. E[j] = Zero
  <2>1. Empty(Eight(E[j]), 8, 0)
    BY <1>5, <1>6, <1>7
  <2> QED
    BY <1>7, <2>1, EightEmpty
<1> QED
  BY <1>2, <1>5, <1>6, <1>8, EightIs

(* Differences in two bytes further apart. *)
LEMMA DriftFar ==
  ASSUME NEW n \in Nat, NEW D, NEW E, Drift(n, D, E), NEW j \in 1 .. n, NEW m \in 1 .. n,
         m = j + 2 \/ m = j + 3, Only(E, n, j, m)
  PROVE  E[m] = Eight(Eight(E[j])) \/ E[m] = Eight(Eight(Eight(E[j])))
<1>1. PICK l \in 0 .. n : l = j - 1
  OBVIOUS
<1>2. D[l] = Zero
  <2>1. \A k \in 1 .. l : E[k] = Zero
    BY <1>1 DEF Only
  <2> QED
    BY <2>1, DriftBefore
<1>3. D[m] = Zero
  <2>1. \A k \in m + 1 .. n : E[k] = Zero
    BY DEF Only
  <2>2. m \in 0 .. n
    OBVIOUS
  <2> QED
    BY <2>1, <2>2, DriftAfter
<1>4. D[j] = Eight(E[j])
  BY <1>1, <1>2, DriftOne
<1>5. PICK x \in 1 .. n : x = j + 1 /\ x - 1 = j
  <2>1. j + 1 \in 1 .. n /\ (j + 1) - 1 = j
    OBVIOUS
  <2> QED
    BY <2>1
<1>6. D[x] = Eight(Eight(E[j]))
  <2>1. E[x] = Zero
    BY <1>5 DEF Only
  <2> QED
    BY <1>4, <1>5, <2>1, DriftOne
<1>7. D[m - 1] = E[m]
  BY <1>3, DriftOne
<1>8. CASE m = j + 2
  <2>1. m - 1 = x
    BY <1>5, <1>8
  <2> QED
    BY <1>6, <1>7, <2>1
<1>9. CASE m = j + 3
  <2>1. PICK y \in 1 .. n : y = j + 2 /\ y - 1 = x /\ m - 1 = y
    <3>1. j + 2 \in 1 .. n /\ (j + 2) - 1 = x /\ m - 1 = j + 2
      BY <1>5, <1>9
    <3> QED
      BY <3>1
  <2>2. E[y] = Zero
    BY <1>9, <2>1 DEF Only
  <2>3. D[y] = Eight(D[x])
    BY <2>1, <2>2, DriftOne
  <2> QED
    BY <1>6, <1>7, <2>1, <2>3
<1> QED
  BY <1>8, <1>9

-----------------------------------------------------------------------------
(* One bit at the top of the register and where it goes: the powers of x    *)
(* from the 8th on, modulo the polynomial, as the places that hold a 1.    *)
Vec(S) == [i \in 0 .. 15 |-> IF i \in S THEN 1 ELSE 0]

Follows(S, T) ==
  /\ 0 \in T <=> 15 \in S
  /\ \A i \in 1 .. 15 : i \in T <=> IF 15 \in S /\ i \in {5, 12} THEN i - 1 \notin S ELSE i - 1 \in S

LEMMA VecAt == \A S : Vec(S) \in Register /\ \A i \in 0 .. 15 : Vec(S)[i] = 1 <=> i \in S
<1> SUFFICES ASSUME NEW S
             PROVE  Vec(S) \in Register /\ \A i \in 0 .. 15 : Vec(S)[i] = 1 <=> i \in S
  OBVIOUS
<1>1. \A i \in 0 .. 15 : (IF i \in S THEN 1 ELSE 0) \in {0, 1}
  OBVIOUS
<1>2. Vec(S) \in Register
  BY <1>1 DEF Vec, Register
<1>3. \A i \in 0 .. 15 : Vec(S)[i] = IF i \in S THEN 1 ELSE 0
  BY DEF Vec
<1> QED
  BY <1>2, <1>3

LEMMA VecShift ==
  ASSUME NEW S, NEW T, Follows(S, T)
  PROVE  Shift(Vec(S)) = Vec(T)
<1>1. PICK a, b : a = Vec(S) /\ b = Vec(T)
  OBVIOUS
<1>2. a \in Register /\ \A i \in 0 .. 15 : a[i] = 1 <=> i \in S
  BY <1>1, VecAt
<1>3. b \in Register /\ \A i \in 0 .. 15 : b[i] = 1 <=> i \in T
  BY <1>1, VecAt
<1>4. \A i \in 0 .. 15 : a[i] \in {0, 1} /\ b[i] \in {0, 1}
  BY <1>2, <1>3 DEF Register
<1>5. Shift(a) \in Register /\ Shift(a)[0] = a[15]
  BY <1>2, ShiftAt
<1>6. ASSUME NEW i \in 0 .. 15 PROVE Shift(a)[i] = b[i]
  <2>1. CASE i = 0
    BY <1>2, <1>3, <1>4, <1>5, <2>1 DEF Follows
  <2>2. CASE i # 0
    <3>1. PICK k \in 0 .. 15 : k = i - 1
      BY <2>2
    <3>2. i \in 1 .. 15
      BY <2>2
    <3>3. Shift(a)[i] = IF i \in {5, 12} /\ a[15] = 1 THEN IF a[k] = 1 THEN 0 ELSE 1 ELSE a[k]
      BY <1>2, <3>1, <3>2, ShiftAt
    <3>4. i \in T <=> IF 15 \in S /\ i \in {5, 12} THEN k \notin S ELSE k \in S
      BY <3>1, <3>2 DEF Follows
    <3> QED
      BY <1>2, <1>3, <1>4, <3>3, <3>4
  <2> QED
    BY <2>1, <2>2
<1>7. Shift(a) = b
  BY <1>3, <1>5, <1>6, SameRegister
<1> QED
  BY <1>1, <1>7

Powers ==
  <<{8}, {9}, {10}, {11},
    {12}, {13}, {14}, {15},
    {0, 5, 12}, {1, 6, 13}, {2, 7, 14}, {3, 8, 15},
    {0, 4, 5, 9, 12}, {1, 5, 6, 10, 13}, {2, 6, 7, 11, 14}, {3, 7, 8, 12, 15},
    {0, 4, 5, 8, 9, 12, 13}, {1, 5, 6, 9, 10, 13, 14}, {2, 6, 7, 10, 11, 14, 15}, {0, 3, 5, 7, 8, 11, 15},
    {0, 1, 4, 5, 6, 8, 9}, {1, 2, 5, 6, 7, 9, 10}, {2, 3, 6, 7, 8, 10, 11}, {3, 4, 7, 8, 9, 11, 12},
    {4, 5, 8, 9, 10, 12, 13}, {5, 6, 9, 10, 11, 13, 14}, {6, 7, 10, 11, 12, 14, 15}, {0, 5, 7, 8, 11, 13, 15},
    {0, 1, 5, 6, 8, 9, 14}, {1, 2, 6, 7, 9, 10, 15}, {0, 2, 3, 5, 7, 8, 10, 11, 12}, {1, 3, 4, 6, 8, 9, 11, 12, 13}>>

LEMMA PowerSteps == \A k \in 1 .. 31 : Shift(Vec(Powers[k])) = Vec(Powers[k + 1])
<1>1. Follows(Powers[1], Powers[2])
  <2>1. Powers[1] = {8} /\ Powers[2] = {9}
    BY DEF Powers
  <2> QED
    BY <2>1 DEF Follows
<1>2. Follows(Powers[2], Powers[3])
  <2>1. Powers[2] = {9} /\ Powers[3] = {10}
    BY DEF Powers
  <2> QED
    BY <2>1 DEF Follows
<1>3. Follows(Powers[3], Powers[4])
  <2>1. Powers[3] = {10} /\ Powers[4] = {11}
    BY DEF Powers
  <2> QED
    BY <2>1 DEF Follows
<1>4. Follows(Powers[4], Powers[5])
  <2>1. Powers[4] = {11} /\ Powers[5] = {12}
    BY DEF Powers
  <2> QED
    BY <2>1 DEF Follows
<1>5. Follows(Powers[5], Powers[6])
  <2>1. Powers[5] = {12} /\ Powers[6] = {13}
    BY DEF Powers
  <2> QED
    BY <2>1 DEF Follows
<1>6. Follows(Powers[6], Powers[7])
  <2>1. Powers[6] = {13} /\ Powers[7] = {14}
    BY DEF Powers
  <2> QED
    BY <2>1 DEF Follows
<1>7. Follows(Powers[7], Powers[8])
  <2>1. Powers[7] = {14} /\ Powers[8] = {15}
    BY DEF Powers
  <2> QED
    BY <2>1 DEF Follows
<1>8. Follows(Powers[8], Powers[9])
  <2>1. Powers[8] = {15} /\ Powers[9] = {0, 5, 12}
    BY DEF Powers
  <2> QED
    BY <2>1 DEF Follows
<1>9. Follows(Powers[9], Powers[10])
  <2>1. Powers[9] = {0, 5, 12} /\ Powers[10] = {1, 6, 13}
    BY DEF Powers
  <2> QED
    BY <2>1 DEF Follows
<1>10. Follows(Powers[10], Powers[11])
  <2>1. Powers[10] = {1, 6, 13} /\ Powers[11] = {2, 7, 14}
    BY DEF Powers
  <2> QED
    BY <2>1 DEF Follows
<1>11. Follows(Powers[11], Powers[12])
  <2>1. Powers[11] = {2, 7, 14} /\ Powers[12] = {3, 8, 15}
    BY DEF Powers
  <2> QED
    BY <2>1 DEF Follows
<1>12. Follows(Powers[12], Powers[13])
  <2>1. Powers[12] = {3, 8, 15} /\ Powers[13] = {0, 4, 5, 9, 12}
    BY DEF Powers
  <2> QED
    BY <2>1 DEF Follows
<1>13. Follows(Powers[13], Powers[14])
  <2>1. Powers[13] = {0, 4, 5, 9, 12} /\ Powers[14] = {1, 5, 6, 10, 13}
    BY DEF Powers
  <2> QED
    BY <2>1 DEF Follows
<1>14. Follows(Powers[14], Powers[15])
  <2>1. Powers[14] = {1, 5, 6, 10, 13} /\ Powers[15] = {2, 6, 7, 11, 14}
    BY DEF Powers
  <2> QED
    BY <2>1 DEF Follows
<1>15. Follows(Powers[15], Powers[16])
  <2>1. Powers[15] = {2, 6, 7, 11, 14} /\ Powers[16] = {3, 7, 8, 12, 15}
    BY DEF Powers
  <2> QED
    BY <2>1 DEF Follows
<1>16. Follows(Powers[16], Powers[17])
  <2>1. Powers[16] = {3, 7, 8, 12, 15} /\ Powers[17] = {0, 4, 5, 8, 9, 12, 13}
    BY DEF Powers
  <2> QED
    BY <2>1 DEF Follows
<1>17. Follows(Powers[17], Powers[18])
  <2>1. Powers[17] = {0, 4, 5, 8, 9, 12, 13} /\ Powers[18] = {1, 5, 6, 9, 10, 13, 14}
    BY DEF Powers
  <2> QED
    BY <2>1 DEF Follows
<1>18. Follows(Powers[18], Powers[19])
  <2>1. Powers[18] = {1, 5, 6, 9, 10, 13, 14} /\ Powers[19] = {2, 6, 7, 10, 11, 14, 15}
    BY DEF Powers
  <2> QED
    BY <2>1 DEF Follows
<1>19. Follows(Powers[19], Powers[20])
  <2>1. Powers[19] = {2, 6, 7, 10, 11, 14, 15} /\ Powers[20] = {0, 3, 5, 7, 8, 11, 15}
    BY DEF Powers
  <2> QED
    BY <2>1 DEF Follows
<1>20. Follows(Powers[20], Powers[21])
  <2>1. Powers[20] = {0, 3, 5, 7, 8, 11, 15} /\ Powers[21] = {0, 1, 4, 5, 6, 8, 9}
    BY DEF Powers
  <2> QED
    BY <2>1 DEF Follows
<1>21. Follows(Powers[21], Powers[22])
  <2>1. Powers[21] = {0, 1, 4, 5, 6, 8, 9} /\ Powers[22] = {1, 2, 5, 6, 7, 9, 10}
    BY DEF Powers
  <2> QED
    BY <2>1 DEF Follows
<1>22. Follows(Powers[22], Powers[23])
  <2>1. Powers[22] = {1, 2, 5, 6, 7, 9, 10} /\ Powers[23] = {2, 3, 6, 7, 8, 10, 11}
    BY DEF Powers
  <2> QED
    BY <2>1 DEF Follows
<1>23. Follows(Powers[23], Powers[24])
  <2>1. Powers[23] = {2, 3, 6, 7, 8, 10, 11} /\ Powers[24] = {3, 4, 7, 8, 9, 11, 12}
    BY DEF Powers
  <2> QED
    BY <2>1 DEF Follows
<1>24. Follows(Powers[24], Powers[25])
  <2>1. Powers[24] = {3, 4, 7, 8, 9, 11, 12} /\ Powers[25] = {4, 5, 8, 9, 10, 12, 13}
    BY DEF Powers
  <2> QED
    BY <2>1 DEF Follows
<1>25. Follows(Powers[25], Powers[26])
  <2>1. Powers[25] = {4, 5, 8, 9, 10, 12, 13} /\ Powers[26] = {5, 6, 9, 10, 11, 13, 14}
    BY DEF Powers
  <2> QED
    BY <2>1 DEF Follows
<1>26. Follows(Powers[26], Powers[27])
  <2>1. Powers[26] = {5, 6, 9, 10, 11, 13, 14} /\ Powers[27] = {6, 7, 10, 11, 12, 14, 15}
    BY DEF Powers
  <2> QED
    BY <2>1 DEF Follows
<1>27. Follows(Powers[27], Powers[28])
  <2>1. Powers[27] = {6, 7, 10, 11, 12, 14, 15} /\ Powers[28] = {0, 5, 7, 8, 11, 13, 15}
    BY DEF Powers
  <2> QED
    BY <2>1 DEF Follows
<1>28. Follows(Powers[28], Powers[29])
  <2>1. Powers[28] = {0, 5, 7, 8, 11, 13, 15} /\ Powers[29] = {0, 1, 5, 6, 8, 9, 14}
    BY DEF Powers
  <2> QED
    BY <2>1 DEF Follows
<1>29. Follows(Powers[29], Powers[30])
  <2>1. Powers[29] = {0, 1, 5, 6, 8, 9, 14} /\ Powers[30] = {1, 2, 6, 7, 9, 10, 15}
    BY DEF Powers
  <2> QED
    BY <2>1 DEF Follows
<1>30. Follows(Powers[30], Powers[31])
  <2>1. Powers[30] = {1, 2, 6, 7, 9, 10, 15} /\ Powers[31] = {0, 2, 3, 5, 7, 8, 10, 11, 12}
    BY DEF Powers
  <2> QED
    BY <2>1 DEF Follows
<1>31. Follows(Powers[31], Powers[32])
  <2>1. Powers[31] = {0, 2, 3, 5, 7, 8, 10, 11, 12} /\ Powers[32] = {1, 3, 4, 6, 8, 9, 11, 12, 13}
    BY DEF Powers
  <2> QED
    BY <2>1 DEF Follows
<1>32. \A k \in 1 .. 31 : Follows(Powers[k], Powers[k + 1])
  BY <1>1, <1>2, <1>3, <1>4, <1>5, <1>6, <1>7, <1>8, <1>9, <1>10, <1>11, <1>12, <1>13, <1>14, <1>15, <1>16, <1>17, <1>18, <1>19, <1>20, <1>21, <1>22, <1>23, <1>24, <1>25, <1>26, <1>27, <1>28, <1>29, <1>30, <1>31
<1> QED
  BY <1>32, VecShift

LEMMA PowersLow == \A k \in 17 .. 32 : \E i \in 0 .. 7 : i \in Powers[k]
<1>17. 0 \in Powers[17]
  BY DEF Powers
<1>18. 1 \in Powers[18]
  BY DEF Powers
<1>19. 2 \in Powers[19]
  BY DEF Powers
<1>20. 0 \in Powers[20]
  BY DEF Powers
<1>21. 0 \in Powers[21]
  BY DEF Powers
<1>22. 1 \in Powers[22]
  BY DEF Powers
<1>23. 2 \in Powers[23]
  BY DEF Powers
<1>24. 3 \in Powers[24]
  BY DEF Powers
<1>25. 4 \in Powers[25]
  BY DEF Powers
<1>26. 5 \in Powers[26]
  BY DEF Powers
<1>27. 6 \in Powers[27]
  BY DEF Powers
<1>28. 0 \in Powers[28]
  BY DEF Powers
<1>29. 0 \in Powers[29]
  BY DEF Powers
<1>30. 1 \in Powers[30]
  BY DEF Powers
<1>31. 0 \in Powers[31]
  BY DEF Powers
<1>32. 1 \in Powers[32]
  BY DEF Powers
<1> QED
  BY <1>17, <1>18, <1>19, <1>20, <1>21, <1>22, <1>23, <1>24, <1>25, <1>26, <1>27, <1>28, <1>29, <1>30, <1>31, <1>32

(* A byte later: eight powers further. *)
LEMMA PowerEight ==
  ASSUME NEW k \in 1 .. 24
  PROVE  Eight(Vec(Powers[k])) = Vec(Powers[k + 8])
<1>1. PICK v : v = [n \in 1 .. 32 |-> Vec(Powers[n])]
  OBVIOUS
<1>2. \A n \in 1 .. 31 : Shift(v[n]) = v[n + 1]
  BY <1>1, PowerSteps
<1>3. \A n \in 1 .. 30 : Twice(v[n]) = v[n + 2]
  <2>1. ASSUME NEW n \in 1 .. 30 PROVE Twice(v[n]) = v[n + 2]
    <3>1. n \in 1 .. 31 /\ n + 1 \in 1 .. 31 /\ (n + 1) + 1 = n + 2
      OBVIOUS
    <3>2. Shift(v[n]) = v[n + 1] /\ Shift(v[n + 1]) = v[n + 2]
      BY <1>2, <3>1
    <3> QED
      BY <3>2 DEF Twice
  <2> QED
    BY <2>1
<1>4. \A n \in 1 .. 28 : Four(v[n]) = v[n + 4]
  <2>1. ASSUME NEW n \in 1 .. 28 PROVE Four(v[n]) = v[n + 4]
    <3>1. n \in 1 .. 30 /\ n + 2 \in 1 .. 30 /\ (n + 2) + 2 = n + 4
      OBVIOUS
    <3>2. Twice(v[n]) = v[n + 2] /\ Twice(v[n + 2]) = v[n + 4]
      BY <1>3, <3>1
    <3> QED
      BY <3>2 DEF Four
  <2> QED
    BY <2>1
<1>5. Eight(v[k]) = v[k + 8]
  <2>1. k \in 1 .. 28 /\ k + 4 \in 1 .. 28 /\ (k + 4) + 4 = k + 8
    OBVIOUS
  <2>2. Four(v[k]) = v[k + 4] /\ Four(v[k + 4]) = v[k + 8]
    BY <1>4, <2>1
  <2> QED
    BY <2>2 DEF Eight
<1> QED
  BY <1>1, <1>5

(* One bit of a byte is not made up for by a byte two or three further on. *)
LEMMA PowerFar ==
  ASSUME NEW p \in 0 .. 7
  PROVE  /\ ~ Empty(Eight(Eight(Vec({8 + p}))), 8, 0)
         /\ ~ Empty(Eight(Eight(Eight(Vec({8 + p})))), 8, 0)
<1>1. Powers[p + 1] = {8 + p}
  BY DEF Powers
<1>2. PICK k \in 1 .. 8 : k = p + 1
  OBVIOUS
<1>3. Eight(Vec({8 + p})) = Vec(Powers[k + 8])
  BY <1>1, <1>2, PowerEight
<1>4. k + 8 \in 1 .. 24 /\ (k + 8) + 8 = k + 16 /\ k + 16 \in 1 .. 24 /\ (k + 16) + 8 = k + 24
  OBVIOUS
<1>5. Eight(Eight(Vec({8 + p}))) = Vec(Powers[k + 16])
  BY <1>3, <1>4, PowerEight
<1>6. Eight(Eight(Eight(Vec({8 + p})))) = Vec(Powers[k + 24])
  BY <1>4, <1>5, PowerEight
<1>7. ASSUME NEW n \in 17 .. 32 PROVE ~ Empty(Vec(Powers[n]), 8, 0)
  <2>1. PICK i \in 0 .. 7 : i \in Powers[n]
    BY PowersLow
  <2>2. Vec(Powers[n])[i] = 1
    BY <2>1, VecAt
  <2> QED
    BY <2>2 DEF Empty
<1>8. k + 16 \in 17 .. 32 /\ k + 24 \in 17 .. 32
  OBVIOUS
<1> QED
  BY <1>5, <1>6, <1>7, <1>8

-----------------------------------------------------------------------------
(* Errors of the line. *)
Toggle(b, n) == IF Bit(b, n) THEN b - 2 ^ n ELSE b + 2 ^ n

LEMMA Toggled ==
  ASSUME NEW b \in 0 .. 255, NEW n \in 0 .. 7
  PROVE  /\ Toggle(b, n) \in 0 .. 255
         /\ \A m \in 0 .. 7 : Bit(Toggle(b, n), m) <=> IF m = n THEN ~ Bit(b, m) ELSE Bit(b, m)
<1>0. PICK t : t = Toggle(b, n)
  OBVIOUS
<1>1. PICK f : f = [m \in 0 .. 7 |-> IF Bit(b, m) THEN 1 ELSE 0]
  OBVIOUS
<1>2. \A m \in 0 .. 7 : f[m] \in {0, 1} /\ (f[m] = 1 <=> Bit(b, m))
  BY <1>1
<1>3. b = Word(f)
  BY <1>1, ByteWord
<1>4. PICK g : g = [m \in 0 .. 7 |-> IF m = n THEN 1 - f[m] ELSE f[m]]
  OBVIOUS
<1>5. \A m \in 0 .. 7 : g[m] = IF m = n THEN 1 - f[m] ELSE f[m]
  BY <1>4
<1>6. \A m \in 0 .. 7 : g[m] \in {0, 1}
  BY <1>2, <1>5
<1>7. /\ 2 ^ 0 = 1 /\ 2 ^ 1 = 2 /\ 2 ^ 2 = 4 /\ 2 ^ 3 = 8
      /\ 2 ^ 4 = 16 /\ 2 ^ 5 = 32 /\ 2 ^ 6 = 64 /\ 2 ^ 7 = 128
  OBVIOUS
<1>8. PICK p : p = 2 ^ n
  OBVIOUS
<1>9. t = IF f[n] = 1 THEN b - p ELSE b + p
  BY <1>0, <1>2, <1>8 DEF Toggle
<1>10. PICK b0, b1, b2, b3, b4, b5, b6, b7 \in {0, 1} :
        /\ f[0] = b0 /\ f[1] = b1 /\ f[2] = b2 /\ f[3] = b3
        /\ f[4] = b4 /\ f[5] = b5 /\ f[6] = b6 /\ f[7] = b7
  BY <1>2
<1>11. b = b0 + 2 * b1 + 4 * b2 + 8 * b3 + 16 * b4 + 32 * b5 + 64 * b6 + 128 * b7
  BY <1>3, <1>10 DEF Word
<1>12. ASSUME n = 0 PROVE t = Word(g)
  <2>1. g[0] = 1 - b0 /\ g[1] = b1 /\ g[2] = b2 /\ g[3] = b3 /\ g[4] = b4 /\ g[5] = b5 /\ g[6] = b6 /\ g[7] = b7
    BY <1>5, <1>10, <1>12
  <2>2. p = 1
    BY <1>7, <1>8, <1>12, Zenon
  <2>3. t = IF b0 = 1 THEN b - 1 ELSE b + 1
    BY <1>9, <1>10, <1>12, <2>2
  <2> QED
    BY <1>11, <2>1, <2>3 DEF Word
<1>13. ASSUME n = 1 PROVE t = Word(g)
  <2>1. g[0] = b0 /\ g[1] = 1 - b1 /\ g[2] = b2 /\ g[3] = b3 /\ g[4] = b4 /\ g[5] = b5 /\ g[6] = b6 /\ g[7] = b7
    BY <1>5, <1>10, <1>13
  <2>2. p = 2
    BY <1>7, <1>8, <1>13, Zenon
  <2>3. t = IF b1 = 1 THEN b - 2 ELSE b + 2
    BY <1>9, <1>10, <1>13, <2>2
  <2> QED
    BY <1>11, <2>1, <2>3 DEF Word
<1>14. ASSUME n = 2 PROVE t = Word(g)
  <2>1. g[0] = b0 /\ g[1] = b1 /\ g[2] = 1 - b2 /\ g[3] = b3 /\ g[4] = b4 /\ g[5] = b5 /\ g[6] = b6 /\ g[7] = b7
    BY <1>5, <1>10, <1>14
  <2>2. p = 4
    BY <1>7, <1>8, <1>14, Zenon
  <2>3. t = IF b2 = 1 THEN b - 4 ELSE b + 4
    BY <1>9, <1>10, <1>14, <2>2
  <2> QED
    BY <1>11, <2>1, <2>3 DEF Word
<1>15. ASSUME n = 3 PROVE t = Word(g)
  <2>1. g[0] = b0 /\ g[1] = b1 /\ g[2] = b2 /\ g[3] = 1 - b3 /\ g[4] = b4 /\ g[5] = b5 /\ g[6] = b6 /\ g[7] = b7
    BY <1>5, <1>10, <1>15
  <2>2. p = 8
    BY <1>7, <1>8, <1>15, Zenon
  <2>3. t = IF b3 = 1 THEN b - 8 ELSE b + 8
    BY <1>9, <1>10, <1>15, <2>2
  <2> QED
    BY <1>11, <2>1, <2>3 DEF Word
<1>16. ASSUME n = 4 PROVE t = Word(g)
  <2>1. g[0] = b0 /\ g[1] = b1 /\ g[2] = b2 /\ g[3] = b3 /\ g[4] = 1 - b4 /\ g[5] = b5 /\ g[6] = b6 /\ g[7] = b7
    BY <1>5, <1>10, <1>16
  <2>2. p = 16
    BY <1>7, <1>8, <1>16, Zenon
  <2>3. t = IF b4 = 1 THEN b - 16 ELSE b + 16
    BY <1>9, <1>10, <1>16, <2>2
  <2> QED
    BY <1>11, <2>1, <2>3 DEF Word
<1>17. ASSUME n = 5 PROVE t = Word(g)
  <2>1. g[0] = b0 /\ g[1] = b1 /\ g[2] = b2 /\ g[3] = b3 /\ g[4] = b4 /\ g[5] = 1 - b5 /\ g[6] = b6 /\ g[7] = b7
    BY <1>5, <1>10, <1>17
  <2>2. p = 32
    BY <1>7, <1>8, <1>17, Zenon
  <2>3. t = IF b5 = 1 THEN b - 32 ELSE b + 32
    BY <1>9, <1>10, <1>17, <2>2
  <2> QED
    BY <1>11, <2>1, <2>3 DEF Word
<1>18. ASSUME n = 6 PROVE t = Word(g)
  <2>1. g[0] = b0 /\ g[1] = b1 /\ g[2] = b2 /\ g[3] = b3 /\ g[4] = b4 /\ g[5] = b5 /\ g[6] = 1 - b6 /\ g[7] = b7
    BY <1>5, <1>10, <1>18
  <2>2. p = 64
    BY <1>7, <1>8, <1>18, Zenon
  <2>3. t = IF b6 = 1 THEN b - 64 ELSE b + 64
    BY <1>9, <1>10, <1>18, <2>2
  <2> QED
    BY <1>11, <2>1, <2>3 DEF Word
<1>19. ASSUME n = 7 PROVE t = Word(g)
  <2>1. g[0] = b0 /\ g[1] = b1 /\ g[2] = b2 /\ g[3] = b3 /\ g[4] = b4 /\ g[5] = b5 /\ g[6] = b6 /\ g[7] = 1 - b7
    BY <1>5, <1>10, <1>19
  <2>2. p = 128
    BY <1>7, <1>8, <1>19, Zenon
  <2>3. t = IF b7 = 1 THEN b - 128 ELSE b + 128
    BY <1>9, <1>10, <1>19, <2>2
  <2> QED
    BY <1>11, <2>1, <2>3 DEF Word
<1>20. t = Word(g)
  <2>1. n \in {0, 1, 2, 3, 4, 5, 6, 7}
    OBVIOUS
  <2> QED
    BY <1>12, <1>13, <1>14, <1>15, <1>16, <1>17, <1>18, <1>19, <2>1
<1>21. t \in 0 .. 255 /\ \A m \in 0 .. 7 : Bit(t, m) <=> g[m] = 1
  BY <1>6, <1>20, WordBits
<1>22. ASSUME NEW m \in 0 .. 7 PROVE Bit(t, m) <=> IF m = n THEN ~ Bit(b, m) ELSE Bit(b, m)
  <2>1. f[m] \in {0, 1} /\ (f[m] = 1 <=> Bit(b, m)) /\ (g[m] = IF m = n THEN 1 - f[m] ELSE f[m])
    BY <1>2, <1>5
  <2>2. Bit(t, m) <=> g[m] = 1
    BY <1>21
  <2> QED
    BY <2>1, <2>2
<1> QED
  BY <1>0, <1>21, <1>22

FlipStep(q, b, n) ==
  IF 8 * (q.k - 1) + n \in q.bits THEN IF Bit(b, n) THEN b - 2 ^ n ELSE b + 2 ^ n ELSE b

Flipper == INSTANCE FoldProofs WITH Op <- FlipStep

FlipByte(base, k, bits) ==
  FoldLeft(LAMBDA b, n : IF 8 * (k - 1) + n \in bits
                         THEN IF Bit(b, n) THEN b - 2 ^ n ELSE b + 2 ^ n ELSE b,
           base, <<0, 1, 2, 3, 4, 5, 6, 7>>)

LEMMA FlipFold ==
  ASSUME NEW base, NEW k, NEW bits
  PROVE  FlipByte(base, k, bits)
           = Flipper!Fold([k |-> k, bits |-> bits], base, <<0, 1, 2, 3, 4, 5, 6, 7>>)
  BY SMT DEF FlipByte, FlipStep, Flipper!Fold, FoldLeft, MapThenFoldSet, Max,
         Flipper!MapThenFoldSet, Flipper!Most

LEMMA FlipByteIs ==
  ASSUME NEW base \in 0 .. 255, NEW k \in Int, NEW bits
  PROVE  /\ FlipByte(base, k, bits) \in 0 .. 255
         /\ \A m \in 0 .. 7 : (Bit(FlipByte(base, k, bits), m) <=> Bit(base, m))
                               <=> 8 * (k - 1) + m \notin bits
<1>1. PICK seq : seq = <<0, 1, 2, 3, 4, 5, 6, 7>>
  OBVIOUS
<1>n. PICK n \in Nat : n = 8
  OBVIOUS
<1>2. DOMAIN seq = 1 .. n
  BY <1>1, <1>n
<1>q. PICK q : q = [k |-> k, bits |-> bits]
  OBVIOUS
<1>3. PICK st : Flipper!Passes(q, base, seq, n, st) /\ Flipper!Fold(q, base, seq) = st[n]
  BY <1>2, Flipper!FoldStates
<1>4. FlipByte(base, k, bits) = st[8]
  BY <1>1, <1>n, <1>q, <1>3, FlipFold
<1>5. st[0] = base /\ \A i \in 1 .. 8 : st[i] = FlipStep(q, st[i - 1], seq[i])
  BY <1>3, <1>n DEF Flipper!Passes
<1>6. \A x, y : FlipStep(q, x, y) = IF 8 * (k - 1) + y \in bits
                                   THEN IF Bit(x, y) THEN x - 2 ^ y ELSE x + 2 ^ y ELSE x
  BY <1>q DEF FlipStep
<1> DEFINE Ok(i) == /\ st[i] \in 0 .. 255
                    /\ \A m \in 0 .. 7 : Bit(st[i], m) <=> IF m < i /\ 8 * (k - 1) + m \in bits
                                                            THEN ~ Bit(base, m) ELSE Bit(base, m)
           J == {i \in Nat : i <= 8 => Ok(i)}
<1>7. 0 \in J
  BY <1>5
<1>8. ASSUME NEW i \in Nat, i \in J PROVE i + 1 \in J
  <2>1. CASE i + 1 <= 8
    <3>1. i \in 0 .. 7 /\ i + 1 \in 1 .. 8 /\ (i + 1) - 1 = i
      BY <2>1
    <3>2. seq[i + 1] = i
      BY <1>1, <3>1
    <3>3. st[i + 1] = FlipStep(q, st[i], i)
      BY <1>5, <3>1, <3>2
    <3>4. Ok(i)
      BY <1>8, <3>1
    <3>5. PICK x, y : x = st[i] /\ y = st[i + 1]
      OBVIOUS
    <3>6. y = IF 8 * (k - 1) + i \in bits THEN IF Bit(x, i) THEN x - 2 ^ i ELSE x + 2 ^ i ELSE x
      BY <1>6, <3>3, <3>5
    <3>7. x \in 0 .. 255
      BY <3>4, <3>5
    <3>8. y \in 0 .. 255 /\ \A m \in 0 .. 7 : Bit(y, m) <=> IF m = i /\ 8 * (k - 1) + m \in bits
                                                          THEN ~ Bit(x, m) ELSE Bit(x, m)
      <4>1. CASE 8 * (k - 1) + i \in bits
        <5>1. y = Toggle(x, i)
          BY <3>6, <4>1 DEF Toggle
        <5>2. /\ y \in 0 .. 255
              /\ \A m \in 0 .. 7 : Bit(y, m) <=> IF m = i THEN ~ Bit(x, m) ELSE Bit(x, m)
          BY <3>1, <3>7, <5>1, Toggled
        <5> QED
          BY <4>1, <5>2
      <4>2. CASE 8 * (k - 1) + i \notin bits
        BY <3>6, <3>7, <4>2
      <4> QED
        BY <4>1, <4>2
    <3>9. ASSUME NEW m \in 0 .. 7
          PROVE  Bit(y, m) <=> IF m < i + 1 /\ 8 * (k - 1) + m \in bits
                               THEN ~ Bit(base, m) ELSE Bit(base, m)
      <4>1. Bit(x, m) <=> IF m < i /\ 8 * (k - 1) + m \in bits THEN ~ Bit(base, m) ELSE Bit(base, m)
        BY <3>4, <3>5
      <4>2. m < i + 1 <=> m < i \/ m = i
        BY <3>1
      <4>3. ~ (m < i /\ m = i)
        BY <3>1
      <4> QED
        BY <3>8, <4>1, <4>2, <4>3
    <3>10. Ok(i + 1)
      BY <3>5, <3>8, <3>9
    <3> QED
      BY <3>10
  <2>2. CASE ~ (i + 1 <= 8)
    BY <2>2
  <2> QED
    BY <2>1, <2>2
<1> HIDE DEF J
<1>9. \A i \in Nat : i \in J
  BY <1>7, <1>8, Ends!CountUp
<1>10. Ok(8)
  BY <1>9 DEF J
<1>11. ASSUME NEW m \in 0 .. 7
       PROVE  (Bit(st[8], m) <=> Bit(base, m)) <=> 8 * (k - 1) + m \notin bits
  <2>1. m < 8
    OBVIOUS
  <2>2. Bit(st[8], m) <=> IF 8 * (k - 1) + m \in bits THEN ~ Bit(base, m) ELSE Bit(base, m)
    BY <1>10, <2>1
  <2> QED
    BY <2>2
<1> QED
  BY <1>4, <1>10, <1>11

(* b is a but for these bits. *)
Flipped(n, a, b, bits) ==
  /\ b \in [1 .. n -> 0 .. 255]
  /\ \A k \in 1 .. n : \A m \in 0 .. 7 :
       (Bit(b[k], m) <=> Bit(a[k], m)) <=> 8 * (k - 1) + m \notin bits

LEMMA FlipIs ==
  ASSUME NEW n \in Nat, NEW a \in [1 .. n -> 0 .. 255], NEW bits
  PROVE  Flipped(n, a, Flip(a, bits), bits)
<1>1. DOMAIN a = 1 .. n
  OBVIOUS
<1>2. PICK f : f = Flip(a, bits)
  OBVIOUS
<1>3. f = [k \in 1 .. n |-> FlipByte(a[k], k, bits)]
  BY <1>1, <1>2 DEF Flip, FlipByte
<1>4. \A k \in 1 .. n : a[k] \in 0 .. 255 /\ k \in Int
  OBVIOUS
<1>5. \A k \in 1 .. n : f[k] \in 0 .. 255
  BY <1>3, <1>4, FlipByteIs
<1>6. \A k \in 1 .. n : \A m \in 0 .. 7 :
        (Bit(f[k], m) <=> Bit(a[k], m)) <=> 8 * (k - 1) + m \notin bits
  BY <1>3, <1>4, FlipByteIs, ZenonT(30)
<1>7. f \in [1 .. n -> 0 .. 255]
  BY <1>3, <1>5
<1> QED
  BY <1>2, <1>6, <1>7 DEF Flipped

(* Two frames that are the same but for bytes j and l. *)
Same(a, b, n, j, l) == \A k \in 1 .. n : k # j /\ k # l => a[k] = b[k]

LEMMA ApartOnly ==
  ASSUME NEW n \in Nat, NEW a, NEW b, NEW j, NEW l, Same(a, b, n, j, l)
  PROVE  Only(Apart(a, b, n), n, j, l)
<1>1. PICK E : E = Apart(a, b, n)
  OBVIOUS
<1>2. ASSUME NEW k \in 1 .. n, k # j /\ k # l PROVE E[k] = Zero
  <2>1. E[k] = Xor(Top(a[k]), Top(b[k]))
    BY <1>1 DEF Apart
  <2>2. a[k] = b[k]
    BY <1>2 DEF Same
  <2>3. Top(a[k]) \in Register
    BY TopAt
  <2> QED
    BY <2>1, <2>2, <2>3, XorZero
<1> QED
  BY <1>1, <1>2 DEF Only

(* Two frames with their CRC right do not differ in two adjacent bytes only. *)
LEMMA NearbyBytes ==
  ASSUME NEW n \in Nat, n >= 2, NEW a \in [1 .. n -> 0 .. 255], NEW b \in [1 .. n -> 0 .. 255],
         Fits(a), Fits(b), NEW j \in 1 .. n, NEW l \in 1 .. n, l = j + 1, Same(a, b, n, j, l),
         NEW k \in 1 .. n, NEW m \in 0 .. 7
  PROVE  Bit(a[k], m) <=> Bit(b[k], m)
<1>1. PICK E : E = Apart(a, b, n)
  OBVIOUS
<1>2. PICK D : Drift(n, D, E)
  BY <1>1, Drifting
<1>3. Only(E, n, j, l)
  BY <1>1, ApartOnly
<1>4. E[j] = Zero /\ E[l] = Zero
  BY <1>2, <1>3, DriftNear
<1>5. E[k] = Zero
  BY <1>3, <1>4 DEF Only
<1>6. 8 + m \in 0 .. 15
  OBVIOUS
<1>7. E[k][8 + m] = 0
  BY <1>5, <1>6 DEF Zero
<1> QED
  BY <1>1, <1>7, ApartAt

(* Two bytes that are the same but for bit p. *)
ButFor(x, y, p) == \A m \in 0 .. 7 : m # p => (Bit(x, m) <=> Bit(y, m))

(* Nor in one bit, and bits of a byte two or three further on. *)
LEMMA FarBytes ==
  ASSUME NEW n \in Nat, n >= 2, NEW a \in [1 .. n -> 0 .. 255], NEW b \in [1 .. n -> 0 .. 255],
         Fits(a), Fits(b), NEW j \in 1 .. n, NEW l \in 1 .. n, l = j + 2 \/ l = j + 3,
         Same(a, b, n, j, l), NEW p \in 0 .. 7, ButFor(a[j], b[j], p)
  PROVE  Bit(a[j], p) <=> Bit(b[j], p)
<1> SUFFICES ASSUME ~ (Bit(a[j], p) <=> Bit(b[j], p)) PROVE FALSE
  OBVIOUS
<1>1. PICK E : E = Apart(a, b, n)
  OBVIOUS
<1>2. PICK D : Drift(n, D, E)
  BY <1>1, Drifting
<1>3. Only(E, n, j, l)
  BY <1>1, ApartOnly
<1>4. E[l] = Eight(Eight(E[j])) \/ E[l] = Eight(Eight(Eight(E[j])))
  BY <1>2, <1>3, DriftFar
<1>5. /\ E[j] \in Register /\ Empty(E[j], 8, 0) /\ Empty(E[l], 8, 0)
      /\ \A m \in 0 .. 7 : E[j][8 + m] = 0 <=> (Bit(a[j], m) <=> Bit(b[j], m))
  BY <1>1, ApartAt, ZenonT(30)
<1>6. E[j] = Vec({8 + p})
  <2>1. PICK v : v = Vec({8 + p})
    OBVIOUS
  <2>2. v \in Register /\ \A i \in 0 .. 15 : v[i] = 1 <=> i = 8 + p
    <3>1. v \in Register /\ \A i \in 0 .. 15 : v[i] = 1 <=> i \in {8 + p}
      BY <2>1, VecAt, Zenon
    <3>2. \A i : i \in {8 + p} <=> i = 8 + p
      OBVIOUS
    <3> QED
      BY <3>1, <3>2, Zenon
  <2>3. \A i \in 0 .. 15 : v[i] \in {0, 1} /\ E[j][i] \in {0, 1}
    BY <1>5, <2>2 DEF Register
  <2>4. ASSUME NEW i \in 0 .. 15 PROVE E[j][i] = v[i]
    <3>a. v[i] = 1 <=> i = 8 + p
      BY <2>2, Zenon
    <3>b. v[i] = 0 \/ v[i] = 1
      BY <2>3
    <3>1. CASE i < 8
      <4>1. E[j][i] = 0
        BY <1>5, <3>1 DEF Empty
      <4>2. i # 8 + p
        BY <3>1
      <4> QED
        BY <3>a, <3>b, <4>1, <4>2
    <3>2. CASE ~ (i < 8)
      <4>1. PICK m \in 0 .. 7 : m = i - 8 /\ 8 + m = i
        <5>1. i - 8 \in 0 .. 7 /\ 8 + (i - 8) = i
          BY <3>2
        <5> QED
          BY <5>1
      <4>2. E[j][i] = 0 <=> m # p
        BY <1>5, <4>1 DEF ButFor
      <4>3. v[i] = 1 <=> m = p
        BY <3>a, <4>1
      <4>4. v[i] \in {0, 1} /\ E[j][i] \in {0, 1}
        BY <2>3
      <4> QED
        BY <4>2, <4>3, <4>4
    <3> QED
      BY <3>1, <3>2
  <2>5. E[j] = v
    BY <1>5, <2>2, <2>4, SameRegister
  <2> QED
    BY <2>1, <2>5
<1> QED
  BY <1>4, <1>5, <1>6, PowerFar

(* A bit of a frame is a bit of one of its bytes. *)
LEMMA PlaceOfBit ==
  ASSUME NEW n \in Nat, NEW i \in 0 .. 8 * n - 1
  PROVE  \E k \in 1 .. n : \E p \in 0 .. 7 : i = 8 * (k - 1) + p
<1>1. PICK k, p : k = i \div 8 + 1 /\ p = i % 8
  OBVIOUS
<1>2. p \in 0 .. 7 /\ i = 8 * (k - 1) + p /\ k \in 1 .. n
  BY <1>1
<1> QED
  BY <1>2

(* The CRC of a frame (parser/parser.go:540) does not fit any more when     *)
(* bits within two adjacent bytes are flipped, as in any burst of up to    *)
(* nine bits, however long the frame is and wherever they are in it.       *)
THEOREM BurstSeen ==
  ASSUME NEW n \in Nat, n >= 2, NEW a \in [1 .. n -> 0 .. 255], Fits(a),
         NEW bits, NEW j \in 1 .. n, j + 1 <= n,
         bits \subseteq 8 * (j - 1) .. 8 * (j + 1) - 1, bits # {}
  PROVE  ~ Fits(Flip(a, bits))
<1> SUFFICES ASSUME Fits(Flip(a, bits)) PROVE FALSE
  OBVIOUS
<1>1. PICK b : b = Flip(a, bits)
  OBVIOUS
<1>2a. Flipped(n, a, b, bits)
  BY <1>1, FlipIs
<1>2. /\ b \in [1 .. n -> 0 .. 255]
      /\ \A k \in 1 .. n : \A m \in 0 .. 7 :
           (Bit(b[k], m) <=> Bit(a[k], m)) <=> 8 * (k - 1) + m \notin bits
  BY <1>2a DEF Flipped
<1>3. ASSUME NEW k \in 1 .. n, k # j /\ k # j + 1 PROVE a[k] = b[k]
  <2>1. ASSUME NEW m \in 0 .. 7 PROVE Bit(a[k], m) <=> Bit(b[k], m)
    <3>1. 8 * (k - 1) + m \notin 8 * (j - 1) .. 8 * (j + 1) - 1
      BY <1>3
    <3> QED
      BY <1>2, <3>1
  <2>2. a[k] \in 0 .. 255 /\ b[k] \in 0 .. 255
    BY <1>2
  <2> QED
    BY <2>1, <2>2, SameByte
<1>4. PICK x \in bits : x \in 8 * (j - 1) .. 8 * (j + 1) - 1
  OBVIOUS
<1>5. PICK k \in 1 .. n, m \in 0 .. 7 : x = 8 * (k - 1) + m
  <2>1. x \in 0 .. 8 * n - 1
    BY <1>4
  <2> QED
    BY <2>1, PlaceOfBit
<1>6. ~ (Bit(b[k], m) <=> Bit(a[k], m))
  BY <1>2, <1>4, <1>5
<1>7. Fits(b)
  BY <1>1
<1>8. Bit(a[k], m) <=> Bit(b[k], m)
  <2>1. PICK l \in 1 .. n : l = j + 1
    <3>1. j + 1 \in 1 .. n
      OBVIOUS
    <3> QED
      BY <3>1
  <2>2. Same(a, b, n, j, l)
    BY <1>3, <2>1 DEF Same
  <2> QED
    BY <1>2, <1>7, <2>1, <2>2, NearbyBytes
<1> QED
  BY <1>6, <1>8

(* Two bits of bytes that are two or three apart. *)
LEMMA FarPairSeen ==
  ASSUME NEW n \in Nat, n >= 2, NEW a \in [1 .. n -> 0 .. 255], Fits(a),
         NEW j \in 1 .. n, NEW l \in 1 .. n, l = j + 2 \/ l = j + 3,
         NEW p \in 0 .. 7, NEW q \in 0 .. 7, NEW bits,
         bits = {8 * (j - 1) + p, 8 * (l - 1) + q}
  PROVE  ~ Fits(Flip(a, bits))
<1> SUFFICES ASSUME Fits(Flip(a, bits)) PROVE FALSE
  OBVIOUS
<1>1. PICK b : b = Flip(a, bits)
  OBVIOUS
<1>2a. Flipped(n, a, b, bits)
  BY <1>1, FlipIs
<1>2. /\ b \in [1 .. n -> 0 .. 255]
      /\ \A k \in 1 .. n : \A m \in 0 .. 7 :
           (Bit(b[k], m) <=> Bit(a[k], m)) <=> 8 * (k - 1) + m \notin bits
  BY <1>2a DEF Flipped
<1>3. \A k \in 1 .. n : \A m \in 0 .. 7 :
        8 * (k - 1) + m \in bits <=> (k = j /\ m = p) \/ (k = l /\ m = q)
  OBVIOUS
<1>4. ASSUME NEW k \in 1 .. n, k # j /\ k # l PROVE a[k] = b[k]
  <2>1. \A m \in 0 .. 7 : Bit(a[k], m) <=> Bit(b[k], m)
    BY <1>2, <1>3, <1>4
  <2>2. a[k] \in 0 .. 255 /\ b[k] \in 0 .. 255
    BY <1>2
  <2> QED
    BY <2>1, <2>2, SameByte
<1>5. \A m \in 0 .. 7 : m # p => (Bit(a[j], m) <=> Bit(b[j], m))
  <2>1. \A m \in 0 .. 7 : m # p => 8 * (j - 1) + m \notin bits
    BY <1>3
  <2> QED
    BY <1>2, <2>1
<1>6. Fits(b)
  BY <1>1
<1>7. Bit(a[j], p) <=> Bit(b[j], p)
  <2>1. Same(a, b, n, j, l)
    BY <1>4 DEF Same
  <2>2. ButFor(a[j], b[j], p)
    BY <1>5 DEF ButFor
  <2> QED
    BY <1>2, <1>6, <2>1, <2>2, FarBytes
<1>8. 8 * (j - 1) + p \in bits
  OBVIOUS
<1> QED
  BY <1>2, <1>7, <1>8

(* Nor does it fit when one bit is flipped, or two, whose bytes are at most *)
(* three apart, in a frame of any length (parser/parser.go:540).           *)
THEOREM PairSeen ==
  ASSUME NEW n \in Nat, n >= 2, NEW a \in [1 .. n -> 0 .. 255], Fits(a),
         NEW x \in 0 .. 8 * n - 1, NEW y \in 0 .. 8 * n - 1,
         y \div 8 - x \div 8 \in -3 .. 3
  PROVE  ~ Fits(Flip(a, {x, y}))
<1>1. ASSUME NEW u \in 0 .. 8 * n - 1, NEW v \in 0 .. 8 * n - 1, v \div 8 - u \div 8 \in 0 .. 3
      PROVE  ~ Fits(Flip(a, {u, v}))
  <2>1. PICK j \in 1 .. n, p \in 0 .. 7 : u = 8 * (j - 1) + p
    BY PlaceOfBit
  <2>2. PICK l \in 1 .. n, q \in 0 .. 7 : v = 8 * (l - 1) + q
    BY PlaceOfBit
  <2>3. u \div 8 = j - 1 /\ v \div 8 = l - 1
    BY <2>1, <2>2
  <2>4. l \in {j, j + 1, j + 2, j + 3}
    BY <1>1, <2>3
  <2>5. PICK bits : bits = {u, v}
    OBVIOUS
  <2>6. CASE l = j /\ l = n
    <3>1. PICK k \in 1 .. n : k + 1 = n
      <4>1. n - 1 \in 1 .. n /\ (n - 1) + 1 = n
        OBVIOUS
      <4> QED
        BY <4>1
    <3>2. bits \subseteq 8 * (k - 1) .. 8 * (k + 1) - 1 /\ bits # {} /\ k + 1 <= n
      BY <2>1, <2>2, <2>5, <2>6, <3>1
    <3>3. ~ Fits(Flip(a, bits))
      BY <3>2, BurstSeen
    <3> QED
      BY <2>5, <3>3
  <2>7. CASE (l = j /\ l # n) \/ l = j + 1
    <3>1. bits \subseteq 8 * (j - 1) .. 8 * (j + 1) - 1 /\ bits # {} /\ j + 1 <= n
      BY <2>1, <2>2, <2>5, <2>7
    <3>2. ~ Fits(Flip(a, bits))
      BY <3>1, BurstSeen
    <3> QED
      BY <2>5, <3>2
  <2>8. CASE l = j + 2 \/ l = j + 3
    <3>1. bits = {8 * (j - 1) + p, 8 * (l - 1) + q}
      BY <2>1, <2>2, <2>5
    <3>2. ~ Fits(Flip(a, bits))
      BY <2>8, <3>1, FarPairSeen
    <3> QED
      BY <2>5, <3>2
  <2> QED
    BY <2>4, <2>6, <2>7, <2>8
<1>2. x \div 8 \in Int /\ y \div 8 \in Int
  OBVIOUS
<1>3. CASE y \div 8 - x \div 8 \in 0 .. 3
  BY <1>1, <1>3
<1>4. CASE x \div 8 - y \div 8 \in 0 .. 3
  <2>1. {x, y} = {y, x}
    OBVIOUS
  <2>2. ~ Fits(Flip(a, {y, x}))
    BY <1>1, <1>4
  <2> QED
    BY <2>1, <2>2
<1>5. y \div 8 - x \div 8 \in 0 .. 3 \/ x \div 8 - y \div 8 \in 0 .. 3
  BY <1>2
<1> QED
  BY <1>3, <1>4, <1>5

-----------------------------------------------------------------------------
(* What the PMU sends ends with its CRC. *)
LEMMA SealedFits ==
  ASSUME NEW m \in Nat, NEW stamp \in [1 .. m -> 0 .. 255]
  PROVE  Sealed(stamp) \in [1 .. m + 2 -> 0 .. 255] /\ Fits(Sealed(stamp))
<1>1. PICK B : B = 0 .. 255
  OBVIOUS
<1>2. stamp \in Seq(B) /\ Len(stamp) = m /\ DOMAIN stamp = 1 .. m
  BY <1>1
<1>3. PICK st : Runs(stamp, m, st) /\ st[m] = CRC16(stamp)
  BY <1>2, CrcRuns
<1>4. CRC16(stamp) \in Register
  BY <1>3 DEF Runs
<1>5. PICK hi, lo \in 0 .. 255 : CrcBytes(stamp) = <<hi, lo>>
  BY <1>4, CrcBytesAre
<1>6. PICK q : q = <<hi, lo>>
  OBVIOUS
<1>7. q \in Seq(B) /\ Len(q) = 2
  BY <1>1, <1>6
<1>8. PICK s : s = stamp \o q
  OBVIOUS
<1>9. s \in Seq(B) /\ Len(s) = m + 2 /\ \A i \in 1 .. m : s[i] = stamp[i]
  <2>1. /\ stamp \o q \in Seq(B) /\ Len(stamp \o q) = Len(stamp) + Len(q)
        /\ \A i \in 1 .. Len(stamp) : (stamp \o q)[i] = stamp[i]
    <3>1. stamp \in Seq(B) /\ q \in Seq(B)
      BY <1>2, <1>7
    <3> QED
      BY <3>1, ConcatTwo, Zenon
  <2> QED
    BY <1>2, <1>7, <1>8, <2>1
<1>10. s = Sealed(stamp)
  BY <1>5, <1>6, <1>8 DEF Sealed
<1>11. s \in [1 .. m + 2 -> 0 .. 255]
  <2>1. DOMAIN s = 1 .. m + 2 /\ s \in [1 .. Len(s) -> B]
    BY <1>9, LenProperties
  <2> QED
    BY <1>1, <1>9, <2>1
<1>12. SubSeq(s, 1, m) = stamp
  <2>1. SubSeq(s, 1, m) = [i \in 1 .. m |-> s[i]]
    BY <1>9
  <2>2. stamp = [i \in 1 .. m |-> stamp[i]]
    OBVIOUS
  <2>3. [i \in 1 .. m |-> s[i]] = [i \in 1 .. m |-> stamp[i]]
    BY <1>9
  <2> QED
    BY <2>1, <2>2, <2>3
<1>13. Len(s) - 2 = m
  BY <1>9
<1>14. SubSeq(s, 1, Len(s) - 2) = stamp
  BY <1>12, <1>13
<1>15. Fits(s)
  BY <1>10, <1>14, Zenon DEF Fits
<1> QED
  BY <1>10, <1>11, <1>15

(* A line without errors. *)
LEMMA FlipNone ==
  ASSUME NEW n \in Nat, NEW a \in [1 .. n -> 0 .. 255]
  PROVE  Flip(a, {}) = a
<1>1. PICK b, none : b = Flip(a, none) /\ none = {}
  OBVIOUS
<1>2. Flipped(n, a, b, none)
  BY <1>1, FlipIs
<1>3. ASSUME NEW k \in 1 .. n PROVE b[k] = a[k]
  <2>1. a[k] \in 0 .. 255 /\ b[k] \in 0 .. 255
    BY <1>2 DEF Flipped
  <2>2. \A m \in 0 .. 7 : Bit(b[k], m) <=> Bit(a[k], m)
    BY <1>1, <1>2 DEF Flipped
  <2> QED
    BY <2>1, <2>2, SameByte
<1>4. b \in [1 .. n -> 0 .. 255]
  BY <1>2 DEF Flipped
<1>5. b = a
  BY <1>3, <1>4
<1> QED
  BY <1>1, <1>5

Pairs(z) == {{i, j} : i, j \in 0 .. z - 1}
Burst(i, more) == {i} \cup {i + k : k \in more}
Bursts(z) == {Burst(i, more) : i \in 0 .. z - 4, more \in SUBSET (1 .. 3)}

(* Every error of a short frame is seen. *)
LEMMA ErrorsSeen ==
  ASSUME NEW n \in 2 .. 4, NEW a \in [1 .. n -> 0 .. 255], Fits(a), NEW bits \in Errors(a)
  PROVE  bits # {} /\ ~ Fits(Flip(a, bits))
<1>1. Len(a) = n /\ n \in Nat /\ n >= 2
  OBVIOUS
<1>2. \/ \E i, j \in 0 .. 8 * n - 1 : bits = {i, j}
      \/ \E i \in 0 .. 8 * n - 4, more \in SUBSET (1 .. 3) : bits = {i} \cup {i + k : k \in more}
  <2>1. PICK z : z = 8 * n
    OBVIOUS
  <2>2. Errors(a) = Pairs(8 * Len(a)) \cup Bursts(8 * Len(a))
    BY DEF Errors, Pairs, Bursts, Burst
  <2>3. 8 * Len(a) = z
    BY <1>1, <2>1
  <2>4. bits \in Pairs(z) \/ bits \in Bursts(z)
    BY <2>2, <2>3
  <2>5. ASSUME bits \in Pairs(z) PROVE \E i, j \in 0 .. z - 1 : bits = {i, j}
    BY <2>5 DEF Pairs
  <2>6. ASSUME bits \in Bursts(z)
        PROVE  \E i \in 0 .. z - 4, more \in SUBSET (1 .. 3) : bits = Burst(i, more)
    BY <2>6 DEF Bursts
  <2> QED
    BY <2>1, <2>4, <2>5, <2>6, Zenon DEF Burst
<1>3. ASSUME NEW i \in 0 .. 8 * n - 1, NEW j \in 0 .. 8 * n - 1, bits = {i, j}
      PROVE  bits # {} /\ ~ Fits(Flip(a, bits))
  <2>1. j \div 8 - i \div 8 \in -3 .. 3
    OBVIOUS
  <2>2. ~ Fits(Flip(a, {i, j}))
    BY <1>1, <2>1, PairSeen
  <2> QED
    BY <1>3, <2>2
<1>4. ASSUME NEW i \in 0 .. 8 * n - 4, NEW more \in SUBSET (1 .. 3),
             bits = {i} \cup {i + k : k \in more}
      PROVE  bits # {} /\ ~ Fits(Flip(a, bits))
  <2>1. bits \subseteq i .. i + 3 /\ bits # {}
    BY <1>4
  <2>2. PICK j \in 1 .. n : j + 1 <= n /\ 8 * (j - 1) <= i /\ i + 3 <= 8 * (j + 1) - 1
    <3>1. CASE i < 8 * (n - 1)
      <4>1. i \div 8 + 1 \in 1 .. n /\ (i \div 8 + 1) + 1 <= n
        BY <3>1
      <4>2. 8 * ((i \div 8 + 1) - 1) <= i /\ i + 3 <= 8 * ((i \div 8 + 1) + 1) - 1
        OBVIOUS
      <4> QED
        BY <4>1, <4>2
    <3>2. CASE i >= 8 * (n - 1)
      <4>1. n - 1 \in 1 .. n /\ (n - 1) + 1 <= n
        OBVIOUS
      <4>2. 8 * ((n - 1) - 1) <= i /\ i + 3 <= 8 * ((n - 1) + 1) - 1
        BY <3>2
      <4> QED
        BY <4>1, <4>2
    <3> QED
      BY <3>1, <3>2
  <2>3. bits \subseteq 8 * (j - 1) .. 8 * (j + 1) - 1
    BY <2>1, <2>2
  <2> QED
    BY <1>1, <2>1, <2>2, <2>3, BurstSeen
<1> QED
  BY <1>2, <1>3, <1>4

(* So is every damage that the line may do. *)
LEMMA StampSeen ==
  ASSUME NEW stamp \in Stamps, NEW flips \in Flips(Sealed(stamp))
  PROVE  Fits(Flip(Sealed(stamp), flips)) <=> flips = {}
<1>1. PICK m \in 1 .. 2 : stamp \in [1 .. m -> 0 .. 255]
  <2>1. stamp = <<0>> \/ stamp = <<170>> \/ stamp = <<255, 1>>
    BY DEF Stamps
  <2>2. <<0>> \in [1 .. 1 -> 0 .. 255] /\ <<170>> \in [1 .. 1 -> 0 .. 255]
    OBVIOUS
  <2>3. <<255, 1>> \in [1 .. 2 -> 0 .. 255]
    OBVIOUS
  <2> QED
    BY <2>1, <2>2, <2>3
<1>2. PICK n \in 2 .. 4 : n = m + 2
  OBVIOUS
<1>3. PICK a : a = Sealed(stamp)
  OBVIOUS
<1>4. a \in [1 .. n -> 0 .. 255] /\ Fits(a)
  <2>1. PICK k \in Nat : k = m /\ k + 2 = n
    BY <1>2
  <2>2. stamp \in [1 .. k -> 0 .. 255]
    BY <1>1, <2>1
  <2>3. Sealed(stamp) \in [1 .. k + 2 -> 0 .. 255] /\ Fits(Sealed(stamp))
    BY <2>2, SealedFits
  <2> QED
    BY <1>3, <2>1, <2>3
<1>5. CASE flips = {}
  <2>1. n \in Nat
    OBVIOUS
  <2>2. Flip(a, {}) = a
    BY <1>4, <2>1, FlipNone
  <2> QED
    BY <1>3, <1>4, <1>5, <2>2
<1>6. CASE flips # {}
  <2>1. flips \in Errors(a) \/ flips = {0}
    BY <1>3, <1>6 DEF Flips
  <2>2. CASE flips \in Errors(a)
    BY <1>3, <1>4, <1>6, <2>2, ErrorsSeen
  <2>3. CASE flips = {0}
    <3>1. {0, 0} \in Errors(a)
      <4>1. Len(a) = n
        BY <1>4
      <4>2. 0 \in 0 .. 8 * n - 1
        OBVIOUS
      <4> QED
        BY <4>1, <4>2 DEF Errors
    <3>2. flips = {0, 0}
      BY <2>3
    <3> QED
      BY <1>3, <1>4, <1>6, <3>1, <3>2, ErrorsSeen
  <2> QED
    BY <2>1, <2>2, <2>3
<1> QED
  BY <1>5, <1>6

(* Whatever is on its way, the CRC tells whether it was damaged. *)
CrcTells == \A n \in 1 .. Len(sent) : Fits(sent[n].bytes) <=> sent[n].flips = {}

LEMMA SendTells ==
  ASSUME StreamInv, CrcTells, NEW type, PmuSends(type)
  PROVE  CrcTells'
<1>1. PICK stamp \in Stamps, len \in Lengths(type) :
        \E flips \in Flips(Sealed(stamp)) :
          sent' = Append(sent, [type |-> type, bytes |-> Flip(Sealed(stamp), flips),
                                flips |-> flips, len |-> len])
  BY DEF PmuSends
<1>2. PICK flips \in Flips(Sealed(stamp)) :
        sent' = Append(sent, [type |-> type, bytes |-> Flip(Sealed(stamp), flips),
                              flips |-> flips, len |-> len])
  BY <1>1
<1>3. PICK e : e = [type |-> type, bytes |-> Flip(Sealed(stamp), flips),
                    flips |-> flips, len |-> len]
  OBVIOUS
<1>4. Fits(e.bytes) <=> e.flips = {}
  <2>1. e.bytes = Flip(Sealed(stamp), flips) /\ e.flips = flips
    BY <1>3
  <2>2. Fits(Flip(Sealed(stamp), flips)) <=> flips = {}
    BY StampSeen
  <2> QED
    BY <2>1, <2>2
<1>5. PICK S : sent \in Seq(S)
  BY DEF StreamInv, WireTypes
<1>6. PICK more, n : more = sent' /\ n = Len(sent)
  OBVIOUS
<1>7. /\ n \in Nat /\ Len(more) = n + 1 /\ more[n + 1] = e
      /\ \A i \in 1 .. n : more[i] = sent[i]
  BY <1>2, <1>3, <1>5, <1>6, AppendsTo
<1>8. ASSUME NEW i \in 1 .. n + 1 PROVE Fits(more[i].bytes) <=> more[i].flips = {}
  <2>1. CASE i = n + 1
    BY <1>4, <1>7, <2>1
  <2>2. CASE i # n + 1
    <3>1. i \in 1 .. n
      BY <1>7, <2>2
    <3> QED
      BY <1>6, <1>7, <3>1 DEF CrcTells
  <2> QED
    BY <2>1, <2>2
<1> QED
  BY <1>6, <1>7, <1>8 DEF CrcTells

LEMMA AlwaysTells == Spec => []CrcTells
<1>1. Init => CrcTells
  <2> SUFFICES ASSUME Init PROVE CrcTells
    OBVIOUS
  <2>1. sent = <<>>
    BY DEF Init
  <2>2. Len(<<>>) = 0
    BY EmptySeq
  <2> QED
    BY <2>1, <2>2 DEF CrcTells
<1>2. StreamInv /\ CrcTells /\ [Next]_wireVars => CrcTells'
  <2> SUFFICES ASSUME StreamInv, CrcTells, [Next]_wireVars PROVE CrcTells'
    OBVIOUS
  <2>1. ASSUME UNCHANGED sent PROVE CrcTells'
    BY <2>1 DEF CrcTells
  <2>2. CASE Ask \/ Redial \/ Timeout
    BY <2>1, <2>2 DEF Ask, Redial, Timeout, Down, pmuVars
  <2>3. CASE Receive
    BY <2>1, <2>3 DEF Receive, ReadHeader, ReadOn, DeliverCFG2, DeliverData, Down, pmuVars
  <2>4. CASE \E type \in {"cfg2", "data"} : PmuSends(type)
    BY <2>4, SendTells
  <2>5. CASE UNCHANGED wireVars
    BY <2>1, <2>5 DEF wireVars, pmuVars
  <2> QED
    BY <2>2, <2>3, <2>4, <2>5 DEF Next
<1> QED
  BY <1>1, <1>2, AlwaysStream, PTL DEF Spec

(* The CRC (parser/parser.go:540) lets through what is not damaged, and    *)
(* nothing with an error of one or two bits, or a burst of up to four.     *)
THEOREM AlwaysCrcSeesErrors == Spec => []CrcSeesErrors
<1>1. StreamInv /\ CrcTells => CrcSeesErrors
  <2> SUFFICES ASSUME StreamInv, CrcTells, NEW n \in DOMAIN sent
               PROVE  Fits(sent[n].bytes) <=> ~ Damaged(n)
    BY DEF CrcSeesErrors
  <2>1. PICK S : sent \in Seq(S)
    BY DEF StreamInv, WireTypes
  <2>2. n \in 1 .. Len(sent)
    BY <2>1, LenProperties
  <2> QED
    BY <2>2 DEF CrcTells, Damaged
<1> QED
  BY <1>1, AlwaysStream, AlwaysTells, PTL

(* What is delivered is what was sent, undamaged and in its order, and      *)
(* DATA with a profile of the PMU's layout, so that it passes every check  *)
(* of the parser (receiver/receiver.go:170, 1055).                         *)
THEOREM AlwaysDeliveredAsSent == Spec => []DeliveredAsSent
<1>1. StreamInv /\ CrcTells /\ ReaderInv /\ InOrder /\ UndamagedIfSeen => DeliveredAsSent
  <2> SUFFICES ASSUME StreamInv, CrcTells, ReaderInv, InOrder, UndamagedIfSeen
               PROVE  DeliveredAsSent
    OBVIOUS
  <2>1. PICK S : sent \in Seq(S)
    BY DEF StreamInv, WireTypes
  <2>2. DOMAIN sent = 1 .. Len(sent)
    BY <2>1, LenProperties
  <2>3. \A n \in DOMAIN sent : Fits(sent[n].bytes) => ~ Damaged(n)
    BY <2>2 DEF CrcTells, Damaged
  <2> QED
    BY <2>3 DEF ReaderInv, UndamagedIfSeen, DeliveredAsSent
<1> QED
  BY <1>1, AlwaysStream, AlwaysTells, AlwaysReader, AlwaysInOrder, AlwaysUndamagedIfSeen, PTL
=============================================================================
