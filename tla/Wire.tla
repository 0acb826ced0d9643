-------------------------------- MODULE Wire --------------------------------
(***************************************************************************)
(* From the bytes of a TCP connection to readings: readFrameTimed and the  *)
(* CFG-2 retries of the handshake (receiver/receiver.go) around the parser *)
(* of Frames, against a PMU that encodes its layout and what it measures   *)
(* as C37.118 says.                                                        *)
(*                                                                         *)
(* A frame crosses the connection in three pieces: the four bytes that     *)
(* hold SYNC and size, the rest, and the CRC.  A read deadline may pass    *)
(* between any two, and bytes read out of step may begin with 0xAA.  Noise *)
(* flips bits of a frame and its CRC; that is computed on a stamp of a few *)
(* bytes, which stands for the frame's contents.  A PMU may also send a    *)
(* CFG-2 that is too short for what it announces.                          *)
(***************************************************************************)
EXTENDS Frames

CONSTANTS
  MaxPhasors, MaxAnalogs, MaxDigitals,  \* bounds: channels of a PMU block
  Labels,       \* channel names that the label checks combine
  Troubles,     \* what may go wrong, of "deadlines", "noise" and "short"
  MaxAttempts,  \* CFG-2 requests that fit in the handshake's deadline
  MaxSent       \* bound: frames of the PMU where deadlines may pass

(* PmuBlocks names up to three phasors and two analogs. *)
ASSUME BoundsAssumption ==
  MaxPhasors \in 1 .. 3 /\ MaxAnalogs \in 0 .. 2 /\ MaxDigitals \in Nat

-----------------------------------------------------------------------------
(* The PMU: its layout, and what it sends of it. *)

Formats == [phFloat : BOOLEAN, anFloat : BOOLEAN, freqFloat : BOOLEAN]

PmuBlocks ==
  [format : Formats, phasors : {SubSeq(<<"VA", "", "IA">>, 1, n) : n \in 0 .. MaxPhasors},
   analogs : {SubSeq(<<"MW", "">>, 1, n) : n \in 0 .. MaxAnalogs},
   dgnmr : 0 .. MaxDigitals, fnomWord : {0, 1}]

(* The second block of a frame, which the program only skips. *)
OtherBlocks ==
  {b \in PmuBlocks : /\ b.format.phFloat = b.format.freqFloat /\ ~ b.format.anFloat
                     /\ Len(b.phasors) = 1 /\ b.analogs = <<>> /\ b.fnomWord = 0}

Layout(blocks) == [timeBase |-> 4, dataRate |-> 50, blocks |-> blocks]

(* Layouts of every format, and layouts of every combination of labels. *)
FormatLayouts ==
  {Layout(<<b>>) : b \in PmuBlocks} \cup
  {Layout(<<b, c>>) : b \in {d \in PmuBlocks : d.fnomWord = 1}, c \in OtherBlocks}

LabelLayouts ==
  {Layout(<<[format |-> [phFloat |-> TRUE, anFloat |-> FALSE, freqFloat |-> TRUE],
             phasors |-> names, analogs |-> <<>>, dgnmr |-> 0, fnomWord |-> 1]>>) :
     names \in UNION {[1 .. n -> Labels] : n \in 1 .. 4}}

ShortLayouts ==
  {Layout(<<b>>) : b \in OtherBlocks} \cup {Layout(<<b, c>>) : b, c \in OtherBlocks}

PlainLayout ==
  CHOOSE l \in FormatLayouts :
    LET b == l.blocks[1]
    IN /\ Len(l.blocks) = 1 /\ b.phasors = <<"VA">> /\ b.analogs = <<>>
       /\ b.dgnmr = 0 /\ b.format.phFloat

Each(n, size, kind) == [i \in 1 .. n |-> Field(size, kind, i)]

BlockFields(b) ==
  LET ph == Len(b.phasors)
      an == Len(b.analogs)
  IN <<Field(16, "station", 1), Field(2, "id", 7), Field(2, "format", b.format),
       Field(2, "count", ph), Field(2, "count", an), Field(2, "count", b.dgnmr)>>
     \o [i \in 1 .. ph |-> Field(16, "name", b.phasors[i])]
     \o [i \in 1 .. an |-> Field(16, "name", b.analogs[i])]
     \o Each(16 * b.dgnmr, 16, "bit")
     \o Each(ph + an + b.dgnmr, 4, "unit")
     \o <<Field(2, "fnom", b.fnomWord), Field(2, "cfgcnt", 0)>>

CfgRaw(l) ==
  [type |-> "cfg2", ver |-> 1,
   p |-> Bytes(<<Field(4, "timebase", l.timeBase), Field(2, "count", Len(l.blocks))>>
               \o FlattenSeq([i \in DOMAIN l.blocks |-> BlockFields(l.blocks[i])])
               \o <<Field(2, "rate", l.dataRate)>>)]

(* A sample: its frequency, and the phasor channels that measure 0. *)
Fnom(b) == IF b.fnomWord = 1 THEN 50000 ELSE 60000

Magnitude(s, i) == IF i \in s.dead THEN 0 ELSE i

BlockData(b, s) ==
  LET ph == Len(b.phasors)
      size(float) == IF float THEN 4 ELSE 2
  IN <<Field(2, "stat", 0)>>
     \o [k \in 1 .. 2 * ph |->
           IF k % 2 = 1
           THEN Field(size(b.format.phFloat), "magnitude", Magnitude(s, (k + 1) \div 2))
           ELSE Field(size(b.format.phFloat), "angle", k \div 2)]
     \o <<Field(size(b.format.freqFloat), "freq",
                IF b.format.freqFloat THEN s.freq ELSE s.freq - Fnom(b)),
          Field(size(b.format.freqFloat), "rocof", 1)>>
     \o Each(Len(b.analogs), size(b.format.anFloat), "analog")
     \o Each(b.dgnmr, 2, "digital")

DataRaw(l, s) ==
  [type |-> "data", soc |-> 1, frac |-> 1,
   p |-> Bytes(FlattenSeq([i \in DOMAIN l.blocks |-> BlockData(l.blocks[i], s)]))]

Samples == {[freq |-> f, dead |-> {}] : f \in {47100, 50000, 50020, 59980}}

-----------------------------------------------------------------------------
(* The connection and its reader. *)

VARIABLES
  trouble,    \* what may go wrong, or "none"
  layout,     \* of the PMU
  sent,       \* what the PMU has sent, and which bits of it the line flipped
  requests,   \* CFG-2 requests the PMU has yet to answer
  wire,       \* pieces under way: [n |-> the frame's number in sent, part]
  got,        \* pieces of the frame being read
  pc,         \* where the receiver is
  attempt,    \* CFG-2 requests of this handshake
  profile,    \* the profile registered, Error if none
  delivered,  \* history: the numbers of the frames read
  reading,    \* the outcome of the last DATA frame of a stream, Error if none
  cause       \* why the last session ended, "" if none did

pmuVars == <<trouble, layout, sent, requests>>
wireVars == <<pmuVars, wire, got, pc, attempt, profile, delivered, reading, cause>>

Init ==
  /\ \/ trouble = "none" /\ layout \in FormatLayouts \cup LabelLayouts
     \/ trouble = "short" /\ layout \in ShortLayouts
     \/ trouble \in {"deadlines", "noise"} /\ layout = PlainLayout
  /\ trouble \in Troubles \cup {"none"}
  /\ sent = <<>> /\ requests = 0 /\ wire = <<>> /\ got = <<>>
  /\ pc = "ask" /\ attempt = 0
  /\ profile = Error /\ delivered = <<>> /\ reading = Error /\ cause = ""

(* Frames of bytes, and the CRC they end with. *)
Flip(bytes, bits) ==
  [k \in DOMAIN bytes |->
     FoldLeft(LAMBDA b, n : IF 8 * (k - 1) + n \in bits
                            THEN IF Bit(b, n) THEN b - 2 ^ n ELSE b + 2 ^ n ELSE b,
              bytes[k], <<0, 1, 2, 3, 4, 5, 6, 7>>)]

CrcBytes(bytes) ==
  LET crc == CRC16(bytes)
      byte(low) == FoldLeft(LAMBDA sum, n : sum + crc[low + n] * 2 ^ n, 0,
                            <<0, 1, 2, 3, 4, 5, 6, 7>>)
  IN <<byte(8), byte(0)>>

Sealed(stamp) == stamp \o CrcBytes(stamp)

Fits(bytes) == bytes = Sealed(SubSeq(bytes, 1, Len(bytes) - 2))

(* Errors of one or two bits, and bursts of up to four, of a frame. *)
Errors(bytes) ==
  LET n == 8 * Len(bytes)
  IN {{i, j} : i, j \in 0 .. n - 1} \cup
     {{i} \cup {i + k : k \in more} : i \in 0 .. n - 4, more \in SUBSET (1 .. 3)}

Stamps == IF trouble = "noise" THEN {<<0>>, <<170>>, <<255, 1>>} ELSE {<<170>>}

Flips(bytes) ==
  CASE trouble = "noise" -> {{}} \cup Errors(bytes)
    [] trouble = "deadlines" -> {{}, {0}}
    [] OTHER -> {{}}

(* How many bytes of its CFG-2 the PMU sends: all, or too few. *)
Lengths(type) ==
  LET whole == CfgRaw(layout).p.len
  IN IF trouble = "short" /\ type = "cfg2" THEN 0 .. whole ELSE {whole}

(* The PMU answers requests, and streams DATA as it likes. *)
PmuSends(type) ==
  /\ Len(sent) < (IF trouble = "deadlines" THEN MaxSent ELSE 1)
  /\ pc # "down"
  /\ type = "cfg2" => requests > 0
  /\ requests' = IF type = "cfg2" THEN requests - 1 ELSE requests
  /\ \E stamp \in Stamps, len \in Lengths(type) :
       \E flips \in Flips(Sealed(stamp)) :
         sent' = Append(sent, [type |-> type, bytes |-> Flip(Sealed(stamp), flips),
                               flips |-> flips, len |-> len])
  /\ wire' = wire \o [i \in 1 .. 3 |-> [n |-> Len(sent'), part |-> i]]
  /\ UNCHANGED <<trouble, layout, got, pc, attempt, profile, delivered, reading, cause>>

Ask ==
  /\ pc = "ask"
  /\ pc' = "wait" /\ attempt' = attempt + 1 /\ requests' = requests + 1
  /\ UNCHANGED <<trouble, layout, sent, wire, got, profile, delivered, reading, cause>>

(* The session ends, and the connection with it. *)
Down(why) ==
  /\ pc' = "down" /\ cause' = why
  /\ got' = <<>> /\ wire' = <<>> /\ requests' = 0
  /\ UNCHANGED <<trouble, layout, sent, attempt, profile, delivered, reading>>

Redial ==
  /\ pc = "down"
  /\ pc' = "ask" /\ attempt' = 0
  /\ UNCHANGED <<pmuVars, wire, got, profile, delivered, reading, cause>>

(* The deadline passes, in the middle of a frame perhaps, whose pieces are  *)
(* then lost.  The wait for CFG-2 is tried again, the stream is over.      *)
Timeout ==
  /\ trouble = "deadlines"
  /\ \/ /\ pc = "wait" /\ attempt < MaxAttempts
        /\ pc' = "ask" /\ got' = <<>>
        /\ UNCHANGED <<pmuVars, wire, attempt, profile, delivered, reading, cause>>
     \/ /\ pc = "stream" \/ (pc = "wait" /\ attempt = MaxAttempts)
        /\ Down("timeout")

(* The piece is the first one read: a header, or bytes out of step, which   *)
(* are refused unless they happen to begin like one.                       *)
ReadHeader(piece) ==
  \/ /\ got' = <<piece>> /\ wire' = Tail(wire)
     /\ UNCHANGED <<pmuVars, pc, attempt, profile, delivered, reading, cause>>
  \/ piece.part # 1 /\ Down("sync")

(* A frame that has its CRC right goes to whoever waits for it.  A CFG-2    *)
(* that cannot be parsed ends a handshake, and is ignored in the stream.   *)
DeliverCFG2(n) ==
  LET raw == CfgRaw(layout)
      prof == ParseCFG2Frame([raw EXCEPT !.p = Cut(raw.p, sent[n].len)])
  IN /\ profile' = IF prof.ok THEN prof ELSE profile
     /\ delivered' = Append(delivered, n)
     /\ UNCHANGED <<trouble, layout, sent, attempt, reading>>
     /\ IF prof.ok \/ pc = "stream"
        THEN /\ pc' = "stream" /\ got' = <<>> /\ wire' = Tail(wire)
             /\ UNCHANGED <<requests, cause>>
        ELSE /\ pc' = "down" /\ cause' = "cfg2"
             /\ got' = <<>> /\ wire' = <<>> /\ requests' = 0

DeliverData(n) ==
  /\ delivered' = Append(delivered, n)
  /\ got' = <<>> /\ wire' = Tail(wire)
  /\ reading' = IF pc = "stream"
                THEN parseDataWithProfile(DataRaw(layout, [freq |-> 50000, dead |-> {}]),
                                          profile)
                ELSE reading
  /\ UNCHANGED <<pmuVars, pc, attempt, profile, cause>>

Whole(pieces) == pieces[1].part = 1 /\ Len(pieces) = 3

(* Mutant of Fits16: the CRC is not looked at. *)
Trusted(pieces) == Whole(pieces)

(* Three pieces of one frame, whose CRC is that of its bytes. *)
Fits16(pieces) == Whole(pieces) /\ Fits(sent[pieces[1].n].bytes)

(* Another piece: the frame is not at its end yet, or it is delivered, or  *)
(* its CRC does not fit.  Where a frame read out of step ends is anywhere. *)
ReadOn(piece) ==
  LET pieces == Append(got, piece)
  IN \/ /\ ~ Whole(pieces)
        /\ got' = pieces /\ wire' = Tail(wire)
        /\ UNCHANGED <<pmuVars, pc, attempt, profile, delivered, reading, cause>>
     \/ /\ Fits16(pieces)
        /\ IF sent[piece.n].type = "cfg2" THEN DeliverCFG2(piece.n) ELSE DeliverData(piece.n)
     \/ /\ Whole(pieces) \/ pieces[1].part # 1
        /\ ~ Fits16(pieces)
        /\ Down("crc")

Receive ==
  /\ pc \in {"wait", "stream"} /\ wire # <<>>
  /\ IF got = <<>> THEN ReadHeader(Head(wire)) ELSE ReadOn(Head(wire))

Next == Ask \/ Redial \/ Timeout \/ Receive \/ \E type \in {"cfg2", "data"} : PmuSends(type)

Spec == Init /\ [][Next]_wireVars

-----------------------------------------------------------------------------
InOrder == \A i, j \in DOMAIN delivered : i < j => delivered[i] < delivered[j]

(* Whatever deadlines pass and wherever, frames are delivered in the order *)
(* sent, none twice, none damaged, and DATA only with the PMU's layout     *)
(* (receiver/receiver.go:170, 1055).                                       *)
Damaged(n) == sent[n].flips # {}

DeliveredAsSent ==
  /\ InOrder
  /\ \A i \in DOMAIN delivered : ~ Damaged(delivered[i])
  /\ reading # Error => reading.ok

(* No error of one or two bits, and no burst of up to four, gets through    *)
(* the CRC, and a frame without one does (parser/parser.go:540).           *)
CrcSeesErrors ==
  trouble = "noise" => \A n \in DOMAIN sent : Fits(sent[n].bytes) <=> ~ Damaged(n)

(* isTimeoutErr, receiver/receiver.go:1037: "true if we simply ran out of   *)
(* time waiting (safe to retry CFG2)".  A line that damages nothing never   *)
(* makes a handshake read a header out of step.                            *)
RetryIsSafe == cause # "sync"

-----------------------------------------------------------------------------
(* What the parser must have made of them. *)

(* The block of the PMU that is decoded. *)
First == layout.blocks[1]

Named(names, default) == [i \in DOMAIN names |-> NameOr(names[i], default)]

(* Every layout comes out of its CFG-2 as it went in: the channels and the *)
(* formats of the first block, DATA_RATE from behind all of them           *)
(* (parser/cfg2.go:181).                                                   *)
CfgComesBack ==
  /\ <<profile.format, profile.fnom, profile.dataRate, profile.timeBase, profile.numPMU>> =
     <<First.format, Fnom(First), layout.dataRate, layout.timeBase, Len(layout.blocks)>>
  /\ <<profile.phnmr, profile.annmr, profile.dgnmr>> =
     <<Len(First.phasors), Len(First.analogs), First.dgnmr>>
  /\ [i \in 1 .. profile.phnmr + profile.annmr |-> profile.channels[i].val] =
     First.phasors \o First.analogs

(* A DATA frame decoded with its own layout gives each channel, under its   *)
(* name, what the PMU put there, and a deviation from the nominal frequency *)
(* of the band it is in, or of its CFG-2 (parser/parser.go:234).           *)
Band(freq) ==
  IF ~ First.format.freqFloat THEN Fnom(First)
  ELSE CHOOSE band \in {50000, 60000} : abs(freq - band) < 3000

ReadingIsMeasured ==
  \A s \in Samples :
    LET r == parseDataWithProfile(DataRaw(layout, s), profile)
        size == IF First.format.phFloat THEN 4 ELSE 2
    IN /\ r.ok
       /\ [i \in DOMAIN r.phasors |-> r.phasors[i].name] = Named(First.phasors, "PH")
       /\ \A i \in DOMAIN r.phasors :
            /\ r.phasors[i].phasor.source = Field(size, "magnitude", i)
            /\ r.phasors[i].phasor.angle = Field(size, "angle", i)
       /\ r.frequency = s.freq /\ r.rocof.kind = "rocof"
       /\ r.frequencyDeviation = s.freq - Band(s.freq)
       /\ [i \in DOMAIN r.analogs |-> r.analogs[i].name] = Named(First.analogs, "ANA")
       /\ \A i \in DOMAIN r.analogs :
            r.analogs[i].value.kind = "analog" /\ r.analogs[i].value.val = i
       /\ \A i \in DOMAIN r.digitals : r.digitals[i] = Field(2, "digital", i)
       /\ r.digitalNames = [i \in 1 .. 16 * First.dgnmr |-> i]

(* Once its CFG-2 is registered, frames come out of the parser as the PMU  *)
(* put them in.                                                            *)
FramesRoundTrip ==
  profile # Error /\ trouble \in {"none", "short"} => CfgComesBack /\ ReadingIsMeasured

(* No byte beyond the end of a frame is read, which would be a panic: a     *)
(* CFG-2 cut at any byte is not registered, and a DATA payload that passes  *)
(* the check of its length, under a stale profile even, is exactly as long  *)
(* as what is read of it (parser/cfg2.go:125, parser/parser.go:283).       *)
NothingReadBeyondEnd ==
  profile # Error =>
    LET walk == Walk([len |-> profile.total, at |-> <<>>], Reads(profile))
    IN /\ \E i \in DOMAIN delivered : /\ sent[delivered[i]].type = "cfg2"
                                     /\ sent[delivered[i]].len = CfgRaw(layout).p.len
       /\ walk.ok /\ walk.o = profile.payload

(* A channel labelled VA, VB, VC or IA that measures something is the one  *)
(* the reading has under that label, whatever the other channels are, when *)
(* one of VA and VB is live (parser/cfg2.go:391).                          *)
Slot(standard, label) ==
  CASE label = "VA" -> standard.va [] label = "VB" -> standard.vb
    [] label = "VC" -> standard.vc [] label = "IA" -> standard.ia

LabelledPhasors(names, dead) ==
  [i \in DOMAIN names |-> [magnitude |-> IF i \in dead THEN 0 ELSE i, source |-> i]]

Live(names, dead, label) ==
  \E i \in DOMAIN names \ dead :
    names[i] = label /\ \A j \in DOMAIN names \ {i} : names[j] # label

SlotsKept(names, dead) ==
  LET standard == mapPhasorsToStandard(names, LabelledPhasors(names, dead))
  IN \A label \in {"VA", "VB", "VC", "IA"} :
       Live(names, dead, label) => names[Slot(standard, label).source] = label

LiveLabelsKept ==
  profile # Error /\ trouble = "none" =>
    LET names == [i \in 1 .. profile.phnmr |-> profile.channels[i].val]
    IN \A dead \in SUBSET DOMAIN names :
         Live(names, dead, "VA") \/ Live(names, dead, "VB") => SlotsKept(names, dead)
=============================================================================
