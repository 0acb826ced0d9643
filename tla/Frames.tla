------------------------------- MODULE Frames -------------------------------
(***************************************************************************)
(* The C37.118 frames as the program reads them (parser/cfg2.go and        *)
(* parser/parser.go): CFG-2 to a profile, DATA and a profile to a reading, *)
(* the CRC, the STAT word, the nominal frequency and the quality check     *)
(* (aligner/aligner.go).                                                   *)
(*                                                                         *)
(* A frame's payload is kept byte by byte as far as offsets go: how many   *)
(* bytes it has, and which value, of which size, begins at which offset.   *)
(* What the bytes of one value are is left out; reading a value of another *)
(* size, or from inside one, yields garbage.  Frequencies are in mHz.      *)
(***************************************************************************)
EXTENDS Integers, Sequences, SequencesExt

CONSTANT Second  \* ticks of the clock in a second

ASSUME SecondAssumption == Second \in Nat \ {0}

-----------------------------------------------------------------------------
(* Payloads. *)

Field(size, kind, val) == [size |-> size, kind |-> kind, val |-> val]

Garbage == Field(0, "garbage", 0)

Bytes(fields) ==
  LET end == FoldLeft(LAMBDA ends, f : Append(ends, Last(ends) + f.size),
                      <<0>>, fields)
  IN [len |-> Last(end),
      at |-> [o \in {end[i] : i \in DOMAIN fields} |->
                fields[CHOOSE i \in DOMAIN fields : end[i] = o]]]

(* The first n bytes of a payload. *)
Cut(p, n) ==
  [len |-> n,
   at |-> [o \in {k \in DOMAIN p.at : k + p.at[k].size <= n} |-> p.at[o]]]

Read(p, o, size) ==
  IF o \in DOMAIN p.at /\ p.at[o].size = size THEN p.at[o] ELSE Garbage

Value(p, o, size) == Read(p, o, size).val

-----------------------------------------------------------------------------
(* CFG-2. *)

(* Mutant of ExpectedDataPayloadSize: analogs are always integers. *)
IntegerAnalogSize(b) ==
  2 + b.phnmr * (IF b.format.phFloat THEN 8 ELSE 4)
    + (IF b.format.freqFloat THEN 8 ELSE 4)
    + b.annmr * 2
    + b.dgnmr * 2

ExpectedDataPayloadSize(b) ==
  2 + b.phnmr * (IF b.format.phFloat THEN 8 ELSE 4)
    + (IF b.format.freqFloat THEN 8 ELSE 4)
    + b.annmr * (IF b.format.anFloat THEN 4 ELSE 2)
    + b.dgnmr * 2

Error == [ok |-> FALSE]

(* Names in a PMU block: 16 for a digital word. *)
ChannelCount(phnmr, annmr, dgnmr) == phnmr + annmr + 16 * dgnmr

(* One PMU block from offset o on, and where the next one begins. *)
parseOnePMUBlock(p, o) ==
  LET phnmr == Value(p, o + 20, 2)
      annmr == Value(p, o + 22, 2)
      dgnmr == Value(p, o + 24, 2)
      chnCount == ChannelCount(phnmr, annmr, dgnmr)
      units == o + 26 + 16 * chnCount
      fnom == units + 4 * (phnmr + annmr + dgnmr)
  IN IF p.len < o + 26 THEN Error
     ELSE IF p.len < units \/ p.len < fnom + 4 THEN Error
     ELSE [ok |-> TRUE, id |-> Value(p, o + 16, 2), format |-> Value(p, o + 18, 2),
           phnmr |-> phnmr, annmr |-> annmr, dgnmr |-> dgnmr,
           channels |-> [i \in 1 .. chnCount |-> Read(p, o + 10 + 16 * i, 16)],
           fnom |-> IF Value(p, fnom, 2) % 2 = 1 THEN 50000 ELSE 60000,
           next |-> fnom + 4]

(* The n blocks that begin at offset 6: the first one, the size of all the *)
(* DATA bodies and where the blocks end.                                   *)
Blocks(p, n) ==
  FoldLeft(LAMBDA walk, i :
             IF ~ walk.ok THEN walk
             ELSE LET b == parseOnePMUBlock(p, walk.next)
                  IN IF ~ b.ok THEN Error
                     ELSE [ok |-> TRUE, next |-> b.next,
                           first |-> IF i = 1 THEN b ELSE walk.first,
                           total |-> walk.total + ExpectedDataPayloadSize(b)],
           [ok |-> TRUE, next |-> 6, first |-> Error, total |-> 0],
           [i \in 1 .. n |-> i])

(* raw is a type, a SYNC version and a payload; 16 bytes are the header and *)
(* the CRC.                                                                *)
ParseCFG2Frame(raw) ==
  LET p == raw.p
      numPMU == Value(p, 4, 2)
      walk == Blocks(p, numPMU)
      b == walk.first
  IN IF p.len + 16 < 40 \/ raw.type # "cfg2" \/ raw.ver \notin {1, 2} THEN Error
     ELSE IF p.len < 34 \/ numPMU < 1 THEN Error
     ELSE IF ~ walk.ok THEN Error
     ELSE IF p.len < walk.next + 2 \/ p.len # walk.next + 2 THEN Error
     ELSE [ok |-> TRUE, id |-> b.id, format |-> b.format, numPMU |-> numPMU,
           timeBase |-> Value(p, 0, 4), ver |-> raw.ver,
           phnmr |-> b.phnmr, annmr |-> b.annmr, dgnmr |-> b.dgnmr,
           channels |-> b.channels, fnom |-> b.fnom,
           dataRate |-> Value(p, walk.next, 2),
           payload |-> ExpectedDataPayloadSize(b), total |-> walk.total]

-----------------------------------------------------------------------------
(* DATA. *)

(* The class of a label; labels stand for their spellings (VA, VAN, V1...). *)
ClassifyPhasorName(name) ==
  IF name \in {"VA", "VB", "VC", "IA", "IB", "IC"} THEN name ELSE ""

Voltages == {"VA", "VB", "VC", "VX"}
Currents == {"IA", "IB", "IC", "IX"}

NoPhasor == [magnitude |-> 0, source |-> 0]

(* The phasor of the last channel labelled with this class. *)
Labelled(names, phasors, class) ==
  LET at == {i \in DOMAIN names : ClassifyPhasorName(names[i]) = class}
  IN IF at = {} THEN NoPhasor ELSE phasors[CHOOSE i \in at : \A j \in at : j <= i]

(* The n-th phasor of those with one of these labels. *)
Nth(names, phasors, labels, n) ==
  LET picked == SelectSeq([i \in DOMAIN names |-> i], LAMBDA i : names[i] \in labels)
  IN IF n <= Len(picked) THEN phasors[picked[n]] ELSE NoPhasor

(* Mutant of Or: the place among the channels goes before the label. *)
PlaceFirst(phasor, other) == IF other.magnitude = 0 THEN phasor ELSE other

(* A phasor that measures 0 counts as missing. *)
Or(phasor, other) == IF phasor.magnitude = 0 THEN other ELSE phasor

(* VA, VB, VC and IA by label, by place, by index.  The last fallbacks, on  *)
(* the second name, find what i1 is already, or a label that begins with I *)
(* and is classified as a voltage's, which is left out.                    *)
mapPhasorsToStandard(names, phasors) ==
  LET v(n) == Nth(names, phasors, Voltages, n)
      i1 == Nth(names, phasors, Currents, 1)
      va == Or(Labelled(names, phasors, "VA"), v(1))
      vb == Or(Labelled(names, phasors, "VB"), v(2))
      vc == Or(Labelled(names, phasors, "VC"), v(3))
      ia == Or(Labelled(names, phasors, "IA"), i1)
      n == Len(phasors)
      legacy == va.magnitude = 0 /\ vb.magnitude = 0 /\ n >= 4
      a == IF legacy THEN phasors[1] ELSE va
      c == IF legacy THEN phasors[4] ELSE ia
  IN [va |-> IF n >= 1 THEN Or(a, phasors[1]) ELSE a,
      vb |-> IF legacy THEN phasors[2] ELSE vb,
      vc |-> IF legacy THEN phasors[3] ELSE vc,
      ia |-> IF n < 2 THEN c
             ELSE IF \E i \in DOMAIN names : names[i] \in Currents THEN Or(c, i1)
             ELSE c]

abs(n) == IF n < 0 THEN -n ELSE n

(* An absolute frequency in the other band snaps the nominal to that band. *)
ResolveNominalHz(freq, fnom, freqFloat) ==
  LET alt == IF fnom >= 55000 THEN 50000 ELSE 60000
  IN IF freqFloat /\ abs(freq - fnom) > 5000 /\ abs(freq - alt) < 3000
     THEN alt ELSE fnom

(* SOC and FRACSEC, the latter in units of 1/TIME_BASE. *)
Timestamp(soc, frac, timeBase) ==
  LET tb == IF timeBase = 0 THEN 1000000 ELSE timeBase
  IN soc * Second + (frac * Second) \div tb

(* Mutant of Reads: the analogs come before the frequency. *)
AnalogsFirst(cfg) ==
  LET phSize == IF cfg.format.phFloat THEN 4 ELSE 2
      freqSize == IF cfg.format.freqFloat THEN 4 ELSE 2
      anSize == IF cfg.format.anFloat THEN 4 ELSE 2
  IN <<2>> \o [i \in 1 .. 2 * cfg.phnmr |-> phSize]
     \o [i \in 1 .. cfg.annmr |-> anSize]
     \o <<freqSize, freqSize>>
     \o [i \in 1 .. cfg.dgnmr |-> 2]

(* The reads of the first PMU block, in the code's order: sizes. *)
Reads(cfg) ==
  LET phSize == IF cfg.format.phFloat THEN 4 ELSE 2
      freqSize == IF cfg.format.freqFloat THEN 4 ELSE 2
      anSize == IF cfg.format.anFloat THEN 4 ELSE 2
  IN <<2>> \o [i \in 1 .. 2 * cfg.phnmr |-> phSize]
     \o <<freqSize, freqSize>>
     \o [i \in 1 .. cfg.annmr |-> anSize]
     \o [i \in 1 .. cfg.dgnmr |-> 2]

(* The cursor o moves by each read, or the read is short. *)
Walk(p, sizes) ==
  FoldLeft(LAMBDA at, size :
             IF ~ at.ok \/ at.o + size > p.len THEN [at EXCEPT !.ok = FALSE]
             ELSE [ok |-> TRUE, o |-> at.o + size,
                   vals |-> Append(at.vals, Read(p, at.o, size))],
           [ok |-> TRUE, o |-> 0, vals |-> <<>>], sizes)

NameOr(name, default) == IF name = "" THEN default ELSE name

(* A failure says which check it was: "type", "length", "short" or "block". *)
Failed(why) == [ok |-> FALSE, why |-> why]

parseDataWithProfile(raw, cfg) ==
  LET walk == Walk(raw.p, Reads(cfg))
      vals == walk.vals
      names == [i \in 1 .. cfg.phnmr |-> cfg.channels[i].val]
      f == 1 + 2 * cfg.phnmr
      freq == IF cfg.format.freqFloat THEN vals[f + 1].val
              ELSE cfg.fnom + vals[f + 1].val
      nominal == ResolveNominalHz(freq, cfg.fnom, cfg.format.freqFloat)
      phasors == [i \in 1 .. cfg.phnmr |->
                    [magnitude |-> vals[2 * i].val, source |-> vals[2 * i],
                     angle |-> vals[2 * i + 1]]]
      standard == mapPhasorsToStandard(names, phasors)
  IN IF raw.type # "data" THEN Failed("type")
     ELSE IF raw.p.len # cfg.total THEN Failed("length")
     ELSE IF ~ walk.ok THEN Failed("short")
     ELSE IF walk.o # cfg.payload THEN Failed("block")
     ELSE [ok |-> TRUE,
           timestamp |-> Timestamp(raw.soc, raw.frac, cfg.timeBase),
           stat |-> vals[1].val,
           phasors |-> [i \in 1 .. cfg.phnmr |->
                          [name |-> NameOr(names[i], "PH"),
                           phasor |-> phasors[i]]],
           standard |-> standard,
           frequency |-> freq, frequencyDeviation |-> freq - nominal,
           fnomHz |-> nominal, rocof |-> vals[f + 2],
           analogs |-> [i \in 1 .. cfg.annmr |->
                          [name |-> NameOr(cfg.channels[cfg.phnmr + i].val, "ANA"),
                           value |-> vals[f + 2 + i]]],
           digitals |-> [i \in 1 .. cfg.dgnmr |-> vals[f + 2 + cfg.annmr + i]],
           digitalNames |-> [i \in 1 .. Len(cfg.channels) - cfg.phnmr - cfg.annmr |->
                               cfg.channels[cfg.phnmr + cfg.annmr + i].val]]

-----------------------------------------------------------------------------
(* STAT. *)

Bit(word, n) == (word \div 2 ^ n) % 2 = 1

decodeStat(stat) ==
  [dataErrorCode |-> (stat \div 2 ^ 14) % 4,
   cfgChange |-> Bit(stat, 13), triggerDetected |-> Bit(stat, 12),
   sortMethod |-> Bit(stat, 11), pmuSyncStatus |-> Bit(stat, 10),
   pmuTimeQuality |-> (stat \div 2 ^ 6) % 16,
   unlockedDuration |-> (stat \div 2 ^ 4) % 4,
   pmuTriggerReason |-> stat % 16]

(* Why a reading is bad, or "ok".  The parser stamps every reading, so that *)
(* there is none without a time; a frequency that is not a number is out   *)
(* of range like those beyond 45 and 65 Hz.                                *)
Validate(r, now, maxClockSkew) ==
  IF abs(now - r.timestamp) > maxClockSkew THEN "skew"
  ELSE IF (r.stat \div 2 ^ 14) % 4 # 0 THEN "status"
  ELSE IF Bit(r.stat, 10) \/ decodeStat(r.stat).pmuSyncStatus THEN "unsynced"
  ELSE IF r.frequency < 45000 \/ r.frequency > 65000 THEN "frequency"
  ELSE "ok"

-----------------------------------------------------------------------------
(* The CRC: CRC-CCITT, seed 0xFFFF, polynomial 0x1021. *)

Poly == [i \in 0 .. 15 |-> IF i \in {0, 5, 12} THEN 1 ELSE 0]

Xor(a, b) == [i \in DOMAIN a |-> (a[i] + b[i]) % 2]

(* Mutant of Shift: the bit shifted out is forgotten. *)
ShiftOnly(crc) == [i \in 0 .. 15 |-> IF i = 0 THEN 0 ELSE crc[i - 1]]

(* One step of the inner loop, on the register's bits. *)
Shift(crc) ==
  LET moved == [i \in 0 .. 15 |-> IF i = 0 THEN 0 ELSE crc[i - 1]]
  IN IF crc[15] = 1 THEN Xor(moved, Poly) ELSE moved

(* A byte into the top of the register, then eight steps. *)
CrcByte(crc, byte) ==
  LET top == [i \in 0 .. 15 |-> IF i >= 8 /\ Bit(byte, i - 8) THEN 1 ELSE 0]
  IN FoldLeft(LAMBDA c, step : Shift(c), Xor(crc, top), <<1, 2, 3, 4, 5, 6, 7, 8>>)

CRC16(bytes) == FoldLeft(CrcByte, [i \in 0 .. 15 |-> 1], bytes)
=============================================================================
