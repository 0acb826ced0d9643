---------------------------- MODULE RosterProofs ----------------------------
(***************************************************************************)
(* Theorems about the roster, for any PMUs, any requests in flight and any *)
(* number of them: types, that a SyncExpected which no other one overlaps  *)
(* is exact, and that a PMU has one receiver which has not been told to    *)
(* end.  As long as nobody acts on a PMU that somebody else is busy with,  *)
(* and no wait gives up, what is live streams, old receivers are gone      *)
(* before new ones dial, and the address book is obeyed.                   *)
(***************************************************************************)
EXTENDS Roster, FiniteSetTheorems, SequenceTheorems, TLAPS

NoteSet == [pc : {"off", "snap", "read", "apply"}, names : SUBSET PMUs,
            drop : SUBSET PMUs, add : SUBSET PMUs, alone : BOOLEAN]

RunSet == [pmu : PMUs \cup {""}, state : States, cancelled : BOOLEAN]

(* The parts of TypeOK. *)
BookTypes ==
  /\ book \in [PMUs -> Rows]
  /\ asked \in 0 .. MaxRequests
  /\ ctxDone \in BOOLEAN
  /\ alive \in {"up", "stopping", "exited", "fatal"}

RunTypes ==
  /\ receivers \in [PMUs -> Runs \cup {0}]
  /\ run \in [Runs -> RunSet]

NoteTypes ==
  /\ live \subseteq PMUs /\ expected \subseteq PMUs
  /\ note \in [Threads -> NoteSet]
  /\ \A t \in Threads : note[t].pc = "apply" => note[t].drop \cup note[t].add # {}

LEMMA TypeParts == TypeOK <=> BookTypes /\ RunTypes /\ NoteTypes
BY DEF TypeOK, BookTypes, RunTypes, NoteTypes, NoteSet, RunSet

LEMMA TypePartsNext == TypeOK' <=> BookTypes' /\ RunTypes' /\ NoteTypes'
BY TypeParts, PTL

LEMMA RunNumbers == \A i \in Runs : i \in Nat /\ i # 0
BY RosterAssumption, FS_CardinalityType DEF Runs

(* What a step of notifyAligner leaves in note. *)
LEMMA NotesStay ==
  ASSUME NoteTypes, NEW t \in Threads, NEW n \in NoteSet,
         n.pc = "apply" => n.drop \cup n.add # {},
         note' = [note EXCEPT ![t] = n],
         live' \subseteq PMUs, expected' \subseteq PMUs
  PROVE  NoteTypes'
BY DEF NoteTypes

LEMMA NoNoteType == NoNote \in NoteSet /\ NoNote.pc = "off"
BY DEF NoNote, NoteSet

LEMMA InitTypes == Init => TypeOK
<1> SUFFICES ASSUME Init PROVE TypeOK
  OBVIOUS
<1>1. BookTypes
  <2>1. ctxDone \in BOOLEAN
    BY DEF Init
  <2>2. MaxRequests \in Nat
    BY RosterAssumption
  <2>3. /\ book \in [PMUs -> Rows] /\ asked \in 0 .. MaxRequests
        /\ alive \in {"up", "stopping", "exited", "fatal"}
    <3>1. book \in [PMUs -> Rows]
      BY DEF Init, Rows
    <3>2. asked = 0 /\ alive = "up"
      BY DEF Init
    <3> QED
      BY <2>2, <3>1, <3>2
  <2> QED
    BY <2>1, <2>3 DEF BookTypes
<1>2. RunTypes
  BY DEF Init, RunTypes, RunSet, States
<1>3. NoteTypes
  BY NoNoteType DEF Init, NoteTypes
<1> QED
  BY <1>1, <1>2, <1>3, TypeParts

LEMMA NotifyNotes ==
  ASSUME NoteTypes, NEW t \in Threads, Notify(t)
  PROVE  NoteTypes'
<1>0. note[t] \in NoteSet /\ live \subseteq PMUs /\ expected \subseteq PMUs
  BY DEF NoteTypes
<1>1. CASE Snapshot(t)
  <2> DEFINE n(u) ==
        IF u = t
        THEN [NoNote EXCEPT !.pc = "read", !.names = live,
                            !.alone = \A v \in Threads \ {t} : ~ Syncing(v)]
        ELSE IF Syncing(u) THEN [note[u] EXCEPT !.alone = FALSE] ELSE note[u]
  <2>1. note' = [u \in Threads |-> n(u)] /\ UNCHANGED <<live, expected>>
    BY <1>1 DEF Snapshot
  <2>2. ASSUME NEW u \in Threads
        PROVE  n(u) \in NoteSet /\ (n(u).pc = "apply" => n(u).drop \cup n(u).add # {})
    <3>1. CASE u = t
      <4> DEFINE others == \A v \in Threads \ {t} : ~ Syncing(v)
      <4>1. others \in BOOLEAN
        OBVIOUS
      <4>2. n(u) = [NoNote EXCEPT !.pc = "read", !.names = live, !.alone = others]
        BY <3>1
      <4> HIDE DEF others, n
      <4> QED
        BY <1>0, <4>1, <4>2 DEF NoteSet, NoNote
    <3>2. CASE u # t
      BY <3>2 DEF NoteTypes, NoteSet
    <3> QED
      BY <3>1, <3>2
  <2> HIDE DEF n
  <2> QED
    BY <1>0, <2>1, <2>2 DEF NoteTypes
<1>2. CASE ReadExpected(t)
  <2> DEFINE names == note[t].names
             n == IF expected = names THEN NoNote
                  ELSE [note[t] EXCEPT !.pc = "apply", !.drop = expected \ names,
                                       !.add = names \ expected]
  <2>1. note' = [note EXCEPT ![t] = n] /\ UNCHANGED <<live, expected>>
    BY <1>2 DEF ReadExpected
  <2>2. n \in NoteSet /\ (n.pc = "apply" => n.drop \cup n.add # {})
    <3>1. names \subseteq PMUs
      BY <1>0 DEF NoteSet
    <3>2. expected # names => (expected \ names) \cup (names \ expected) # {}
      BY <1>0, <3>1
    <3> QED
      BY <1>0, <3>1, <3>2, NoNoteType DEF NoteSet
  <2> QED
    BY <1>0, <2>1, <2>2, NotesStay
<1>3. CASE Apply(t)
  <2>1. ASSUME NEW n \in NoteSet
        PROVE  Applied(n) \in NoteSet
               /\ (Applied(n).pc = "apply" => Applied(n).drop \cup Applied(n).add # {})
    BY NoNoteType DEF Applied
  <2>2. ASSUME NEW p \in PMUs
        PROVE  [note[t] EXCEPT !.drop = @ \ {p}] \in NoteSet
               /\ [note[t] EXCEPT !.add = @ \ {p}] \in NoteSet
    BY <1>0 DEF NoteSet
  <2>3. CASE \E p \in note[t].drop :
               /\ expected' = expected \ {p}
               /\ note' = [note EXCEPT ![t] = Applied([note[t] EXCEPT !.drop = @ \ {p}])]
    <3>1. PICK p \in note[t].drop :
               /\ expected' = expected \ {p}
               /\ note' = [note EXCEPT ![t] = Applied([note[t] EXCEPT !.drop = @ \ {p}])]
      BY <2>3
    <3> DEFINE n == [note[t] EXCEPT !.drop = @ \ {p}]
    <3>0. p \in PMUs
      BY <1>0 DEF NoteSet
    <3>2. n \in NoteSet /\ note' = [note EXCEPT ![t] = Applied(n)]
      <4>1. n \in NoteSet
        BY <2>2, <3>0
      <4>2. note' = [note EXCEPT ![t] = Applied(n)]
        BY <1>0, <3>1 DEF NoteTypes
      <4> QED
        BY <4>1, <4>2
    <3> HIDE DEF n
    <3>3. live' = live /\ expected' \subseteq PMUs
      BY <1>0, <1>3, <3>1 DEF Apply
    <3> QED
      BY <1>0, <2>1, <3>2, <3>3, NotesStay
  <2>4. CASE \E p \in note[t].add :
               /\ expected' = expected \cup {p}
               /\ note' = [note EXCEPT ![t] = Applied([note[t] EXCEPT !.add = @ \ {p}])]
    <3>1. PICK p \in note[t].add :
               /\ expected' = expected \cup {p}
               /\ note' = [note EXCEPT ![t] = Applied([note[t] EXCEPT !.add = @ \ {p}])]
      BY <2>4
    <3> DEFINE n == [note[t] EXCEPT !.add = @ \ {p}]
    <3>0. p \in PMUs
      BY <1>0 DEF NoteSet
    <3>2. n \in NoteSet /\ note' = [note EXCEPT ![t] = Applied(n)]
      <4>1. n \in NoteSet
        BY <2>2, <3>0
      <4>2. note' = [note EXCEPT ![t] = Applied(n)]
        BY <1>0, <3>1 DEF NoteTypes
      <4> QED
        BY <4>1, <4>2
    <3> HIDE DEF n
    <3>3. live' = live /\ expected' \subseteq PMUs
      BY <1>0, <1>3, <3>0, <3>1 DEF Apply
    <3> QED
      BY <1>0, <2>1, <3>2, <3>3, NotesStay
  <2> QED
    BY <1>3, <2>3, <2>4 DEF Apply
<1> QED
  BY <1>1, <1>2, <1>3 DEF Notify

-----------------------------------------------------------------------------
(* Types. *)

(* A run that was started has a PMU. *)
Started == \A i \in Runs : run[i].state # "none" => run[i].pmu \in PMUs

LEMMA NoteSnaps ==
  ASSUME NoteTypes, NEW t \in Threads, note' \in {note, [note EXCEPT ![t].pc = "snap"]},
         live' \subseteq PMUs, expected' \subseteq PMUs
  PROVE  NoteTypes'
<1> DEFINE n == [note[t] EXCEPT !.pc = "snap"]
<1>1. n \in NoteSet /\ n.pc # "apply"
  BY DEF NoteTypes, NoteSet
<1>2. note' = note \/ note' = [note EXCEPT ![t] = n]
  BY DEF NoteTypes
<1> HIDE DEF n
<1> QED
  BY <1>1, <1>2, NotesStay DEF NoteTypes

LEMMA RunGoes ==
  ASSUME RunTypes, Started, NEW i \in Runs, run[i].state # "none", NEW s \in States, Goto(i, s),
         receivers' = receivers
  PROVE  RunTypes' /\ Started'
<1> DEFINE r == [run[i] EXCEPT !.state = s]
<1>1. r \in RunSet /\ r.pmu = run[i].pmu
  BY DEF RunTypes, RunSet
<1>2. run' = [run EXCEPT ![i] = r]
  BY DEF Goto, RunTypes
<1> HIDE DEF r
<1> QED
  BY <1>1, <1>2 DEF RunTypes, Started

LEMMA ReceiverTypes ==
  ASSUME BookTypes, RunTypes, NoteTypes, Started, NEW i \in Runs, Receiver(i)
  PROVE  BookTypes' /\ RunTypes' /\ NoteTypes' /\ Started'
<1>1. /\ UNCHANGED <<book, receivers, todo, asked, ctxDone, alive, expected>>
      /\ \E s \in States : Goto(i, s)
      /\ run[i].state # "none"
  BY DEF Receiver, HandshakeDone, ConnectFails, Backoff, markLive, StreamBreaks, markNotLive,
         SessionOver, rosterEnv, At, States
<1>2. BookTypes'
  BY <1>1 DEF BookTypes
<1>3. RunTypes' /\ Started'
  BY <1>1, RunGoes
<1>4. live' \subseteq PMUs /\ expected' \subseteq PMUs
  <2>1. run[i].pmu \in PMUs /\ live \subseteq PMUs /\ expected' = expected /\ expected \subseteq PMUs
    BY <1>1 DEF Started, NoteTypes
  <2>2. live' \in {live, live \cup {run[i].pmu}, live \ {run[i].pmu}}
    BY DEF Receiver, HandshakeDone, ConnectFails, Backoff, markLive, StreamBreaks, markNotLive,
           SessionOver
  <2> QED
    BY <2>1, <2>2
<1>5. note' \in {note, [note EXCEPT ![i].pc = "snap"]}
  BY DEF Receiver, HandshakeDone, ConnectFails, Backoff, markLive, StreamBreaks, markNotLive,
         SessionOver
<1>6. NoteTypes'
  BY <1>4, <1>5, NoteSnaps DEF Threads
<1> QED
  BY <1>2, <1>3, <1>6

LEMMA CallerTypes ==
  ASSUME BookTypes, RunTypes, NoteTypes, Started, NEW c \in Callers, Caller(c)
  PROVE  BookTypes' /\ RunTypes' /\ NoteTypes' /\ Started'
<1>0. c \in Threads /\ live \subseteq PMUs /\ expected \subseteq PMUs
  BY DEF Threads, NoteTypes
<1>1. ASSUME NEW p \in PMUs, NEW op, NEW status \in {"active", "inactive"},
             WriteBook(c, p, op, status)
      PROVE  BookTypes' /\ RunTypes' /\ NoteTypes' /\ Started'
  <2>1. /\ UNCHANGED <<receivers, live, run, expected, note, asked, ctxDone, alive>>
        /\ book' \in {book, [book EXCEPT ![p] = status],
                      [book EXCEPT ![p] = Unconfirmed(@, status)]}
    BY <1>1 DEF WriteBook, managerEnv
  <2>2. book' \in [PMUs -> Rows]
    BY <2>1 DEF BookTypes, Rows, Unconfirmed
  <2> QED
    BY <2>1, <2>2 DEF BookTypes, RunTypes, NoteTypes, Started
<1>2. ASSUME NEW p \in PMUs, IfIdle(c, p)
      PROVE  BookTypes' /\ RunTypes' /\ NoteTypes' /\ Started'
  <2>1. UNCHANGED <<book, receivers, live, run, expected, note, asked, ctxDone, alive>>
    BY <1>2 DEF IfIdle, managerEnv
  <2> QED
    BY <2>1 DEF BookTypes, RunTypes, NoteTypes, Started
<1>3. ASSUME NEW p \in PMUs, StartPMU(c, p)
      PROVE  BookTypes' /\ RunTypes' /\ NoteTypes' /\ Started'
  <2>1. UNCHANGED <<book, live, expected, note, asked, ctxDone>>
    BY <1>3 DEF StartPMU
  <2>2. alive' \in {alive, "fatal"}
    BY <1>3 DEF StartPMU
  <2>3. BookTypes'
    <3>1. ctxDone' \in BOOLEAN
      BY <2>1 DEF BookTypes
    <3> QED
      BY <2>1, <2>2, <3>1 DEF BookTypes
  <2>4. NoteTypes'
    BY <2>1 DEF NoteTypes
  <2>5. RunTypes' /\ Started'
    <3>1. CASE UNCHANGED <<receivers, run>>
      BY <3>1 DEF RunTypes, Started
    <3>2. CASE \E i \in Runs :
                 /\ receivers' = [receivers EXCEPT ![p] = i]
                 /\ run' = [run EXCEPT ![i] = [pmu |-> p, state |-> "dial", cancelled |-> FALSE]]
      <4>1. PICK i \in Runs :
                 /\ receivers' = [receivers EXCEPT ![p] = i]
                 /\ run' = [run EXCEPT ![i] = [pmu |-> p, state |-> "dial", cancelled |-> FALSE]]
        BY <3>2
      <4> DEFINE r == [pmu |-> p, state |-> "dial", cancelled |-> FALSE]
      <4>2. r \in RunSet /\ r.pmu \in PMUs
        BY DEF RunSet, States
      <4> HIDE DEF r
      <4>3. run' = [run EXCEPT ![i] = r]
        BY <4>1 DEF r
      <4> QED
        BY <4>1, <4>2, <4>3 DEF RunTypes, Started
    <3> QED
      BY <1>3, <3>1, <3>2 DEF StartPMU
  <2> QED
    BY <2>3, <2>4, <2>5
<1>4. ASSUME NEW p \in PMUs, StopPMU(c, p)
      PROVE  BookTypes' /\ RunTypes' /\ NoteTypes' /\ Started'
  <2>1. UNCHANGED <<book, expected, asked, ctxDone, alive>>
    BY <1>4 DEF StopPMU
  <2>2. BookTypes'
    BY <2>1 DEF BookTypes
  <2>3. CASE UNCHANGED <<receivers, live, run, note>>
    BY <2>1, <2>2, <2>3 DEF RunTypes, NoteTypes, Started
  <2>4. CASE Configured(p)
    <3> DEFINE i == receivers[p]
               r == [run[i] EXCEPT !.cancelled = TRUE]
    <3>1. /\ run' = [run EXCEPT ![i].cancelled = TRUE]
          /\ receivers' = [receivers EXCEPT ![p] = 0] /\ live' = live \ {p}
          /\ note' = [note EXCEPT ![c].pc = "snap"]
      BY <1>4, <2>4 DEF StopPMU
    <3>2. i \in Runs
      BY <2>4 DEF RunTypes, Configured
    <3>3. r \in RunSet /\ r.pmu = run[i].pmu /\ r.state = run[i].state
          /\ run' = [run EXCEPT ![i] = r]
      BY <3>1, <3>2, ZenonT(30) DEF RunTypes, RunSet
    <3> HIDE DEF i, r
    <3>4. RunTypes' /\ Started'
      BY <3>1, <3>2, <3>3 DEF RunTypes, Started
    <3>5. NoteTypes'
      BY <1>0, <2>1, <3>1, NoteSnaps
    <3> QED
      BY <2>2, <3>4, <3>5
  <2> QED
    BY <1>4, <2>3, <2>4 DEF StopPMU
<1>5. ASSUME NEW i \in Runs, WaitDone(c, i)
      PROVE  BookTypes' /\ RunTypes' /\ NoteTypes' /\ Started'
  <2>1. UNCHANGED <<book, receivers, live, run, expected, note, asked, ctxDone, alive>>
    BY <1>5 DEF WaitDone, managerEnv
  <2> QED
    BY <2>1 DEF BookTypes, RunTypes, NoteTypes, Started
<1> QED
  BY <1>1, <1>2, <1>3, <1>4, <1>5 DEF Caller

LEMMA MainTypes ==
  ASSUME BookTypes, RunTypes, NoteTypes, Started, Interrupt \/ StopAll \/ Exit
  PROVE  BookTypes' /\ RunTypes' /\ NoteTypes' /\ Started'
<1>1. CASE Interrupt
  BY <1>1 DEF Interrupt, BookTypes, RunTypes, NoteTypes, Started
<1>2. CASE StopAll
  <2>1. /\ UNCHANGED <<book, expected, asked, ctxDone>> /\ alive' = "stopping"
        /\ receivers' = [p \in PMUs |-> 0] /\ live' = {}
        /\ note' = [note EXCEPT ![Main].pc = "snap"]
        /\ run' = [i \in Runs |-> IF \E p \in PMUs : receivers[p] = i
                                  THEN [run[i] EXCEPT !.cancelled = TRUE] ELSE run[i]]
    BY <1>2 DEF StopAll
  <2>2. BookTypes'
    <3>1. ctxDone' \in BOOLEAN
      BY <2>1 DEF BookTypes
    <3> QED
      BY <2>1, <3>1 DEF BookTypes
  <2>3. \A i \in Runs : [run[i] EXCEPT !.cancelled = TRUE] \in RunSet
                        /\ [run[i] EXCEPT !.cancelled = TRUE].pmu = run[i].pmu
                        /\ [run[i] EXCEPT !.cancelled = TRUE].state = run[i].state
    BY DEF RunTypes, RunSet
  <2>4. RunTypes' /\ Started'
    BY <2>1, <2>3 DEF RunTypes, Started
  <2>5. Main \in Threads /\ live' \subseteq PMUs /\ expected' \subseteq PMUs
    BY <2>1 DEF Threads, Callers, NoteTypes
  <2>6. NoteTypes'
    BY <2>1, <2>5, NoteSnaps
  <2> QED
    BY <2>2, <2>4, <2>6
<1>3. CASE Exit
  <2>1. /\ UNCHANGED <<book, receivers, live, run, expected, note, asked, ctxDone>>
        /\ alive' = "exited"
    BY <1>3 DEF Exit
  <2>2. ctxDone' \in BOOLEAN
    BY <2>1 DEF BookTypes
  <2> QED
    BY <2>1, <2>2 DEF BookTypes, RunTypes, NoteTypes, Started
<1> QED
  BY <1>1, <1>2, <1>3

LEMMA NextTypes == TypeOK /\ Started /\ [Next]_vars => TypeOK' /\ Started'
<1> SUFFICES ASSUME TypeOK, Started, [Next]_vars PROVE TypeOK' /\ Started'
  OBVIOUS
<1>0. BookTypes /\ RunTypes /\ NoteTypes
  BY TypeParts
<1>1. ASSUME NEW t \in Threads, Notify(t) PROVE TypeOK' /\ Started'
  <2>1. UNCHANGED <<book, receivers, run, asked, ctxDone, alive>>
    BY <1>1 DEF Notify, Snapshot, ReadExpected, Apply
  <2>2. BookTypes' /\ RunTypes' /\ Started'
    BY <1>0, <2>1 DEF BookTypes, RunTypes, Started
  <2>3. NoteTypes'
    BY <1>0, <1>1, NotifyNotes
  <2> QED
    BY <2>2, <2>3, TypePartsNext
<1>2. ASSUME NEW i \in Runs, Receiver(i) PROVE TypeOK' /\ Started'
  BY <1>0, <1>2, ReceiverTypes, TypePartsNext
<1>3. ASSUME NEW c \in Callers, Caller(c) PROVE TypeOK' /\ Started'
  BY <1>0, <1>3, CallerTypes, TypePartsNext
<1>4. ASSUME NEW c \in Clients, Ask(c) PROVE TypeOK' /\ Started'
  <2>1. /\ UNCHANGED <<book, receivers, live, run, expected, note, ctxDone, alive>>
        /\ asked < MaxRequests /\ asked' = asked + 1
    BY <1>4 DEF Ask
  <2>2. asked' \in 0 .. MaxRequests
    BY <1>0, <2>1, RosterAssumption DEF BookTypes
  <2>3. BookTypes' /\ RunTypes' /\ NoteTypes' /\ Started'
    BY <1>0, <2>1, <2>2 DEF BookTypes, RunTypes, NoteTypes, Started
  <2> QED
    BY <2>3, TypePartsNext
<1>5. CASE Interrupt \/ StopAll \/ Exit
  BY <1>0, <1>5, MainTypes, TypePartsNext
<1>6. CASE UNCHANGED vars
  BY <1>0, <1>6, TypePartsNext DEF vars, BookTypes, RunTypes, NoteTypes, Started
<1> QED
  BY <1>1, <1>2, <1>3, <1>4, <1>5, <1>6 DEF Next

(* Every run that was started has its PMU. *)
LEMMA AlwaysStarted == Spec => [](TypeOK /\ Started)
<1>1. Init => Started
  <2> SUFFICES ASSUME Init, NEW i \in Runs PROVE run[i].state = "none"
    BY DEF Started
  <2>1. run = [j \in Runs |-> [pmu |-> "", state |-> "none", cancelled |-> FALSE]]
    BY DEF Init
  <2> QED
    BY <2>1
<1> QED
  BY <1>1, InitTypes, NextTypes, PTL DEF Spec

(* Every variable has its type; a call of SyncExpected that is not done    *)
(* has something left to do (aligner/buffer.go:335, SyncExpected).         *)
THEOREM AlwaysTypeOK == Spec => []TypeOK
BY AlwaysStarted, PTL

-----------------------------------------------------------------------------
(* A SyncExpected that no other one overlaps. *)

(* What it has still to drop and to add is what expected and its names     *)
(* differ by.                                                              *)
Halfway(n) ==
  n.pc = "apply" =>
    /\ n.drop \cap n.names = {} /\ n.add \subseteq n.names
    /\ expected = (n.names \ n.add) \cup n.drop

(* No other call is under way meanwhile. *)
Alone(t) == note[t].alone /\ Syncing(t)

LoneInv ==
  \A t \in Threads :
    Alone(t) => (\A v \in Threads \ {t} : ~ Syncing(v)) /\ Halfway(note[t])

(* What a thread that is not syncing becomes is no concern of the others,  *)
(* as long as expected is left alone.                                      *)
LEMMA LoneStays ==
  ASSUME NoteTypes, LoneInv, NEW t \in Threads, expected' = expected,
         note' \in {note, [note EXCEPT ![t].pc = "snap"]}
  PROVE  LoneInv'
<1>1. /\ ~ Syncing(t)' \/ note' = note
      /\ \A u \in Threads : u # t => note'[u] = note[u]
  BY DEF NoteTypes, NoteSet, Syncing
<1>2. \A u \in Threads : Syncing(u)' => Syncing(u) /\ note'[u] = note[u]
  BY <1>1 DEF Syncing
<1> QED
  BY <1>2 DEF LoneInv, Alone, Halfway

LEMMA LoneSnapshot ==
  ASSUME NoteTypes, LoneInv, NEW t \in Threads, Snapshot(t)
  PROVE  LoneInv'
<1>1. /\ expected' = expected
      /\ \A u \in Threads : u # t => note'[u] = IF Syncing(u) THEN [note[u] EXCEPT !.alone = FALSE]
                                             ELSE note[u]
      /\ note'[t] = [NoNote EXCEPT !.pc = "read", !.names = live,
                                   !.alone = \A v \in Threads \ {t} : ~ Syncing(v)]
  BY DEF Snapshot
<1>2. /\ note'[t].pc = "read"
      /\ note'[t].alone <=> \A v \in Threads \ {t} : ~ Syncing(v)
  BY <1>1 DEF NoNote
<1>3. \A u \in Threads : u # t => (Syncing(u)' <=> Syncing(u)) /\ ~ (Syncing(u) /\ note'[u].alone)
  <2> SUFFICES ASSUME NEW u \in Threads, u # t
               PROVE  (Syncing(u)' <=> Syncing(u)) /\ ~ (Syncing(u) /\ note'[u].alone)
    OBVIOUS
  <2>1. CASE Syncing(u)
    <3>1. note'[u] = [note[u] EXCEPT !.alone = FALSE] /\ note[u] \in NoteSet
      BY <1>1, <2>1 DEF NoteTypes
    <3>2. ~ note'[u].alone
      BY <3>1 DEF NoteSet
    <3>3. note'[u].pc = note[u].pc
      BY <3>1 DEF NoteSet
    <3> QED
      BY <2>1, <3>2, <3>3 DEF Syncing
  <2>2. CASE ~ Syncing(u)
    BY <1>1, <2>2 DEF Syncing
  <2> QED
    BY <2>1, <2>2
<1> QED
  BY <1>2, <1>3 DEF LoneInv, Alone, Halfway

LEMMA LoneRead ==
  ASSUME NoteTypes, LoneInv, NEW t \in Threads, ReadExpected(t)
  PROVE  LoneInv'
<1>1. /\ expected' = expected /\ Syncing(t)
      /\ \A u \in Threads : u # t => note'[u] = note[u]
      /\ note'[t] = IF expected = note[t].names THEN NoNote
                    ELSE [note[t] EXCEPT !.pc = "apply", !.drop = expected \ note[t].names,
                                         !.add = note[t].names \ expected]
  BY DEF ReadExpected, NoteTypes, Syncing
<1>2. note[t] \in NoteSet /\ expected \subseteq PMUs
  BY DEF NoteTypes
<1>3. CASE expected = note[t].names
  <2>1. ~ Syncing(t)'
    BY <1>1, <1>3, NoNoteType DEF Syncing
  <2> QED
    BY <1>1, <2>1 DEF LoneInv, Alone, Halfway, Syncing
<1>4. CASE expected # note[t].names
  <2>1. /\ note'[t].pc = "apply" /\ note'[t].names = note[t].names
        /\ note'[t].drop = expected \ note[t].names /\ note'[t].add = note[t].names \ expected
        /\ note'[t].alone = note[t].alone
    BY <1>1, <1>2, <1>4 DEF NoteSet
  <2>2. Halfway(note[t])'
    BY <1>1, <1>2, <2>1 DEF Halfway, NoteSet
  <2>3. ASSUME NEW u \in Threads, Alone(u)'
        PROVE  (\A v \in Threads \ {u} : ~ Syncing(v)') /\ Halfway(note[u])'
    <3>1. Alone(u) /\ \A v \in Threads \ {u} : ~ Syncing(v)
      BY <1>1, <2>1, <2>3 DEF Alone, Syncing, LoneInv
    <3>2. u = t
      BY <1>1, <3>1
    <3> QED
      BY <1>1, <2>2, <3>1, <3>2 DEF Syncing
  <2> QED
    BY <2>3 DEF LoneInv
<1> QED
  BY <1>3, <1>4

(* One removal or addition; the last one leaves exactly the names.         *)
LEMMA LoneApply ==
  ASSUME NoteTypes, LoneInv, NEW t \in Threads, Apply(t)
  PROVE  LoneInv' /\ (Alone(t) /\ note'[t].pc = "off" => expected' = note[t].names)
<1>0. note[t] \in NoteSet /\ expected \subseteq PMUs
  BY DEF NoteTypes
<1>1. PICK n :
        /\ n.pc = "apply" /\ n.names = note[t].names /\ n.alone = note[t].alone
        /\ note' = [note EXCEPT ![t] = Applied(n)]
        /\ \/ \E p \in note[t].drop : /\ expected' = expected \ {p} /\ n.add = note[t].add
                                      /\ n.drop = note[t].drop \ {p}
           \/ \E p \in note[t].add : /\ expected' = expected \cup {p} /\ n.drop = note[t].drop
                                     /\ n.add = note[t].add \ {p} /\ note[t].drop = {}
  <2>1. CASE \E p \in note[t].drop :
               /\ expected' = expected \ {p}
               /\ note' = [note EXCEPT ![t] = Applied([note[t] EXCEPT !.drop = @ \ {p}])]
    <3>1. PICK p \in note[t].drop :
               /\ expected' = expected \ {p}
               /\ note' = [note EXCEPT ![t] = Applied([note[t] EXCEPT !.drop = @ \ {p}])]
      BY <2>1
    <3> DEFINE m == [note[t] EXCEPT !.drop = @ \ {p}]
    <3>2. /\ m.pc = "apply" /\ m.names = note[t].names /\ m.alone = note[t].alone
          /\ m.add = note[t].add /\ m.drop = note[t].drop \ {p}
      BY <1>0 DEF NoteSet, Apply
    <3>3. note' = [note EXCEPT ![t] = Applied(m)]
      BY <3>1
    <3> HIDE DEF m
    <3> QED
      BY <3>1, <3>2, <3>3
  <2>2. CASE /\ note[t].drop = {}
             /\ \E p \in note[t].add :
               /\ expected' = expected \cup {p}
               /\ note' = [note EXCEPT ![t] = Applied([note[t] EXCEPT !.add = @ \ {p}])]
    <3>1. PICK p \in note[t].add :
               /\ expected' = expected \cup {p}
               /\ note' = [note EXCEPT ![t] = Applied([note[t] EXCEPT !.add = @ \ {p}])]
      BY <2>2
    <3> DEFINE m == [note[t] EXCEPT !.add = @ \ {p}]
    <3>2. /\ m.pc = "apply" /\ m.names = note[t].names /\ m.alone = note[t].alone
          /\ m.drop = note[t].drop /\ m.add = note[t].add \ {p}
      BY <1>0 DEF NoteSet, Apply
    <3>3. note' = [note EXCEPT ![t] = Applied(m)]
      BY <3>1
    <3> HIDE DEF m
    <3> QED
      BY <2>2, <3>1, <3>2, <3>3
  <2> QED
    BY <2>1, <2>2 DEF Apply
<1>2. Syncing(t)
  BY DEF Apply, Syncing
<1>3. note'[t] = Applied(n) /\ \A u \in Threads : u # t => note'[u] = note[u]
  BY <1>1 DEF NoteTypes
<1>4. ASSUME Alone(t)
      PROVE  /\ n.drop \cap n.names = {} /\ n.add \subseteq n.names
             /\ expected' = (n.names \ n.add) \cup n.drop
  <2>1. /\ note[t].drop \cap note[t].names = {} /\ note[t].add \subseteq note[t].names
        /\ expected = (note[t].names \ note[t].add) \cup note[t].drop
    BY <1>4 DEF LoneInv, Halfway, Apply
  <2> QED
    BY <1>1, <2>1
<1>5. ASSUME NEW u \in Threads, Alone(u)'
      PROVE  (\A v \in Threads \ {u} : ~ Syncing(v)') /\ Halfway(note[u])'
  <2>1. Alone(u)
    <3>1. CASE u = t
      <4>1. Applied(n) = n
        BY <1>3, <1>5, <3>1, NoNoteType DEF Applied, Alone, Syncing
      <4> QED
        BY <1>1, <1>2, <1>3, <1>5, <3>1, <4>1 DEF Alone
    <3>2. CASE u # t
      BY <1>3, <1>5, <3>2 DEF Alone, Syncing
    <3> QED
      BY <3>1, <3>2
  <2>2. u = t /\ \A v \in Threads \ {t} : ~ Syncing(v)
    BY <1>2, <2>1 DEF LoneInv
  <2>3. note'[t] = n
    BY <1>3, <1>5, <2>2, NoNoteType DEF Applied, Alone, Syncing
  <2>4. Halfway(note[t])'
    BY <1>4, <2>1, <2>2, <2>3 DEF Halfway
  <2> QED
    BY <1>3, <2>2, <2>4 DEF Syncing
<1>6. ASSUME Alone(t), note'[t].pc = "off"
      PROVE  expected' = note[t].names
  <2>1. n.drop = {} /\ n.add = {}
    BY <1>1, <1>3, <1>6 DEF Applied
  <2> QED
    BY <1>1, <1>4, <1>6, <2>1
<1> QED
  BY <1>5, <1>6 DEF LoneInv

(* Everybody else leaves expected and the calls under way alone. *)
LEMMA OthersLeaveNotes ==
  ASSUME [Next]_vars, ~ \E t \in Threads : Notify(t)
  PROVE  /\ expected' = expected
         /\ \E t \in Threads : note' \in {note, [note EXCEPT ![t].pc = "snap"]}
<1>0. Main \in Threads /\ Runs \subseteq Threads /\ Callers \subseteq Threads /\ Clients \subseteq Threads
  BY DEF Threads, Callers
<1>1. ASSUME NEW i \in Runs, Receiver(i)
      PROVE  expected' = expected /\ note' \in {note, [note EXCEPT ![i].pc = "snap"]}
  BY <1>1 DEF Receiver, HandshakeDone, ConnectFails, Backoff, markLive, StreamBreaks, markNotLive,
         SessionOver
<1>2. ASSUME NEW c \in Callers, Caller(c)
      PROVE  expected' = expected /\ note' \in {note, [note EXCEPT ![c].pc = "snap"]}
  BY <1>2 DEF Caller, WriteBook, IfIdle, StartPMU, StopPMU, WaitDone, managerEnv
<1>3. ASSUME NEW c \in Clients, Ask(c) PROVE expected' = expected /\ note' = note
  BY <1>3 DEF Ask
<1>4. CASE Interrupt \/ StopAll \/ Exit
  BY <1>0, <1>4 DEF Interrupt, StopAll, Exit
<1>5. CASE UNCHANGED vars
  BY <1>0, <1>5 DEF vars
<1> QED
  BY <1>0, <1>1, <1>2, <1>3, <1>4, <1>5 DEF Next

LEMMA NextLone ==
  ASSUME TypeOK, LoneInv, [Next]_vars
  PROVE  /\ LoneInv'
         /\ \A t \in Threads : Alone(t) /\ note'[t].pc = "off" => expected' = note[t].names
<1>0. NoteTypes
  BY TypeParts
<1>1. CASE ~ \E t \in Threads : Notify(t)
  <2>1. /\ expected' = expected
        /\ \E t \in Threads : note' \in {note, [note EXCEPT ![t].pc = "snap"]}
    BY <1>1, OthersLeaveNotes
  <2>2. \A t \in Threads : Alone(t) => note'[t].pc \in {note[t].pc, "snap"}
    BY <1>0, <2>1 DEF NoteTypes, NoteSet
  <2> QED
    BY <1>0, <2>1, <2>2, LoneStays DEF Alone, Syncing
<1>2. ASSUME NEW t \in Threads, Snapshot(t)
      PROVE  /\ LoneInv'
             /\ \A u \in Threads : Alone(u) => note'[u].pc # "off"
  <2>1. ASSUME NEW u \in Threads, Alone(u) PROVE note'[u].pc # "off"
    BY <1>0, <1>2, <2>1 DEF Snapshot, Alone, Syncing, NoteTypes, NoteSet, NoNote
  <2> QED
    BY <1>0, <1>2, <2>1, LoneSnapshot
<1>3. ASSUME NEW t \in Threads, ReadExpected(t)
      PROVE  /\ LoneInv'
             /\ \A u \in Threads : Alone(u) /\ note'[u].pc = "off" => expected' = note[u].names
  <2>1. ASSUME NEW u \in Threads, Alone(u), note'[u].pc = "off" PROVE expected' = note[u].names
    BY <1>0, <1>3, <2>1 DEF ReadExpected, Alone, Syncing, NoteTypes, NoteSet
  <2> QED
    BY <1>0, <1>3, <2>1, LoneRead
<1>4. ASSUME NEW t \in Threads, Apply(t)
      PROVE  /\ LoneInv'
             /\ \A u \in Threads : Alone(u) /\ note'[u].pc = "off" => expected' = note[u].names
  <2>1. LoneInv' /\ (Alone(t) /\ note'[t].pc = "off" => expected' = note[t].names)
    BY <1>0, <1>4, LoneApply
  <2>2. \A u \in Threads : Alone(u) => u = t
    BY <1>4 DEF Apply, LoneInv, Syncing
  <2> QED
    BY <2>1, <2>2
<1> QED
  BY <1>1, <1>2, <1>3, <1>4 DEF Notify

(* A SyncExpected that overlapped no other one leaves the bank expecting   *)
(* exactly the names it was given: whatever was expected before, and       *)
(* whoever starts, stops, goes live or asks for something meanwhile        *)
(* (aligner/buffer.go:335, SyncExpected; manager.go, notifyAligner).       *)
THEOREM AlwaysLoneSyncIsExact == Spec => LoneSyncIsExact
<1>1. Init => LoneInv
  BY NoNoteType DEF Init, LoneInv, Alone, Syncing
<1>2. TypeOK /\ LoneInv /\ [Next]_vars => LoneInv'
  BY NextLone
<1>3. TypeOK /\ LoneInv /\ [Next]_vars =>
        [\A t \in Threads :
           note[t].alone /\ Syncing(t) /\ note'[t].pc = "off" => expected' = note[t].names]_vars
  BY NextLone DEF Alone
<1> QED
  BY <1>1, <1>2, <1>3, AlwaysTypeOK, PTL DEF Spec, LoneSyncIsExact

-----------------------------------------------------------------------------
(* The receivers of a PMU. *)

(* A PMU is configured with a run of its own, and a run that was not told  *)
(* to end is the one its PMU is configured with.                           *)
Current ==
  /\ \A p \in PMUs : Configured(p) => run[receivers[p]].pmu = p
  /\ \A i \in Runs : Underway(i) /\ ~ run[i].cancelled => receivers[run[i].pmu] = i

LEMMA CurrentUnchanged ==
  ASSUME Current, UNCHANGED <<receivers, run>>
  PROVE  Current'
BY DEF Current, Configured, Underway

LEMMA CurrentGoes ==
  ASSUME RunTypes, Current, NEW i \in Runs, Underway(i), NEW s \in States, Goto(i, s),
         receivers' = receivers
  PROVE  Current'
<1>1. \A j \in Runs : /\ run'[j].pmu = run[j].pmu /\ run'[j].cancelled = run[j].cancelled
                     /\ run'[j].state = IF j = i THEN s ELSE run[j].state
  BY DEF Goto, RunTypes, RunSet
<1>2. \A p \in PMUs : Configured(p)' => run'[receivers'[p]].pmu = p
  BY <1>1 DEF Current, Configured, RunTypes
<1>3. \A j \in Runs : Underway(j)' /\ ~ run'[j].cancelled => receivers'[run'[j].pmu] = j
  BY <1>1 DEF Current, Underway
<1> QED
  BY <1>2, <1>3 DEF Current

LEMMA CurrentStarts ==
  ASSUME RunTypes, Started, Current, NEW p \in PMUs, ~ Configured(p),
         NEW i \in Runs, run[i].state = "none",
         receivers' = [receivers EXCEPT ![p] = i],
         run' = [run EXCEPT ![i] = [pmu |-> p, state |-> "dial", cancelled |-> FALSE]],
         \A q \in PMUs : Configured(q) => run[receivers[q]].state # "none"
  PROVE  Current'
<1>1. /\ \A q \in PMUs : receivers'[q] = IF q = p THEN i ELSE receivers[q]
      /\ \A j \in Runs : run'[j] = IF j = i THEN [pmu |-> p, state |-> "dial", cancelled |-> FALSE]
                                           ELSE run[j]
  BY DEF RunTypes
<1>2. \A q \in PMUs : Configured(q)' => run'[receivers'[q]].pmu = q
  BY <1>1 DEF Current, Configured, RunTypes
<1>3. ASSUME NEW j \in Runs, Underway(j)', ~ run'[j].cancelled
      PROVE  receivers'[run'[j].pmu] = j
  <2>1. CASE j = i
    BY <1>1, <2>1
  <2>2. CASE j # i
    <3>1. run'[j] = run[j] /\ Underway(j) /\ ~ run[j].cancelled /\ run[j].pmu \in PMUs
      BY <1>1, <1>3, <2>2 DEF Underway, Started
    <3>2. receivers[run[j].pmu] = j /\ j # 0
      BY <3>1, RunNumbers DEF Current
    <3> QED
      BY <1>1, <3>1, <3>2 DEF Configured
  <2> QED
    BY <2>1, <2>2
<1> QED
  BY <1>2, <1>3 DEF Current

LEMMA CurrentStops ==
  ASSUME RunTypes, Started, Current, NEW p \in PMUs, Configured(p),
         run' = [run EXCEPT ![receivers[p]].cancelled = TRUE],
         receivers' = [receivers EXCEPT ![p] = 0]
  PROVE  Current'
<1> DEFINE i == receivers[p]
<1>1. i \in Runs
  BY DEF RunTypes, Configured
<1>2. /\ \A q \in PMUs : receivers'[q] = IF q = p THEN 0 ELSE receivers[q]
      /\ \A j \in Runs : /\ run'[j].pmu = run[j].pmu /\ run'[j].state = run[j].state
                         /\ run'[j].cancelled = IF j = i THEN TRUE ELSE run[j].cancelled
  BY <1>1 DEF RunTypes, RunSet
<1>3. \A q \in PMUs : Configured(q)' => run'[receivers'[q]].pmu = q
  BY <1>2 DEF Current, Configured, RunTypes
<1>4. ASSUME NEW j \in Runs, Underway(j)', ~ run'[j].cancelled
      PROVE  receivers'[run'[j].pmu] = j
  <2>1. j # i /\ Underway(j) /\ ~ run[j].cancelled /\ run[j].pmu \in PMUs
    BY <1>2, <1>4 DEF Underway, Started
  <2>2. receivers[run[j].pmu] = j
    BY <2>1 DEF Current
  <2> QED
    BY <1>2, <2>1, <2>2
<1> QED
  BY <1>3, <1>4 DEF Current

(* The run a PMU is configured with was started. *)
Placed == \A p \in PMUs : Configured(p) => run[receivers[p]].state # "none"

LEMMA NextCurrent ==
  TypeOK /\ Started /\ Current /\ Placed /\ [Next]_vars => Current' /\ Placed'
<1> SUFFICES ASSUME TypeOK, Started, Current, Placed, [Next]_vars PROVE Current' /\ Placed'
  OBVIOUS
<1>0. RunTypes
  BY TypeParts
<1>1. CASE UNCHANGED <<receivers, run>>
  BY <1>1, CurrentUnchanged DEF Placed, Configured
<1>2. ASSUME NEW t \in Threads, Notify(t) PROVE UNCHANGED <<receivers, run>>
  BY <1>2 DEF Notify, Snapshot, ReadExpected, Apply
<1>3. ASSUME NEW i \in Runs, Receiver(i) PROVE Current' /\ Placed'
  <2>1. /\ receivers' = receivers
        /\ \E s \in States \ {"none"} : Goto(i, s)
        /\ Underway(i)
    BY <1>3 DEF Receiver, HandshakeDone, ConnectFails, Backoff, markLive, StreamBreaks, markNotLive,
                SessionOver, rosterEnv, At, States, Underway
  <2>2. PICK s \in States \ {"none"} : Goto(i, s)
    BY <2>1
  <2>3. Current'
    BY <1>0, <2>1, <2>2, CurrentGoes
  <2>4. \A j \in Runs : run'[j].state = IF j = i THEN s ELSE run[j].state
    BY <1>0, <2>2 DEF Goto, RunTypes, RunSet
  <2>5. Placed'
    BY <1>0, <2>1, <2>4 DEF Placed, Configured, RunTypes
  <2> QED
    BY <2>3, <2>5
<1>4. ASSUME NEW c \in Callers, NEW p \in PMUs, StartPMU(c, p) PROVE Current' /\ Placed'
  <2>1. CASE Configured(p)
    BY <1>1, <1>4, <2>1 DEF StartPMU
  <2>2. CASE ~ Configured(p)
    <3>1. PICK i \in Runs :
            /\ run[i].state = "none"
            /\ receivers' = [receivers EXCEPT ![p] = i]
            /\ run' = [run EXCEPT ![i] = [pmu |-> p, state |-> "dial", cancelled |-> FALSE]]
      BY <1>4, <2>2 DEF StartPMU
    <3>2. Current'
      BY <1>0, <2>2, <3>1, CurrentStarts DEF Placed
    <3>3. \A q \in PMUs : receivers'[q] = IF q = p THEN i ELSE receivers[q]
      BY <1>0, <3>1 DEF RunTypes
    <3>4. \A j \in Runs : run'[j].state = IF j = i THEN "dial" ELSE run[j].state
      BY <1>0, <3>1 DEF RunTypes, RunSet
    <3>5. Placed'
      BY <1>0, <3>3, <3>4 DEF Placed, Configured, RunTypes
    <3> QED
      BY <3>2, <3>5
  <2> QED
    BY <2>1, <2>2
<1>5. ASSUME NEW c \in Callers, NEW p \in PMUs, StopPMU(c, p) PROVE Current' /\ Placed'
  <2>1. CASE ~ Configured(p)
    BY <1>1, <1>5, <2>1 DEF StopPMU
  <2>2. CASE Configured(p)
    <3>1. /\ run' = [run EXCEPT ![receivers[p]].cancelled = TRUE]
          /\ receivers' = [receivers EXCEPT ![p] = 0]
      BY <1>5, <2>2 DEF StopPMU
    <3>2. Current'
      BY <1>0, <2>2, <3>1, CurrentStops
    <3>3. \A q \in PMUs : receivers'[q] = IF q = p THEN 0 ELSE receivers[q]
      BY <1>0, <3>1 DEF RunTypes
    <3>4. \A j \in Runs : run'[j].state = run[j].state
      BY <1>0, <2>2, <3>1 DEF RunTypes, RunSet, Configured
    <3>5. Placed'
      BY <1>0, <3>3, <3>4 DEF Placed, Configured, RunTypes
    <3> QED
      BY <3>2, <3>5
  <2> QED
    BY <2>1, <2>2
<1>6. ASSUME NEW c \in Callers, Caller(c) PROVE Current' /\ Placed'
  <2>1. CASE UNCHANGED <<receivers, run>>
    BY <1>1, <2>1
  <2>2. CASE \E p \in PMUs : StartPMU(c, p) \/ StopPMU(c, p)
    BY <1>4, <1>5, <2>2
  <2> QED
    BY <1>6, <2>1, <2>2 DEF Caller, WriteBook, IfIdle, WaitDone, managerEnv
<1>7. CASE StopAll
  <2>1. /\ receivers' = [p \in PMUs |-> 0]
        /\ run' = [i \in Runs |-> IF \E p \in PMUs : receivers[p] = i
                                  THEN [run[i] EXCEPT !.cancelled = TRUE] ELSE run[i]]
    BY <1>7 DEF StopAll
  <2>2. \A p \in PMUs : ~ Configured(p)'
    BY <2>1 DEF Configured
  <2>3. ASSUME NEW j \in Runs, Underway(j)', ~ run'[j].cancelled PROVE FALSE
    <3>1. CASE \E p \in PMUs : receivers[p] = j
      <4>1. run'[j] = [run[j] EXCEPT !.cancelled = TRUE]
        BY <2>1, <3>1
      <4> QED
        BY <1>0, <2>3, <4>1 DEF RunTypes, RunSet
    <3>2. CASE ~ \E p \in PMUs : receivers[p] = j
      <4>1. run'[j] = run[j]
        BY <2>1, <3>2
      <4>2. Underway(j) /\ ~ run[j].cancelled /\ run[j].pmu \in PMUs
        BY <2>3, <4>1 DEF Underway, Started
      <4> QED
        BY <3>2, <4>2 DEF Current
    <3> QED
      BY <3>1, <3>2
  <2> QED
    BY <2>2, <2>3 DEF Current, Placed
<1>8. CASE Interrupt \/ Exit \/ UNCHANGED vars \/ \E c \in Clients : Ask(c)
  BY <1>1, <1>8 DEF Interrupt, Exit, vars, Ask
<1> QED
  BY <1>1, <1>2, <1>3, <1>6, <1>7, <1>8 DEF Next

(* Of a PMU's receivers at most one has neither ended nor been told to: for *)
(* any requests at once, any of them while main still starts PMUs, waits   *)
(* that give up, an address book that fails, and during shutdown           *)
(* (manager.go, StartPMU, StopPMU and StopAll).                            *)
THEOREM AlwaysOneCurrentRun == Spec => []OneCurrentRun
<1>1. Init => Current /\ Placed
  <2> SUFFICES ASSUME Init PROVE Current /\ Placed
    OBVIOUS
  <2>1. \A p \in PMUs : ~ Configured(p)
    BY DEF Init, Configured
  <2>2. \A i \in Runs : ~ Underway(i)
    BY DEF Init, Underway
  <2> QED
    BY <2>1, <2>2 DEF Current, Placed
<1>2. Current => OneCurrentRun
  BY DEF Current, OneCurrentRun
<1> QED
  BY <1>1, <1>2, NextCurrent, AlwaysStarted, PTL DEF Spec

-----------------------------------------------------------------------------
(* What callers have to do, as long as they stay apart: nobody acts on a   *)
(* PMU that somebody else is still busy with.                              *)
Order ==
  {"deactivate", "activate", "save", "ifIdle", "start", "stop", "wait"} \X (PMUs \cup Runs)

WaitsFirst(s) == \A k \in DOMAIN s : k > 1 => s[k][1] # "wait"

(* After a start there is nothing left to do but to start others. *)
StartsLast(s) ==
  \A j, k \in DOMAIN s : s[j][1] = "start" /\ j < k => s[k][1] = "start"

(* A PMU is started that is active, or will be by then.                    *)
StartsBooked(s, b) ==
  \A k \in DOMAIN s, p \in PMUs : s[k] = <<"start", p>> =>
    b[p] = "active" \/ \E j \in DOMAIN s : j < k /\ s[j] \in {<<"save", p>>, <<"activate", p>>}

(* A PMU that leaves the address book is stopped next, or has been before, *)
(* and is not started again.                                               *)
DropsStopped(s, receiver) ==
  \A k \in DOMAIN s, p \in PMUs : s[k] = <<"deactivate", p>> =>
    /\ \/ k + 1 \in DOMAIN s /\ s[k + 1] = <<"stop", p>>
       \/ k > 1 /\ s[k - 1] = <<"stop", p>>
       \/ receiver[p] = 0
    /\ \A j \in DOMAIN s : s[j] # <<"start", p>>

Orderly(s, b, receiver) ==
  /\ s \in Seq(Order) /\ WaitsFirst(s) /\ StartsLast(s)
  /\ StartsBooked(s, b) /\ DropsStopped(s, receiver)

Heads(c, order) == todo[c] # <<>> /\ Head(todo[c]) = order

Orders ==
  /\ todo \in [Callers -> Seq(Order)]
  /\ \A c \in Callers : Orderly(todo[c], book, receivers)

(* A run that has not ended is the one its PMU is configured with, or the  *)
(* one that a StopPMU waits for.                                           *)
RunsOwned ==
  /\ \A p \in PMUs : Configured(p) =>
        run[receivers[p]].pmu = p /\ run[receivers[p]].state # "none"
  /\ \A i \in Runs : run[i].state \notin {"none", "done"} =>
        receivers[run[i].pmu] = i \/ \E c \in Callers : Heads(c, <<"wait", i>>)
  /\ \A c \in Callers, i \in Runs : Heads(c, <<"wait", i>>) =>
        run[i].state # "none" /\ receivers[run[i].pmu] = 0

LiveInv ==
  live = {p \in PMUs : Configured(p) /\ run[receivers[p]].state \in {"stream", "end"}}

(* A configured PMU that is not active is about to be stopped, unless the  *)
(* call that made it so reported an error.                                 *)
Disowned(p) == Configured(p) /\ book[p] \notin {"active", "unconfirmed"}

BookInv == \A p \in PMUs : Disowned(p) => \E c \in Callers : Heads(c, <<"stop", p>>)

OrdersInv == alive = "up" => Orders /\ RunsOwned /\ LiveInv /\ BookInv
-----------------------------------------------------------------------------
(* What is left of a request. *)

LEMMA TailOrders ==
  ASSUME NEW s \in Seq(Order), s # <<>>
  PROVE  /\ Len(s) \in Nat \ {0} /\ DOMAIN s = 1 .. Len(s) /\ Head(s) = s[1]
         /\ Tail(s) \in Seq(Order) /\ Len(Tail(s)) = Len(s) - 1
         /\ DOMAIN Tail(s) = 1 .. Len(s) - 1
         /\ \A k \in 1 .. Len(s) - 1 : Tail(s)[k] = s[k + 1]
BY HeadTailProperties, EmptySeq, LenProperties

LEMMA OrderlyEmpty ==
  ASSUME NEW b, NEW r
  PROVE  Orderly(<<>>, b, r)
BY EmptySeq DEF Orderly, WaitsFirst, StartsLast, StartsBooked, DropsStopped

(* The first order is carried out: the address book and the receivers      *)
(* become c and q.                                                         *)
Carried(s, b, r, c, q) ==
  \A p \in PMUs :
    /\ Head(s) \in {<<"save", p>>, <<"activate", p>>} => c[p] = "active"
    /\ b[p] = "active" => c[p] = "active" \/ \A k \in DOMAIN s : s[k] # <<"start", p>>
    /\ r[p] = 0 \/ Head(s) = <<"stop", p>> => q[p] = 0

LEMMA OrderlyTail ==
  ASSUME NEW s, NEW b, NEW r, Orderly(s, b, r), s # <<>>, NEW c, NEW q, Carried(s, b, r, c, q)
  PROVE  Orderly(Tail(s), c, q) /\ (Tail(s) # <<>> => Head(Tail(s))[1] # "wait")
<1> DEFINE t == Tail(s)
<1>0. s \in Seq(Order) /\ WaitsFirst(s) /\ StartsLast(s) /\ StartsBooked(s, b) /\ DropsStopped(s, r)
  BY DEF Orderly
<1>1. /\ Len(s) \in Nat \ {0} /\ DOMAIN s = 1 .. Len(s) /\ Head(s) = s[1]
      /\ t \in Seq(Order) /\ Len(t) = Len(s) - 1
      /\ DOMAIN t = 1 .. Len(s) - 1
      /\ \A k \in 1 .. Len(s) - 1 : t[k] = s[k + 1]
  BY <1>0, TailOrders
<1> HIDE DEF t
<1>2. WaitsFirst(t) /\ StartsLast(t)
  <2>1. ASSUME NEW k \in DOMAIN t
        PROVE  k \in Nat \ {0} /\ k + 1 \in DOMAIN s /\ k + 1 > 1 /\ t[k] = s[k + 1]
    BY <1>1
  <2>2. WaitsFirst(t)
    BY <1>0, <2>1 DEF WaitsFirst
  <2>3. ASSUME NEW j \in DOMAIN t, NEW k \in DOMAIN t, t[j][1] = "start", j < k
        PROVE  t[k][1] = "start"
    <3>1. j + 1 \in DOMAIN s /\ k + 1 \in DOMAIN s /\ j + 1 < k + 1 /\ s[j + 1][1] = "start"
      BY <2>1, <2>3
    <3>2. s[k + 1][1] = "start"
      BY <1>0, <3>1 DEF StartsLast
    <3> QED
      BY <2>1, <3>2
  <2> QED
    BY <2>2, <2>3 DEF StartsLast
<1> USE DEF Carried
<1>3. StartsBooked(t, c)
  <2> SUFFICES ASSUME NEW k \in DOMAIN t, NEW p \in PMUs, t[k] = <<"start", p>>, c[p] # "active"
               PROVE  \E j \in DOMAIN t : j < k /\ t[j] \in {<<"save", p>>, <<"activate", p>>}
    BY DEF StartsBooked
  <2>1. k + 1 \in DOMAIN s /\ s[k + 1] = <<"start", p>>
    BY <1>1
  <2>2. PICK j \in DOMAIN s : j < k + 1 /\ s[j] \in {<<"save", p>>, <<"activate", p>>}
    BY <1>0, <2>1 DEF StartsBooked
  <2>3. j # 1
    BY <1>1, <2>2
  <2>4. j - 1 \in DOMAIN t /\ j - 1 < k /\ t[j - 1] = s[j]
    BY <1>1, <2>2, <2>3
  <2> QED
    BY <2>2, <2>4
<1>4. DropsStopped(t, q)
  <2> SUFFICES ASSUME NEW k \in DOMAIN t, NEW p \in PMUs, t[k] = <<"deactivate", p>>
               PROVE  /\ \/ k + 1 \in DOMAIN t /\ t[k + 1] = <<"stop", p>>
                         \/ k > 1 /\ t[k - 1] = <<"stop", p>>
                         \/ q[p] = 0
                      /\ \A j \in DOMAIN t : t[j] # <<"start", p>>
    BY DEF DropsStopped
  <2>1. k \in Nat /\ k + 1 \in DOMAIN s /\ s[k + 1] = <<"deactivate", p>>
    BY <1>1
  <2>2. /\ \/ k + 1 + 1 \in DOMAIN s /\ s[k + 1 + 1] = <<"stop", p>>
           \/ k + 1 > 1 /\ s[k + 1 - 1] = <<"stop", p>>
           \/ r[p] = 0
        /\ \A j \in DOMAIN s : s[j] # <<"start", p>>
    BY <1>0, <2>1 DEF DropsStopped
  <2>3. ASSUME NEW j \in DOMAIN t PROVE t[j] # <<"start", p>>
    <3>1. j + 1 \in DOMAIN s /\ t[j] = s[j + 1]
      BY <1>1
    <3> QED
      BY <2>2, <3>1
  <2>4. CASE k + 1 + 1 \in DOMAIN s /\ s[k + 1 + 1] = <<"stop", p>>
    <3>1. k + 1 \in DOMAIN t /\ t[k + 1] = s[k + 1 + 1]
      BY <1>1, <2>1, <2>4
    <3> QED
      BY <2>3, <2>4, <3>1
  <2>5. CASE s[k + 1 - 1] = <<"stop", p>>
    <3>1. CASE k = 1
      BY <1>1, <2>3, <2>5, <3>1
    <3>2. CASE k > 1
      <4>1. t[k - 1] = s[k + 1 - 1]
        BY <1>1, <2>1, <3>2
      <4> QED
        BY <2>3, <2>5, <3>2, <4>1
    <3> QED
      BY <2>1, <1>1, <3>1, <3>2
  <2>6. CASE r[p] = 0
    BY <2>3, <2>6
  <2> QED
    BY <2>2, <2>4, <2>5, <2>6
<1>5. t # <<>> => Head(t)[1] # "wait"
  <2> SUFFICES ASSUME t # <<>> PROVE Head(t)[1] # "wait"
    OBVIOUS
  <2>1. Head(t) = t[1] /\ Len(t) \in Nat \ {0}
    BY <1>1, TailOrders
  <2>2. t[1] = s[2] /\ 2 \in DOMAIN s
    BY <1>1, <2>1
  <2> QED
    BY <1>0, <2>1, <2>2 DEF WaitsFirst
<1> QED
  BY <1>1, <1>2, <1>3, <1>4, <1>5 DEF Orderly, t

(* What follows a start is other starts, which need nothing of receivers.  *)
LEMMA StartTail ==
  ASSUME NEW s, NEW b, NEW r, Orderly(s, b, r), s # <<>>, NEW p \in PMUs, Head(s) = <<"start", p>>,
         NEW q
  PROVE  /\ Orderly(Tail(s), b, q) /\ b[p] = "active"
         /\ Tail(s) # <<>> => Head(Tail(s))[1] = "start"
<1> DEFINE t == Tail(s)
<1>0. s \in Seq(Order) /\ WaitsFirst(s) /\ StartsLast(s) /\ StartsBooked(s, b) /\ DropsStopped(s, r)
  BY DEF Orderly
<1>1. /\ Len(s) \in Nat \ {0} /\ DOMAIN s = 1 .. Len(s) /\ s[1] = <<"start", p>>
      /\ t \in Seq(Order) /\ Len(t) = Len(s) - 1
      /\ DOMAIN t = 1 .. Len(s) - 1
      /\ \A k \in 1 .. Len(s) - 1 : t[k] = s[k + 1]
  BY <1>0, TailOrders
<1> HIDE DEF t
<1>2. \A k \in DOMAIN s : s[k][1] = "start"
  <2> SUFFICES ASSUME NEW k \in DOMAIN s PROVE s[k][1] = "start"
    OBVIOUS
  <2>1. 1 \in DOMAIN s /\ s[1][1] = "start" /\ (k = 1 \/ 1 < k)
    BY <1>1
  <2> QED
    BY <1>0, <2>1 DEF StartsLast
<1>3. \A k \in DOMAIN s, o \in PMUs : s[k] = <<"start", o>> => b[o] = "active"
  <2> SUFFICES ASSUME NEW k \in DOMAIN s, NEW o \in PMUs, s[k] = <<"start", o>>
               PROVE  b[o] = "active"
    OBVIOUS
  <2>1. \A j \in DOMAIN s : s[j] \notin {<<"save", o>>, <<"activate", o>>}
    BY <1>2
  <2> QED
    BY <1>0, <2>1 DEF StartsBooked
<1>4. \A k \in DOMAIN t : k + 1 \in DOMAIN s /\ t[k] = s[k + 1] /\ t[k][1] = "start"
  <2> SUFFICES ASSUME NEW k \in DOMAIN t
               PROVE  k + 1 \in DOMAIN s /\ t[k] = s[k + 1] /\ t[k][1] = "start"
    OBVIOUS
  <2>1. k + 1 \in DOMAIN s /\ t[k] = s[k + 1]
    BY <1>1
  <2> QED
    BY <1>2, <2>1
<1>5. Orderly(t, b, q)
  <2>1. WaitsFirst(t) /\ StartsLast(t)
    BY <1>4 DEF WaitsFirst, StartsLast
  <2>2. StartsBooked(t, b)
    BY <1>3, <1>4 DEF StartsBooked
  <2>3. DropsStopped(t, q)
    BY <1>4 DEF DropsStopped
  <2> QED
    BY <1>1, <2>1, <2>2, <2>3 DEF Orderly
<1>6. b[p] = "active"
  BY <1>1, <1>3
<1>7. t # <<>> => Head(t)[1] = "start"
  <2> SUFFICES ASSUME t # <<>> PROVE Head(t)[1] = "start"
    OBVIOUS
  <2>1. Head(t) = t[1] /\ 1 \in DOMAIN t
    BY <1>1, TailOrders
  <2> QED
    BY <1>4, <2>1
<1> QED
  BY <1>5, <1>6, <1>7 DEF t

(* Orders stay in order when nothing changes about the PMUs they name. *)
LEMMA OrderlyKept ==
  ASSUME NEW s, NEW b, NEW r, Orderly(s, b, r), NEW c, NEW q,
         \A k \in DOMAIN s, p \in PMUs :
           s[k][1] # "wait" /\ s[k][2] = p => c[p] = b[p] /\ q[p] = r[p]
  PROVE  Orderly(s, c, q)
<1>0. s \in Seq(Order) /\ WaitsFirst(s) /\ StartsLast(s) /\ StartsBooked(s, b) /\ DropsStopped(s, r)
  BY DEF Orderly
<1>1. \A k \in DOMAIN s, p \in PMUs : s[k] = <<"start", p>> => c[p] = b[p]
  <2> SUFFICES ASSUME NEW k \in DOMAIN s, NEW p \in PMUs, s[k] = <<"start", p>>
               PROVE  c[p] = b[p]
    OBVIOUS
  <2>1. s[k][1] # "wait" /\ s[k][2] = p
    OBVIOUS
  <2> QED
    BY <2>1
<1>2. \A k \in DOMAIN s, p \in PMUs : s[k] = <<"deactivate", p>> => q[p] = r[p]
  <2> SUFFICES ASSUME NEW k \in DOMAIN s, NEW p \in PMUs, s[k] = <<"deactivate", p>>
               PROVE  q[p] = r[p]
    OBVIOUS
  <2>1. s[k][1] # "wait" /\ s[k][2] = p
    OBVIOUS
  <2> QED
    BY <2>1
<1>3. StartsBooked(s, c)
  BY <1>0, <1>1 DEF StartsBooked
<1>4. DropsStopped(s, q)
  BY <1>0, <1>2 DEF DropsStopped
<1> QED
  BY <1>0, <1>3, <1>4 DEF Orderly

(* After the first order, a stop, has become a wait. *)
LEMMA OrderlyWait ==
  ASSUME NEW s, NEW b, NEW r \in [PMUs -> Runs \cup {0}], Orderly(s, b, r), s # <<>>,
         NEW p \in PMUs, Head(s) = <<"stop", p>>, NEW i \in Runs
  PROVE  /\ Orderly(<< <<"wait", i>> >> \o Tail(s), b, [r EXCEPT ![p] = 0])
         /\ << <<"wait", i>> >> \o Tail(s) # <<>>
         /\ Head(<< <<"wait", i>> >> \o Tail(s)) = <<"wait", i>>
<1> DEFINE w == << <<"wait", i>> >>
           t == w \o Tail(s)
           q == [r EXCEPT ![p] = 0]
<1>0. s \in Seq(Order) /\ WaitsFirst(s) /\ StartsLast(s) /\ StartsBooked(s, b) /\ DropsStopped(s, r)
  BY DEF Orderly
<1>1. /\ Len(s) \in Nat \ {0} /\ DOMAIN s = 1 .. Len(s) /\ s[1] = <<"stop", p>>
      /\ Tail(s) \in Seq(Order) /\ Len(Tail(s)) = Len(s) - 1
      /\ \A k \in 1 .. Len(s) - 1 : Tail(s)[k] = s[k + 1]
  BY <1>0, TailOrders
<1>2. w \in Seq(Order) /\ Len(w) = 1 /\ w[1] = <<"wait", i>>
  BY DEF Order
<1> HIDE DEF w
<1>3. /\ t \in Seq(Order) /\ Len(t) = Len(s) /\ DOMAIN t = 1 .. Len(s)
      /\ t[1] = <<"wait", i>>
  <2>1. t \in Seq(Order) /\ Len(t) = Len(w) + Len(Tail(s))
    BY <1>1, <1>2, ConcatProperties, ZenonT(30)
  <2>2. Len(t) = Len(s)
    BY <1>1, <1>2, <2>1
  <2>3. DOMAIN t = 1 .. Len(s)
    BY <2>1, <2>2, LenProperties
  <2>4. t[1] = w[1]
    <3>1. 1 \in 1 .. Len(w) + Len(Tail(s)) /\ 1 <= Len(w)
      BY <1>1, <1>2
    <3> QED
      BY <1>1, <1>2, <3>1, ConcatProperties
  <2> QED
    BY <1>2, <2>1, <2>2, <2>3, <2>4
<1>4. ASSUME NEW k \in 2 .. Len(s) PROVE t[k] = s[k]
  <2>1. k \in 1 .. Len(w) + Len(Tail(s)) /\ ~ (k <= Len(w)) /\ k - Len(w) = k - 1
    BY <1>1, <1>2
  <2>2. t[k] = Tail(s)[k - 1]
    <3>1. t[k] = IF k <= Len(w) THEN w[k] ELSE Tail(s)[k - Len(w)]
      BY <1>1, <1>2, <2>1, ConcatProperties, ZenonT(30)
    <3> QED
      BY <2>1, <3>1
  <2>3. k - 1 \in 1 .. Len(s) - 1 /\ (k - 1) + 1 = k
    BY <1>1
  <2> QED
    BY <1>1, <2>2, <2>3
<1>5. \A o \in PMUs : q[o] = IF o = p THEN 0 ELSE r[o]
  OBVIOUS
<1> HIDE DEF t, q
<1>6. t # <<>> /\ Head(t) = <<"wait", i>>
  BY <1>1, <1>3, EmptySeq, TailOrders
<1>7. WaitsFirst(t) /\ StartsLast(t)
  <2>1. WaitsFirst(t)
    BY <1>0, <1>1, <1>3, <1>4 DEF WaitsFirst
  <2>2. ASSUME NEW j \in DOMAIN t, NEW k \in DOMAIN t, t[j][1] = "start", j < k
        PROVE  t[k][1] = "start"
    <3>1. j # 1 /\ j \in 2 .. Len(s) /\ k \in 2 .. Len(s)
      BY <1>1, <1>3, <2>2
    <3>2. t[j] = s[j] /\ t[k] = s[k] /\ j \in DOMAIN s /\ k \in DOMAIN s
      BY <1>1, <1>4, <3>1
    <3> QED
      BY <1>0, <2>2, <3>2 DEF StartsLast
  <2> QED
    BY <2>1, <2>2 DEF StartsLast
<1>8. StartsBooked(t, b)
  <2> SUFFICES ASSUME NEW k \in DOMAIN t, NEW o \in PMUs, t[k] = <<"start", o>>, b[o] # "active"
               PROVE  \E j \in DOMAIN t : j < k /\ t[j] \in {<<"save", o>>, <<"activate", o>>}
    BY DEF StartsBooked
  <2>1. k # 1
    BY <1>3
  <2>2. k \in DOMAIN s /\ s[k] = <<"start", o>>
    BY <1>1, <1>3, <1>4, <2>1
  <2>3. PICK j \in DOMAIN s : j < k /\ s[j] \in {<<"save", o>>, <<"activate", o>>}
    BY <1>0, <2>2 DEF StartsBooked
  <2>4. j # 1
    BY <1>1, <2>3
  <2>5. j \in DOMAIN t /\ t[j] = s[j]
    BY <1>1, <1>3, <1>4, <2>3, <2>4
  <2> QED
    BY <2>3, <2>5
<1>9. DropsStopped(t, q)
  <2> SUFFICES ASSUME NEW k \in DOMAIN t, NEW o \in PMUs, t[k] = <<"deactivate", o>>
               PROVE  /\ \/ k + 1 \in DOMAIN t /\ t[k + 1] = <<"stop", o>>
                         \/ k > 1 /\ t[k - 1] = <<"stop", o>>
                         \/ q[o] = 0
                      /\ \A j \in DOMAIN t : t[j] # <<"start", o>>
    BY DEF DropsStopped
  <2>1. k # 1 /\ k \in 2 .. Len(s) /\ k \in DOMAIN s /\ s[k] = <<"deactivate", o>>
    BY <1>1, <1>3, <1>4
  <2>2. /\ \/ k + 1 \in DOMAIN s /\ s[k + 1] = <<"stop", o>>
           \/ k > 1 /\ s[k - 1] = <<"stop", o>>
           \/ r[o] = 0
        /\ \A j \in DOMAIN s : s[j] # <<"start", o>>
    BY <1>0, <2>1 DEF DropsStopped
  <2>3. \A j \in DOMAIN t : t[j] # <<"start", o>>
    BY <1>1, <1>3, <1>4, <2>2
  <2>4. CASE k + 1 \in DOMAIN s /\ s[k + 1] = <<"stop", o>>
    BY <1>1, <1>3, <1>4, <2>1, <2>3, <2>4
  <2>5. CASE s[k - 1] = <<"stop", o>>
    <3>1. CASE k = 2
      BY <1>1, <1>5, <2>3, <2>5, <3>1
    <3>2. CASE k > 2
      BY <1>1, <1>3, <1>4, <2>1, <2>3, <2>5, <3>2
    <3> QED
      BY <1>1, <2>1, <3>1, <3>2
  <2>6. CASE r[o] = 0
    BY <1>5, <2>3, <2>6
  <2> QED
    BY <2>2, <2>4, <2>5, <2>6
<1> QED
  BY <1>3, <1>6, <1>7, <1>8, <1>9 DEF Orderly, t, q, w

-----------------------------------------------------------------------------
(* What a request, and main at the start, have to do. *)

LEMMA RequestOrders ==
  ASSUME NEW p \in PMUs
  PROVE  /\ \A op \in {"deactivate", "activate", "save", "ifIdle", "start", "stop"} :
              <<op, p>> \in Order
BY DEF Order

LEMMA TwoOrders ==
  ASSUME NEW S, NEW a \in S, NEW b \in S
  PROVE  /\ <<a, b>> \in Seq(S) /\ Len(<<a, b>>) = 2 /\ DOMAIN <<a, b>> = {1, 2}
         /\ Head(<<a, b>>) = a /\ <<a, b>>[1] = a /\ <<a, b>>[2] = b
OBVIOUS

LEMMA ThreeOrders ==
  ASSUME NEW S, NEW a \in S, NEW b \in S, NEW c \in S
  PROVE  /\ <<a, b, c>> \in Seq(S) /\ Len(<<a, b, c>>) = 3 /\ DOMAIN <<a, b, c>> = {1, 2, 3}
         /\ Head(<<a, b, c>>) = a
         /\ <<a, b, c>>[1] = a /\ <<a, b, c>>[2] = b /\ <<a, b, c>>[3] = c
OBVIOUS

LEMMA FiveOrders ==
  ASSUME NEW S, NEW a \in S, NEW b \in S, NEW c \in S, NEW d \in S, NEW e \in S
  PROVE  LET s == <<a, b>> \o <<c, d, e>> IN
         /\ s \in Seq(S) /\ Len(s) = 5 /\ DOMAIN s = {1, 2, 3, 4, 5} /\ Head(s) = s[1]
         /\ s[1] = a /\ s[2] = b /\ s[3] = c /\ s[4] = d /\ s[5] = e
<1> DEFINE u == <<a, b>>
           v == <<c, d, e>>
           s == u \o v
<1>1. /\ u \in Seq(S) /\ Len(u) = 2 /\ u[1] = a /\ u[2] = b
      /\ v \in Seq(S) /\ Len(v) = 3 /\ v[1] = c /\ v[2] = d /\ v[3] = e
  BY TwoOrders, ThreeOrders
<1> HIDE DEF u, v
<1>2. /\ s \in Seq(S) /\ Len(s) = Len(u) + Len(v)
      /\ \A i \in 1 .. Len(u) + Len(v) : s[i] = IF i <= Len(u) THEN u[i] ELSE v[i - Len(u)]
  BY <1>1, ConcatProperties
<1>3. Len(s) = 5
  BY <1>1, <1>2
<1> HIDE DEF s
<1>4. s # <<>> /\ DOMAIN s = 1 .. 5 /\ Head(s) = s[1]
  <2>1. s # <<>> /\ DOMAIN s = 1 .. 5
    <3>1. DOMAIN s = 1 .. Len(s)
      BY <1>2, LenProperties
    <3>2. s # <<>>
      BY <1>2, <1>3, EmptySeq
    <3> QED
      BY <1>3, <3>1, <3>2
  <2> QED
    BY <1>2, <2>1, HeadTailProperties
<1>5. s[1] = a /\ s[2] = b /\ s[3] = c /\ s[4] = d /\ s[5] = e
  BY <1>1, <1>2
<1>6. DOMAIN s = {1, 2, 3, 4, 5}
  BY <1>4
<1> QED
  BY <1>2, <1>3, <1>4, <1>5, <1>6 DEF s, u, v

LEMMA DisconnectOrderly ==
  ASSUME NEW p \in PMUs, NEW b, NEW r
  PROVE  Orderly(Disconnect(p), b, r) /\ Disconnect(p) # <<>> /\ Head(Disconnect(p))[1] # "wait"
<1> DEFINE s == Disconnect(p)
<1>1. /\ s \in Seq(Order) /\ Len(s) = 2 /\ DOMAIN s = {1, 2} /\ Head(s) = s[1]
      /\ s[1] = <<"deactivate", p>> /\ s[2] = <<"stop", p>>
  <2>1. <<"deactivate", p>> \in Order /\ <<"stop", p>> \in Order
    BY RequestOrders
  <2> QED
    BY <2>1, TwoOrders DEF Disconnect
<1> HIDE DEF s
<1>2. WaitsFirst(s) /\ StartsLast(s) /\ StartsBooked(s, b) /\ s # <<>> /\ Head(s)[1] # "wait"
  BY <1>1 DEF WaitsFirst, StartsLast, StartsBooked
<1>3. DropsStopped(s, r)
  BY <1>1 DEF DropsStopped
<1> QED
  BY <1>1, <1>2, <1>3 DEF Orderly, s

LEMMA ConnectOrderly ==
  ASSUME NEW p \in PMUs, NEW b, NEW r
  PROVE  Orderly(Connect(p), b, r) /\ Connect(p) # <<>> /\ Head(Connect(p))[1] # "wait"
<1> DEFINE s == Connect(p)
<1>1. /\ s \in Seq(Order) /\ Len(s) = 3 /\ DOMAIN s = {1, 2, 3} /\ Head(s) = s[1]
      /\ s[1] = <<"activate", p>> /\ s[2] = <<"ifIdle", p>> /\ s[3] = <<"start", p>>
  <2>1. <<"activate", p>> \in Order /\ <<"ifIdle", p>> \in Order /\ <<"start", p>> \in Order
    BY RequestOrders
  <2> QED
    BY <2>1, ThreeOrders DEF Connect
<1> HIDE DEF s
<1>2. WaitsFirst(s) /\ StartsLast(s) /\ s # <<>> /\ Head(s)[1] # "wait"
  BY <1>1 DEF WaitsFirst, StartsLast
<1>3. StartsBooked(s, b)
  <2> SUFFICES ASSUME NEW k \in {1, 2, 3}, NEW o \in PMUs, s[k] = <<"start", o>>
               PROVE  \E j \in {1, 2, 3} : j < k /\ s[j] \in {<<"save", o>>, <<"activate", o>>}
    BY <1>1 DEF StartsBooked
  <2>1. k = 3 /\ o = p
    BY <1>1
  <2>2. 1 < k /\ s[1] \in {<<"save", o>>, <<"activate", o>>}
    BY <1>1, <2>1
  <2> QED
    BY <2>2
<1>4. DropsStopped(s, r)
  BY <1>1 DEF DropsStopped
<1> QED
  BY <1>1, <1>2, <1>3, <1>4 DEF Orderly, s

LEMMA SaveOrderly ==
  ASSUME NEW p \in PMUs, NEW b, NEW r
  PROVE  Orderly(Save(p), b, r) /\ Save(p) # <<>> /\ Head(Save(p))[1] # "wait"
<1> DEFINE s == Save(p)
<1>1. /\ s \in Seq(Order) /\ Len(s) = 3 /\ DOMAIN s = {1, 2, 3} /\ Head(s) = s[1]
      /\ s[1] = <<"save", p>> /\ s[2] = <<"stop", p>> /\ s[3] = <<"start", p>>
  <2>1. <<"save", p>> \in Order /\ <<"stop", p>> \in Order /\ <<"start", p>> \in Order
    BY RequestOrders
  <2> QED
    BY <2>1, ThreeOrders DEF Save
<1> HIDE DEF s
<1>2. WaitsFirst(s) /\ StartsLast(s) /\ s # <<>> /\ Head(s)[1] # "wait"
  BY <1>1 DEF WaitsFirst, StartsLast
<1>3. StartsBooked(s, b)
  <2> SUFFICES ASSUME NEW k \in {1, 2, 3}, NEW o \in PMUs, s[k] = <<"start", o>>
               PROVE  \E j \in {1, 2, 3} : j < k /\ s[j] \in {<<"save", o>>, <<"activate", o>>}
    BY <1>1 DEF StartsBooked
  <2>1. k = 3 /\ o = p
    BY <1>1
  <2>2. 1 < k /\ s[1] \in {<<"save", o>>, <<"activate", o>>}
    BY <1>1, <2>1
  <2> QED
    BY <2>2
<1>4. DropsStopped(s, r)
  BY <1>1 DEF DropsStopped
<1> QED
  BY <1>1, <1>2, <1>3, <1>4 DEF Orderly, s

LEMMA ReplaceOrderly ==
  ASSUME NEW p \in PMUs, NEW old \in PMUs \ {p}, NEW b, NEW r
  PROVE  /\ Orderly(Replace(old, p), b, r) /\ Replace(old, p) # <<>>
         /\ Head(Replace(old, p))[1] # "wait"
<1> DEFINE s == Replace(old, p)
<1>1. s = << <<"stop", old>>, <<"deactivate", old>> >>
            \o << <<"save", p>>, <<"stop", p>>, <<"start", p>> >>
  BY DEF Replace, Save
<1>2. /\ s \in Seq(Order) /\ Len(s) = 5 /\ DOMAIN s = {1, 2, 3, 4, 5} /\ Head(s) = s[1]
      /\ s[1] = <<"stop", old>> /\ s[2] = <<"deactivate", old>> /\ s[3] = <<"save", p>>
      /\ s[4] = <<"stop", p>> /\ s[5] = <<"start", p>>
  <2>1. /\ <<"stop", old>> \in Order /\ <<"deactivate", old>> \in Order
        /\ <<"save", p>> \in Order /\ <<"stop", p>> \in Order /\ <<"start", p>> \in Order
    BY RequestOrders
  <2> QED
    BY <1>1, <2>1, FiveOrders
<1> HIDE DEF s
<1>3. WaitsFirst(s) /\ StartsLast(s) /\ s # <<>> /\ Head(s)[1] # "wait"
  BY <1>2 DEF WaitsFirst, StartsLast
<1>4. StartsBooked(s, b)
  <2> SUFFICES ASSUME NEW k \in {1, 2, 3, 4, 5}, NEW o \in PMUs, s[k] = <<"start", o>>
               PROVE  \E j \in {1, 2, 3, 4, 5} :
                        j < k /\ s[j] \in {<<"save", o>>, <<"activate", o>>}
    BY <1>2 DEF StartsBooked
  <2>1. k = 5 /\ o = p
    BY <1>2
  <2>2. 3 < k /\ s[3] \in {<<"save", o>>, <<"activate", o>>}
    BY <1>2, <2>1
  <2> QED
    BY <2>2
<1>5. DropsStopped(s, r)
  BY <1>2 DEF DropsStopped
<1> QED
  BY <1>2, <1>3, <1>4, <1>5 DEF Orderly, s

LEMMA RequestOrderly ==
  ASSUME NEW s \in Requests, NEW b, NEW r
  PROVE  Orderly(s, b, r) /\ s # <<>> /\ Head(s)[1] # "wait"
<1>1. PICK p \in PMUs : \/ s \in {Disconnect(p), Delete(p), Connect(p), Save(p)}
                        \/ \E old \in PMUs \ {p} : s = Replace(old, p)
  BY DEF Requests
<1>2. Delete(p) = Disconnect(p)
  BY DEF Delete, Disconnect
<1> QED
  BY <1>1, <1>2, DisconnectOrderly, ConnectOrderly, SaveOrderly, ReplaceOrderly

LEMMA BootList ==
  /\ Boot(book) \in Seq(Order)
  /\ \A k \in DOMAIN Boot(book) :
       \E p \in PMUs : Boot(book)[k] = <<"start", p>> /\ book[p] = "active"
<1> DEFINE P == {q \in PMUs : book[q] = "active"}
           S == {<<"start", p>> : p \in P}
           f == [p \in P |-> <<"start", p>>]
<1>1. IsFiniteSet(S)
  <2>1. IsFiniteSet(P)
    BY RosterAssumption, FS_Subset
  <2>2. f \in Surjection(P, S)
    BY DEF Surjection
  <2> QED
    BY <2>1, <2>2, FS_Surjection DEF ExistsSurjection
<1>2. S \subseteq Order
  BY DEF Order
<1>3. \E g \in [1 .. Cardinality(S) -> S] : IsInjective(g)
  <2>1. ExistsBijection(1 .. Cardinality(S), S)
    BY <1>1, FS_CardinalityType
  <2> QED
    BY <2>1 DEF ExistsBijection, Bijection, Injection
<1>4. Boot(book) \in [1 .. Cardinality(S) -> S]
  BY <1>3 DEF Boot, SetToSeq
<1>5. Cardinality(S) \in Nat
  BY <1>1, FS_CardinalityType
<1>6. Boot(book) \in Seq(Order)
  <2>1. Boot(book) \in [1 .. Cardinality(S) -> Order]
    BY <1>2, <1>4
  <2> QED
    BY <1>5, <2>1, SeqDef
<1>7. \A k \in DOMAIN Boot(book) :
        \E p \in PMUs : Boot(book)[k] = <<"start", p>> /\ book[p] = "active"
  BY <1>4
<1> QED
  BY <1>6, <1>7

LEMMA BootStarts ==
  ASSUME NEW k \in DOMAIN Boot(book)
  PROVE  Boot(book)[k][1] = "start"
BY BootList

LEMMA BootOrders ==
  ASSUME NEW r
  PROVE  Orderly(Boot(book), book, r)
<1> DEFINE s == Boot(book)
<1>8. s \in Seq(Order) /\ \A k \in DOMAIN s : \E p \in PMUs : s[k] = <<"start", p>> /\ book[p] = "active"
  BY BootList
<1> HIDE DEF s
<1>9. \A k \in DOMAIN s : s[k][1] = "start"
  BY <1>8
<1>10. \A k \in DOMAIN s, p \in PMUs : s[k] = <<"start", p>> => book[p] = "active"
  BY <1>8
<1>11. WaitsFirst(s) /\ StartsLast(s)
  BY <1>9 DEF WaitsFirst, StartsLast
<1>12. StartsBooked(s, book)
  BY <1>10 DEF StartsBooked
<1>13. DropsStopped(s, r)
  BY <1>9 DEF DropsStopped
<1> QED
  BY <1>8, <1>11, <1>12, <1>13 DEF Orderly, s

-----------------------------------------------------------------------------
(* Steps that change nobody's orders. *)

LEMMA OrdersUnchanged ==
  ASSUME Orders, RunsOwned, LiveInv, BookInv, UNCHANGED <<book, receivers, live, run, todo>>
  PROVE  Orders' /\ RunsOwned' /\ LiveInv' /\ BookInv'
<1>1. Orders'
  BY DEF Orders
<1>2. RunsOwned'
  BY DEF RunsOwned, Configured, Heads
<1>3. LiveInv'
  BY DEF LiveInv, Configured
<1>4. BookInv'
  BY DEF BookInv, Disowned, Configured, Heads
<1> QED
  BY <1>1, <1>2, <1>3, <1>4

(* A run that has not ended is the one its PMU is configured with, if any. *)
LEMMA OwnRun ==
  ASSUME RunTypes, RunsOwned, NEW i \in Runs, run[i].state \notin {"none", "done"}, NEW p \in PMUs,
         Configured(p)
  PROVE  receivers[p] = i <=> p = run[i].pmu
BY DEF RunsOwned, RunTypes, Configured

(* The session of a run goes on, and the live set with it. *)
LEMMA RunLives ==
  ASSUME RunTypes, Started, RunsOwned, LiveInv, NEW i \in Runs,
         run[i].state \notin {"none", "done"}, NEW s \in States, Goto(i, s),
         receivers' = receivers,
         live' = IF Configured(run[i].pmu) /\ s \in {"stream", "end"}
                 THEN live \cup {run[i].pmu} ELSE live \ {run[i].pmu}
  PROVE  LiveInv'
<1> SUFFICES ASSUME NEW p \in PMUs
             PROVE  p \in live' <=> /\ Configured(p)
                                   /\ run'[receivers[p]].state \in {"stream", "end"}
  <2>1. live' \subseteq PMUs
    BY DEF LiveInv, Started
  <2> QED
    BY <2>1 DEF LiveInv, Configured
<1>1. p \in live <=> Configured(p) /\ run[receivers[p]].state \in {"stream", "end"}
  BY DEF LiveInv
<1>2. Configured(p) => receivers[p] \in Runs /\ (receivers[p] = i <=> p = run[i].pmu)
  BY OwnRun DEF RunTypes, Configured
<1>3. \A j \in Runs : run'[j].state = IF j = i THEN s ELSE run[j].state
  BY DEF Goto, RunTypes, RunSet
<1>4. CASE p = run[i].pmu
  BY <1>1, <1>2, <1>3, <1>4
<1>5. CASE p # run[i].pmu
  BY <1>1, <1>2, <1>3, <1>5
<1> QED
  BY <1>4, <1>5

LEMMA ReceiverOrders ==
  ASSUME RunTypes, Started, Orders, RunsOwned, LiveInv, BookInv, NEW i \in Runs, Receiver(i)
  PROVE  Orders' /\ RunsOwned' /\ LiveInv' /\ BookInv'
<1>1. /\ UNCHANGED <<book, receivers, todo>>
      /\ run[i].state \notin {"none", "done"}
  BY DEF Receiver, HandshakeDone, ConnectFails, Backoff, markLive, StreamBreaks, markNotLive,
         SessionOver, rosterEnv, At
<1>2. PICK s \in States \ {"none"} : Goto(i, s)
  BY DEF Receiver, HandshakeDone, ConnectFails, Backoff, markLive, StreamBreaks, markNotLive,
         SessionOver, States
<1>3. \A j \in Runs : run'[j].pmu = run[j].pmu
                     /\ run'[j].state = IF j = i THEN s ELSE run[j].state
  BY <1>2 DEF Goto, RunTypes, RunSet
<1>4. Orders' /\ BookInv'
  BY <1>1 DEF Orders, BookInv, Disowned, Configured, Heads
<1>5. RunsOwned'
  <2>1. \A p \in PMUs : Configured(p)' =>
          run'[receivers'[p]].pmu = p /\ run'[receivers'[p]].state # "none"
    BY <1>1, <1>2, <1>3 DEF RunsOwned, Configured, RunTypes
  <2>2. \A c \in Callers, j \in Runs : Heads(c, <<"wait", j>>)' <=> Heads(c, <<"wait", j>>)
    BY <1>1 DEF Heads
  <2>3. \A j \in Runs : run'[j].state \notin {"none", "done"} =>
          receivers'[run'[j].pmu] = j \/ \E c \in Callers : Heads(c, <<"wait", j>>)'
    BY <1>1, <1>3, <2>2 DEF RunsOwned
  <2>4. \A c \in Callers, j \in Runs : Heads(c, <<"wait", j>>)' =>
          run'[j].state # "none" /\ receivers'[run'[j].pmu] = 0
    BY <1>1, <1>2, <1>3, <2>2 DEF RunsOwned
  <2> QED
    BY <2>1, <2>3, <2>4 DEF RunsOwned
<1>6. live' = IF Configured(run[i].pmu) /\ s \in {"stream", "end"}
              THEN live \cup {run[i].pmu} ELSE live \ {run[i].pmu}
  <2> DEFINE p == run[i].pmu
  <2>1. p \in live <=> Configured(p) /\ run[i].state \in {"stream", "end"}
    <3>1. p \in PMUs
      BY <1>1 DEF Started
    <3> QED
      BY <1>1, <3>1, OwnRun DEF LiveInv
  <2>2. run'[i].state = s
    BY <1>3
  <2> HIDE DEF p
  <2>3. CASE HandshakeDone(i) \/ ConnectFails(i) \/ Backoff(i) \/ SessionOver(i)
    <3>1. live' = live /\ run[i].state \notin {"stream", "end"} /\ s \notin {"stream", "end"}
      BY <1>3, <2>3 DEF HandshakeDone, ConnectFails, Backoff, SessionOver, At, Goto, RunTypes, RunSet
    <3> QED
      BY <2>1, <3>1 DEF p
  <2>4. CASE markLive(i)
    <3>1. s = "stream" /\ run[i].state = "handshaken"
      BY <1>3, <2>4 DEF markLive, At, Goto, RunTypes, RunSet
    <3>2. live' = IF Configured(p) /\ p \notin live THEN live \cup {p} ELSE live
      BY <2>4 DEF markLive, p
    <3> QED
      BY <2>1, <3>1, <3>2 DEF p
  <2>5. CASE StreamBreaks(i)
    <3>1. s = "end" /\ run[i].state = "stream" /\ live' = live
      BY <1>3, <2>5 DEF StreamBreaks, At, Goto, RunTypes, RunSet
    <3> QED
      BY <2>1, <3>1 DEF p
  <2>6. CASE markNotLive(i)
    <3>1. s = "ended"
      BY <1>3, <2>6 DEF markNotLive, At, Goto, RunTypes, RunSet
    <3>2. live' = IF p \in live THEN live \ {p} ELSE live
      BY <2>6 DEF markNotLive, p
    <3> QED
      BY <3>1, <3>2 DEF p
  <2> QED
    BY <2>3, <2>4, <2>5, <2>6 DEF Receiver
<1>7. LiveInv'
  BY <1>1, <1>2, <1>6, RunLives
<1> QED
  BY <1>4, <1>5, <1>7

-----------------------------------------------------------------------------
(* The steps of the callers. *)

OthersKeep(c) == \A d \in Callers : d # c => todo'[d] = todo[d]

(* Caller c carries out an order and is left with orders s. *)
LEMMA StepOrders ==
  ASSUME Apart, Orders, NEW c \in Callers, NEW s, todo' = [todo EXCEPT ![c] = s],
         Orderly(s, book', receivers'),
         \A q \in PMUs : Concerns(c, q) \/ (book'[q] = book[q] /\ receivers'[q] = receivers[q])
  PROVE  Orders' /\ todo'[c] = s /\ OthersKeep(c)
<1>1. todo \in [Callers -> Seq(Order)] /\ s \in Seq(Order)
  BY DEF Orders, Orderly
<1>2. todo'[c] = s /\ OthersKeep(c) /\ todo' \in [Callers -> Seq(Order)]
  BY <1>1 DEF OthersKeep
<1>3. ASSUME NEW d \in Callers, d # c PROVE Orderly(todo[d], book', receivers')
  <2>1. Orderly(todo[d], book, receivers)
    BY DEF Orders
  <2>2. ASSUME NEW k \in DOMAIN todo[d], NEW q \in PMUs,
               todo[d][k][1] # "wait" /\ todo[d][k][2] = q
        PROVE  book'[q] = book[q] /\ receivers'[q] = receivers[q]
    <3>1. Concerns(d, q)
      BY <2>2 DEF Concerns
    <3>2. ~ Concerns(c, q)
      BY <1>3, <3>1 DEF Apart
    <3> QED
      BY <3>2
  <2> QED
    BY <2>1, <2>2, OrderlyKept
<1>4. \A d \in Callers : Orderly(todo'[d], book', receivers')
  BY <1>2, <1>3 DEF OthersKeep
<1> QED
  BY <1>2, <1>4 DEF Orders

LEMMA OthersHead ==
  ASSUME NEW c \in Callers, OthersKeep(c), NEW d \in Callers, d # c, NEW o
  PROVE  Heads(d, o)' <=> Heads(d, o)
BY DEF OthersKeep, Heads

(* A step that starts and stops nothing, by a caller that waits for nobody, *)
(* or whose wait is over.                                                  *)
LEMMA OwnedStays ==
  ASSUME RunsOwned, LiveInv, NEW c \in Callers, OthersKeep(c), UNCHANGED <<receivers, run, live>>,
         \A i \in Runs : Heads(c, <<"wait", i>>) => run[i].state = "done",
         \A i \in Runs : ~ Heads(c, <<"wait", i>>)'
  PROVE  RunsOwned' /\ LiveInv'
<1>1. \A i \in Runs : run[i].state \notin {"none", "done"} =>
        receivers[run[i].pmu] = i \/ \E d \in Callers : Heads(d, <<"wait", i>>)'
  <2> SUFFICES ASSUME NEW i \in Runs, run[i].state \notin {"none", "done"},
                      receivers[run[i].pmu] # i
               PROVE  \E d \in Callers : Heads(d, <<"wait", i>>)'
    OBVIOUS
  <2>1. PICK d \in Callers : Heads(d, <<"wait", i>>)
    BY DEF RunsOwned
  <2>2. d # c
    BY <2>1
  <2> QED
    BY <2>1, <2>2, OthersHead
<1>2. \A d \in Callers, i \in Runs : Heads(d, <<"wait", i>>)' =>
        run[i].state # "none" /\ receivers[run[i].pmu] = 0
  <2> SUFFICES ASSUME NEW d \in Callers, NEW i \in Runs, Heads(d, <<"wait", i>>)'
               PROVE  run[i].state # "none" /\ receivers[run[i].pmu] = 0
    OBVIOUS
  <2>1. d # c
    OBVIOUS
  <2>2. Heads(d, <<"wait", i>>)
    BY <2>1, OthersHead
  <2> QED
    BY <2>2 DEF RunsOwned
<1>3. RunsOwned'
  BY <1>1, <1>2 DEF RunsOwned, Configured
<1> QED
  BY <1>3 DEF LiveInv, Configured

(* A PMU that is disowned was so before, and c was not about to stop it, or *)
(* c is about to stop it.                                                  *)
LEMMA BookStays ==
  ASSUME BookInv, NEW c \in Callers, OthersKeep(c),
         \A q \in PMUs : Disowned(q)' =>
           Heads(c, <<"stop", q>>)' \/ (Disowned(q) /\ ~ Heads(c, <<"stop", q>>))
  PROVE  BookInv'
<1> SUFFICES ASSUME NEW q \in PMUs, Disowned(q)', ~ Heads(c, <<"stop", q>>)'
             PROVE  \E d \in Callers : Heads(d, <<"stop", q>>)'
  BY DEF BookInv
<1>1. PICK d \in Callers : Heads(d, <<"stop", q>>)
  BY DEF BookInv
<1>2. d # c
  BY <1>1
<1> QED
  BY <1>1, <1>2, OthersHead

(* Who carries out an order about a PMU is busy with it. *)
LEMMA DoingConcerns ==
  ASSUME Orders, NEW c \in Callers, NEW op, op # "wait", NEW p, Doing(c, op, p)
  PROVE  /\ Concerns(c, p) /\ todo[c] # <<>> /\ Head(todo[c]) = <<op, p>>
         /\ Orderly(todo[c], book, receivers) /\ todo[c] \in Seq(Order)
<1>1. /\ todo[c] # <<>> /\ Head(todo[c]) = <<op, p>>
      /\ Orderly(todo[c], book, receivers) /\ todo[c] \in Seq(Order)
  BY DEF Doing, Orders, Orderly
<1>2. 1 \in DOMAIN todo[c] /\ todo[c][1] = <<op, p>>
  BY <1>1, TailOrders
<1>3. todo[c][1][1] # "wait" /\ todo[c][1][2] = p
  BY <1>2
<1> QED
  BY <1>1, <1>2, <1>3 DEF Concerns

LEMMA WriteOrders ==
  ASSUME Apart, BookTypes, RunTypes, Orders, RunsOwned, LiveInv, BookInv, NEW c \in Callers,
         NEW p \in PMUs, NEW op, NEW status,
         <<op, status>> \in {<<"deactivate", "inactive">>, <<"activate", "active">>,
                            <<"save", "active">>},
         WriteBook(c, p, op, status)
  PROVE  Orders' /\ RunsOwned' /\ LiveInv' /\ BookInv'
<1>1. /\ Doing(c, op, p) /\ op \in {"deactivate", "activate", "save"}
      /\ status = IF op = "deactivate" THEN "inactive" ELSE "active"
      /\ UNCHANGED <<receivers, live, run>>
  BY DEF WriteBook, managerEnv
<1>2. /\ Concerns(c, p) /\ todo[c] # <<>> /\ Head(todo[c]) = <<op, p>>
      /\ Orderly(todo[c], book, receivers) /\ todo[c] \in Seq(Order)
  BY <1>1, DoingConcerns
<1>3. 1 \in DOMAIN todo[c] /\ todo[c][1] = <<op, p>>
  BY <1>2, TailOrders
<1>4. /\ \A i \in Runs : ~ Heads(c, <<"wait", i>>)
      /\ \A q \in PMUs : ~ Heads(c, <<"stop", q>>)
  BY <1>1, <1>2 DEF Heads
<1>5. CASE book' = [book EXCEPT ![p] = status] /\ Done(c)
  <2> DEFINE s == Tail(todo[c])
  <2>1. \A q \in PMUs : book'[q] = IF q = p THEN status ELSE book[q]
    BY <1>5 DEF BookTypes
  <2>2. op = "deactivate" =>
          /\ (2 \in DOMAIN todo[c] /\ todo[c][2] = <<"stop", p>>) \/ receivers[p] = 0
          /\ \A k \in DOMAIN todo[c] : todo[c][k] # <<"start", p>>
    <3> SUFFICES ASSUME op = "deactivate"
                 PROVE  /\ (2 \in DOMAIN todo[c] /\ todo[c][2] = <<"stop", p>>) \/ receivers[p] = 0
                        /\ \A k \in DOMAIN todo[c] : todo[c][k] # <<"start", p>>
      OBVIOUS
    <3>1. /\ \/ 1 + 1 \in DOMAIN todo[c] /\ todo[c][1 + 1] = <<"stop", p>>
             \/ 1 > 1 /\ todo[c][1 - 1] = <<"stop", p>>
             \/ receivers[p] = 0
          /\ \A k \in DOMAIN todo[c] : todo[c][k] # <<"start", p>>
      BY <1>2, <1>3 DEF Orderly, DropsStopped
    <3> QED
      BY <3>1
  <2>3. Orderly(s, book', receivers) /\ (s # <<>> => Head(s)[1] # "wait")
    <3>1. \A q \in PMUs : Head(todo[c]) \in {<<"save", q>>, <<"activate", q>>} => book'[q] = "active"
      BY <1>1, <1>2, <2>1
    <3>2. \A q \in PMUs : book[q] = "active" =>
            book'[q] = "active" \/ \A k \in DOMAIN todo[c] : todo[c][k] # <<"start", q>>
      BY <1>1, <2>1, <2>2
    <3>3. \A q \in PMUs : receivers[q] = 0 \/ Head(todo[c]) = <<"stop", q>> => receivers[q] = 0
      BY <1>1, <1>2
    <3>4. Carried(todo[c], book, receivers, book', receivers)
      BY <3>1, <3>2, <3>3 DEF Carried
    <3> QED
      BY <1>2, <3>4, OrderlyTail
  <2>4. Orders' /\ todo'[c] = s /\ OthersKeep(c)
    <3>1. todo' = [todo EXCEPT ![c] = s]
      BY <1>5 DEF Done
    <3>2. Orderly(s, book', receivers')
      BY <1>1, <2>3
    <3>3. \A q \in PMUs : Concerns(c, q) \/ (book'[q] = book[q] /\ receivers'[q] = receivers[q])
      BY <1>1, <1>2, <2>1
    <3> HIDE DEF s
    <3> QED
      BY <1>2, <3>1, <3>2, <3>3, StepOrders
  <2>5. RunsOwned' /\ LiveInv'
    <3>1. \A i \in Runs : ~ Heads(c, <<"wait", i>>)'
      BY <2>3, <2>4 DEF Heads
    <3> QED
      BY <1>1, <1>4, <2>4, <3>1, OwnedStays
  <2>6. BookInv'
    <3>1. ASSUME NEW q \in PMUs, Disowned(q)', ~ Disowned(q)
          PROVE  Heads(c, <<"stop", q>>)'
      <4>1. q = p /\ op = "deactivate" /\ Configured(p)
        BY <1>1, <2>1, <3>1 DEF Disowned, Configured
      <4>2. 2 \in DOMAIN todo[c] /\ todo[c][2] = <<"stop", p>>
        BY <2>2, <4>1 DEF Configured
      <4>3. s # <<>> /\ Head(s) = <<"stop", p>>
        <5>1. /\ Len(todo[c]) \in Nat /\ DOMAIN todo[c] = 1 .. Len(todo[c])
              /\ s \in Seq(Order) /\ Len(s) = Len(todo[c]) - 1
              /\ \A k \in 1 .. Len(todo[c]) - 1 : s[k] = todo[c][k + 1]
          BY <1>2, TailOrders
        <5> HIDE DEF s
        <5>2. Len(s) # 0 /\ s[1] = <<"stop", p>>
          BY <4>2, <5>1
        <5>3. s # <<>>
          BY <5>1, <5>2, EmptySeq
        <5> QED
          BY <5>1, <5>2, <5>3, TailOrders
      <4> QED
        BY <2>4, <4>1, <4>3 DEF Heads
    <3> QED
      BY <1>4, <2>4, <3>1, BookStays
  <2> QED
    BY <2>4, <2>5, <2>6
<1>6. CASE GiveUp(c) /\ book' \in {book, [book EXCEPT ![p] = Unconfirmed(@, status)]}
  <2>1. todo' = [todo EXCEPT ![c] = <<>>] /\ Orderly(<<>>, book', receivers')
    BY <1>6, OrderlyEmpty DEF GiveUp
  <2>2. \A q \in PMUs : Concerns(c, q) \/ (book'[q] = book[q] /\ receivers'[q] = receivers[q])
    BY <1>1, <1>2, <1>6 DEF BookTypes
  <2>3. Orders' /\ todo'[c] = <<>> /\ OthersKeep(c)
    BY <1>2, <2>1, <2>2, StepOrders
  <2>4. RunsOwned' /\ LiveInv'
    <3>1. \A i \in Runs : ~ Heads(c, <<"wait", i>>)'
      BY <2>3 DEF Heads
    <3> QED
      BY <1>1, <1>4, <2>3, <3>1, OwnedStays
  <2>5. \A q \in PMUs : Disowned(q)' => Disowned(q)
    <3>1. book'[p] \in {book[p], "active", "unconfirmed"}
      BY <1>1, <1>6 DEF BookTypes, Unconfirmed
    <3>2. \A q \in PMUs : q # p => book'[q] = book[q]
      BY <1>6 DEF BookTypes
    <3> QED
      BY <1>1, <3>1, <3>2 DEF Disowned, Configured
  <2>6. BookInv'
    BY <1>4, <2>3, <2>5, BookStays
  <2> QED
    BY <2>3, <2>4, <2>6
<1> QED
  BY <1>5, <1>6 DEF WriteBook

(* An order that leaves the address book alone is done or dropped, and     *)
(* nothing else changes.                                                   *)
LEMMA OrderDone ==
  ASSUME Apart, RunTypes, Orders, RunsOwned, LiveInv, BookInv,
         NEW c \in Callers, NEW op \in {"ifIdle", "start", "stop", "wait"}, NEW p, Doing(c, op, p),
         op = "stop" => receivers[p] = 0,
         op = "wait" => run[p].state = "done",
         Done(c) \/ GiveUp(c),
         UNCHANGED <<book, receivers, run, live>>
  PROVE  Orders' /\ RunsOwned' /\ LiveInv' /\ BookInv'
<1>1. /\ todo[c] # <<>> /\ Head(todo[c]) = <<op, p>>
      /\ Orderly(todo[c], book, receivers)
  BY DEF Doing, Orders
<1>2. PICK s \in {Tail(todo[c]), <<>>} : todo' = [todo EXCEPT ![c] = s]
  BY DEF Done, GiveUp
<1>3. Orderly(s, book, receivers) /\ (s = <<>> \/ Head(s)[1] # "wait")
  <2>1. CASE s = <<>>
    BY <2>1, OrderlyEmpty
  <2>2. CASE s = Tail(todo[c])
    <3>1. \A q \in PMUs : Head(todo[c]) \notin {<<"save", q>>, <<"activate", q>>}
      BY <1>1
    <3>2. \A q \in PMUs : Head(todo[c]) = <<"stop", q>> => receivers[q] = 0
      BY <1>1
    <3>3. Carried(todo[c], book, receivers, book, receivers)
      BY <3>1, <3>2 DEF Carried
    <3> QED
      BY <1>1, <2>2, <3>3, OrderlyTail
  <2> QED
    BY <2>1, <2>2
<1>4. Orders' /\ todo'[c] = s /\ OthersKeep(c)
  <2>1. Orderly(s, book', receivers')
    BY <1>3
  <2> QED
    BY <1>2, <2>1, StepOrders
<1>5. RunsOwned' /\ LiveInv'
  <2>1. \A i \in Runs : Heads(c, <<"wait", i>>) => run[i].state = "done"
    BY <1>1 DEF Heads
  <2>2. \A i \in Runs : ~ Heads(c, <<"wait", i>>)'
    BY <1>3, <1>4 DEF Heads
  <2> QED
    BY <1>4, <2>1, <2>2, OwnedStays
<1>6. BookInv'
  <2>1. \A q \in PMUs : Heads(c, <<"stop", q>>) => ~ Configured(q)
    BY <1>1 DEF Heads, Configured
  <2>2. \A q \in PMUs : Disowned(q)' => Disowned(q) /\ Configured(q)
    BY DEF Disowned, Configured
  <2> QED
    BY <1>4, <2>1, <2>2, BookStays
<1> QED
  BY <1>4, <1>5, <1>6

LEMMA AskOrders ==
  ASSUME Apart, Orders, RunsOwned, LiveInv, BookInv, NEW c \in Clients, Ask(c)
  PROVE  Orders' /\ RunsOwned' /\ LiveInv' /\ BookInv'
<1>1. todo[c] = <<>> /\ UNCHANGED <<book, receivers, live, run>> /\ c \in Callers
  BY DEF Ask, Callers
<1>2. PICK s \in Requests : todo' = [todo EXCEPT ![c] = s]
  BY DEF Ask
<1>3. Orderly(s, book', receivers') /\ Head(s)[1] # "wait"
  BY RequestOrderly
<1>4. Orders' /\ todo'[c] = s /\ OthersKeep(c)
  BY <1>1, <1>2, <1>3, StepOrders
<1>5. RunsOwned' /\ LiveInv'
  <2>1. \A i \in Runs : ~ Heads(c, <<"wait", i>>) /\ ~ Heads(c, <<"wait", i>>)'
    BY <1>1, <1>3, <1>4 DEF Heads
  <2> QED
    BY <1>1, <1>4, <2>1, OwnedStays
<1>6. BookInv'
  <2>1. \A q \in PMUs : ~ Heads(c, <<"stop", q>>)
    BY <1>1 DEF Heads
  <2>2. \A q \in PMUs : Disowned(q)' => Disowned(q)
    BY <1>1 DEF Disowned, Configured
  <2> QED
    BY <1>1, <1>4, <2>1, <2>2, BookStays
<1> QED
  BY <1>4, <1>5, <1>6

LEMMA IdleOrders ==
  ASSUME Apart, RunTypes, Orders, RunsOwned, LiveInv, BookInv, NEW c \in Callers, NEW p \in PMUs,
         IfIdle(c, p)
  PROVE  Orders' /\ RunsOwned' /\ LiveInv' /\ BookInv'
<1>1. Doing(c, "ifIdle", p) /\ (Done(c) \/ GiveUp(c)) /\ UNCHANGED <<book, receivers, live, run>>
  BY DEF IfIdle, managerEnv
<1> QED
  BY <1>1, OrderDone

LEMMA WaitOrders ==
  ASSUME Apart, Patient, RunTypes, Orders, RunsOwned, LiveInv, BookInv, NEW c \in Callers,
         NEW i \in Runs, WaitDone(c, i)
  PROVE  Orders' /\ RunsOwned' /\ LiveInv' /\ BookInv'
<1>1. run[i].state = "done"
  BY DEF Patient
<1>2. Doing(c, "wait", i) /\ Done(c) /\ UNCHANGED <<book, receivers, live, run>>
  BY DEF WaitDone, managerEnv
<1> QED
  BY <1>1, <1>2, OrderDone

(* A receiver starts for a PMU that is not configured. *)
LEMMA NewRun ==
  ASSUME Apart, RunTypes, Started, RunsOwned, LiveInv, NEW p \in PMUs, ~ Configured(p),
         NEW c \in Callers, Concerns(c, p), OthersKeep(c),
         \A i \in Runs : ~ Heads(c, <<"wait", i>>) /\ ~ Heads(c, <<"wait", i>>)',
         live' = live, NEW i \in Runs, run[i].state = "none",
         receivers' = [receivers EXCEPT ![p] = i],
         run' = [run EXCEPT ![i] = [pmu |-> p, state |-> "dial", cancelled |-> FALSE]],
         \A d \in Callers, j \in Runs : Heads(d, <<"wait", j>>) => Concerns(d, run[j].pmu)
  PROVE  RunsOwned' /\ LiveInv'
<1>1. /\ \A q \in PMUs : receivers'[q] = IF q = p THEN i ELSE receivers[q]
      /\ \A j \in Runs : /\ run'[j].pmu = IF j = i THEN p ELSE run[j].pmu
                         /\ run'[j].state = IF j = i THEN "dial" ELSE run[j].state
  BY DEF RunTypes, RunSet
<1>2. \A q \in PMUs : Configured(q) => receivers[q] \in Runs /\ receivers[q] # i
  BY DEF RunsOwned, RunTypes, Configured
<1>3. \A q \in PMUs : Configured(q)' => run'[receivers'[q]].pmu = q /\ run'[receivers'[q]].state # "none"
  BY <1>1, <1>2 DEF RunsOwned, Configured
<1>4. ASSUME NEW j \in Runs, run'[j].state \notin {"none", "done"}, receivers'[run'[j].pmu] # j
      PROVE  \E d \in Callers : Heads(d, <<"wait", j>>)'
  <2>1. j # i
    BY <1>1, <1>4
  <2>2. run[j].pmu \in PMUs /\ run[j].state \notin {"none", "done"} /\ run'[j].pmu = run[j].pmu
    BY <1>1, <1>4, <2>1 DEF Started
  <2>3. receivers[run[j].pmu] # j
    <3>1. CASE run[j].pmu = p
      <4>1. j # 0
        BY RunNumbers
      <4> QED
        BY <3>1, <4>1 DEF Configured
    <3>2. CASE run[j].pmu # p
      BY <1>1, <1>4, <2>2, <3>2
    <3> QED
      BY <3>1, <3>2
  <2>4. PICK d \in Callers : Heads(d, <<"wait", j>>)
    BY <2>2, <2>3 DEF RunsOwned
  <2>5. d # c
    BY <2>4
  <2> QED
    BY <2>4, <2>5, OthersHead
<1>5. ASSUME NEW d \in Callers, NEW j \in Runs, Heads(d, <<"wait", j>>)'
      PROVE  run'[j].state # "none" /\ receivers'[run'[j].pmu] = 0
  <2>1. d # c
    BY <1>5
  <2>2. Heads(d, <<"wait", j>>)
    BY <1>5, <2>1, OthersHead
  <2>3. run[j].state # "none" /\ receivers[run[j].pmu] = 0 /\ run[j].pmu \in PMUs
    BY <2>2 DEF RunsOwned, Started
  <2>4. Concerns(d, run[j].pmu)
    BY <2>2
  <2>5. run[j].pmu # p
    BY <2>1, <2>3, <2>4 DEF Apart
  <2>6. j # i
    BY <2>3
  <2> QED
    BY <1>1, <2>3, <2>5, <2>6
<1>6. RunsOwned'
  BY <1>3, <1>4, <1>5 DEF RunsOwned
<1>7. LiveInv'
  <2> SUFFICES ASSUME NEW q \in PMUs
               PROVE  q \in live <=> /\ receivers'[q] # 0
                                    /\ run'[receivers'[q]].state \in {"stream", "end"}
    BY DEF LiveInv, Configured
  <2>1. q \in live <=> Configured(q) /\ run[receivers[q]].state \in {"stream", "end"}
    BY DEF LiveInv
  <2>2. CASE q = p
    BY <1>1, <2>1, <2>2
  <2>3. CASE q # p
    BY <1>1, <1>2, <2>1, <2>3 DEF Configured
  <2> QED
    BY <2>2, <2>3
<1> QED
  BY <1>6, <1>7

(* Who waits for a run is busy with its PMU. *)
LEMMA WaitingConcerns ==
  ASSUME Orders, NEW d \in Callers, NEW j \in Runs, Heads(d, <<"wait", j>>)
  PROVE  Concerns(d, run[j].pmu)
<1>1. todo[d] # <<>> /\ Head(todo[d]) = <<"wait", j>> /\ todo[d] \in Seq(Order)
  BY DEF Heads, Orders
<1>2. 1 \in DOMAIN todo[d] /\ todo[d][1] = <<"wait", j>>
  BY <1>1, TailOrders
<1>3. todo[d][1][1] = "wait" /\ run[todo[d][1][2]].pmu = run[j].pmu
  BY <1>2
<1> QED
  BY <1>2, <1>3 DEF Concerns

LEMMA StartOrders ==
  ASSUME Apart, RunTypes, Started, Orders, RunsOwned, LiveInv, BookInv, NEW c \in Callers,
         NEW p \in PMUs, StartPMU(c, p)
  PROVE  Orders' /\ RunsOwned' /\ LiveInv' /\ BookInv'
<1>1. /\ Doing(c, "start", p) /\ Done(c) /\ UNCHANGED <<book, live>>
      /\ todo' = [todo EXCEPT ![c] = Tail(todo[c])]
  BY DEF StartPMU, Done
<1>2. /\ Concerns(c, p) /\ todo[c] # <<>> /\ Head(todo[c]) = <<"start", p>>
      /\ Orderly(todo[c], book, receivers) /\ todo[c] \in Seq(Order)
  BY <1>1, DoingConcerns
<1>3. CASE ~ Configured(p)
  <2> DEFINE s == Tail(todo[c])
  <2>1. PICK i \in Runs :
          /\ run[i].state = "none"
          /\ receivers' = [receivers EXCEPT ![p] = i]
          /\ run' = [run EXCEPT ![i] = [pmu |-> p, state |-> "dial", cancelled |-> FALSE]]
    BY <1>3 DEF StartPMU
  <2>2. \A q \in PMUs : receivers'[q] = IF q = p THEN i ELSE receivers[q]
    BY <2>1 DEF RunTypes
  <2>3. Orderly(s, book', receivers') /\ book[p] = "active" /\ (s # <<>> => Head(s)[1] = "start")
    BY <1>1, <1>2, StartTail
  <2>4. Orders' /\ todo'[c] = s /\ OthersKeep(c)
    <3>1. todo' = [todo EXCEPT ![c] = s]
      BY <1>1
    <3>2. \A q \in PMUs : Concerns(c, q) \/ (book'[q] = book[q] /\ receivers'[q] = receivers[q])
      BY <1>1, <1>2, <2>2
    <3> HIDE DEF s
    <3> QED
      BY <1>2, <2>3, <3>1, <3>2, StepOrders
  <2>5. \A j \in Runs : ~ Heads(c, <<"wait", j>>) /\ ~ Heads(c, <<"wait", j>>)'
    BY <1>2, <2>3, <2>4 DEF Heads
  <2>6. RunsOwned' /\ LiveInv'
    BY <1>1, <1>2, <1>3, <2>1, <2>4, <2>5, NewRun, WaitingConcerns
  <2>7. BookInv'
    <3>1. \A q \in PMUs : Disowned(q)' => Disowned(q)
      BY <1>1, <2>2, <2>3 DEF Disowned, Configured
    <3>2. \A q \in PMUs : ~ Heads(c, <<"stop", q>>)
      BY <1>2 DEF Heads
    <3> QED
      BY <2>4, <3>1, <3>2, BookStays
  <2> QED
    BY <2>4, <2>6, <2>7
<1>4. CASE Configured(p)
  <2>1. UNCHANGED <<receivers, run>>
    BY <1>4 DEF StartPMU
  <2> QED
    BY <1>1, <2>1, OrderDone
<1> QED
  BY <1>3, <1>4

LEMMA StopOrders ==
  ASSUME Apart, RunTypes, Started, Orders, RunsOwned, LiveInv, BookInv, NEW c \in Callers,
         NEW p \in PMUs, StopPMU(c, p)
  PROVE  Orders' /\ RunsOwned' /\ LiveInv' /\ BookInv'
<1>1. Doing(c, "stop", p) /\ book' = book
  BY DEF StopPMU
<1>2. /\ Concerns(c, p) /\ todo[c] # <<>> /\ Head(todo[c]) = <<"stop", p>>
      /\ Orderly(todo[c], book, receivers) /\ todo[c] \in Seq(Order)
  BY <1>1, DoingConcerns
<1>3. CASE ~ Configured(p)
  <2>1. Done(c) /\ UNCHANGED <<receivers, live, run>> /\ receivers[p] = 0
    BY <1>3 DEF StopPMU, Configured
  <2> QED
    BY <1>1, <2>1, OrderDone
<1>4. CASE Configured(p)
  <2>0. PICK i \in Runs : receivers[p] = i
    BY <1>4 DEF RunTypes, Configured
  <2> DEFINE s == << <<"wait", i>> >> \o Tail(todo[c])
  <2>1. /\ run' = [run EXCEPT ![i].cancelled = TRUE]
        /\ receivers' = [receivers EXCEPT ![p] = 0]
        /\ live' = live \ {p}
        /\ todo' = [todo EXCEPT ![c] = s]
    BY <1>4, <2>0 DEF StopPMU
  <2>2. Orderly(s, book', receivers') /\ s # <<>> /\ Head(s) = <<"wait", i>>
    <3>1. receivers \in [PMUs -> Runs \cup {0}]
      BY DEF RunTypes
    <3> QED
      BY <1>1, <1>2, <2>1, <3>1, OrderlyWait
  <2> HIDE DEF s
  <2>3. /\ \A q \in PMUs : receivers'[q] = IF q = p THEN 0 ELSE receivers[q]
        /\ \A j \in Runs : run'[j].pmu = run[j].pmu /\ run'[j].state = run[j].state
    BY <2>0, <2>1 DEF RunTypes, RunSet
  <2>4. Orders' /\ todo'[c] = s /\ OthersKeep(c)
    <3>1. \A q \in PMUs : Concerns(c, q) \/ (book'[q] = book[q] /\ receivers'[q] = receivers[q])
      BY <1>1, <1>2, <2>3
    <3> QED
      BY <1>2, <2>1, <2>2, <3>1, StepOrders
  <2>5. /\ \A j \in Runs : ~ Heads(c, <<"wait", j>>)
        /\ \A j \in Runs : Heads(c, <<"wait", j>>)' <=> j = i
        /\ \A q \in PMUs : Heads(c, <<"stop", q>>) <=> q = p
    BY <1>2, <2>2, <2>4 DEF Heads
  <2>6. RunsOwned'
    <3>1. \A q \in PMUs : Configured(q)' =>
            run'[receivers'[q]].pmu = q /\ run'[receivers'[q]].state # "none"
      BY <2>3 DEF RunsOwned, Configured, RunTypes
    <3>2. ASSUME NEW j \in Runs, run'[j].state \notin {"none", "done"}, receivers'[run'[j].pmu] # j
          PROVE  \E d \in Callers : Heads(d, <<"wait", j>>)'
      <4>1. run[j].pmu \in PMUs /\ run[j].state \notin {"none", "done"} /\ run'[j].pmu = run[j].pmu
        BY <2>3, <3>2 DEF Started
      <4>2. CASE receivers[run[j].pmu] = j
        <5>1. run[j].pmu = p
          BY <2>3, <3>2, <4>1, <4>2
        <5> QED
          BY <2>0, <2>5, <4>2, <5>1
      <4>3. CASE receivers[run[j].pmu] # j
        <5>1. PICK d \in Callers : Heads(d, <<"wait", j>>)
          BY <4>1, <4>3 DEF RunsOwned
        <5>2. d # c
          BY <2>5, <5>1
        <5> QED
          BY <2>4, <5>1, <5>2, OthersHead
      <4> QED
        BY <4>2, <4>3
    <3>3. ASSUME NEW d \in Callers, NEW j \in Runs, Heads(d, <<"wait", j>>)'
          PROVE  run'[j].state # "none" /\ receivers'[run'[j].pmu] = 0
      <4>1. CASE d = c
        <5>1. j = i
          BY <2>5, <3>3, <4>1
        <5>2. run[i].pmu = p /\ run[i].state # "none"
          BY <1>4, <2>0 DEF RunsOwned
        <5> QED
          BY <2>3, <5>1, <5>2
      <4>2. CASE d # c
        <5>1. Heads(d, <<"wait", j>>)
          BY <2>4, <3>3, <4>2, OthersHead
        <5>2. run[j].state # "none" /\ receivers[run[j].pmu] = 0 /\ run[j].pmu \in PMUs
          BY <5>1 DEF RunsOwned, Started
        <5> QED
          BY <2>3, <5>2
      <4> QED
        BY <4>1, <4>2
    <3> QED
      BY <3>1, <3>2, <3>3 DEF RunsOwned
  <2>7. LiveInv'
    <3> SUFFICES ASSUME NEW q \in PMUs
                 PROVE  q \in live' <=> /\ receivers'[q] # 0
                                       /\ run'[receivers'[q]].state \in {"stream", "end"}
      BY <2>1 DEF LiveInv, Configured
    <3>1. q \in live <=> receivers[q] # 0 /\ run[receivers[q]].state \in {"stream", "end"}
      BY DEF LiveInv, Configured
    <3> QED
      BY <2>1, <2>3, <3>1 DEF RunTypes
  <2>8. BookInv'
    <3>1. \A q \in PMUs : Disowned(q)' => Disowned(q) /\ q # p
      BY <1>1, <2>3 DEF Disowned, Configured
    <3> QED
      BY <2>4, <2>5, <3>1, BookStays
  <2> QED
    BY <2>4, <2>6, <2>7, <2>8
<1> QED
  BY <1>3, <1>4

LEMMA CallerOrders ==
  ASSUME Apart, Patient, BookTypes, RunTypes, Started, Orders, RunsOwned, LiveInv, BookInv,
         NEW c \in Callers, Caller(c)
  PROVE  Orders' /\ RunsOwned' /\ LiveInv' /\ BookInv'
<1>1. ASSUME NEW p \in PMUs, \/ WriteBook(c, p, "deactivate", "inactive")
                             \/ WriteBook(c, p, "activate", "active")
                             \/ WriteBook(c, p, "save", "active")
      PROVE  Orders' /\ RunsOwned' /\ LiveInv' /\ BookInv'
  BY <1>1, WriteOrders
<1>2. ASSUME NEW p \in PMUs, IfIdle(c, p)
      PROVE  Orders' /\ RunsOwned' /\ LiveInv' /\ BookInv'
  BY <1>2, IdleOrders
<1>3. ASSUME NEW p \in PMUs, StartPMU(c, p)
      PROVE  Orders' /\ RunsOwned' /\ LiveInv' /\ BookInv'
  BY <1>3, StartOrders
<1>4. ASSUME NEW p \in PMUs, StopPMU(c, p)
      PROVE  Orders' /\ RunsOwned' /\ LiveInv' /\ BookInv'
  BY <1>4, StopOrders
<1>5. ASSUME NEW i \in Runs, WaitDone(c, i)
      PROVE  Orders' /\ RunsOwned' /\ LiveInv' /\ BookInv'
  BY <1>5, WaitOrders
<1> QED
  BY <1>1, <1>2, <1>3, <1>4, <1>5 DEF Caller

LEMMA NextOrders ==
  TypeOK /\ Started /\ OrdersInv /\ Apart /\ [Next]_vars /\ [Patient]_vars => OrdersInv'
<1> SUFFICES ASSUME TypeOK, Started, OrdersInv, Apart, [Next]_vars, [Patient]_vars, alive' = "up"
             PROVE  Orders' /\ RunsOwned' /\ LiveInv' /\ BookInv'
  BY DEF OrdersInv
<1>0. BookTypes /\ RunTypes
  BY TypeParts
<1>1. alive = "up"
  <2>1. CASE alive' = alive
    BY <2>1
  <2>2. CASE alive' \in {"fatal", "stopping", "exited"}
    BY <2>2
  <2>3. alive' = alive \/ alive' \in {"fatal", "stopping", "exited"}
    BY ZenonT(30) DEF Next, vars, Notify, Snapshot, ReadExpected, Apply, Receiver, HandshakeDone, ConnectFails,
           Backoff, markLive, StreamBreaks, markNotLive, SessionOver, rosterEnv, Caller, WriteBook,
           IfIdle, StartPMU, StopPMU, WaitDone, managerEnv, Ask, Interrupt, StopAll, Exit
  <2> QED
    BY <2>1, <2>2, <2>3
<1>2. Orders /\ RunsOwned /\ LiveInv /\ BookInv
  BY <1>1 DEF OrdersInv
<1>3. ASSUME NEW t \in Threads, Notify(t) PROVE UNCHANGED <<book, receivers, live, run, todo>>
  BY <1>3 DEF Notify, Snapshot, ReadExpected, Apply
<1>4. CASE Interrupt \/ UNCHANGED vars
  BY <1>2, <1>4, OrdersUnchanged DEF Interrupt, vars
<1>5. ~ StopAll /\ ~ Exit
  BY DEF StopAll, Exit
<1>6. ASSUME NEW i \in Runs, Receiver(i) PROVE Orders' /\ RunsOwned' /\ LiveInv' /\ BookInv'
  BY <1>0, <1>2, <1>6, ReceiverOrders
<1>7. ASSUME NEW c \in Callers, Caller(c), Patient
      PROVE  Orders' /\ RunsOwned' /\ LiveInv' /\ BookInv'
  BY <1>0, <1>2, <1>7, CallerOrders
<1>8. ASSUME NEW c \in Clients, Ask(c) PROVE Orders' /\ RunsOwned' /\ LiveInv' /\ BookInv'
  BY <1>0, <1>2, <1>8, AskOrders
<1> QED
  BY <1>2, <1>3, <1>4, <1>5, <1>6, <1>7, <1>8, OrdersUnchanged DEF Next

LEMMA InitOrders == Init => OrdersInv
<1> SUFFICES ASSUME Init PROVE Orders /\ RunsOwned /\ LiveInv /\ BookInv
  BY DEF OrdersInv
<1>1. PICK first \in {Boot(book), <<>>} :
        todo = [c \in Callers |-> IF c = Main THEN first ELSE <<>>]
  BY DEF Init
<1>2. Orderly(first, book, receivers) /\ Orderly(<<>>, book, receivers)
  BY BootOrders, OrderlyEmpty
<1>3. Orders
  <2>1. first \in Seq(Order) /\ <<>> \in Seq(Order)
    BY <1>2 DEF Orderly
  <2>2. \A c \in Callers : todo[c] \in {first, <<>>}
    BY <1>1
  <2>3. todo \in [Callers -> Seq(Order)]
    BY <1>1, <2>1
  <2> QED
    BY <1>2, <2>2, <2>3 DEF Orders
<1>4. /\ \A i \in Runs : run[i].state = "none"
      /\ \A p \in PMUs : ~ Configured(p)
      /\ live = {}
  BY DEF Init, Configured
<1>5. \A c \in Callers, i \in Runs : ~ Heads(c, <<"wait", i>>)
  <2> SUFFICES ASSUME NEW c \in Callers, NEW i \in Runs, Heads(c, <<"wait", i>>) PROVE FALSE
    OBVIOUS
  <2>1. Orderly(Boot(book), book, receivers)
    BY BootOrders
  <2>2. c = Main /\ first # <<>> /\ Head(first) = <<"wait", i>> /\ first = Boot(book)
    BY <1>1 DEF Heads
  <2>3. first \in Seq(Order)
    BY <1>2 DEF Orderly
  <2>4. 1 \in DOMAIN first /\ first[1] = <<"wait", i>>
    BY <2>2, <2>3, TailOrders
  <2>5. first[1][1] = "start"
    BY <2>2, <2>4, BootStarts
  <2> QED
    BY <2>4, <2>5
<1> QED
  BY <1>3, <1>4, <1>5 DEF RunsOwned, LiveInv, BookInv, Disowned

(* The inductive invariant: the orders in hand are in an order that does   *)
(* no harm, every run is owned or waited for, live and the address book    *)
(* follow (api/server.go's handlers against manager.go's StartPMU/StopPMU), *)
(* as long as nobody acts on a PMU somebody else is busy with and no wait  *)
(* of StopPMU gives up.                                                    *)
THEOREM ApartOrdersInv ==
  Spec /\ []Apart /\ [][Patient]_vars => [](TypeOK /\ OrdersInv)
BY InitOrders, NextOrders, AlwaysStarted, PTL DEF Spec

(* "live - handshake + DATA_ON succeeded and the stream has not ended"     *)
(* (manager.go:7): the live set is exactly the configured PMUs whose own   *)
(* receiver streams, however many operators act at once, main among them,  *)
(* as long as no two act on the same PMU and no wait gives up (markLive,   *)
(* markNotLive, StopPMU).                                                  *)
THEOREM ApartLiveIsStreaming ==
  Spec /\ []Apart /\ [][Patient]_vars => []LiveIsStreaming
<1>1. OrdersInv => LiveIsStreaming
  BY DEF OrdersInv, LiveInv, LiveIsStreaming
<1> QED
  BY <1>1, ApartOrdersInv, PTL

(* A PMU's old receiver is gone before a new one dials (api/server.go:109, *)
(* StopPMU), under the same two conditions: at any time at most one        *)
(* receiver of a PMU has not ended.                                        *)
THEOREM ApartOneRunPerPMU ==
  Spec /\ []Apart /\ [][Patient]_vars => []OneRunPerPMU
<1>1. Apart /\ Started /\ OrdersInv => OneRunPerPMU
  <2> SUFFICES ASSUME Apart, Started, Orders, RunsOwned, NEW i \in Runs, NEW j \in Runs,
                      run[i].pmu = run[j].pmu,
                      run[i].state \notin {"none", "done"}, run[j].state \notin {"none", "done"}
               PROVE  i = j
    BY DEF OrdersInv, OneRunPerPMU
  <2>1. CASE receivers[run[i].pmu] = i
    <3>1. i # 0
      BY RunNumbers
    <3> QED
      BY <2>1, <3>1 DEF RunsOwned
  <2>2. CASE receivers[run[i].pmu] # i
    <3>1. PICK c \in Callers : Heads(c, <<"wait", i>>)
      BY <2>2 DEF RunsOwned
    <3>2. receivers[run[j].pmu] = 0 /\ j # 0
      BY <3>1, RunNumbers DEF RunsOwned
    <3>3. PICK d \in Callers : Heads(d, <<"wait", j>>)
      BY <3>2 DEF RunsOwned
    <3>4. Concerns(c, run[i].pmu) /\ Concerns(d, run[i].pmu) /\ run[i].pmu \in PMUs
      BY <3>1, <3>3, WaitingConcerns DEF Started
    <3>5. c = d
      BY <3>4 DEF Apart
    <3>6. <<"wait", i>> = <<"wait", j>>
      BY <3>1, <3>3, <3>5 DEF Heads
    <3> QED
      BY <3>6
  <2> QED
    BY <2>1, <2>2
<1> QED
  BY <1>1, ApartOrdersInv, AlwaysStarted, PTL

(* Between requests a receiver is configured only for a PMU the address    *)
(* book calls active (store.go:414), or whose row a call made inactive     *)
(* that reported an error, under the same two conditions: the order in     *)
(* which each handler writes the book and stops or starts the receiver is  *)
(* what keeps it so, whichever call of a request fails.                    *)
THEOREM ApartConfiguredIsActive ==
  Spec /\ []Apart /\ [][Patient]_vars => []ConfiguredIsActive
<1>1. OrdersInv => ConfiguredIsActive
  <2> SUFFICES ASSUME BookInv, NobodyBusy, NEW p \in PMUs, Disowned(p) PROVE FALSE
    BY DEF OrdersInv, ConfiguredIsActive, Disowned
  <2>1. \A c \in Callers : todo[c] = <<>>
    BY DEF NobodyBusy, Threads
  <2> QED
    BY <2>1 DEF BookInv, Heads
<1> QED
  BY <1>1, ApartOrdersInv, PTL
=============================================================================
