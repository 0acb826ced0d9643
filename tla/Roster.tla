------------------------------- MODULE Roster -------------------------------
(***************************************************************************)
(* Which PMUs the PDC connects to and which it aligns: the manager         *)
(* (manager/manager.go), the REST handlers that drive it (api/server.go),  *)
(* the session skeleton of a receiver (receiver.Run and its connect),      *)
(* Bank.SyncExpected, and main's boot loop and shutdown.                   *)
(*                                                                         *)
(* Threads are receiver goroutines (one per StartPMU), HTTP requests and   *)
(* main.  Each may call notifyAligner, which copies the live set under     *)
(* m.mu and applies it to the bank without any lock held across the call.  *)
(* One action is one lock region, one store call or one network outcome.   *)
(***************************************************************************)
EXTENDS Integers, Sequences, SequencesExt

CONSTANTS
  PMUs,            \* endpoint identities
  Clients,         \* HTTP requests that can be served at the same time
  Main,            \* the goroutine of main()
  MaxRequests,     \* bound: requests in one behaviour
  StopCanTimeOut,  \* a receiver may outlive the 15 s StopPMU waits for it
  DbCanFail,       \* the address book may be unreachable
  ApiDuringBoot    \* operators may act before main has started every PMU

ASSUME RosterAssumption ==
  /\ MaxRequests \in Nat /\ IsFiniteSet(PMUs)
  /\ {StopCanTimeOut, DbCanFail, ApiDuringBoot} \subseteq BOOLEAN
  /\ Main \notin Clients

VARIABLES
  book,       \* pmu_config rows: "unknown", "active", "inactive", "unconfirmed"
  receivers,  \* manager.receivers: the run configured for a PMU, 0 if none
  live,       \* manager.live
  run,        \* every receiver goroutine started so far
  expected,   \* Bank.expected
  note,       \* the notifyAligner call each thread is in
  todo,       \* what is left to do of the request, or of main
  asked,      \* requests so far
  ctxDone,    \* the program's context is cancelled
  alive       \* "up", "stopping" (StopAll has begun), "exited" or "fatal"

vars == <<book, receivers, live, run, expected, note, todo, asked, ctxDone, alive>>

Runs == 1 .. (MaxRequests + Cardinality(PMUs))
Callers == Clients \cup {Main}
Threads == Runs \cup Callers

NoNote == [pc |-> "off", names |-> {}, drop |-> {}, add |-> {}, alone |-> FALSE]

(* The rows of the address book; an "unconfirmed" one is inactive, but the *)
(* call that made it so reported an error.                                 *)
Rows == {"unknown", "active", "inactive", "unconfirmed"}

(* The endpoints that were active when the program started. *)
Boot(b) == SetToSeq({<<"start", p>> : p \in {q \in PMUs : b[q] = "active"}})

(* main starts no PMU when it cannot read which ones are active.  (Where it *)
(* refuses what it reads it exits, and has started none: left out.)        *)
Init ==
  /\ book \in [PMUs -> {"unknown", "active", "inactive"}]
  /\ receivers = [p \in PMUs |-> 0]
  /\ live = {}
  /\ run = [i \in Runs |-> [pmu |-> "", state |-> "none", cancelled |-> FALSE]]
  /\ expected = {}
  /\ note = [t \in Threads |-> NoNote]
  /\ \E first \in {Boot(book)} \cup (IF DbCanFail THEN {<<>>} ELSE {}) :
       todo = [c \in Callers |-> IF c = Main THEN first ELSE <<>>]
  /\ asked = 0
  /\ ctxDone = FALSE
  /\ alive = "up"

Configured(p) == receivers[p] # 0
Cancelled(i) == run[i].cancelled \/ ctxDone
Free(t) == note[t].pc = "off"

-----------------------------------------------------------------------------
(* notifyAligner and SyncExpected, called by thread t. *)

Syncing(t) == note[t].pc \in {"read", "apply"}

(* Copy the live set under m.mu, let go of the lock, call the hook. *)
Snapshot(t) ==
  /\ note[t].pc = "snap"
  /\ note' = [u \in Threads |->
       IF u = t
       THEN [NoNote EXCEPT !.pc = "read", !.names = live,
                           !.alone = \A v \in Threads \ {t} : ~ Syncing(v)]
       ELSE IF Syncing(u) THEN [note[u] EXCEPT !.alone = FALSE] ELSE note[u]]
  /\ UNCHANGED <<book, receivers, live, run, expected, todo, asked, ctxDone, alive>>

(* Mutant of ReadExpected: PMUs that left are not removed. *)
ReadJoinsOnly(t) ==
  /\ note[t].pc = "read"
  /\ LET add == note[t].names \ expected IN
     note' = [note EXCEPT ![t] =
       IF add = {} THEN NoNote ELSE [@ EXCEPT !.pc = "apply", !.add = add]]
  /\ UNCHANGED <<book, receivers, live, run, expected, todo, asked, ctxDone, alive>>

(* cur := Expected(), then the differences to apply. *)
ReadExpected(t) ==
  /\ note[t].pc = "read"
  /\ LET names == note[t].names IN
     note' = [note EXCEPT ![t] =
       IF expected = names THEN NoNote
       ELSE [@ EXCEPT !.pc = "apply", !.drop = expected \ names,
                      !.add = names \ expected]]
  /\ UNCHANGED <<book, receivers, live, run, expected, todo, asked, ctxDone, alive>>

(* Mutant of Applied: the call does not return. *)
NeverApplied(n) == n

Applied(n) == IF n.drop = {} /\ n.add = {} THEN NoNote ELSE n

(* One RemoveExpected or AddExpected, each under the bank's lock; removals first. *)
Apply(t) ==
  /\ note[t].pc = "apply"
  /\ \/ \E p \in note[t].drop :
          /\ expected' = expected \ {p}
          /\ note' = [note EXCEPT ![t] = Applied([note[t] EXCEPT !.drop = @ \ {p}])]
     \/ /\ note[t].drop = {}
        /\ \E p \in note[t].add :
             /\ expected' = expected \cup {p}
             /\ note' = [note EXCEPT ![t] = Applied([note[t] EXCEPT !.add = @ \ {p}])]
  /\ UNCHANGED <<book, receivers, live, run, todo, asked, ctxDone, alive>>

Notify(t) == Snapshot(t) \/ ReadExpected(t) \/ Apply(t)

-----------------------------------------------------------------------------
(* A receiver goroutine: dial and handshake, stream, back off, again. *)

Goto(i, s) == run' = [run EXCEPT ![i].state = s]
At(i, s) == run[i].state = s /\ Free(i)

rosterEnv == <<book, receivers, todo, asked, ctxDone, alive>>

(* CFG-2 received and DATA_ON sent; onSessionStart comes next.  The steps  *)
(* of a receiver are those of SessionSkeleton, which Session implements: a *)
(* handshake in its last steps does not notice its context cancelled.      *)
HandshakeDone(i) ==
  /\ At(i, "dial")
  /\ Goto(i, "handshaken")
  /\ UNCHANGED <<rosterEnv, live, expected, note>>

(* Mutant of ConnectFails: the context is not looked at. *)
ConnectRetries(i) ==
  /\ At(i, "dial")
  /\ Goto(i, "backoff")
  /\ UNCHANGED <<rosterEnv, live, expected, note>>

(* Run stops for good once its context is cancelled. *)
ConnectFails(i) ==
  /\ At(i, "dial")
  /\ Goto(i, IF Cancelled(i) THEN "done" ELSE "backoff")
  /\ UNCHANGED <<rosterEnv, live, expected, note>>

Backoff(i) ==
  /\ At(i, "backoff")
  /\ Goto(i, "dial") \/ (Cancelled(i) /\ Goto(i, "done"))
  /\ UNCHANGED <<rosterEnv, live, expected, note>>

(* Mutant of markLive: it does not ask whether the PMU is still configured. *)
markLiveUnasked(i) ==
  /\ At(i, "handshaken")
  /\ Goto(i, "stream")
  /\ live' = live \cup {run[i].pmu}
  /\ note' = [note EXCEPT ![i].pc = "snap"]
  /\ UNCHANGED <<rosterEnv, expected>>

(* onSessionStart: a PMU nobody wants any more, or one already live, stays *)
(* as it is.                                                               *)
markLive(i) ==
  /\ At(i, "handshaken")
  /\ Goto(i, "stream")
  /\ LET p == run[i].pmu IN
     IF Configured(p) /\ p \notin live
     THEN /\ live' = live \cup {p}
          /\ note' = [note EXCEPT ![i].pc = "snap"]
     ELSE UNCHANGED <<live, note>>
  /\ UNCHANGED <<rosterEnv, expected>>

(* A read error, silence beyond the liveness timeout, or a cancelled *)
(* context ends the stream.                                          *)
StreamBreaks(i) ==
  /\ At(i, "stream")
  /\ Goto(i, "end")
  /\ UNCHANGED <<rosterEnv, live, expected, note>>

(* onSessionEnd *)
markNotLive(i) ==
  /\ At(i, "end")
  /\ Goto(i, "ended")
  /\ LET p == run[i].pmu IN
     IF p \in live
     THEN /\ live' = live \ {p}
          /\ note' = [note EXCEPT ![i].pc = "snap"]
     ELSE UNCHANGED <<live, note>>
  /\ UNCHANGED <<rosterEnv, expected>>

SessionOver(i) ==
  /\ At(i, "ended")
  /\ Goto(i, IF Cancelled(i) THEN "done" ELSE "backoff")
  /\ UNCHANGED <<rosterEnv, live, expected, note>>

Receiver(i) ==
  \/ HandshakeDone(i) \/ ConnectFails(i) \/ Backoff(i)
  \/ markLive(i) \/ StreamBreaks(i) \/ markNotLive(i) \/ SessionOver(i)

-----------------------------------------------------------------------------
(* What a caller does: requests are sequences of store and manager calls,  *)
(* each of which may end the request early.                                *)

Disconnect(p) == << <<"deactivate", p>>, <<"stop", p>> >>
Delete(p) == << <<"deactivate", p>>, <<"stop", p>> >>
Connect(p) == << <<"activate", p>>, <<"ifIdle", p>>, <<"start", p>> >>
(* Mutant of Save: the address book comes last. *)
SaveLast(p) == << <<"stop", p>>, <<"start", p>>, <<"save", p>> >>

Save(p) == << <<"save", p>>, <<"stop", p>>, <<"start", p>> >>
Replace(old, p) == << <<"stop", old>>, <<"deactivate", old>> >> \o Save(p)

Requests ==
  UNION {{Disconnect(p), Delete(p), Connect(p), Save(p)}
           \cup {Replace(old, p) : old \in PMUs \ {p}} : p \in PMUs}

Ask(c) ==
  /\ todo[c] = <<>> /\ Free(c)
  /\ asked < MaxRequests
  /\ todo[Main] = <<>> \/ ApiDuringBoot
  /\ asked' = asked + 1
  /\ \E r \in Requests : todo' = [todo EXCEPT ![c] = r]
  /\ UNCHANGED <<book, receivers, live, run, expected, note, ctxDone, alive>>

Doing(c, op, p) == todo[c] # <<>> /\ Head(todo[c]) = <<op, p>> /\ Free(c)
Done(c) == todo' = [todo EXCEPT ![c] = Tail(@)]
GiveUp(c) == todo' = [todo EXCEPT ![c] = <<>>]

managerEnv == <<receivers, live, run, expected, note, asked, ctxDone, alive>>

(* What a call that reports an error, yet was carried out, makes of a row. *)
Unconfirmed(row, status) ==
  IF status = "inactive" THEN IF row = "active" THEN "unconfirmed" ELSE row ELSE status

(* SetPMUActive and DeletePMU need a row to update, SavePMU makes one.  A  *)
(* call that fails leaves the row as it was, or, where the answer is lost  *)
(* or the request's context ends first, as it should be; the handler gives *)
(* up either way.                                                          *)
WriteBook(c, p, op, status) ==
  /\ Doing(c, op, p)
  /\ \/ /\ op = "save" \/ book[p] # "unknown"
        /\ \/ book' = [book EXCEPT ![p] = status] /\ Done(c)
           \/ /\ DbCanFail
              /\ book' = [book EXCEPT ![p] = Unconfirmed(@, status)]
              /\ GiveUp(c)
     \/ /\ DbCanFail \/ (op # "save" /\ book[p] = "unknown")
        /\ GiveUp(c)
        /\ UNCHANGED book
  /\ UNCHANGED managerEnv

IfIdle(c, p) ==
  /\ Doing(c, "ifIdle", p)
  /\ IF Configured(p) THEN GiveUp(c) ELSE Done(c)
  /\ UNCHANGED <<book, managerEnv>>

(* StartPMU: refused while a receiver is configured, which is fatal for main. *)
StartPMU(c, p) ==
  /\ Doing(c, "start", p)
  /\ IF Configured(p)
     THEN /\ alive' = IF c = Main THEN "fatal" ELSE alive
          /\ UNCHANGED <<receivers, run>>
     ELSE /\ \E i \in Runs :
               /\ run[i].state = "none"
               /\ \A j \in Runs : j < i => run[j].state # "none"
               /\ receivers' = [receivers EXCEPT ![p] = i]
               /\ run' = [run EXCEPT ![i] =
                            [pmu |-> p, state |-> "dial", cancelled |-> FALSE]]
          /\ UNCHANGED alive
  /\ Done(c)
  /\ UNCHANGED <<book, live, expected, note, asked, ctxDone>>

(* Mutants of StopPMU: the run is forgotten but not cancelled; the caller *)
(* does not wait for it.                                                  *)
StopWithoutCancel(c, p) ==
  /\ Doing(c, "stop", p)
  /\ IF Configured(p)
     THEN /\ receivers' = [receivers EXCEPT ![p] = 0]
          /\ live' = live \ {p}
          /\ note' = [note EXCEPT ![c].pc = "snap"]
          /\ todo' = [todo EXCEPT ![c] = << <<"wait", receivers[p]>> >> \o Tail(@)]
     ELSE Done(c) /\ UNCHANGED <<receivers, live, note>>
  /\ UNCHANGED <<book, expected, run, asked, ctxDone, alive>>

StopWithoutWait(c, p) ==
  /\ Doing(c, "stop", p)
  /\ IF Configured(p)
     THEN /\ run' = [run EXCEPT ![receivers[p]].cancelled = TRUE]
          /\ receivers' = [receivers EXCEPT ![p] = 0]
          /\ live' = live \ {p}
          /\ note' = [note EXCEPT ![c].pc = "snap"]
     ELSE UNCHANGED <<receivers, live, run, note>>
  /\ Done(c)
  /\ UNCHANGED <<book, expected, asked, ctxDone, alive>>

(* StopPMU up to notifyAligner, which runs before the wait. *)
StopPMU(c, p) ==
  /\ Doing(c, "stop", p)
  /\ IF Configured(p)
     THEN LET i == receivers[p] IN
          /\ run' = [run EXCEPT ![i].cancelled = TRUE]
          /\ receivers' = [receivers EXCEPT ![p] = 0]
          /\ live' = live \ {p}
          /\ note' = [note EXCEPT ![c].pc = "snap"]
          /\ todo' = [todo EXCEPT ![c] = << <<"wait", i>> >> \o Tail(@)]
     ELSE Done(c) /\ UNCHANGED <<receivers, live, run, note>>
  /\ UNCHANGED <<book, expected, asked, ctxDone, alive>>

(* Only a read that waits for a slow PMU's next datagram lasts longer than *)
(* 15 s (LivenessTimeout allows it 30 s); everything else in a session is  *)
(* cut short by the context.                                               *)
WaitDone(c, i) ==
  /\ Doing(c, "wait", i)
  /\ \/ run[i].state = "done"
     \/ StopCanTimeOut /\ c # Main /\ run[i].state = "stream"
  /\ Done(c)
  /\ UNCHANGED <<book, managerEnv>>

(* SIGINT: every receiver's context is a child of the cancelled one. *)
Interrupt ==
  /\ ~ ctxDone
  /\ ctxDone' = TRUE
  /\ UNCHANGED <<book, receivers, live, run, expected, note, todo, asked, alive>>

(* main, once every PMU is started and the context is done. *)
StopAll ==
  /\ alive = "up" /\ ctxDone /\ todo[Main] = <<>>
  /\ alive' = "stopping"
  /\ todo' = [todo EXCEPT ![Main] =
       SetToSeq({<<"wait", receivers[p]>> : p \in {q \in PMUs : Configured(q)}})]
  /\ run' = [i \in Runs |-> IF \E p \in PMUs : receivers[p] = i
                            THEN [run[i] EXCEPT !.cancelled = TRUE] ELSE run[i]]
  /\ receivers' = [p \in PMUs |-> 0]
  /\ live' = {}
  /\ note' = [note EXCEPT ![Main].pc = "snap"]
  /\ UNCHANGED <<book, expected, asked, ctxDone>>

Exit ==
  /\ alive = "stopping" /\ todo[Main] = <<>> /\ Free(Main)
  /\ alive' = "exited"
  /\ UNCHANGED <<book, receivers, live, run, expected, note, todo, asked, ctxDone>>

Caller(c) ==
  \/ \E p \in PMUs :
       \/ WriteBook(c, p, "deactivate", "inactive")
       \/ WriteBook(c, p, "activate", "active")
       \/ WriteBook(c, p, "save", "active")
       \/ IfIdle(c, p) \/ StartPMU(c, p) \/ StopPMU(c, p)
  \/ \E i \in Runs : WaitDone(c, i)

Running == alive \in {"up", "stopping"}

Next ==
  /\ Running
  /\ \/ \E t \in Threads : Notify(t)
     \/ \E i \in Runs : Receiver(i)
     \/ \E c \in Callers : Caller(c)
     \/ \E c \in Clients : Ask(c)
     \/ Interrupt \/ StopAll \/ Exit

(* The Go scheduler runs every goroutine; a stream that nobody stops may go *)
(* on for ever, one whose context is cancelled ends at its read deadline.   *)
ReceiverProgress(i) ==
  Running /\ (Notify(i) \/ (Receiver(i) /\ (At(i, "stream") => Cancelled(i))))

CallerProgress(c) == Running /\ (Notify(c) \/ Caller(c))

MainProgress == Running /\ (StopAll \/ Exit)

Spec ==
  /\ Init /\ [][Next]_vars
  /\ \A i \in Runs : WF_vars(ReceiverProgress(i))
  /\ \A c \in Callers : WF_vars(CallerProgress(c))
  /\ WF_vars(MainProgress)

-----------------------------------------------------------------------------
(* Properties. *)

States == {"none", "dial", "backoff", "handshaken", "stream", "end", "ended", "done"}

(* Every variable has its type; a call of SyncExpected that is not done    *)
(* has something left to do.                                               *)
TypeOK ==
  /\ \A t \in Threads : note[t].pc = "apply" => note[t].drop \cup note[t].add # {}
  /\ book \in [PMUs -> Rows]
  /\ receivers \in [PMUs -> Runs \cup {0}]
  /\ live \subseteq PMUs /\ expected \subseteq PMUs
  /\ run \in [Runs -> [pmu : PMUs \cup {""}, state : States, cancelled : BOOLEAN]]
  /\ note \in [Threads -> [pc : {"off", "snap", "read", "apply"}, names : SUBSET PMUs,
                           drop : SUBSET PMUs, add : SUBSET PMUs, alone : BOOLEAN]]
  /\ asked \in 0 .. MaxRequests
  /\ ctxDone \in BOOLEAN
  /\ alive \in {"up", "stopping", "exited", "fatal"}

(* "live - handshake + DATA_ON succeeded and the stream has not ended"     *)
(* (manager.go:7): the live PMUs are the configured ones whose own run is  *)
(* between its onSessionStart and its onSessionEnd.                        *)
LiveIsStreaming ==
  alive = "up" =>
    live = {p \in PMUs :
              Configured(p) /\ run[receivers[p]].state \in {"stream", "end"}}

(* A PMU's old receiver is gone before a new one dials ("Stop the old      *)
(* receiver and wait for TCP teardown before reconnecting", server.go:109).*)
OneRunPerPMU ==
  alive = "up" => \A i, j \in Runs :
    i # j /\ run[i].pmu = run[j].pmu /\ run[i].state # "none" /\ run[j].state # "none"
      => "done" \in {run[i].state, run[j].state}

(* Of a PMU's receivers at most one has neither ended nor been told to:    *)
(* requests may overlap, waits give up and main may still be starting PMUs *)
(* (manager.go, StartPMU and StopPMU under m.mu).                          *)
Underway(i) == run[i].state \notin {"none", "done"}

OneCurrentRun ==
  \A i, j \in Runs :
    Underway(i) /\ Underway(j) /\ ~ run[i].cancelled /\ ~ run[j].cancelled
    /\ run[i].pmu = run[j].pmu => i = j

NobodyBusy == \A t \in Threads : Free(t) /\ (t \in Callers => todo[t] = <<>>)

(* Between requests a receiver is configured only for a PMU the address    *)
(* book calls active (store.go:414), unless the row was made inactive by a *)
(* call that reported an error: then the handler returned before StopPMU   *)
(* (server.go:152, 185), and the operator was told that it failed.         *)
ConfiguredIsActive ==
  alive = "up" /\ NobodyBusy =>
    \A p \in PMUs : Configured(p) => book[p] \in {"active", "unconfirmed"}

(* The same without that exception, which the code does not keep (README,  *)
(* section 5).                                                             *)
ReceiversAreActive ==
  alive = "up" /\ NobodyBusy =>
    \A p \in PMUs : Configured(p) => book[p] = "active"

(* What the code relies on and does not enforce: nobody acts on a PMU that *)
(* somebody else, main included, is still busy with, and no wait of        *)
(* StopPMU ends before its receiver has.                                   *)
Concerns(c, p) ==
  \E k \in DOMAIN todo[c] :
    \/ todo[c][k][1] # "wait" /\ todo[c][k][2] = p
    \/ todo[c][k][1] = "wait" /\ run[todo[c][k][2]].pmu = p

Apart ==
  \A c, d \in Callers, p \in PMUs : Concerns(c, p) /\ Concerns(d, p) => c = d

Patient == \A c \in Callers, i \in Runs : WaitDone(c, i) => run[i].state = "done"

(* With no transition in progress the bank expects the live PMUs ("This is *)
(* what the aligner waits on", manager.go:8).                              *)
ExpectedIsLive ==
  alive = "up" /\ NobodyBusy => expected = live

(* A SyncExpected that overlapped no other one leaves the bank expecting   *)
(* exactly the names it was given, whatever was expected before.           *)
LoneSyncIsExact ==
  [][\A t \in Threads :
       note[t].alone /\ Syncing(t) /\ note'[t].pc = "off"
         => expected' = note[t].names]_vars

(* A stopped receiver goes away, wherever in its session the stop met it.  *)
StoppedRunsEnd ==
  \A i \in Runs :
    Cancelled(i) /\ run[i].state # "none" ~> run[i].state = "done" \/ ~ Running

(* Every request is answered and StopAll returns: nobody waits for ever.   *)
CallersFinish ==
  \A c \in Callers : todo[c] # <<>> ~> todo[c] = <<>> \/ ~ Running
=============================================================================
