------------------------------ MODULE Session -------------------------------
(***************************************************************************)
(* One receiver and its PMU (receiver/receiver.go), over each of the three *)
(* transports: TCP for everything; "dial", one UDP socket for everything;  *)
(* "listen", TCP for commands and their replies, UDP for DATA.  A TCP      *)
(* connection delivers in order or breaks, UDP loses and reorders.         *)
(*                                                                         *)
(* A CFG-2 frame is the layout it announces and the version of its SYNC    *)
(* word; a DATA frame is the layout it was encoded with and STAT bit 13.   *)
(* Of some layouts ParseCFG2Frame may refuse the CFG-2.                    *)
(* Times are steps that may come at any moment the code waits: the 500 ms  *)
(* of a CFG-2 request, the handshake's deadline (after MaxAttempts of      *)
(* them), the 2 s of grace after bit 13, the liveness timeout.             *)
(***************************************************************************)
EXTENDS Integers, Sequences, SequencesExt

CONSTANTS
  Transports,   \* those in use, of "tcp", "dial" and "listen"
  MaxLayout,    \* bound: layouts of the PMU
  MayRefuse,    \* bound: those whose CFG-2 the parser may refuse
  MaxAttempts,  \* CFG-2 requests that fit in the handshake's deadline
  WireSize      \* bound: DATA frames under way

ASSUME SessionAssumption ==
  /\ Transports \subseteq {"tcp", "dial", "listen"}
  /\ {MaxLayout, MaxAttempts, WireSize} \subseteq Nat \ {0}

VARIABLES
  transport,
  simple,      \* C37118_SIMPLE_HANDSHAKE is not 0
  pc,          \* where the receiver's goroutine is
  attempt,     \* CFG-2 requests of this handshake
  cmdVersion,  \* Receiver.cmdVersion, 0 before the first CFG-2
  watch,       \* cfgChangeWatch: "clear", "seen" or "requested"
  profile,     \* the layout registered for this PMU, 0 if none
  decoded,     \* the last DATA frame dispatched and the profile it met
  cancelled,   \* the receiver's context is cancelled
  commands,    \* on their way to the PMU
  wire,        \* on their way to the socket the stream is read from
  control,     \* "listen" only: on their way to the TCP control connection
  layout,      \* of the PMU
  bit13,       \* the PMU announces a change nobody has fetched yet
  streaming,   \* the PMU sends DATA
  speaks,      \* the SYNC versions the PMU obeys
  unreadable   \* its layouts whose CFG-2 ParseCFG2Frame refuses

receiverVars == <<pc, attempt, cmdVersion, watch, profile, decoded, cancelled>>
linkVars == <<commands, wire, control>>
pmuVars == <<layout, bit13, streaming>>
fixed == <<transport, simple, speaks, unreadable>>
vars == <<fixed, receiverVars, linkVars, pmuVars>>

NoData == [layout |-> 0, bit13 |-> FALSE, as |-> 0]

Init ==
  /\ transport \in Transports /\ simple \in {s \in BOOLEAN : transport = "dial" => s}
  /\ pc = "dial" /\ attempt = 0 /\ cmdVersion = 0 /\ watch = "clear"
  /\ profile = 0 /\ decoded = NoData /\ cancelled = FALSE
  /\ commands = <<>> /\ wire = <<>> /\ control = <<>>
  /\ layout = 1 /\ bit13 = FALSE /\ streaming \in BOOLEAN
  /\ speaks \in SUBSET {1, 2} \ {{}} /\ unreadable \in SUBSET MayRefuse

-----------------------------------------------------------------------------
(* The link. *)

Udp == transport # "tcp"

(* The places in a channel from which the next read may take its frame. *)
Readable(channel, udp) == {i \in DOMAIN channel : udp \/ i = 1}

Command(cmd, ver) == commands' = Append(commands, [cmd |-> cmd, ver |-> ver])

(* cmdSyncVer: what the PMU's CFG-2 said, version 2 by default. *)
cmdSyncVer == IF cmdVersion = 0 THEN 2 ELSE cmdVersion

(* A datagram is lost: on the stream's socket, or a command in "dial". *)
Lose ==
  /\ \/ /\ Udp
        /\ \E i \in DOMAIN wire : wire' = RemoveAt(wire, i)
        /\ UNCHANGED commands
     \/ /\ transport = "dial"
        /\ \E i \in DOMAIN commands : commands' = RemoveAt(commands, i)
        /\ UNCHANGED wire
  /\ UNCHANGED <<fixed, receiverVars, control, pmuVars>>

(* The sockets are closed, and what was under way on them is gone; the PMU *)
(* may notice, or go on streaming to nobody.                               *)
Closed ==
  /\ commands' = <<>> /\ wire' = <<>> /\ control' = <<>>
  /\ streaming' \in {streaming, FALSE}
  /\ UNCHANGED <<fixed, layout, bit13>>

-----------------------------------------------------------------------------
(* The receiver: dial and handshake. *)

At(where) == pc = where

quiet == <<watch, profile, decoded, cancelled>>

Dial ==
  /\ At("dial")
  /\ pc' = (IF simple THEN "ask" ELSE "off") /\ attempt' = 0
  /\ UNCHANGED <<fixed, cmdVersion, quiet, linkVars, pmuVars>>

(* The long handshake: DATA_OFF, then a wait for the HEADER.                *)
AskHeader ==
  /\ At("off")
  /\ commands' = commands \o <<[cmd |-> "off", ver |-> cmdSyncVer],
                               [cmd |-> "hdr", ver |-> cmdSyncVer]>>
  /\ pc' = "header"
  /\ UNCHANGED <<fixed, attempt, cmdVersion, quiet, wire, control, pmuVars>>

(* One CFG-2 request: version 1 on odd attempts, 2 on even ones. *)
Ask ==
  /\ At("ask") /\ ~ cancelled
  /\ attempt' = attempt + 1
  /\ Command("cfg2", IF attempt' % 2 = 1 THEN 1 ELSE 2)
  /\ pc' = "wait"
  /\ UNCHANGED <<fixed, cmdVersion, quiet, wire, control, pmuVars>>

(* Mutant of WaitTimesOut: the deadline is not looked at. *)
WaitForEver ==
  /\ At("wait")
  /\ attempt <= MaxAttempts /\ pc' = "ask"
  /\ UNCHANGED <<fixed, attempt, cmdVersion, quiet, linkVars, pmuVars>>

WaitTimesOut ==
  /\ At("wait")
  /\ attempt < MaxAttempts /\ pc' = "ask"
  /\ UNCHANGED <<fixed, attempt, cmdVersion, quiet, linkVars, pmuVars>>

(* The frame at place i of the channel replies are read from. *)
Replies == IF transport = "listen" THEN control ELSE wire

TakeReply(i) ==
  IF transport = "listen"
  THEN control' = RemoveAt(control, i) /\ UNCHANGED <<commands, wire>>
  ELSE wire' = RemoveAt(wire, i) /\ UNCHANGED <<commands, control>>

(* Whatever comes but DATA ends the wait for the HEADER, and so does time. *)
HeaderWaitEnds ==
  /\ At("header")
  /\ \/ \E i \in Readable(Replies, FALSE) : Replies[i].type # "data" /\ TakeReply(i)
     \/ UNCHANGED linkVars
  /\ pc' = "ask"
  /\ UNCHANGED <<fixed, attempt, cmdVersion, quiet, pmuVars>>

(* DATA of an earlier session is skipped. *)
SkipData ==
  /\ pc \in {"header", "wait"}
  /\ \E i \in Readable(Replies, transport = "dial") :
       Replies[i].type = "data" /\ TakeReply(i)
  /\ UNCHANGED <<fixed, receiverVars, pmuVars>>

(* A CFG-2 the parser takes, or refuses. *)
Parses(frame) == frame.type = "cfg2" /\ frame.layout \notin unreadable

Refused(frame) == frame.type = "cfg2" /\ frame.layout \in unreadable

(* Mutant of GotCfg2: the PMU's version is not remembered. *)
GotCfg2Only ==
  /\ At("wait")
  /\ \E i \in Readable(Replies, transport = "dial") :
       /\ Parses(Replies[i])
       /\ profile' = Replies[i].layout
       /\ TakeReply(i)
  /\ pc' = "on"
  /\ UNCHANGED <<fixed, attempt, cmdVersion, watch, decoded, cancelled,
                 pmuVars>>

GotCfg2 ==
  /\ At("wait")
  /\ \E i \in Readable(Replies, transport = "dial") :
       /\ Parses(Replies[i])
       /\ profile' = Replies[i].layout
       /\ cmdVersion' = Replies[i].ver
       /\ TakeReply(i)
  /\ pc' = "on"
  /\ UNCHANGED <<fixed, attempt, watch, decoded, cancelled, pmuVars>>

(* The parser refuses it: its version is remembered, the handshake fails. *)
RefusedCfg2 ==
  /\ At("wait")
  /\ \E i \in Readable(Replies, transport = "dial") :
       Refused(Replies[i]) /\ cmdVersion' = Replies[i].ver
  /\ pc' = IF cancelled THEN "done" ELSE "backoff"
  /\ Closed
  /\ UNCHANGED <<attempt, quiet>>

SendOn ==
  /\ At("on")
  /\ Command("on", cmdSyncVer)
  /\ pc' = "start"
  /\ UNCHANGED <<fixed, attempt, cmdVersion, quiet, wire, control, pmuVars>>

(* Mutant of ConnectFails: the context is not looked at. *)
ConnectRetries ==
  /\ pc \in {"dial", "off", "ask", "wait", "on"}
  /\ pc' = "backoff"
  /\ Closed
  /\ UNCHANGED <<attempt, cmdVersion, quiet>>

(* No connection, a bad or unexpected frame (a HEADER that comes late), the *)
(* handshake's deadline, or a cancelled context.                            *)
ConnectFails ==
  /\ pc \in {"dial", "off", "ask", "wait", "on"}
  /\ pc' = IF cancelled THEN "done" ELSE "backoff"
  /\ Closed
  /\ UNCHANGED <<attempt, cmdVersion, quiet>>

(* Run's select: both branches may be ready. *)
Backoff ==
  /\ At("backoff")
  /\ pc' = "dial" \/ (cancelled /\ pc' = "done")
  /\ UNCHANGED <<fixed, attempt, cmdVersion, quiet, linkVars, pmuVars>>

-----------------------------------------------------------------------------
(* The receiver: the stream. *)

(* onSessionStart, and a new watch. *)
SessionStart ==
  /\ At("start")
  /\ pc' = "stream" /\ watch' = "clear" /\ decoded' = NoData
  /\ UNCHANGED <<fixed, attempt, cmdVersion, profile, cancelled, linkVars,
                 pmuVars>>

(* The grace after bit 13 is over: CFG-2 is requested, once.  (A write     *)
(* that fails is logged and tried again by the next round of the loop,     *)
(* unless its connection is gone, and then the read fails: StreamBreaks.)  *)
RequestCfg2 ==
  /\ At("stream") /\ watch = "seen"
  /\ Command("cfg2", cmdSyncVer)
  /\ watch' = "requested"
  /\ UNCHANGED <<fixed, pc, attempt, cmdVersion, profile, decoded, cancelled,
                 wire, control, pmuVars>>

NextFrame(type, i) ==
  /\ At("stream")
  /\ i \in Readable(wire, Udp) /\ wire[i].type = type
  /\ wire' = RemoveAt(wire, i)

(* DATA: bit 13 starts the watch, then HandleFrame decodes. *)
ReceiveData ==
  /\ \E i \in DOMAIN wire :
       /\ NextFrame("data", i)
       /\ decoded' = [layout |-> wire[i].layout, bit13 |-> wire[i].bit13,
                      as |-> profile]
       /\ watch' = IF wire[i].bit13 /\ watch = "clear" THEN "seen" ELSE watch
  /\ UNCHANGED <<fixed, pc, attempt, cmdVersion, profile, cancelled, commands,
                 control, pmuVars>>

(* Mutants of MidstreamCfg2: only a CFG-2 that was asked for counts; the *)
(* watch stays.                                                          *)
RequestedCfg2Only ==
  /\ \E i \in DOMAIN wire :
       /\ NextFrame("cfg2", i)
       /\ profile' = IF watch = "requested" /\ Parses(wire[i])
                     THEN wire[i].layout ELSE profile
       /\ watch' = IF Parses(wire[i]) THEN "clear" ELSE watch
  /\ UNCHANGED <<fixed, pc, attempt, cmdVersion, decoded, cancelled, commands,
                 control, pmuVars>>

Cfg2KeepsWatch ==
  /\ \E i \in DOMAIN wire :
       /\ NextFrame("cfg2", i)
       /\ profile' = IF Parses(wire[i]) THEN wire[i].layout ELSE profile
  /\ UNCHANGED <<fixed, pc, attempt, cmdVersion, watch, decoded, cancelled,
                 commands, control, pmuVars>>

(* applyMidstreamCFG2, of a reply or of a late reply of the handshake: a   *)
(* CFG-2 the parser refuses changes neither profile nor watch, and the     *)
(* stream goes on.                                                         *)
MidstreamCfg2 ==
  /\ \E i \in DOMAIN wire :
       /\ NextFrame("cfg2", i)
       /\ \/ /\ Parses(wire[i])
             /\ profile' = wire[i].layout /\ watch' = "clear"
          \/ /\ Refused(wire[i])
             /\ UNCHANGED <<profile, watch>>
  /\ UNCHANGED <<fixed, pc, attempt, cmdVersion, decoded, cancelled, commands,
                 control, pmuVars>>

(* drainTCPQuiet: in "listen" the control connection is read and forgotten. *)
DrainControl ==
  /\ At("stream") /\ control # <<>>
  /\ control' = Tail(control)
  /\ UNCHANGED <<fixed, receiverVars, commands, wire, pmuVars>>

(* Mutant of StreamBreaks: one way out of the loop does not end the session. *)
StreamBreaksUntold ==
  /\ At("stream")
  /\ pc' \in {"end", "ended"}
  /\ UNCHANGED <<fixed, attempt, cmdVersion, quiet, linkVars, pmuVars>>

(* A read error or the liveness timeout; or a cancelled context, met by the  *)
(* loop, which sends DATA_OFF to a connection that is about to be closed.     *)
StreamBreaks ==
  /\ At("stream")
  /\ pc' = "end"
  /\ UNCHANGED <<fixed, attempt, cmdVersion, quiet, linkVars, pmuVars>>

(* endSession *)
SessionEnd ==
  /\ At("end")
  /\ pc' = "ended"
  /\ UNCHANGED <<fixed, attempt, cmdVersion, quiet, linkVars, pmuVars>>

SessionOver ==
  /\ At("ended")
  /\ pc' = IF cancelled THEN "done" ELSE "backoff"
  /\ Closed
  /\ UNCHANGED <<attempt, cmdVersion, quiet>>

Receive == ReceiveData \/ MidstreamCfg2

Handshaking ==
  \/ Dial \/ AskHeader \/ HeaderWaitEnds
  \/ Ask \/ WaitTimesOut \/ SkipData \/ GotCfg2 \/ RefusedCfg2 \/ SendOn

Receiver ==
  \/ Handshaking \/ ConnectFails \/ Backoff
  \/ SessionStart \/ RequestCfg2 \/ Receive \/ StreamBreaks
  \/ SessionEnd \/ SessionOver

Cancel ==
  /\ ~ cancelled
  /\ cancelled' = TRUE
  /\ UNCHANGED <<fixed, pc, attempt, cmdVersion, watch, profile, decoded,
                 linkVars, pmuVars>>

-----------------------------------------------------------------------------
(* The PMU, as far as the code relies on it: it obeys the versions it      *)
(* speaks, replies on the connection it was asked on, in a version it      *)
(* speaks, with a HEADER if it has one, and keeps bit 13 up from a change  *)
(* until it has sent the CFG-2 that announces it.                          *)

Cfg2(ver) == [type |-> "cfg2", layout |-> layout, bit13 |-> FALSE, ver |-> ver]

Header == [type |-> "hdr", layout |-> layout, bit13 |-> FALSE, ver |-> 0]

Reply(frame) ==
  IF transport = "listen"
  THEN control' = Append(control, frame) /\ UNCHANGED wire
  ELSE wire' = Append(wire, frame) /\ UNCHANGED control

PmuObeys ==
  /\ \E i \in Readable(commands, transport = "dial") :
       LET c == commands[i]
           obeyed(cmd) == c.cmd = cmd /\ c.ver \in speaks
       IN
       /\ commands' = RemoveAt(commands, i)
       /\ \/ obeyed("cfg2") /\ (\E ver \in speaks : Reply(Cfg2(ver)))
          \/ obeyed("hdr") /\ Reply(Header)
          \/ ~ obeyed("cfg2") /\ UNCHANGED <<wire, control>>
       /\ bit13' = (bit13 /\ ~ obeyed("cfg2"))
       /\ streaming' = ((streaming \/ obeyed("on")) /\ ~ obeyed("off"))
  /\ UNCHANGED <<fixed, receiverVars, layout>>

PmuSends ==
  /\ streaming /\ Len(wire) < WireSize
  /\ pc \in {"off", "header", "ask", "wait", "on", "start", "stream"}
  /\ wire' = Append(wire, [type |-> "data", layout |-> layout, bit13 |-> bit13,
                           ver |-> 0])
  /\ UNCHANGED <<fixed, receiverVars, commands, control, pmuVars>>

PmuReconfigures ==
  /\ layout < MaxLayout
  /\ layout' = layout + 1
  /\ bit13' = TRUE
  /\ UNCHANGED <<fixed, receiverVars, linkVars, streaming>>

Pmu == PmuObeys \/ PmuSends \/ PmuReconfigures

Next == Receiver \/ DrainControl \/ Lose \/ Cancel \/ Pmu

(* The scheduler runs the receiver; a stream may last for ever, one whose  *)
(* context is cancelled does not, and a wait for CFG-2 ends by its         *)
(* deadline however much DATA there is to skip.  What arrives is read, and *)
(* the PMU answers what it gets.                                           *)
WaitEnds == At("wait") /\ (WaitTimesOut \/ GotCfg2 \/ RefusedCfg2 \/ ConnectFails)

Progress == Receiver /\ ~ (At("stream") /\ pc' = "end" /\ ~ cancelled)

Spec ==
  /\ Init /\ [][Next]_vars
  /\ WF_vars(Progress) /\ WF_vars(WaitEnds) /\ WF_vars(HeaderWaitEnds)
  /\ WF_vars(cancelled /\ StreamBreaks)
  /\ WF_vars(Receive) /\ WF_vars(RequestCfg2) /\ WF_vars(DrainControl)
  /\ WF_vars(PmuObeys)

(* A PMU that goes on streaming, and some of whose DATA gets through: no *)
(* liveness timeout is due.                                              *)
StreamingSpec == Spec /\ WF_vars(PmuSends) /\ SF_vars(Receive)

-----------------------------------------------------------------------------
(* Properties. *)

Places == {"dial", "off", "header", "ask", "wait", "on", "start", "stream", "end", "ended",
           "backoff", "done"}

Frame == [type : {"data", "cfg2", "hdr"}, layout : 1 .. MaxLayout, bit13 : BOOLEAN, ver : 0 .. 2]

(* Every variable has its type; a handshake keeps to its deadline. *)
TypeOK ==
  /\ transport \in Transports /\ simple \in BOOLEAN
  /\ pc \in Places
  /\ attempt \in 0 .. MaxAttempts
  /\ cmdVersion \in 0 .. 2
  /\ watch \in {"clear", "seen", "requested"}
  /\ profile \in 0 .. MaxLayout
  /\ decoded \in [layout : 0 .. MaxLayout, bit13 : BOOLEAN, as : 0 .. MaxLayout]
  /\ cancelled \in BOOLEAN
  /\ commands \in Seq([cmd : {"off", "hdr", "cfg2", "on"}, ver : {1, 2}])
  /\ wire \in Seq(Frame) /\ control \in Seq(Frame)
  /\ layout \in 1 .. MaxLayout
  /\ bit13 \in BOOLEAN /\ streaming \in BOOLEAN
  /\ speaks \subseteq {1, 2} /\ unreadable \subseteq MayRefuse

(* DATA_ON, sent once, is in a version the PMU obeys, though the handshake *)
(* has tried both and replies may come late ("so later DATA_ON / DATA_OFF  *)
(* match what the device speaks", receiver.go:1123): a session whose       *)
(* commands go over TCP streams in the end, or breaks.                     *)
SessionsStream ==
  transport # "dial" => (pc = "stream" ~> streaming \/ pc # "stream")

(* Over TCP a DATA frame is decoded with the layout it was encoded with,   *)
(* unless it says itself, by bit 13, that CFG-2 is due, or its CFG-2 is    *)
(* one the parser refuses: whenever the PMU reconfigures, and however late *)
(* replies to the handshake's requests come (receiver.go, "mid-stream      *)
(* CFG-2 soft refresh").                                                   *)
DecodedInItsLayout ==
  transport = "tcp" =>
    \/ decoded.layout = decoded.as
    \/ decoded.bit13 \/ decoded.layout \in unreadable

(* The manager's view of a receiver: see SessionSkeleton. *)
managerState ==
  IF pc \in {"dial", "off", "header", "ask", "wait", "on"} THEN "dial"
  ELSE IF pc = "start" THEN "handshaken" ELSE pc
Skeleton == INSTANCE SessionSkeleton WITH state <- managerState
SkeletonSpec == Skeleton!Spec

(* "cfgChangeWatch tracks 'config changed' until a new CFG-2 arrives"      *)
(* (receiver.go:349): a stream that has seen bit 13 gets the new profile,  *)
(* or breaks.                                                              *)
Refreshed == watch # "clear" /\ pc = "stream" ~> watch = "clear" \/ pc # "stream"

(* Over TCP every stream of a PMU whose CFG-2 can be read is refreshed.    *)
(* (RefreshedWhateverComes, which no run checks, is what would hold if a   *)
(* refused CFG-2 ended the wait: see the README.)                          *)
RefreshedOverTCP == transport = "tcp" /\ unreadable = {} => Refreshed

RefreshedWhateverComes == transport = "tcp" => Refreshed

(* A cancelled receiver ends, wherever the cancel meets it. *)
CancelledEnds == cancelled ~> pc = "done"
=============================================================================
