------------------------------- MODULE Alerts -------------------------------
(***************************************************************************)
(* The alert feed of the dashboard (monitoring/eventlog.go and the event   *)
(* half of monitoring/conversation.go): rate-limited events, a ring of the *)
(* latest ones, and clients that follow them over server-sent events.      *)
(*                                                                         *)
(* Every goroutine of the program may raise events; an event is numbered   *)
(* when the bus is locked for it.  What an event says is left out, and so  *)
(* are the per-PMU fields lastError, lastHandshake and lastEventTime.      *)
(***************************************************************************)
EXTENDS Integers, Sequences, FiniteSets, SequencesExt

CONSTANTS
  Threads,     \* goroutines that raise events
  Clients,     \* browsers on /conversation/events
  None,        \* no event
  RingSize,    \* maxConversationEvents
  ChannelSize  \* of a client's channel

ASSUME SizeAssumption == RingSize \in Nat \ {0} /\ ChannelSize \in Nat \ {0}

VARIABLES
  recent,      \* keys logged less than the rate limit ago
  pending,     \* the event a goroutine has logged and not yet put on the bus
  raised,      \* events put on the bus so far: the number of the last one
  ring,        \* conversationBus.events
  subscribers, \* clients whose channels conversationBus.subscribers holds
  closed,      \* clients whose channels are closed
  channel,     \* what each client's channel holds
  written,     \* history: what each client was sent
  step,        \* where handleConversationEvents is
  first,       \* history: the oldest event a client is owed
  lossy        \* history: clients whose channel was full when an event came

busVars == <<raised, ring>>
clientVars == <<subscribers, closed, channel, written, step, first, lossy>>
alertVars == <<recent, pending, busVars, clientVars>>

-----------------------------------------------------------------------------
(* Some statuses and stages: errors, what the manager does, heartbeats. *)
Errorish(kind) == kind \in {"parse error", "quality rejected"}

UiWorthy(kind) == Errorish(kind) \/ kind = "manager ok"

AlertsInit ==
  /\ recent = {}
  /\ pending = [t \in Threads |-> None]
  /\ raised = 0 /\ ring = <<>>
  /\ subscribers = {} /\ closed = {} /\ lossy = {}
  /\ channel = [c \in Clients |-> <<>>]
  /\ written = [c \in Clients |-> <<>>]
  /\ step = [c \in Clients |-> "visit"]
  /\ first = [c \in Clients |-> 0]

(* logEvent: the same thread, stage and status again within the limit is   *)
(* dropped, from the feed as well.                                         *)
Log(t, kind) ==
  /\ pending[t] = None
  /\ recent' = recent \cup {<<t, kind>>}
  /\ pending' = IF <<t, kind>> \in recent \/ ~ UiWorthy(kind) THEN pending
                ELSE [pending EXCEPT ![t] = kind]

Expire(key) ==
  /\ key \in recent
  /\ recent' = recent \ {key}
  /\ UNCHANGED <<pending, busVars, clientVars>>

(* Events on the bus or on their way to it. *)
Underway == raised + Cardinality({t \in Threads : pending[t] # None})

Newest(seq, n) == SubSeq(seq, IF Len(seq) > n THEN Len(seq) - n + 1 ELSE 1, Len(seq))

(* RecordConversation under the bus's lock: the ring, and every channel     *)
(* that has room.                                                          *)
Post(t) ==
  /\ pending[t] # None
  /\ pending' = [pending EXCEPT ![t] = None]
  /\ raised' = raised + 1
  /\ ring' = Newest(Append(ring, raised'), RingSize)
  /\ channel' = [c \in Clients |->
                   IF c \in subscribers /\ Len(channel[c]) < ChannelSize
                   THEN Append(channel[c], raised') ELSE channel[c]]
  /\ lossy' = lossy \cup {c \in subscribers : Len(channel[c]) >= ChannelSize}
  /\ UNCHANGED <<recent, subscribers, closed, written, step, first>>

-----------------------------------------------------------------------------
(* handleConversationEvents. *)

(* Mutant of Opening: the backlog is copied before the client subscribes. *)
CopyFirst == <<"visit", "copy", "subscribe", "stream">>

(* The order of its steps. *)
Opening == <<"visit", "subscribe", "copy", "stream">>

Closing == <<"stream", "unsubscribe", "close", "gone">>

After(steps, name) ==
  LET at == CHOOSE i \in DOMAIN steps : steps[i] = name IN steps[at + 1]

Goes(c, name) == step' = [step EXCEPT ![c] = name]

Visit(c) ==
  /\ step[c] = "visit" /\ Goes(c, After(Opening, "visit"))
  /\ UNCHANGED <<recent, pending, busVars, subscribers, closed, channel,
                 written, first, lossy>>

(* addSubscriber *)
Subscribe(c) ==
  /\ step[c] = "subscribe" /\ Goes(c, After(Opening, "subscribe"))
  /\ subscribers' = subscribers \cup {c}
  /\ UNCHANGED <<recent, pending, busVars, closed, channel, written, first, lossy>>

(* snapshotEvents, and what is written of it, to a slow client perhaps. *)
Copy(c) ==
  /\ step[c] = "copy" /\ Goes(c, After(Opening, "copy"))
  /\ written' = [written EXCEPT ![c] = ring]
  /\ first' = [first EXCEPT ![c] = IF ring = <<>> THEN raised + 1 ELSE Head(ring)]
  /\ UNCHANGED <<recent, pending, busVars, subscribers, closed, channel, lossy>>

(* An event from the channel.  When it comes is the client's affair. *)
Follow(c) ==
  /\ step[c] = "stream" /\ channel[c] # <<>>
  /\ written' = [written EXCEPT ![c] = Append(@, Head(channel[c]))]
  /\ channel' = [channel EXCEPT ![c] = Tail(@)]
  /\ UNCHANGED <<recent, pending, busVars, subscribers, closed, step, first, lossy>>

(* The client hangs up: the deferred removeSubscriber. *)
Leave(c) ==
  /\ step[c] = "stream" /\ Goes(c, After(Closing, "stream"))
  /\ UNCHANGED <<recent, pending, busVars, subscribers, closed, channel,
                 written, first, lossy>>

Unsubscribe(c) ==
  /\ step[c] = "unsubscribe" /\ Goes(c, After(Closing, "unsubscribe"))
  /\ subscribers' = subscribers \ {c}
  /\ UNCHANGED <<recent, pending, busVars, closed, channel, written, first, lossy>>

Close(c) ==
  /\ step[c] = "close" /\ Goes(c, After(Closing, "close"))
  /\ closed' = closed \cup {c}
  /\ UNCHANGED <<recent, pending, busVars, subscribers, channel, written, first, lossy>>

(* The steps of the clients that come, and of everybody else. *)
AlertsNext(coming) ==
  \/ \E t \in Threads : Post(t)
  \/ \E key \in recent : Expire(key)
  \/ \E c \in coming :
       \/ Visit(c) \/ Subscribe(c) \/ Copy(c) \/ Follow(c)
       \/ Leave(c) \/ Unsubscribe(c) \/ Close(c)

-----------------------------------------------------------------------------
(* A client gets the backlog and all that follows: no event falls between   *)
(* the copy and the stream, and none after it unless the client's channel  *)
(* was full (monitoring/conversation.go:861).                              *)
FeedHasNoGap ==
  \A c \in Clients :
    step[c] = "stream" /\ c \notin lossy =>
      first[c] .. raised \subseteq ToSet(written[c]) \cup ToSet(channel[c])

(* No event is ever sent on a closed channel, which would be a panic       *)
(* (monitoring/conversation.go:1057).                                      *)
NeverSendsOnClosed == subscribers \cap closed = {}

FeedIsSafe == FeedHasNoGap /\ NeverSendsOnClosed
=============================================================================
