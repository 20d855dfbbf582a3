---------------------------- MODULE WsConnection ----------------------------
(***************************************************************************)
(* One WebSocket connection (api/ws.rs handle_ws_connection): the main     *)
(* loop that reads the client, one task per call or batch, the relay of    *)
(* reth's messages, and the writer that drains the bounded channel to the  *)
(* client.  An await of the code is a state of its task.  The client and   *)
(* reth are external: they send, read and go away when they like.          *)
(*                                                                         *)
(* An aborted task stops at its next await, so a step under way may still  *)
(* finish: abort lets every task go on or be cancelled.                    *)
(***************************************************************************)
EXTENDS Naturals, Sequences, FiniteSets

CONSTANTS
  Messages,     \* the frames the client may send
  NoMessage,    \* "the main loop holds no message"
  Kind,         \* what each frame is
  Size,         \* the number of requests in it
  Buffer,       \* CLIENT_SEND_BUFFER
  MaxInFlight,  \* MAX_INFLIGHT_REQUESTS
  MaxEvents     \* bound on the messages reth sends

\* "invalid" is a frame that is not JSON-RPC or an empty batch, "denied" a
\* subscription the security settings refuse.  A ping, a pong or a frame that is
\* not UTF-8 is answered by nobody and leaves the loop in its read: a stutter.
Kinds == {"invalid", "denied", "subscribe", "call"}

ASSUME MessagesAssumption ==
  /\ IsFiniteSet(Messages)
  /\ NoMessage \notin Messages
  /\ Kind \in [Messages -> Kinds]
  /\ Size \in [Messages -> Nat \ {0}]
ASSUME LimitsAssumption ==
  Buffer \in Nat \ {0} /\ MaxInFlight \in Nat \ {0} /\ MaxEvents \in Nat

VARIABLES
  main,       \* the await of the main task
  cur,        \* the message it handles
  msg,        \* how far each message got
  free,       \* permits left in inflight_semaphore
  relay,      \* the await of the relay task
  taken,      \* how many of reth's messages the relay took
  channel,    \* the mpsc channel to the writer
  writer,     \* the await of the writer task
  hand,       \* what the writer took from the channel: at most one item
  delivered   \* history: what was written to the client

vars == <<main, cur, msg, free, relay, taken, channel, writer, hand, delivered>>

Reply(m) == [kind |-> "reply", of |-> m]
Event(n) == [kind |-> "event", of |-> n]
Item == {Reply(m) : m \in Messages} \cup {Event(n) : n \in 1..MaxEvents}

TypeOK ==
  /\ main \in {"connect", "refuse", "read", "reply", "forward", "close_reth", "flush", "closed"}
  /\ cur \in Messages \cup {NoMessage}
  /\ msg \in [Messages -> {"unread", "handling", "forwarded", "running", "replying",
                           "sent", "panicked", "cancelled", "dropped"}]
  /\ free \in 0..MaxInFlight
  /\ relay \in {"read", "send", "ended"}
  /\ taken \in 0..MaxEvents
  /\ channel \in Seq(Item)
  /\ writer \in {"recv", "write", "close", "ended"}
  /\ hand \in Seq(Item) /\ Len(hand) <= 1
  /\ delivered \in Seq(Item)

\* No task exists before reth is connected.
Init ==
  /\ main = "connect"
  /\ cur = NoMessage
  /\ msg = [m \in Messages |-> "unread"]
  /\ free = MaxInFlight
  /\ relay = "ended"
  /\ taken = 0
  /\ channel = <<>>
  /\ writer = "ended"
  /\ hand = <<>>
  /\ delivered = <<>>

-----------------------------------------------------------------------------
(* The channel. *)

taskVars == <<main, cur, free>>
pipeVars == <<relay, taken, channel, writer, hand, delivered>>

\* Mutant: a channel without a bound.
EnqueueUnbounded(item) ==
  /\ writer # "ended"
  /\ channel' = Append(channel, item)

\* client_tx.send: waits for room; fails once the writer is gone.
Enqueue(item) ==
  /\ writer # "ended"
  /\ Len(channel) < Buffer
  /\ channel' = Append(channel, item)

Disconnected == writer = "ended"

\* Messages whose task is alive hold permits.
Live == {m \in Messages : msg[m] \in {"running", "replying"}}

\* A call takes one permit, a batch one for each request up to the limit.
Permits(m) == IF Size[m] < MaxInFlight THEN Size[m] ELSE MaxInFlight

-----------------------------------------------------------------------------
(* The main task. *)

Connected ==
  /\ main = "connect"
  /\ main' = "read"
  /\ relay' = "read"
  /\ writer' = "recv"
  /\ UNCHANGED <<cur, msg, free, taken, channel, hand, delivered>>

ConnectFails ==
  /\ main = "connect"
  /\ main' = "refuse"
  /\ UNCHANGED <<cur, msg, free, pipeVars>>

\* send_error_and_close returns.
Refused ==
  /\ main = "refuse"
  /\ main' = "closed"
  /\ UNCHANGED <<cur, msg, free, pipeVars>>

\* The loop ends: abort_all, then close reth.
Leave == main' = "close_reth" /\ cur' = NoMessage

Handle(m, await) ==
  /\ main' = await
  /\ cur' = m
  /\ msg' = [msg EXCEPT ![m] = "handling"]
  /\ UNCHANGED free

\* Errors and refusals are answered by the main loop itself.
ReadRefused(m) ==
  /\ main = "read"
  /\ msg[m] = "unread"
  /\ Kind[m] \in {"invalid", "denied"}
  /\ Handle(m, "reply")
  /\ UNCHANGED pipeVars

ReadSubscribe(m) ==
  /\ main = "read"
  /\ msg[m] = "unread"
  /\ Kind[m] = "subscribe"
  /\ Handle(m, "forward")
  /\ UNCHANGED pipeVars

\* A call or batch: a task with its permits, or "server busy" at once.
ReadCall(m) ==
  /\ main = "read"
  /\ msg[m] = "unread"
  /\ Kind[m] = "call"
  /\ \/ /\ free >= Permits(m)
        /\ msg' = [msg EXCEPT ![m] = "running"]
        /\ free' = free - Permits(m)
        /\ UNCHANGED <<main, cur>>
     \/ /\ free < Permits(m)
        /\ Handle(m, "reply")
  /\ UNCHANGED pipeVars

\* Mutant: no idle timeout, a lost client is noticed by its writer.
ReadEndsUntimed ==
  /\ main = "read"
  /\ Disconnected
  /\ Leave
  /\ UNCHANGED <<msg, free, pipeVars>>

\* The client closes, its stream fails, or WS_IDLE_TIMEOUT passes.
ReadEnds ==
  /\ main = "read"
  /\ Leave
  /\ UNCHANGED <<msg, free, pipeVars>>

\* Mutant: a failed send is retried.
MainRepliesRetries ==
  /\ main = "reply"
  /\ Enqueue(Reply(cur))
  /\ msg' = [msg EXCEPT ![cur] = "sent"]
  /\ main' = "read"
  /\ cur' = NoMessage
  /\ UNCHANGED <<free, relay, taken, writer, hand, delivered>>

\* send_value of the main loop.
MainReplies ==
  /\ main = "reply"
  /\ \/ /\ Enqueue(Reply(cur))
        /\ msg' = [msg EXCEPT ![cur] = "sent"]
        /\ main' = "read"
        /\ cur' = NoMessage
     \/ /\ Disconnected
        /\ msg' = [msg EXCEPT ![cur] = "dropped"]
        /\ Leave
        /\ UNCHANGED channel
  /\ UNCHANGED <<free, relay, taken, writer, hand, delivered>>

\* reth took the subscription request, or its connection is broken.
Forwarded ==
  /\ main = "forward"
  /\ \/ main' = "read" /\ cur' = NoMessage /\ msg' = [msg EXCEPT ![cur] = "forwarded"]
     \/ Leave /\ msg' = [msg EXCEPT ![cur] = "dropped"]
  /\ UNCHANGED <<free, pipeVars>>

\* reth took the close frame, or its connection is broken: client_tx is dropped
\* and the relay aborted.
RethClosed ==
  /\ main = "close_reth"
  /\ main' = "flush"
  /\ UNCHANGED <<cur, msg, free, pipeVars>>

\* Mutant: the handler waits for the writer without a timeout.
FlushUnbounded ==
  /\ main = "flush"
  /\ writer = "ended"
  /\ main' = "closed"
  /\ UNCHANGED <<cur, msg, free, pipeVars>>

\* The writer ended, or WRITER_SHUTDOWN_TIMEOUT passed and it is left alone.
FlushEnds ==
  /\ main = "flush"
  /\ main' = "closed"
  /\ UNCHANGED <<cur, msg, free, pipeVars>>

-----------------------------------------------------------------------------
(* The request tasks. *)

Aborted == main \in {"close_reth", "flush", "closed"}

\* The permits of m's task are dropped with it.
Release(m, result) ==
  /\ msg' = [msg EXCEPT ![m] = result]
  /\ free' = free + Permits(m)

\* Mutant: the permit is dropped before the send.
TaskComputedReleases(m) ==
  /\ msg[m] = "running"
  /\ Release(m, "replying")
  /\ UNCHANGED <<main, cur, pipeVars>>

\* route_and_process, or the whole batch, is done.
TaskComputed(m) ==
  /\ msg[m] = "running"
  /\ msg' = [msg EXCEPT ![m] = "replying"]
  /\ UNCHANGED <<taskVars, pipeVars>>

\* Mutant: a panic keeps the permits.
TaskPanicsHolding(m) ==
  /\ msg[m] = "running"
  /\ msg' = [msg EXCEPT ![m] = "panicked"]
  /\ UNCHANGED <<taskVars, pipeVars>>

TaskPanics(m) ==
  /\ msg[m] = "running"
  /\ Release(m, "panicked")
  /\ UNCHANGED <<main, cur, pipeVars>>

\* Mutants: a reply is dropped when the channel is full; a failed send is retried.
TaskRepliesOrDrops(m) ==
  /\ msg[m] = "replying"
  /\ \/ Enqueue(Reply(m))
     \/ Len(channel) = Buffer /\ UNCHANGED channel
  /\ Release(m, "sent")
  /\ UNCHANGED <<main, cur, relay, taken, writer, hand, delivered>>

TaskRepliesRetries(m) ==
  /\ msg[m] = "replying"
  /\ Enqueue(Reply(m))
  /\ Release(m, "sent")
  /\ UNCHANGED <<main, cur, relay, taken, writer, hand, delivered>>

TaskReplies(m) ==
  /\ msg[m] = "replying"
  /\ \/ Enqueue(Reply(m)) /\ Release(m, "sent")
     \/ Disconnected /\ Release(m, "dropped") /\ UNCHANGED channel
  /\ UNCHANGED <<main, cur, relay, taken, writer, hand, delivered>>

TaskCancelled(m) ==
  /\ Aborted
  /\ m \in Live
  /\ Release(m, "cancelled")
  /\ UNCHANGED <<main, cur, pipeVars>>

-----------------------------------------------------------------------------
(* The relay task. *)

RelayTakes ==
  /\ relay = "read"
  /\ taken < MaxEvents
  /\ taken' = taken + 1
  /\ relay' = "send"
  /\ UNCHANGED <<taskVars, msg, channel, writer, hand, delivered>>

\* Mutant: the relay does not wait for room.
RelaySendsOrDrops ==
  /\ relay = "send"
  /\ \/ Enqueue(Event(taken)) /\ relay' = "read"
     \/ ~Disconnected /\ Len(channel) = Buffer /\ relay' = "read" /\ UNCHANGED channel
     \/ Disconnected /\ relay' = "ended" /\ UNCHANGED channel
  /\ UNCHANGED <<taskVars, msg, taken, writer, hand, delivered>>

RelaySends ==
  /\ relay = "send"
  /\ \/ Enqueue(Event(taken)) /\ relay' = "read"
     \/ Disconnected /\ relay' = "ended" /\ UNCHANGED channel
  /\ UNCHANGED <<taskVars, msg, taken, writer, hand, delivered>>

\* reth closes or its stream fails, or the task was aborted.
RelayEnds ==
  /\ \/ relay = "read"
     \/ relay = "send" /\ main \in {"flush", "closed"}
  /\ relay' = "ended"
  /\ UNCHANGED <<taskVars, msg, taken, channel, writer, hand, delivered>>

-----------------------------------------------------------------------------
(* The writer task. *)

\* Every Sender is dropped: recv returns None.
NoSenders == main \in {"flush", "closed"} /\ relay = "ended" /\ Live = {}

WriterTakes ==
  /\ writer = "recv"
  /\ channel # <<>>
  /\ hand' = <<Head(channel)>>
  /\ channel' = Tail(channel)
  /\ writer' = "write"
  /\ UNCHANGED <<taskVars, msg, relay, taken, delivered>>

WriterDrained ==
  /\ writer = "recv"
  /\ channel = <<>>
  /\ NoSenders
  /\ writer' = "close"
  /\ UNCHANGED <<taskVars, msg, relay, taken, channel, hand, delivered>>

\* The client took the frame.
WriterWrites ==
  /\ writer = "write"
  /\ delivered' = delivered \o hand
  /\ hand' = <<>>
  /\ writer' = "recv"
  /\ UNCHANGED <<taskVars, msg, relay, taken, channel>>

\* The client is gone: the receiver is dropped with what it holds.
WriterFails ==
  /\ writer = "write"
  /\ writer' = "ended"
  /\ hand' = <<>>
  /\ channel' = <<>>
  /\ UNCHANGED <<taskVars, msg, relay, taken, delivered>>

\* The client took the close frame, or is gone.
WriterEnds ==
  /\ writer = "close"
  /\ writer' = "ended"
  /\ UNCHANGED <<taskVars, msg, relay, taken, channel, hand, delivered>>

-----------------------------------------------------------------------------
Read(m) == ReadRefused(m) \/ ReadSubscribe(m) \/ ReadCall(m)

\* What the main task does on its own, or a timeout makes it do.  The frames of
\* Refused fit the socket's buffer.
MainStep == Connected \/ ConnectFails \/ Refused \/ MainReplies \/ FlushEnds

\* What the task of m does on its own: every await but the send has a timeout.
TaskStep(m) == TaskComputed(m) \/ TaskPanics(m) \/ TaskReplies(m)

Next ==
  \/ MainStep \/ ReadEnds \/ Forwarded \/ RethClosed
  \/ \E m \in Messages : Read(m) \/ TaskStep(m) \/ TaskCancelled(m)
  \/ RelayTakes \/ RelaySends \/ RelayEnds
  \/ WriterTakes \/ WriterDrained \/ WriterWrites \/ WriterFails \/ WriterEnds

Spec == Init /\ [][Next]_vars

\* The runtime runs every task, and reth takes what is written to it or its
\* connection breaks; the client may stall for ever, or ping for ever.
FairSpec ==
  /\ Spec
  /\ WF_vars(MainStep) /\ WF_vars(Forwarded) /\ WF_vars(RethClosed)
  /\ \A m \in Messages : WF_vars(TaskStep(m)) /\ WF_vars(TaskCancelled(m))
  /\ WF_vars(RelaySends) /\ WF_vars(RelayEnds /\ Aborted)
  /\ WF_vars(WriterTakes \/ WriterDrained)

\* The client, too, takes what is written to it, or is found gone.
ClientFair == WF_vars(WriterWrites \/ WriterFails) /\ WF_vars(WriterEnds)

-----------------------------------------------------------------------------
(* Properties. *)

\* What the client got and will get, oldest first: a writer that fails loses what
\* it held.
Pipeline == delivered \o hand \o channel

\* The permits of the semaphore are free or held by a live task, whichever way
\* tasks end: a reply, a lost client, a panic, an abort.
Held == {h \in Live \X (1..MaxInFlight) : h[2] <= Permits(h[1])}
PermitsConserved == free + Cardinality(Held) = MaxInFlight

\* No reply is duplicated or dropped between the tasks, the main loop and the
\* writer: until the writer ends, the client gets exactly the replies that
\* were sent, each once.
RepliesAccounted ==
  LET p == Pipeline
      InPipeline(m) == \E i \in 1..Len(p) : p[i] = Reply(m)
  IN /\ \A i, j \in 1..Len(p) : p[i] = p[j] => i = j
     /\ \A m \in Messages : InPipeline(m) => msg[m] = "sent"
     /\ writer # "ended" => \A m \in Messages : msg[m] = "sent" => InPipeline(m)

\* Subscription messages reach the client in reth's order and without a gap, up
\* to where the connection ends.
RelayInOrder ==
  LET p == Pipeline
      events == {i \in 1..Len(p) : p[i].kind = "event"}
  IN \A i \in events : p[i].of = Cardinality({j \in events : j <= i})

\* The connection implements the contract: a frame is answered once it is delivered.
Unanswered == {"forwarded", "panicked", "cancelled", "dropped"}
ContractStatus(m) ==
  IF msg[m] = "unread" THEN "open"
  ELSE IF \E i \in 1..Len(delivered) : delivered[i] = Reply(m) THEN "answered"
  ELSE IF msg[m] \in Unanswered \/ (msg[m] = "sent" /\ writer = "ended") THEN "silent"
  ELSE "pending"

Contract == INSTANCE WsContract WITH
  line   <- IF main = "connect" THEN "new" ELSE IF writer = "ended" THEN "down" ELSE "up",
  status <- [m \in Messages |-> ContractStatus(m)]

ImplementsContract == Contract!Spec

\* Backpressure: a client that does not read makes the provider hold a bounded
\* number of its replies and subscription messages.
HeldForClient ==
  Cardinality({m \in Messages : msg[m] = "replying"}) + Len(channel) + Len(hand)
OutputBounded == HeldForClient <= MaxInFlight + Buffer + 1

\* A request task always ends while its client reads or goes away, even if the
\* main loop stays in its read for ever, so its permits come back.
TasksEnd == ClientFair => \A m \in Messages : m \in Live ~> m \notin Live

\* The main loop comes back to its read or leaves: it never waits for a permit,
\* and no task, relay or writer waits for it.
MainLoopAdvances ==
  ClientFair => (main \in {"reply", "forward"} ~> main \in {"read", "close_reth"})

\* Once the loop ends the handler returns and its tasks are gone, even if the
\* client stalls.
ClosingEnds == main = "close_reth" ~> main = "closed" /\ Live = {}

\* The claim of WS_IDLE_TIMEOUT: a client that sends nothing more (it sends
\* finitely many frames here) is closed once the timeout is given its turn.
IdleClientIsClosed == WF_vars(ReadEnds) => <>(main = "closed")

\* Where it holds: for a client that reads what it is sent.
IdleReaderIsClosed == ClientFair => IdleClientIsClosed
=============================================================================
