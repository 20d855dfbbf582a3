------------------------- MODULE WsConnection_proofs -------------------------
(* What a WebSocket connection keeps whatever its client does: its permits,  *)
(* the replies and reth's messages on their way, and how much it holds, for  *)
(* every set of frames, limit and buffer.                                    *)
EXTENDS WsConnection, FiniteSetTheorems, SequenceTheorems, TLAPS

MainStates == {"connect", "refuse", "read", "reply", "forward", "close_reth", "flush", "closed"}
MsgStates == {"unread", "handling", "forwarded", "running", "replying",
              "sent", "panicked", "cancelled", "dropped"}

\* TypeOK but for the permits, and where the tasks of one connection stand together:
\* nothing exists before it is connected, the main task handles the frame it holds,
\* the writer holds an item only while it writes, the channel is bounded.
Shape ==
  /\ main \in MainStates /\ cur \in Messages \cup {NoMessage}
  /\ msg \in [Messages -> MsgStates]
  /\ relay \in {"read", "send", "ended"} /\ taken \in 0..MaxEvents
  /\ channel \in Seq(Item) /\ Len(channel) <= Buffer
  /\ writer \in {"recv", "write", "close", "ended"}
  /\ hand \in Seq(Item) /\ Len(hand) <= 1 /\ delivered \in Seq(Item)
  /\ main = "connect" =>
       /\ \A m \in Messages : msg[m] = "unread"
       /\ relay = "ended" /\ taken = 0 /\ writer = "ended"
       /\ channel = <<>> /\ hand = <<>> /\ delivered = <<>>
  /\ main \in {"reply", "forward"} => cur \in Messages /\ msg[cur] = "handling"
  /\ relay = "send" => taken # 0
  /\ writer # "write" => hand = <<>>

\* Items are replies to frames or numbered messages of reth.
LEMMA Items ==
  /\ \A m \in Messages : Reply(m) \in Item /\ Reply(m).kind = "reply" /\ Reply(m).of = m
  /\ \A n \in 1..MaxEvents : Event(n) \in Item /\ Event(n).kind = "event" /\ Event(n).of = n
BY DEF Item, Reply, Event

\* The channel takes an item when there is room.
LEMMA EnqueueShape ==
  ASSUME channel \in Seq(Item), Len(channel) <= Buffer, NEW item \in Item, Enqueue(item)
  PROVE  channel' \in Seq(Item) /\ Len(channel') <= Buffer
<1>1. channel' = Append(channel, item) /\ Len(channel) < Buffer /\ Buffer \in Nat
  BY LimitsAssumption DEF Enqueue
<1>2. channel' \in Seq(Item) /\ Len(channel') = Len(channel) + 1 /\ Len(channel) \in Nat
  BY <1>1, AppendProperties
<1> QED
  BY <1>1, <1>2

\* What is true at the start.
LEMMA ShapeStart == Init => Shape
<1> SUFFICES ASSUME Init PROVE Shape
  OBVIOUS
<1>1. Buffer \in Nat /\ MaxEvents \in Nat
  BY LimitsAssumption
<1>2. \A s : s = <<>> => s \in Seq(Item) /\ Len(s) = 0
  OBVIOUS
<1> QED
  BY <1>1, <1>2 DEF Init, Shape, MainStates, MsgStates

\* Every step keeps the shape.
LEMMA ShapeStep == Shape /\ [Next]_vars => Shape'
<1> SUFFICES ASSUME Shape, [Next]_vars PROVE Shape'
  OBVIOUS
<1>0. NoMessage \notin Messages /\ Buffer \in Nat /\ MaxEvents \in Nat
  BY MessagesAssumption, LimitsAssumption
<1> USE <1>0 DEF Shape, MainStates, MsgStates, pipeVars, taskVars
<1>1. CASE Connected
  BY <1>1 DEF Connected
<1>2. CASE ConnectFails \/ Refused \/ FlushEnds \/ RethClosed
  BY <1>2 DEF ConnectFails, Refused, FlushEnds, RethClosed
<1>3. CASE ReadEnds
  BY <1>3 DEF ReadEnds, Leave
<1>4. CASE MainReplies
  <2>1. main = "reply" /\ cur \in Messages /\ msg[cur] = "handling" /\ Reply(cur) \in Item
    BY <1>4, Items DEF MainReplies
  <2>2. UNCHANGED <<relay, taken, writer, hand, delivered>>
    BY <1>4 DEF MainReplies
  <2>3. CASE Enqueue(Reply(cur)) /\ msg' = [msg EXCEPT ![cur] = "sent"] /\ main' = "read" /\ cur' = NoMessage
    <3>1. channel' \in Seq(Item) /\ Len(channel') <= Buffer
      BY <2>1, <2>3, EnqueueShape
    <3> QED
      BY <2>1, <2>2, <2>3, <3>1
  <2>4. CASE Leave /\ msg' = [msg EXCEPT ![cur] = "dropped"] /\ UNCHANGED channel
    BY <2>1, <2>2, <2>4 DEF Leave
  <2> QED
    BY <1>4, <2>3, <2>4 DEF MainReplies
<1>5. CASE Forwarded
  BY <1>5 DEF Forwarded, Leave
<1>6. ASSUME NEW m \in Messages, Read(m) PROVE Shape'
  BY <1>6 DEF Read, ReadRefused, ReadSubscribe, ReadCall, Handle
<1>7. ASSUME NEW m \in Messages, TaskComputed(m) \/ TaskPanics(m) \/ TaskCancelled(m) PROVE Shape'
  <2>1. main # "connect" /\ (m # cur \/ main \notin {"reply", "forward"})
    BY <1>7 DEF TaskComputed, TaskPanics, TaskCancelled, Live
  <2>2. \E s \in MsgStates : msg' = [msg EXCEPT ![m] = s]
    BY <1>7 DEF TaskComputed, TaskPanics, TaskCancelled, Release
  <2>3. UNCHANGED <<main, cur, pipeVars>>
    BY <1>7 DEF TaskComputed, TaskPanics, TaskCancelled
  <2> QED
    BY <2>1, <2>2, <2>3
<1>8. ASSUME NEW m \in Messages, TaskReplies(m) PROVE Shape'
  <2>1. main # "connect" /\ (m # cur \/ main \notin {"reply", "forward"})
    BY <1>8 DEF TaskReplies
  <2>2. \E s \in MsgStates : msg' = [msg EXCEPT ![m] = s]
    BY <1>8 DEF TaskReplies, Release
  <2>3. channel' \in Seq(Item) /\ Len(channel') <= Buffer
    BY <1>8, Items, EnqueueShape DEF TaskReplies
  <2>4. UNCHANGED <<main, cur, relay, taken, writer, hand, delivered>>
    BY <1>8 DEF TaskReplies
  <2> QED
    BY <2>1, <2>2, <2>3, <2>4
<1>9. CASE RelayTakes
  BY <1>9 DEF RelayTakes
<1>10. CASE RelaySends
  <2>1. relay = "send" /\ taken \in 1..MaxEvents /\ main # "connect"
    BY <1>10 DEF RelaySends
  <2>2. channel' \in Seq(Item) /\ Len(channel') <= Buffer
    BY <1>10, <2>1, Items, EnqueueShape DEF RelaySends
  <2> QED
    BY <1>10, <2>1, <2>2 DEF RelaySends
<1>11. CASE RelayEnds
  BY <1>11 DEF RelayEnds
<1>12. CASE WriterTakes
  <2>1. channel \in Seq(Item) /\ channel # <<>> /\ main # "connect"
    BY <1>12 DEF WriterTakes
  <2>2. Head(channel) \in Item /\ Tail(channel) \in Seq(Item) /\ Len(Tail(channel)) = Len(channel) - 1
        /\ Len(channel) \in Nat
    BY <2>1, HeadTailProperties
  <2>3. <<Head(channel)>> \in Seq(Item) /\ Len(<<Head(channel)>>) = 1
    BY <2>2
  <2> QED
    BY <1>12, <2>1, <2>2, <2>3 DEF WriterTakes
<1>13. CASE WriterWrites
  <2>1. delivered' \in Seq(Item)
    BY <1>13, ConcatProperties DEF WriterWrites
  <2>2. main # "connect" /\ hand' = <<>> /\ hand' \in Seq(Item) /\ Len(hand') = 0
    <3>1. hand' = <<>>
      BY <1>13 DEF WriterWrites
    <3>2. CASE main = "connect"
      BY <1>13, <3>2 DEF WriterWrites
    <3> QED
      BY <3>1, <3>2
  <2> QED
    BY <1>13, <2>1, <2>2 DEF WriterWrites
<1>14. CASE WriterFails
  BY <1>14 DEF WriterFails
<1>15. CASE WriterDrained \/ WriterEnds
  BY <1>15 DEF WriterDrained, WriterEnds
<1>16. CASE UNCHANGED vars
  BY <1>16 DEF vars
<1> QED
  BY <1>1, <1>2, <1>3, <1>4, <1>5, <1>6, <1>7, <1>8, <1>9, <1>10, <1>11, <1>12, <1>13, <1>14,
     <1>15, <1>16 DEF Next, MainStep, TaskStep

-----------------------------------------------------------------------------
(* The pipeline: an item enters at its end, and the writer moves it on or    *)
(* loses all it had not written.                                             *)

\* The three parts of the pipeline make a sequence of items.
LEMMA PipelineTypes ==
  ASSUME Shape
  PROVE  /\ Pipeline \in Seq(Item) /\ delivered \o hand \in Seq(Item)
         /\ Pipeline = delivered \o (hand \o channel)
<1>1. delivered \in Seq(Item) /\ hand \in Seq(Item) /\ channel \in Seq(Item)
  BY DEF Shape
<1>2. delivered \o hand \in Seq(Item)
  BY <1>1, ConcatProperties
<1>3. (delivered \o hand) \o channel \in Seq(Item)
  BY <1>1, <1>2, ConcatProperties
<1>4. (delivered \o hand) \o channel = delivered \o (hand \o channel)
  BY <1>1, ConcatAssociative
<1> QED
  BY <1>2, <1>3, <1>4 DEF Pipeline

\* What is enqueued is the newest item of the pipeline.
LEMMA PipelineEnqueues ==
  ASSUME Shape, NEW item \in Item, Enqueue(item), UNCHANGED <<hand, delivered>>
  PROVE  Pipeline' = Append(Pipeline, item)
<1> DEFINE front == delivered \o hand
<1>1. front \in Seq(Item) /\ channel \in Seq(Item) /\ <<item>> \in Seq(Item)
  BY PipelineTypes DEF Shape
<1>2. Pipeline = front \o channel /\ Pipeline \in Seq(Item)
  BY PipelineTypes DEF Pipeline
<1>3. channel' = channel \o <<item>>
  BY <1>1, AppendIsConcat DEF Enqueue
<1>4. Pipeline' = front \o (channel \o <<item>>)
  BY <1>3 DEF Pipeline
<1> HIDE DEF front
<1>5. (front \o channel) \o <<item>> = front \o (channel \o <<item>>)
  BY <1>1, ConcatAssociative
<1>6. Append(Pipeline, item) = Pipeline \o <<item>>
  BY <1>2, AppendIsConcat
<1> QED
  BY <1>2, <1>4, <1>5, <1>6

\* Taking an item from the channel moves it within the pipeline.
LEMMA PipelineTakes ==
  ASSUME Shape, WriterTakes
  PROVE  Pipeline' = Pipeline
<1>1. hand = <<>> /\ channel # <<>> /\ channel \in Seq(Item) /\ delivered \in Seq(Item)
  BY DEF Shape, WriterTakes
<1>2. Head(channel) \in Item /\ Tail(channel) \in Seq(Item)
  BY <1>1, HeadTailProperties
<1>3. <<Head(channel)>> \in Seq(Item)
  BY <1>2
<1>4. channel = <<Head(channel)>> \o Tail(channel)
  BY <1>1
<1>5. Pipeline' = (delivered \o <<Head(channel)>>) \o Tail(channel)
  BY DEF Pipeline, WriterTakes
<1>6. (delivered \o <<Head(channel)>>) \o Tail(channel) = delivered \o (<<Head(channel)>> \o Tail(channel))
  BY <1>1, <1>2, <1>3, ConcatAssociative
<1>7. Pipeline = delivered \o channel
  BY <1>1, ConcatEmptySeq DEF Pipeline
<1> QED
  BY <1>4, <1>5, <1>6, <1>7

\* So does writing it.
LEMMA PipelineWrites ==
  ASSUME Shape, WriterWrites
  PROVE  Pipeline' = Pipeline
<1>1. delivered \o hand \in Seq(Item)
  BY PipelineTypes
<1>2. Pipeline' = ((delivered \o hand) \o <<>>) \o channel
  BY DEF Pipeline, WriterWrites
<1> QED
  BY <1>1, <1>2, ConcatEmptySeq DEF Pipeline

\* A writer that fails leaves what was delivered.
LEMMA PipelineFails ==
  ASSUME Shape, WriterFails
  PROVE  /\ Pipeline' \in Seq(Item) /\ Len(Pipeline') <= Len(Pipeline)
         /\ \A i \in 1..Len(Pipeline') : Pipeline'[i] = Pipeline[i]
<1>1. delivered \in Seq(Item) /\ hand \o channel \in Seq(Item)
  BY ConcatProperties DEF Shape
<1>2. Pipeline' = delivered
  <2>1. Pipeline' = (delivered \o <<>>) \o <<>>
    BY DEF Pipeline, WriterFails
  <2> QED
    BY <1>1, <2>1, ConcatEmptySeq
<1>3. Pipeline = delivered \o (hand \o channel)
  BY PipelineTypes
<1>4. /\ Len(Pipeline) = Len(delivered) + Len(hand \o channel)
      /\ \A i \in 1..(Len(delivered) + Len(hand \o channel)) :
           Pipeline[i] = IF i <= Len(delivered) THEN delivered[i] ELSE (hand \o channel)[i - Len(delivered)]
  BY <1>1, <1>3, ConcatProperties
<1>5. Len(delivered) \in Nat /\ Len(hand \o channel) \in Nat
  BY <1>1
<1> QED
  BY <1>1, <1>2, <1>4, <1>5

-----------------------------------------------------------------------------
(* Replies. *)

\* RepliesAccounted, and that reth's messages in the pipeline have been taken.
Replies ==
  /\ \A i, j \in 1..Len(Pipeline) : Pipeline[i] = Pipeline[j] => i = j
  /\ \A i \in 1..Len(Pipeline), m \in Messages : Pipeline[i] = Reply(m) => msg[m] = "sent"
  /\ writer # "ended" => \A m \in Messages : msg[m] = "sent" => \E i \in 1..Len(Pipeline) : Pipeline[i] = Reply(m)
  /\ \A i \in 1..Len(Pipeline), n \in 1..MaxEvents :
       Pipeline[i] = Event(n) => n <= taken /\ (relay = "send" => n < taken)

\* Replies differ from each other and from reth's messages.
LEMMA ItemsDiffer ==
  /\ \A m, k \in Messages : Reply(m) = Reply(k) => m = k
  /\ \A n, k \in 1..MaxEvents : Event(n) = Event(k) => n = k
  /\ \A m \in Messages, n \in 1..MaxEvents : Reply(m) # Event(n)
BY Items

\* A step that leaves the pipeline alone, sends no reply and revives no writer.
LEMMA RepliesStay ==
  ASSUME Shape, Replies, Pipeline' = Pipeline,
         \A m \in Messages : msg'[m] = "sent" <=> msg[m] = "sent",
         writer' # "ended" => writer # "ended",
         \/ UNCHANGED <<taken, relay>>
         \/ UNCHANGED taken /\ relay' # "send"
         \/ taken' = taken + 1 /\ relay # "send"
  PROVE  Replies'
<1>1. taken \in Nat /\ MaxEvents \in Nat
  BY LimitsAssumption DEF Shape
<1>2. \A i \in 1..Len(Pipeline), n \in 1..MaxEvents :
        Pipeline[i] = Event(n) => n <= taken' /\ (relay' = "send" => n < taken')
  BY <1>1 DEF Replies
<1> QED
  BY <1>2 DEF Replies

\* A step that appends the reply to a frame and marks the frame as answered.
LEMMA RepliesAppend ==
  ASSUME Shape, Replies, NEW m \in Messages, msg[m] # "sent",
         Enqueue(Reply(m)), msg' = [msg EXCEPT ![m] = "sent"],
         UNCHANGED <<taken, relay, writer, hand, delivered>>
  PROVE  Replies'
<1> DEFINE p == Pipeline
           q == Append(p, Reply(m))
<1>1. p \in Seq(Item) /\ Reply(m) \in Item
  BY Items, PipelineTypes
<1>2. Pipeline' = q
  BY <1>1, PipelineEnqueues
<1>3. /\ Len(q) = Len(p) + 1 /\ Len(p) \in Nat /\ q[Len(p) + 1] = Reply(m)
      /\ \A i \in 1..Len(p) : q[i] = p[i]
  BY <1>1, AppendProperties
<1>4. \A i \in 1..Len(p) : p[i] # Reply(m)
  BY DEF Replies
<1>5. \A k \in Messages : msg'[k] = IF k = m THEN "sent" ELSE msg[k]
  BY DEF Shape
<1> HIDE DEF p, q
<1>6. \A i, j \in 1..Len(p) : p[i] = p[j] => i = j
  BY DEF Replies, p
<1>7. \A i, j \in 1..Len(q) : q[i] = q[j] => i = j
  BY <1>3, <1>4, <1>6
<1>8. \A i \in 1..Len(q), k \in Messages : q[i] = Reply(k) => msg'[k] = "sent"
  <2>1. \A i \in 1..Len(p), k \in Messages : p[i] = Reply(k) => msg[k] = "sent"
    BY DEF Replies, p
  <2> QED
    BY <1>3, <1>5, <2>1, ItemsDiffer
<1>9. writer' # "ended" => \A k \in Messages : msg'[k] = "sent" => \E i \in 1..Len(q) : q[i] = Reply(k)
  <2>1. writer # "ended" => \A k \in Messages : msg[k] = "sent" => \E i \in 1..Len(p) : p[i] = Reply(k)
    BY DEF Replies, p
  <2> QED
    BY <1>3, <1>5, <2>1
<1>10. \A i \in 1..Len(q), n \in 1..MaxEvents : q[i] = Event(n) => n <= taken /\ (relay = "send" => n < taken)
  <2>1. \A i \in 1..Len(p), n \in 1..MaxEvents : p[i] = Event(n) => n <= taken /\ (relay = "send" => n < taken)
    BY DEF Replies, p
  <2> QED
    BY <1>3, <2>1, ItemsDiffer
<1> QED
  BY <1>2, <1>7, <1>8, <1>9, <1>10 DEF Replies

\* A step that appends reth's newest message.
LEMMA EventAppends ==
  ASSUME Shape, Replies, relay = "send", Enqueue(Event(taken)), relay' = "read",
         UNCHANGED <<msg, taken, writer, hand, delivered>>
  PROVE  Replies'
<1> DEFINE p == Pipeline
           q == Append(p, Event(taken))
<1>0. taken \in 1..MaxEvents /\ MaxEvents \in Nat
  BY LimitsAssumption DEF Shape
<1>1. p \in Seq(Item) /\ Event(taken) \in Item
  BY <1>0, Items, PipelineTypes
<1>2. Pipeline' = q
  BY <1>1, PipelineEnqueues
<1>3. /\ Len(q) = Len(p) + 1 /\ Len(p) \in Nat /\ q[Len(p) + 1] = Event(taken)
      /\ \A i \in 1..Len(p) : q[i] = p[i]
  BY <1>1, AppendProperties
<1>4. \A i \in 1..Len(p), n \in 1..MaxEvents : p[i] = Event(n) => n <= taken /\ n < taken
  BY DEF Replies
<1>5. \A i \in 1..Len(p) : p[i] # Event(taken)
  BY <1>0, <1>4
<1> HIDE DEF p, q
<1>6. \A i, j \in 1..Len(p) : p[i] = p[j] => i = j
  BY DEF Replies, p
<1>7. \A i, j \in 1..Len(q) : q[i] = q[j] => i = j
  BY <1>3, <1>5, <1>6
<1>8. \A i \in 1..Len(q), k \in Messages : q[i] = Reply(k) => msg[k] = "sent"
  <2>1. \A i \in 1..Len(p), k \in Messages : p[i] = Reply(k) => msg[k] = "sent"
    BY DEF Replies, p
  <2> QED
    BY <1>0, <1>3, <2>1, ItemsDiffer
<1>9. writer # "ended" => \A k \in Messages : msg[k] = "sent" => \E i \in 1..Len(q) : q[i] = Reply(k)
  <2>1. writer # "ended" => \A k \in Messages : msg[k] = "sent" => \E i \in 1..Len(p) : p[i] = Reply(k)
    BY DEF Replies, p
  <2> QED
    BY <1>3, <2>1
<1>10. \A i \in 1..Len(q), n \in 1..MaxEvents : q[i] = Event(n) => n <= taken
  BY <1>0, <1>3, <1>4, ItemsDiffer
<1> QED
  BY <1>2, <1>7, <1>8, <1>9, <1>10 DEF Replies

\* Without a frame read or an item sent there is nothing to account for.
LEMMA RepliesStart ==
  ASSUME channel = <<>>, hand = <<>>, delivered = <<>>, \A m \in Messages : msg[m] = "unread"
  PROVE  Replies /\ Pipeline = <<>> /\ Len(Pipeline) = 0
<1>1. Pipeline = (<<>> \o <<>>) \o <<>>
  BY DEF Pipeline
<1>2. <<>> \in Seq(Item)
  OBVIOUS
<1>3. Pipeline = <<>>
  BY <1>1, <1>2, ConcatEmptySeq
<1>4. Len(Pipeline) = 0
  BY <1>3
<1> QED
  BY <1>3, <1>4 DEF Replies

\* Every step keeps the replies.
LEMMA RepliesStep == Shape /\ Replies /\ [Next]_vars => Replies'
<1> SUFFICES ASSUME Shape, Replies, [Next]_vars PROVE Replies'
  OBVIOUS
<1> DEFINE Sames == \A m \in Messages : msg'[m] = "sent" <=> msg[m] = "sent"
<1> USE DEF pipeVars, taskVars
<1>0. UNCHANGED <<channel, hand, delivered>> => Pipeline' = Pipeline
  BY DEF Pipeline
<1>1. CASE Connected
  <2>1. /\ channel' = <<>> /\ hand' = <<>> /\ delivered' = <<>> /\ \A m \in Messages : msg'[m] = "unread"
    BY <1>1 DEF Connected, Shape
  <2>2. Len(Pipeline') = 0
    <3>1. Pipeline = <<>> /\ Len(Pipeline) = 0
      BY <1>1, RepliesStart DEF Connected, Shape
    <3>2. Pipeline' = Pipeline
      BY <1>0, <1>1 DEF Connected
    <3> QED
      BY <3>1, <3>2
  <2> QED
    BY <2>1, <2>2 DEF Replies
<1>2. CASE ConnectFails \/ Refused \/ FlushEnds \/ RethClosed \/ ReadEnds
  BY <1>0, <1>2, RepliesStay DEF ConnectFails, Refused, FlushEnds, RethClosed, ReadEnds, Leave
<1>3. CASE MainReplies
  <2>1. cur \in Messages /\ msg[cur] = "handling"
    BY <1>3 DEF MainReplies, Shape
  <2>2. UNCHANGED <<relay, taken, writer, hand, delivered>>
    BY <1>3 DEF MainReplies
  <2>3. CASE Enqueue(Reply(cur)) /\ msg' = [msg EXCEPT ![cur] = "sent"]
    BY <2>1, <2>2, <2>3, RepliesAppend
  <2>4. CASE msg' = [msg EXCEPT ![cur] = "dropped"] /\ UNCHANGED channel
    <3>1. Sames
      BY <2>1, <2>4 DEF Shape
    <3> QED
      BY <1>0, <2>2, <2>4, <3>1, RepliesStay
  <2> QED
    BY <1>3, <2>3, <2>4 DEF MainReplies
<1>4. CASE Forwarded
  <2>1. cur \in Messages /\ msg[cur] = "handling"
    BY <1>4 DEF Forwarded, Shape
  <2>2. Sames
    BY <1>4, <2>1 DEF Forwarded, Shape
  <2> QED
    BY <1>0, <1>4, <2>2, RepliesStay DEF Forwarded
<1>5. ASSUME NEW m \in Messages, Read(m) PROVE Replies'
  <2>1. Sames
    BY <1>5 DEF Read, ReadRefused, ReadSubscribe, ReadCall, Handle, Shape
  <2>2. UNCHANGED pipeVars
    BY <1>5 DEF Read, ReadRefused, ReadSubscribe, ReadCall
  <2> QED
    BY <1>0, <2>1, <2>2, RepliesStay
<1>6. ASSUME NEW m \in Messages, TaskComputed(m) \/ TaskPanics(m) \/ TaskCancelled(m) PROVE Replies'
  <2>1. Sames
    BY <1>6 DEF TaskComputed, TaskPanics, TaskCancelled, Release, Live, Shape
  <2>2. UNCHANGED pipeVars
    BY <1>6 DEF TaskComputed, TaskPanics, TaskCancelled
  <2> QED
    BY <1>0, <2>1, <2>2, RepliesStay
<1>7. ASSUME NEW m \in Messages, TaskReplies(m) PROVE Replies'
  <2>1. msg[m] = "replying" /\ UNCHANGED <<relay, taken, writer, hand, delivered>>
    BY <1>7 DEF TaskReplies
  <2>2. CASE Enqueue(Reply(m)) /\ Release(m, "sent")
    BY <2>1, <2>2, RepliesAppend DEF Release
  <2>3. CASE Release(m, "dropped") /\ UNCHANGED channel
    <3>1. Sames
      BY <2>1, <2>3 DEF Release, Shape
    <3> QED
      BY <1>0, <2>1, <2>3, <3>1, RepliesStay
  <2> QED
    BY <1>7, <2>2, <2>3 DEF TaskReplies
<1>8. CASE RelayTakes
  BY <1>0, <1>8, RepliesStay DEF RelayTakes
<1>9. CASE RelaySends
  <2>1. relay = "send" /\ UNCHANGED <<msg, taken, writer, hand, delivered>>
    BY <1>9 DEF RelaySends
  <2>2. CASE Enqueue(Event(taken)) /\ relay' = "read"
    BY <2>1, <2>2, EventAppends
  <2>3. CASE relay' = "ended" /\ UNCHANGED channel
    BY <1>0, <2>1, <2>3, RepliesStay
  <2> QED
    BY <1>9, <2>2, <2>3 DEF RelaySends
<1>10. CASE RelayEnds
  BY <1>0, <1>10, RepliesStay DEF RelayEnds
<1>11. CASE WriterTakes
  BY <1>11, PipelineTakes, RepliesStay DEF WriterTakes
<1>12. CASE WriterWrites
  BY <1>12, PipelineWrites, RepliesStay DEF WriterWrites
<1>13. CASE WriterFails
  <2>1. /\ Len(Pipeline') \in Nat /\ Len(Pipeline) \in Nat /\ Len(Pipeline') <= Len(Pipeline)
        /\ \A i \in 1..Len(Pipeline') : Pipeline'[i] = Pipeline[i]
    BY <1>13, PipelineFails, PipelineTypes
  <2>2. UNCHANGED <<msg, relay, taken>> /\ writer' = "ended"
    BY <1>13 DEF WriterFails
  <2>3. 1..Len(Pipeline') \subseteq 1..Len(Pipeline)
    BY <2>1
  <2> QED
    BY <2>1, <2>2, <2>3 DEF Replies
<1>14. CASE WriterDrained \/ WriterEnds
  BY <1>0, <1>14, RepliesStay DEF WriterDrained, WriterEnds
<1>15. CASE UNCHANGED vars
  BY <1>0, <1>15, RepliesStay DEF vars
<1> QED
  BY <1>1, <1>2, <1>3, <1>4, <1>5, <1>6, <1>7, <1>8, <1>9, <1>10, <1>11, <1>12, <1>13, <1>14, <1>15
  DEF Next, MainStep, TaskStep

\* The pipeline holds each reply that was sent, once, and no other (RepliesAccounted).
THEOREM NoReplyLost == Spec => []RepliesAccounted
<1>1. Init => Shape /\ Replies
  BY ShapeStart, RepliesStart DEF Init
<1>2. Shape /\ Replies => RepliesAccounted
  BY Zenon DEF Replies, RepliesAccounted
<1> QED
  BY <1>1, <1>2, ShapeStep, RepliesStep, PTL DEF Spec

-----------------------------------------------------------------------------
(* reth's messages. *)

EventsOf(p) == {i \in 1..Len(p) : p[i].kind = "event"}
UpTo(p, i) == {j \in EventsOf(p) : j <= i}

\* Every message carries its place among the messages.
Numbered(p) == \A i \in EventsOf(p) : p[i].of = Cardinality(UpTo(p, i))

\* RelayInOrder, and that every message the relay took and does not hold is in the
\* pipeline of a writer that is there.
Order ==
  /\ Numbered(Pipeline)
  /\ writer # "ended" =>
       /\ relay = "read" => Cardinality(EventsOf(Pipeline)) = taken
       /\ relay = "send" => Cardinality(EventsOf(Pipeline)) + 1 = taken

\* The places of messages are finitely many.
LEMMA EventsFinite ==
  ASSUME NEW p \in Seq(Item)
  PROVE  IsFiniteSet(EventsOf(p)) /\ Cardinality(EventsOf(p)) \in Nat
<1>1. IsFiniteSet(1..Len(p)) /\ EventsOf(p) \subseteq 1..Len(p)
  BY FS_Interval DEF EventsOf
<1> QED
  BY <1>1, FS_Subset, FS_CardinalityType

\* The start of a numbered sequence is numbered.
LEMMA PrefixNumbered ==
  ASSUME NEW p \in Seq(Item), NEW q \in Seq(Item), Len(p) <= Len(q),
         \A i \in 1..Len(p) : q[i] = p[i]
  PROVE  /\ \A i \in 1..Len(p) : UpTo(p, i) = UpTo(q, i) /\ (i \in EventsOf(p) <=> i \in EventsOf(q))
         /\ Numbered(q) => Numbered(p)
<1>1. Len(p) \in Nat /\ Len(q) \in Nat /\ 1..Len(p) \subseteq 1..Len(q)
  OBVIOUS
<1>2. \A i \in 1..Len(p) : i \in EventsOf(p) <=> i \in EventsOf(q)
  BY <1>1 DEF EventsOf
<1>3. \A i \in 1..Len(p) : UpTo(p, i) = UpTo(q, i)
  <2>1. EventsOf(p) \subseteq 1..Len(p) /\ EventsOf(q) \subseteq 1..Len(q)
    BY DEF EventsOf
  <2> QED
    BY <1>1, <1>2, <2>1 DEF UpTo
<1>4. EventsOf(p) \subseteq 1..Len(p)
  BY DEF EventsOf
<1> QED
  BY <1>2, <1>3, <1>4 DEF Numbered

\* A reply at the end changes no number.
LEMMA ReplyNumbered ==
  ASSUME NEW p \in Seq(Item), NEW m \in Messages, Numbered(p)
  PROVE  LET q == Append(p, Reply(m)) IN Numbered(q) /\ EventsOf(q) = EventsOf(p)
<1> DEFINE q == Append(p, Reply(m))
<1>1. /\ q \in Seq(Item) /\ Len(q) = Len(p) + 1 /\ Len(p) \in Nat
      /\ q[Len(p) + 1] = Reply(m) /\ \A i \in 1..Len(p) : q[i] = p[i]
  BY Items, AppendProperties
<1>2. Reply(m).kind # "event"
  BY Items
<1> HIDE DEF q
<1>3. EventsOf(q) = EventsOf(p)
  BY <1>1, <1>2 DEF EventsOf
<1>4. \A i \in EventsOf(q) : i \in 1..Len(p) /\ UpTo(q, i) = UpTo(p, i) /\ q[i] = p[i]
  BY <1>1, <1>3 DEF EventsOf, UpTo
<1> QED
  BY <1>3, <1>4 DEF Numbered, q

\* The next message at the end is numbered as it should be.
LEMMA EventNumbered ==
  ASSUME NEW p \in Seq(Item), NEW n \in 1..MaxEvents, Numbered(p),
         Cardinality(EventsOf(p)) + 1 = n
  PROVE  LET q == Append(p, Event(n)) IN Numbered(q) /\ Cardinality(EventsOf(q)) = n
<1> DEFINE q == Append(p, Event(n))
<1>1. /\ q \in Seq(Item) /\ Len(q) = Len(p) + 1 /\ Len(p) \in Nat
      /\ q[Len(p) + 1] = Event(n) /\ \A i \in 1..Len(p) : q[i] = p[i]
  BY Items, AppendProperties
<1>2. Event(n).kind = "event" /\ Event(n).of = n
  BY Items
<1> HIDE DEF q
<1>3. EventsOf(q) = EventsOf(p) \cup {Len(p) + 1} /\ Len(p) + 1 \notin EventsOf(p)
  BY <1>1, <1>2 DEF EventsOf
<1>4. Cardinality(EventsOf(q)) = n
  BY <1>3, EventsFinite, FS_AddElement
<1>5. UpTo(q, Len(p) + 1) = EventsOf(q)
  BY <1>1 DEF UpTo, EventsOf
<1>6. \A i \in EventsOf(p) : UpTo(q, i) = UpTo(p, i) /\ q[i] = p[i]
  <2>1. \A i \in EventsOf(p) : i \in 1..Len(p)
    BY DEF EventsOf
  <2> QED
    BY <1>1, <1>3, <2>1 DEF UpTo
<1>7. Numbered(q)
  BY <1>1, <1>2, <1>3, <1>4, <1>5, <1>6 DEF Numbered
<1> QED
  BY <1>4, <1>7 DEF q

\* A step that leaves the pipeline alone.
LEMMA OrderStays ==
  ASSUME Order, Pipeline' = Pipeline, writer' # "ended" => writer # "ended",
         \/ UNCHANGED <<relay, taken>> \/ relay' = "ended"
  PROVE  Order'
<1>1. Numbered(Pipeline)' <=> Numbered(Pipeline')
  BY DEF Numbered, UpTo, EventsOf
<1>2. EventsOf(Pipeline)' = EventsOf(Pipeline)
  BY DEF EventsOf
<1>3. Numbered(Pipeline)'
  BY <1>1 DEF Order
<1> QED
  BY <1>2, <1>3 DEF Order

\* Every step keeps reth's messages in order.
LEMMA OrderStep == Shape /\ Order /\ [Next]_vars => Order'
<1> SUFFICES ASSUME Shape, Order, [Next]_vars PROVE Order'
  OBVIOUS
<1> USE DEF pipeVars, taskVars
<1>0. UNCHANGED <<channel, hand, delivered>> => Pipeline' = Pipeline
  BY DEF Pipeline
<1>1. taken \in Nat /\ Pipeline \in Seq(Item)
  BY LimitsAssumption, PipelineTypes DEF Shape
<1>2. CASE Connected
  <2>1. Pipeline = <<>> /\ Pipeline' = Pipeline /\ taken' = 0 /\ relay' = "read"
    BY <1>0, <1>2, RepliesStart DEF Connected, Shape
  <2>2. EventsOf(<<>>) = {} /\ Numbered(<<>>)
    BY DEF EventsOf, Numbered
  <2> QED
    BY <2>1, <2>2, FS_EmptySet DEF Order
<1>3. ASSUME UNCHANGED <<channel, hand, delivered, writer>>,
             UNCHANGED <<relay, taken>> \/ relay' = "ended"
      PROVE  Order'
  BY <1>0, <1>3, OrderStays
<1>4. CASE ConnectFails \/ Refused \/ FlushEnds \/ RethClosed \/ ReadEnds \/ Forwarded \/ RelayEnds
  BY <1>3, <1>4 DEF ConnectFails, Refused, FlushEnds, RethClosed, ReadEnds, Forwarded, RelayEnds
<1>5. ASSUME NEW m \in Messages,
             Enqueue(Reply(m)), UNCHANGED <<relay, taken, writer, hand, delivered>>
      PROVE  Order'
  <2>1. Pipeline' = Append(Pipeline, Reply(m))
    BY <1>5, Items, PipelineEnqueues
  <2>2. Numbered(Pipeline') /\ EventsOf(Pipeline') = EventsOf(Pipeline)
    BY <1>1, <2>1, ReplyNumbered DEF Order
  <2> QED
    BY <1>5, <2>2 DEF Order
<1>6. CASE MainReplies
  <2>1. cur \in Messages
    BY <1>6 DEF MainReplies, Shape
  <2>2. Enqueue(Reply(cur)) \/ UNCHANGED channel
    BY <1>6 DEF MainReplies
  <2>3. UNCHANGED <<relay, taken, writer, hand, delivered>>
    BY <1>6 DEF MainReplies
  <2> QED
    BY <1>3, <1>5, <2>1, <2>2, <2>3
<1>7. ASSUME NEW m \in Messages, Read(m) \/ TaskComputed(m) \/ TaskPanics(m) \/ TaskCancelled(m)
      PROVE  Order'
  BY <1>3, <1>7 DEF Read, ReadRefused, ReadSubscribe, ReadCall, TaskComputed, TaskPanics, TaskCancelled
<1>8. ASSUME NEW m \in Messages, TaskReplies(m) PROVE Order'
  <2>1. Enqueue(Reply(m)) \/ UNCHANGED channel
    BY <1>8 DEF TaskReplies
  <2>2. UNCHANGED <<relay, taken, writer, hand, delivered>>
    BY <1>8 DEF TaskReplies
  <2> QED
    BY <1>3, <1>5, <2>1, <2>2
<1>9. CASE RelayTakes
  <2>1. /\ Pipeline' = Pipeline /\ relay = "read" /\ relay' = "send" /\ taken' = taken + 1
        /\ writer' = writer
    BY <1>0, <1>9 DEF RelayTakes
  <2> QED
    BY <1>1, <2>1, EventsFinite DEF Order
<1>10. CASE RelaySends
  <2>1. relay = "send" /\ UNCHANGED <<taken, writer, hand, delivered>> /\ taken \in 1..MaxEvents
    BY <1>10, LimitsAssumption DEF RelaySends, Shape
  <2>2. CASE Enqueue(Event(taken)) /\ relay' = "read"
    <3>1. Pipeline' = Append(Pipeline, Event(taken))
      BY <2>1, <2>2, Items, PipelineEnqueues
    <3>2. Cardinality(EventsOf(Pipeline)) + 1 = taken
      BY <2>1, <2>2 DEF Order, Enqueue
    <3>3. Numbered(Pipeline') /\ Cardinality(EventsOf(Pipeline')) = taken
      BY <1>1, <2>1, <3>1, <3>2, EventNumbered DEF Order
    <3> QED
      BY <2>1, <2>2, <3>3 DEF Order
  <2>3. CASE relay' = "ended" /\ UNCHANGED channel
    BY <1>3, <2>1, <2>3
  <2> QED
    BY <1>10, <2>2, <2>3 DEF RelaySends
<1>11. CASE WriterTakes
  BY <1>11, PipelineTakes, OrderStays DEF WriterTakes
<1>12. CASE WriterWrites
  BY <1>12, PipelineWrites, OrderStays DEF WriterWrites
<1>13. CASE WriterFails
  <2>1. Numbered(Pipeline')
    BY <1>1, <1>13, PipelineFails, PrefixNumbered DEF Order
  <2> QED
    BY <1>13, <2>1 DEF WriterFails, Order
<1>14. CASE WriterDrained \/ WriterEnds
  BY <1>0, <1>14, OrderStays DEF WriterDrained, WriterEnds
<1>15. CASE UNCHANGED vars
  BY <1>3, <1>15 DEF vars
<1> QED
  BY <1>2, <1>4, <1>6, <1>7, <1>8, <1>9, <1>10, <1>11, <1>12, <1>13, <1>14, <1>15
  DEF Next, MainStep, TaskStep

\* There are no messages at the start.
LEMMA OrderStart == Init => Order
<1> SUFFICES ASSUME Init PROVE Order
  OBVIOUS
<1>1. Pipeline = <<>> /\ writer = "ended"
  BY RepliesStart DEF Init
<1>2. EventsOf(<<>>) = {} /\ Numbered(<<>>)
  BY DEF EventsOf, Numbered
<1> QED
  BY <1>1, <1>2 DEF Order

\* reth's messages reach the client in order and without a gap (RelayInOrder).
THEOREM RelayKeepsOrder == Spec => []RelayInOrder
<1>1. Order => RelayInOrder
  BY DEF Order, Numbered, RelayInOrder, EventsOf, UpTo
<1> QED
  BY <1>1, OrderStart, ShapeStart, ShapeStep, OrderStep, PTL DEF Spec

-----------------------------------------------------------------------------
(* Permits. *)

PermitsInv == free \in Nat /\ PermitsConserved

\* The permits one frame may hold.
Block(m) == {m} \X (1..Permits(m))

\* A frame takes one permit at least, and never more than there are.
LEMMA BlockSize ==
  ASSUME NEW m \in Messages
  PROVE  /\ Permits(m) \in 1..MaxInFlight
         /\ IsFiniteSet(Block(m)) /\ Cardinality(Block(m)) = Permits(m)
<1>1. Permits(m) \in 1..MaxInFlight /\ MaxInFlight \in Nat
  BY MessagesAssumption, LimitsAssumption DEF Permits
<1>2. IsFiniteSet(1..Permits(m)) /\ Cardinality(1..Permits(m)) = Permits(m)
  BY <1>1, FS_Interval
<1>3. IsFiniteSet({m}) /\ Cardinality({m}) = 1
  BY FS_Singleton
<1> DEFINE places == 1..Permits(m)
<1> HIDE DEF places
<1>4. IsFiniteSet({m} \X places) /\ Cardinality({m} \X places) = 1 * Permits(m)
  <2>1. IsFiniteSet(places) /\ Cardinality(places) = Permits(m)
    BY <1>2 DEF places
  <2>2. IsFiniteSet({m} \X places) /\ Cardinality({m} \X places) = Cardinality({m}) * Cardinality(places)
    BY <1>3, <2>1, FS_Product
  <2> QED
    BY <1>3, <2>1, <2>2
<1> QED
  BY <1>1, <1>4 DEF Block, places

\* The permits held are finitely many, those of the live frames.
LEMMA HeldFinite ==
  /\ IsFiniteSet(Held) /\ Cardinality(Held) \in Nat
  /\ \A m \in Messages : m \in Live => Block(m) \subseteq Held
  /\ \A m \in Messages : m \notin Live => Block(m) \cap Held = {}
<1>1. IsFiniteSet(Messages) /\ Live \subseteq Messages
  BY MessagesAssumption DEF Live
<1>2. IsFiniteSet(Live)
  BY <1>1, FS_Subset
<1>3. IsFiniteSet(1..MaxInFlight)
  BY LimitsAssumption, FS_Interval
<1>4. IsFiniteSet(Live \X (1..MaxInFlight))
  BY <1>2, <1>3, FS_Product
<1>5. IsFiniteSet(Held)
  <2>1. Held \subseteq Live \X (1..MaxInFlight)
    BY DEF Held
  <2> QED
    BY <1>4, <2>1, FS_Subset
<1>6. \A m \in Messages : m \in Live => Block(m) \subseteq Held
  <2>1. \A m \in Messages : Permits(m) \in 1..MaxInFlight
    BY BlockSize
  <2> QED
    BY <2>1, LimitsAssumption DEF Held, Block
<1>7. \A m \in Messages : m \notin Live => Block(m) \cap Held = {}
  BY DEF Held, Block
<1> QED
  BY <1>5, <1>6, <1>7, FS_CardinalityType

\* The permits of a task come and go with it.
LEMMA HeldMoves ==
  ASSUME NEW m \in Messages, Shape, NEW result \in MsgStates, msg' = [msg EXCEPT ![m] = result]
  PROVE  /\ m \notin Live /\ result \in {"running", "replying"} =>
              Cardinality(Held') = Cardinality(Held) + Permits(m)
         /\ m \in Live /\ result \notin {"running", "replying"} =>
              Cardinality(Held') = Cardinality(Held) - Permits(m)
         /\ (m \in Live <=> result \in {"running", "replying"}) => Held' = Held
<1> DEFINE Runs == result \in {"running", "replying"}
<1>1. /\ \A k \in Messages : k # m => (k \in Live' <=> k \in Live)
      /\ m \in Live' <=> Runs
      /\ Live' \subseteq Messages /\ Live \subseteq Messages
  BY DEF Live, Shape
<1>2. Held' = {h \in Live' \X (1..MaxInFlight) : h[2] <= Permits(h[1])}
  BY DEF Held, Permits
<1>3. Permits(m) \in 1..MaxInFlight /\ IsFiniteSet(Block(m)) /\ Cardinality(Block(m)) = Permits(m)
  BY BlockSize
<1>4. IsFiniteSet(Held) /\ Cardinality(Held) \in Nat
  BY HeldFinite
<1>5. ASSUME m \notin Live, Runs PROVE Cardinality(Held') = Cardinality(Held) + Permits(m)
  <2>1. Live' = Live \cup {m}
    BY <1>1, <1>5
  <2>2. Held' = Held \cup Block(m)
    BY <1>2, <1>3, <2>1, LimitsAssumption DEF Held, Block
  <2>3. Held \cap Block(m) = {}
    BY <1>5, HeldFinite
  <2>4. Cardinality(Held \cup Block(m)) = Cardinality(Held) + Permits(m) - Cardinality(Held \cap Block(m))
    BY <1>3, <1>4, FS_Union
  <2>5. Cardinality(Held \cap Block(m)) = 0
    BY <2>3, FS_EmptySet
  <2> HIDE DEF Held, Block
  <2>6. Permits(m) \in Nat
    BY <1>3, LimitsAssumption
  <2> QED
    BY <1>4, <2>2, <2>4, <2>5, <2>6
<1>6. ASSUME m \in Live, ~Runs PROVE Cardinality(Held') = Cardinality(Held) - Permits(m)
  <2>1. Live' = Live \ {m}
    BY <1>1, <1>6
  <2>2. Held' = Held \ Block(m)
    BY <1>2, <2>1 DEF Held, Block
  <2>3. Held \cap Block(m) = Block(m)
    BY <1>6, HeldFinite
  <2>4. Cardinality(Held \ Block(m)) = Cardinality(Held) - Cardinality(Held \cap Block(m))
    BY <1>4, FS_Difference
  <2> QED
    BY <1>3, <2>2, <2>3, <2>4
<1>7. ASSUME m \in Live <=> Runs PROVE Held' = Held
  <2>1. Live' = Live
    BY <1>1, <1>7
  <2> QED
    BY <1>2, <2>1 DEF Held
<1> QED
  BY <1>5, <1>6, <1>7

\* Every step conserves the permits.
LEMMA PermitsStep == Shape /\ PermitsInv /\ [Next]_vars => PermitsInv'
<1> SUFFICES ASSUME Shape, PermitsInv, [Next]_vars PROVE PermitsInv'
  OBVIOUS
<1>0. /\ free \in Nat /\ MaxInFlight \in Nat /\ Cardinality(Held) \in Nat
      /\ free + Cardinality(Held) = MaxInFlight
      /\ \A m \in Messages : Permits(m) \in Nat
  BY LimitsAssumption, HeldFinite, BlockSize DEF PermitsInv, PermitsConserved
<1>1. UNCHANGED <<msg, free>> => PermitsInv'
  BY DEF PermitsInv, PermitsConserved, Held, Live, Permits
<1>2. ASSUME NEW m \in Messages, NEW result \in MsgStates, msg' = [msg EXCEPT ![m] = result],
             free' = free, m \in Live <=> result \in {"running", "replying"}
      PROVE  PermitsInv'
  <2>1. Held' = Held
    BY <1>2, HeldMoves
  <2> QED
    BY <1>0, <1>2, <2>1 DEF PermitsInv, PermitsConserved
<1>3. ASSUME NEW m \in Messages, NEW result \in MsgStates \ {"running", "replying"},
             m \in Live, Release(m, result)
      PROVE  PermitsInv'
  <2>1. Cardinality(Held') = Cardinality(Held) - Permits(m)
    BY <1>3, HeldMoves DEF Release
  <2>2. free' = free + Permits(m)
    BY <1>3 DEF Release
  <2> QED
    BY <1>0, <2>1, <2>2 DEF PermitsInv, PermitsConserved
<1>4. CASE Connected \/ ConnectFails \/ Refused \/ FlushEnds \/ RethClosed \/ ReadEnds
  BY <1>1, <1>4 DEF Connected, ConnectFails, Refused, FlushEnds, RethClosed, ReadEnds
<1>5. CASE MainReplies \/ Forwarded
  <2>1. cur \in Messages /\ cur \notin Live /\ free' = free
    BY <1>5 DEF MainReplies, Forwarded, Shape, Live
  <2>2. \E s \in {"sent", "dropped", "forwarded"} : msg' = [msg EXCEPT ![cur] = s]
    BY <1>5 DEF MainReplies, Forwarded
  <2> QED
    BY <1>2, <2>1, <2>2 DEF MsgStates
<1>6. ASSUME NEW m \in Messages, Read(m) PROVE PermitsInv'
  <2>1. m \notin Live
    BY <1>6 DEF Read, ReadRefused, ReadSubscribe, ReadCall, Live
  <2>2. CASE msg' = [msg EXCEPT ![m] = "handling"] /\ free' = free
    BY <1>2, <2>1, <2>2 DEF MsgStates
  <2>3. CASE msg' = [msg EXCEPT ![m] = "running"] /\ free >= Permits(m) /\ free' = free - Permits(m)
    <3>1. Cardinality(Held') = Cardinality(Held) + Permits(m)
      BY <2>1, <2>3, HeldMoves DEF MsgStates
    <3> QED
      BY <1>0, <2>3, <3>1 DEF PermitsInv, PermitsConserved
  <2> QED
    BY <1>6, <2>2, <2>3 DEF Read, ReadRefused, ReadSubscribe, ReadCall, Handle
<1>7. ASSUME NEW m \in Messages, TaskComputed(m) PROVE PermitsInv'
  <2>1. m \in Live /\ msg' = [msg EXCEPT ![m] = "replying"] /\ free' = free
    BY <1>7 DEF TaskComputed, Live, taskVars
  <2> QED
    BY <1>2, <2>1 DEF MsgStates
<1>8. ASSUME NEW m \in Messages, TaskPanics(m) \/ TaskReplies(m) \/ TaskCancelled(m)
      PROVE  PermitsInv'
  <2>1. m \in Live /\ \E s \in {"panicked", "sent", "dropped", "cancelled"} : Release(m, s)
    BY <1>8 DEF TaskPanics, TaskReplies, TaskCancelled, Live
  <2> QED
    BY <1>3, <2>1 DEF MsgStates
<1>9. CASE RelayTakes \/ RelaySends \/ RelayEnds
  BY <1>1, <1>9 DEF RelayTakes, RelaySends, RelayEnds, taskVars
<1>10. CASE WriterTakes \/ WriterDrained \/ WriterWrites \/ WriterFails \/ WriterEnds
  BY <1>1, <1>10 DEF WriterTakes, WriterDrained, WriterWrites, WriterFails, WriterEnds, taskVars
<1>11. CASE UNCHANGED vars
  BY <1>1, <1>11 DEF vars
<1> QED
  BY <1>4, <1>5, <1>6, <1>7, <1>8, <1>9, <1>10, <1>11 DEF Next, MainStep, TaskStep

\* What is true at the start, and stays.
LEMMA PermitsInvariance == Spec => [](Shape /\ PermitsInv)
<1>1. Init => PermitsInv
  <2> SUFFICES ASSUME Init PROVE PermitsInv
    OBVIOUS
  <2>1. Live = {}
    BY DEF Init, Live
  <2>2. Held = {}
    BY <2>1 DEF Held
  <2> QED
    BY <2>2, FS_EmptySet, LimitsAssumption DEF Init, PermitsInv, PermitsConserved
<1> QED
  BY <1>1, ShapeStart, ShapeStep, PermitsStep, PTL DEF Spec

\* Permits are free or held by a live task, however tasks end (PermitsConserved).
THEOREM NoPermitLost == Spec => []PermitsConserved
<1>1. PermitsInv => PermitsConserved
  BY DEF PermitsInv
<1> QED
  BY <1>1, PermitsInvariance, PTL

\* The variables have their types, the permits their bound.
THEOREM TypeCorrect == Spec => []TypeOK
<1>1. Shape /\ PermitsInv => TypeOK
  <2>1. PermitsInv => free \in 0..MaxInFlight
    BY LimitsAssumption, HeldFinite DEF PermitsInv, PermitsConserved
  <2> QED
    BY <2>1 DEF Shape, TypeOK, MainStates, MsgStates
<1> QED
  BY <1>1, PermitsInvariance, PTL

\* A client that does not read makes the provider hold a bounded number of items
\* (OutputBounded): a waiting reply holds a permit.
THEOREM OutputIsBounded == Spec => []OutputBounded
<1>1. Shape /\ PermitsInv => OutputBounded
  <2> SUFFICES ASSUME Shape, PermitsInv PROVE OutputBounded
    OBVIOUS
  <2> DEFINE R == {m \in Messages : msg[m] = "replying"}
  <2>1. IsFiniteSet(R)
    BY MessagesAssumption, FS_Subset
  <2>2. IsFiniteSet({1}) /\ Cardinality({1}) = 1
    BY FS_Singleton
  <2>3. R \X {1} \subseteq Held
    <3>1. \A m \in Messages : Permits(m) \in 1..MaxInFlight
      BY BlockSize
    <3> QED
      BY <3>1, LimitsAssumption DEF Held, Live
  <2>4. Cardinality(R) \in Nat
    BY <2>1, FS_CardinalityType
  <2> HIDE DEF R
  <2>5. Cardinality(R \X {1}) = Cardinality(R)
    <3>1. Cardinality(R \X {1}) = Cardinality(R) * 1
      BY <2>1, <2>2, FS_Product
    <3> QED
      BY <2>4, <3>1
  <2>6. Cardinality(R \X {1}) <= Cardinality(Held)
    BY <2>3, HeldFinite, FS_Subset
  <2>7. Cardinality(Held) <= MaxInFlight
    BY LimitsAssumption, HeldFinite DEF PermitsInv, PermitsConserved
  <2>8. Len(channel) \in Nat /\ Len(channel) <= Buffer /\ Len(hand) \in Nat /\ Len(hand) <= 1
    BY DEF Shape
  <2>9. HeldForClient = Cardinality(R) + Len(channel) + Len(hand)
    BY DEF HeldForClient, R
  <2> QED
    BY <2>4, <2>5, <2>6, <2>7, <2>8, <2>9, LimitsAssumption, HeldFinite DEF OutputBounded
<1> QED
  BY <1>1, PermitsInvariance, PTL

-----------------------------------------------------------------------------
(* The contract.  Two steps of the connection matter to the client beside    *)
(* the fate of its frames: the writer's write and the writer's end.          *)

line == IF main = "connect" THEN "new" ELSE IF writer = "ended" THEN "down" ELSE "up"
status == [m \in Messages |-> ContractStatus(m)]

Got(m) == \E i \in 1..Len(delivered) : delivered[i] = Reply(m)
Active == {"handling", "running", "replying"}

\* The contract's status of a frame, by how far it got.
LEMMA StatusOf ==
  ASSUME NEW m \in Messages
  PROVE  /\ status[m] = IF msg[m] = "unread" THEN "open"
                        ELSE IF Got(m) THEN "answered"
                        ELSE IF msg[m] \in Unanswered \/ (msg[m] = "sent" /\ writer = "ended") THEN "silent"
                        ELSE "pending"
         /\ status'[m] = IF msg'[m] = "unread" THEN "open"
                         ELSE IF Got(m)' THEN "answered"
                         ELSE IF msg'[m] \in Unanswered \/ (msg'[m] = "sent" /\ writer' = "ended") THEN "silent"
                         ELSE "pending"
BY DEF status, ContractStatus, Got, Unanswered

\* What was delivered is the front of the pipeline.
LEMMA DeliveredInPipeline ==
  ASSUME Shape
  PROVE  /\ Len(delivered) \in Nat /\ Len(Pipeline) \in Nat /\ Len(delivered) <= Len(Pipeline)
         /\ \A i \in 1..Len(delivered) : i \in 1..Len(Pipeline) /\ Pipeline[i] = delivered[i]
<1>1. delivered \in Seq(Item) /\ hand \o channel \in Seq(Item)
  BY ConcatProperties DEF Shape
<1>2. Pipeline = delivered \o (hand \o channel)
  BY PipelineTypes
<1>3. /\ Len(Pipeline) = Len(delivered) + Len(hand \o channel)
      /\ \A i \in 1..(Len(delivered) + Len(hand \o channel)) :
           Pipeline[i] = IF i <= Len(delivered) THEN delivered[i] ELSE (hand \o channel)[i - Len(delivered)]
  BY <1>1, <1>2, ConcatProperties
<1>4. Len(delivered) \in Nat /\ Len(hand \o channel) \in Nat
  BY <1>1
<1> QED
  BY <1>3, <1>4

\* Only a reply that was sent is delivered.
LEMMA GotIsSent ==
  ASSUME Shape, Replies, NEW m \in Messages, Got(m)
  PROVE  msg[m] = "sent"
<1>1. PICK i \in 1..Len(delivered) : delivered[i] = Reply(m)
  BY DEF Got
<1>2. i \in 1..Len(Pipeline) /\ Pipeline[i] = Reply(m)
  BY <1>1, DeliveredInPipeline
<1> QED
  BY <1>2 DEF Replies

\* The initial states map to the contract's.
LEMMA RefinesInit == Init => Contract!Init
BY DEF Init, Contract!Init, ContractStatus

\* A step that leaves the contract's variables alone.
LEMMA SameRefines ==
  ASSUME UNCHANGED <<line, status, delivered>>
  PROVE  Contract!Next \/ UNCHANGED Contract!vars
BY DEF line, status, Contract!vars

\* One frame moves on, from one that may still be answered to one that may, or will not be.
LEMMA FrameRefines ==
  ASSUME Shape, Replies, NEW m \in Messages, NEW result \in MsgStates,
         msg' = [msg EXCEPT ![m] = result], UNCHANGED <<writer, delivered>>,
         main # "connect", main' # "connect",
         \/ msg[m] = "unread" /\ result \in Active
         \/ msg[m] \in Active /\ result \in Active \cup Unanswered
         \/ msg[m] \in Active /\ result = "sent" /\ writer # "ended"
  PROVE  Contract!Next \/ UNCHANGED Contract!vars
<1>1. /\ msg'[m] = result /\ \A k \in Messages : k # m => msg'[k] = msg[k]
  BY DEF Shape
<1>2. ~Got(m) /\ \A k \in Messages : Got(k)' <=> Got(k)
  BY GotIsSent DEF Got, Active
<1>3. \A k \in Messages : k # m => status'[k] = status[k]
  BY <1>1, <1>2, StatusOf
<1>4. status' = [status EXCEPT ![m] = status'[m]]
  BY <1>3 DEF status
<1>5. UNCHANGED line /\ line # "new"
  BY DEF line
<1>6. CASE msg[m] = "unread"
  <2>1. status[m] = "open" /\ status'[m] = "pending"
    BY <1>1, <1>2, <1>6, StatusOf DEF Active, Unanswered
  <2> QED
    BY <1>4, <1>5, <2>1 DEF Contract!Next, Contract!Take, line, status
<1>7. CASE msg[m] \in Active /\ result \in Unanswered
  <2>1. status[m] = "pending" /\ status'[m] = "silent"
    BY <1>1, <1>2, <1>7, StatusOf DEF Active, Unanswered
  <2> QED
    BY <1>4, <1>5, <2>1 DEF Contract!Next, Contract!GiveUp, line, status
<1>8. CASE msg[m] \in Active /\ (result \in Active \/ (result = "sent" /\ writer # "ended"))
  <2>1. status[m] = "pending" /\ status'[m] = "pending"
    BY <1>1, <1>2, <1>8, StatusOf DEF Active, Unanswered
  <2>2. status' = status
    BY <1>4, <2>1 DEF status
  <2> QED
    BY <1>5, <2>2, SameRefines
<1> QED
  BY <1>6, <1>7, <1>8

\* A step of a task that is not about the frames, and ends no writer.
LEMMA QuietRefines ==
  ASSUME UNCHANGED <<msg, delivered>>, main = "connect" <=> main' = "connect",
         writer = "ended" <=> writer' = "ended"
  PROVE  Contract!Next \/ UNCHANGED Contract!vars
<1>1. UNCHANGED <<line, status>>
  BY DEF line, status, ContractStatus
<1> QED
  BY <1>1, SameRefines

\* The writer ends, and with it what was sent and not delivered.
LEMMA FallRefines ==
  ASSUME UNCHANGED <<msg, delivered, main>>, main # "connect", writer # "ended", writer' = "ended"
  PROVE  Contract!Next
<1> DEFINE lost == {m \in Messages : status[m] = "pending" /\ msg[m] = "sent"}
<1>1. line = "up" /\ line' = "down"
  BY DEF line
<1>2. \A m \in Messages : Got(m)' <=> Got(m)
  BY DEF Got
<1>3. \A m \in Messages : status'[m] = IF m \in lost THEN "silent" ELSE status[m]
  BY <1>2, StatusOf DEF Unanswered
<1>4. status' = [m \in Messages |-> IF m \in lost THEN "silent" ELSE status[m]]
  BY <1>3 DEF status
<1>5. lost \in SUBSET {m \in Messages : status[m] = "pending"}
  OBVIOUS
<1> HIDE DEF lost
<1>6. Contract!Fall
  BY <1>1, <1>4, <1>5 DEF Contract!Fall, line, status
<1> QED
  BY <1>6 DEF Contract!Next

\* Before reth is connected nothing was read.
LEMMA StartRefines ==
  ASSUME Shape, Connected \/ ConnectFails
  PROVE  Contract!Next
<1>1. line = "new" /\ UNCHANGED <<msg, delivered>> /\ \A m \in Messages : msg[m] = "unread"
  BY DEF Connected, ConnectFails, Shape, line, pipeVars
<1>2. status' = status /\ \A m \in Messages : status[m] = "open"
  BY <1>1 DEF status, ContractStatus
<1>3. CASE Connected
  <2>1. line' = "up"
    BY <1>3 DEF Connected, line
  <2> QED
    BY <1>1, <1>2, <2>1 DEF Contract!Next, Contract!Open, line, status
<1>4. CASE ConnectFails
  <2>1. line' = "down"
    BY <1>4 DEF ConnectFails, line, Shape, pipeVars
  <2> DEFINE lost == {m \in Messages : FALSE}
  <2>2. /\ status' = [m \in Messages |-> IF m \in lost THEN "silent" ELSE status[m]]
        /\ lost \in SUBSET {m \in Messages : status[m] = "pending"}
    BY <1>2 DEF status
  <2> HIDE DEF lost
  <2>3. Contract!Fall
    BY <1>1, <2>1, <2>2 DEF Contract!Fall, line, status
  <2> QED
    BY <2>3 DEF Contract!Next
<1> QED
  BY <1>3, <1>4

\* What the writer writes is the next item of the pipeline.
LEMMA WrittenItem ==
  ASSUME Shape, NEW item \in Item, hand = <<item>>, delivered' = delivered \o hand
  PROVE  /\ delivered' = Append(delivered, item) /\ delivered' \in Seq(Item)
         /\ Len(delivered') = Len(delivered) + 1 /\ delivered'[Len(delivered) + 1] = item
         /\ \A i \in 1..Len(delivered) : delivered'[i] = delivered[i]
         /\ Len(delivered') <= Len(Pipeline)
         /\ \A i \in 1..Len(delivered') : i \in 1..Len(Pipeline) /\ Pipeline[i] = delivered'[i]
<1>1. delivered \in Seq(Item) /\ channel \in Seq(Item) /\ delivered \o hand \in Seq(Item)
  BY PipelineTypes DEF Shape
<1>2. delivered' = Append(delivered, item)
  BY <1>1, AppendIsConcat
<1>3. /\ delivered' \in Seq(Item) /\ Len(delivered') = Len(delivered) + 1
      /\ delivered'[Len(delivered) + 1] = item
      /\ \A i \in 1..Len(delivered) : delivered'[i] = delivered[i]
  BY <1>1, <1>2, AppendProperties
<1>4. Pipeline = delivered' \o channel
  BY DEF Pipeline
<1>5. /\ Len(Pipeline) = Len(delivered') + Len(channel)
      /\ \A i \in 1..(Len(delivered') + Len(channel)) :
           Pipeline[i] = IF i <= Len(delivered') THEN delivered'[i] ELSE channel[i - Len(delivered')]
  BY <1>1, <1>3, <1>4, ConcatProperties
<1>6. Len(delivered') \in Nat /\ Len(channel) \in Nat
  BY <1>1, <1>3
<1> QED
  BY <1>2, <1>3, <1>5, <1>6

\* The writer delivers a reply: the frame is answered, for the first time.
LEMMA AnswerRefines ==
  ASSUME Shape, Replies, NEW m \in Messages, hand = <<Reply(m)>>,
         delivered' = delivered \o hand, main # "connect", UNCHANGED <<main, msg>>,
         writer # "ended", writer' # "ended"
  PROVE  Contract!Next
<1> DEFINE n == Len(delivered) + 1
<1>1. /\ delivered' = Append(delivered, Reply(m)) /\ Len(delivered') = n /\ delivered'[n] = Reply(m)
      /\ \A i \in 1..Len(delivered) : delivered'[i] = delivered[i]
      /\ \A i \in 1..n : i \in 1..Len(Pipeline) /\ Pipeline[i] = delivered'[i]
      /\ Len(delivered) \in Nat
  BY Items, WrittenItem, DeliveredInPipeline
<1>2. msg[m] = "sent"
  <2>1. n \in 1..Len(Pipeline) /\ Pipeline[n] = Reply(m)
    BY <1>1
  <2> QED
    BY <2>1 DEF Replies
<1>3. ~Got(m)
  <2> SUFFICES ASSUME NEW i \in 1..Len(delivered), delivered[i] = Reply(m) PROVE FALSE
    BY DEF Got
  <2>1. i \in 1..n /\ n \in 1..n /\ i # n
    BY <1>1
  <2>2. i \in 1..Len(Pipeline) /\ n \in 1..Len(Pipeline) /\ Pipeline[i] = Pipeline[n]
    BY <1>1, <2>1
  <2> QED
    BY <2>1, <2>2 DEF Replies
<1> HIDE DEF n
<1>4. Got(m)'
  <2>1. n \in 1..Len(delivered')
    BY <1>1 DEF n
  <2> QED
    BY <1>1, <2>1 DEF Got, Reply
<1>5. ASSUME NEW k \in Messages, k # m PROVE Got(k)' <=> Got(k)
  <2>1. Reply(k) # Reply(m)
    BY <1>5, ItemsDiffer
  <2>2. 1..Len(delivered') = 1..Len(delivered) \cup {n}
    BY <1>1 DEF n
  <2> QED
    BY <1>1, <2>1, <2>2 DEF Got, Reply
<1>6. status[m] = "pending" /\ status'[m] = "answered"
  BY <1>2, <1>3, <1>4, StatusOf DEF Unanswered
<1>7. \A k \in Messages : k # m => status'[k] = status[k]
  BY <1>5, StatusOf
<1>8. status' = [status EXCEPT ![m] = "answered"]
  BY <1>6, <1>7 DEF status
<1>9. line = "up" /\ line' = "up"
  BY DEF line
<1>10. Contract!Answer(m)
  BY <1>1, <1>6, <1>8, <1>9 DEF Contract!Answer, Contract!Reply, Reply, line, status
<1> QED
  BY <1>10 DEF Contract!Next

\* The writer delivers a message of reth, the next one.
LEMMA RelayRefines ==
  ASSUME Shape, Order, NEW k \in 1..MaxEvents, hand = <<Event(k)>>,
         delivered' = delivered \o hand, main # "connect", UNCHANGED <<main, msg>>,
         writer # "ended", writer' # "ended"
  PROVE  Contract!Next
<1> DEFINE n == Len(delivered) + 1
           next == delivered'
<1>1. /\ next = Append(delivered, Event(k)) /\ Len(next) = n /\ next[n] = Event(k)
      /\ next \in Seq(Item) /\ delivered \in Seq(Item)
      /\ \A i \in 1..Len(delivered) : next[i] = delivered[i]
      /\ Len(next) <= Len(Pipeline) /\ \A i \in 1..Len(next) : Pipeline[i] = next[i]
      /\ Len(delivered) \in Nat
  BY Items, WrittenItem, DeliveredInPipeline DEF Shape
<1>2. Numbered(next)
  <2>1. Numbered(Pipeline) /\ Pipeline \in Seq(Item)
    BY PipelineTypes DEF Order
  <2> HIDE DEF next
  <2> QED
    BY <1>1, <2>1, PrefixNumbered
<1>3. EventsOf(next) = EventsOf(delivered) \cup {n} /\ n \notin EventsOf(delivered)
  <2> HIDE DEF next
  <2>1. Event(k).kind = "event"
    BY Items
  <2>2. 1..Len(next) = 1..Len(delivered) \cup {n} /\ n \notin 1..Len(delivered)
    BY <1>1
  <2> QED
    BY <1>1, <2>1, <2>2 DEF EventsOf
<1>4. UpTo(next, n) = EventsOf(next)
  <2> HIDE DEF next
  <2>1. EventsOf(next) \subseteq 1..n
    BY <1>1 DEF EventsOf
  <2> QED
    BY <1>1, <2>1 DEF UpTo
<1>5. k = Cardinality(EventsOf(delivered)) + 1
  <2> HIDE DEF next
  <2>1. Cardinality(EventsOf(next)) = Cardinality(EventsOf(delivered)) + 1
    <3>1. IsFiniteSet(EventsOf(delivered))
      BY <1>1, EventsFinite
    <3>2. Cardinality(EventsOf(delivered) \cup {n}) = Cardinality(EventsOf(delivered)) + 1
      BY <1>3, <3>1, FS_AddElement
    <3> QED
      BY <1>3, <3>2
  <2>2. next[n].of = Cardinality(UpTo(next, n))
    BY <1>2, <1>3 DEF Numbered
  <2> QED
    BY <1>1, <1>4, <2>1, <2>2, Items
<1>6. \A m \in Messages : Got(m)' <=> Got(m)
  <2>1. \A m \in Messages : Reply(m) # Event(k)
    BY ItemsDiffer
  <2>2. 1..Len(next) = 1..Len(delivered) \cup {n}
    BY <1>1
  <2>3. \A m \in Messages : Got(m)' <=> \E i \in 1..Len(next) : next[i] = Reply(m)
    BY DEF Got, Reply
  <2> HIDE DEF next
  <2> QED
    BY <1>1, <2>1, <2>2, <2>3 DEF Got
<1>7. status' = status
  <2>1. \A m \in Messages : status'[m] = status[m]
    BY <1>6, StatusOf
  <2> QED
    BY <2>1 DEF status
<1>8. line = "up" /\ line' = "up"
  BY DEF line
<1>9. Contract!Relayed = Cardinality(EventsOf(delivered))
  BY DEF Contract!Relayed, EventsOf, Contract!Cardinality, Cardinality
<1>10. Contract!Relay
  <2>1. delivered' = Append(delivered, Contract!Event(Contract!Relayed + 1))
    BY <1>1, <1>5, <1>9 DEF Contract!Event, Event
  <2> QED
    BY <1>7, <1>8, <2>1 DEF Contract!Relay, line, status
<1> QED
  BY <1>10 DEF Contract!Next

\* Every step of the connection is a step of the contract or changes nothing it sees.
LEMMA RefinesStep ==
  Shape /\ Replies /\ Order /\ [Next]_vars => Contract!Next \/ UNCHANGED Contract!vars
<1> SUFFICES ASSUME Shape, Replies, Order, [Next]_vars
             PROVE  Contract!Next \/ UNCHANGED Contract!vars
  OBVIOUS
<1> DEFINE Refines == Contract!Next \/ UNCHANGED Contract!vars
<1> USE DEF pipeVars, taskVars
<1>1. CASE Connected \/ ConnectFails
  BY <1>1, StartRefines
<1>2. CASE Refused \/ FlushEnds \/ RethClosed \/ ReadEnds
  BY <1>2, QuietRefines DEF Refused, FlushEnds, RethClosed, ReadEnds, Leave
<1>3. ASSUME NEW m \in Messages, Read(m)
      PROVE  Refines
  <2>1. /\ msg[m] = "unread" /\ main = "read" /\ main' # "connect"
        /\ UNCHANGED <<writer, delivered>>
    BY <1>3 DEF Read, ReadRefused, ReadSubscribe, ReadCall, Handle
  <2>2. \E result \in {"handling", "running"} : msg' = [msg EXCEPT ![m] = result]
    BY <1>3 DEF Read, ReadRefused, ReadSubscribe, ReadCall, Handle
  <2> QED
    BY <2>1, <2>2, FrameRefines DEF MsgStates, Active
<1>4. CASE MainReplies \/ Forwarded
  <2>1. cur \in Messages /\ msg[cur] = "handling"
    BY <1>4 DEF MainReplies, Forwarded, Shape
  <2>2. main # "connect" /\ main' # "connect" /\ UNCHANGED <<writer, delivered>>
    BY <1>4 DEF MainReplies, Forwarded, Leave
  <2>3. \/ msg' = [msg EXCEPT ![cur] = "sent"] /\ writer # "ended"
        \/ msg' = [msg EXCEPT ![cur] = "dropped"]
        \/ msg' = [msg EXCEPT ![cur] = "forwarded"]
    BY <1>4 DEF MainReplies, Forwarded, Enqueue
  <2> QED
    BY <2>1, <2>2, <2>3, FrameRefines DEF MsgStates, Active, Unanswered
<1>5. ASSUME NEW m \in Messages, TaskComputed(m) \/ TaskPanics(m) \/ TaskReplies(m) \/ TaskCancelled(m)
      PROVE  Refines
  <2>1. msg[m] \in Active /\ UNCHANGED <<main, writer, delivered>>
    BY <1>5 DEF TaskComputed, TaskPanics, TaskReplies, TaskCancelled, Live, Active
  <2>2. main # "connect"
    BY <2>1 DEF Shape, Active
  <2>3. \/ msg' = [msg EXCEPT ![m] = "sent"] /\ writer # "ended"
        \/ \E result \in {"replying", "panicked", "dropped", "cancelled"} : msg' = [msg EXCEPT ![m] = result]
    BY <1>5 DEF TaskComputed, TaskPanics, TaskReplies, TaskCancelled, Release, Enqueue
  <2> QED
    BY <2>1, <2>2, <2>3, FrameRefines DEF MsgStates, Active, Unanswered
<1>6. CASE RelayTakes \/ RelaySends \/ RelayEnds \/ WriterTakes \/ WriterDrained
  BY <1>6, QuietRefines DEF RelayTakes, RelaySends, RelayEnds, WriterTakes, WriterDrained
<1>7. CASE WriterWrites
  <2>1. /\ main # "connect" /\ UNCHANGED <<main, msg>> /\ delivered' = delivered \o hand
        /\ writer # "ended" /\ writer' # "ended"
    BY <1>7 DEF WriterWrites, Shape
  <2>2. CASE hand = <<>>
    <3>1. delivered' = delivered
      BY <2>1, <2>2, ConcatEmptySeq DEF Shape
    <3> QED
      BY <2>1, <3>1, QuietRefines
  <2>3. CASE hand # <<>>
    <3>1. PICK item \in Item : hand = <<item>>
      <4>1. hand \in Seq(Item) /\ Len(hand) = 1
        <5>1. \A s \in Seq(Item) : Len(s) \in Nat /\ (Len(s) = 0 => s = <<>>)
          OBVIOUS
        <5>2. hand \in Seq(Item) /\ Len(hand) <= 1 /\ hand # <<>>
          BY <2>3 DEF Shape
        <5> HIDE DEF Shape
        <5> QED
          BY <5>1, <5>2
      <4>2. hand[1] \in Item /\ hand = <<hand[1]>>
        BY <4>1
      <4> QED
        BY <4>2
    <3>2. CASE \E m \in Messages : item = Reply(m)
      BY <2>1, <3>1, <3>2, AnswerRefines
    <3>3. CASE \E k \in 1..MaxEvents : item = Event(k)
      BY <2>1, <3>1, <3>3, RelayRefines
    <3> QED
      BY <3>2, <3>3 DEF Item
  <2> QED
    BY <2>2, <2>3
<1>8. CASE WriterFails \/ WriterEnds
  <2>1. main # "connect" /\ UNCHANGED <<main, msg, delivered>> /\ writer # "ended" /\ writer' = "ended"
    BY <1>8 DEF WriterFails, WriterEnds, Shape
  <2> QED
    BY <2>1, FallRefines
<1>9. CASE UNCHANGED vars
  BY <1>9, QuietRefines DEF vars
<1> QED
  BY <1>1, <1>2, <1>3, <1>4, <1>5, <1>6, <1>7, <1>8, <1>9 DEF Next, MainStep, TaskStep

\* A connection implements the contract (ImplementsContract), whatever its client, its
\* tasks and reth do: a frame is answered at most once and never after it was given up,
\* reth's messages come in order and without a gap, and nothing comes once the line is down.
THEOREM RefinesContract == Spec => ImplementsContract
<1>1. Init => Shape /\ Replies /\ Order
  BY ShapeStart, RepliesStart, OrderStart DEF Init
<1> QED
  BY <1>1, RefinesInit, ShapeStep, RepliesStep, OrderStep, RefinesStep, PTL
  DEF Spec, ImplementsContract, Contract!Spec
=============================================================================
