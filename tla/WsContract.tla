----------------------------- MODULE WsContract -----------------------------
(***************************************************************************)
(* What a WebSocket connection promises its client, without tasks, channel *)
(* or permits.  A frame is taken at most once and answered at most once,   *)
(* while the line is up and never after it was given up; the messages of   *)
(* the subscriptions come in order and without a gap, anywhere between the *)
(* answers; what was delivered stays as it is.                             *)
(***************************************************************************)
EXTENDS Naturals, Sequences, FiniteSets

CONSTANT Messages

VARIABLES
  line,       \* "new", "up" or "down"
  status,     \* a frame is "open", "pending", "answered" or "silent"
  delivered   \* what the client was sent, in order

vars == <<line, status, delivered>>

Reply(m) == [kind |-> "reply", of |-> m]
Event(n) == [kind |-> "event", of |-> n]

\* How many messages of the subscriptions were delivered.
Relayed == Cardinality({i \in 1..Len(delivered) : delivered[i].kind = "event"})

Init ==
  /\ line = "new"
  /\ status = [m \in Messages |-> "open"]
  /\ delivered = <<>>

Open ==
  /\ line = "new"
  /\ line' = "up"
  /\ UNCHANGED <<status, delivered>>

Take(m) ==
  /\ line # "new" /\ status[m] = "open"
  /\ status' = [status EXCEPT ![m] = "pending"]
  /\ UNCHANGED <<line, delivered>>

Answer(m) ==
  /\ line = "up" /\ status[m] = "pending"
  /\ status' = [status EXCEPT ![m] = "answered"]
  /\ delivered' = Append(delivered, Reply(m))
  /\ UNCHANGED line

\* The next message of the subscriptions.
Relay ==
  /\ line = "up"
  /\ delivered' = Append(delivered, Event(Relayed + 1))
  /\ UNCHANGED <<line, status>>

\* A subscription is answered by reth; a task may panic or be cancelled; nobody listens.
GiveUp(m) ==
  /\ status[m] = "pending"
  /\ status' = [status EXCEPT ![m] = "silent"]
  /\ UNCHANGED <<line, delivered>>

\* The line goes down, with what was on its way.
Fall ==
  /\ line # "down"
  /\ line' = "down"
  /\ \E lost \in SUBSET {m \in Messages : status[m] = "pending"} :
       status' = [m \in Messages |-> IF m \in lost THEN "silent" ELSE status[m]]
  /\ UNCHANGED delivered

Next ==
  \/ Open \/ Relay \/ Fall
  \/ \E m \in Messages : Take(m) \/ Answer(m) \/ GiveUp(m)

Spec == Init /\ [][Next]_vars
=============================================================================
