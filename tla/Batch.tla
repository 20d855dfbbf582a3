-------------------------------- MODULE Batch --------------------------------
(***************************************************************************)
(* How one JSON-RPC batch is carried out.  A WebSocket batch               *)
(* (api/ws.rs process_ws_batch) runs as many requests at once as it holds  *)
(* permits and admits one more whenever one completes; an HTTP batch       *)
(* (api/rpc.rs handle_rpc) runs its requests one after the other, which is *)
(* the same algorithm with a window of one.  A request is its index: what  *)
(* its response says is routing's business.                                *)
(***************************************************************************)
EXTENDS Naturals, Sequences, FiniteSets, SequencesExt

CONSTANTS
  MaxLen,      \* bound on the length of a batch
  MaxInFlight  \* MAX_INFLIGHT_REQUESTS

ASSUME BoundsAssumption == MaxLen \in Nat \ {0} /\ MaxInFlight \in Nat \ {0}

VARIABLES
  transport,  \* "ws" or "http"
  len,        \* the number of requests
  phase,      \* of the batch
  next,       \* the next request to admit
  running,    \* admitted and not completed
  responses,  \* collected, in the order of completion
  answer      \* the array sent to the client

vars == <<transport, len, phase, next, running, responses, answer>>

Requests == 1..len

TypeOK ==
  /\ transport \in {"ws", "http"}
  /\ len \in 1..MaxLen
  /\ phase \in {"admitted", "collecting", "answered", "cancelled", "panicked"}
  /\ next \in 1..MaxLen + 1
  /\ running \in SUBSET Requests
  /\ responses \in Seq(Requests)

\* An empty batch never gets here, and a WebSocket batch holds its permits.
Init ==
  /\ transport \in {"ws", "http"}
  /\ len \in 1..MaxLen
  /\ phase = "admitted"
  /\ next = 1
  /\ running = {}
  /\ responses = <<>>
  /\ answer = <<>>

Smaller(a, b) == IF a < b THEN a ELSE b

\* permit.num_permits(): what ws.rs reserved; HTTP awaits each request in turn.
Window == IF transport = "ws" THEN Smaller(len, MaxInFlight) ELSE 1

\* The first requests are started, as many as the window holds.
Prime ==
  /\ phase = "admitted"
  /\ phase' = "collecting"
  /\ running' = 1..Window
  /\ next' = Window + 1
  /\ UNCHANGED <<transport, len, responses, answer>>

\* Mutants: an ordered buffer, where a completed request frees its place only once
\* all before it completed; a refill past the end; one that does not advance.
CompleteOrdered(i) ==
  /\ i \in running
  /\ responses' = Append(responses, i)
  /\ LET left == running \ {i}
         freed == {k \in Requests : k < next /\ \A j \in left : k < j}
         room == Smaller(len, Cardinality(freed) + Window)
     IN running' = left \cup (next..room) /\ next' = IF room < next THEN next ELSE room + 1
  /\ UNCHANGED <<transport, len, phase, answer>>

CompleteUnbounded(i) ==
  /\ i \in running
  /\ responses' = Append(responses, i)
  /\ running' = (running \ {i}) \cup {next}
  /\ next' = next + 1
  /\ UNCHANGED <<transport, len, phase, answer>>

CompleteForgets(i) ==
  /\ i \in running
  /\ responses' = Append(responses, i)
  /\ running' = IF Len(responses) < len THEN (running \ {i}) \cup ({next} \cap Requests)
                ELSE running \ {i}
  /\ UNCHANGED <<transport, len, phase, next, answer>>

\* One request completes, in any order, and the next one takes its place.
Complete(i) ==
  /\ i \in running
  /\ responses' = Append(responses, i)
  /\ running' = (running \ {i}) \cup ({next} \cap Requests)
  /\ next' = IF next \in Requests THEN next + 1 ELSE next
  /\ UNCHANGED <<transport, len, phase, answer>>

\* The sort: at place k is what at least k elements do not exceed, and fewer than k
\* stay below.
Sorted(s) ==
  [k \in DOMAIN s |-> CHOOSE x \in ToSet(s) :
    /\ Cardinality({j \in DOMAIN s : s[j] < x}) < k
    /\ k <= Cardinality({j \in DOMAIN s : s[j] <= x})]

\* Mutant: the responses are sent as they came.
AnswerUnsorted ==
  /\ phase = "collecting"
  /\ running = {}
  /\ phase' = "answered"
  /\ answer' = responses
  /\ UNCHANGED <<transport, len, next, running, responses>>

\* Every request completed: the responses are sent, those of a WebSocket batch sorted
\* by index, those of an HTTP batch as they came.
Answer ==
  /\ phase = "collecting"
  /\ running = {}
  /\ phase' = "answered"
  /\ answer' = IF transport = "ws" THEN Sorted(responses) ELSE responses
  /\ UNCHANGED <<transport, len, next, running, responses>>

\* The connection ends: the batch is dropped with the requests it runs.
Cancel ==
  /\ phase \in {"admitted", "collecting"}
  /\ phase' = "cancelled"
  /\ running' = {}
  /\ UNCHANGED <<transport, len, next, responses, answer>>

\* One request panics: the batch unwinds, and no request of it is answered.
Panic ==
  /\ running # {}
  /\ phase' = "panicked"
  /\ running' = {}
  /\ UNCHANGED <<transport, len, next, responses, answer>>

Next ==
  \/ Prime
  \/ \E i \in running : Complete(i)
  \/ Answer \/ Cancel \/ Panic

Spec == Init /\ [][Next]_vars

-----------------------------------------------------------------------------
(* Properties. *)

\* A batch never runs more requests at once than it holds permits.
WindowRespected == Cardinality(running) <= Window

\* The window stays full while requests wait: a slow request at the head does not
\* starve the rest.
WindowFull ==
  phase = "collecting" =>
    Cardinality(running) = Smaller(Window, len - Len(responses))

\* The client gets the response of every request of the batch at its place, whatever
\* the order of completion over a WebSocket; over HTTP, where nothing sorts, because
\* the transactions of the batch entered the submission queue in its order.
AnswerInPlace == phase = "answered" => answer = [i \in Requests |-> i]

\* The transactions of an HTTP batch enter the submission queue in the order of
\* the batch; those of a WebSocket batch in any order.
HttpInOrder == transport = "http" => \A k \in 1..Len(responses) : responses[k] = k

\* No request of a batch is executed twice (a transaction would be submitted
\* twice), also when the batch is dropped half-way.
ExecutedOnce ==
  /\ IsInjective(responses)
  /\ ToSet(responses) \cap running = {}
=============================================================================
