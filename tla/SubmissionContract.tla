------------------------- MODULE SubmissionContract -------------------------
(***************************************************************************)
(* What the submission path promises its clients, without queue, worker or *)
(* wallet: a request is refused or accepted; accepted requests are settled *)
(* one at a time in the order they were accepted; a request is on L1 at    *)
(* most once, never if it was refused or failed, and always if it          *)
(* succeeded.  Only an outage loses accepted requests.                     *)
(***************************************************************************)
EXTENDS Naturals, Sequences

CONSTANT Requests

VARIABLES
  status,   \* "open", "refused", "accepted", or how it was settled
  backlog,  \* accepted requests that are not settled, oldest first
  chain     \* the requests on L1, in order

vars == <<status, backlog, chain>>

OnChain(r) == \E i \in 1..Len(chain) : chain[i] = r

Init ==
  /\ status = [r \in Requests |-> "open"]
  /\ backlog = <<>>
  /\ chain = <<>>

Refuse(r) ==
  /\ status[r] = "open"
  /\ status' = [status EXCEPT ![r] = "refused"]
  /\ UNCHANGED <<backlog, chain>>

Accept(r) ==
  /\ status[r] = "open"
  /\ status' = [status EXCEPT ![r] = "accepted"]
  /\ backlog' = Append(backlog, r)
  /\ UNCHANGED chain

\* The oldest accepted request leaves the backlog.
SettleOldest(result) ==
  /\ backlog # <<>>
  /\ status' = [status EXCEPT ![Head(backlog)] = result]
  /\ backlog' = Tail(backlog)

Succeed ==
  /\ SettleOldest("success")
  /\ ~OnChain(Head(backlog))
  /\ chain' = Append(chain, Head(backlog))

Fail == SettleOldest("failed") /\ UNCHANGED chain

\* The answer of L1 is unknown: the request is there, or may still get there.
Doubt ==
  /\ SettleOldest("doubtful")
  /\ \/ UNCHANGED chain
     \/ ~OnChain(Head(backlog)) /\ chain' = Append(chain, Head(backlog))

\* A request whose fate was unknown reaches L1 after all.
Straggle(r) ==
  /\ status[r] \in {"doubtful", "lost"}
  /\ ~OnChain(r)
  /\ chain' = Append(chain, r)
  /\ UNCHANGED <<status, backlog>>

\* Everything accepted and not settled is lost; some open requests are dropped.
Outage ==
  /\ backlog' = <<>>
  /\ \E dropped \in SUBSET {r \in Requests : status[r] = "open"} :
       status' = [r \in Requests |-> IF status[r] = "accepted" THEN "lost"
                                     ELSE IF r \in dropped THEN "refused"
                                     ELSE status[r]]
  /\ UNCHANGED chain

Next ==
  \/ \E r \in Requests : Refuse(r) \/ Accept(r) \/ Straggle(r)
  \/ Succeed \/ Fail \/ Doubt \/ Outage

Spec == Init /\ [][Next]_vars
=============================================================================
