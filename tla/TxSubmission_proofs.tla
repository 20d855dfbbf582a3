------------------------ MODULE TxSubmission_proofs ------------------------
(***************************************************************************)
(* What TxSubmission guarantees for every set of requests, every queue     *)
(* capacity, number of attempts, base fee, daemon answer and number of     *)
(* restarts.  The invariants come in layers: types, custody of requests,   *)
(* reachability of L1, lane, fees, queue; the refinement rests on them.    *)
(***************************************************************************)
EXTENDS TxSubmission, SequenceTheorems, FiniteSetTheorems, TLAPS

-----------------------------------------------------------------------------
(* Types.  TypeOK alone is not inductive: the attempt counter stays in its *)
(* range because a back-off is only entered below the maximum, and what is *)
(* broadcast is an entry because the worker then holds a request.          *)

BackoffBelowMax == worker = "backoff" => attempt < MaxAttempts

IdleHoldsNothing == worker \in {"recv", "dead"} <=> cur = NoRequest

TypeInv == TypeOK /\ BackoffBelowMax /\ IdleHoldsNothing

\* Mining changes a transaction in place: the batch keeps its length and
\* everything but its last transaction.
LEMMA MinedKeeps ==
  ASSUME NEW b \in Seq(WalletTx)
  PROVE  /\ Mined(b) \in Seq(WalletTx)
         /\ Len(Mined(b)) = Len(b)
         /\ \A i \in 1..Len(b) - 1 : Mined(b)[i] = b[i]
         /\ b # <<>> => LastTx(Mined(b)) = MinedTx(LastTx(b))
<1>1. \A t \in WalletTx : MinedTx(t) \in WalletTx
  BY DEF WalletTx, NonceLen, MinedTx
<1>2. CASE b = <<>>
  <2>1. Mined(b) = <<>>
    BY <1>2 DEF Mined
  <2> QED
    BY <1>2, <2>1
<1>3. CASE b # <<>>
  <2>1. Len(b) \in 1..Len(b) /\ b[Len(b)] \in WalletTx
    BY <1>3, LenProperties
  <2>2. Mined(b) = [b EXCEPT ![Len(b)] = MinedTx(b[Len(b)])]
    BY DEF Mined
  <2>3. MinedTx(b[Len(b)]) \in WalletTx
    BY <1>1, <2>1
  <2> HIDE DEF MinedTx, Mined
  <2>4. /\ Mined(b) \in Seq(WalletTx)
        /\ Len(Mined(b)) = Len(b)
        /\ \A j \in 1..Len(b) :
             Mined(b)[j] = IF j = Len(b) THEN MinedTx(b[Len(b)]) ELSE b[j]
    BY <2>1, <2>2, <2>3, ExceptSeq
  <2> QED
    BY <2>1, <2>4 DEF LastTx
<1> QED
  BY <1>2, <1>3

\* The types hold initially.
LEMMA TypeInit == Init => TypeInv
BY LimitsAssumption, RequestsAssumption
DEF Init, TypeInv, TypeOK, BackoffBelowMax, IdleHoldsNothing, Refusals, Settled

\* Every step keeps the types.
LEMMA TypeStep == TypeInv /\ [Next]_vars => TypeInv'
<1> SUFFICES ASSUME TypeInv, [Next]_vars
             PROVE  TypeInv'
  OBVIOUS
<1> USE LimitsAssumption, RequestsAssumption
    DEF TypeInv, TypeOK, BackoffBelowMax, IdleHoldsNothing, Refusals, Settled
<1>1. ASSUME NEW r \in Requests, Submit(r) \/ Abort(r) \/ FeeFetchFails(r)
      PROVE  TypeInv'
  BY <1>1 DEF Submit, Abort, FeeFetchFails, Answer, workerVars
<1>2. ASSUME NEW r \in Requests, NEW network \in NetworkFees, Decide(r, network)
      PROVE  TypeInv'
  <2>1. ASSUME NEW reply \in {"fee_floor", "closed", "queue_full", "accepted"}, Answer(r, reply),
               UNCHANGED queue \/ queue' = Append(queue, r)
        PROVE  TypeInv'
    <3>1. queue' \in Seq(Requests)
      <4>1. Append(queue, r) \in Seq(Requests)
        OBVIOUS
      <4> QED
        BY <2>1, <4>1
    <3> QED
      BY <1>2, <2>1, <3>1 DEF Decide, Answer, workerVars
  <2> QED
    BY <1>2, <2>1 DEF Decide, TrySend
<1>3. CASE Recv
  BY <1>3 DEF Recv
<1>4. ASSUME NEW b \in Batches, Created(b)
      PROVE  TypeInv'
  <2>1. CASE Goto("mine") /\ batch' = b /\ UNCHANGED attempt
    BY <1>4, <2>1, BatchesAssumption DEF Created, Goto, acceptVars
  <2>2. CASE Settle("failed")
    BY <1>4, <2>2 DEF Created, Settle, acceptVars
  <2> QED
    BY <1>4, <2>1, <2>2 DEF Created
<1>5. ASSUME NEW b \in Batches, Panic(b)
      PROVE  TypeInv'
  BY <1>5 DEF Panic
<1>6. CASE NoFunds
  <2>1. CASE attempt < MaxAttempts /\ Goto("backoff") /\ UNCHANGED <<attempt, batch>>
    BY <1>6, <2>1 DEF NoFunds, Goto, acceptVars
  <2>2. CASE Settle("failed")
    BY <1>6, <2>2 DEF NoFunds, Settle, acceptVars
  <2> QED
    BY <1>6, <2>1, <2>2 DEF NoFunds
<1>7. CASE BackoffEnds
  BY <1>7 DEF BackoffEnds, Goto, acceptVars
<1>8. CASE StepFails
  BY <1>8 DEF StepFails, Settle, acceptVars
<1>9. CASE MineEnds
  <2>1. CASE Goto("sign") /\ batch' = Mined(batch) /\ UNCHANGED attempt
    <3>1. batch' \in Seq(WalletTx)
      BY <2>1, MinedKeeps
    <3> QED
      BY <1>9, <2>1, <3>1 DEF MineEnds, Goto, acceptVars
  <2>2. CASE Settle("failed")
    BY <1>9, <2>2 DEF MineEnds, Settle, acceptVars
  <2> QED
    BY <1>9, <2>1, <2>2 DEF MineEnds
<1>10. CASE Signed
  BY <1>10 DEF Signed, Goto, acceptVars
<1>11. worker = "broadcast" => InHand \in Entry
  BY DEF InHand, Entry
<1>12. ASSUME NEW result \in {"success", "doubtful"}, Broadcast(result)
      PROVE  TypeInv'
  BY <1>12, <1>11 DEF Broadcast, Settle, acceptVars
<1>13. CASE BroadcastFails
  BY <1>13, <1>11 DEF BroadcastFails, Settle, acceptVars
<1>14. ASSUME NEW e \in late, LateLands(e) \/ LateDropped(e)
      PROVE  TypeInv'
  <2>1. l1' \in Seq(Entry) /\ late' \in SUBSET Entry
    <3>1. Append(l1, e) \in Seq(Entry)
      OBVIOUS
    <3> QED
      BY <1>14, <3>1 DEF LateLands, LateDropped
  <2> QED
    BY <1>14, <2>1 DEF LateLands, LateDropped, acceptVars
<1>15. CASE Crash
  BY <1>15, <1>11 DEF Crash
<1>16. CASE UNCHANGED vars
  BY <1>16 DEF vars
<1> QED
  BY <1>1, <1>2, <1>3, <1>4, <1>5, <1>6, <1>7, <1>8, <1>9, <1>10, <1>12, <1>13,
     <1>14, <1>15, <1>16 DEF Next, Reply, WorkerStep

\* The state of the handlers, the channel, the worker and L1 always has its type.
THEOREM TypeCorrect == Spec => []TypeOK
<1>1. Spec => []TypeInv
  BY TypeInit, TypeStep, PTL DEF Spec
<1> QED
  BY <1>1, PTL DEF TypeInv

-----------------------------------------------------------------------------
(* Custody.  Accounted needs two facts besides the types: only an accepted *)
(* request has an outcome, so that a request being accepted now is in      *)
(* nobody's hands yet, and the queue of a dead worker is empty.            *)

OutcomeOfAccepted == \A r \in Requests : outcome[r] # "none" => client[r] = "accepted"

DeadQueueEmpty == worker = "dead" => queue = <<>>

Custody == Accounted /\ OutcomeOfAccepted /\ DeadQueueEmpty

\* The request that enters the queue is behind all others.
LEMMA AppendQueue ==
  ASSUME NEW q \in Seq(Requests), NEW r \in Requests
  PROVE  /\ Len(Append(q, r)) = Len(q) + 1
         /\ \A i \in 1..Len(q) : Append(q, r)[i] = q[i]
         /\ Append(q, r)[Len(q) + 1] = r
OBVIOUS

\* The request that leaves the queue was before all others.
LEMMA TailQueue ==
  ASSUME NEW q \in Seq(Requests), q # <<>>
  PROVE  /\ Head(q) \in Requests
         /\ Head(q) = q[1]
         /\ Len(q) \in Nat \ {0}
         /\ Tail(q) \in Seq(Requests)
         /\ Len(Tail(q)) = Len(q) - 1
         /\ \A i \in 1..Len(q) - 1 : Tail(q)[i] = q[i + 1]
OBVIOUS

\* Settling the request in hand keeps custody.
LEMMA SettleCustody ==
  ASSUME TypeInv, Custody, cur # NoRequest,
         NEW result \in Settled, Settle(result), UNCHANGED <<client, queue>>
  PROVE  Custody'
<1> USE DEF TypeInv, TypeOK, Custody, Settle, Settled
<1>1. cur \in Requests /\ outcome' = [outcome EXCEPT ![cur] = result] /\ result # "none"
  OBVIOUS
<1>2. \A r \in Requests : InQueue(r)' <=> InQueue(r)
  BY DEF InQueue
<1>3. Unsettled' = Unsettled \ {cur}
  BY <1>1 DEF Unsettled
<1>4. Accounted'
  <2>1. ~InQueue(cur)'
    BY RequestsAssumption DEF InQueue
  <2> QED
    BY <1>1, <1>2, <1>3, <2>1, RequestsAssumption DEF Accounted
<1>5. OutcomeOfAccepted'
  <2>1. client[cur] = "accepted"
    BY <1>1 DEF Accounted, Unsettled
  <2> QED
    BY <1>1, <2>1 DEF OutcomeOfAccepted
<1> QED
  BY <1>4, <1>5 DEF DeadQueueEmpty

\* A step that moves neither a request nor an outcome, and accepts nothing.
LEMMA QuietCustody ==
  ASSUME TypeInv, Custody, UNCHANGED <<queue, cur, outcome>>,
         worker' = "dead" => worker = "dead",
         \A r \in Requests : client'[r] = "accepted" <=> client[r] = "accepted"
  PROVE  Custody'
<1>1. Unsettled' = Unsettled /\ \A r : InQueue(r)' <=> InQueue(r)
  BY DEF Unsettled, InQueue
<1>2. Accounted'
  BY <1>1 DEF Custody, Accounted
<1> QED
  BY <1>2 DEF Custody, OutcomeOfAccepted, DeadQueueEmpty

\* The process or the worker task dies: nothing is in anyone's hands.
LEMMA OutageCustody ==
  ASSUME TypeInv, Custody, queue' = <<>>, cur' = NoRequest,
         \A r \in Requests : client'[r] = "accepted" <=> client[r] = "accepted",
         outcome' = [r \in Requests |->
                       IF client[r] = "accepted" /\ outcome[r] = "none"
                       THEN "lost" ELSE outcome[r]]
  PROVE  Custody'
<1>1. \A r \in Requests : ~InQueue(r)'
  BY DEF InQueue
<1>2. ~InQueue(cur)'
  BY DEF InQueue
<1>3. Unsettled' = {}
  BY DEF Unsettled
<1>4. Accounted'
  BY <1>1, <1>2, <1>3, RequestsAssumption DEF Accounted
<1> QED
  BY <1>4 DEF Custody, OutcomeOfAccepted, DeadQueueEmpty

\* Nothing is in anyone's hands initially.
LEMMA CustodyInit == Init => Custody
BY RequestsAssumption
DEF Init, Custody, Accounted, OutcomeOfAccepted, DeadQueueEmpty, Unsettled, InQueue

\* The handler hands the request to the queue, or answers otherwise.
LEMMA DecideCustody ==
  ASSUME TypeInv, Custody, NEW r \in Requests, NEW network \in NetworkFees, Decide(r, network)
  PROVE  Custody'
<1> USE DEF TypeInv, TypeOK
<1>1. CASE client' = [client EXCEPT ![r] = "accepted"] /\ queue' = Append(queue, r)
           /\ worker # "dead"
  <2>1. client[r] = "fetching" /\ outcome[r] = "none" /\ UNCHANGED workerVars
    BY DEF Decide, Custody, OutcomeOfAccepted
  <2>2. ~InQueue(r) /\ r # cur
    BY <2>1 DEF Custody, Accounted, Unsettled
  <2>3. /\ Len(queue') = Len(queue) + 1
        /\ \A i \in 1..Len(queue) : queue'[i] = queue[i]
        /\ queue'[Len(queue) + 1] = r
    BY <1>1, AppendQueue
  <2>4. 1..Len(queue') = (1..Len(queue)) \cup {Len(queue) + 1} /\ Len(queue) + 1 \notin 1..Len(queue)
    <3>1. Len(queue) \in Nat
      OBVIOUS
    <3> QED
      BY <2>3, <3>1
  <2>5. \A x : InQueue(x)' <=> InQueue(x) \/ x = r
    <3> SUFFICES ASSUME NEW x PROVE InQueue(x)' <=> InQueue(x) \/ x = r
      OBVIOUS
    <3> QED
      BY <2>3, <2>4, Zenon DEF InQueue
  <2>6. Unsettled' = Unsettled \cup {r}
    BY <1>1, <2>1 DEF Unsettled, workerVars
  <2>7. \A i, j \in 1..Len(queue') : queue'[i] = queue'[j] => i = j
    <3> SUFFICES ASSUME NEW i \in 1..Len(queue'), NEW j \in 1..Len(queue'), queue'[i] = queue'[j]
                 PROVE  i = j
      OBVIOUS
    <3>1. CASE i \in 1..Len(queue) /\ j \in 1..Len(queue)
      BY <2>3, <3>1 DEF Custody, Accounted
    <3>2. CASE i = Len(queue) + 1 \/ j = Len(queue) + 1
      BY <2>2, <2>3, <2>4, <3>2, Zenon DEF InQueue
    <3> QED
      BY <2>4, <3>1, <3>2
  <2>8. Accounted'
    BY <2>1, <2>2, <2>5, <2>6, <2>7 DEF Custody, Accounted, workerVars
  <2>9. OutcomeOfAccepted'
    BY <1>1, <2>1 DEF Custody, OutcomeOfAccepted, workerVars
  <2> QED
    BY <1>1, <2>1, <2>8, <2>9 DEF Custody, DeadQueueEmpty, workerVars
<1>2. ASSUME NEW reply \in Refusals, Answer(r, reply), UNCHANGED queue
      PROVE  Custody'
  <2>1. UNCHANGED <<queue, cur, outcome, worker>>
    BY <1>2 DEF Decide, workerVars
  <2>2. \A x \in Requests : client'[x] = "accepted" <=> client[x] = "accepted"
    BY <1>2 DEF Decide, Answer, Refusals
  <2> QED
    BY <2>1, <2>2, QuietCustody
<1> QED
  BY <1>1, <1>2 DEF Decide, TrySend, Answer, Refusals

\* The worker takes the oldest request.
LEMMA RecvCustody == ASSUME TypeInv, Custody, Recv PROVE Custody'
<1> USE DEF TypeInv, TypeOK, Recv
<1>1. /\ Head(queue) \in Requests
      /\ Head(queue) = queue[1]
      /\ Len(queue) \in Nat \ {0}
      /\ Len(Tail(queue)) = Len(queue) - 1
      /\ \A i \in 1..Len(queue) - 1 : Tail(queue)[i] = queue[i + 1]
  BY TailQueue
<1>2. cur = NoRequest
  BY DEF IdleHoldsNothing
<1>3. \A i, j \in 1..Len(queue) : queue[i] = queue[j] => i = j
  BY DEF Custody, Accounted
<1>4. \A x : InQueue(x) <=> InQueue(x)' \/ x = cur'
  <2> SUFFICES ASSUME NEW x PROVE InQueue(x) <=> InQueue(x)' \/ x = cur'
    OBVIOUS
  <2>1. ASSUME NEW i \in 1..Len(queue), queue[i] = x
        PROVE  InQueue(x)' \/ x = cur'
    <3>1. CASE i = 1
      BY <1>1, <2>1, <3>1
    <3>2. CASE i # 1
      <4>1. i - 1 \in 1..Len(queue) - 1 /\ Tail(queue)[i - 1] = x
        BY <1>1, <2>1, <3>2
      <4> QED
        BY <1>1, <4>1 DEF InQueue
    <3> QED
      BY <3>1, <3>2
  <2>2. ASSUME NEW i \in 1..Len(queue) - 1, Tail(queue)[i] = x
        PROVE  InQueue(x)
    <3>1. i + 1 \in 1..Len(queue) /\ queue[i + 1] = x
      BY <1>1, <2>2
    <3> QED
      BY <3>1 DEF InQueue
  <2>3. 1 \in 1..Len(queue)
    BY <1>1
  <2> QED
    BY <1>1, <2>1, <2>2, <2>3 DEF InQueue
<1>5. ~InQueue(cur)'
  <2>1. ASSUME NEW i \in 1..Len(queue) - 1, Tail(queue)[i] = Head(queue) PROVE FALSE
    <3>1. i + 1 \in 1..Len(queue) /\ 1 \in 1..Len(queue) /\ i + 1 # 1 /\ queue[i + 1] = queue[1]
      BY <1>1, <2>1
    <3> QED
      BY <1>3, <3>1
  <2> QED
    BY <1>1, <2>1 DEF InQueue
<1>6. \A i, j \in 1..Len(queue') : queue'[i] = queue'[j] => i = j
  <2> SUFFICES ASSUME NEW i \in 1..Len(queue) - 1, NEW j \in 1..Len(queue) - 1,
                      Tail(queue)[i] = Tail(queue)[j]
               PROVE  i = j
    BY <1>1
  <2>1. i + 1 \in 1..Len(queue) /\ j + 1 \in 1..Len(queue) /\ queue[i + 1] = queue[j + 1]
    BY <1>1
  <2>2. i + 1 = j + 1
    BY <1>3, <2>1
  <2> QED
    BY <2>2
<1>7. Unsettled' = Unsettled
  BY DEF Unsettled
<1>8. Accounted'
  BY <1>2, <1>4, <1>5, <1>6, <1>7, RequestsAssumption DEF Custody, Accounted
<1> QED
  BY <1>8 DEF Custody, OutcomeOfAccepted, DeadQueueEmpty

\* The worker is busy exactly when it holds a request, and that one is unsettled.
LEMMA BusyHolds ==
  ASSUME TypeInv, Custody, worker \notin {"recv", "dead"}
  PROVE  cur \in Requests /\ client[cur] = "accepted" /\ outcome[cur] = "none"
BY DEF TypeInv, TypeOK, IdleHoldsNothing, Custody, Accounted, Unsettled

\* Every step keeps custody.
LEMMA CustodyStep == TypeInv /\ Custody /\ [Next]_vars => Custody'
<1> SUFFICES ASSUME TypeInv, Custody, [Next]_vars
             PROVE  Custody'
  OBVIOUS
<1>1. ASSUME NEW r \in Requests, Submit(r) \/ Abort(r) \/ FeeFetchFails(r)
      PROVE  Custody'
  <2>1. \A x \in Requests : client'[x] = "accepted" <=> client[x] = "accepted"
    BY <1>1 DEF Submit, Abort, FeeFetchFails, Answer, TypeInv, TypeOK
  <2>2. UNCHANGED <<queue, cur, outcome, worker>>
    BY <1>1 DEF Submit, Abort, FeeFetchFails, workerVars
  <2> QED
    BY <2>1, <2>2, QuietCustody
<1>2. ASSUME NEW r \in Requests, NEW network \in NetworkFees, Decide(r, network)
      PROVE  Custody'
  BY <1>2, DecideCustody
<1>3. CASE Recv
  BY <1>3, RecvCustody
<1>4. ASSUME NEW result \in Settled, Settle(result), UNCHANGED acceptVars,
             worker \notin {"recv", "dead"}
      PROVE  Custody'
  <2>1. cur # NoRequest
    BY <1>4, BusyHolds, RequestsAssumption
  <2> QED
    BY <1>4, <2>1, SettleCustody DEF acceptVars
<1>5. ASSUME NEW await \in {"create", "backoff", "mine", "sign", "broadcast"},
             Goto(await), UNCHANGED acceptVars
      PROVE  Custody'
  BY <1>5, QuietCustody DEF Goto, acceptVars
<1>6. ASSUME NEW b \in Batches, Created(b)
      PROVE  Custody'
  BY <1>4, <1>5, <1>6 DEF Created, Settled
<1>7. ASSUME NEW b \in Batches, Panic(b)
      PROVE  Custody'
  BY <1>7, OutageCustody DEF Panic
<1>8. CASE NoFunds
  BY <1>4, <1>5, <1>8 DEF NoFunds, Settled
<1>9. CASE BackoffEnds
  BY <1>5, <1>9 DEF BackoffEnds, acceptVars
<1>10. CASE StepFails
  BY <1>4, <1>10 DEF StepFails, Settled
<1>11. CASE MineEnds
  BY <1>4, <1>5, <1>11 DEF MineEnds, Settled
<1>12. CASE Signed
  BY <1>5, <1>12 DEF Signed, acceptVars
<1>13. ASSUME NEW result \in {"success", "doubtful"}, Broadcast(result)
      PROVE  Custody'
  BY <1>4, <1>13 DEF Broadcast, Settled
<1>14. CASE BroadcastFails
  BY <1>4, <1>14 DEF BroadcastFails, Settled
<1>15. ASSUME NEW e \in late, LateLands(e) \/ LateDropped(e)
      PROVE  Custody'
  BY <1>15, QuietCustody DEF LateLands, LateDropped, acceptVars
<1>16. CASE Crash
  <2>1. \A x \in Requests : client'[x] = "accepted" <=> client[x] = "accepted"
    BY <1>16 DEF Crash, TypeInv, TypeOK
  <2> QED
    BY <1>16, <2>1, OutageCustody DEF Crash
<1>17. CASE UNCHANGED vars
  BY <1>17, QuietCustody DEF vars
<1> QED
  BY <1>1, <1>2, <1>3, <1>6, <1>7, <1>8, <1>9, <1>10, <1>11, <1>12, <1>13, <1>14,
     <1>15, <1>16, <1>17 DEF Next, Reply, WorkerStep

\* Whatever the handlers, the worker, the daemon and the process do, each accepted
\* request is settled, queued or in the worker's hands, in exactly one of them.
THEOREM RequestsAccounted == Spec => []Accounted
<1>1. Spec => [](TypeInv /\ Custody)
  BY TypeInit, TypeStep, CustodyInit, CustodyStep, PTL DEF Spec
<1> QED
  BY <1>1, PTL DEF Custody

\* An accepted request is lost without an alert only across a restart of the
\* process or once the worker task is dead.
THEOREM LossOnlyByOutage == Spec => []LossNeedsOutage
<1>1. Init => LossNeedsOutage
  BY DEF Init, LossNeedsOutage
<1>2. TypeInv /\ LossNeedsOutage /\ [Next]_vars => LossNeedsOutage'
  <2> SUFFICES ASSUME TypeInv, LossNeedsOutage, [Next]_vars
               PROVE  LossNeedsOutage'
    OBVIOUS
  <2> USE DEF TypeInv, TypeOK, LossNeedsOutage
  <2>1. CASE UNCHANGED <<outcome, crashes, worker>>
    BY <2>1
  <2>2. ASSUME NEW result \in {"success", "failed", "doubtful"}, worker # "dead",
               Settle(result), UNCHANGED crashes
        PROVE  LossNeedsOutage'
    BY <2>2 DEF Settle
  <2>3. CASE worker # "dead" /\ UNCHANGED <<outcome, crashes>>
    BY <2>3
  <2>4. CASE Crash
    BY <2>4, LimitsAssumption DEF Crash
  <2>5. CASE worker' = "dead"
    BY <2>5
  <2> QED
    BY <2>1, <2>2, <2>3, <2>4, <2>5
    DEF Next, Reply, WorkerStep, vars, Submit, Abort, FeeFetchFails, Decide, Recv, Created, Panic,
        NoFunds, BackoffEnds, StepFails, MineEnds, Signed, Broadcast, BroadcastFails, LateLands,
        LateDropped, Goto, workerVars, acceptVars
<1> QED
  BY <1>1, <1>2, TypeInit, TypeStep, PTL DEF Spec

\* While the worker task is dead, no handler tells its client that the transaction
\* was queued.
THEOREM DeadWorkerRefuses == Spec => DeadWorkerAcceptsNothing
<1>1. TypeInv /\ [Next]_vars =>
        (worker = "dead" /\ worker' = "dead"
           => \A r \in Requests : client'[r] = "accepted" => client[r] = "accepted")
  <2> SUFFICES ASSUME TypeInv, [Next]_vars, worker = "dead", worker' = "dead"
               PROVE  \A r \in Requests : client'[r] = "accepted" => client[r] = "accepted"
    OBVIOUS
  <2> USE DEF TypeInv, TypeOK
  <2>1. ASSUME NEW r \in Requests, Submit(r) \/ Abort(r) \/ FeeFetchFails(r)
        PROVE  \A x \in Requests : client'[x] = "accepted" => client[x] = "accepted"
    BY <2>1 DEF Submit, Abort, FeeFetchFails, Answer
  <2>2. ASSUME NEW r \in Requests, NEW network \in NetworkFees, Decide(r, network)
        PROVE  \A x \in Requests : client'[x] = "accepted" => client[x] = "accepted"
    BY <2>2 DEF Decide, TrySend, Answer
  <2> QED
    BY <2>1, <2>2
    DEF Next, Reply, WorkerStep, vars, Recv, Created, Panic, NoFunds, BackoffEnds, StepFails,
        MineEnds, Signed, Broadcast, BroadcastFails, LateLands, LateDropped, Crash, acceptVars
<1> QED
  BY <1>1, TypeInit, TypeStep, PTL DEF Spec, DeadWorkerAcceptsNothing

-----------------------------------------------------------------------------
(* Reachability of L1.  An entry is added only for the request in hand,    *)
(* which has no outcome, and every other entry's request has one: so the   *)
(* new entry is the only one of its request.                               *)

Chain == FailureIsFinal /\ AtMostOnce

\* An answer is never taken back and a settled request is never settled again.
LEMMA AnswersAreFinal ==
  ASSUME TypeInv, Custody, [Next]_vars, NEW r \in Requests
  PROVE  /\ client[r] = "accepted" => client'[r] = "accepted"
         /\ outcome[r] # "none" => outcome'[r] = outcome[r]
<1> USE DEF TypeInv, TypeOK
<1>1. CASE UNCHANGED <<client, outcome>>
  BY <1>1
<1>2. ASSUME NEW x \in Requests, Submit(x) \/ Abort(x) \/ FeeFetchFails(x)
             \/ \E network \in NetworkFees : Decide(x, network)
      PROVE  /\ client[r] = "accepted" => client'[r] = "accepted"
             /\ UNCHANGED outcome
  BY <1>2 DEF Submit, Abort, FeeFetchFails, Decide, TrySend, Answer, workerVars
<1>3. ASSUME NEW result \in Settled, Settle(result), UNCHANGED client,
             worker \notin {"recv", "dead"}
      PROVE  outcome[r] # "none" => outcome'[r] = outcome[r]
  BY <1>3, BusyHolds DEF Settle
<1>4. ASSUME NEW b \in Batches, Panic(b) \/ Crash
      PROVE  /\ client[r] = "accepted" => client'[r] = "accepted"
             /\ outcome[r] # "none" => outcome'[r] = outcome[r]
  BY <1>4 DEF Panic, Crash
<1>5. CASE Crash
  BY <1>5 DEF Crash
<1> QED
  BY <1>1, <1>2, <1>3, <1>4, <1>5
  DEF Next, Reply, WorkerStep, vars, Recv, Created, NoFunds, BackoffEnds, StepFails, MineEnds,
      Signed, Broadcast, BroadcastFails, LateLands, LateDropped, Goto, acceptVars, Settled

\* What is on L1 or still with the daemon is an entry.
LEMMA EntriesTyped ==
  ASSUME TypeInv, NEW e \in {l1[i] : i \in 1..Len(l1)} \cup late
  PROVE  e \in Entry /\ e.req \in Requests /\ e.batch \in Seq(WalletTx)
<1>1. CASE e \in late
  BY <1>1 DEF TypeInv, TypeOK, Entry
<1>2. ASSUME NEW i \in 1..Len(l1), e = l1[i]
      PROVE  e \in Entry
  BY <1>2 DEF TypeInv, TypeOK
<1> QED
  BY <1>1, <1>2 DEF Entry

\* Steps that give L1 and the daemon nothing new.
LEMMA NothingNewChain ==
  ASSUME TypeInv, Custody, Chain, [Next]_vars, UNCHANGED l1, late' \subseteq late
  PROVE  Chain'
<1>1. \A r \in Requests : /\ client[r] = "accepted" => client'[r] = "accepted"
                          /\ outcome[r] # "none" => outcome'[r] = outcome[r]
  BY AnswersAreFinal
<1>2. \A e \in {l1[i] : i \in 1..Len(l1)} \cup late : e.req \in Requests
  BY EntriesTyped
<1>3. FailureIsFinal'
  <2> SUFFICES ASSUME NEW e \in {l1[i] : i \in 1..Len(l1)} \cup late
               PROVE  client'[e.req] = "accepted" /\ outcome'[e.req] \notin {"none", "failed"}
    BY DEF FailureIsFinal
  <2>1. client[e.req] = "accepted" /\ outcome[e.req] \notin {"none", "failed"}
    BY DEF Chain, FailureIsFinal
  <2> QED
    BY <1>1, <1>2, <2>1
<1>4. AtMostOnce'
  BY DEF Chain, AtMostOnce
<1> QED
  BY <1>3, <1>4 DEF Chain

\* The request in hand is in no entry of L1 or of the daemon.
LEMMA InHandIsNew ==
  ASSUME TypeInv, Custody, Chain, worker = "broadcast"
  PROVE  \A e \in {l1[i] : i \in 1..Len(l1)} \cup late : e.req # InHand.req
BY BusyHolds DEF Chain, FailureIsFinal, InHand

\* What is appended to L1 is at its end, before it is what was there.
LEMMA AppendL1 ==
  ASSUME NEW s \in Seq(Entry), NEW e \in Entry
  PROVE  LET t == Append(s, e) IN
         /\ 1..Len(t) = (1..Len(s)) \cup {Len(s) + 1}
         /\ Len(s) + 1 \notin 1..Len(s)
         /\ \A i \in 1..Len(s) : t[i] = s[i]
         /\ t[Len(s) + 1] = e
         /\ {t[i] : i \in 1..Len(t)} = {s[i] : i \in 1..Len(s)} \cup {e}
<1> DEFINE t == Append(s, e)
<1>1. Len(t) = Len(s) + 1 /\ Len(s) \in Nat
  OBVIOUS
<1>2. 1..Len(t) = (1..Len(s)) \cup {Len(s) + 1} /\ Len(s) + 1 \notin 1..Len(s)
  BY <1>1
<1>3. (\A i \in 1..Len(s) : t[i] = s[i]) /\ t[Len(s) + 1] = e
  OBVIOUS
<1> HIDE DEF t
<1>4. {t[i] : i \in 1..Len(t)} = {s[i] : i \in 1..Len(s)} \cup {e}
  BY <1>2, <1>3
<1> QED
  BY <1>2, <1>3, <1>4 DEF t

\* An entry whose request is in no other entry is appended to L1.
LEMMA LandsChain ==
  ASSUME TypeInv, Custody, Chain, [Next]_vars, NEW e \in Entry,
         l1' = Append(l1, e), late' = late \ {e},
         \A i \in 1..Len(l1) : l1[i].req # e.req,
         \A f \in late \ {e} : f.req # e.req,
         client'[e.req] = "accepted", outcome'[e.req] \notin {"none", "failed"}
  PROVE  Chain'
<1>1. \A r \in Requests : /\ client[r] = "accepted" => client'[r] = "accepted"
                          /\ outcome[r] # "none" => outcome'[r] = outcome[r]
  BY AnswersAreFinal
<1>2. /\ 1..Len(l1') = (1..Len(l1)) \cup {Len(l1) + 1}
      /\ Len(l1) + 1 \notin 1..Len(l1)
      /\ \A i \in 1..Len(l1) : l1'[i] = l1[i]
      /\ l1'[Len(l1) + 1] = e
      /\ {l1'[i] : i \in 1..Len(l1')} = {l1[i] : i \in 1..Len(l1)} \cup {e}
  BY AppendL1 DEF TypeInv, TypeOK
<1>3. FailureIsFinal'
  <2> SUFFICES ASSUME NEW f \in {l1'[i] : i \in 1..Len(l1')} \cup late'
               PROVE  client'[f.req] = "accepted" /\ outcome'[f.req] \notin {"none", "failed"}
    BY DEF FailureIsFinal
  <2>1. CASE f = e
    BY <2>1
  <2>2. CASE f \in {l1[i] : i \in 1..Len(l1)} \cup late
    <3>1. client[f.req] = "accepted" /\ outcome[f.req] \notin {"none", "failed"}
      BY <2>2 DEF Chain, FailureIsFinal
    <3> QED
      BY <1>1, <2>2, <3>1, EntriesTyped
  <2> QED
    BY <1>2, <2>1, <2>2
<1>4. \A i, j \in 1..Len(l1') : l1'[i].req = l1'[j].req => i = j
  BY <1>2 DEF Chain, AtMostOnce
<1>5. \A f \in late' : \A i \in 1..Len(l1') : l1'[i].req # f.req
  BY <1>2 DEF Chain, AtMostOnce
<1>6. \A f, g \in late' : f.req = g.req => f = g
  BY DEF Chain, AtMostOnce
<1> QED
  BY <1>3, <1>4, <1>5, <1>6 DEF Chain, AtMostOnce

\* The worker gives up on a broadcast of a request that is in no entry.
LEMMA LateChain ==
  ASSUME TypeInv, Custody, Chain, [Next]_vars, worker = "broadcast",
         UNCHANGED l1, late' = late \cup {InHand},
         client'[cur] = "accepted", outcome'[cur] \notin {"none", "failed"}
  PROVE  Chain'
<1>1. \A r \in Requests : /\ client[r] = "accepted" => client'[r] = "accepted"
                          /\ outcome[r] # "none" => outcome'[r] = outcome[r]
  BY AnswersAreFinal
<1>2. \A e \in {l1[i] : i \in 1..Len(l1)} \cup late : e.req # InHand.req
  BY InHandIsNew
<1>3. FailureIsFinal'
  <2> SUFFICES ASSUME NEW f \in {l1[i] : i \in 1..Len(l1)} \cup late'
               PROVE  client'[f.req] = "accepted" /\ outcome'[f.req] \notin {"none", "failed"}
    BY DEF FailureIsFinal
  <2>1. CASE f = InHand
    BY <2>1 DEF InHand
  <2>2. CASE f \in {l1[i] : i \in 1..Len(l1)} \cup late
    <3>1. client[f.req] = "accepted" /\ outcome[f.req] \notin {"none", "failed"}
      BY <2>2 DEF Chain, FailureIsFinal
    <3> QED
      BY <1>1, <2>2, <3>1, EntriesTyped
  <2> QED
    BY <2>1, <2>2
<1>4. \A i, j \in 1..Len(l1') : l1'[i].req = l1'[j].req => i = j
  BY DEF Chain, AtMostOnce
<1>5. \A f \in late' : \A i \in 1..Len(l1') : l1'[i].req # f.req
  BY <1>2 DEF Chain, AtMostOnce
<1>6. \A f, g \in late' : f.req = g.req => f = g
  BY <1>2 DEF Chain, AtMostOnce
<1> QED
  BY <1>3, <1>4, <1>5, <1>6 DEF Chain, AtMostOnce

\* Every step keeps what may be said of L1.
LEMMA ChainStep == TypeInv /\ Custody /\ Chain /\ [Next]_vars => Chain'
<1> SUFFICES ASSUME TypeInv, Custody, Chain, [Next]_vars
             PROVE  Chain'
  OBVIOUS
<1>1. CASE UNCHANGED <<l1, late>>
  BY <1>1, NothingNewChain
<1>2. ASSUME NEW result \in {"success", "doubtful"}, Broadcast(result)
      PROVE  Chain'
  <2>1. InHand \in Entry /\ InHand.req = cur /\ client'[cur] = "accepted"
        /\ outcome'[cur] = result
    BY <1>2, BusyHolds DEF Broadcast, Settle, InHand, Entry, acceptVars, TypeInv, TypeOK
  <2>2. \A e \in {l1[i] : i \in 1..Len(l1)} \cup late : e.req # InHand.req
    BY <1>2, InHandIsNew DEF Broadcast
  <2>3. late' = late \ {InHand} /\ l1' = Append(l1, InHand)
    BY <1>2, <2>2 DEF Broadcast
  <2> QED
    BY <2>1, <2>2, <2>3, LandsChain
<1>3. CASE BroadcastFails
  <2>1. client'[cur] = "accepted" /\ outcome'[cur] = "doubtful"
    BY <1>3, BusyHolds DEF BroadcastFails, Settle, acceptVars, TypeInv, TypeOK
  <2> QED
    BY <1>3, <2>1, LateChain DEF BroadcastFails
<1>4. ASSUME NEW e \in late, LateLands(e)
      PROVE  Chain'
  <2>1. e \in Entry /\ e.req \in Requests
    BY EntriesTyped
  <2>2. client'[e.req] = "accepted" /\ outcome'[e.req] \notin {"none", "failed"}
    BY <1>4 DEF LateLands, acceptVars, Chain, FailureIsFinal
  <2>3. /\ \A i \in 1..Len(l1) : l1[i].req # e.req
        /\ \A f \in late \ {e} : f.req # e.req
    BY DEF Chain, AtMostOnce
  <2> QED
    BY <1>4, <2>1, <2>2, <2>3, LandsChain DEF LateLands
<1>5. ASSUME NEW e \in late, LateDropped(e)
      PROVE  Chain'
  BY <1>5, NothingNewChain DEF LateDropped
<1>6. CASE Crash
  <2>1. CASE worker = "broadcast"
    <3>1. client'[cur] = "accepted" /\ outcome'[cur] = "lost"
      BY <1>6, <2>1, BusyHolds DEF Crash, TypeInv, TypeOK
    <3> QED
      BY <1>6, <2>1, <3>1, LateChain DEF Crash
  <2>2. CASE worker # "broadcast"
    BY <1>6, <2>2, NothingNewChain DEF Crash
  <2> QED
    BY <2>1, <2>2
<1> QED
  BY <1>1, <1>2, <1>3, <1>4, <1>5, <1>6
  DEF Next, Reply, WorkerStep, vars, Submit, Abort, FeeFetchFails, Decide, Recv, Created, Panic,
      NoFunds, BackoffEnds, StepFails, MineEnds, Signed, workerVars

\* Nothing is on L1 initially.
LEMMA ChainInit == Init => Chain
BY DEF Init, Chain, FailureIsFinal, AtMostOnce

\* Types, custody and L1 together are inductive.
LEMMA CoreInvariant == Spec => [](TypeInv /\ Custody /\ Chain)
BY TypeInit, TypeStep, CustodyInit, CustodyStep, ChainInit, ChainStep, PTL DEF Spec

\* An alert raised before the broadcast call, or an error reply, means that the
\* transaction is not on L1 and never will be.
THEOREM FailuresStayOffL1 == Spec => []FailureIsFinal
BY CoreInvariant, PTL DEF Chain

\* No request reaches L1 twice, whatever retries, late answers and restarts occur.
THEOREM BroadcastAtMostOnce == Spec => []AtMostOnce
BY CoreInvariant, PTL DEF Chain

-----------------------------------------------------------------------------
(* Lane.  What the gates established of a batch holds while the worker     *)
(* mines, signs and broadcasts it.                                         *)

Gated(b) == StagingIsBare(b) /\ (Enforced => \A i \in 1..Len(b) :
                                               b[i].payload > 0 => OnLane(b[i]))

BatchReady ==
  /\ worker = "mine" => Minable(batch)
  /\ worker \in {"sign", "broadcast"} => Gated(batch)

LaneInv == BatchReady /\ LaneSafety

\* Mining a batch that passed the first gate gives one that is safe to broadcast.
LEMMA MiningPassesGate ==
  ASSUME NEW b \in Seq(WalletTx), Minable(b), Enforced => OnLane(LastTx(Mined(b)))
  PROVE  Gated(Mined(b))
<1>1. /\ Mined(b) \in Seq(WalletTx)
      /\ Len(Mined(b)) = Len(b)
      /\ \A i \in 1..Len(b) - 1 : Mined(b)[i] = b[i]
  BY MinedKeeps
<1>2. Len(b) \in Nat
  OBVIOUS
<1>3. StagingIsBare(Mined(b))
  BY <1>1 DEF Minable, StagingIsBare, Staging
<1>4. ASSUME Enforced, NEW i \in 1..Len(Mined(b)), Mined(b)[i].payload > 0
      PROVE  OnLane(Mined(b)[i])
  <2>1. CASE i = Len(b)
    BY <1>1, <1>4, <2>1 DEF LastTx
  <2>2. CASE i # Len(b)
    <3>1. i \in 1..Len(b) - 1
      BY <1>1, <1>2, <2>2
    <3>2. Mined(b)[i].payload = 0
      BY <1>1, <1>3, <3>1 DEF StagingIsBare, Staging
    <3> QED
      BY <1>4, <3>2
  <2> QED
    BY <2>1, <2>2
<1> QED
  BY <1>3, <1>4 DEF Gated

\* Every step keeps the lane.
LEMMA LaneStep == TypeInv /\ LaneInv /\ [Next]_vars => LaneInv'
<1> SUFFICES ASSUME TypeInv, LaneInv, [Next]_vars
             PROVE  LaneInv'
  OBVIOUS
<1> USE DEF LaneInv
<1>1. BatchReady'
  <2>1. CASE UNCHANGED <<worker, batch>>
    BY <2>1 DEF BatchReady
  <2>2. CASE worker' \notin {"mine", "sign", "broadcast"}
    BY <2>2 DEF BatchReady
  <2>3. ASSUME NEW b \in Batches, Created(b)
        PROVE  BatchReady'
    BY <2>3 DEF Created, BatchReady, Goto, Settle
  <2>4. CASE MineEnds
    <3>1. CASE Goto("sign") /\ batch' = Mined(batch) /\ (Enforced => OnLane(LastTx(Mined(batch))))
      BY <2>4, <3>1, MiningPassesGate DEF MineEnds, BatchReady, Goto, TypeInv, TypeOK
    <3> QED
      BY <2>2, <2>4, <3>1 DEF MineEnds, Settle
  <2>5. CASE Signed
    BY <2>5 DEF Signed, BatchReady, Goto
  <2> QED
    BY <2>1, <2>2, <2>3, <2>4, <2>5
    DEF Next, Reply, WorkerStep, vars, Submit, Abort, FeeFetchFails, Decide, Recv, Panic, NoFunds,
        BackoffEnds, StepFails, Broadcast, BroadcastFails, LateLands, LateDropped, Crash, Goto,
        Settle, workerVars
<1>2. LaneSafety'
  <2>1. \A e \in {l1[i] : i \in 1..Len(l1)} \cup late : Gated(e.batch)
    BY DEF LaneSafety, Gated
  <2>2. worker = "broadcast" => Gated(InHand.batch) /\ InHand \in Entry
    BY DEF BatchReady, InHand, TypeInv, TypeOK, IdleHoldsNothing, Entry
  <2>3. ASSUME NEW e \in Entry, l1' = Append(l1, e), Gated(e.batch), late' \subseteq late
        PROVE  LaneSafety'
    <3>1. {l1'[i] : i \in 1..Len(l1')} = {l1[i] : i \in 1..Len(l1)} \cup {e}
      BY <2>3, AppendL1 DEF TypeInv, TypeOK
    <3> QED
      BY <2>1, <2>3, <3>1 DEF LaneSafety, Gated
  <2>4. ASSUME UNCHANGED l1, \A e \in late' : e \in late \/ (worker = "broadcast" /\ e = InHand)
        PROVE  LaneSafety'
    BY <2>1, <2>2, <2>4 DEF LaneSafety, Gated
  <2>5. ASSUME NEW e \in late, LateLands(e)
        PROVE  LaneSafety'
    BY <2>1, <2>3, <2>5, EntriesTyped DEF LateLands
  <2>6. ASSUME NEW result \in {"success", "doubtful"}, Broadcast(result)
        PROVE  LaneSafety'
    BY <2>2, <2>3, <2>6 DEF Broadcast
  <2> QED
    BY <2>4, <2>5, <2>6
    DEF Next, Reply, WorkerStep, vars, Submit, Abort, FeeFetchFails, Decide, Recv, Created, Panic,
        NoFunds, BackoffEnds, StepFails, MineEnds, Signed, BroadcastFails, LateDropped, Crash,
        workerVars
<1> QED
  BY <1>1, <1>2

\* With enforcement on, whatever unsigned transactions the daemon returns, every
\* transaction that carries a payload to L1 is on the lane with the mined prefix.
THEOREM LaneEnforcementHolds == Spec => []LaneSafety
<1>1. Init => LaneInv
  BY DEF Init, LaneInv, BatchReady, LaneSafety
<1> QED
  BY <1>1, TypeInit, TypeStep, LaneStep, PTL DEF Spec, LaneInv

-----------------------------------------------------------------------------
(* Fees.  A request in the handlers is well formed, an accepted one pays   *)
(* the configured floor.                                                   *)

FeeChecked ==
  \A r \in Requests :
    /\ client[r] \in {"fetching", "accepted"} => WellFormed(TxOf[r])
    /\ client[r] = "accepted" => MeetsFee(TxOf[r], GasFloor)

\* A transaction that meets the effective base fee meets the configured floor.
LEMMA EffectiveFeeIsFloored ==
  ASSUME NEW tx \in L2Tx, NEW network \in NetworkFees, MeetsFee(tx, EffectiveFee(network))
  PROVE  MeetsFee(tx, GasFloor)
BY FeesAssumption, FloorAssumption DEF L2Tx, MeetsFee, EffectiveFee

\* Every step keeps the fee check.
LEMMA FeeStep == TypeInv /\ FeeChecked /\ [Next]_vars => FeeChecked'
<1> SUFFICES ASSUME TypeInv, FeeChecked, [Next]_vars
             PROVE  FeeChecked'
  OBVIOUS
<1> USE DEF TypeInv, TypeOK, FeeChecked, Refusals
<1>1. CASE UNCHANGED client
  BY <1>1
<1>2. ASSUME NEW r \in Requests, Submit(r) \/ Abort(r) \/ FeeFetchFails(r)
      PROVE  FeeChecked'
  BY <1>2 DEF Submit, Abort, FeeFetchFails, Answer
<1>3. ASSUME NEW r \in Requests, NEW network \in NetworkFees, Decide(r, network)
      PROVE  FeeChecked'
  <2>1. CASE client' = [client EXCEPT ![r] = "accepted"]
    <3>1. MeetsFee(TxOf[r], EffectiveFee(network)) /\ TxOf[r] \in L2Tx
      BY <1>3, <2>1, RequestsAssumption DEF Decide, Answer
    <3>2. MeetsFee(TxOf[r], GasFloor)
      BY <3>1, EffectiveFeeIsFloored
    <3> QED
      BY <1>3, <2>1, <3>2 DEF Decide
  <2> QED
    BY <1>3, <2>1 DEF Decide, TrySend, Answer
<1>4. CASE Crash
  BY <1>4 DEF Crash
<1> QED
  BY <1>1, <1>2, <1>3, <1>4
  DEF Next, Reply, WorkerStep, vars, Recv, Created, Panic, NoFunds, BackoffEnds, StepFails,
      MineEnds, Signed, Broadcast, BroadcastFails, LateLands, LateDropped, acceptVars

\* Whatever base fees the execution layer reports, what is on L1 pays at least the
\* operator's protocol minimum and is a transaction the decoder accepts.
THEOREM FloorHolds == Spec => []FeeSafety
<1>1. Init => FeeChecked
  BY DEF Init, FeeChecked
<1>2. TypeInv /\ Chain /\ FeeChecked => FeeSafety
  <2> SUFFICES ASSUME TypeInv, Chain, FeeChecked, NEW i \in 1..Len(l1)
               PROVE  WellFormed(TxOf[l1[i].req]) /\ MeetsFee(TxOf[l1[i].req], GasFloor)
    BY DEF FeeSafety
  <2>1. l1[i].req \in Requests
    BY EntriesTyped
  <2>2. client[l1[i].req] = "accepted"
    BY DEF Chain, FailureIsFinal
  <2> QED
    BY <2>1, <2>2 DEF FeeChecked
<1> QED
  BY <1>1, <1>2, CoreInvariant, FeeStep, PTL DEF Spec

-----------------------------------------------------------------------------
(* Backpressure.                                                           *)

QueueBounded == Len(queue) <= QueueCapacity

\* Every step keeps the queue within its capacity.
LEMMA QueueStep == TypeInv /\ QueueBounded /\ [Next]_vars => QueueBounded'
<1> SUFFICES ASSUME TypeInv, QueueBounded, [Next]_vars
             PROVE  QueueBounded'
  OBVIOUS
<1> USE DEF TypeInv, TypeOK, QueueBounded
<1>1. CASE UNCHANGED queue
  BY <1>1
<1>2. ASSUME NEW r \in Requests, queue' = Append(queue, r), Len(queue) < QueueCapacity
      PROVE  QueueBounded'
  BY <1>2, AppendQueue, LimitsAssumption
<1>3. CASE queue' = <<>>
  BY <1>3, LimitsAssumption
<1>4. CASE Recv
  BY <1>4, TailQueue, LimitsAssumption DEF Recv
<1> QED
  BY <1>1, <1>2, <1>3, <1>4
  DEF Next, Reply, WorkerStep, vars, Submit, Abort, FeeFetchFails, Decide, TrySend, Created, Panic,
      NoFunds, BackoffEnds, StepFails, MineEnds, Signed, Broadcast, BroadcastFails, LateLands,
      LateDropped, Crash, acceptVars

\* A sequence has at most as many elements as positions.
LEMMA ElementsOfSeq ==
  ASSUME NEW S, NEW s \in Seq(S)
  PROVE  LET T == {s[i] : i \in 1..Len(s)} IN IsFiniteSet(T) /\ Cardinality(T) <= Len(s)
<1> DEFINE T == {s[i] : i \in 1..Len(s)}
<1>1. Len(s) \in Nat /\ DOMAIN s = 1..Len(s) /\ s \in [1..Len(s) -> T]
  BY LenProperties
<1>2. s \in Surjection(1..Len(s), T)
  BY <1>1 DEF Surjection
<1>3. IsFiniteSet(1..Len(s)) /\ Cardinality(1..Len(s)) = Len(s)
  <2>1. \A n \in Nat : IsFiniteSet(1..n) /\ Cardinality(1..n) = IF 1 > n THEN 0 ELSE n - 1 + 1
    BY FS_Interval
  <2> HIDE DEF T
  <2> QED
    BY <1>1, <2>1
<1> HIDE DEF T
<1>4. IsFiniteSet(T) /\ Cardinality(T) <= Len(s)
  BY <1>2, <1>3, FS_Surjection
<1> QED
  BY <1>4 DEF T

\* Clients never hold hashes for more unsettled transactions than the queue and
\* the worker have places, whatever the rate of submissions.
THEOREM BacklogIsBounded == Spec => []BoundedBacklog
<1>1. Init => QueueBounded
  BY LimitsAssumption DEF Init, QueueBounded
<1>2. TypeInv /\ Custody /\ QueueBounded => BoundedBacklog
  <2> SUFFICES ASSUME TypeInv, Custody, QueueBounded
               PROVE  BoundedBacklog
    OBVIOUS
  <2> DEFINE Queued == {queue[i] : i \in 1..Len(queue)}
  <2>1. IsFiniteSet(Queued) /\ Cardinality(Queued) <= Len(queue)
    BY ElementsOfSeq DEF TypeInv, TypeOK
  <2>2. Unsettled \subseteq Queued \cup {cur}
    BY DEF Custody, Accounted, InQueue, Unsettled
  <2> HIDE DEF Queued
  <2>3. /\ IsFiniteSet(Queued \cup {cur})
        /\ Cardinality(Queued \cup {cur}) <= Cardinality(Queued) + 1
    BY <2>1, FS_AddElement, FS_CardinalityType
  <2>4. /\ Cardinality(Unsettled) <= Cardinality(Queued \cup {cur})
        /\ Cardinality(Unsettled) \in Nat
        /\ Cardinality(Queued \cup {cur}) \in Nat
        /\ Cardinality(Queued) \in Nat
    BY <2>1, <2>2, <2>3, FS_Subset, FS_CardinalityType
  <2>5. Len(queue) \in Nat
    BY DEF TypeInv, TypeOK
  <2> QED
    BY <2>1, <2>3, <2>4, <2>5, LimitsAssumption DEF BoundedBacklog, QueueBounded
<1> QED
  BY <1>1, <1>2, CoreInvariant, QueueStep, PTL DEF Spec

-----------------------------------------------------------------------------
(* TxSubmission implements SubmissionContract: every step of the handlers, *)
(* the worker, the daemon and the process is a step of the contract or     *)
(* changes nothing the contract sees.                                      *)

(* The refinement mapping, named. *)
status == [r \in Requests |-> ContractStatus(r)]

backlog == IF cur = NoRequest THEN queue ELSE <<cur>> \o queue

chain == [i \in 1..Len(l1) |-> l1[i].req]

\* What the daemon may still broadcast was settled without knowing.
LateUnknown == \A e \in late : outcome[e.req] \in {"doubtful", "lost"}

Inv == TypeInv /\ Custody /\ Chain /\ LateUnknown

\* A broadcast is left to the daemon when its request is settled as doubtful or
\* lost, and settled requests keep their outcome.
LEMMA LateUnknownStep == Inv /\ [Next]_vars => LateUnknown'
<1> SUFFICES ASSUME Inv, [Next]_vars
             PROVE  LateUnknown'
  OBVIOUS
<1> USE DEF Inv
<1>1. \A r \in Requests : outcome[r] # "none" => outcome'[r] = outcome[r]
  BY AnswersAreFinal
<1>2. \A e \in late : e.req \in Requests /\ outcome'[e.req] \in {"doubtful", "lost"}
  BY <1>1, EntriesTyped DEF LateUnknown
<1>3. CASE late' \subseteq late
  BY <1>2, <1>3 DEF LateUnknown
<1>4. ASSUME worker = "broadcast", late' = late \cup {InHand}, outcome'[cur] \in {"doubtful", "lost"}
      PROVE  LateUnknown'
  BY <1>2, <1>4 DEF LateUnknown, InHand
<1>5. CASE BroadcastFails
  BY <1>4, <1>5, BusyHolds DEF BroadcastFails, Settle, TypeInv, TypeOK
<1>6. CASE Crash
  BY <1>3, <1>4, <1>6, BusyHolds DEF Crash, TypeInv, TypeOK
<1> QED
  BY <1>3, <1>5, <1>6
  DEF Next, Reply, WorkerStep, vars, Submit, Abort, FeeFetchFails, Decide, Recv, Created, Panic,
      NoFunds, BackoffEnds, StepFails, MineEnds, Signed, Broadcast, LateLands, LateDropped,
      workerVars

\* The invariant the refinement rests on.
LEMMA RefinementInvariant == Spec => []Inv
<1>1. Init => LateUnknown
  BY DEF Init, LateUnknown
<1>2. TypeInv /\ Custody /\ Chain /\ LateUnknown /\ [Next]_vars => LateUnknown'
  BY LateUnknownStep DEF Inv
<1> QED
  BY <1>1, <1>2, CoreInvariant, PTL DEF Spec, Inv

\* What the contract sees in the initial state.
LEMMA RefinesInit == Init => Contract!Init
BY DEF Init, Contract!Init, ContractStatus

\* The contract's variables are functions of the mapping alone.
LEMMA StutterBySame == UNCHANGED <<status, backlog, chain>> => UNCHANGED Contract!vars
BY DEF Contract!vars, status, backlog, chain

\* An open request becomes refused.
LEMMA RefuseStep ==
  ASSUME NEW r \in Requests, status[r] = "open",
         status' = [status EXCEPT ![r] = "refused"], UNCHANGED <<backlog, chain>>
  PROVE  Contract!Next
BY DEF Contract!Next, Contract!Refuse, status, backlog, chain

\* An open request becomes accepted, behind all others.
LEMMA AcceptStep ==
  ASSUME NEW r \in Requests, status[r] = "open",
         status' = [status EXCEPT ![r] = "accepted"],
         backlog' = Append(backlog, r), UNCHANGED chain
  PROVE  Contract!Next
BY DEF Contract!Next, Contract!Accept, status, backlog, chain

\* The oldest request fails, off L1.
LEMMA FailStep ==
  ASSUME backlog # <<>>, status' = [status EXCEPT ![Head(backlog)] = "failed"],
         backlog' = Tail(backlog), UNCHANGED chain
  PROVE  Contract!Next
BY DEF Contract!Next, Contract!Fail, Contract!SettleOldest, status, backlog, chain

\* The oldest request is settled with its fate on L1 unknown.
LEMMA DoubtStep ==
  ASSUME backlog # <<>>, status' = [status EXCEPT ![Head(backlog)] = "doubtful"],
         backlog' = Tail(backlog), UNCHANGED chain
  PROVE  Contract!Next
BY DEF Contract!Next, Contract!Doubt, Contract!SettleOldest, status, backlog, chain

\* The oldest request is settled and is on L1, for the first time.
LEMMA LandStep ==
  ASSUME NEW result \in {"success", "doubtful"}, backlog # <<>>,
         status' = [status EXCEPT ![Head(backlog)] = result],
         backlog' = Tail(backlog), chain' = Append(chain, Head(backlog)),
         \A i \in 1..Len(chain) : chain[i] # Head(backlog)
  PROVE  Contract!Next
BY DEF Contract!Next, Contract!Succeed, Contract!Doubt, Contract!SettleOldest, Contract!OnChain,
       status, backlog, chain

\* A request whose fate was unknown reaches L1, for the first time.
LEMMA StraggleStep ==
  ASSUME NEW r \in Requests, status[r] \in {"doubtful", "lost"},
         UNCHANGED <<status, backlog>>, chain' = Append(chain, r),
         \A i \in 1..Len(chain) : chain[i] # r
  PROVE  Contract!Next
BY DEF Contract!Next, Contract!Straggle, Contract!OnChain, status, backlog, chain

\* Accepted requests are lost, some open ones are dropped.
LEMMA OutageStep ==
  ASSUME backlog' = <<>>, UNCHANGED chain,
         NEW dropped \in SUBSET {r \in Requests : status[r] = "open"},
         status' = [r \in Requests |-> IF status[r] = "accepted" THEN "lost"
                                       ELSE IF r \in dropped THEN "refused"
                                       ELSE status[r]]
  PROVE  Contract!Next
BY DEF Contract!Next, Contract!Outage, status, backlog, chain

-----------------------------------------------------------------------------
(* What the mapping makes of the detailed state.                           *)

\* The status of a request whose client has an answer.
LEMMA StatusAnswered ==
  ASSUME TypeInv, NEW r \in Requests
  PROVE  /\ client[r] \in {"new", "fetching"} <=> status[r] = "open"
         /\ client[r] \in Refusals <=> status[r] = "refused"
         /\ client[r] = "accepted" => status[r] = IF outcome[r] = "none" THEN "accepted"
                                                  ELSE outcome[r]
         /\ status[r] = "accepted" <=> client[r] = "accepted" /\ outcome[r] = "none"
BY DEF TypeInv, TypeOK, status, ContractStatus, Refusals, Settled

\* The contract's backlog is the request in hand before the queue.
LEMMA BacklogInHand ==
  ASSUME TypeInv, cur # NoRequest
  PROVE  backlog # <<>> /\ Head(backlog) = cur /\ Tail(backlog) = queue
<1>1. queue \in Seq(Requests) /\ cur \in Requests
  BY DEF TypeInv, TypeOK
<1> QED
  BY <1>1 DEF backlog

\* A request that joins the queue joins the contract's backlog at its end.
LEMMA BacklogAppends ==
  ASSUME TypeInv, NEW r \in Requests, UNCHANGED cur, queue' = Append(queue, r)
  PROVE  backlog' = Append(backlog, r)
<1>1. queue \in Seq(Requests) /\ cur \in Requests \cup {NoRequest}
  BY DEF TypeInv, TypeOK
<1>2. CASE cur = NoRequest
  BY <1>2 DEF backlog
<1>3. CASE cur # NoRequest
  <2>1. <<cur>> \o Append(queue, r) = Append(<<cur>> \o queue, r)
    BY <1>1, <1>3
  <2> QED
    BY <1>3, <2>1 DEF backlog
<1> QED
  BY <1>2, <1>3

\* Taking the oldest request from the queue leaves the backlog as it is.
LEMMA BacklogRecv == ASSUME TypeInv, Recv PROVE UNCHANGED backlog
<1>1. queue \in Seq(Requests) /\ queue # <<>> /\ cur = NoRequest
  BY DEF Recv, TypeInv, TypeOK, IdleHoldsNothing
<1>2. queue = <<Head(queue)>> \o Tail(queue) /\ Head(queue) \in Requests
  BY <1>1
<1> QED
  BY <1>1, <1>2, RequestsAssumption DEF Recv, backlog

\* Appending an entry to L1 appends its request to the chain, which had none of its
\* request.
LEMMA ChainAppends ==
  ASSUME TypeInv, NEW e \in Entry, l1' = Append(l1, e),
         \A i \in 1..Len(l1) : l1[i].req # e.req
  PROVE  /\ chain' = Append(chain, e.req)
         /\ \A i \in 1..Len(chain) : chain[i] # e.req
<1>1. l1 \in Seq(Entry) /\ Len(l1) \in Nat
  BY DEF TypeInv, TypeOK
<1>2. Len(chain) = Len(l1) /\ \A i \in 1..Len(l1) : chain[i] = l1[i].req
  BY <1>1 DEF chain
<1>3. /\ Len(l1') = Len(l1) + 1
      /\ \A i \in 1..Len(l1) : l1'[i] = l1[i]
      /\ l1'[Len(l1) + 1] = e
  BY <1>1
<1>4. chain' = [i \in 1..Len(l1) + 1 |-> IF i = Len(l1) + 1 THEN e.req ELSE chain[i]]
  BY <1>1, <1>2, <1>3 DEF chain
<1>5. Append(chain, e.req) = [i \in 1..Len(l1) + 1 |-> IF i = Len(l1) + 1 THEN e.req ELSE chain[i]]
  <2>1. chain \in Seq(Requests)
    BY <1>1, EntriesTyped DEF chain
  <2> QED
    BY <1>2, <2>1
<1> QED
  BY <1>2, <1>4, <1>5

\* Only the request in hand changes its status when it is settled.
LEMMA SettleStatus ==
  ASSUME TypeInv, Custody, worker \notin {"recv", "dead"},
         NEW result \in Settled, Settle(result), UNCHANGED <<client, queue>>
  PROVE  /\ backlog # <<>>
         /\ Head(backlog) = cur
         /\ status' = [status EXCEPT ![Head(backlog)] = result]
         /\ backlog' = Tail(backlog)
<1>1. cur \in Requests /\ cur # NoRequest /\ client[cur] = "accepted"
  BY BusyHolds, RequestsAssumption
<1>2. backlog # <<>> /\ Head(backlog) = cur /\ Tail(backlog) = queue
  BY <1>1, BacklogInHand
<1>3. backlog' = queue
  BY DEF Settle, backlog
<1>4. status' = [status EXCEPT ![cur] = result]
  BY <1>1 DEF status, ContractStatus, Settle, TypeInv, TypeOK, Settled, Refusals
<1> QED
  BY <1>2, <1>3, <1>4

-----------------------------------------------------------------------------
(* Each action, against the contract. *)

\* A handler answers without reaching the queue.
LEMMA AnswerRefines ==
  ASSUME TypeInv, NEW r \in Requests, client[r] \in {"new", "fetching"},
         NEW reply \in Refusals \cup {"fetching"}, Answer(r, reply),
         UNCHANGED <<queue, workerVars>>
  PROVE  Contract!Next \/ UNCHANGED Contract!vars
<1>1. UNCHANGED <<backlog, chain>>
  BY DEF backlog, chain, workerVars
<1>2. status[r] = "open"
  BY StatusAnswered
<1>3. CASE reply = "fetching"
  <2>1. UNCHANGED status
    BY <1>3 DEF status, ContractStatus, Answer, workerVars, TypeInv, TypeOK, Refusals
  <2> QED
    BY <1>1, <2>1, StutterBySame
<1>4. CASE reply \in Refusals
  <2>1. status' = [status EXCEPT ![r] = "refused"]
    BY <1>4 DEF status, ContractStatus, Answer, workerVars, TypeInv, TypeOK, Refusals
  <2> QED
    BY <1>1, <1>2, <2>1, RefuseStep
<1> QED
  BY <1>3, <1>4

\* A handler queues its request.
LEMMA QueuedRefines ==
  ASSUME TypeInv, Custody, NEW r \in Requests, client[r] = "fetching",
         Answer(r, "accepted"), queue' = Append(queue, r), UNCHANGED workerVars
  PROVE  Contract!Next
<1>1. outcome[r] = "none"
  BY DEF Custody, OutcomeOfAccepted
<1>2. status[r] = "open"
  BY StatusAnswered
<1>3. status' = [status EXCEPT ![r] = "accepted"]
  BY <1>1 DEF status, ContractStatus, Answer, workerVars, TypeInv, TypeOK, Refusals
<1>4. backlog' = Append(backlog, r) /\ UNCHANGED chain
  BY BacklogAppends DEF chain, workerVars
<1> QED
  BY <1>2, <1>3, <1>4, AcceptStep

\* The worker settles its request without L1.
LEMMA SettleRefines ==
  ASSUME TypeInv, Custody, worker \notin {"recv", "dead"},
         NEW result \in {"failed", "doubtful"}, Settle(result),
         UNCHANGED <<client, queue, l1>>
  PROVE  Contract!Next
<1>1. /\ backlog # <<>>
      /\ status' = [status EXCEPT ![Head(backlog)] = result]
      /\ backlog' = Tail(backlog)
  BY SettleStatus DEF Settled
<1>2. UNCHANGED chain
  BY DEF chain
<1> QED
  BY <1>1, <1>2, FailStep, DoubtStep

\* The daemon broadcasts the request in hand.
LEMMA BroadcastRefines ==
  ASSUME Inv, NEW result \in {"success", "doubtful"}, Broadcast(result)
  PROVE  Contract!Next
<1>1. worker = "broadcast" /\ Settle(result) /\ UNCHANGED <<client, queue>>
  BY DEF Broadcast, acceptVars
<1>2. /\ backlog # <<>>
      /\ Head(backlog) = cur
      /\ status' = [status EXCEPT ![Head(backlog)] = result]
      /\ backlog' = Tail(backlog)
  BY <1>1, SettleStatus DEF Inv, Settled
<1>3. InHand \in Entry /\ InHand.req = cur
  BY <1>1, BusyHolds DEF Inv, InHand, Entry, TypeInv, TypeOK
<1>4. \A i \in 1..Len(l1) : l1[i].req # InHand.req
  BY <1>1, InHandIsNew DEF Inv
<1>5. /\ chain' = Append(chain, Head(backlog))
      /\ \A i \in 1..Len(chain) : chain[i] # Head(backlog)
  BY <1>2, <1>3, <1>4, ChainAppends DEF Inv, Broadcast
<1> QED
  BY <1>2, <1>5, LandStep

\* A broadcast nobody waits for reaches L1.
LEMMA LateRefines ==
  ASSUME Inv, NEW e \in late, LateLands(e)
  PROVE  Contract!Next
<1>1. e \in Entry /\ e.req \in Requests
  BY EntriesTyped DEF Inv
<1>2. \A i \in 1..Len(l1) : l1[i].req # e.req
  BY DEF Inv, Chain, AtMostOnce
<1>3. /\ chain' = Append(chain, e.req)
      /\ \A i \in 1..Len(chain) : chain[i] # e.req
  BY <1>1, <1>2, ChainAppends DEF Inv, LateLands
<1>4. client[e.req] = "accepted" /\ outcome[e.req] \notin {"none", "failed"}
  BY DEF Inv, Chain, FailureIsFinal
<1>5. status[e.req] \in {"doubtful", "lost"}
  BY <1>1, <1>4, StatusAnswered DEF Inv, LateUnknown
<1>6. UNCHANGED <<status, backlog>>
  BY DEF LateLands, acceptVars, status, ContractStatus, backlog
<1> QED
  BY <1>1, <1>3, <1>5, <1>6, StraggleStep

\* The process or the worker task dies.
LEMMA OutageRefines ==
  ASSUME TypeInv, queue' = <<>>, cur' = NoRequest, UNCHANGED l1,
         NEW dropped \in SUBSET {r \in Requests : client[r] = "fetching"},
         client' = [r \in Requests |-> IF r \in dropped THEN "aborted" ELSE client[r]],
         outcome' = [r \in Requests |->
                       IF client[r] = "accepted" /\ outcome[r] = "none"
                       THEN "lost" ELSE outcome[r]]
  PROVE  Contract!Next
<1>1. dropped \in SUBSET {r \in Requests : status[r] = "open"}
  BY StatusAnswered
<1>2. backlog' = <<>> /\ UNCHANGED chain
  BY DEF backlog, chain
<1>3. status' = [r \in Requests |-> IF status[r] = "accepted" THEN "lost"
                                    ELSE IF r \in dropped THEN "refused"
                                    ELSE status[r]]
  <2>1. ASSUME NEW r \in Requests
        PROVE  status'[r] = IF status[r] = "accepted" THEN "lost"
                            ELSE IF r \in dropped THEN "refused"
                            ELSE status[r]
    BY DEF status, ContractStatus, TypeInv, TypeOK, Refusals, Settled
  <2>2. status' = [r \in Requests |-> status'[r]]
    BY DEF status
  <2> QED
    BY <2>1, <2>2
<1> QED
  BY <1>1, <1>2, <1>3, OutageStep

\* Every step of the path is a step of the contract or changes nothing it sees.
LEMMA RefinesStep == Inv /\ [Next]_vars => Contract!Next \/ UNCHANGED Contract!vars
<1> SUFFICES ASSUME Inv, [Next]_vars
             PROVE  Contract!Next \/ UNCHANGED Contract!vars
  OBVIOUS
<1> USE DEF Inv
<1>1. ASSUME NEW r \in Requests, Submit(r) \/ Abort(r) \/ FeeFetchFails(r)
      PROVE  Contract!Next \/ UNCHANGED Contract!vars
  BY <1>1, AnswerRefines DEF Submit, Abort, FeeFetchFails, Refusals
<1>2. ASSUME NEW r \in Requests, NEW network \in NetworkFees, Decide(r, network)
      PROVE  Contract!Next \/ UNCHANGED Contract!vars
  BY <1>2, AnswerRefines, QueuedRefines DEF Decide, TrySend, Refusals
<1>3. ASSUME UNCHANGED <<client, queue, cur, outcome, l1>>
      PROVE  UNCHANGED Contract!vars
  BY <1>3, StutterBySame DEF status, ContractStatus, backlog, chain
<1>4. CASE Recv
  <2>1. UNCHANGED <<status, backlog, chain>>
    BY <1>4, BacklogRecv DEF Recv, status, ContractStatus, chain
  <2> QED
    BY <2>1, StutterBySame
<1>5. ASSUME NEW result \in {"failed", "doubtful"}, worker \notin {"recv", "dead"},
             Settle(result), UNCHANGED <<client, queue, l1>>
      PROVE  Contract!Next
  BY <1>5, SettleRefines
<1>6. ASSUME NEW b \in Batches, Created(b)
      PROVE  Contract!Next \/ UNCHANGED Contract!vars
  BY <1>3, <1>5, <1>6 DEF Created, Goto, acceptVars
<1>7. ASSUME NEW b \in Batches, Panic(b)
      PROVE  Contract!Next
  <2>1. client' = [r \in Requests |-> IF r \in {} THEN "aborted" ELSE client[r]]
    BY <1>7 DEF Panic, TypeInv, TypeOK
  <2> QED
    BY <1>7, <2>1, OutageRefines DEF Panic
<1>8. CASE NoFunds \/ BackoffEnds \/ StepFails \/ MineEnds \/ Signed
  BY <1>3, <1>5, <1>8 DEF NoFunds, BackoffEnds, StepFails, MineEnds, Signed, Goto, acceptVars
<1>9. ASSUME NEW result \in {"success", "doubtful"}, Broadcast(result)
      PROVE  Contract!Next
  BY <1>9, BroadcastRefines
<1>10. CASE BroadcastFails
  BY <1>5, <1>10 DEF BroadcastFails, acceptVars
<1>11. ASSUME NEW e \in late, LateLands(e)
       PROVE  Contract!Next
  BY <1>11, LateRefines
<1>12. ASSUME NEW e \in late, LateDropped(e)
       PROVE  UNCHANGED Contract!vars
  BY <1>3, <1>12 DEF LateDropped, acceptVars
<1>13. CASE Crash
  <2> DEFINE dropped == {r \in Requests : client[r] = "fetching"}
  <2>1. client' = [r \in Requests |-> IF r \in dropped THEN "aborted" ELSE client[r]]
    BY <1>13 DEF Crash
  <2> QED
    BY <1>13, <2>1, OutageRefines DEF Crash
<1>14. CASE UNCHANGED vars
  BY <1>3, <1>14 DEF vars
<1> QED
  BY <1>1, <1>2, <1>4, <1>6, <1>7, <1>8, <1>9, <1>10, <1>11, <1>12, <1>13, <1>14
  DEF Next, Reply, WorkerStep

\* The submission path implements the contract for every queue, every daemon and
\* every restart: accepted requests are settled in the order of their acceptance,
\* each is on L1 at most once, never if refused or failed, always if successful.
THEOREM RefinesContract == Spec => ImplementsContract
BY RefinesInit, RefinesStep, RefinementInvariant, PTL DEF Spec, ImplementsContract, Contract!Spec
=============================================================================
