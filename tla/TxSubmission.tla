---------------------------- MODULE TxSubmission ----------------------------
(***************************************************************************)
(* The submission path of eth_sendRawTransaction: the accept path that     *)
(* answers the client (services/transaction.rs process_transaction), the   *)
(* bounded queue, the single background worker, and the wallet flow the    *)
(* worker runs for each request (clients/wallet_caller.rs): create with    *)
(* retries, check, mine, sign, broadcast.                                  *)
(*                                                                         *)
(* An await of the code is a state of a handler or of the worker; the code *)
(* between two awaits is one action.  The wallet daemon, the execution     *)
(* layer and L1 are external: they answer anything their protocol allows.  *)
(***************************************************************************)
EXTENDS Naturals, Sequences, FiniteSets, FeeRules

CONSTANTS
  Requests,       \* the eth_sendRawTransaction calls clients make
  NoRequest,      \* "the worker holds no request"
  TxOf,           \* the L2 transaction each request carries
  NetworkFees,    \* the base fees the execution layer may report
  QueueCapacity,  \* TRANSACTION_QUEUE_CAPACITY
  MaxAttempts,    \* RetryConfig::max_attempts
  Enforced,       \* WalletCaller::lane_enforcement is Some
  Lane,           \* the configured KIP-21 lane
  Subnets,        \* the subnetworks a daemon-built transaction may name
  Batches,        \* the unsigned transactions the daemon may return
  MaxCrashes      \* bound on process restarts

(***************************************************************************)
(* Data.  A wallet transaction is what the wallet flow tells apart: form is *)
(* how the daemon wrapped it ("panic" is one whose decoding panics: an     *)
(* outpoint id that is not 32 bytes, or fewer UTXO entries than inputs).   *)
(***************************************************************************)
WalletTx == [form: {"partial", "undecodable", "panic"}, version: Nat,
             subnet: Subnets, payload: Nat, prefixed: BOOLEAN]

Entry == [req: Requests, batch: Seq(WalletTx)]

ASSUME RequestsAssumption ==
  /\ NoRequest \notin Requests
  /\ IsFiniteSet(Requests)
  /\ TxOf \in [Requests -> L2Tx]
ASSUME FeesAssumption == NetworkFees \subseteq Nat
ASSUME LimitsAssumption ==
  QueueCapacity \in Nat \ {0} /\ MaxAttempts \in Nat \ {0} /\ MaxCrashes \in Nat
ASSUME LaneAssumption == Enforced \in BOOLEAN /\ Lane \in Subnets
ASSUME BatchesAssumption == Batches \subseteq Seq(WalletTx)

-----------------------------------------------------------------------------
VARIABLES
  client,   \* how each request was answered: process_transaction
  queue,    \* the mpsc channel between the handlers and the worker
  worker,   \* the await the worker is suspended at, or "dead"
  cur,      \* the request the worker processes
  attempt,  \* the attempt of create_unsigned_transaction_with_retry
  batch,    \* unsigned_transactions, mined in place
  outcome,  \* how the worker settled each request
  l1,       \* history: what the daemon put on L1, in order
  late,     \* broadcasts the worker gave up on, still with the daemon
  crashes

vars == <<client, queue, worker, cur, attempt, batch, outcome, l1, late, crashes>>

Refusals == {"format", "fee_fetch", "fee_floor", "queue_full", "closed", "aborted"}
Settled  == {"success", "failed", "doubtful", "lost"}

TypeOK ==
  /\ client \in [Requests -> {"new", "fetching", "accepted"} \cup Refusals]
  /\ queue \in Seq(Requests)
  /\ worker \in {"recv", "create", "backoff", "mine", "sign", "broadcast", "dead"}
  /\ cur \in Requests \cup {NoRequest}
  /\ attempt \in 0..MaxAttempts
  /\ batch \in Seq(WalletTx)
  /\ outcome \in [Requests -> {"none"} \cup Settled]
  /\ l1 \in Seq(Entry)
  /\ late \in SUBSET Entry
  /\ crashes \in 0..MaxCrashes

Init ==
  /\ client = [r \in Requests |-> "new"]
  /\ queue = <<>>
  /\ worker = "recv"
  /\ cur = NoRequest
  /\ attempt = 0
  /\ batch = <<>>
  /\ outcome = [r \in Requests |-> "none"]
  /\ l1 = <<>>
  /\ late = {}
  /\ crashes = 0

-----------------------------------------------------------------------------
(* The accept path. *)

\* parse_rlp_transaction: size, type and RLP, without I/O.
WellFormed(tx) == tx.decodes /\ tx.type \in {0, 1, 2, 4}

workerVars == <<worker, cur, attempt, batch, outcome, l1, late>>

Answer(r, reply) == client' = [client EXCEPT ![r] = reply]

\* A request arrives: the format check answers at once or the handler waits
\* for the base fee.
Submit(r) ==
  /\ client[r] = "new"
  /\ Answer(r, IF WellFormed(TxOf[r]) THEN "fetching" ELSE "format")
  /\ UNCHANGED <<queue, workerVars, crashes>>

\* The client's connection ends and its handler is dropped at the await.
Abort(r) ==
  /\ client[r] = "fetching"
  /\ Answer(r, "aborted")
  /\ UNCHANGED <<queue, workerVars, crashes>>

\* No base fee: fail closed.
FeeFetchFails(r) ==
  /\ client[r] = "fetching"
  /\ Answer(r, "fee_fetch")
  /\ UNCHANGED <<queue, workerVars, crashes>>

\* Mutant: an error reply to a request that was queued.
TrySendRefusesQueued(r) ==
  \/ worker = "dead" /\ Answer(r, "closed") /\ UNCHANGED queue
  \/ /\ worker # "dead"
     /\ Answer(r, IF Len(queue) >= QueueCapacity THEN "queue_full" ELSE "accepted")
     /\ queue' = Append(queue, r)

\* transaction_sender.try_send: never waits.
TrySend(r) ==
  \/ worker = "dead" /\ Answer(r, "closed") /\ UNCHANGED queue
  \/ worker # "dead" /\ Len(queue) >= QueueCapacity /\ Answer(r, "queue_full") /\ UNCHANGED queue
  \/ worker # "dead" /\ Len(queue) < QueueCapacity /\ Answer(r, "accepted") /\ queue' = Append(queue, r)

\* The base fee is known: the fee floor, then the queue, with no await between.
Decide(r, network) ==
  /\ client[r] = "fetching"
  /\ IF MeetsFee(TxOf[r], EffectiveFee(network))
     THEN TrySend(r)
     ELSE Answer(r, "fee_floor") /\ UNCHANGED queue
  /\ UNCHANGED <<workerVars, crashes>>

-----------------------------------------------------------------------------
(* The wallet flow. *)

LastTx(b) == b[Len(b)]

\* Every transaction but the last: UTXO consolidation, never mined or gated.
Staging(b) == {b[i] : i \in 1..Len(b) - 1}

StagingIsBare(b) == \A t \in Staging(b) : t.payload = 0

NonceLen == 4

\* validate_lane_transaction, Stage::PreMining.
LaneShaped(t) == t.version >= 1 /\ t.subnet = Lane /\ t.payload > NonceLen

\* validate_lane_transaction, Stage::PreBroadcast.
OnLane(t) == LaneShaped(t) /\ t.prefixed

\* Mutant: only the last transaction is looked at.
MinableLastOnly(b) ==
  /\ b # <<>>
  /\ LastTx(b).form = "partial"
  /\ Enforced => LaneShaped(LastTx(b))

\* complete_transaction_flow up to the miner, once a batch is there.
Minable(b) ==
  /\ b # <<>>
  /\ StagingIsBare(b)
  /\ LastTx(b).form = "partial"
  /\ Enforced => LaneShaped(LastTx(b))

\* The decoder is reached and unwinds the worker task.
Panics(b) == b # <<>> /\ StagingIsBare(b) /\ LastTx(b).form = "panic"

\* mine_blocking on the last transaction: the last bytes of the payload become
\* the nonce (a payload shorter than the nonce becomes the nonce) and the id
\* gets the prefix.
MinedTx(t) == [form     |-> t.form,
               version  |-> t.version,
               subnet   |-> t.subnet,
               payload  |-> IF t.payload < NonceLen THEN NonceLen ELSE t.payload,
               prefixed |-> TRUE]

Mined(b) == [b EXCEPT ![Len(b)] = MinedTx(@)]

-----------------------------------------------------------------------------
(* The worker. *)

acceptVars == <<client, queue, crashes>>

\* process_wallet_call returns; the worker reports and goes back to the queue.
Settle(result) ==
  /\ outcome' = [outcome EXCEPT ![cur] = result]
  /\ worker' = "recv"
  /\ cur' = NoRequest
  /\ attempt' = 0
  /\ batch' = <<>>

Goto(await) ==
  /\ worker' = await
  /\ UNCHANGED <<cur, outcome>>

\* Mutant: the newest request first.
RecvNewest ==
  /\ worker = "recv"
  /\ queue # <<>>
  /\ queue' = SubSeq(queue, 1, Len(queue) - 1)
  /\ cur' = queue[Len(queue)]
  /\ worker' = "create"
  /\ attempt' = 1
  /\ UNCHANGED <<client, batch, outcome, l1, late, crashes>>

Recv ==
  /\ worker = "recv"
  /\ queue # <<>>
  /\ queue' = Tail(queue)
  /\ cur' = Head(queue)
  /\ worker' = "create"
  /\ attempt' = 1
  /\ UNCHANGED <<client, batch, outcome, l1, late, crashes>>

\* The daemon answers with unsigned transactions: they are checked, decoded and
\* gated, and handed to the miner.
Created(b) ==
  /\ worker = "create"
  /\ ~Panics(b)
  /\ \/ Minable(b) /\ Goto("mine") /\ batch' = b /\ UNCHANGED attempt
     \/ ~Minable(b) /\ Settle("failed")
  /\ UNCHANGED <<acceptVars, l1, late>>

\* Mutant: one attempt too many.
NoFundsOffByOne ==
  /\ worker = "create"
  /\ \/ attempt <= MaxAttempts /\ Goto("backoff") /\ UNCHANGED <<attempt, batch>>
     \/ attempt > MaxAttempts /\ Settle("failed")
  /\ UNCHANGED <<acceptVars, l1, late>>

\* No funds: back off, unless this was the last attempt.
NoFunds ==
  /\ worker = "create"
  /\ \/ attempt < MaxAttempts /\ Goto("backoff") /\ UNCHANGED <<attempt, batch>>
     \/ attempt = MaxAttempts /\ Settle("failed")
  /\ UNCHANGED <<acceptVars, l1, late>>

\* Mutant: the attempt is not counted.
BackoffForgets ==
  /\ worker = "backoff"
  /\ Goto("create")
  /\ UNCHANGED <<acceptVars, attempt, batch, l1, late>>

BackoffEnds ==
  /\ worker = "backoff"
  /\ Goto("create")
  /\ attempt' = attempt + 1
  /\ UNCHANGED <<acceptVars, batch, l1, late>>

\* Mutant: an error that is swallowed.
StepFailsSilently ==
  /\ worker \in {"create", "mine", "sign"}
  /\ worker' = "recv"
  /\ cur' = NoRequest
  /\ attempt' = 0
  /\ batch' = <<>>
  /\ UNCHANGED <<acceptVars, outcome, l1, late>>

\* Any other error of create, the miner or sign, or its timeout.
StepFails ==
  /\ worker \in {"create", "mine", "sign"}
  /\ Settle("failed")
  /\ UNCHANGED <<acceptVars, l1, late>>

\* The miner found a nonce: the pre-broadcast gate, then sign.
MineEnds ==
  /\ worker = "mine"
  /\ \/ /\ Enforced => OnLane(LastTx(Mined(batch)))
        /\ Goto("sign")
        /\ batch' = Mined(batch)
        /\ UNCHANGED attempt
     \/ /\ Enforced /\ ~OnLane(LastTx(Mined(batch)))
        /\ Settle("failed")
  /\ UNCHANGED <<acceptVars, l1, late>>

Signed ==
  /\ worker = "sign"
  /\ Goto("broadcast")
  /\ UNCHANGED <<acceptVars, attempt, batch, l1, late>>

InHand == [req |-> cur, batch |-> batch]

\* The daemon broadcast the batch and answers with its ids; without any id the
\* answer is NoTransactionIds although the batch is on L1.
Broadcast(result) ==
  /\ worker = "broadcast"
  /\ result \in {"success", "doubtful"}
  /\ l1' = Append(l1, InHand)
  /\ Settle(result)
  /\ UNCHANGED <<acceptVars, late>>

\* Mutant: a broadcast that timed out is retried like a creation.
BroadcastRetried ==
  /\ worker = "broadcast"
  /\ late' = late \cup {InHand}
  /\ Goto("create")
  /\ batch' = <<>>
  /\ UNCHANGED <<acceptVars, attempt, l1>>

\* An error before or after the daemon broadcast, or GRPC_TIMEOUT_SECS: the
\* worker alerts and moves on, the broadcast may still happen.
BroadcastFails ==
  /\ worker = "broadcast"
  /\ late' = late \cup {InHand}
  /\ Settle("doubtful")
  /\ UNCHANGED <<acceptVars, l1>>

\* Mutant: the task is restarted on a fresh queue.
PanicRestarts(b) ==
  /\ worker = "create"
  /\ Panics(b)
  /\ worker' = "recv"
  /\ outcome' = [r \in Requests |->
                   IF client[r] = "accepted" /\ outcome[r] = "none" THEN "lost" ELSE outcome[r]]
  /\ queue' = <<>>
  /\ cur' = NoRequest
  /\ attempt' = 0
  /\ batch' = <<>>
  /\ UNCHANGED <<client, l1, late, crashes>>

\* A decoding panic kills the task: its request and the queue go with it.
Panic(b) ==
  /\ worker = "create"
  /\ Panics(b)
  /\ worker' = "dead"
  /\ outcome' = [r \in Requests |->
                   IF client[r] = "accepted" /\ outcome[r] = "none" THEN "lost" ELSE outcome[r]]
  /\ queue' = <<>>
  /\ cur' = NoRequest
  /\ attempt' = 0
  /\ batch' = <<>>
  /\ UNCHANGED <<client, l1, late, crashes>>

-----------------------------------------------------------------------------
(* The environment. *)

\* The daemon completes a broadcast nobody waits for.
LateLands(e) ==
  /\ e \in late
  /\ late' = late \ {e}
  /\ l1' = Append(l1, e)
  /\ UNCHANGED <<acceptVars, worker, cur, attempt, batch, outcome>>

LateDropped(e) ==
  /\ e \in late
  /\ late' = late \ {e}
  /\ UNCHANGED <<acceptVars, worker, cur, attempt, batch, outcome, l1>>

\* The process dies and starts again: nothing is persisted.  Handlers go with
\* their connections, accepted requests are lost, and a broadcast under way may
\* still happen.
Crash ==
  /\ crashes < MaxCrashes
  /\ crashes' = crashes + 1
  /\ client' = [r \in Requests |-> IF client[r] = "fetching" THEN "aborted" ELSE client[r]]
  /\ outcome' = [r \in Requests |->
                   IF client[r] = "accepted" /\ outcome[r] = "none" THEN "lost" ELSE outcome[r]]
  /\ late' = IF worker = "broadcast" THEN late \cup {InHand} ELSE late
  /\ queue' = <<>>
  /\ worker' = "recv"
  /\ cur' = NoRequest
  /\ attempt' = 0
  /\ batch' = <<>>
  /\ UNCHANGED l1

-----------------------------------------------------------------------------
\* A request whose handler runs gets some answer: EL_CALLER's timeout bounds the
\* fetch.
Reply(r) == FeeFetchFails(r) \/ \E network \in NetworkFees : Decide(r, network)

\* Every await of the worker is bounded by a timeout.
WorkerStep ==
  \/ Recv
  \/ \E b \in Batches : Created(b) \/ Panic(b)
  \/ NoFunds \/ BackoffEnds \/ StepFails \/ MineEnds \/ Signed
  \/ \E result \in {"success", "doubtful"} : Broadcast(result)
  \/ BroadcastFails

Next ==
  \/ \E r \in Requests : Submit(r) \/ Abort(r) \/ Reply(r)
  \/ WorkerStep
  \/ \E e \in late : LateLands(e) \/ LateDropped(e)
  \/ Crash

Spec == Init /\ [][Next]_vars

FairSpec == Spec /\ (\A r \in Requests : WF_vars(Reply(r))) /\ WF_vars(WorkerStep)


-----------------------------------------------------------------------------
(* Properties. *)

Unsettled == {r \in Requests : client[r] = "accepted" /\ outcome[r] = "none"}

InQueue(r) == \E i \in 1..Len(queue) : queue[i] = r

\* No request is lost or forged between the handlers, the queue and the worker:
\* a request the client was given a hash for is settled, queued or in the
\* worker's hands, exactly one of them, and nothing else is.
Accounted ==
  /\ \A r \in Requests : r \in Unsettled <=> InQueue(r) \/ r = cur
  /\ \A i, j \in 1..Len(queue) : queue[i] = queue[j] => i = j
  /\ ~InQueue(cur)

\* The "never silent" guarantee where it holds: an accepted request goes without
\* success or alert only when the process restarted or the worker task died.
LossNeedsOutage ==
  (\E r \in Requests : outcome[r] = "lost") => crashes > 0 \/ worker = "dead"

\* What L1 got or may still get belongs to an accepted request whose alert (if
\* any) came from the broadcast call: an alert raised by an earlier step means the
\* transaction never reaches L1, an error reply means it was never queued.
FailureIsFinal ==
  \A e \in {l1[i] : i \in 1..Len(l1)} \cup late :
     client[e.req] = "accepted" /\ outcome[e.req] \notin {"none", "failed"}

\* A request is broadcast at most once, however often creation is retried, the
\* daemon answers late or the process restarts.
AtMostOnce ==
  /\ \A i, j \in 1..Len(l1) : l1[i].req = l1[j].req => i = j
  /\ \A e \in late : \A i \in 1..Len(l1) : l1[i].req # e.req
  /\ \A e, f \in late : e.req = f.req => e = f

\* KIP-21: with enforcement on, every transaction that carries a payload to L1 is
\* on the lane with the mined prefix; staging transactions carry none.
LaneSafety ==
  \A e \in {l1[i] : i \in 1..Len(l1)} \cup late :
     /\ StagingIsBare(e.batch)
     /\ Enforced => \A i \in 1..Len(e.batch) :
                      e.batch[i].payload > 0 => OnLane(e.batch[i])

\* Whatever base fee the network reported, nothing on L1 pays below the
\* operator's protocol minimum, and it is a transaction the decoder accepts.
FeeSafety ==
  \A i \in 1..Len(l1) :
     WellFormed(TxOf[l1[i].req]) /\ MeetsFee(TxOf[l1[i].req], GasFloor)

\* Backpressure: the requests clients hold a hash for and that are not settled
\* fit in the queue and the worker.
BoundedBacklog == Cardinality(Unsettled) <= QueueCapacity + 1

\* No handler gives a hash away once the worker task is dead: clients get -32603
\* until the process restarts.
DeadWorkerAcceptsNothing ==
  [][worker = "dead" /\ worker' = "dead"
       => \A r \in Requests : client'[r] = "accepted" => client[r] = "accepted"]_vars

\* The path implements the contract: FIFO settlement, at most once on L1.
ContractStatus(r) ==
  IF client[r] \in {"new", "fetching"} THEN "open"
  ELSE IF client[r] \in Refusals THEN "refused"
  ELSE IF outcome[r] = "none" THEN "accepted"
  ELSE outcome[r]

Contract == INSTANCE SubmissionContract WITH
  status  <- [r \in Requests |-> ContractStatus(r)],
  backlog <- IF cur = NoRequest THEN queue ELSE <<cur>> \o queue,
  chain   <- [i \in 1..Len(l1) |-> l1[i].req]

ImplementsContract == Contract!Spec

\* Every accepted request is settled, whatever the daemon does: retries end,
\* timeouts fire, and the queue moves on.
AcceptedSettles ==
  \A r \in Requests : client[r] = "accepted" ~> outcome[r] # "none"

\* The claim of the worker's comments, with no outage of the process: a request
\* the client holds a hash for ends in success or in an alert.
NeverSilent ==
  crashes = 0 => \A r \in Requests : outcome[r] # "lost"

=============================================================================
