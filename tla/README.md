# Verification of igra-rpc-provider

TLA+ models of the IGRA RPC provider, model-checked with TLC and proved about with
TLAPS. The provider stands between L2 wallets, the execution layer (EL, a reth node)
and a Kaspa wallet daemon: it proxies reads to the EL and turns
`eth_sendRawTransaction` into Kaspa L1 transactions. Paths below are relative to
`src/src/` of the repository, unless they start with `src/`.

- [The system](#the-system): components, state, interactions, hazards
- [The modules](#the-modules): what models what
- [The runs](#the-runs): what TLC checks, at which bounds
- [Fairness](#fairness)
- [The proofs](#the-proofs)
- [What the models found](#what-the-models-found)
- [What is not modelled](#what-is-not-modelled)
- [What is left](#what-is-left)

## The system

| Component | Files | State | Operations | What is hard |
|---|---|---|---|---|
| Submission path | `services/transaction.rs`, `clients/wallet_caller.rs`, `services/lane.rs`, `types/wallet.rs` | the mpsc queue (1024 places), the worker task and its flow | validate and enqueue; create, check, mine, sign, broadcast | the client is answered before anything reaches L1; one worker; retries, timeouts, late broadcasts, a panic, restarts |
| Nonce mining | `services/mining.rs` | a search on the blocking pool | `mine_transaction`, the nonce loop, its fallbacks | searches cannot be cancelled and outlive their call; nonce overflow; fallbacks that take money from outputs |
| WebSocket connection | `api/ws.rs` | 64 permits, a channel of 256 places, the set of tasks, reth's connection; 1024 slots shared by all connections | upgrade, read a frame, call, batch, subscribe, relay, write, close | four kinds of task around one bounded channel to a client that may stall or vanish anywhere; a slot must come back however a connection ends |
| HTTP endpoint | `api/rpc.rs` | none | single and batch requests | order within a batch |
| Base-fee cache, oracle flooring | `services/gas_price.rs`, `services/proxy.rs` | one cached fee behind a lock | get the fee; floor the oracle answers | concurrent fetches, answers out of order, staleness |
| EL client | `clients/el_caller.rs` | a connection pool | one call, 30 s timeout | nothing of its own |
| Routing, whitelist | `api/routing.rs`, `types/whitelist.rs` | none | authorise, route | every way in must ask it |
| Configuration, startup | `config/*`, `main.rs`, `lib.rs` | constants | merge, validate, start in order | read-only mode skips what only submission needs; checks in several places must agree |
| Health | `api/health.rs` | none | ask the EL | does not look at the worker |
| Entry transaction tool | `services/entry_transaction.rs`, `bin/entry_transaction_sender.rs` | one flow | one wallet flow in its own process | its exit code is all a script sees; the daemon may act after it gave up |
| Log analyser | `tools/tx_perf/*`, `bin/tx_perf.rs` | windows, counters, histograms | read, parse, aggregate, print | a reader thread that blocks, ticks, signals, the end of the input |
| Errors, RPC types | `error.rs`, `errors/*`, `types/rpc.rs` | none | conversions | |
| Uncompiled | `services/gas_manager.rs`, `services/transaction_processor.rs` | | | declared by no module |

How they interact. `main` loads the configuration, starts the worker, connects the
wallet unless the deployment is read-only, and only then binds its port. An HTTP handler
or a WebSocket task calls `route_and_process`, which asks the two security settings;
`eth_sendRawTransaction` goes on to `process_transaction`, which asks the fee cache (and
through it the EL) for the base fee and hands the request to the queue with `try_send`.
From there on the client is out of the picture: the worker takes one request at a time
and drives the wallet daemon over gRPC; its only way to report is a log alert.
Everything else is forwarded to the EL, some oracle answers raised to the fee floor on
the way back. WebSocket subscriptions go through a connection to reth of their own. The
entry tool runs the same wallet flow, miner and configuration in a process of its own;
`tx_perf` reads what the provider logs.

The correctness of each part, in one line each, is what the properties state:

- *Submission*: a hash given away leads to exactly one settlement, at most one
  broadcast, and none after an alert of an earlier step; the backlog is bounded; what
  reaches L1 is on the lane and pays the floor; only outages lose requests.
- *Mining*: it gives up only when everything was tried, spends outputs only when it
  must, and never holds the worker.
- *WebSocket*: permits, slots and replies are conserved, reth's messages keep their
  order, memory is bounded, every task ends, closing ends, sockets over the limit drain.
- *Batches*: the window is respected and kept full, every answer is at its place,
  nothing runs twice.
- *Fees*: the fee checked is a real one of bounded age, and following the provider's
  own advice is never refused in a calm network.
- *Settings*: no way in gets past them, and what serves was checked.
- *Entry tool*: the exit code tells what happened on L1; what is locked stays within the
  fallbacks of what L2 is told.
- *tx_perf*: the summaries count every line once, and the tool ends if its input does.

The hazards behind them, each at its line, are in `PROJECT.json`.

## The modules

| Module | Models | Role |
|---|---|---|
| `FeeRules` | fee demands of the accept path, the two floors | operators shared by `TxSubmission` and `GasPrice` |
| `TxSubmission` | accept path, queue, worker, wallet flow, lane gates, restarts | core |
| `SubmissionContract` | what the path promises a client | abstract specification of `TxSubmission` |
| `Mining` | `services/mining.rs` | inside of the core's `mine` |
| `OutputVariance` | the fallback on nonce exhaustion | shared by `Mining` and `EntryTool` |
| `WsConnection` | one connection of `api/ws.rs` | inside of `Server`'s `open` and `flushing` |
| `WsContract` | what a connection promises its client | abstract specification of `WsConnection` |
| `Batch` | the requests of one batch, HTTP or WebSocket | inside of one `running` task of `WsConnection` |
| `GasPrice` | the fee cache | inside of the core's `fetching` |
| `Config` | `AppConfig::load`, its validators, the retry delays | shared by `Server` and `EntryTool` |
| `Server` | `main`'s start order, settings, routing, health, connection slots, restarts | around all the above |
| `EntryTool` | one run of `entry_transaction_sender` | |
| `TxPerf` | `tx_perf` | |
| `MC*` | constants' values for TLC | |
| `*_proofs` | theorems | |

Throughout, **an await of the code is a state, and the code between two awaits is one
action**: that is exactly where tokio can interleave tasks. Operators whose comment
starts with "Mutant" are not part of a specification: each is a plausible wrong
version of the definition that follows it, kept to show which property notices it.

### TxSubmission

`client[r]` follows `process_transaction`: `fetching` is its one await, the base-fee
fetch; every other value is the answer. `Decide` is the rest of the handler up to
`try_send`, with no await inside, so the checks and the enqueueing are one step.
"accepted" means that the handler answered with a hash (the reply may still be lost
with its connection). `Abort` is a handler dropped at its await: the WebSocket clean-up
calls `abort_all`, and HTTP handlers go with their connection.

`worker` is the await the single task of `start_transaction_processor` is suspended
at: `recv`, the daemon calls `create`, `sign`, `broadcast`, the retry's `backoff`, the
miner, or `dead`. `Created` is everything between the daemon's answer and the miner
(the checks that staging transactions are bare, the decoding, the pre-mining gate);
`MineEnds` has the pre-broadcast gate. `Panic` is the decoder's `from_slice` or
indexing on a malformed answer (an outpoint id that is not 32 bytes, fewer entries
than inputs): it unwinds the only worker, and the queue with it. A broadcast that
times out or fails stays in `late`: the daemon may complete it at any later time. A
`Crash` restarts the process with nothing persisted.

Transactions are abstracted to what the flow tells apart: for L2 ones whether they
decode, their type and fees; for L1 ones how they decode, version, subnetwork, payload
length and whether the id has the prefix. Assumed of the daemon: `sign` returns the
transactions it was given. The fee a handler gets is any network fee, floored;
`GasPrice` says which. The gate after mining cannot fail in the model, as in the code:
it is defence in depth, and the proof shows it is never needed
(`MiningPassesGate`).

`SubmissionContract` has no queue or worker: requests are refused or accepted,
accepted ones are settled one at a time in the order they were accepted, and appear on
L1 at most once, never after a refusal or a plain failure. The refinement maps the
worker's request and the queue to the backlog.

### Mining and OutputVariance

`mine_transaction` moves the transaction into a `spawn_blocking` closure and waits
with a timeout. `answer[c]` is the call, `search[c]` the closure; `TimeOut` changes
only the former, because a blocking closure cannot be cancelled. The worker makes one
call after the other (`Start`), so several searches exist only because earlier calls
timed out. The hash is a function nobody knows: a candidate hits or misses
nondeterministically, but one that missed misses again (`missed`). `Lower` is the
fallback on nonce overflow. `missed` doubles as the history of what was hashed. The
closure cannot panic, so the `JoinError` branch is left out. The pool's FIFO order and
its threads are tokio's.

### WsConnection and Batch

One connection: `main` is the handler's own task, `msg[m]` the task spawned for frame
`m`, `relay` and `writer` the two permanent ones, and `channel` the mpsc between them
and the client. `hand` is what the writer has taken and not written. A task that was
aborted stops at its next await, so a step under way may still finish: `Aborted` lets
each task go on or be cancelled. What a request computes is not modelled here; that it
takes time, panics or is cancelled is.

`WsContract` has no task, channel or permit: a line that goes up and down, what was
delivered, and for each frame whether it is open, pending, answered or given up. A frame
is answered once, by its delivery, and never after it was given up; the messages of the
subscriptions come in order and without a gap, anywhere between the answers. The
refinement maps a reply on its way to a frame that is still pending, which goes silent if
the writer ends first.

`Batch` opens up one batch: `buffer_unordered` with the reserved permits as its window
for a WebSocket, one at a time for HTTP (the same algorithm with a window of one), the
sort by index that only the WebSocket path has (HTTP answers as it goes), and a batch
dropped half-way.

### GasPrice

`cache` is the entry behind the lock; handlers find it fresh (`Hit`) or fetch
(`Miss`, `Reads`, `Arrives`, `Fails`). Nothing joins concurrent fetches and the last
answer to arrive wins, with a fresh stamp. The model carries with each fee the tick it
was read at, which the code does not, to say how old a fee can get.

### Config

`raw` is the pair of a `config.toml` and the environment. `Get` is the merge (the
environment overrides single keys and adds their tables) with the code's defaults;
`Deserializes` has the required fields and types (a `[wallet]` or `[retry]` table that is
there must be complete, and a single environment variable makes it "there"),
`Validates` every validator in `validate_config`, read-only exceptions included.
Texts are abstracted to the classes the validators tell apart: a URL is its scheme and
port, a lane id its spelling and bytes, an address good or not. `Delay` and `Jittered`
are the arithmetic of `config/retry.rs` with its widths: the shift limited to the width,
the saturating product, the cap, the checked jitter.

### Server

`phase` is how far `main` got: `Load`, then `SkipWallet` or `ConnectWallet` or
`WalletFails`, then `Bind`. `Exit` is any end of the process, and `Restart` its
supervisor. Requests are stateless, so `HttpRequest`, `WsRequest` and `WsBatchRequest`
are one step each, from authorisation to the sink; `reached` remembers which sinks write
methods reached, `answer` the last answer's code. `conn[c]` is a connection from its
upgrade to its end, and `slots` the semaphore's permits: the slot travels with the
upgrade's closure and the connection's task, so each action that ends one of them
returns it. After `WRITER_SHUTDOWN_TIMEOUT` the writer is detached and keeps the socket
without a slot (`Stalled`).

### EntryTool

`step` is what the tool does next, from `Validate` to `Broadcast`; `exit` its exit code
once it ended. `outputs` and `payee` are the transaction and the output in it that
locks, wherever the daemon put it. `Exhaust` is the miner's fallback on all outputs in
turn. The daemon may act on the broadcast before, after or instead of answering
(`Lands`, `Dropped`, `Unanswered`). The wallet flow is the server's
(`clients/wallet_caller.rs`), run on the tool's main thread and seen through its exit
code: the errors `TxSubmission` tells apart all exit with 3. The tool prints before it
exits, and `println!` and `eprintln!` panic on a closed or full output: whatever was to be
reported, the exit code may be 101 instead (`Reports`), after the broadcast landed too.
`--help` and `--version` exit with 0 (`ShowHelp`).

### TxPerf

`source` is where the lines come from: a file read to its end, a file followed, or stdin,
where `--follow` is ignored and only the other end of the pipe makes an end (`Close`).
`input`, `channel` and `reader` are the reader and its channel; it ends at an end of the
input, at a read that fails, or at a line that nobody takes any more. `main` is the
select loop, in which a tick that is ready goes before a line (`biased`); a summary that
cannot be printed panics (`PrintFails`). Either end of the loop waits for the reader: the
code awaits it, and after a panic tokio's runtime waits for its blocking thread. A line is the
statement that wrote it, its number and its unit; `Parse` has the order in which the
parser tries things. `samples` are the four windows, `counts`, `hist` and `slowest` the
cumulative metrics. The heap of the slowest is kept as the sequence of its elements in
order, the one it gives up first in front; `received` is the history, by what a line
parsed to.

## The runs

| Run | Config | Shows |
|---|---|---|
| `submission_safety` | `TxSubmission_safety.cfg` | custody, at most once, losses only by outage, lane, refinement of the contract |
| `submission_live` | `TxSubmission_live.cfg` | the fee floor at every fee around it; accepted requests are settled |
| `never_silent` | `TxSubmission_never_silent.cfg` | violation: a decoding panic silences the worker |
| `ws` | `WsConnection.cfg` | permits, replies, bounded memory, refinement of the contract; tasks end, the loop advances, closing ends, an idle reader is closed |
| `ws_idle` | `WsConnection_idle.cfg` | violation: an idle client that does not read is never closed |
| `batch` | `Batch.cfg` | window, order, completeness of a batch |
| `gas_price` | `GasPrice.cfg` | age of the fee, advice |
| `mining` | `Mining.cfg` | exhaustive search, money, every call answered, abandoned searches end |
| `server` | `Server.cfg` | settings on every way in, only checked configurations serve, slots, excess sockets drain |
| `entry_tool` | `EntryTool.cfg` | what the exit code tells and what it leaves open, how far the locked amount can be off |
| `entry_locked` | `EntryTool_locked.cfg` | violation: the locked amount is not the minted one |
| `tx_perf` | `TxPerf.cfg` | every line is counted once and in place; the tool ends if its input does, unless its reader is stuck |

Bounds, and why they are enough:

- **submission_safety**: four requests against a queue of two: the worker holds one,
  two wait, the fourth meets a full queue; two attempts, so both a retry and the last
  attempt; any daemon answer of `MCTxSubmission` (each check of the flow fails on
  exactly one of them, besides good, empty and panicking ones, and staging before the
  payload); one restart, hence a life before and after. Requests are interchangeable,
  which makes the symmetry sound (no liveness is checked there).
- **submission_live**: enforcement off, one transaction for each way the fee rules can
  treat it, base fees on both sides of the floor; two attempts, a queue of one, a panic
  and a restart; no symmetry.
- **ws**: two permits against a batch of three and a call (the batch wants more than
  there is), a subscription and a bad frame; a channel with room for one, the smallest
  that shows every wait; two reth messages for order. A frame the settings refuse
  (`denied`) is treated by code and model as `invalid`.
- **batch**: all lengths up to twice the largest window.
- **gas_price**: two handlers that call again and again, an entry that lives one tick,
  fetches of up to two, so an answer can be older than the entry it overwrites; fees
  on both sides of the floor.
- **mining**: two calls over one thread, so the second can starve behind the first;
  three nonces (first, middle, last), the code's three fallbacks, and output lists that
  are empty, run dry, or pay exactly.
- **server**: thirteen configurations: five that serve (enforced with and without a
  whitelist, enforcement off, read-only with and without a whitelist, the last with a
  lane that would not resolve), eight that fail at one check each; all write prefixes and
  whitelist rows the code treats differently; two clients for one slot, which is the
  smallest excess; integers of ten bits, so that both the cap and the saturation of the
  retry delay are reached within the attempts looked at.
- **entry_tool**: amounts below, at and above both limits, change of nothing and of
  more than the fallbacks take, before and after the payment, the code's three fallbacks;
  five configurations, one of which is read-only with a lane and has no wallet.
- **tx_perf**: three lines out of six (numbers inside and outside the histogram's range,
  a unit that does not parse, a mining line that reports no success), from each of the three
  sources, a channel of one, a window of one interval and a clock of two, so that samples expire; two slowest of three.

Deadlock checking is off where the system may stop (finitely many requests, frames,
calls or lines, or a tool that has exited); it is on for `Server`, which runs for ever.

## Fairness

- **TxSubmission** `FairSpec`: a handler at its fetch gets an answer or an error (the
  EL client has a 30 s timeout), and the worker's current await ends: each daemon call
  is under `timeout(GRPC_TIMEOUT_SECS)`, mining under its own timeout, back-off is a
  bounded sleep, `recv` returns when the queue is not empty. Nothing is assumed of
  late broadcasts, clients or restarts.
- **WsConnection** `FairSpec`: the runtime runs tasks that can run, reth takes what is
  written to it or its connection breaks, timers fire. Nothing is assumed of the client:
  the properties that need it to read or go away say so (`ClientFair` in their
  hypothesis), `ClosingEnds` does not. Weak fairness is enough although several tasks
  compete for the channel, since tokio's channel is FIFO and each task sends once.
- **Mining** `FairSpec`: the runtime polls the waiting call and its timer. That the
  pool's threads run is the hypothesis of `AbandonedSearchEnds` only.
- **Server**: a detached writer whose client reads goes on. Nothing is assumed of clients
  (`ExcessDrains` has them read in its hypothesis), of restarts, or of the other tasks.
- **TxPerf**: its two tasks run. Nothing is assumed of the provider that writes the log
  or of the pipe, which need never be closed (`EndsUnlessStuck` has the end of the input
  in its hypothesis), of reads that fail, of the operator, or of time.

## The proofs

Every theorem holds for all values of the constants that satisfy the named
assumptions of the modules (finite sets of requests, positive limits, and so on; no
assumption restricts what the daemon or the network may answer beyond its type, nor what
a configuration or a log may hold: `RawConfigsAssumption` says that a field read as a
number is represented by an integer, -1 if it is none, and `LinesAssumption` that a
line's number is natural). Every invariant that a passing run checks is stated by one.

**TxSubmission_proofs**, in layers, each using the ones before:

1. `TypeInv`: `TypeOK`, plus that a back-off is only entered below the last attempt and
   that a request is in hand exactly when the worker is busy. Without these the attempt
   counter and the broadcast entries would leave their types. Gives `TypeCorrect`.
2. `Custody`: `Accounted`, plus that only accepted requests have an outcome and that a
   dead worker's queue is empty. Gives `RequestsAccounted`, `LossOnlyByOutage`,
   `DeadWorkerRefuses`.
3. `Chain`: `FailureIsFinal` and `AtMostOnce` together. The request in hand is accepted
   and unsettled by layer 2, everything on L1 or late is settled, so appending it
   cannot repeat a request; answers and outcomes are final. Gives `FailuresStayOffL1`,
   `BroadcastAtMostOnce`.
4. `LaneInv`: what is between the gates and the broadcast already satisfies them, and
   mining preserves it. Gives `LaneEnforcementHolds`.
5. `FeeChecked`: accepted requests pay the floor; L1 follows by layer 3. Gives
   `FloorHolds`.
6. `QueueBounded`, and that the unsettled requests are the elements of the queue and the
   one in hand: `BacklogIsBounded`.

Its last part proves `RefinesContract`: `Spec => ImplementsContract`, one
lemma per kind of step. It needs layers 1 to 3 and `LateUnknown`: a broadcast nobody
waits for belongs to a request whose outcome is doubtful or lost, the only ones the
contract lets straggle onto L1.

**WsConnection_proofs**, again in layers:

1. `Shape`: `TypeOK` without the permits, with the relations between the program
   counters that the other layers need (which frame the loop has in hand, when the writer
   can still run).
2. `Replies`: `RepliesAccounted` plus what is in the writer's hand. The pipeline (what
   the client has, the hand, the channel) is one sequence: the writer's steps leave it as
   it is, only a send appends to it, and a send is of something new. Gives `NoReplyLost`.
3. `Order`: the reth messages in the pipeline are numbered like their places, and are
   exactly the ones sent so far while the relay runs. Appending the next number keeps
   it; a relay that ended sends nothing more. Gives `RelayKeepsOrder`, which is about what
   is on its way, too; the run checks it of what was delivered, as part of the contract.
4. `PermitsInv`: the permits held are the disjoint union of one block per live task
   (`BlockSize`, `HeldMoves`), so a task that starts or ends, however it ends, moves
   its block (`NoPermitLost`), and `free` stays a natural number (`TypeCorrect`). The
   tasks that hold a reply are live and hold a permit each, which bounds the output
   (`OutputIsBounded`).
5. `RefinesContract`: `Spec => ImplementsContract`, from layers 1 to 3. A frame's
   status moves with it (`FrameRefines`); a write is an answer, because the pipeline has
   no second reply to the frame (`AnswerRefines`), or the next of reth's messages,
   because those before it in the pipeline are the ones delivered (`RelayRefines`); the
   writer's end is the line's (`FallRefines`).

**Batch_proofs**: the invariant adds to `TypeOK` that everything below `next` is running
or completed, each once (`Admitted`), and the counts that follow (`Counted`). Gives
`TypeCorrect`, `WindowNeverExceeded`, `WindowStaysFull`, `NothingTwice`,
`HttpBatchInOrder`. `AnswersInPlace` needs the two halves apart: over HTTP the completed
requests are the first ones in order, over a WebSocket any permutation of them, which the
sort puts in its only order (`SortedInPlace`).

**GasPrice_proofs**: `CacheIsReal` and `FetchIsReal` bound the age of what is in the
cache and under way; `FeesAreRecent` adds the two bounds, and `AdviceHolds` follows from
it with the definition of the two floors. Also `TypeCorrect`.

**Mining_proofs**: what a search has hashed is every variant below its fallback count and
every nonce below its own (`Progress`). `VariantStep` relates the code's in-place
decrement (`Lower`) to the closed form of the specification (`Variant`), by counting the
turns of an output. Gives `TypeCorrect`, `NothingLeftUntried` and `MoneySpentLast`.

**Server_proofs**: `WalletKnown` says at each phase what the wallet is, and
`SinksAllowed` which sinks the settings leave to write methods; together they are
inductive because `raw` never changes and every way in goes through `Refusal`. Gives
`SettingsAreKept`. `SlotsInv` counts the holders by state (`NoSlotIsLost`); with it
`slots` keeps its type (`TypeCorrect`). `OnlyCheckedServes` has two halves. `LoadedInv`
carries the outcome of `Load` to the phases after it: what serves loads, and its wallet is
what the lane resolved to. The rest is what the validators are worth: for a retry table
they let through, delays are positive, capped and never shrink from one attempt to the
next, for any width of the integers (`DelaysGrow`, over `PowersOfTwo`, which counts
subsets because there is no induction to do it with), and jitter adds a quarter of the
cap at most and never takes everything (`JitterIsBounded`).

**EntryTool_proofs**: `Outcome` orders the steps against the daemon's: nothing is asked
of it before the broadcast, and 1 and 2 are exit codes of the steps before it, so nothing
can be on L1 at such an exit; 0 is given before an amount was accepted, or after an answer
with ids. Gives `ExitCodeIsTruthful`. `Money` says what the fallbacks took from the output that locks
(`Taken`, by its turns among one or two outputs) and that there was always a unit to take
because the amount is at least `Fallbacks`. Gives `LockedAmountIsClose`. `Rest` bounds
the attempts by the retry table, which a tool that got past `Load` has validated
(`AttemptsAllowed`): `TypeCorrect`.

**TxPerf_proofs**: `Inv` says of each summary what it keeps of the history. A window is
the latest samples, and what it gave up is expired, because time only grows
(`LatestAppends`, `LatestShrinks`, `PurgeTakesExpired`). The heap ascends and is the
image of an injection into the history that leaves out nothing larger than its smallest
element, and nothing at all while there is room (`InsertedAscends`, `PushKeeps`);
without the order, giving up the head would not be giving up the smallest. A histogram
has never shrunk its range below the one it started with, so what never left that range is
all held (`RecordedKeeps`). Gives `SummariesAreRight`.

Only model-checked: all liveness (`AcceptedSettles`, `TasksEnd`, `MainLoopAdvances`,
`ClosingEnds`, `IdleReaderIsClosed`, `CallIsAnswered`, `AbandonedSearchEnds`,
`ExcessDrains`, `EndsUnlessStuck`), which is out of the prover's reach, and the three
violations.

## What the models found

- **`NeverSilent`** (`services/transaction.rs:161`): a malformed daemon answer panics in
  `types/wallet.rs:120` and ends the only worker task. Nothing joins or restarts it: the
  request in hand and the queued ones get neither success nor alert, and every later
  submission is refused until a restart. `LossNeedsOutage` and
  `DeadWorkerAcceptsNothing` state what remains true.
- **`IdleClientIsClosed`** (`api/ws.rs:34`): the idle timeout covers only the read. A
  client that stops reading fills the channel, the loop waits in `send_value` without a
  timeout, and the connection and its slot stay. `IdleReaderIsClosed` states where the
  claim holds.
- **`LockedEqualsMinted`** (`bin/entry_transaction_sender.rs:5`): the miner's fallback
  takes units from the outputs in turn, the one that locks included, and the payload
  still names the amount asked for. `LockedWithinFallbacks` states how close they stay:
  two units at most when there is change, three when there is none.

Smaller differences between text and code, met while translating; no run is about them:

- `src/README.md:56`: a hash is returned only if "the transaction gets submitted". It is
  returned when the request is queued; `SubmissionContract` states what that is worth.
- `src/README.md`'s table of environment variables gives defaults as if the environment
  were enough; `config.toml` is required. One variable of `[retry]` or `[wallet]` without
  the others makes loading fail.
- `src/config.toml:23` gives "0-300" for the mining timeout; zero is refused.
- `ProxyConfig`'s `timeout_seconds`, `max_retries` and `retry_delay_ms` are validated and
  used by nothing: `clients/el_caller.rs` has a fixed timeout of 30 s and no retry.
- `api/ws.rs:25` calls `MAX_WS_CONNECTIONS` the maximum of concurrent connections;
  detached writers keep their sockets beyond it (`Stalled`, `ExcessDrains`).
- A WebSocket frame that is no request is answered with -32700 whatever is wrong with
  it; HTTP tells -32700 from -32600.
- `bin/entry_transaction_sender.rs:24` gives exit code 2 for "wallet connection setup";
  that failure exits with 3, and usage errors with 2. The example of 0.00000001 KAS in
  its help and in `src/doc/entry-transaction-cli.md` is below the minimum of 1 KAS. The
  tool submits in a read-only configuration too. `src/doc/entry-transaction-cli.md:108`
  lists the exit codes without 101, with which the tool also exits if a transaction landed
  and its success could not be printed.
- `MiningStats.nonces_tried` is the winning nonce, not the number of tries.
- `tx_perf`: any line with a mining duration counts as a success, errors and progress
  included, and one transaction may count three times; a reading in ns is dropped, since
  the unit `s` is tried first; a "queue full" line's capacity is recorded as the capacity
  available; a histogram out of range is replaced and what it held is lost
  (`tools/tx_perf/metrics.rs:318` says it is kept); the last summary is printed without a
  purge; `bin/tx_perf.rs:398` says lines are dropped when the channel is full, but the
  reader blocks. After a signal the tool prints its last summary and waits for its reader
  (`bin/tx_perf.rs:331`): until the input ends or a read fails, be it quiet (`Quiet`), and
  for ever once the channel is full (`Stuck`). A SIGTERM to `tx_perf` alone in
  `docker logs -f | tx_perf` does not end it.

## What is not modelled

Formatting, parsing and texts (RLP, protobuf, hex, JSON-RPC envelopes, errors, logs,
metrics, percentiles and tables of `tx_perf`) except where a property is about them; the
crates and services the provider uses (tokio, axum, tonic, reth, the wallet daemon, L1),
which appear as the environment's choices; the serialisation types of `types/rpc.rs`; the
wallet simulator, which is a stand-in for an external service; the uncompiled
`services/gas_manager.rs` and `services/transaction_processor.rs`, and
`services/wallet_service.rs`, which no binary calls. Wei amounts are integers without a
width: the code uses 256-bit numbers and the largest configurable floor is 10^13 wei.
A retry's wait is an await of any length in `TxSubmission` and `EntryTool`; its
arithmetic is in `Config`. A restart in `TxSubmission` keeps no memory of the fee cache,
which refills by itself. `Server` serves one request at a time and shows where it may go;
what happens there is the matter of the other modules, which do not share state with it
beyond the settings.

## What is left

The composition of `Server` with `TxSubmission` (a health check that stays green while
the worker is dead is visible in both, stated in neither); a promise for a client whose
reth connection was closed (`api/ws.rs:150`), which the code does not make.
