------------------------------- MODULE Server -------------------------------
(***************************************************************************)
(* The provider from the start of its process to the requests it serves:   *)
(* main's start order, the security settings every request passes, where   *)
(* requests go, the health endpoint, and the slots that limit WebSocket    *)
(* connections.  What happens behind each sink is the matter of the other  *)
(* modules (TxSubmission, GasPrice, WsConnection, Batch).                  *)
(*                                                                         *)
(* The process may be killed at any time and is started again by whoever   *)
(* supervises it, with the same configuration.                             *)
(***************************************************************************)
EXTENDS Config

CONSTANTS
  Clients,            \* who opens WebSocket connections, one at a time
  MAX_WS_CONNECTIONS

ASSUME ClientsAssumption == IsFiniteSet(Clients) /\ MAX_WS_CONNECTIONS \in Nat \ {0}

VARIABLES
  phase,     \* how far main got
  wallet,    \* what main made of the wallet: no caller, or one with or without lane enforcement
  reached,   \* history: the sinks that write methods reached
  answer,    \* the last answer outside WebSockets: whose, and its code
  conn,      \* each client's connection
  reading,   \* the clients that read their sockets
  slots      \* permits left in ws_semaphore

vars == <<raw, phase, wallet, reached, answer, conn, reading, slots>>

-----------------------------------------------------------------------------
(* Methods.  The names stand for the prefixes and rows the code looks at.  *)

Whitelisted == {"eth_sendRawTransaction", "eth_subscribe", "eth_unsubscribe", "eth_gasPrice", "eth_call"}
Writes == {"eth_sendRawTransaction", "eth_sendTransaction", "personal_sign", "admin_addPeer"}
Methods == Whitelisted \cup Writes \cup {"eth_signTransaction"}
Subscriptions == {"eth_subscribe", "eth_unsubscribe"}

\* Codes of answers: 0 is a result, 1 an error of the execution layer passed on.
METHOD_NOT_ALLOWED == -32002
READ_ONLY == -32000
EL_CALL_FAILED == -32000
PARSE_ERROR == -32700
INVALID_REQUEST == -32600

NoAnswer == [to |-> "nobody", code |-> 0]
Codes == {0, 1, 200, 503, METHOD_NOT_ALLOWED, READ_ONLY, PARSE_ERROR, INVALID_REQUEST}

\* Mutant: the whitelist answers for both settings.
WhitelistIsEnough(m) ==
  IF SecurityConfig.enable_whitelist = "true"
  THEN IF m \in Whitelisted THEN 0 ELSE METHOD_NOT_ALLOWED
  ELSE IF is_read_only /\ m \in Writes THEN READ_ONLY ELSE 0

\* validate_request_authorization: 0 lets the request pass.
Refusal(m) ==
  IF SecurityConfig.enable_whitelist = "true" /\ m \notin Whitelisted THEN METHOD_NOT_ALLOWED
  ELSE IF is_read_only /\ m \in Writes THEN READ_ONLY
  ELSE 0

\* route_request_to_service.
Sink(m) == IF m = "eth_sendRawTransaction" THEN "queue" ELSE "el"

\* What send_rpc_request may return: a result, an error object, or a failure
\* to connect, to answer in 30 seconds or to answer in JSON.
ElReplies == {"result", "error", "failed"}

\* forward_to_el, and process_transaction's own refusals for the queue.
Answers(sink) ==
  IF sink = "el"
  THEN {CASE r = "result" -> 0 [] r = "error" -> 1 [] OTHER -> EL_CALL_FAILED : r \in ElReplies}
  ELSE {0, 1}

\* Mutant: the gateway's own status.
HealthGateway(r) == IF r = "result" THEN 200 ELSE 502

\* health_check.
HealthStatus(r) == IF r = "result" THEN 200 ELSE 503

-----------------------------------------------------------------------------
connVars == <<conn, slots>>

Init ==
  /\ raw \in RawConfigs
  /\ phase = "start"
  /\ wallet = "none"
  /\ reached = {}
  /\ answer = NoAnswer
  /\ conn = [c \in Clients |-> "none"]
  /\ reading = Clients
  /\ slots = MAX_WS_CONNECTIONS

\* main up to the wallet: an invalid configuration, or a host that is no IP
\* address, ends the process.  The worker starts here, before the wallet is known.
Load ==
  /\ phase = "start"
  /\ phase' = IF Loads /\ ServerConfig.host = "ip" THEN "wallet" ELSE "exited"
  /\ UNCHANGED <<raw, wallet, reached, answer, reading, connVars>>

\* Read-only: neither the lane nor the wallet is looked at.
SkipWallet ==
  /\ phase = "wallet" /\ is_read_only
  /\ phase' = "bind"
  /\ UNCHANGED <<raw, wallet, reached, answer, reading, connVars>>

ConnectWallet ==
  /\ phase = "wallet" /\ ~is_read_only
  /\ Resolve # "error" /\ (Resolve = "enforced" => EnforcementBuilds)
  /\ wallet' = Resolve
  /\ phase' = "bind"
  /\ UNCHANGED <<raw, reached, answer, reading, connVars>>

\* No daemon, no new address, no password, or a lane that does not resolve.
WalletFails ==
  /\ phase = "wallet" /\ ~is_read_only
  /\ phase' = "exited"
  /\ UNCHANGED <<raw, wallet, reached, answer, reading, connVars>>

\* The listener is bound only when everything a request needs is there.
Bind ==
  /\ phase = "bind"
  /\ phase' = "serving"
  /\ UNCHANGED <<raw, wallet, reached, answer, reading, connVars>>

\* The address is taken, axum::serve fails or the process is killed: its sockets close.
Exit ==
  /\ phase \notin {"start", "exited"}
  /\ phase' = "exited"
  /\ wallet' = "none"
  /\ conn' = [c \in Clients |-> "none"]
  /\ slots' = MAX_WS_CONNECTIONS
  /\ UNCHANGED <<raw, reached, answer, reading>>

Restart ==
  /\ phase = "exited"
  /\ phase' = "start"
  /\ UNCHANGED <<raw, wallet, reached, answer, reading, connVars>>

-----------------------------------------------------------------------------
(* Requests. *)

\* A request that passes the settings goes to its sink.
Passes(m, sink) ==
  /\ Refusal(m) = 0
  /\ reached' = IF m \in Writes THEN reached \cup {sink} ELSE reached

\* POST /, one request or one element of a batch.
HttpRequest(m) ==
  /\ phase = "serving"
  /\ \/ /\ Refusal(m) # 0
        /\ answer' = [to |-> m, code |-> Refusal(m)]
        /\ UNCHANGED reached
     \/ /\ Passes(m, Sink(m))
        /\ \E code \in Answers(Sink(m)) : answer' = [to |-> m, code |-> code]
  /\ UNCHANGED <<raw, phase, wallet, reading, connVars>>

\* POST /, a body that is no envelope: no JSON, or JSON of another shape.
InvalidBody ==
  /\ phase = "serving"
  /\ \E code \in {PARSE_ERROR, INVALID_REQUEST} : answer' = [to |-> "nobody", code |-> code]
  /\ UNCHANGED <<raw, phase, wallet, reached, reading, connVars>>

\* GET /health: asks the execution layer; 503 if it cannot answer or answers an error.
HealthCheck ==
  /\ phase = "serving"
  /\ \E r \in ElReplies : answer' = [to |-> "health", code |-> HealthStatus(r)]
  /\ UNCHANGED <<raw, phase, wallet, reached, reading, connVars>>

\* A single message: subscriptions go to reth's socket, the rest is routed.
WsRequest(c, m) ==
  /\ conn[c] = "open"
  /\ Passes(m, IF m \in Subscriptions THEN "reth" ELSE Sink(m))
  /\ UNCHANGED <<raw, phase, wallet, answer, reading, connVars>>

\* An element of a batch: a subscription is refused, the rest is routed.
WsBatchRequest(c, m) ==
  /\ conn[c] = "open"
  /\ m \notin Subscriptions
  /\ Passes(m, Sink(m))
  /\ UNCHANGED <<raw, phase, wallet, answer, reading, connVars>>

-----------------------------------------------------------------------------
(* Connections.  A connection holds its slot from the upgrade request until *)
(* handle_ws_connection returns.                                            *)

Sockets == {c \in Clients : conn[c] # "none"}
Holders == {c \in Clients : conn[c] \in {"upgrading", "connecting", "open", "flushing"}}

ConnUnchanged == UNCHANGED <<raw, phase, wallet, reached, reading>>
Moves(c, from, to) == conn[c] = from /\ conn' = [conn EXCEPT ![c] = to]

\* GET / with an upgrade; without a free slot the client gets a 503.
Upgrade(c) ==
  /\ phase = "serving" /\ conn[c] = "none"
  /\ IF slots > 0
     THEN Moves(c, "none", "upgrading") /\ slots' = slots - 1 /\ UNCHANGED answer
     ELSE answer' = [to |-> "upgrade", code |-> 503] /\ UNCHANGED connVars
  /\ ConnUnchanged

\* Mutant: the slot is forgotten with the closure that held it.
UpgradeForgets(c) ==
  /\ Moves(c, "upgrading", "none")
  /\ UNCHANGED <<slots, answer>>
  /\ ConnUnchanged

\* The client leaves before the protocol switches: the closure is dropped.
UpgradeFails(c) ==
  /\ Moves(c, "upgrading", "none")
  /\ slots' = slots + 1
  /\ UNCHANGED answer /\ ConnUnchanged

Upgraded(c) ==
  /\ Moves(c, "upgrading", "connecting")
  /\ UNCHANGED <<slots, answer>> /\ ConnUnchanged

Connected(c) ==
  /\ Moves(c, "connecting", "open")
  /\ UNCHANGED <<slots, answer>> /\ ConnUnchanged

\* reth refuses, or 10 seconds pass: the client is told and the task returns.
ConnectFails(c) ==
  /\ Moves(c, "connecting", "none")
  /\ slots' = slots + 1
  /\ UNCHANGED answer /\ ConnUnchanged

\* The main loop ends; the writer is left to empty the channel.
Ends(c) ==
  /\ Moves(c, "open", "flushing")
  /\ UNCHANGED <<slots, answer>> /\ ConnUnchanged

\* The writer is done within WRITER_SHUTDOWN_TIMEOUT.
Flushed(c) ==
  /\ Moves(c, "flushing", "none")
  /\ slots' = slots + 1
  /\ UNCHANGED answer /\ ConnUnchanged

\* The timeout fires: the task returns, the detached writer keeps the socket.
Stalled(c) ==
  /\ c \notin reading
  /\ Moves(c, "flushing", "detached")
  /\ slots' = slots + 1
  /\ UNCHANGED answer /\ ConnUnchanged

\* Mutant: a detached writer waits for more items for ever.
WriterStays(c) == conn[c] = "detached" /\ UNCHANGED vars

\* A detached writer finds the channel closed, or its socket broken.
WriterEnds(c) ==
  /\ Moves(c, "detached", "none")
  /\ UNCHANGED <<slots, answer>> /\ ConnUnchanged

\* A client stops reading its socket, or reads again.
StopReading(c) ==
  /\ c \in reading
  /\ reading' = reading \ {c}
  /\ UNCHANGED <<raw, phase, wallet, reached, answer, connVars>>
ReadAgain(c) ==
  /\ c \notin reading
  /\ reading' = reading \cup {c}
  /\ UNCHANGED <<raw, phase, wallet, reached, answer, connVars>>

Startup == Load \/ SkipWallet \/ ConnectWallet \/ WalletFails \/ Bind \/ Exit \/ Restart

Requests ==
  \/ InvalidBody \/ HealthCheck
  \/ \E m \in Methods : HttpRequest(m) \/ \E c \in Clients : WsRequest(c, m) \/ WsBatchRequest(c, m)

Connections ==
  \E c \in Clients :
    \/ Upgrade(c) \/ UpgradeFails(c) \/ Upgraded(c) \/ Connected(c) \/ ConnectFails(c)
    \/ Ends(c) \/ Flushed(c) \/ Stalled(c) \/ WriterEnds(c) \/ StopReading(c) \/ ReadAgain(c)

Next == Startup \/ Requests \/ Connections

\* The runtime goes on with a writer that can go on.
Spec ==
  /\ Init /\ [][Next]_vars
  /\ \A c \in Clients : WF_vars(c \in reading /\ WriterEnds(c))

-----------------------------------------------------------------------------
(* Properties. *)

\* The variables have their types.
TypeOK ==
  /\ raw \in RawConfigs
  /\ phase \in {"start", "wallet", "bind", "serving", "exited"}
  /\ wallet \in {"none", "enforced", "legacy"}
  /\ reached \subseteq {"queue", "el", "reth"}
  /\ answer \in [to : Methods \cup {"nobody", "health", "upgrade"}, code : Codes]
  /\ conn \in [Clients -> {"none", "upgrading", "connecting", "open", "flushing", "detached"}]
  /\ reading \subseteq Clients
  /\ slots \in 0..MAX_WS_CONNECTIONS

\* No request gets past the settings, by whichever of the three ways it comes in.
\* A read-only deployment writes nowhere, whatever its whitelist, and has no wallet;
\* a whitelist keeps every write but raw transactions from the execution layer; and
\* a process that takes writes has a wallet (checks in config/app.rs, main.rs
\* and routing.rs that must agree).
SettingsHold ==
  /\ is_read_only => reached = {} /\ wallet = "none"
  /\ SecurityConfig.enable_whitelist = "true" => reached \subseteq {"queue"}
  /\ phase = "serving" => (wallet = "none" <=> is_read_only)

\* What the other modules assume of the configuration holds of every process
\* that serves: attempts, fees, prefix and timeouts are in their ranges, the lane
\* is enforced or its enforcement was switched off, and no attempt waits longer than
\* the cap and a quarter, or less than the one before it but for the jitter.
ServesOnlyChecked ==
  phase = "serving" =>
    /\ RetryConfig.max_attempts >= 1
    /\ GasConfig.min_protocol_fee_per_gas_gwei >= 1
    /\ MiningConfig.tx_id_prefix \in 1..HASH_SIZE
    /\ MiningConfig.timeout_seconds >= 1
    /\ el_ws_url.scheme = "ws"
    /\ wallet # "none" => WalletConfig.to_address = "address"
    /\ wallet = "enforced" => ParsesAsLane(LaneConfig.lane_id)
    /\ wallet = "legacy" => LaneConfig.enforcement_disabled = "true"
    /\ \A attempt \in 1..(Width + 2) :
         LET cap == RetryConfig.max_delay_ms
             delay == Delay(attempt)
         IN Jittered(delay) \subseteq 1..(cap + cap \div 4) /\ delay <= Delay(attempt + 1)

\* Every slot is free or held by exactly one connection, however it ended.
SlotsAccounted == slots + Cardinality(Holders) = MAX_WS_CONNECTIONS

\* Detached writers take the number of sockets over the limit (Stalled), but only
\* while clients stop reading: once all read, it returns under the limit again and again.
ExcessDrains == <>[](reading = Clients) => []<>(Cardinality(Sockets) <= MAX_WS_CONNECTIONS)
=============================================================================
