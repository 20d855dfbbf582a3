------------------------------- MODULE Config -------------------------------
(***************************************************************************)
(* What AppConfig::load makes of config.toml and the environment: merging, *)
(* deserialisation, validation, and the operators the rest of the program  *)
(* asks the configuration for.  The server and the entry transaction tool  *)
(* both start from it.                                                     *)
(*                                                                         *)
(* A raw configuration is the set of tables that are there and a partial   *)
(* function from keys <<table, field>> to values.  Texts are members of    *)
(* small sets, a URL is its scheme and port, a lane id its spelling and    *)
(* its four bytes, a prefix its number of bytes; -1 and "malformed" stand  *)
(* for values of the wrong type.                                           *)
(***************************************************************************)
EXTENDS Integers, Sequences, FiniteSets

CONSTANTS
  RawConfigs,   \* the pairs [file, env] the programs may find
  Width         \* bits of the integers the retry delays are computed in

ASSUME WidthAssumption == Width \in Nat \ {0}

\* What these fields hold is a number, -1 if it is none.
NumberFields ==
  ({"proxy"} \X {"timeout_seconds", "max_retries", "retry_delay_ms"})
    \cup ({"retry"} \X {"max_attempts", "initial_delay_ms", "max_delay_ms"})
    \cup {<<"server", "port">>, <<"mining", "timeout_seconds">>, <<"gas", "min_protocol_fee_per_gas_gwei">>}
ASSUME RawConfigsAssumption ==
  \A c \in RawConfigs : \A keys \in {c.file.keys, c.env} : \A field \in NumberFields :
    field \in DOMAIN keys => keys[field] \in Int

VARIABLE raw    \* the pair this deployment has

Limit == (2 ^ Width) - 1
NoUrl == [scheme |-> "", port |-> 0]

\* The environment overrides single keys of the file, and adds their tables.
Tables == raw.file.tables \cup {key[1] : key \in DOMAIN raw.env}
Has(table, field) == <<table, field>> \in DOMAIN raw.env \cup DOMAIN raw.file.keys
Get(table, field, default) ==
  LET key == <<table, field>>
  IN IF key \in DOMAIN raw.env THEN raw.env[key]
     ELSE IF key \in DOMAIN raw.file.keys THEN raw.file.keys[key]
     ELSE default

\* The effective values, with the defaults of the code.
ServerConfig == [host |-> Get("server", "host", ""), port |-> Get("server", "port", 0)]

ProxyConfig == [
  el_url |-> Get("proxy", "el_url", NoUrl),
  el_ws_url |-> Get("proxy", "el_ws_url", NoUrl),
  timeout_seconds |-> Get("proxy", "timeout_seconds", 30),
  max_retries |-> Get("proxy", "max_retries", 3),
  retry_delay_ms |-> Get("proxy", "retry_delay_ms", 1000)]

WalletConfig == [
  wallet_daemon_uri |-> Get("wallet", "wallet_daemon_uri", NoUrl),
  to_address |-> Get("wallet", "to_address", "")]

SecurityConfig == [
  enable_whitelist |-> Get("security", "enable_whitelist", "true"),
  read_only |-> Get("security", "read_only", "false")]

MiningConfig == [
  tx_id_prefix |-> Get("mining", "tx_id_prefix", 2),
  timeout_seconds |-> Get("mining", "timeout_seconds", 10)]

NoLane == [spelling |-> "absent", bytes |-> <<0, 0, 0, 0>>]
LaneConfig == [
  lane_id |-> Get("lane", "lane_id", NoLane),
  enforcement_disabled |-> Get("lane", "enforcement_disabled", "false")]

GasConfig == [
  min_protocol_fee_per_gas_gwei |-> Get("gas", "min_protocol_fee_per_gas_gwei", 100)]

RetryConfig == [
  max_attempts |-> Get("retry", "max_attempts", 3),
  initial_delay_ms |-> Get("retry", "initial_delay_ms", 100),
  max_delay_ms |-> Get("retry", "max_delay_ms", 3000)]

-----------------------------------------------------------------------------
(* Deserialisation. *)

\* A wallet or retry table that is there must be complete.
Complete(table, fields) ==
  table \in Tables => \A f \in fields : Has(table, f)

Flags == {SecurityConfig.enable_whitelist, SecurityConfig.read_only,
          LaneConfig.enforcement_disabled}
Numbers == {
  ServerConfig.port,
  ProxyConfig.timeout_seconds, ProxyConfig.max_retries, ProxyConfig.retry_delay_ms,
  MiningConfig.timeout_seconds,
  GasConfig.min_protocol_fee_per_gas_gwei,
  RetryConfig.max_attempts, RetryConfig.initial_delay_ms, RetryConfig.max_delay_ms}

\* The visitor of tx_id_prefix: 1 to 32 bytes, written as hex digits or as an array.
HASH_SIZE == 32
PrefixParses == MiningConfig.tx_id_prefix \in 1..HASH_SIZE

Deserializes ==
  /\ Has("server", "host") /\ Has("server", "port") /\ Has("proxy", "el_url")
  /\ {"security", "mining"} \subseteq Tables
  /\ Complete("wallet", {"wallet_daemon_uri", "to_address"})
  /\ Complete("retry", {"max_attempts", "initial_delay_ms", "max_delay_ms"})
  /\ Flags \subseteq {"true", "false"}
  /\ \A n \in Numbers : n >= 0
  /\ PrefixParses

-----------------------------------------------------------------------------
(* Validation. *)

ServerValid == ServerConfig.host # "" /\ ServerConfig.port # 0

ProxyValid ==
  /\ ProxyConfig.el_url.scheme \in {"http", "https"}
  /\ ProxyConfig.el_ws_url # NoUrl => ProxyConfig.el_ws_url.scheme = "ws"
  /\ ProxyConfig.timeout_seconds \in 1..300
  /\ ProxyConfig.max_retries <= 10
  /\ ProxyConfig.retry_delay_ms \in 10..10000

WalletValid ==
  /\ WalletConfig.wallet_daemon_uri.scheme \in {"http", "https"}
  /\ WalletConfig.to_address = "address"   \* a Kaspa prefix and 40 characters or more

MiningValid ==
  /\ MiningConfig.tx_id_prefix # 0 /\ MiningConfig.tx_id_prefix <= HASH_SIZE
  /\ MiningConfig.timeout_seconds \in 1..300

\* parse_namespace: four bytes in lower case hex, neither native nor reserved.
ParsesAsLane(id) == id.spelling = "hex" /\ \E i \in 2..4 : id.bytes[i] # 0

\* LaneConfig::resolve; an unparsable id is an error even if enforcement is disabled.
Resolve ==
  IF LaneConfig.lane_id.spelling \in {"absent", "empty"}
  THEN IF LaneConfig.enforcement_disabled = "true" THEN "legacy" ELSE "error"
  ELSE IF ParsesAsLane(LaneConfig.lane_id) THEN "enforced" ELSE "error"

GasValid == GasConfig.min_protocol_fee_per_gas_gwei \in 1..10000

RetryValid ==
  /\ RetryConfig.max_attempts # 0 /\ RetryConfig.initial_delay_ms # 0
  /\ RetryConfig.max_delay_ms >= RetryConfig.initial_delay_ms

is_read_only == SecurityConfig.read_only = "true"

\* Mutant: the retry table is never looked at.
ValidatesNoRetry ==
  /\ ServerValid /\ ProxyValid /\ MiningValid /\ GasValid
  /\ is_read_only \/ (WalletValid /\ Resolve # "error")

\* validate_config: a read-only deployment needs no wallet and no lane.
Validates ==
  /\ ServerValid
  /\ ProxyValid
  /\ is_read_only \/ WalletValid
  /\ MiningValid
  /\ is_read_only \/ Resolve # "error"
  /\ GasValid
  /\ RetryValid

Loads == Deserializes /\ Validates

\* LaneEnforcement::new refuses the empty prefix, which would match every id.
EnforcementBuilds == MiningConfig.tx_id_prefix # 0

-----------------------------------------------------------------------------
(* What the program asks a loaded configuration for. *)

\* The WebSocket URL of the execution layer: never TLS, port 8545 becomes 8546.
el_ws_url ==
  IF ProxyConfig.el_ws_url # NoUrl THEN ProxyConfig.el_ws_url
  ELSE LET port == ProxyConfig.el_url.port
       IN [scheme |-> "ws", port |-> IF port = 8545 THEN 8546 ELSE port]

Saturated(n) == IF n > Limit THEN Limit ELSE n
Least(a, b) == IF a < b THEN a ELSE b

\* Mutant: the shift is not limited, so 1 << shift wraps round.
DelayWraps(attempt) ==
  IF attempt = 0 THEN 0
  ELSE Least(Saturated(RetryConfig.initial_delay_ms * (2 ^ ((attempt - 1) % Width))),
             RetryConfig.max_delay_ms)

\* calculate_delay_ms: doubles with every attempt up to max_delay_ms.
Delay(attempt) ==
  IF attempt = 0 THEN 0
  ELSE Least(Saturated(RetryConfig.initial_delay_ms * (2 ^ Least(attempt - 1, Width - 1))),
             RetryConfig.max_delay_ms)

\* add_jitter: a quarter at most, none if the product overflows.
Jitter(delay, percent) == IF delay * percent > Limit THEN 0 ELSE (delay * percent) \div 100
Jittered(delay) ==
  {Saturated(delay + Jitter(delay, p)) : p \in 0..25}
    \cup {delay - Jitter(delay, p) : p \in 1..25}
=============================================================================
