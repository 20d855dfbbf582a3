---------------------------- MODULE Server_proofs ----------------------------
(* The settings hold for every request and every connection slot is          *)
(* accounted for, for every configuration, set of clients and limit.         *)
EXTENDS Server, FiniteSetTheorems, TLAPS

\* The wallet is there from the moment the listener may be bound.
WalletKnown ==
  /\ is_read_only => wallet = "none"
  /\ phase \in {"bind", "serving"} => (wallet = "none" <=> is_read_only)

\* What the settings let through.
SinksAllowed ==
  /\ is_read_only => reached = {}
  /\ SecurityConfig.enable_whitelist = "true" => reached \subseteq {"queue"}

SettingsInv == WalletKnown /\ SinksAllowed

\* A configuration is read once.
LEMMA SettingsStay ==
  UNCHANGED raw => (is_read_only' <=> is_read_only) /\ SecurityConfig' = SecurityConfig
BY DEF is_read_only, SecurityConfig, Get

\* A lane resolves to enforcement, to legacy mode or to an error.
LEMMA Resolutions == Resolve \in {"legacy", "enforced", "error"}
BY DEF Resolve

\* What the gate lets pass: no write of a read-only deployment, no write but a raw
\* transaction under a whitelist.
LEMMA GatePasses ==
  ASSUME NEW m, Refusal(m) = 0
  PROVE  /\ is_read_only => m \notin Writes
         /\ SecurityConfig.enable_whitelist = "true" /\ m \in Writes => m = "eth_sendRawTransaction"
BY DEF Refusal, METHOD_NOT_ALLOWED, READ_ONLY, Writes, Whitelisted

\* A request that passes keeps the sinks allowed, by whichever way it came in.
LEMMA PassKeepsSinks ==
  ASSUME NEW m, NEW sink, Passes(m, sink), SinksAllowed, UNCHANGED raw,
         m = "eth_sendRawTransaction" => sink = "queue"
  PROVE  SinksAllowed'
<1>1. /\ is_read_only => m \notin Writes
      /\ SecurityConfig.enable_whitelist = "true" /\ m \in Writes => m = "eth_sendRawTransaction"
  BY GatePasses DEF Passes
<1>2. reached' = IF m \in Writes THEN reached \cup {sink} ELSE reached
  BY DEF Passes
<1> QED
  BY <1>1, <1>2, SettingsStay DEF SinksAllowed

\* What is true at the start.
LEMMA SettingsStart == Init => SettingsInv
BY DEF Init, SettingsInv, WalletKnown, SinksAllowed

\* Only the start-up changes the wallet, only requests reach sinks.
LEMMA SettingsStep == SettingsInv /\ [Next]_vars => SettingsInv'
<1> SUFFICES ASSUME SettingsInv, [Next]_vars PROVE SettingsInv'
  OBVIOUS
<1> USE SettingsStay DEF SettingsInv, connVars
<1>1. UNCHANGED <<raw, reached>> => SinksAllowed'
  BY DEF SinksAllowed
<1>2. UNCHANGED <<raw, phase, wallet>> => WalletKnown'
  BY DEF WalletKnown
<1>3. CASE Load
  BY <1>1, <1>3 DEF Load, WalletKnown
<1>4. CASE SkipWallet
  BY <1>1, <1>4 DEF SkipWallet, WalletKnown
<1>5. CASE ConnectWallet
  BY <1>1, <1>5, Resolutions DEF ConnectWallet, WalletKnown
<1>6. CASE WalletFails
  BY <1>1, <1>6 DEF WalletFails, WalletKnown
<1>7. CASE Bind
  BY <1>1, <1>7 DEF Bind, WalletKnown
<1>8. CASE Exit
  BY <1>1, <1>8 DEF Exit, WalletKnown
<1>9. CASE Restart
  BY <1>1, <1>9 DEF Restart, WalletKnown
<1>10. CASE InvalidBody \/ HealthCheck
  BY <1>1, <1>2, <1>10 DEF InvalidBody, HealthCheck
<1>11. ASSUME NEW m \in Methods, HttpRequest(m) PROVE SettingsInv'
  <2>1. WalletKnown'
    BY <1>2, <1>11 DEF HttpRequest
  <2>2. SinksAllowed'
    <3>1. CASE UNCHANGED reached
      BY <1>1, <1>11, <3>1 DEF HttpRequest
    <3>2. CASE Passes(m, Sink(m))
      <4>1. UNCHANGED raw
        BY <1>11 DEF HttpRequest
      <4> QED
        BY <3>2, <4>1, PassKeepsSinks DEF Sink
    <3> QED
      BY <1>11, <3>1, <3>2 DEF HttpRequest
  <2> QED
    BY <2>1, <2>2
<1>12. ASSUME NEW c \in Clients, NEW m \in Methods, WsRequest(c, m) PROVE SettingsInv'
  <2>1. UNCHANGED <<raw, phase, wallet>>
    BY <1>12 DEF WsRequest
  <2>2. SinksAllowed'
    BY <1>12, <2>1, PassKeepsSinks DEF WsRequest, Sink, Subscriptions
  <2> QED
    BY <1>2, <2>1, <2>2
<1>13. ASSUME NEW c \in Clients, NEW m \in Methods, WsBatchRequest(c, m) PROVE SettingsInv'
  <2>1. UNCHANGED <<raw, phase, wallet>>
    BY <1>13 DEF WsBatchRequest
  <2>2. SinksAllowed'
    BY <1>13, <2>1, PassKeepsSinks DEF WsBatchRequest, Sink
  <2> QED
    BY <1>2, <2>1, <2>2
<1>14. ASSUME NEW c \in Clients,
              \/ Upgrade(c) \/ UpgradeFails(c) \/ Upgraded(c) \/ Connected(c) \/ ConnectFails(c)
              \/ Ends(c) \/ Flushed(c) \/ Stalled(c) \/ WriterEnds(c)
              \/ StopReading(c) \/ ReadAgain(c)
       PROVE  SettingsInv'
  <2>1. UNCHANGED <<raw, phase, wallet, reached>>
    BY <1>14 DEF Upgrade, UpgradeFails, Upgraded, Connected, ConnectFails, Ends, Flushed, Stalled,
       WriterEnds, StopReading, ReadAgain, ConnUnchanged
  <2> QED
    BY <1>1, <1>2, <2>1
<1>15. CASE UNCHANGED vars
  BY <1>1, <1>2, <1>15 DEF vars
<1> QED
  BY <1>3, <1>4, <1>5, <1>6, <1>7, <1>8, <1>9, <1>10, <1>11, <1>12, <1>13, <1>14, <1>15
  DEF Next, Startup, Requests, Connections

\* No request gets past the settings, and a process that takes writes has a wallet
\* (SettingsHold), for every configuration.
THEOREM SettingsAreKept == Spec => []SettingsHold
<1>1. SettingsInv => SettingsHold
  BY DEF SettingsInv, WalletKnown, SinksAllowed, SettingsHold
<1> QED
  BY <1>1, SettingsStart, SettingsStep, PTL DEF Spec

-----------------------------------------------------------------------------
(* Checked configurations. *)

\* A power of two counts subsets: the next one counts those with and without one more element.
LEMMA PowersOfTwo ==
  ASSUME NEW n \in Nat
  PROVE  2^n \in Nat /\ 2^n >= 1 /\ 2^(n + 1) = 2 * (2^n)
<1> DEFINE S == 1..n
           T == 1..(n + 1)
           Without == SUBSET S
           With == {X \in SUBSET T : n + 1 \in X}
           extend == [X \in Without |-> X \cup {n + 1}]
<1>1. IsFiniteSet(S) /\ Cardinality(S) = n /\ IsFiniteSet(T) /\ Cardinality(T) = n + 1
  BY FS_Interval
<1>2. IsFiniteSet(Without) /\ Cardinality(Without) = 2^n
  BY <1>1, FS_SUBSET
<1>3. IsFiniteSet(SUBSET T) /\ Cardinality(SUBSET T) = 2^(n + 1)
  BY <1>1, FS_SUBSET
<1>4. 2^n \in Nat /\ 2^n # 0
  <2>1. Without # {}
    BY DEF Without
  <2> HIDE DEF Without
  <2> QED
    BY <1>2, <2>1, FS_CardinalityType, FS_EmptySet
<1>5. T = S \cup {n + 1} /\ n + 1 \notin S
  OBVIOUS
<1>6. extend \in Bijection(Without, With)
  <2> HIDE DEF S, T
  <2>1. extend \in [Without -> With]
    BY <1>5
  <2>2. \A X, Y \in Without : extend[X] = extend[Y] => X = Y
    <3> TAKE X, Y \in Without
    <3>1. n + 1 \notin X /\ n + 1 \notin Y
      BY <1>5
    <3>2. extend[X] = X \cup {n + 1} /\ extend[Y] = Y \cup {n + 1}
      OBVIOUS
    <3>3. X \cup {n + 1} = Y \cup {n + 1} => X = Y
      BY <3>1
    <3> QED
      BY <3>2, <3>3
  <2>3. \A Y \in With : \E X \in Without : extend[X] = Y
    <3> TAKE Y \in With
    <3>1. Y \ {n + 1} \in Without
      BY <1>5
    <3>2. (Y \ {n + 1}) \cup {n + 1} = Y
      OBVIOUS
    <3> QED
      BY <3>1, <3>2
  <2> HIDE DEF extend, With, Without
  <2> QED
    BY <2>1, <2>2, <2>3 DEF Bijection, Injection, Surjection, IsInjective
<1>7. IsFiniteSet(With) /\ Cardinality(With) = Cardinality(Without)
  <2> HIDE DEF With, Without, extend
  <2> QED
    BY <1>2, <1>6, FS_Bijection DEF ExistsBijection
<1>8. SUBSET T = Without \cup With /\ Without \cap With = {}
  <2> HIDE DEF S, T
  <2>1. \A X \in SUBSET T : n + 1 \notin X => X \in Without
    BY <1>5
  <2>2. \A X \in Without : X \in SUBSET T /\ n + 1 \notin X
    BY <1>5
  <2> HIDE DEF Without
  <2> QED
    BY <2>1, <2>2
<1>9. Cardinality(Without \cup With) = Cardinality(Without) + Cardinality(With) - Cardinality(Without \cap With)
  <2> HIDE DEF With, Without
  <2> QED
    BY <1>2, <1>7, FS_Union
<1>10. Cardinality(Without \cap With) = 0
  BY <1>8, FS_EmptySet
<1> HIDE DEF S, T, With, Without, extend
<1>11. 2^(n + 1) = Cardinality(Without) + Cardinality(Without) - 0
  BY <1>3, <1>7, <1>8, <1>9, <1>10
<1>12. \A a, b, c : a = b + b - 0 /\ b = c /\ c \in Nat /\ c # 0 => c >= 1 /\ a = 2 * c
  OBVIOUS
<1> QED
  BY <1>2, <1>4, <1>11, <1>12

\* A power of two is a positive number.
LEMMA PowerType == \A n \in Nat : 2^n \in Nat /\ 2^n >= 1
BY PowersOfTwo

\* The limit of the integers.
LEMMA LimitType == Limit \in Nat /\ Limit >= 1
<1>1. Width \in Nat /\ Width >= 1 /\ Width - 1 \in Nat
  BY WidthAssumption
<1>2. 2^((Width - 1) + 1) = 2 * (2^(Width - 1)) /\ 2^(Width - 1) \in Nat /\ 2^(Width - 1) >= 1
  BY <1>1, PowersOfTwo
<1>3. (Width - 1) + 1 = Width
  BY <1>1
<1>4. 2^Width = 2 * (2^(Width - 1))
  BY <1>2, <1>3
<1>5. \A a, b : a = 2 * b /\ b \in Nat /\ b >= 1 => a - 1 \in Nat /\ a - 1 >= 1
  OBVIOUS
<1> QED
  BY <1>2, <1>4, <1>5 DEF Limit

\* Values of number fields are numbers, read from either layer or the default.
LEMMA NumbersTyped ==
  ASSUME raw \in RawConfigs
  PROVE  /\ RetryConfig.max_attempts \in Int /\ RetryConfig.initial_delay_ms \in Int
         /\ RetryConfig.max_delay_ms \in Int
         /\ GasConfig.min_protocol_fee_per_gas_gwei \in Int
         /\ MiningConfig.timeout_seconds \in Int
<1>1. ASSUME NEW table, NEW field, <<table, field>> \in NumberFields, NEW default \in Int
      PROVE  Get(table, field, default) \in Int
  BY <1>1, RawConfigsAssumption DEF Get
<1>2. \A field \in {"max_attempts", "initial_delay_ms", "max_delay_ms"} : <<"retry", field>> \in NumberFields
  BY DEF NumberFields
<1>3. <<"mining", "timeout_seconds">> \in NumberFields /\ <<"gas", "min_protocol_fee_per_gas_gwei">> \in NumberFields
  BY DEF NumberFields
<1> QED
  BY <1>1, <1>2, <1>3 DEF RetryConfig, GasConfig, MiningConfig

\* The retry table of a configuration that loads.
LEMMA RetryChecked ==
  ASSUME raw \in RawConfigs, Loads
  PROVE  /\ RetryConfig.max_attempts \in Nat /\ RetryConfig.max_attempts >= 1
         /\ RetryConfig.initial_delay_ms \in Nat /\ RetryConfig.initial_delay_ms >= 1
         /\ RetryConfig.max_delay_ms \in Nat
         /\ RetryConfig.max_delay_ms >= RetryConfig.initial_delay_ms
<1>1. \A n \in {RetryConfig.max_attempts, RetryConfig.initial_delay_ms, RetryConfig.max_delay_ms} : n >= 0
  BY DEF Loads, Deserializes, Numbers
<1> QED
  BY <1>1, NumbersTyped DEF Loads, Validates, RetryValid

\* The other limits of a configuration that loads.
LEMMA LimitsChecked ==
  ASSUME Loads
  PROVE  /\ GasConfig.min_protocol_fee_per_gas_gwei >= 1 /\ MiningConfig.tx_id_prefix \in 1..HASH_SIZE
         /\ MiningConfig.timeout_seconds >= 1 /\ el_ws_url.scheme = "ws"
<1>1. Deserializes /\ GasValid /\ MiningValid /\ ProxyValid
  BY DEF Loads, Validates
<1>2. GasConfig.min_protocol_fee_per_gas_gwei >= 1
  <2> DEFINE price == GasConfig.min_protocol_fee_per_gas_gwei
  <2>1. price \in 1..10000
    BY <1>1, SMTT(30) DEF GasValid
  <2> HIDE DEF price
  <2>2. price >= 1
    BY <2>1, SMT
  <2> QED
    BY <2>2 DEF price
<1>3. MiningConfig.timeout_seconds >= 1
  BY <1>1 DEF MiningValid
<1>4. MiningConfig.tx_id_prefix \in 1..HASH_SIZE
  BY <1>1 DEF Deserializes, PrefixParses
<1>5. el_ws_url.scheme = "ws"
  <2>1. ProxyConfig.el_ws_url # NoUrl => ProxyConfig.el_ws_url.scheme = "ws"
    BY <1>1, SMTT(30) DEF ProxyValid
  <2> QED
    BY <2>1 DEF el_ws_url
<1> QED
  BY <1>2, <1>3, <1>4, <1>5

\* Delays are between 1 and the cap, and never shrink from one attempt to the next.
LEMMA DelaysGrow ==
  ASSUME raw \in RawConfigs, Loads, NEW attempt \in Nat, attempt >= 1
  PROVE  /\ Delay(attempt) \in 1..RetryConfig.max_delay_ms
         /\ Delay(attempt) <= Delay(attempt + 1)
<1> DEFINE first == RetryConfig.initial_delay_ms
           cap == RetryConfig.max_delay_ms
           e == Least(attempt - 1, Width - 1)
           f == Least(attempt, Width - 1)
<1>1. first \in Nat /\ first >= 1 /\ cap \in Nat /\ cap >= first
  BY RetryChecked
<1>2. e \in Nat /\ f \in Nat /\ (f = e \/ f = e + 1)
  BY WidthAssumption DEF Least
<1>3. 2^e \in Nat /\ 2^e >= 1 /\ 2^f \in Nat /\ 2^f >= 1 /\ (2^f = 2^e \/ 2^f = 2 * (2^e))
  BY <1>2, PowersOfTwo
<1>4. /\ Delay(attempt) = Least(Saturated(first * (2^e)), cap)
      /\ Delay(attempt + 1) = Least(Saturated(first * (2^f)), cap)
  BY DEF Delay
<1> HIDE DEF first, cap, e, f
<1>5. \A a, b, c \in Nat : a >= 1 /\ b >= 1 /\ (c = b \/ c = 2 * b) => a * b \in Nat /\ a * b >= 1 /\ a * c \in Nat /\ a * b <= a * c
  <2>1. \A a, b \in Nat : a >= 1 /\ b >= 1 => a * b \in Nat /\ a * b >= 1
    OBVIOUS
  <2>2. \A a, b \in Nat : a * (2 * b) = 2 * (a * b)
    OBVIOUS
  <2> QED
    BY <2>1, <2>2
<1>6. first * (2^e) \in Nat /\ first * (2^e) >= 1 /\ first * (2^f) \in Nat /\ first * (2^e) <= first * (2^f)
  BY <1>1, <1>3, <1>5
<1>7. \A x, y \in Nat : x >= 1 /\ x <= y =>
        /\ Least(Saturated(x), cap) \in 1..cap
        /\ Least(Saturated(x), cap) <= Least(Saturated(y), cap)
  BY <1>1, LimitType DEF Least, Saturated
<1>8. /\ Least(Saturated(first * (2^e)), cap) \in 1..cap
      /\ Least(Saturated(first * (2^e)), cap) <= Least(Saturated(first * (2^f)), cap)
  BY <1>6, <1>7
<1>9. Delay(attempt) \in 1..cap /\ Delay(attempt) <= Delay(attempt + 1)
  BY <1>4, <1>8
<1> QED
  BY <1>9 DEF cap

\* Jitter takes or adds at most a quarter, and never everything.
LEMMA JitterIsBounded ==
  ASSUME NEW delay \in Nat, delay >= 1, NEW cap \in Nat, delay <= cap
  PROVE  Jittered(delay) \subseteq 1..(cap + (cap \div 4))
<1>1. ASSUME NEW p \in 0..25
      PROVE  /\ Jitter(delay, p) \in Nat /\ Jitter(delay, p) <= cap \div 4
             /\ Jitter(delay, p) < delay
  <2>1. delay * p \in Nat /\ delay * p <= delay * 25
    OBVIOUS
  <2>2. \A x \in Nat : x <= delay * 25 => x \div 100 \in Nat /\ x \div 100 <= cap \div 4 /\ x \div 100 < delay
    OBVIOUS
  <2>3. cap \div 4 \in Nat
    OBVIOUS
  <2> QED
    BY <2>1, <2>2, <2>3 DEF Jitter
<1>2. \A j \in Nat : j <= cap \div 4 => Saturated(delay + j) \in 1..(cap + (cap \div 4))
  BY LimitType DEF Saturated
<1>3. \A j \in Nat : j < delay => delay - j \in 1..(cap + (cap \div 4))
  OBVIOUS
<1>4. \A p \in 0..25 : Saturated(delay + Jitter(delay, p)) \in 1..(cap + (cap \div 4))
  BY <1>1, <1>2
<1>5. \A p \in 1..25 : delay - Jitter(delay, p) \in 1..(cap + (cap \div 4))
  <2> TAKE p \in 1..25
  <2>1. p \in 0..25
    OBVIOUS
  <2> QED
    BY <1>1, <1>3, <2>1
<1> HIDE DEF Saturated, Jitter
<1> QED
  BY <1>4, <1>5 DEF Jittered

\* From the moment the configuration is loaded it is one that loads, and the wallet is
\* what the lane resolved to.
LoadedInv ==
  /\ raw \in RawConfigs
  /\ phase \in {"wallet", "bind", "serving"} => Loads
  /\ wallet # "none" => wallet = Resolve

\* What is true at the start.
LEMMA LoadedStart == Init => LoadedInv
BY DEF Init, LoadedInv

\* What depends on the configuration alone does not change.
LEMMA LoadedStays ==
  ASSUME UNCHANGED raw
  PROVE  (Loads' <=> Loads) /\ Resolve' = Resolve
<1>1. \A table, field, default : Get(table, field, default)' = Get(table, field, default)
  BY DEF Get
<1>2. /\ ServerConfig' = ServerConfig /\ ProxyConfig' = ProxyConfig /\ WalletConfig' = WalletConfig
      /\ SecurityConfig' = SecurityConfig /\ MiningConfig' = MiningConfig /\ LaneConfig' = LaneConfig
      /\ GasConfig' = GasConfig /\ RetryConfig' = RetryConfig
  BY DEF Get, ServerConfig, ProxyConfig, WalletConfig, SecurityConfig, MiningConfig, LaneConfig,
     GasConfig, RetryConfig
<1>3. Resolve' = Resolve
  BY <1>2 DEF Resolve
<1>4. Deserializes' <=> Deserializes
  BY <1>2 DEF Deserializes, Complete, Has, Tables, Flags, Numbers, PrefixParses
<1>5. Validates' <=> Validates
  BY <1>2, <1>3 DEF Validates, ServerValid, ProxyValid, WalletValid, MiningValid, GasValid, RetryValid,
     is_read_only
<1> QED
  BY <1>3, <1>4, <1>5 DEF Loads

\* The configuration is looked at before the phases it must hold in.
LEMMA LoadedStep == LoadedInv /\ [Next]_vars => LoadedInv'
<1> SUFFICES ASSUME LoadedInv, [Next]_vars PROVE LoadedInv'
  OBVIOUS
<1> USE DEF LoadedInv
<1>1. UNCHANGED raw
  BY DEF Next, vars, Startup, Requests, Connections, Load, SkipWallet, ConnectWallet, WalletFails, Bind,
     Exit, Restart, InvalidBody, HealthCheck, HttpRequest, WsRequest, WsBatchRequest, Upgrade,
     UpgradeFails, Upgraded, Connected, ConnectFails, Ends, Flushed, Stalled, WriterEnds, StopReading,
     ReadAgain, ConnUnchanged
<1>2. (Loads' <=> Loads) /\ Resolve' = Resolve
  BY <1>1, LoadedStays
<1>3. CASE UNCHANGED <<phase, wallet>>
  BY <1>1, <1>2, <1>3
<1>4. CASE Startup
  BY <1>1, <1>2, <1>4 DEF Startup, Load, SkipWallet, ConnectWallet, WalletFails, Bind, Exit, Restart
<1>5. CASE Requests \/ Connections
  BY <1>3, <1>5 DEF Requests, Connections, InvalidBody, HealthCheck, HttpRequest, WsRequest,
     WsBatchRequest, Upgrade, UpgradeFails, Upgraded, Connected, ConnectFails, Ends, Flushed, Stalled,
     WriterEnds, StopReading, ReadAgain, ConnUnchanged
<1> QED
  BY <1>3, <1>4, <1>5 DEF Next, vars

\* What serves was checked: its limits are in range, its lane is enforced or
\* enforcement is switched off, and its retry delays are bounded and do not shrink
\* (ServesOnlyChecked), for every configuration and width of integers.
THEOREM OnlyCheckedServes == Spec => []ServesOnlyChecked
<1>1. LoadedInv /\ SettingsInv => ServesOnlyChecked
  <2> SUFFICES ASSUME LoadedInv, SettingsInv, phase = "serving"
               PROVE  ServesOnlyChecked
    BY DEF ServesOnlyChecked
  <2>1. Loads /\ raw \in RawConfigs /\ (wallet # "none" => wallet = Resolve /\ ~is_read_only)
    BY DEF LoadedInv, SettingsInv, WalletKnown
  <2>2. RetryConfig.max_attempts >= 1
    BY <2>1, RetryChecked
  <2>3. /\ GasConfig.min_protocol_fee_per_gas_gwei >= 1 /\ MiningConfig.tx_id_prefix \in 1..HASH_SIZE
        /\ MiningConfig.timeout_seconds >= 1
    BY <2>1, LimitsChecked
  <2>4. el_ws_url.scheme = "ws"
    BY <2>1, LimitsChecked
  <2>5. wallet # "none" => WalletConfig.to_address = "address"
    BY <2>1 DEF Loads, Validates, WalletValid
  <2>6. /\ wallet = "enforced" => ParsesAsLane(LaneConfig.lane_id)
        /\ wallet = "legacy" => LaneConfig.enforcement_disabled = "true"
    BY <2>1 DEF Resolve
  <2>7. ASSUME NEW attempt \in 1..(Width + 2)
        PROVE  /\ Jittered(Delay(attempt)) \subseteq 1..(RetryConfig.max_delay_ms + (RetryConfig.max_delay_ms \div 4))
               /\ Delay(attempt) <= Delay(attempt + 1)
    <3>1. attempt \in Nat /\ attempt >= 1 /\ RetryConfig.max_delay_ms \in Nat
      BY <2>1, WidthAssumption, RetryChecked
    <3>2. Delay(attempt) \in 1..RetryConfig.max_delay_ms /\ Delay(attempt) <= Delay(attempt + 1)
      BY <2>1, <3>1, DelaysGrow
    <3> QED
      BY <3>1, <3>2, JitterIsBounded
  <2> QED
    BY <2>2, <2>3, <2>4, <2>5, <2>6, <2>7 DEF ServesOnlyChecked
<1> QED
  BY <1>1, LoadedStart, LoadedStep, SettingsStart, SettingsStep, PTL DEF Spec

-----------------------------------------------------------------------------
States == {"none", "upgrading", "connecting", "open", "flushing", "detached"}
Holding == {"upgrading", "connecting", "open", "flushing"}

SlotsInv ==
  /\ conn \in [Clients -> States] /\ slots \in Nat
  /\ SlotsAccounted

\* Holders are some of the clients, as many as a number says.
LEMMA HoldersFinite ==
  /\ Holders = {c \in Clients : conn[c] \in Holding}
  /\ IsFiniteSet(Holders) /\ Cardinality(Holders) \in Nat
<1>1. IsFiniteSet(Clients) /\ Holders \subseteq Clients
  BY ClientsAssumption DEF Holders
<1>2. IsFiniteSet(Holders)
  BY <1>1, FS_Subset
<1> QED
  BY <1>2, FS_CardinalityType DEF Holders, Holding

\* A client that moves into a state that holds a slot, out of one, or between two alike.
LEMMA HoldersMove ==
  ASSUME SlotsInv, NEW c \in Clients, NEW from, NEW to \in States, Moves(c, from, to)
  PROVE  /\ conn' \in [Clients -> States]
         /\ from \notin Holding /\ to \in Holding => Cardinality(Holders)' = Cardinality(Holders) + 1
         /\ from \in Holding /\ to \notin Holding => Cardinality(Holders)' = Cardinality(Holders) - 1
         /\ (from \in Holding <=> to \in Holding) => Cardinality(Holders)' = Cardinality(Holders)
<1>1. conn[c] = from /\ conn' = [conn EXCEPT ![c] = to] /\ conn' \in [Clients -> States]
  BY DEF Moves, SlotsInv
<1>2. \A d \in Clients : conn'[d] = IF d = c THEN to ELSE conn[d]
  BY <1>1 DEF SlotsInv
<1>3. Holders = {d \in Clients : conn[d] \in Holding} /\ IsFiniteSet(Holders)
  BY HoldersFinite
<1>4. Holders' = {d \in Clients : conn'[d] \in Holding}
  BY DEF Holders, Holding
<1>5. ASSUME from \notin Holding, to \in Holding
      PROVE  Cardinality(Holders') = Cardinality(Holders) + 1
  <2>1. c \notin Holders /\ Holders' = Holders \cup {c}
    BY <1>1, <1>2, <1>3, <1>4, <1>5
  <2> QED
    BY <1>3, <2>1, FS_AddElement
<1>6. ASSUME from \in Holding, to \notin Holding
      PROVE  Cardinality(Holders') = Cardinality(Holders) - 1
  <2>1. c \in Holders /\ Holders' = Holders \ {c}
    BY <1>1, <1>2, <1>3, <1>4, <1>6
  <2> QED
    BY <1>3, <2>1, FS_RemoveElement
<1>7. ASSUME from \in Holding <=> to \in Holding
      PROVE  Cardinality(Holders') = Cardinality(Holders)
  <2>1. Holders' = Holders
    BY <1>1, <1>2, <1>3, <1>4, <1>7
  <2> QED
    BY <2>1
<1> QED
  BY <1>1, <1>5, <1>6, <1>7

\* At the start, and after the end of a process, nobody holds a slot.
LEMMA NobodyHolds ==
  ASSUME conn = [c \in Clients |-> "none"], slots = MAX_WS_CONNECTIONS
  PROVE  SlotsInv
<1>1. Holders = {}
  BY DEF Holders
<1> QED
  BY <1>1, FS_EmptySet, ClientsAssumption DEF SlotsInv, SlotsAccounted, States

\* The slot changes hands with the state of the connection, in the same step.
LEMMA SlotsStep == SlotsInv /\ [Next]_vars => SlotsInv'
<1> SUFFICES ASSUME SlotsInv, [Next]_vars PROVE SlotsInv'
  OBVIOUS
<1>1. UNCHANGED connVars => SlotsInv'
  BY DEF connVars, SlotsInv, SlotsAccounted, Holders
<1>2. slots \in Nat /\ MAX_WS_CONNECTIONS \in Int /\ Cardinality(Holders) \in Nat
      /\ slots + Cardinality(Holders) = MAX_WS_CONNECTIONS
  BY ClientsAssumption, HoldersFinite DEF SlotsInv, SlotsAccounted
<1>3. ASSUME NEW c \in Clients, NEW from \in Holding, NEW to \in States \ Holding,
             Moves(c, from, to), slots' = slots + 1
      PROVE  SlotsInv'
  <2>1. conn' \in [Clients -> States] /\ Cardinality(Holders)' = Cardinality(Holders) - 1
    BY <1>3, HoldersMove
  <2> QED
    BY <1>2, <1>3, <2>1 DEF SlotsInv, SlotsAccounted
<1>4. ASSUME NEW c \in Clients, NEW from, NEW to \in States,
             from \in Holding <=> to \in Holding, Moves(c, from, to), slots' = slots
      PROVE  SlotsInv'
  <2>1. conn' \in [Clients -> States] /\ Cardinality(Holders)' = Cardinality(Holders)
    BY <1>4, HoldersMove
  <2> QED
    BY <1>2, <1>4, <2>1 DEF SlotsInv, SlotsAccounted
<1>5. ASSUME NEW c \in Clients, Upgrade(c) PROVE SlotsInv'
  <2>1. CASE slots > 0
    <3>1. Moves(c, "none", "upgrading") /\ slots' = slots - 1
      BY <1>5, <2>1 DEF Upgrade
    <3>2. conn' \in [Clients -> States] /\ Cardinality(Holders)' = Cardinality(Holders) + 1
      BY <3>1, HoldersMove DEF States, Holding
    <3> QED
      BY <1>2, <2>1, <3>1, <3>2 DEF SlotsInv, SlotsAccounted
  <2>2. CASE ~(slots > 0)
    BY <1>1, <1>5, <2>2 DEF Upgrade
  <2> QED
    BY <2>1, <2>2
<1>6. ASSUME NEW c \in Clients, UpgradeFails(c) \/ ConnectFails(c) \/ Flushed(c) \/ Stalled(c)
      PROVE  SlotsInv'
  <2>1. \E from \in Holding, to \in States \ Holding : Moves(c, from, to) /\ slots' = slots + 1
    BY <1>6 DEF UpgradeFails, ConnectFails, Flushed, Stalled, States, Holding
  <2> QED
    BY <1>3, <2>1
<1>7. ASSUME NEW c \in Clients, Upgraded(c) \/ Connected(c) \/ Ends(c) \/ WriterEnds(c)
      PROVE  SlotsInv'
  <2>1. \E from, to \in States :
          (from \in Holding <=> to \in Holding) /\ Moves(c, from, to) /\ slots' = slots
    BY <1>7 DEF Upgraded, Connected, Ends, WriterEnds, States, Holding
  <2> QED
    BY <1>4, <2>1
<1>8. ASSUME NEW c \in Clients, StopReading(c) \/ ReadAgain(c) PROVE SlotsInv'
  BY <1>1, <1>8 DEF StopReading, ReadAgain
<1>9. CASE Exit
  <2>1. SlotsInv' <=> (conn' \in [Clients -> States] /\ slots' \in Nat /\ SlotsAccounted')
    BY DEF SlotsInv
  <2>2. conn' = [c \in Clients |-> "none"] /\ slots' = MAX_WS_CONNECTIONS
    BY <1>9 DEF Exit
  <2>3. Holders' = {}
    BY <2>2 DEF Holders
  <2>4. Cardinality(Holders') = 0
    BY <2>3, FS_EmptySet
  <2> QED
    BY <1>2, <2>1, <2>2, <2>4 DEF SlotsAccounted, States
<1>10. CASE Load \/ SkipWallet \/ ConnectWallet \/ WalletFails \/ Bind \/ Restart
  BY <1>1, <1>10 DEF Load, SkipWallet, ConnectWallet, WalletFails, Bind, Restart
<1>11. CASE Requests
  BY <1>1, <1>11 DEF Requests, InvalidBody, HealthCheck, HttpRequest, WsRequest, WsBatchRequest
<1>12. CASE UNCHANGED vars
  BY <1>1, <1>12 DEF vars, connVars
<1> QED
  BY <1>5, <1>6, <1>7, <1>8, <1>9, <1>10, <1>11, <1>12 DEF Next, Startup, Connections

\* Every slot is free or held by exactly one connection (SlotsAccounted), whatever
\* became of the connections before.
THEOREM NoSlotIsLost == Spec => []SlotsAccounted
<1>1. Init => SlotsInv
  BY NobodyHolds DEF Init
<1>2. SlotsInv => SlotsAccounted
  BY DEF SlotsInv
<1> QED
  BY <1>1, <1>2, SlotsStep, PTL DEF Spec

-----------------------------------------------------------------------------
\* The variables that no connection changes.
OthersTyped ==
  /\ raw \in RawConfigs
  /\ phase \in {"start", "wallet", "bind", "serving", "exited"}
  /\ wallet \in {"none", "enforced", "legacy"}
  /\ reached \subseteq {"queue", "el", "reth"}
  /\ answer \in [to : Methods \cup {"nobody", "health", "upgrade"}, code : Codes]
  /\ reading \subseteq Clients

\* Every answer has one of the codes.
LEMMA AnswerTypes ==
  ASSUME NEW to \in Methods \cup {"nobody", "health", "upgrade"}, NEW code \in Codes
  PROVE  [to |-> to, code |-> code] \in [to : Methods \cup {"nobody", "health", "upgrade"}, code : Codes]
OBVIOUS

\* The codes of refusals, answers and health checks.
LEMMA CodeTypes ==
  /\ \A m \in Methods : Refusal(m) \in Codes /\ Sink(m) \in {"queue", "el"}
  /\ \A m \in Methods : Answers(Sink(m)) \subseteq Codes
  /\ \A r \in ElReplies : HealthStatus(r) \in Codes
  /\ {PARSE_ERROR, INVALID_REQUEST, 503, 0} \subseteq Codes
<1> USE DEF Codes, METHOD_NOT_ALLOWED, READ_ONLY, PARSE_ERROR, INVALID_REQUEST, EL_CALL_FAILED
<1>1. \A m \in Methods : Refusal(m) \in Codes /\ Sink(m) \in {"queue", "el"}
  BY DEF Refusal, Sink
<1>2. Answers("queue") \subseteq Codes
  BY DEF Answers
<1>3. Answers("el") \subseteq Codes
  BY DEF Answers, ElReplies
<1>4. \A r \in ElReplies : HealthStatus(r) \in Codes
  BY DEF HealthStatus
<1> QED
  BY <1>1, <1>2, <1>3, <1>4

\* Every action keeps the types of the other variables.
LEMMA OthersStep == OthersTyped /\ [Next]_vars => OthersTyped'
<1> SUFFICES ASSUME OthersTyped, [Next]_vars PROVE OthersTyped'
  OBVIOUS
<1> USE DEF OthersTyped
<1>1. CASE Startup
  BY <1>1, Resolutions DEF Startup, Load, SkipWallet, ConnectWallet, WalletFails, Bind, Exit, Restart
<1>2. ASSUME NEW m \in Methods, NEW sink \in {"queue", "el", "reth"}, Passes(m, sink)
      PROVE  reached' \subseteq {"queue", "el", "reth"}
  BY <1>2 DEF Passes
<1>3. CASE InvalidBody \/ HealthCheck
  <2>1. answer' \in [to : Methods \cup {"nobody", "health", "upgrade"}, code : Codes]
    BY <1>3, AnswerTypes, CodeTypes DEF InvalidBody, HealthCheck
  <2> QED
    BY <1>3, <2>1 DEF InvalidBody, HealthCheck
<1>4. ASSUME NEW m \in Methods, HttpRequest(m) PROVE OthersTyped'
  <2>1. answer' \in [to : Methods \cup {"nobody", "health", "upgrade"}, code : Codes]
    BY <1>4, AnswerTypes, CodeTypes DEF HttpRequest
  <2>2. reached' \subseteq {"queue", "el", "reth"}
    BY <1>2, <1>4, CodeTypes DEF HttpRequest
  <2> QED
    BY <1>4, <2>1, <2>2 DEF HttpRequest
<1>5. ASSUME NEW c \in Clients, NEW m \in Methods, WsRequest(c, m) \/ WsBatchRequest(c, m)
      PROVE  OthersTyped'
  <2>1. reached' \subseteq {"queue", "el", "reth"}
    BY <1>2, <1>5, CodeTypes DEF WsRequest, WsBatchRequest
  <2> QED
    BY <1>5, <2>1 DEF WsRequest, WsBatchRequest
<1>6. ASSUME NEW c \in Clients, Upgrade(c) PROVE OthersTyped'
  <2>1. answer' \in [to : Methods \cup {"nobody", "health", "upgrade"}, code : Codes]
    BY <1>6, AnswerTypes, CodeTypes DEF Upgrade
  <2> QED
    BY <1>6, <2>1 DEF Upgrade, ConnUnchanged
<1>7. ASSUME NEW c \in Clients,
             \/ UpgradeFails(c) \/ Upgraded(c) \/ Connected(c) \/ ConnectFails(c)
             \/ Ends(c) \/ Flushed(c) \/ Stalled(c) \/ WriterEnds(c)
      PROVE  OthersTyped'
  BY <1>7 DEF UpgradeFails, Upgraded, Connected, ConnectFails, Ends, Flushed, Stalled, WriterEnds,
     ConnUnchanged
<1>8. ASSUME NEW c \in Clients, StopReading(c) \/ ReadAgain(c) PROVE OthersTyped'
  BY <1>8 DEF StopReading, ReadAgain
<1>9. CASE UNCHANGED vars
  BY <1>9 DEF vars
<1> QED
  BY <1>1, <1>3, <1>4, <1>5, <1>6, <1>7, <1>8, <1>9 DEF Next, Requests, Connections

\* The variables have their types, and never more slots are free than there are.
THEOREM TypeCorrect == Spec => []TypeOK
<1>1. Init => SlotsInv /\ OthersTyped
  BY NobodyHolds, AnswerTypes, CodeTypes DEF Init, OthersTyped, NoAnswer
<1>2. SlotsInv /\ OthersTyped => TypeOK
  <2>1. SlotsInv => slots \in 0..MAX_WS_CONNECTIONS
    BY ClientsAssumption, HoldersFinite DEF SlotsInv, SlotsAccounted
  <2> QED
    BY <2>1 DEF SlotsInv, OthersTyped, TypeOK, States
<1> QED
  BY <1>1, <1>2, SlotsStep, OthersStep, PTL DEF Spec
=============================================================================
