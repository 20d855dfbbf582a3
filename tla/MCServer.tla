------------------------------ MODULE MCServer ------------------------------
(***************************************************************************)
(* Configurations an operator may write, good and bad, for TLC.            *)
(***************************************************************************)
EXTENDS Server, TLC

K(table, field, value) == <<table, field>> :> value

\* A complete file, and the lane the environment adds to it.
FullKeys ==
  K("server", "host", "ip") @@ K("server", "port", 8535)
  @@ K("proxy", "el_url", [scheme |-> "http", port |-> 8545])
  @@ K("wallet", "wallet_daemon_uri", [scheme |-> "http", port |-> 8082])
  @@ K("wallet", "to_address", "address")
  @@ K("security", "read_only", "false") @@ K("mining", "tx_id_prefix", 2)
  @@ K("retry", "max_attempts", 3) @@ K("retry", "initial_delay_ms", 3)
  @@ K("retry", "max_delay_ms", 40)
Lane == K("lane", "lane_id", [spelling |-> "hex", bytes |-> <<151, 177, 0, 0>>])
ReadOnly == K("security", "read_only", "true")
OpenTo == K("security", "enable_whitelist", "false")

\* A file without a wallet, for a read-only deployment.
Walletless == [k \in {key \in DOMAIN FullKeys : key[1] # "wallet"} |-> FullKeys[k]]

File(keys) == [tables |-> {k[1] : k \in DOMAIN keys}, keys |-> keys]
Of(keys, env) == [file |-> File(keys), env |-> env]

\* Configurations that serve.
Good == {
  Of(FullKeys, Lane),
  Of(FullKeys, OpenTo @@ Lane),
  Of(FullKeys, K("lane", "enforcement_disabled", "true")),
  Of(Walletless, ReadOnly),
  Of(Walletless,
    ReadOnly @@ OpenTo @@ K("lane", "lane_id", [spelling |-> "other", bytes |-> <<0, 0, 0, 0>>]))}

\* Configurations that do not.
Bad == {
  Of(FullKeys, K("server", "host", "name") @@ Lane),
  Of(FullKeys, K("mining", "tx_id_prefix", 0) @@ Lane),
  Of(FullKeys, K("retry", "max_attempts", 0) @@ Lane),
  Of(FullKeys, K("lane", "lane_id", [spelling |-> "hex", bytes |-> <<1, 0, 0, 0>>])),
  Of(FullKeys, OpenTo),
  Of(FullKeys, K("mining", "timeout_seconds", -1) @@ Lane),
  Of(Walletless, K("wallet", "to_address", "address") @@ ReadOnly),
  Of(Walletless, Lane)}

MCRawConfigs == Good \cup Bad
=============================================================================
