---------------------------- MODULE MCEntryTool ----------------------------
(***************************************************************************)
(* Configurations the tool may find, for TLC.                              *)
(***************************************************************************)
EXTENDS EntryTool, TLC

K(table, field, value) == <<table, field>> :> value

Keys ==
  K("server", "host", "ip") @@ K("server", "port", 8535)
  @@ K("proxy", "el_url", [scheme |-> "http", port |-> 8545])
  @@ K("wallet", "wallet_daemon_uri", [scheme |-> "http", port |-> 8082])
  @@ K("wallet", "to_address", "address")
  @@ K("security", "read_only", "false") @@ K("mining", "tx_id_prefix", 2)
Lane == K("lane", "lane_id", [spelling |-> "hex", bytes |-> <<151, 177, 0, 0>>])

Of(env) == [file |-> [tables |-> {k[1] : k \in DOMAIN Keys}, keys |-> Keys], env |-> env]

\* Enforced, without a lane, switched off, and read-only with and without a lane.
MCRawConfigs == {
  Of(Lane),
  Of(K("gas", "min_protocol_fee_per_gas_gwei", 1)),
  Of(K("lane", "enforcement_disabled", "true")),
  Of(K("security", "read_only", "true") @@ K("wallet", "to_address", "") @@ Lane),
  Of(K("security", "read_only", "true"))}

MCAmounts == {-1, 0, 3, 4, 6, 7}
=============================================================================
