------------------------------ MODULE FeeRules ------------------------------
(***************************************************************************)
(* What the accept path demands of a transaction's fees                    *)
(* (services/transaction.rs validate_legacy_or_eip2930, validate_eip1559)  *)
(* and the fee it demands (services/gas_price.rs).                         *)
(***************************************************************************)
EXTENDS Naturals

CONSTANT GasFloor  \* GasConfig::min_protocol_fee_per_gas_gwei

ASSUME FloorAssumption == GasFloor \in Nat

\* An L2 transaction is what the accept path tells apart; for a legacy or
\* EIP-2930 one maxFee is its gas_price.
L2Tx == [type: 0..5, decodes: BOOLEAN, maxFee: Nat, priorityFee: Nat]

\* A fee in wei is a 256-bit number; the floor is at most 10^13 wei, so nothing here
\* comes near the width.

\* validate_gas_fee_with_type.
MeetsFee(tx, fee) ==
  /\ tx.maxFee >= fee
  /\ tx.type \in {2, 4} => tx.priorityFee \in fee..tx.maxFee

\* Mutant: the configured floor is forgotten.
EffectiveFeeUnfloored(network) == network

\* get_effective_base_fee: the network's fee, raised to the configured floor.
EffectiveFee(network) == IF network < GasFloor THEN GasFloor ELSE network

\* Mutant: only a missing price is raised.
FlooredIfZero(quantity) == IF quantity = 0 THEN GasFloor ELSE quantity

\* floor_hex_quantity_in_place: what wallets are told, raised to the same floor.
Floored(quantity) == IF quantity < GasFloor THEN GasFloor ELSE quantity
=============================================================================
