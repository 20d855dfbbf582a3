------------------------------ MODULE GasPrice ------------------------------
(***************************************************************************)
(* The base fee the accept path checks against (services/gas_price.rs): a  *)
(* cache shared by all handlers, filled by whichever handler finds it      *)
(* stale.  Handlers fetch concurrently and the execution layer's answers   *)
(* arrive in any order; a fee is stamped when it arrives, not when the     *)
(* execution layer read it.  Time passes in ticks, with at most one block  *)
(* each; the model carries the tick a fee was read at, the code does not.  *)
(***************************************************************************)
EXTENDS FeeRules, FiniteSets

CONSTANTS
  Handlers,     \* concurrent calls of get_effective_base_fee
  NetworkFees,  \* the base fees blocks may have
  Lifetime,     \* IGRA_BLOCK_TIME, in ticks
  MaxFetch,     \* the timeout of EL_CALLER's client, in ticks
  MaxTime       \* bound on the clock

ASSUME GasAssumption ==
  /\ IsFiniteSet(Handlers)
  /\ NetworkFees \subseteq Nat
  /\ Lifetime \in Nat \ {0} /\ MaxFetch \in Nat /\ MaxTime \in Nat

VARIABLES
  now,
  base,     \* the base fee of the latest block at each tick so far
  cache,    \* the cached fee, its fetched_at and the tick it was read at
  handler   \* what each handler does, and the fee it returned last

vars == <<now, base, cache, handler>>

NoFee == [fee |-> 0, fetchedAt |-> 0, asOf |-> 0, set |-> FALSE]
Idle == [at |-> "idle", since |-> 0, fee |-> 0, asOf |-> 0]

TypeOK ==
  /\ now \in 0..MaxTime
  /\ base \in [0..now -> NetworkFees]
  /\ cache \in [fee: Nat, fetchedAt: 0..now, asOf: 0..now, set: BOOLEAN]
  /\ handler \in [Handlers -> [at: {"idle", "asked", "read", "returned", "failed"},
                               since: 0..now, fee: Nat, asOf: 0..now]]

Init ==
  /\ now = 0
  /\ base \in [{0} -> NetworkFees]
  /\ cache = NoFee
  /\ handler = [h \in Handlers |-> Idle]

Fetching(h) == handler[h].at \in {"asked", "read"}
CanStart(h) == handler[h].at \in {"idle", "returned", "failed"}

\* What get_effective_base_fee finds in the cache: fetched_at.elapsed() < IGRA_BLOCK_TIME
Fresh == cache.set /\ now - cache.fetchedAt < Lifetime

Goto(h, at, since, fee, asOf) ==
  handler' = [handler EXCEPT ![h] = [at |-> at, since |-> since, fee |-> fee, asOf |-> asOf]]

Return(h, fee, asOf) == Goto(h, "returned", now, fee, asOf)

\* The fast path.
Hit(h) ==
  /\ CanStart(h)
  /\ Fresh
  /\ Return(h, cache.fee, cache.asOf)
  /\ UNCHANGED <<now, base, cache>>

\* The cache is stale: ask the execution layer.
Miss(h) ==
  /\ CanStart(h)
  /\ ~Fresh
  /\ Goto(h, "asked", now, 0, 0)
  /\ UNCHANGED <<now, base, cache>>

\* The execution layer reads its latest block.
Reads(h) ==
  /\ handler[h].at = "asked"
  /\ Goto(h, "read", handler[h].since, base[now], now)
  /\ UNCHANGED <<now, base, cache>>

\* Mutant: the moment the entry expires is stored instead of the fetch's.
ArrivesStampedLater(h) ==
  /\ handler[h].at = "read"
  /\ LET fee == EffectiveFee(handler[h].fee)
     IN /\ cache' = [fee |-> fee, fetchedAt |-> now + Lifetime, asOf |-> handler[h].asOf,
                     set |-> TRUE]
        /\ Return(h, fee, handler[h].asOf)
  /\ UNCHANGED <<now, base>>

\* Its answer arrives: floored, stored over whatever is there, and returned.
Arrives(h) ==
  /\ handler[h].at = "read"
  /\ LET fee == EffectiveFee(handler[h].fee)
     IN /\ cache' = [fee |-> fee, fetchedAt |-> now, asOf |-> handler[h].asOf, set |-> TRUE]
        /\ Return(h, fee, handler[h].asOf)
  /\ UNCHANGED <<now, base>>

\* Mutant: a failed fetch falls back to the stale entry.
FailsOpen(h) ==
  /\ Fetching(h)
  /\ IF cache.set
     THEN Return(h, cache.fee, cache.asOf)
     ELSE Goto(h, "failed", now, 0, 0)
  /\ UNCHANGED <<now, base, cache>>

\* An error, a block without a base fee, or the timeout: nothing is stored.
Fails(h) ==
  /\ Fetching(h)
  /\ Goto(h, "failed", now, 0, 0)
  /\ UNCHANGED <<now, base, cache>>

\* Time passes, but no fetch outlives its timeout.
Tick ==
  /\ now < MaxTime
  /\ \A h \in Handlers : Fetching(h) => now - handler[h].since < MaxFetch
  /\ now' = now + 1
  /\ \E fee \in NetworkFees : base' = [t \in 0..now' |-> IF t = now' THEN fee ELSE base[t]]
  /\ UNCHANGED <<cache, handler>>

Next == Tick \/ \E h \in Handlers : Hit(h) \/ Miss(h) \/ Reads(h) \/ Arrives(h) \/ Fails(h)

Spec == Init /\ [][Next]_vars

-----------------------------------------------------------------------------
(* Properties. *)

Returned(h) == handler[h].at = "returned"

\* Every fee the accept path uses is the floored fee of a real block, and that block
\* was the latest at some moment of the entry's lifetime and one fetch before it:
\* slow fetches that overwrite fresher entries cannot make it older than that.
FeeIsRecent ==
  \A h \in Handlers : Returned(h) =>
    /\ handler[h].fee = EffectiveFee(base[handler[h].asOf])
    /\ handler[h].since - handler[h].asOf < MaxFetch + Lifetime

\* A wallet that follows the provider's advice: eth_gasPrice for a legacy
\* transaction, eth_maxPriorityFeePerGas or eth_feeHistory for a tip on top of the
\* network's base fee, whatever the execution layer suggests.
AdvisedTxs ==
  [type: {0}, decodes: {TRUE}, maxFee: {Floored(price) : price \in NetworkFees}, priorityFee: {0}]
  \cup UNION {LET tip == Floored(suggested)
              IN [type: {2}, decodes: {TRUE}, maxFee: {tip + fee : fee \in NetworkFees},
                  priorityFee: {tip}] : suggested \in NetworkFees}

\* While the network's fee stays at or below the floor, no such transaction is
\* refused for its fees, whichever entry of the cache it is checked against.
AdviceIsAccepted ==
  (\A t \in 0..now : base[t] <= GasFloor) =>
    \A h \in Handlers : Returned(h) =>
      \A tx \in AdvisedTxs : MeetsFee(tx, handler[h].fee)
=============================================================================
