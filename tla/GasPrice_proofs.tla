--------------------------- MODULE GasPrice_proofs ---------------------------
(***************************************************************************)
(* Proofs about GasPrice, for every number of handlers, every lifetime of  *)
(* an entry and every timeout of a fetch.                                  *)
(***************************************************************************)
EXTENDS GasPrice, TLAPS

\* What is stored was read from a real block, at most one fetch before its stamp.
CacheIsReal ==
  cache.set =>
    /\ cache.fee = EffectiveFee(base[cache.asOf])
    /\ cache.fetchedAt - cache.asOf <= MaxFetch

\* A fetch is within its timeout, and what it read was read during it.
FetchIsReal ==
  \A h \in Handlers :
    /\ Fetching(h) => now - handler[h].since <= MaxFetch
    /\ handler[h].at = "read" =>
         handler[h].fee = base[handler[h].asOf] /\ handler[h].since <= handler[h].asOf

Inv == TypeOK /\ CacheIsReal /\ FetchIsReal /\ FeeIsRecent

\* The effective fee is a fee.
LEMMA EffectiveFeeType == \A fee \in Nat : EffectiveFee(fee) \in Nat
BY FloorAssumption DEF EffectiveFee

\* At the start there is no fee to speak of.
LEMMA InitInv == Init => Inv
BY GasAssumption DEF Init, Inv, TypeOK, CacheIsReal, FetchIsReal, FeeIsRecent, NoFee, Idle,
   Fetching, Returned

\* Time passes: the past blocks stay, and no fetch outlives its timeout.
LEMMA TickInv == Inv /\ Tick => Inv'
<1> SUFFICES ASSUME Inv, Tick
             PROVE  Inv'
  OBVIOUS
<1> USE GasAssumption DEF Inv, Tick
<1>1. /\ now \in Nat /\ now' = now + 1 /\ UNCHANGED <<cache, handler>>
      /\ base' \in [0..now' -> NetworkFees]
      /\ \A t \in 0..now : base'[t] = base[t]
  BY DEF TypeOK
<1>2. TypeOK'
  BY <1>1 DEF TypeOK
<1>3. CacheIsReal'
  BY <1>1 DEF TypeOK, CacheIsReal
<1>4. FetchIsReal'
  BY <1>1 DEF TypeOK, FetchIsReal, Fetching
<1>5. FeeIsRecent'
  BY <1>1 DEF TypeOK, FeeIsRecent, Returned
<1> QED
  BY <1>2, <1>3, <1>4, <1>5

\* A handler takes the fee of a fresh entry.
LEMMA HitInv == ASSUME Inv, NEW h \in Handlers, Hit(h) PROVE Inv'
<1> USE GasAssumption DEF Inv, Hit, Return, Goto
<1>1. UNCHANGED <<now, base, cache>>
  OBVIOUS
<1>2. TypeOK'
  BY DEF TypeOK
<1>3. CacheIsReal'
  BY DEF CacheIsReal
<1>4. FetchIsReal'
  BY DEF TypeOK, FetchIsReal, Fetching
<1>5. FeeIsRecent'
  <2>1. /\ cache.fee = EffectiveFee(base[cache.asOf])
        /\ now - cache.asOf < MaxFetch + Lifetime
    <3>1. cache.set /\ now - cache.fetchedAt < Lifetime
      BY DEF Fresh
    <3> QED
      BY <3>1 DEF TypeOK, CacheIsReal
  <2>2. /\ handler'[h].fee = cache.fee /\ handler'[h].asOf = cache.asOf /\ handler'[h].since = now
        /\ \A k \in Handlers : k # h => handler'[k] = handler[k]
    BY DEF TypeOK
  <2> QED
    BY <1>1, <2>1, <2>2 DEF FeeIsRecent, Returned
<1> QED
  BY <1>2, <1>3, <1>4, <1>5

\* A fetch starts, is read for, or fails.
LEMMA FetchInv == ASSUME Inv, NEW h \in Handlers, Miss(h) \/ Reads(h) \/ Fails(h) PROVE Inv'
<1> USE GasAssumption DEF Inv, Goto
<1>1. CASE Miss(h)
  <2>1. TypeOK' /\ CacheIsReal'
    BY <1>1 DEF TypeOK, CacheIsReal, Miss
  <2>2. FetchIsReal'
    BY <1>1 DEF TypeOK, FetchIsReal, Fetching, Miss
  <2>3. FeeIsRecent'
    BY <1>1 DEF TypeOK, FeeIsRecent, Returned, Miss
  <2> QED
    BY <2>1, <2>2, <2>3
<1>2. CASE Reads(h)
  <2>1. base[now] \in Nat /\ now \in 0..now
    <3>1. now \in Nat /\ now \in 0..now
      BY DEF TypeOK
    <3> QED
      BY <3>1 DEF TypeOK
  <2>2. TypeOK' /\ CacheIsReal'
    BY <1>2, <2>1 DEF TypeOK, CacheIsReal, Reads
  <2>3. FetchIsReal'
    BY <1>2, <2>1 DEF TypeOK, FetchIsReal, Fetching, Reads
  <2>4. FeeIsRecent'
    BY <1>2 DEF TypeOK, FeeIsRecent, Returned, Reads
  <2> QED
    BY <2>2, <2>3, <2>4
<1>3. CASE Fails(h)
  <2>1. TypeOK' /\ CacheIsReal'
    BY <1>3 DEF TypeOK, CacheIsReal, Fails
  <2>2. FetchIsReal'
    BY <1>3 DEF TypeOK, FetchIsReal, Fetching, Fails
  <2>3. FeeIsRecent'
    BY <1>3 DEF TypeOK, FeeIsRecent, Returned, Fails
  <2> QED
    BY <2>1, <2>2, <2>3
<1> QED
  BY <1>1, <1>2, <1>3

\* An answer arrives and overwrites the entry.
LEMMA ArrivesInv == ASSUME Inv, NEW h \in Handlers, Arrives(h) PROVE Inv'
<1> USE GasAssumption DEF Inv, Arrives, Return, Goto
<1>1. handler[h].fee \in Nat /\ EffectiveFee(handler[h].fee) \in Nat
  BY EffectiveFeeType DEF TypeOK
<1>2. TypeOK'
  BY <1>1 DEF TypeOK
<1>3. /\ handler[h].fee = base[handler[h].asOf]
      /\ now - handler[h].asOf <= MaxFetch
  BY DEF TypeOK, FetchIsReal, Fetching
<1>4. CacheIsReal'
  BY <1>3 DEF TypeOK, CacheIsReal
<1>5. FetchIsReal'
  BY DEF TypeOK, FetchIsReal, Fetching
<1>6. FeeIsRecent'
  BY <1>3 DEF TypeOK, FeeIsRecent, Returned
<1> QED
  BY <1>2, <1>4, <1>5, <1>6

\* Every reachable state satisfies the invariant.
LEMMA Invariant == Spec => []Inv
<1>1. Inv /\ UNCHANGED vars => Inv'
  <2> SUFFICES ASSUME Inv, UNCHANGED vars
               PROVE  Inv'
    OBVIOUS
  <2> QED
    BY DEF Inv, TypeOK, CacheIsReal, FetchIsReal, FeeIsRecent, Fetching, Returned, vars
<1>2. Inv /\ [Next]_vars => Inv'
  BY <1>1, TickInv, HitInv, FetchInv, ArrivesInv DEF Next
<1> QED
  BY InitInv, <1>2, PTL DEF Spec

\* Type correctness, for every clock and every timeout.
THEOREM TypeCorrect == Spec => []TypeOK
<1>1. Inv => TypeOK
  BY DEF Inv
<1> QED
  BY <1>1, Invariant, PTL

\* A fee the accept path uses is a real block's, floored, and at most a fetch and an
\* entry's lifetime old, however many handlers fetch and overwrite concurrently.
THEOREM FeesAreRecent == Spec => []FeeIsRecent
<1>1. Inv => FeeIsRecent
  BY DEF Inv
<1> QED
  BY <1>1, Invariant, PTL

\* In a calm network the provider's own fee advice is never refused by its accept
\* path.
THEOREM AdviceHolds == Spec => []AdviceIsAccepted
<1>1. Inv => AdviceIsAccepted
  <2> SUFFICES ASSUME Inv, \A t \in 0..now : base[t] <= GasFloor,
                      NEW h \in Handlers, Returned(h), NEW tx \in AdvisedTxs
               PROVE  MeetsFee(tx, handler[h].fee)
    BY DEF AdviceIsAccepted
  <2>1. handler[h].fee = GasFloor
    BY GasAssumption, FloorAssumption DEF Inv, TypeOK, FeeIsRecent, EffectiveFee
  <2>2. \A quantity \in NetworkFees : Floored(quantity) \in Nat /\ Floored(quantity) >= GasFloor
    BY GasAssumption, FloorAssumption DEF Floored
  <2>3. CASE tx.type = 0 /\ \E price \in NetworkFees : tx.maxFee = Floored(price)
    BY <2>1, <2>2, <2>3 DEF MeetsFee
  <2>4. CASE \E suggested, fee \in NetworkFees :
                /\ tx.priorityFee = Floored(suggested)
                /\ tx.maxFee = Floored(suggested) + fee
    BY <2>1, <2>2, <2>4, GasAssumption, FloorAssumption DEF MeetsFee
  <2>5. CASE tx \in [type: {0}, decodes: {TRUE},
                     maxFee: {Floored(price) : price \in NetworkFees}, priorityFee: {0}]
    BY <2>3, <2>5
  <2>6. ASSUME NEW suggested \in NetworkFees,
               tx \in [type: {2}, decodes: {TRUE},
                       maxFee: {Floored(suggested) + fee : fee \in NetworkFees},
                       priorityFee: {Floored(suggested)}]
        PROVE  MeetsFee(tx, handler[h].fee)
    BY <2>4, <2>6
  <2> QED
    BY <2>5, <2>6 DEF AdvisedTxs
<1> QED
  BY <1>1, Invariant, PTL
=============================================================================
