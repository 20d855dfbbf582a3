---------------------------- MODULE Mining_proofs ----------------------------
(* The nonce search gives up only on an exhausted space and changes the      *)
(* outputs only when it must, for every nonce width, number of fallbacks and *)
(* list of outputs.                                                          *)
EXTENDS Mining, FiniteSetTheorems, TLAPS

\* An output takes one more turn exactly when the fallback is its own.
LEMMA TurnsStep ==
  ASSUME NEW o \in Seq(Nat), o # <<>>, NEW n \in Nat, NEW i \in DOMAIN o
  PROVE  /\ Turns(o, 0, i) = 0
         /\ Turns(o, n, i) \in Nat
         /\ Turns(o, n + 1, i) = Turns(o, n, i) + (IF Turn(o, n) = i THEN 1 ELSE 0)
<1> DEFINE T(m) == {k \in 0..(m - 1) : k % Len(o) = i - 1}
<1>1. Len(o) \in Nat \ {0} /\ DOMAIN o = 1..Len(o)
  OBVIOUS
<1>2. \A m \in Nat : IsFiniteSet(T(m)) /\ Cardinality(T(m)) \in Nat
  <2>1. SUFFICES ASSUME NEW m \in Nat PROVE IsFiniteSet(T(m)) /\ Cardinality(T(m)) \in Nat
    OBVIOUS
  <2>2. IsFiniteSet(0..(m - 1))
    BY FS_Interval
  <2>3. T(m) \subseteq 0..(m - 1)
    OBVIOUS
  <2> HIDE DEF T
  <2> QED
    BY <2>2, <2>3, FS_Subset, FS_CardinalityType
<1>3. T(0) = {}
  OBVIOUS
<1>4. n % Len(o) \in 0..(Len(o) - 1)
  BY <1>1
<1>5. Turn(o, n) = i <=> n % Len(o) = i - 1
  BY <1>1, <1>4 DEF Turn
<1>6. n \notin T(n)
  OBVIOUS
<1>7. CASE Turn(o, n) = i
  <2>1. T(n + 1) = T(n) \cup {n}
    BY <1>5, <1>7
  <2> HIDE DEF T
  <2>2. Cardinality(T(n + 1)) = Cardinality(T(n)) + 1
    BY <1>2, <1>6, <2>1, FS_AddElement
  <2> QED
    BY <1>2, <1>3, <1>7, <2>2, FS_EmptySet DEF Turns, T
<1>8. CASE Turn(o, n) # i
  <2>1. T(n + 1) = T(n)
    BY <1>5, <1>8
  <2> HIDE DEF T
  <2>2. Cardinality(T(n + 1)) = Cardinality(T(n)) + 0
    BY <1>2, <2>1
  <2> QED
    BY <1>2, <1>3, <1>8, <2>2, FS_EmptySet DEF Turns, T
<1> QED
  BY <1>7, <1>8

\* Variants are lists of values as long as the original; no fallback leaves it as it is.
LEMMA VariantStart ==
  ASSUME NEW o \in Seq(Nat), NEW n \in Nat
  PROVE  /\ Variant(o, n) \in Seq(Nat)
         /\ Len(Variant(o, n)) = Len(o)
         /\ Variant(o, 0) = o
<1>1. CASE o = <<>>
  BY <1>1 DEF Variant
<1>2. CASE o # <<>>
  <2>1. \A i \in DOMAIN o : Turns(o, 0, i) = 0 /\ Turns(o, n, i) \in Nat
    BY <1>2, TurnsStep
  <2>2. DOMAIN o = 1..Len(o) /\ Len(o) \in Nat
    OBVIOUS
  <2>3. \A i \in DOMAIN o : o[i] \in Nat
    OBVIOUS
  <2>4. Variant(o, n) \in [1..Len(o) -> Nat]
    BY <2>1, <2>2, <2>3 DEF Variant
  <2>5. Variant(o, 0) = [i \in DOMAIN o |-> o[i]]
    BY <2>1, <2>3 DEF Variant
  <2>6. o = [i \in DOMAIN o |-> o[i]]
    OBVIOUS
  <2>7. \A f \in [1..Len(o) -> Nat] : f \in Seq(Nat) /\ Len(f) = Len(o)
    BY <2>2
  <2> QED
    BY <2>4, <2>5, <2>6, <2>7
<1> QED
  BY <1>1, <1>2

\* One fallback of the code takes one variant to the next.
LEMMA VariantStep ==
  ASSUME NEW o \in Seq(Nat), NEW n \in Nat
  PROVE  Lower(Variant(o, n), n) = Variant(o, n + 1)
<1>1. CASE o = <<>>
  <2>1. Variant(o, n) = <<>> /\ Variant(o, n + 1) = <<>>
    BY <1>1 DEF Variant
  <2> QED
    BY <2>1 DEF Lower
<1>2. CASE o # <<>>
  <2> DEFINE v == Variant(o, n)
             t == Turn(o, n)
  <2>1. DOMAIN o = 1..Len(o) /\ Len(o) \in Nat \ {0}
    BY <1>2
  <2>2. v \in Seq(Nat) /\ Len(v) = Len(o) /\ v # <<>> /\ DOMAIN v = DOMAIN o
    BY <1>2, <2>1, VariantStart
  <2>3. t \in DOMAIN o /\ Turn(v, n) = t
    BY <2>1, <2>2 DEF Turn
  <2>4. \A i \in DOMAIN o :
          /\ Turns(o, n, i) \in Nat
          /\ Turns(o, n + 1, i) = Turns(o, n, i) + (IF t = i THEN 1 ELSE 0)
    BY <1>2, TurnsStep
  <2>5. \A i \in DOMAIN o : o[i] \in Nat
    OBVIOUS
  <2>6. \A i \in DOMAIN o : v[i] = IF o[i] > Turns(o, n, i) THEN o[i] - Turns(o, n, i) ELSE 0
    BY DEF Variant
  <2>7. \A i \in DOMAIN o : Variant(o, n + 1)[i] =
          IF o[i] > Turns(o, n + 1, i) THEN o[i] - Turns(o, n + 1, i) ELSE 0
    BY DEF Variant
  <2>8. DOMAIN Variant(o, n + 1) = DOMAIN o /\ Variant(o, n + 1) = [i \in DOMAIN o |-> Variant(o, n + 1)[i]]
    BY DEF Variant
  <2>9. v = [i \in DOMAIN o |-> v[i]]
    BY DEF Variant
  <2> HIDE DEF v, t
  <2>10. Lower(v, n) = IF v[t] > 0 THEN [v EXCEPT ![t] = @ - 1] ELSE v
    BY <2>2, <2>3 DEF Lower
  <2>11. \A i \in DOMAIN o : Lower(v, n)[i] = Variant(o, n + 1)[i]
    <3>1. SUFFICES ASSUME NEW i \in DOMAIN o PROVE Lower(v, n)[i] = Variant(o, n + 1)[i]
      OBVIOUS
    <3>2. CASE t = i
      <4>1. Lower(v, n)[i] = IF v[i] > 0 THEN v[i] - 1 ELSE v[i]
        BY <2>2, <2>3, <2>10, <3>2
      <4>2. Turns(o, n + 1, i) = Turns(o, n, i) + 1
        BY <2>4, <3>2
      <4> QED
        BY <2>4, <2>5, <2>6, <2>7, <4>1, <4>2
    <3>3. CASE t # i
      <4>1. Lower(v, n)[i] = v[i]
        BY <2>2, <2>3, <2>10, <3>3
      <4>2. Turns(o, n + 1, i) = Turns(o, n, i)
        BY <2>4, <3>3
      <4> QED
        BY <2>4, <2>5, <2>6, <2>7, <4>1, <4>2
    <3> QED
      BY <3>2, <3>3
  <2>12. Lower(v, n) = [i \in DOMAIN o |-> Lower(v, n)[i]]
    BY <2>2, <2>9, <2>10
  <2>13. Lower(v, n) = Variant(o, n + 1)
    BY <2>8, <2>11, <2>12
  <2> QED
    BY <2>13 DEF v
<1> QED
  BY <1>1, <1>2

-----------------------------------------------------------------------------
(* The inductive invariant. *)

\* What is known of search c: it hashes the variant its fallbacks give, has been
\* through all variants before it and through the nonces below its own.
Progress(c) ==
  /\ outputs[c] = Variant(original[c], fallbacks[c])
  /\ \A n \in 0..Fallbacks : n < fallbacks[c] => Searched(c, Variant(original[c], n))
  /\ \A m \in Nonces : m < nonce[c] => <<outputs[c], m>> \in missed[c]
  /\ search[c] = "exhausted" =>
       /\ fallbacks[c] = Fallbacks
       /\ nonce[c] = MaxNonce
       /\ Candidate(c) \in missed[c]
  /\ search[c] \in {"none", "queued"} => nonce[c] = 0 /\ fallbacks[c] = 0
  /\ answer[c] = "none" => search[c] = "none"

IInv == TypeOK /\ \A c \in Call : Progress(c)

\* Before any call there is nothing to have searched.
LEMMA InitIInv == Init => IInv
<1> SUFFICES ASSUME Init PROVE IInv
  OBVIOUS
<1> USE LimitsAssumption
<1>1. TypeOK
  BY DEF Init, TypeOK, Nonces, Finished
<1>2. \A c \in Call : original[c] = <<>> /\ outputs[c] = <<>> /\ fallbacks[c] = 0
                      /\ nonce[c] = 0 /\ search[c] = "none"
  BY DEF Init
<1>3. Variant(<<>>, 0) = <<>>
  BY DEF Variant
<1>4. \A c \in Call : Progress(c)
  BY <1>2, <1>3 DEF Progress, Nonces
<1> QED
  BY <1>1, <1>4 DEF IInv

\* The search of one call is the only thing that step changes.
LEMMA OthersKeep ==
  ASSUME NEW c \in Call, NEW d \in Call, Progress(d), d # c,
         answer'[d] = answer[d], search'[d] = search[d], original'[d] = original[d],
         outputs'[d] = outputs[d], nonce'[d] = nonce[d],
         fallbacks'[d] = fallbacks[d], missed'[d] = missed[d]
  PROVE  Progress(d)'
  BY DEF Progress, Searched, Candidate

\* Every step keeps the invariant.
LEMMA NextIInv == IInv /\ [Next]_vars => IInv'
<1> SUFFICES ASSUME IInv, [Next]_vars PROVE IInv'
  OBVIOUS
<1> USE LimitsAssumption, OutputsAssumption
<1>1. ASSUME NEW c \in Call, Start(c) PROVE IInv'
  <2>1. PICK o \in OutputLists : /\ original' = [original EXCEPT ![c] = o]
                                 /\ outputs' = [outputs EXCEPT ![c] = o]
    BY <1>1 DEF Start
  <2>2. o \in Seq(Nat) /\ Variant(o, 0) = o
    BY VariantStart
  <2>3. TypeOK'
    BY <1>1, <2>1, <2>2 DEF IInv, TypeOK, Start, Finished
  <2>4. Progress(c)'
    <3>1. nonce'[c] = 0 /\ fallbacks'[c] = 0 /\ search'[c] = "queued" /\ answer'[c] = "waiting"
      BY <1>1 DEF IInv, TypeOK, Progress, Start
    <3>2. original'[c] = o /\ outputs'[c] = o
      BY <2>1 DEF IInv, TypeOK
    <3> QED
      BY <2>2, <3>1, <3>2 DEF Progress, Nonces
  <2>5. ASSUME NEW d \in Call, d # c PROVE Progress(d)'
    BY <1>1, <2>1, <2>5, OthersKeep DEF IInv, TypeOK, Start
  <2> QED
    BY <2>3, <2>4, <2>5 DEF IInv
<1>2. ASSUME NEW c \in Call, Return(c) \/ TimeOut(c) PROVE IInv'
  <2>1. TypeOK'
    BY <1>2 DEF IInv, TypeOK, Return, TimeOut, data
  <2>2. ASSUME NEW d \in Call PROVE Progress(d)'
    BY <1>2 DEF IInv, TypeOK, Progress, Searched, Candidate, Return, TimeOut, data
  <2> QED
    BY <2>1, <2>2 DEF IInv
<1>3. ASSUME NEW c \in Call, Run(c) PROVE IInv'
  <2>1. TypeOK'
    BY <1>3 DEF IInv, TypeOK, Run, data, Finished
  <2>2. ASSUME NEW d \in Call PROVE Progress(d)'
    BY <1>3 DEF IInv, TypeOK, Progress, Searched, Candidate, Run, data, Finished
  <2> QED
    BY <2>1, <2>2 DEF IInv
<1>4. ASSUME NEW c \in Call, Hit(c) PROVE IInv'
  <2>1. TypeOK'
    BY <1>4 DEF IInv, TypeOK, Hit, Finished
  <2>2. ASSUME NEW d \in Call PROVE Progress(d)'
    BY <1>4 DEF IInv, TypeOK, Progress, Searched, Candidate, Hit
  <2> QED
    BY <2>1, <2>2 DEF IInv
<1>5. ASSUME NEW c \in Call, Miss(c) PROVE IInv'
  <2>1. /\ search[c] = "running"
        /\ missed' = [missed EXCEPT ![c] = @ \cup {Candidate(c)}]
        /\ answer' = answer /\ original' = original
        /\ NextCandidate(c)
    BY <1>5 DEF Miss
  <2>2. /\ Candidate(c) \in Seq(Nat) \X Nonces
        /\ missed'[c] = missed[c] \cup {Candidate(c)}
    BY <2>1 DEF IInv, TypeOK, Candidate
  <2>3. CASE nonce[c] < MaxNonce /\ nonce' = [nonce EXCEPT ![c] = @ + 1]
             /\ UNCHANGED <<search, outputs, fallbacks>>
    <3>1. nonce[c] \in Nonces /\ nonce'[c] = nonce[c] + 1 /\ nonce'[c] \in Nonces
      BY <2>3 DEF IInv, TypeOK, Nonces
    <3>2. TypeOK'
      BY <2>1, <2>2, <2>3, <3>1 DEF IInv, TypeOK
    <3>3. Progress(c)'
      <4>1. \A m \in Nonces : m < nonce'[c] => m < nonce[c] \/ m = nonce[c]
        BY <3>1 DEF Nonces
      <4> QED
        BY <2>1, <2>2, <2>3, <4>1 DEF IInv, TypeOK, Progress, Searched, Candidate
    <3>4. ASSUME NEW d \in Call, d # c PROVE Progress(d)'
      BY <2>1, <2>3, <3>4, OthersKeep DEF IInv, TypeOK
    <3> QED
      BY <3>2, <3>3, <3>4 DEF IInv
  <2>4. CASE /\ nonce[c] = MaxNonce /\ fallbacks[c] < Fallbacks
             /\ outputs' = [outputs EXCEPT ![c] = Lower(@, fallbacks[c])]
             /\ nonce' = [nonce EXCEPT ![c] = 0]
             /\ fallbacks' = [fallbacks EXCEPT ![c] = @ + 1]
             /\ UNCHANGED search
    <3>1. fallbacks[c] \in 0..Fallbacks /\ fallbacks'[c] = fallbacks[c] + 1
          /\ fallbacks'[c] \in 0..Fallbacks
      BY <2>4 DEF IInv, TypeOK
    <3>2. original[c] \in Seq(Nat) /\ outputs[c] = Variant(original[c], fallbacks[c])
      BY DEF IInv, TypeOK, Progress
    <3>3. /\ outputs'[c] = Variant(original[c], fallbacks[c] + 1)
          /\ outputs'[c] \in Seq(Nat)
      BY <2>4, <3>1, <3>2, VariantStep, VariantStart DEF IInv, TypeOK
    <3>4. TypeOK'
      <4>1. outputs' \in [Call -> Seq(Nat)]
        BY <2>4, <3>3 DEF IInv, TypeOK
      <4>2. nonce' \in [Call -> Nonces]
        BY <2>4 DEF IInv, TypeOK, Nonces
      <4>3. fallbacks' \in [Call -> 0..Fallbacks]
        BY <2>4, <3>1 DEF IInv, TypeOK
      <4> QED
        BY <2>1, <2>2, <2>4, <4>1, <4>2, <4>3 DEF IInv, TypeOK
    <3>5. \A m \in Nonces : <<outputs[c], m>> \in missed'[c]
      <4>1. \A m \in Nonces : m < MaxNonce \/ m = MaxNonce
        BY DEF Nonces
      <4> QED
        BY <2>2, <2>4, <4>1 DEF IInv, Progress, Candidate
    <3>6. ASSUME NEW n \in 0..Fallbacks, n < fallbacks'[c]
          PROVE {Variant(original[c], n)} \X Nonces \subseteq missed'[c]
      <4>1. CASE n = fallbacks[c]
        BY <3>2, <3>5, <4>1
      <4>2. CASE n < fallbacks[c]
        BY <2>2, <4>2 DEF IInv, Progress, Searched
      <4> QED
        BY <3>1, <3>6, <4>1, <4>2
    <3>7. Progress(c)'
      <4>1. nonce'[c] = 0 /\ \A m \in Nonces : ~ (m < nonce'[c])
        BY <2>4 DEF IInv, TypeOK, Nonces
      <4> QED
        BY <2>1, <2>4, <3>1, <3>3, <3>6, <4>1 DEF IInv, Progress, Searched
    <3>8. ASSUME NEW d \in Call, d # c PROVE Progress(d)'
      BY <2>1, <2>4, <3>8, OthersKeep DEF IInv, TypeOK
    <3> QED
      BY <3>4, <3>7, <3>8 DEF IInv
  <2>5. CASE /\ nonce[c] = MaxNonce /\ fallbacks[c] >= Fallbacks
             /\ search' = [search EXCEPT ![c] = "exhausted"]
             /\ UNCHANGED <<outputs, nonce, fallbacks>>
    <3>1. fallbacks[c] = Fallbacks
      BY <2>5 DEF IInv, TypeOK
    <3>2. TypeOK'
      BY <2>1, <2>2, <2>5 DEF IInv, TypeOK, Finished
    <3>3. Progress(c)'
      BY <2>1, <2>2, <2>5, <3>1 DEF IInv, TypeOK, Progress, Searched, Candidate
    <3>4. ASSUME NEW d \in Call, d # c PROVE Progress(d)'
      BY <2>1, <2>5, <3>4, OthersKeep DEF IInv, TypeOK
    <3> QED
      BY <3>2, <3>3, <3>4 DEF IInv
  <2> QED
    BY <2>1, <2>3, <2>4, <2>5 DEF NextCandidate
<1>6. CASE UNCHANGED vars
  BY <1>6 DEF IInv, TypeOK, Progress, Searched, Candidate, vars, data
<1> QED
  BY <1>1, <1>2, <1>3, <1>4, <1>5, <1>6 DEF Next

\* The invariant says what the properties ask.
LEMMA IInvImplies == IInv => ExhaustedMeansAll /\ SpendsOnlyIfItMust
<1> SUFFICES ASSUME IInv PROVE ExhaustedMeansAll /\ SpendsOnlyIfItMust
  OBVIOUS
<1> USE LimitsAssumption
<1>1. SpendsOnlyIfItMust
  BY DEF IInv, Progress, SpendsOnlyIfItMust
<1>2. ASSUME NEW c \in Call, search[c] = "exhausted", NEW n \in 0..Fallbacks
      PROVE  Searched(c, Variant(original[c], n))
  <2>1. fallbacks[c] = Fallbacks /\ nonce[c] = MaxNonce /\ Candidate(c) \in missed[c]
    BY <1>2 DEF IInv, Progress
  <2>2. \A m \in Nonces : <<outputs[c], m>> \in missed[c]
    <3>1. \A m \in Nonces : m < MaxNonce \/ m = MaxNonce
      BY DEF Nonces
    <3> QED
      BY <2>1, <3>1 DEF IInv, Progress, Candidate
  <2>3. CASE n = Fallbacks
    BY <2>1, <2>2, <2>3 DEF IInv, Progress, Searched
  <2>4. CASE n < Fallbacks
    BY <2>1, <2>4 DEF IInv, Progress
  <2> QED
    BY <2>3, <2>4
<1> QED
  BY <1>1, <1>2 DEF ExhaustedMeansAll

\* Every variable of the miner keeps its type: no nonce beyond the last, no fallback
\* beyond the third, no amount below zero.
THEOREM TypeCorrect == Spec => []TypeOK
<1>1. IInv => TypeOK
  BY DEF IInv
<1> QED
  BY <1>1, InitIInv, NextIInv, PTL DEF Spec

\* A search gives up only after every nonce of every variant (mine_blocking).
THEOREM NothingLeftUntried == Spec => []ExhaustedMeansAll
  BY InitIInv, NextIInv, IInvImplies, PTL DEF Spec

\* The outputs change by the fallbacks alone, each after an exhausted nonce space.
THEOREM MoneySpentLast == Spec => []SpendsOnlyIfItMust
  BY InitIInv, NextIInv, IInvImplies, PTL DEF Spec
=============================================================================
