-------------------------- MODULE EntryTool_proofs --------------------------
(* What the exit code of the entry tool tells, and how far the locked amount *)
(* may be from the one L2 is told, for every configuration, bound on the     *)
(* amounts, change and number of fallbacks.                                  *)
EXTENDS EntryTool, TLAPS

Before == {"args", "config", "wallet", "create", "mine", "sign"}
Prepared == {"wallet", "create", "mine", "sign", "broadcast"}
Built == {"mine", "sign", "broadcast"}

\* The configuration lets the tool go on.
Resolves == Loads /\ Resolve # "error"

\* The part of the types that does not depend on the configuration's values.
Types ==
  /\ step \in Before \cup {"broadcast", "exited"}
  /\ amount \in Nat /\ fallbacks \in 0..Fallbacks
  /\ pending \in BOOLEAN /\ landed \in Seq(Nat)

\* The exit code is set by the last step, and the daemon is asked only after the others.
Outcome ==
  /\ step # "exited" <=> exit = Running
  /\ step \in Before => ~pending /\ landed = <<>>
  /\ step = "args" => amount = 0
  /\ exit \in {ValidationError, ConfigError} \/ amount = 0 => ~pending /\ landed = <<>>
  /\ exit = Success /\ amount # 0 => Len(landed) = 1 /\ ~pending
  /\ pending => landed = <<>>
  /\ Len(landed) <= 1
  /\ step \in Prepared \/ pending \/ landed # <<>> => Resolves

\* The units the fallbacks took from the output that locks.
Taken == IF Len(outputs) = 1 THEN fallbacks ELSE (fallbacks + 2 - payee) \div 2

\* The output that locks holds the amount less what its turns took.
Paid ==
  /\ outputs \in Seq(Nat) /\ Len(outputs) \in {1, 2} /\ payee \in 1..Len(outputs)
  /\ outputs[payee] = amount - Taken

Money ==
  /\ step \in {"args", "config", "wallet", "create"} => fallbacks = 0
  /\ step \in {"config"} \cup Prepared \/ pending \/ landed # <<>> => amount >= MIN_ENTRY_AMOUNT_SOMPI
  /\ step \in Built \/ pending \/ landed # <<>> => Paid
  /\ \A i \in 1..Len(landed) : landed[i] = outputs[payee]

Inv == Types /\ Outcome /\ Money

\* What the constants are.
LEMMA ConstantTypes ==
  /\ MIN_ENTRY_AMOUNT_SOMPI \in Nat \ {0} /\ MAX_REASONABLE_SOMPI \in Nat
  /\ Fallbacks \in Nat /\ Fallbacks <= MIN_ENTRY_AMOUNT_SOMPI /\ Change \subseteq Nat
  /\ \A a \in Amounts : ValidAmount(a) => a \in Nat /\ a >= MIN_ENTRY_AMOUNT_SOMPI
BY AmountsAssumption, FallbacksAssumption DEF ValidAmount

\* Of two outputs, each takes every second turn.
LEMMA EverySecondTurn ==
  ASSUME NEW f \in Nat, NEW p \in {1, 2}
  PROVE  /\ (f + 2 - p) \div 2 \in 0..f
         /\ 1 + (f % 2) = p => (f + 3 - p) \div 2 = ((f + 2 - p) \div 2) + 1
         /\ 1 + (f % 2) # p => (f + 3 - p) \div 2 = (f + 2 - p) \div 2
<1> DEFINE q == f \div 2
<1>1. q \in Nat /\ (f = 2 * q \/ f = (2 * q) + 1)
  OBVIOUS
<1>2. /\ f = 2 * q => f % 2 = 0 /\ (f + 1) \div 2 = q /\ (f + 2) \div 2 = q + 1
      /\ f = (2 * q) + 1 => f % 2 = 1 /\ (f + 1) \div 2 = q + 1 /\ (f + 2) \div 2 = q + 1
  BY <1>1
<1> HIDE DEF q
<1>3. f \div 2 = q
  BY DEF q
<1>4. CASE p = 1
  <2>1. f + 2 - p = f + 1 /\ f + 3 - p = f + 2
    BY <1>4
  <2> QED
    BY <1>1, <1>2, <1>4, <2>1
<1>5. CASE p = 2
  <2>1. f + 2 - p = f /\ f + 3 - p = f + 1
    BY <1>5
  <2> QED
    BY <1>1, <1>2, <1>3, <1>5, <2>1
<1> QED
  BY <1>4, <1>5

\* A fallback takes a unit from the output that locks exactly when it is its turn,
\* and there is one to take.
LEMMA ExhaustKeepsPaid ==
  ASSUME Types, Paid, amount >= MIN_ENTRY_AMOUNT_SOMPI, fallbacks < Fallbacks,
         outputs' = Lower(outputs, fallbacks), fallbacks' = fallbacks + 1,
         UNCHANGED <<amount, payee>>
  PROVE  Paid'
<1> DEFINE n == Len(outputs)
           t == Turn(outputs, fallbacks)
<1>1. fallbacks \in Nat /\ amount \in Nat /\ fallbacks < amount
  BY ConstantTypes DEF Types
<1>2. /\ outputs \in Seq(Nat) /\ n \in {1, 2} /\ payee \in 1..n /\ outputs # <<>>
      /\ DOMAIN outputs = 1..n /\ outputs[payee] = amount - Taken
  BY DEF Paid
<1>3. n = 1 => t = 1
  BY <1>1, <1>2 DEF Turn
<1>4. n = 2 => t = 1 + (fallbacks % 2)
  BY <1>1, <1>2 DEF Turn
<1>5. t \in 1..n
  BY <1>1, <1>2, <1>3, <1>4
<1>6. outputs' = IF outputs[t] > 0 THEN [outputs EXCEPT ![t] = outputs[t] - 1] ELSE outputs
  BY <1>2 DEF Lower
<1>7. outputs[t] \in Nat
  BY <1>2, <1>5
<1>8. outputs' \in Seq(Nat) /\ Len(outputs') = n
  <2>1. CASE outputs[t] > 0
    <3>1. outputs[t] - 1 \in Nat
      BY <1>7, <2>1
    <3>2. \A v \in Nat : [outputs EXCEPT ![t] = v] \in Seq(Nat) /\ Len([outputs EXCEPT ![t] = v]) = n
      BY <1>2, <1>5
    <3> QED
      BY <1>6, <2>1, <3>1, <3>2
  <2>2. CASE ~(outputs[t] > 0)
    BY <1>2, <1>6, <2>2
  <2> QED
    BY <2>1, <2>2
<1>9. CASE t = payee
  <2>1. Taken' = Taken + 1 /\ Taken <= fallbacks
    <3>1. CASE n = 1
      BY <1>1, <1>8, <3>1 DEF Taken
    <3>2. CASE n = 2
      <4>1. Taken = (fallbacks + 2 - payee) \div 2 /\ Taken' = (fallbacks + 3 - payee) \div 2
        BY <1>1, <1>2, <1>8, <3>2 DEF Taken
      <4> QED
        BY <1>1, <1>2, <1>4, <1>9, <3>2, <4>1, EverySecondTurn
    <3> QED
      BY <1>2, <3>1, <3>2
  <2>2. outputs[payee] > 0
    BY <1>1, <1>2, <2>1 DEF Taken
  <2>3. outputs'[payee] = outputs[payee] - 1
    BY <1>2, <1>5, <1>6, <1>9, <2>2
  <2>4. Taken \in Int
    BY <1>1, <1>2 DEF Taken
  <2>5. outputs[payee] = amount - Taken /\ amount' = amount
    BY <1>1, <1>2 DEF Paid
  <2>6. outputs'[payee] = amount' - Taken'
    BY <1>1, <2>1, <2>3, <2>4, <2>5
  <2> QED
    BY <1>2, <1>8, <2>6 DEF Paid
<1>10. CASE t # payee
  <2>1. n = 2 /\ Taken' = Taken
    <3>1. n = 2
      BY <1>2, <1>3, <1>10
    <3>2. Taken = (fallbacks + 2 - payee) \div 2 /\ Taken' = (fallbacks + 3 - payee) \div 2
      BY <1>1, <1>2, <1>8, <3>1 DEF Taken
    <3>3. payee \in {1, 2} /\ 1 + (fallbacks % 2) # payee
      BY <1>2, <1>4, <1>10, <3>1
    <3>4. (fallbacks + 3 - payee) \div 2 = (fallbacks + 2 - payee) \div 2
      BY <1>1, <3>3, EverySecondTurn
    <3> QED
      BY <3>1, <3>2, <3>4
  <2>2. outputs'[payee] = outputs[payee]
    BY <1>2, <1>5, <1>6, <1>10
  <2> QED
    BY <1>2, <1>8, <2>1, <2>2 DEF Paid
<1> QED
  BY <1>9, <1>10

\* What is true at the start, whatever the configuration.
LEMMA InitInv == Init => Inv
<1> SUFFICES ASSUME Init PROVE Inv
  OBVIOUS
<1> USE DEF Init, Before, Prepared, Built
<1>1. landed = <<>> /\ Len(landed) = 0 /\ landed \in Seq(Nat)
  OBVIOUS
<1>2. Types
  <2>1. step \in Before /\ pending \in BOOLEAN
    OBVIOUS
  <2>2. amount \in Nat /\ fallbacks \in 0..Fallbacks
    BY ConstantTypes
  <2> QED
    BY <1>1, <2>1, <2>2 DEF Types
<1>3. Outcome
  BY <1>1 DEF Outcome, Running, Success, ValidationError, ConfigError, Panicked
<1>4. Money
  BY <1>1 DEF Money
<1> QED
  BY <1>2, <1>3, <1>4 DEF Inv

\* A configuration resolves or does not; it is read once.
LEMMA ConfigurationStays == UNCHANGED raw => (Resolves' <=> Resolves)
<1> SUFFICES ASSUME UNCHANGED raw PROVE Resolves' <=> Resolves
  OBVIOUS
<1>1. Tables' = Tables /\ \A t, f : Has(t, f)' <=> Has(t, f)
  BY DEF Tables, Has
<1>2. /\ ServerConfig' = ServerConfig /\ WalletConfig' = WalletConfig
      /\ SecurityConfig' = SecurityConfig /\ MiningConfig' = MiningConfig
  BY DEF ServerConfig, WalletConfig, SecurityConfig, MiningConfig, Get
<1>3. ProxyConfig' = ProxyConfig
  BY DEF ProxyConfig, Get
<1>4. LaneConfig' = LaneConfig /\ GasConfig' = GasConfig /\ RetryConfig' = RetryConfig
  BY DEF LaneConfig, GasConfig, RetryConfig, Get
<1>5. Resolve' = Resolve
  BY <1>4 DEF Resolve, ParsesAsLane
<1>6. Deserializes' <=> Deserializes
  <2>1. Flags' = Flags
    BY <1>2, <1>4 DEF Flags
  <2>2. Numbers' = Numbers
    BY <1>2, <1>3, <1>4 DEF Numbers
  <2>3. PrefixParses' <=> PrefixParses
    BY <1>2 DEF PrefixParses
  <2> QED
    BY <1>1, <2>1, <2>2, <2>3 DEF Deserializes, Complete
<1>7. Validates' <=> Validates
  BY <1>2, <1>3, <1>4, <1>5 DEF Validates, ServerValid, ProxyValid, WalletValid, MiningValid,
     GasValid, RetryValid, is_read_only
<1> QED
  BY <1>5, <1>6, <1>7 DEF Resolves, Loads

\* A list that is not empty and has one element at most has one.
LEMMA OneElement ==
  ASSUME NEW s \in Seq(Nat), s # <<>>, Len(s) <= 1
  PROVE  Len(s) = 1
<1>1. \A n \in Nat : n # 0 /\ n <= 1 => n = 1
  OBVIOUS
<1>2. Len(s) \in Nat /\ Len(s) # 0
  OBVIOUS
<1> QED
  BY <1>1, <1>2

\* The exit code and the daemon: each action keeps them in step.
LEMMA OutcomeStep == Inv /\ [Next]_vars => Types' /\ Outcome'
<1> SUFFICES ASSUME Inv, [Next]_vars PROVE Types' /\ Outcome'
  OBVIOUS
<1> USE ConstantTypes DEF Inv, Types, Outcome, Before, Prepared, Quits, Reports, Goes, Running,
      Success, ValidationError, ConfigError, WalletError, Panicked, Interrupted,
      txVars, daemonVars
<1>1. UNCHANGED raw => (Resolves' <=> Resolves)
  BY ConfigurationStays
<1>2. CASE ShowHelp \/ UsageError
  BY <1>1, <1>2 DEF ShowHelp, UsageError
<1>3. CASE Validate
  BY <1>1, <1>3 DEF Validate
<1>4. CASE LoadConfig
  BY <1>1, <1>4 DEF LoadConfig, Resolves
<1>5. CASE StepFails
  BY <1>1, <1>5 DEF StepFails
<1>6. CASE ConnectWallet
  BY <1>1, <1>6 DEF ConnectWallet
<1>7. CASE NoFunds
  BY <1>1, <1>7 DEF NoFunds
<1>8. CASE Create
  BY <1>1, <1>8 DEF Create
<1>9. CASE DecodePanics
  BY <1>1, <1>9 DEF DecodePanics
<1>10. CASE Exhaust
  BY <1>1, <1>10 DEF Exhaust
<1>11. CASE Mined
  BY <1>1, <1>11 DEF Mined
<1>12. CASE Broadcast
  <2>1. amount # 0
    BY <1>12 DEF Broadcast, Money
  <2> QED
    BY <1>1, <1>12, <2>1 DEF Broadcast
<1>13. CASE Lands
  <2>1. outputs[payee] \in Nat /\ landed = <<>>
    BY <1>13 DEF Lands, Money, Paid
  <2>2. landed' \in Seq(Nat) /\ Len(landed') = 1
    BY <1>13, <2>1 DEF Lands
  <2>3. /\ pending /\ pending' = FALSE /\ Resolves'
        /\ step' = step /\ exit' = exit /\ amount' = amount /\ fallbacks' = fallbacks
    BY <1>1, <1>13 DEF Lands
  <2>4. Types'
    BY <2>2, <2>3
  <2>5. Outcome'
    BY <2>2, <2>3
  <2> QED
    BY <2>4, <2>5
<1>14. CASE Dropped
  BY <1>1, <1>14 DEF Dropped
<1>15. CASE Answered
  <2>1. landed # <<>> /\ landed \in Seq(Nat) /\ Len(landed) <= 1
    BY <1>15 DEF Answered
  <2>2. Len(landed) = 1
    BY <2>1, OneElement
  <2>3. /\ step = "broadcast" /\ Resolves' /\ pending = FALSE /\ pending' = FALSE
        /\ step' = "exited" /\ exit' \in {Success, Panicked} /\ landed' = landed
        /\ amount' = amount /\ fallbacks' = fallbacks
    BY <1>1, <1>15 DEF Answered
  <2>4. Types'
    BY <2>3
  <2>5. Len(landed') = 1 /\ Len(landed') <= 1
    BY <2>2, <2>3
  <2>6. Outcome'
    BY <2>3, <2>5
  <2> QED
    BY <2>4, <2>6
<1>16. CASE Unanswered
  BY <1>1, <1>16 DEF Unanswered
<1>17. CASE Interrupt
  BY <1>1, <1>17 DEF Interrupt
<1>18. CASE UNCHANGED vars
  BY <1>1, <1>18 DEF vars
<1> QED
  BY <1>2, <1>3, <1>4, <1>5, <1>6, <1>7, <1>8, <1>9, <1>10, <1>11, <1>12, <1>13, <1>14,
     <1>15, <1>16, <1>17, <1>18 DEF Next

\* The locked amount: only the creation and the fallbacks change it, and neither can
\* happen once the daemon may have the transaction.
LEMMA MoneyStep == Inv /\ [Next]_vars => Money'
<1> SUFFICES ASSUME Inv, [Next]_vars PROVE Money'
  OBVIOUS
<1> USE ConstantTypes DEF Inv, Types, Outcome, Money, Before, Prepared, Built, Goes, Quits, Reports,
      txVars, daemonVars
<1>1. UNCHANGED txVars => (Paid' <=> Paid)
  BY DEF Paid, Taken
<1>2. CASE Validate
  BY <1>1, <1>2 DEF Validate
<1>3. CASE Create
  <2>1. Paid'
    <3>1. CASE outputs' = <<amount>> /\ payee' = 1
      BY <1>3, <3>1 DEF Create, Paid, Taken
    <3>2. ASSUME NEW change \in Change, outputs' = <<amount, change>>, payee' = 1
          PROVE  Paid'
      BY <1>3, <3>2 DEF Create, Paid, Taken
    <3>3. ASSUME NEW change \in Change, outputs' = <<change, amount>>, payee' = 2
          PROVE  Paid'
      BY <1>3, <3>3 DEF Create, Paid, Taken
    <3> QED
      BY <1>3, <3>1, <3>2, <3>3 DEF Create
  <2> QED
    BY <1>3, <2>1 DEF Create
<1>4. CASE Exhaust
  <2>1. Paid'
    BY <1>4, ExhaustKeepsPaid DEF Exhaust
  <2> QED
    BY <1>4, <2>1 DEF Exhaust
<1>5. CASE Lands
  <2>1. landed' = <<outputs[payee]>>
    BY <1>5 DEF Lands
  <2>2. \A i \in 1..Len(landed') : landed'[i] = outputs[payee]
    BY <2>1
  <2>3. step \notin Before /\ pending /\ landed = <<>>
    BY <1>5 DEF Lands
  <2>4. step' = step /\ UNCHANGED txVars
    BY <1>5 DEF Lands
  <2>5. amount >= MIN_ENTRY_AMOUNT_SOMPI
    BY <2>3
  <2>6. Paid'
    BY <1>1, <2>3, <2>4
  <2> QED
    BY <2>2, <2>3, <2>4, <2>5, <2>6
<1>6. CASE ShowHelp \/ UsageError \/ LoadConfig \/ StepFails \/ ConnectWallet \/ NoFunds
  BY <1>1, <1>6 DEF ShowHelp, UsageError, LoadConfig, StepFails, ConnectWallet, NoFunds
<1>7. CASE DecodePanics \/ Mined \/ Broadcast \/ Dropped
  BY <1>1, <1>7 DEF DecodePanics, Mined, Broadcast, Dropped
<1>8. CASE Answered \/ Unanswered \/ Interrupt \/ UNCHANGED vars
  BY <1>1, <1>8 DEF Answered, Unanswered, Interrupt, vars
<1> QED
  BY <1>2, <1>3, <1>4, <1>5, <1>6, <1>7, <1>8 DEF Next

\* The three parts of the invariant hold together.
LEMMA Invariance == Spec => []Inv
<1>1. Inv /\ [Next]_vars => Inv'
  BY OutcomeStep, MoneyStep DEF Inv
<1> QED
  BY <1>1, InitInv, PTL DEF Spec

\* The rest of the types: the attempts are bounded by a retry table that was validated.
Rest ==
  /\ raw \in RawConfigs
  /\ exit \in {Running, Success, ValidationError, ConfigError, WalletError, Panicked, Interrupted}
  /\ outputs \in Seq(Nat) /\ payee \in {1, 2}
  /\ attempt = 0 \/ attempt \in 1..RetryConfig.max_attempts

\* A configuration that loads allows one attempt at least.
LEMMA AttemptsAllowed ==
  ASSUME raw \in RawConfigs, Loads
  PROVE  RetryConfig.max_attempts \in Nat /\ RetryConfig.max_attempts >= 1
<1>1. <<"retry", "max_attempts">> \in NumberFields
  BY DEF NumberFields
<1>2. RetryConfig.max_attempts \in Int
  BY <1>1, RawConfigsAssumption DEF RetryConfig, Get
<1>3. RetryConfig.max_attempts >= 0
  BY DEF Loads, Deserializes, Numbers
<1>4. RetryConfig.max_attempts # 0
  BY DEF Loads, Validates, RetryValid
<1> QED
  BY <1>2, <1>3, <1>4

\* Each action keeps the rest of the types.
LEMMA RestStep == Inv /\ Rest /\ [Next]_vars => Rest'
<1> SUFFICES ASSUME Inv, Rest, [Next]_vars PROVE Rest'
  OBVIOUS
<1> USE DEF Rest, Quits, Reports, Goes, Running, Success, ValidationError, ConfigError, WalletError, Panicked,
      Interrupted, txVars, daemonVars
<1>1. UNCHANGED raw
  BY DEF Next, vars, ShowHelp, UsageError, Validate, LoadConfig, StepFails, ConnectWallet, NoFunds, Create,
     DecodePanics, Exhaust, Mined, Broadcast, Lands, Dropped, Answered, Unanswered, Interrupt
<1>2. RetryConfig.max_attempts' = RetryConfig.max_attempts
  BY <1>1 DEF RetryConfig, Get
<1>3. step \in {"wallet", "create"} => RetryConfig.max_attempts \in Nat /\ RetryConfig.max_attempts >= 1
  BY AttemptsAllowed DEF Inv, Outcome, Prepared, Resolves
<1> HIDE DEF Inv
<1>4. CASE ShowHelp \/ UsageError \/ Validate \/ LoadConfig \/ StepFails
  BY <1>1, <1>2, <1>4 DEF ShowHelp, UsageError, Validate, LoadConfig, StepFails
<1>5. CASE ConnectWallet
  BY <1>1, <1>2, <1>3, <1>5 DEF ConnectWallet
<1>6. CASE NoFunds
  <2>1. step = "create" /\ RetryConfig.max_attempts \in Nat /\ RetryConfig.max_attempts >= 1
    BY <1>3, <1>6 DEF NoFunds
  <2>2. UNCHANGED <<outputs, payee>>
    BY <1>6 DEF NoFunds
  <2>3. CASE attempt < RetryConfig.max_attempts
    <3>1. attempt' = attempt + 1 /\ UNCHANGED exit
      BY <1>6, <2>3 DEF NoFunds
    <3>2. attempt' \in 1..RetryConfig.max_attempts
      BY <2>1, <2>3, <3>1
    <3> QED
      BY <1>1, <1>2, <2>2, <3>1, <3>2
  <2>4. CASE ~(attempt < RetryConfig.max_attempts)
    BY <1>1, <1>2, <1>6, <2>2, <2>4 DEF NoFunds
  <2> QED
    BY <2>3, <2>4
<1>7. CASE Create
  <2>1. outputs' \in Seq(Nat) /\ payee' \in {1, 2}
    <3>1. amount \in Nat /\ Change \subseteq Nat
      BY ConstantTypes DEF Inv, Types
    <3>2. CASE outputs' = <<amount>> /\ payee' = 1
      BY <3>1, <3>2
    <3>3. ASSUME NEW change \in Change, outputs' = <<amount, change>>, payee' = 1
          PROVE  outputs' \in Seq(Nat) /\ payee' \in {1, 2}
      BY <3>1, <3>3
    <3>4. ASSUME NEW change \in Change, outputs' = <<change, amount>>, payee' = 2
          PROVE  outputs' \in Seq(Nat) /\ payee' \in {1, 2}
      BY <3>1, <3>4
    <3> QED
      BY <1>7, <3>2, <3>3, <3>4 DEF Create
  <2> QED
    BY <1>1, <1>2, <1>7, <2>1 DEF Create
<1>8. CASE Exhaust
  <2>1. Paid /\ amount >= MIN_ENTRY_AMOUNT_SOMPI /\ Types
    BY <1>8 DEF Exhaust, Inv, Money, Built, Prepared
  <2>2. Paid'
    BY <1>8, <2>1, ExhaustKeepsPaid DEF Exhaust
  <2> QED
    BY <1>1, <1>2, <1>8, <2>2 DEF Exhaust, Paid
<1>9. CASE DecodePanics \/ Mined \/ Broadcast \/ Lands \/ Dropped
  BY <1>1, <1>2, <1>9 DEF DecodePanics, Mined, Broadcast, Lands, Dropped
<1>10. CASE Answered \/ Unanswered \/ Interrupt \/ UNCHANGED vars
  BY <1>1, <1>2, <1>10 DEF Answered, Unanswered, Interrupt, vars
<1> QED
  BY <1>4, <1>5, <1>6, <1>7, <1>8, <1>9, <1>10 DEF Next

\* The types (TypeOK): the tool never tries more often than a validated retry table
\* says, the fallbacks never take more than they may, and no output becomes negative.
THEOREM TypeCorrect == Spec => []TypeOK
<1>1. Init => Rest
  BY DEF Init, Rest, Running
<1>2. Inv /\ Rest => TypeOK
  BY DEF Inv, Types, Rest, TypeOK, Before
<1> QED
  BY <1>1, <1>2, RestStep, Invariance, PTL DEF Spec

\* What a script may conclude from the exit code (ExitTellsOutcome): once an amount was
\* asked for, 0 only after one transaction locked; 1 and 2 only if none did or will.
THEOREM ExitCodeIsTruthful == Spec => []ExitTellsOutcome
<1>1. Inv => ExitTellsOutcome
  BY DEF Inv, Outcome, ExitTellsOutcome, Resolves
<1> QED
  BY <1>1, Invariance, PTL

\* The amount locked is the amount asked for, less at most the share of the
\* fallbacks that falls to its output (LockedWithinFallbacks).
THEOREM LockedAmountIsClose == Spec => []LockedWithinFallbacks
<1>1. Inv => LockedWithinFallbacks
  <2> SUFFICES ASSUME Inv, NEW i \in 1..Len(landed)
               PROVE  /\ amount >= MIN_ENTRY_AMOUNT_SOMPI
                      /\ landed[i] <= amount
                      /\ (amount - landed[i]) * Len(outputs) < Fallbacks + Len(outputs)
    BY DEF LockedWithinFallbacks
  <2>1. landed # <<>>
    BY DEF Inv, Types
  <2>2. Paid /\ amount >= MIN_ENTRY_AMOUNT_SOMPI /\ landed[i] = outputs[payee]
    BY <2>1 DEF Inv, Money
  <2>3. fallbacks \in Nat /\ fallbacks <= Fallbacks /\ amount \in Nat /\ Fallbacks \in Nat
    BY ConstantTypes DEF Inv, Types
  <2>4. CASE Len(outputs) = 1
    BY <2>2, <2>3, <2>4 DEF Paid, Taken
  <2>5. CASE Len(outputs) = 2
    <3> DEFINE q == (fallbacks + 2 - payee) \div 2
    <3>1. payee \in {1, 2} /\ landed[i] = amount - q
      BY <2>2, <2>5 DEF Paid, Taken
    <3>2. q \in Nat /\ 2 * q <= fallbacks + 1
      BY <2>3, <3>1
    <3> HIDE DEF q
    <3> QED
      BY <2>2, <2>3, <2>5, <3>1, <3>2
  <2> QED
    BY <2>2, <2>4, <2>5 DEF Paid
<1> QED
  BY <1>1, Invariance, PTL
=============================================================================
