----------------------------- MODULE EntryTool -----------------------------
(***************************************************************************)
(* One run of entry-transaction-sender: it checks its arguments, loads the *)
(* configuration the server loads, and takes one transaction that locks    *)
(* KAS and tells L2 how much through creation, mining, signing and         *)
(* broadcast.  A script sees its exit code and nothing else.               *)
(*                                                                         *)
(* println! and eprintln! panic when nothing takes what they print, and    *)
(* the tool prints before it exits, whichever way it went.                 *)
(*                                                                         *)
(* The wallet daemon is external: it chooses the order of the outputs, and *)
(* may act on a broadcast after the tool gave up waiting.                  *)
(***************************************************************************)
EXTENDS Config, OutputVariance

CONSTANTS
  Amounts,                 \* what an amount argument may parse to; -1 if it does not
  MIN_ENTRY_AMOUNT_SOMPI,
  MAX_REASONABLE_SOMPI,
  Change,                  \* the change outputs the daemon may add
  Fallbacks                \* MAX_NONCE_EXHAUSTION_ATTEMPTS of the miner

ASSUME AmountsAssumption ==
  /\ MIN_ENTRY_AMOUNT_SOMPI \in Nat \ {0} /\ MAX_REASONABLE_SOMPI \in Nat
  /\ Amounts \subseteq Nat \cup {-1} /\ Change \subseteq Nat
ASSUME FallbacksAssumption ==
  Fallbacks \in Nat /\ Fallbacks <= MIN_ENTRY_AMOUNT_SOMPI

VARIABLES
  step,       \* what the tool does next
  exit,       \* its exit code
  amount,     \* the amount asked for, which the payload tells L2; 0 until it is validated
  outputs,    \* the outputs of the transaction
  payee,      \* the output that locks
  attempt,    \* attempts to create the transaction
  fallbacks,  \* the miner's fallbacks so far
  pending,    \* the daemon has the broadcast before it
  landed      \* history: the amounts locked on L1

txVars == <<amount, outputs, payee, fallbacks>>
daemonVars == <<pending, landed>>
vars == <<raw, step, exit, txVars, attempt, daemonVars>>

\* Exit codes: the tool's own, the usage error of its argument parser is 2,
\* a panic 101, an interrupt 130.
Running == -1
Success == 0
ValidationError == 1
ConfigError == 2
WalletError == 3
Panicked == 101
Interrupted == 130

Init ==
  /\ raw \in RawConfigs
  /\ step = "args" /\ exit = Running
  /\ amount = 0 /\ outputs = <<>> /\ payee = 1 /\ fallbacks = 0
  /\ attempt = 0
  /\ pending = FALSE /\ landed = <<>>

Quits(code) == step' = "exited" /\ exit' = code
Goes(to) == step' = to /\ UNCHANGED exit

\* handle_error, print_success_message: the message, then the exit code, or a panic.
Reports(code) == Quits(code) \/ Quits(Panicked)

-----------------------------------------------------------------------------
(* Before the wallet. *)

\* Mutant: an amount of zero passes.
ValidFromZero(a) == a \in 0..MAX_REASONABLE_SOMPI

\* validate_and_convert_amount.
ValidAmount(a) == a \in MIN_ENTRY_AMOUNT_SOMPI..MAX_REASONABLE_SOMPI

\* The parser of the arguments: --help or --version, or arguments missing or unknown.
ShowHelp ==
  /\ step = "args"
  /\ Quits(Success)
  /\ UNCHANGED <<raw, txVars, attempt, daemonVars>>
UsageError ==
  /\ step = "args"
  /\ Quits(ConfigError)
  /\ UNCHANGED <<raw, txVars, attempt, daemonVars>>

\* Amount, recipient, L2 address: the first that is wrong ends the tool.
Validate ==
  /\ step = "args"
  /\ \E a \in Amounts, addresses \in BOOLEAN :
       IF ValidAmount(a) /\ addresses
       THEN Goes("config") /\ amount' = a
       ELSE Reports(ValidationError) /\ UNCHANGED amount
  /\ UNCHANGED <<raw, outputs, payee, fallbacks, attempt, daemonVars>>

\* The lane is resolved here even if the configuration is read-only, and then
\* nothing validated the wallet.
LoadConfig ==
  /\ step = "config"
  /\ IF Loads /\ Resolve # "error" /\ (Resolve = "enforced" => EnforcementBuilds)
     THEN Goes("wallet") ELSE Reports(ConfigError)
  /\ UNCHANGED <<raw, txVars, attempt, daemonVars>>

\* A failure in the wallet, a gate or the miner.
StepFails ==
  /\ step \in {"wallet", "create", "mine", "sign"}
  /\ Reports(WalletError)
  /\ UNCHANGED <<raw, txVars, attempt, daemonVars>>

\* WalletCaller::new: a connection, an address and a password.
ConnectWallet ==
  /\ step = "wallet"
  /\ WalletConfig.wallet_daemon_uri # NoUrl
  /\ Goes("create")
  /\ attempt' = 1
  /\ UNCHANGED <<raw, txVars, daemonVars>>

-----------------------------------------------------------------------------
(* The wallet flow. *)

\* Mutant: one attempt too many.
RetriesPast ==
  /\ step = "create"
  /\ IF attempt <= RetryConfig.max_attempts
     THEN Goes("create") /\ attempt' = attempt + 1
     ELSE Reports(WalletError) /\ UNCHANGED attempt
  /\ UNCHANGED <<raw, txVars, daemonVars>>

\* The daemon has no funds: wait and try again, or give up after max_attempts.
NoFunds ==
  /\ step = "create"
  /\ IF attempt < RetryConfig.max_attempts
     THEN Goes("create") /\ attempt' = attempt + 1
     ELSE Reports(WalletError) /\ UNCHANGED attempt
  /\ UNCHANGED <<raw, txVars, daemonVars>>

\* The daemon pays the amount and returns the change, in either order.
Create ==
  /\ step = "create"
  /\ \/ outputs' = <<amount>> /\ payee' = 1
     \/ \E change \in Change :
          \/ outputs' = <<amount, change>> /\ payee' = 1
          \/ outputs' = <<change, amount>> /\ payee' = 2
  /\ Goes("mine")
  /\ UNCHANGED <<raw, amount, fallbacks, attempt, daemonVars>>

\* An answer that does not decode panics; the tool runs it on its main thread.
DecodePanics ==
  /\ step = "mine" /\ fallbacks = 0
  /\ Quits(Panicked)
  /\ UNCHANGED <<raw, txVars, attempt, daemonVars>>

\* No nonce gives the prefix: the miner takes a unit from an output.
Exhaust ==
  /\ step = "mine" /\ fallbacks < Fallbacks
  /\ outputs' = Lower(outputs, fallbacks)
  /\ fallbacks' = fallbacks + 1
  /\ UNCHANGED <<raw, step, exit, amount, payee, attempt, daemonVars>>

\* A nonce gives the prefix, and the gate before the broadcast lets it pass.
Mined ==
  /\ step = "mine"
  /\ Goes("sign")
  /\ UNCHANGED <<raw, txVars, attempt, daemonVars>>

\* The daemon has signed and is asked to broadcast.
Broadcast ==
  /\ step = "sign"
  /\ Goes("broadcast")
  /\ pending' = TRUE
  /\ UNCHANGED <<raw, txVars, attempt, landed>>

\* The daemon broadcasts, or does not, whether or not the tool still waits.
Lands ==
  /\ pending
  /\ landed' = Append(landed, outputs[payee])
  /\ pending' = FALSE
  /\ UNCHANGED <<raw, step, exit, txVars, attempt>>
Dropped ==
  /\ pending
  /\ pending' = FALSE
  /\ UNCHANGED <<raw, step, exit, txVars, attempt, landed>>

\* Mutant: an answer without ids is a success.
SucceedsWithoutIds ==
  /\ step = "broadcast" /\ ~pending
  /\ Quits(Success)
  /\ UNCHANGED <<raw, txVars, attempt, daemonVars>>

\* The daemon answers with ids.  If the message panics, what locked stays locked.
Answered ==
  /\ step = "broadcast" /\ ~pending /\ landed # <<>>
  /\ Reports(Success)
  /\ UNCHANGED <<raw, txVars, attempt, daemonVars>>

\* An error, no ids, or no answer in GRPC_TIMEOUT_SECS: the broadcast may have
\* happened, or may yet.
Unanswered ==
  /\ step = "broadcast"
  /\ Reports(WalletError)
  /\ UNCHANGED <<raw, txVars, attempt, daemonVars>>

Interrupt ==
  /\ step # "exited"
  /\ Quits(Interrupted)
  /\ UNCHANGED <<raw, txVars, attempt, daemonVars>>

Next ==
  \/ ShowHelp \/ UsageError \/ Validate \/ LoadConfig \/ StepFails \/ ConnectWallet
  \/ NoFunds \/ Create \/ DecodePanics \/ Exhaust \/ Mined \/ Broadcast
  \/ Lands \/ Dropped \/ Answered \/ Unanswered \/ Interrupt

Spec == Init /\ [][Next]_vars

-----------------------------------------------------------------------------
(* Properties. *)

\* The variables have their types; a transaction is only asked for under a configuration
\* whose retry table bounds how often.
TypeOK ==
  /\ raw \in RawConfigs
  /\ step \in {"args", "config", "wallet", "create", "mine", "sign", "broadcast", "exited"}
  /\ exit \in {Running, Success, ValidationError, ConfigError, WalletError, Panicked, Interrupted}
  /\ amount \in Nat
  /\ outputs \in Seq(Nat)
  /\ payee \in {1, 2}
  /\ attempt = 0 \/ attempt \in 1..RetryConfig.max_attempts
  /\ fallbacks \in 0..Fallbacks
  /\ pending \in BOOLEAN
  /\ landed \in Seq(Nat)

\* What a script may conclude from the exit code.  If it asked for an amount that
\* passes, 0 means that exactly one transaction locked; 1 and 2 mean that none did or
\* will, and so does any code if nothing was asked (amount = 0: only help, or arguments
\* that are refused).  3, 101 and 130 leave it open.  No run locks twice, and none locks
\* under a configuration that does not load or resolve.
ExitTellsOutcome ==
  /\ exit = Success /\ amount # 0 => Len(landed) = 1 /\ ~pending
  /\ exit \in {ValidationError, ConfigError} \/ amount = 0 => landed = <<>> /\ ~pending
  /\ pending => landed = <<>>
  /\ Len(landed) <= 1
  /\ landed # <<>> => Loads /\ Resolve # "error"

\* The miner's fallbacks take from the locked amount at most its output's share
\* of them, and never everything: what L2 is told and what is locked stay that close.
LockedWithinFallbacks ==
  \A i \in 1..Len(landed) :
    /\ amount >= MIN_ENTRY_AMOUNT_SOMPI
    /\ landed[i] <= amount
    /\ (amount - landed[i]) * Len(outputs) < Fallbacks + Len(outputs)

\* The tool's documentation: what L2 issues equals what L1 locked.
LockedEqualsMinted == \A i \in 1..Len(landed) : landed[i] = amount
=============================================================================
