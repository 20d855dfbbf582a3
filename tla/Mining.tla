------------------------------- MODULE Mining -------------------------------
(***************************************************************************)
(* The nonce search of services/mining.rs.  The worker calls               *)
(* mine_transaction for one transaction after the other; each call moves   *)
(* its transaction into a closure on tokio's blocking pool and waits for   *)
(* it at most timeout_seconds.  A closure cannot be cancelled: when the    *)
(* wait times out the search goes on, holding its thread, and the worker   *)
(* is already mining the next transaction.                                 *)
(*                                                                         *)
(* A search hashes one candidate per step: a nonce written over the last   *)
(* bytes of the payload of a variant of the transaction.  A variant is     *)
(* told apart by its output values, the only other thing the code changes. *)
(***************************************************************************)
EXTENDS Naturals, Sequences, FiniteSets, OutputVariance

CONSTANTS
  Calls,        \* how many times the worker calls mine_transaction (bound)
  MaxNonce,     \* u32::MAX, scaled down
  Fallbacks,    \* MAX_NONCE_EXHAUSTION_ATTEMPTS
  PoolSize,     \* threads of tokio's blocking pool, scaled down
  OutputLists   \* the output values a transaction may come with

ASSUME LimitsAssumption ==
  Calls \in Nat /\ MaxNonce \in Nat /\ Fallbacks \in Nat /\ PoolSize \in Nat \ {0}
ASSUME OutputsAssumption == OutputLists \subseteq Seq(Nat)

Call   == 1..Calls
Nonces == 0..MaxNonce

VARIABLES
  answer,    \* what mine_transaction has returned to each call
  search,    \* where the closure of each call is
  original,  \* the outputs the call came with
  outputs,   \* transaction.tx.outputs, as the search has changed them
  nonce,
  fallbacks, \* nonce_exhaustion_count
  missed     \* history: the candidates whose id lacks the prefix

data == <<original, outputs, nonce, fallbacks, missed>>
vars == <<answer, search, data>>

Finished == {"found", "exhausted"}

TypeOK ==
  /\ answer \in [Call -> {"none", "waiting", "mined", "exhausted", "timeout"}]
  /\ search \in [Call -> {"none", "queued", "running"} \cup Finished]
  /\ original \in [Call -> Seq(Nat)]
  /\ outputs \in [Call -> Seq(Nat)]
  /\ nonce \in [Call -> Nonces]
  /\ fallbacks \in [Call -> 0..Fallbacks]
  /\ missed \in [Call -> SUBSET (Seq(Nat) \X Nonces)]

Init ==
  /\ answer = [c \in Call |-> "none"]
  /\ search = [c \in Call |-> "none"]
  /\ original = [c \in Call |-> <<>>]
  /\ outputs = [c \in Call |-> <<>>]
  /\ nonce = [c \in Call |-> 0]
  /\ fallbacks = [c \in Call |-> 0]
  /\ missed = [c \in Call |-> {}]

-----------------------------------------------------------------------------
(* The call. *)

\* mine_transaction: the worker has no other call in progress.
Start(c) ==
  /\ answer[c] = "none"
  /\ \A d \in Call : d < c => answer[d] \notin {"none", "waiting"}
  /\ \E o \in OutputLists :
       /\ original' = [original EXCEPT ![c] = o]
       /\ outputs' = [outputs EXCEPT ![c] = o]
  /\ answer' = [answer EXCEPT ![c] = "waiting"]
  /\ search' = [search EXCEPT ![c] = "queued"]
  /\ UNCHANGED <<nonce, fallbacks, missed>>

\* The search has finished and the call passes its result on.
Return(c) ==
  /\ answer[c] = "waiting"
  /\ search[c] \in Finished
  /\ answer' = [answer EXCEPT ![c] = IF search[c] = "found" THEN "mined" ELSE "exhausted"]
  /\ UNCHANGED <<search, data>>

\* Mutant: the clock starts with the search and not with the call.
TimeOutOnceRunning(c) ==
  /\ answer[c] = "waiting"
  /\ search[c] = "running"
  /\ answer' = [answer EXCEPT ![c] = "timeout"]
  /\ UNCHANGED <<search, data>>

\* timeout() polls the search first, so it only fires on an unfinished one.
TimeOut(c) ==
  /\ answer[c] = "waiting"
  /\ search[c] \notin Finished
  /\ answer' = [answer EXCEPT ![c] = "timeout"]
  /\ UNCHANGED <<search, data>>

-----------------------------------------------------------------------------
(* The search. *)

Running == {c \in Call : search[c] = "running"}

\* A free thread of the pool takes the oldest closure.
Run(c) ==
  /\ search[c] = "queued"
  /\ Cardinality(Running) < PoolSize
  /\ \A d \in Call : d < c => search[d] # "queued"
  /\ search' = [search EXCEPT ![c] = "running"]
  /\ UNCHANGED <<answer, data>>

Candidate(c) == <<outputs[c], nonce[c]>>

\* check_prefix holds.  A hash is a function: what missed once misses again.
Hit(c) ==
  /\ search[c] = "running"
  /\ Candidate(c) \notin missed[c]
  /\ search' = [search EXCEPT ![c] = "found"]
  /\ UNCHANGED <<answer, original, outputs, nonce, fallbacks, missed>>

\* Mutants: the nonce overflows after its last value; the last nonce is given up on
\* unhashed; the search never gives up.
NextCandidateUnchecked(c) ==
  \/ /\ nonce[c] <= MaxNonce
     /\ nonce' = [nonce EXCEPT ![c] = @ + 1]
     /\ UNCHANGED <<search, outputs, fallbacks>>
  \/ /\ nonce[c] > MaxNonce
     /\ search' = [search EXCEPT ![c] = "exhausted"]
     /\ UNCHANGED <<outputs, nonce, fallbacks>>

NextCandidateEarly(c) ==
  \/ /\ nonce[c] + 1 < MaxNonce
     /\ nonce' = [nonce EXCEPT ![c] = @ + 1]
     /\ UNCHANGED <<search, outputs, fallbacks>>
  \/ /\ nonce[c] + 1 >= MaxNonce /\ fallbacks[c] < Fallbacks
     /\ outputs' = [outputs EXCEPT ![c] = Lower(@, fallbacks[c])]
     /\ nonce' = [nonce EXCEPT ![c] = 0]
     /\ fallbacks' = [fallbacks EXCEPT ![c] = @ + 1]
     /\ UNCHANGED search
  \/ /\ nonce[c] + 1 >= MaxNonce /\ fallbacks[c] >= Fallbacks
     /\ search' = [search EXCEPT ![c] = "exhausted"]
     /\ UNCHANGED <<outputs, nonce, fallbacks>>

NextCandidateForever(c) ==
  /\ outputs' = [outputs EXCEPT ![c] = IF nonce[c] = MaxNonce THEN Lower(@, fallbacks[c]) ELSE @]
  /\ nonce' = [nonce EXCEPT ![c] = (@ + 1) % (MaxNonce + 1)]
  /\ UNCHANGED <<search, fallbacks>>

\* nonce.checked_add(1), and what happens when it overflows.
NextCandidate(c) ==
  \/ /\ nonce[c] < MaxNonce
     /\ nonce' = [nonce EXCEPT ![c] = @ + 1]
     /\ UNCHANGED <<search, outputs, fallbacks>>
  \/ /\ nonce[c] = MaxNonce /\ fallbacks[c] < Fallbacks
     /\ outputs' = [outputs EXCEPT ![c] = Lower(@, fallbacks[c])]
     /\ nonce' = [nonce EXCEPT ![c] = 0]
     /\ fallbacks' = [fallbacks EXCEPT ![c] = @ + 1]
     /\ UNCHANGED search
  \/ /\ nonce[c] = MaxNonce /\ fallbacks[c] >= Fallbacks
     /\ search' = [search EXCEPT ![c] = "exhausted"]
     /\ UNCHANGED <<outputs, nonce, fallbacks>>

Miss(c) ==
  /\ search[c] = "running"
  /\ missed' = [missed EXCEPT ![c] = @ \cup {Candidate(c)}]
  /\ NextCandidate(c)
  /\ UNCHANGED <<answer, original>>

-----------------------------------------------------------------------------
Next == \E c \in Call :
  Start(c) \/ Return(c) \/ TimeOut(c) \/ Run(c) \/ Hit(c) \/ Miss(c)

\* The runtime polls the waiting call and fires its timer.  No progress of the
\* pool is assumed: PoolFair, the operating system running its threads, is the
\* hypothesis of the one property that needs it.
Fairness == \A c \in Call : WF_vars(Return(c) \/ TimeOut(c))
PoolFair == \A c \in Call : WF_vars(Run(c)) /\ WF_vars(Hit(c) \/ Miss(c))

Spec == Init /\ [][Next]_vars
FairSpec == Spec /\ Fairness

-----------------------------------------------------------------------------
(* Properties. *)

\* What n fallbacks in turn leave of outputs o, said without running them: an
\* output pays one unit for each of its turns, as long as it has one.
Turns(o, n, i) == Cardinality({k \in 0..(n - 1) : k % Len(o) = i - 1})
Variant(o, n) == [i \in DOMAIN o |->
  IF o[i] > Turns(o, n, i) THEN o[i] - Turns(o, n, i) ELSE 0]

\* Whether every nonce of a variant was hashed and missed.
Searched(c, v) == {v} \X Nonces \subseteq missed[c]

\* NonceExhaustion is an answer of last resort: a search that gives up has hashed
\* every nonce, the first and the last included, of every variant the fallbacks
\* reach (the overflow branch of mine_blocking).
ExhaustedMeansAll == \A c \in Call : search[c] = "exhausted" =>
  \A n \in 0..Fallbacks : Searched(c, Variant(original[c], n))

\* The search spends the recipient's money only when it must: the outputs of the
\* transaction differ from what the daemon built only once no nonce of any cheaper
\* variant has the prefix, and by one unit per fallback at most.
SpendsOnlyIfItMust == \A c \in Call :
  /\ outputs[c] = Variant(original[c], fallbacks[c])
  /\ \A n \in 0..Fallbacks : n < fallbacks[c] => Searched(c, Variant(original[c], n))

\* The worker is never held by a search: each call is answered, even while the
\* searches of earlier calls occupy every thread of the pool and its own has not
\* begun (execute_mining_with_timeout starts the clock before spawn_blocking).
CallIsAnswered == \A c \in Call : answer[c] = "waiting" ~> answer[c] # "waiting"

\* A search nobody waits for ends and gives its thread back: with the pool's
\* threads running, every closure is served and every search is finite.
AbandonedSearchEnds ==
  PoolFair => \A c \in Call : answer[c] = "timeout" ~> search[c] \in Finished
=============================================================================
