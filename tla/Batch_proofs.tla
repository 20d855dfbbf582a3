---------------------------- MODULE Batch_proofs ----------------------------
(***************************************************************************)
(* Proofs about Batch, for every length of a batch and every number of     *)
(* permits.  The inductive invariant counts: what is running and what is   *)
(* collected are, without overlap, the requests admitted so far, and the   *)
(* window is full as long as requests wait.  When nothing runs any more,   *)
(* they are all the requests of the batch, each once, so sorting them puts *)
(* every response at its place.                                            *)
(***************************************************************************)
EXTENDS Batch, FiniteSetTheorems, TLAPS

\* Admitted requests are running or collected, never both and none twice.
Admitted ==
  /\ next \in 1..len + 1
  /\ running \subseteq 1..next - 1
  /\ \A k \in 1..Len(responses) : responses[k] < next
  /\ ExecutedOnce

\* How many of them there are in each phase.
Counted ==
  /\ phase = "admitted" => running = {} /\ responses = <<>> /\ next = 1
  /\ phase = "collecting" =>
       /\ Cardinality(running) + Len(responses) = next - 1
       /\ WindowFull
  /\ phase \notin {"admitted", "collecting"} => running = {}

Inv == TypeOK /\ Admitted /\ Counted /\ HttpInOrder /\ AnswerInPlace

\* The window is a number of requests.
LEMMA WindowType ==
  ASSUME TypeOK
  PROVE  Window \in 1..len /\ (transport = "http" => Window = 1)
BY BoundsAssumption DEF TypeOK, Window, Smaller

\* The set a batch runs is finite.
LEMMA RunningFinite == TypeOK => IsFiniteSet(running) /\ Cardinality(running) \in Nat
<1> SUFFICES ASSUME TypeOK
             PROVE  IsFiniteSet(running) /\ Cardinality(running) \in Nat
  OBVIOUS
<1>1. IsFiniteSet(1..len)
  BY FS_Interval DEF TypeOK
<1> QED
  BY <1>1, FS_Subset, FS_CardinalityType DEF TypeOK, Requests

\* Nothing is admitted at the start.
LEMMA InitInv == Init => Inv
BY BoundsAssumption DEF Init, Inv, TypeOK, Admitted, Counted, HttpInOrder, AnswerInPlace, ExecutedOnce,
   IsInjective, ToSet, Requests

\* The first requests fill the window.
LEMMA PrimeInv == Inv /\ Prime => Inv'
<1> SUFFICES ASSUME Inv, Prime
             PROVE  Inv'
  OBVIOUS
<1> USE DEF Inv, Prime
<1>1. Window \in 1..len /\ Window' = Window /\ len \in 1..MaxLen /\ MaxLen \in Nat
  BY WindowType, BoundsAssumption DEF Window, TypeOK
<1>2. responses = <<>> /\ responses' = <<>> /\ len' = len
  BY DEF Counted
<1>3. Cardinality(1..Window) = Window
  BY <1>1, FS_Interval
<1>4. TypeOK'
  BY <1>1, <1>2 DEF TypeOK, Requests
<1>5. Admitted'
  BY <1>1, <1>2 DEF Admitted, ExecutedOnce, IsInjective, ToSet
<1>6. Counted'
  BY <1>1, <1>2, <1>3 DEF Counted, WindowFull, Smaller
<1>7. HttpInOrder' /\ AnswerInPlace'
  BY <1>2 DEF HttpInOrder, AnswerInPlace
<1> QED
  BY <1>4, <1>5, <1>6, <1>7

\* A completed request gives its place to the next one.
LEMMA CompleteInv == ASSUME Inv, NEW i \in running, Complete(i) PROVE Inv'
<1> USE DEF Inv, Complete
<1>1. /\ phase = "collecting" /\ phase' = "collecting" /\ len' = len /\ Window' = Window
      /\ transport' = transport
  BY DEF TypeOK, Counted, Window
<1>2. /\ Window \in 1..len /\ len \in 1..MaxLen /\ MaxLen \in Nat /\ next \in 1..len + 1
      /\ Len(responses) \in Nat /\ i \in 1..next - 1 /\ i \in Requests
  BY WindowType, BoundsAssumption DEF TypeOK, Admitted
<1>3. responses' \in Seq(Requests) /\ Len(responses') = Len(responses) + 1
      /\ \A k \in 1..Len(responses') :
           responses'[k] = IF k <= Len(responses) THEN responses[k] ELSE i
  BY <1>2 DEF TypeOK
<1>4. TypeOK'
  BY <1>1, <1>2, <1>3 DEF TypeOK, Requests
<1>5. next' \in next..len + 1 /\ (next \in Requests => next' = next + 1)
      /\ (next \notin Requests => next' = next /\ next = len + 1)
  BY <1>2 DEF Requests
<1>6. Admitted'
  <2>1. running' \subseteq 1..next' - 1
    BY <1>2, <1>5 DEF Admitted
  <2>2. \A k \in 1..Len(responses') : responses'[k] \in Nat /\ responses'[k] < next /\ responses'[k] < next'
    BY <1>2, <1>3, <1>5 DEF Admitted, TypeOK, Requests
  <2>3. \A k \in 1..Len(responses) : responses[k] # i
    BY DEF Admitted, ExecutedOnce, ToSet
  <2>4. IsInjective(responses')
    BY <1>2, <1>3, <2>3 DEF Admitted, ExecutedOnce, IsInjective, TypeOK
  <2>5. \A k \in 1..Len(responses') : responses'[k] \notin running'
    BY <1>2, <1>3, <2>2, <2>3 DEF Admitted, ExecutedOnce, ToSet
  <2> QED
    BY <1>1, <1>5, <2>1, <2>2, <2>4, <2>5 DEF Admitted, ExecutedOnce, ToSet
<1>7. Counted'
  <2>1. IsFiniteSet(running) /\ Cardinality(running) \in Nat
    BY RunningFinite
  <2>2. IsFiniteSet(running \ {i}) /\ Cardinality(running \ {i}) = Cardinality(running) - 1
    BY <2>1, FS_RemoveElement
  <2>3. /\ Cardinality(running) + Len(responses) = next - 1
        /\ Cardinality(running) = Smaller(Window, len - Len(responses))
    BY <1>1 DEF Counted, WindowFull
  <2>4. CASE next \in Requests
    <3>1. running' = (running \ {i}) \cup {next} /\ next \notin running
      BY <1>2, <2>4 DEF Admitted
    <3>2. Cardinality(running') = Cardinality(running)
      <4>1. next \notin running \ {i}
        BY <3>1
      <4>2. Cardinality((running \ {i}) \cup {next}) = Cardinality(running \ {i}) + 1
        BY <2>2, <4>1, FS_AddElement
      <4>3. \A c, d \in Nat : c = d - 1 => c + 1 = d
        OBVIOUS
      <4>4. Cardinality(running \ {i}) \in Nat
        BY <2>2, FS_CardinalityType
      <4> QED
        BY <2>1, <2>2, <3>1, <4>2, <4>3, <4>4
    <3>3. len - Len(responses) > Cardinality(running)
      BY <1>2, <2>1, <2>3, <2>4 DEF Requests
    <3> QED
      BY <1>1, <1>2, <1>3, <1>5, <2>1, <2>3, <2>4, <3>2, <3>3 DEF Counted, WindowFull, Smaller
  <2>5. CASE next \notin Requests
    <3>1. running' = running \ {i}
      BY <2>5
    <3>2. next' = next /\ next = len + 1
      BY <1>5, <2>5
    <3>3. Cardinality(running') = Cardinality(running) - 1
      BY <2>2, <3>1
    <3>4. Cardinality(running) = len - Len(responses) /\ Cardinality(running) <= Window
      BY <1>2, <2>1, <2>3, <3>2 DEF Smaller
    <3>5. Cardinality(running') = Smaller(Window', len' - Len(responses'))
      BY <1>1, <1>2, <1>3, <2>1, <3>3, <3>4 DEF Smaller
    <3> QED
      BY <1>1, <1>2, <1>3, <2>1, <2>3, <3>2, <3>3, <3>5 DEF Counted, WindowFull
  <2> QED
    BY <2>4, <2>5
<1>8. HttpInOrder'
  <2> SUFFICES ASSUME transport = "http"
               PROVE  i = Len(responses) + 1
    BY <1>1, <1>2, <1>3 DEF HttpInOrder
  <2>1. \A k \in 1..Len(responses) : responses[k] = k /\ responses[k] # i
    BY DEF HttpInOrder, Admitted, ExecutedOnce, ToSet
  <2>2. i > Len(responses)
    BY <1>2, <2>1
  <2>3. Cardinality(running) \in Nat /\ Cardinality(running) <= 1
    BY <1>1, <1>2, RunningFinite, WindowType DEF Counted, WindowFull, Smaller
  <2>4. i <= Len(responses) + 1
    BY <1>1, <1>2, <2>3 DEF Counted
  <2> QED
    BY <1>2, <2>2, <2>4
<1>9. AnswerInPlace'
  BY <1>1 DEF AnswerInPlace
<1> QED
  BY <1>4, <1>6, <1>7, <1>8, <1>9

\* Sorting the numbers up to n, each there once, puts every one at its place.
LEMMA SortedInPlace ==
  ASSUME NEW n \in Nat, NEW s \in Seq(1..n), Len(s) = n, IsInjective(s)
  PROVE  Sorted(s) = [i \in 1..n |-> i]
<1>1. DOMAIN s = 1..n /\ s \in [1..n -> 1..n]
  OBVIOUS
<1>2. s \in Injection(1..n, 1..n)
  BY <1>1 DEF IsInjective, Injection
<1>3. IsFiniteSet(1..n)
  BY FS_Interval
<1>4. s \in Surjection(1..n, 1..n)
  BY <1>2, <1>3, FS_Injection
<1>5. \A x \in 1..n : \E j \in 1..n : s[j] = x
  BY <1>4 DEF Surjection
<1>6. ToSet(s) = 1..n
  BY <1>1, <1>5 DEF ToSet
<1>7. ASSUME NEW x \in 0..n
      PROVE  Cardinality({j \in DOMAIN s : s[j] <= x}) = x
  <2> DEFINE S == {j \in 1..n : s[j] <= x}
             f == [j \in S |-> s[j]]
  <2>1. f \in Bijection(S, 1..x)
    <3>1. f \in [S -> 1..x]
      BY <1>1
    <3>2. \A a, b \in S : f[a] = f[b] => a = b
      BY <1>1 DEF IsInjective
    <3>3. ASSUME NEW y \in 1..x PROVE \E j \in S : f[j] = y
      <4>1. PICK j \in 1..n : s[j] = y
        BY <1>5
      <4>2. j \in S /\ f[j] = y
        BY <4>1
      <4> QED
        BY <4>2
    <3> QED
      BY <3>1, <3>2, <3>3 DEF Bijection, Injection, Surjection, IsInjective
  <2>2. IsFiniteSet(S)
    BY <1>3, FS_Subset
  <2>3. Cardinality(1..x) = Cardinality(S)
    BY <2>1, <2>2, FS_Bijection DEF ExistsBijection
  <2>4. Cardinality(1..x) = x
    BY FS_Interval
  <2> QED
    BY <1>1, <2>3, <2>4
<1>8. \A x \in 1..n : {j \in DOMAIN s : s[j] < x} = {j \in DOMAIN s : s[j] <= x - 1}
  BY <1>1
<1>9. ASSUME NEW k \in 1..n, NEW x \in 1..n
      PROVE  /\ Cardinality({j \in DOMAIN s : s[j] < x}) = x - 1
             /\ Cardinality({j \in DOMAIN s : s[j] <= x}) = x
  <2>1. x - 1 \in 0..n /\ x \in 0..n
    OBVIOUS
  <2> QED
    BY <1>7, <1>8, <2>1
<1>10. ASSUME NEW k \in 1..n
       PROVE  k = CHOOSE x \in ToSet(s) : /\ Cardinality({j \in DOMAIN s : s[j] < x}) < k
                                          /\ k <= Cardinality({j \in DOMAIN s : s[j] <= x})
  <2>1. \A x \in 1..n : x - 1 < k /\ k <= x <=> x = k
    OBVIOUS
  <2> QED
    BY <1>6, <1>9, <2>1
<1> QED
  BY <1>1, <1>10 DEF Sorted

\* A batch that is answered was completed: every request once, its response at its place.
LEMMA AnswerInv == Inv /\ Answer => AnswerInPlace'
<1> SUFFICES ASSUME Inv, Answer
             PROVE  answer' = [i \in 1..len |-> i]
  BY DEF Answer, AnswerInPlace, Requests
<1>1. /\ len \in 1..MaxLen /\ MaxLen \in Nat /\ Window \in 1..len /\ next \in 1..len + 1
      /\ responses \in Seq(1..len) /\ Len(responses) \in Nat /\ IsInjective(responses)
  BY WindowType, BoundsAssumption DEF Inv, TypeOK, Requests, Admitted, ExecutedOnce
<1>2. Cardinality(running) = 0 /\ Cardinality(running) + Len(responses) = next - 1
      /\ Cardinality(running) = Smaller(Window, len - Len(responses))
  BY FS_EmptySet DEF Inv, Answer, Counted, WindowFull
<1>3. Len(responses) = len
  BY <1>1, <1>2 DEF Smaller
<1>4. CASE transport = "ws"
  <2>1. Sorted(responses) = [i \in 1..len |-> i]
    BY <1>1, <1>3, SortedInPlace
  <2> QED
    BY <1>4, <2>1 DEF Answer
<1>5. CASE transport = "http"
  <2>1. \A k \in 1..len : responses[k] = k
    BY <1>3, <1>5 DEF Inv, HttpInOrder
  <2>2. answer' = responses /\ DOMAIN responses = 1..len
    BY <1>1, <1>3, <1>5 DEF Answer
  <2> QED
    BY <1>1, <2>1, <2>2
<1> QED
  BY <1>4, <1>5 DEF Inv, TypeOK

\* Answering, dropping and unwinding end the batch; nothing runs any more.
LEMMA EndInv == Inv /\ (Answer \/ Cancel \/ Panic) => Inv'
<1> SUFFICES ASSUME Inv, Answer \/ Cancel \/ Panic
             PROVE  Inv'
  OBVIOUS
<1> USE DEF Inv
<1>1. /\ UNCHANGED <<transport, len, next, responses>>
      /\ phase' \in {"answered", "cancelled", "panicked"}
      /\ running' = {}
  BY DEF Answer, Cancel, Panic
<1>2. Admitted' /\ Counted' /\ HttpInOrder'
  BY <1>1 DEF Admitted, Counted, HttpInOrder, ExecutedOnce, IsInjective, ToSet
<1>3. TypeOK'
  BY <1>1 DEF TypeOK, Requests
<1>4. AnswerInPlace'
  <2>1. CASE Answer
    BY <2>1, AnswerInv
  <2>2. CASE Cancel \/ Panic
    BY <2>2 DEF Cancel, Panic, AnswerInPlace
  <2> QED
    BY <2>1, <2>2
<1> QED
  BY <1>2, <1>3, <1>4

\* Every reachable state satisfies the invariant.
LEMMA Invariant == Spec => []Inv
<1>1. Inv /\ UNCHANGED vars => Inv'
  <2> SUFFICES ASSUME Inv, UNCHANGED vars
               PROVE  Inv'
    OBVIOUS
  <2> QED
    BY DEF Inv, TypeOK, Admitted, Counted, HttpInOrder, AnswerInPlace, ExecutedOnce, WindowFull, Window,
       Requests, IsInjective, ToSet, vars
<1>2. Inv /\ [Next]_vars => Inv'
  BY <1>1, PrimeInv, CompleteInv, EndInv DEF Next
<1> QED
  BY InitInv, <1>2, PTL DEF Spec

\* Every variable of a batch keeps its type.
THEOREM TypeCorrect == Spec => []TypeOK
<1>1. Inv => TypeOK
  BY DEF Inv
<1> QED
  BY <1>1, Invariant, PTL

\* At every moment a batch runs at most as many requests as it holds permits.
THEOREM WindowNeverExceeded == Spec => []WindowRespected
<1>1. Inv => WindowRespected
  <2> SUFFICES ASSUME Inv
               PROVE  Cardinality(running) <= Window
    BY DEF WindowRespected
  <2>1. Window \in Nat /\ (running = {} => Cardinality(running) = 0)
    BY WindowType, FS_EmptySet DEF Inv
  <2> QED
    BY <2>1, RunningFinite DEF Inv, TypeOK, Counted, WindowFull, Smaller
<1> QED
  BY <1>1, Invariant, PTL

\* While requests wait, a batch runs as many as it holds permits.
THEOREM WindowStaysFull == Spec => []WindowFull
<1>1. Inv => WindowFull
  BY DEF Inv, Counted, WindowFull
<1> QED
  BY <1>1, Invariant, PTL

\* No request of a batch is executed twice.
THEOREM NothingTwice == Spec => []ExecutedOnce
<1>1. Inv => ExecutedOnce
  BY DEF Inv, Admitted
<1> QED
  BY <1>1, Invariant, PTL

\* The requests of an HTTP batch complete in the order of the batch.
THEOREM HttpBatchInOrder == Spec => []HttpInOrder
<1>1. Inv => HttpInOrder
  BY DEF Inv
<1> QED
  BY <1>1, Invariant, PTL

\* Every response of an answered batch is at the place of its request.
THEOREM AnswersInPlace == Spec => []AnswerInPlace
<1>1. Inv => AnswerInPlace
  BY DEF Inv
<1> QED
  BY <1>1, Invariant, PTL
=============================================================================
