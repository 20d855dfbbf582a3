--------------------------- MODULE TxPerf_proofs ---------------------------
(***************************************************************************)
(* The summaries of tx_perf are right for every log, window, number of     *)
(* slowest lines and range of the histograms.  The lemmas say what purging *)
(* a queue, inserting into the heap and recording a number do to the       *)
(* history they summarise.                                                 *)
(***************************************************************************)
EXTENDS TxPerf, FiniteSetTheorems, TLAPS

Sample == [at : Nat, value : Nat]

Types ==
  /\ input \in Seq(Lines) /\ channel \in Seq(Lines)
  /\ clock \in Nat /\ dropped \in Nat /\ shown \in Nat
  /\ samples \in [Kinds -> Seq(Sample)]
  /\ counts \in [Kinds -> Nat]
  /\ hist \in [{"rpc", "mining"} -> [max : Nat, held : Seq(Nat)]]
  /\ slowest \in Seq(Nat)
  /\ received \in [Outcomes -> Seq(Sample)]

-----------------------------------------------------------------------------
(* Queues.                                                                 *)

\* What is appended to a history and to its latest elements keeps them the latest.
LEMMA LatestAppends ==
  ASSUME NEW S, NEW all \in Seq(S), NEW s \in Seq(S), NEW x \in S, Latest(all, s)
  PROVE  Latest(Append(all, x), Append(s, x))
<1> DEFINE allX == Append(all, x)
           sX == Append(s, x)
<1>1. /\ Len(allX) = Len(all) + 1 /\ Len(sX) = Len(s) + 1
      /\ Len(all) \in Nat /\ Len(s) \in Nat /\ Len(s) <= Len(all)
      /\ \A i \in 1..Len(s) : s[i] = all[Len(all) - Len(s) + i]
  BY DEF Latest
<1>2. /\ allX[Len(all) + 1] = x /\ sX[Len(s) + 1] = x
      /\ \A i \in 1..Len(all) : allX[i] = all[i]
      /\ \A i \in 1..Len(s) : sX[i] = s[i]
  OBVIOUS
<1> HIDE DEF allX, sX
<1>3. ASSUME NEW i \in 1..Len(sX)
      PROVE  sX[i] = allX[Len(allX) - Len(sX) + i]
  <2>1. Len(allX) - Len(sX) + i = Len(all) - Len(s) + i
    BY <1>1
  <2>2. CASE i = Len(s) + 1
    BY <1>1, <1>2, <2>1, <2>2
  <2>3. CASE i \in 1..Len(s)
    <3>1. Len(all) - Len(s) + i \in 1..Len(all)
      BY <1>1, <2>3
    <3> QED
      BY <1>1, <1>2, <2>1, <2>3, <3>1
  <2> QED
    BY <1>1, <2>2, <2>3
<1>4. Latest(allX, sX)
  BY <1>1, <1>3 DEF Latest
<1> QED
  BY <1>4 DEF allX, sX

\* The last elements of the latest elements are the latest.
LEMMA LatestShrinks ==
  ASSUME NEW S, NEW all \in Seq(S), NEW s \in Seq(S), Latest(all, s), NEW n \in 0..Len(s)
  PROVE  /\ SubSeq(s, n + 1, Len(s)) \in Seq(S)
         /\ Len(SubSeq(s, n + 1, Len(s))) = Len(s) - n
         /\ Latest(all, SubSeq(s, n + 1, Len(s)))
<1>1. /\ Len(all) \in Nat /\ Len(s) \in Nat /\ Len(s) <= Len(all)
      /\ \A i \in 1..Len(s) : s[i] = all[Len(all) - Len(s) + i]
  BY DEF Latest
<1> DEFINE rest == SubSeq(s, n + 1, Len(s))
<1>2. /\ rest \in Seq(S) /\ Len(rest) = Len(s) - n
      /\ \A i \in 1..(Len(s) - n) : rest[i] = s[n + i]
  BY <1>1
<1> HIDE DEF rest
<1>3. ASSUME NEW i \in 1..Len(rest)
      PROVE  rest[i] = all[Len(all) - Len(rest) + i]
  <2>1. n + i \in 1..Len(s) /\ Len(all) - Len(s) + (n + i) = Len(all) - Len(rest) + i
    BY <1>1, <1>2
  <2> QED
    BY <1>1, <1>2, <2>1
<1>4. Len(rest) <= Len(all)
  BY <1>1, <1>2
<1>5. Latest(all, rest)
  BY Zenon, <1>3, <1>4 DEF Latest
<1> QED
  BY <1>2, <1>5 DEF rest

\* A single element appended to a history is its latest.
LEMMA LatestOne ==
  ASSUME NEW S, NEW all \in Seq(S), NEW x \in S
  PROVE  Latest(Append(all, x), <<x>>)
BY DEF Latest

\* The first positions of a queue, as many as their number says.
LEMMA Positions == \A n \in Nat : IsFiniteSet(1..n) /\ Cardinality(1..n) = n
<1> TAKE n \in Nat
<1>1. IsFiniteSet(1..n) /\ Cardinality(1..n) = IF 1 > n THEN 0 ELSE n - 1 + 1
  BY FS_Interval
<1> QED
  BY <1>1

\* A set of positions that holds with each one all before it is the first so many.
LEMMA FirstPositions ==
  ASSUME NEW n \in Nat, NEW E \in SUBSET (1..n), \A i \in E : \A j \in 1..i : j \in E
  PROVE  Cardinality(E) \in 0..n /\ E = 1..Cardinality(E)
<1>1. IsFiniteSet(E) /\ Cardinality(E) \in Nat /\ Cardinality(E) <= n
  <2>1. IsFiniteSet(1..n) /\ Cardinality(1..n) = n
    BY Positions
  <2>2. IsFiniteSet(E) /\ Cardinality(E) <= Cardinality(1..n)
    BY <2>1, FS_Subset
  <2> QED
    BY <2>1, <2>2, FS_CardinalityType
<1>2. ASSUME NEW i \in E
      PROVE  i \in 1..Cardinality(E)
  <2>1. i \in Nat /\ i >= 1 /\ 1..i \subseteq E
    OBVIOUS
  <2>2. Cardinality(1..i) = i /\ Cardinality(1..i) <= Cardinality(E)
    BY <1>1, <2>1, Positions, FS_Subset
  <2> QED
    BY <1>1, <2>1, <2>2
<1>3. ASSUME NEW i \in 1..Cardinality(E), i \notin E
      PROVE  FALSE
  <2>1. i - 1 \in Nat /\ E \subseteq 1..(i - 1)
    <3> SUFFICES ASSUME NEW k \in E, k >= i PROVE FALSE
      BY <1>1
    <3>1. i \in 1..k
      BY <1>1
    <3> QED
      BY <1>3, <3>1
  <2>2. Cardinality(1..(i - 1)) = i - 1 /\ Cardinality(E) <= Cardinality(1..(i - 1))
    BY <2>1, Positions, FS_Subset
  <2> QED
    BY <1>1, <2>1, <2>2
<1>4. E \subseteq 1..Cardinality(E) /\ 1..Cardinality(E) \subseteq E
  BY <1>2, <1>3
<1>5. Cardinality(E) \in 0..n
  BY <1>1
<1> QED
  BY <1>4, <1>5

\* A purge takes samples from the front of a queue, and only expired ones.
LEMMA PurgeTakesExpired ==
  ASSUME NEW queue \in Seq(Sample)
  PROVE  /\ Cardinality(Expired(queue)) \in 0..Len(queue)
         /\ \A i \in 1..Cardinality(Expired(queue)) : clock - queue[i].at > Window
<1> DEFINE E == Expired(queue)
<1>1. Len(queue) \in Nat /\ E \in SUBSET (1..Len(queue))
  BY DEF Expired
<1>2. \A i \in E : \A j \in 1..i : j \in E
  <2> TAKE i \in E
  <2> TAKE j \in 1..i
  <2>1. i \in DOMAIN queue /\ i \in 1..Len(queue) /\ \A k \in 1..i : clock - queue[k].at > Window
    BY DEF Expired
  <2>2. j \in DOMAIN queue /\ 1..j \subseteq 1..i
    BY <1>1, <2>1
  <2> QED
    BY <2>1, <2>2 DEF Expired
<1>3. \A i \in E : i \in 1..i /\ clock - queue[i].at > Window
  BY <1>1 DEF Expired
<1> HIDE DEF E
<1>4. Cardinality(E) \in 0..Len(queue) /\ E = 1..Cardinality(E)
  BY <1>1, <1>2, FirstPositions
<1>5. \A i \in 1..Cardinality(E) : clock - queue[i].at > Window
  BY <1>3, <1>4
<1> QED
  BY <1>4, <1>5 DEF E

-----------------------------------------------------------------------------
(* The heap of the slowest.                                                *)

Ascends(s) == \A i, j \in 1..Len(s) : i <= j => s[i] <= s[j]

\* The elements of s are different elements of all: where from says.
Picks(all, s, from) ==
  /\ from \in [1..Len(s) -> 1..Len(all)]
  /\ \A i, j \in 1..Len(s) : from[i] = from[j] => i = j
  /\ \A i \in 1..Len(s) : s[i] = all[from[i]]

LeftOut(all, s, from) == {j \in 1..Len(all) : \A i \in 1..Len(s) : from[i] # j}

\* Nothing left out is larger than what was picked.
Best(all, s, from) == \A j \in LeftOut(all, s, from) : \A i \in 1..Len(s) : all[j] <= s[i]

\* A latency is inserted behind the smaller ones and before the others.
LEMMA InsertedShape ==
  ASSUME NEW s \in Seq(Nat), NEW x \in Nat, Ascends(s)
  PROVE  \E p \in 0..Len(s) :
           /\ Inserted(s, x) = [i \in 1..Len(s) + 1 |-> IF i <= p THEN s[i]
                                                      ELSE IF i = p + 1 THEN x ELSE s[i - 1]]
           /\ \A i \in 1..p : s[i] < x
           /\ \A i \in p + 1..Len(s) : s[i] >= x
<1> DEFINE E == {i \in DOMAIN s : s[i] < x}
           m == Cardinality(E)
<1>1. Len(s) \in Nat /\ DOMAIN s = 1..Len(s) /\ E \in SUBSET (1..Len(s)) /\ \A i \in 1..Len(s) : s[i] \in Nat
  OBVIOUS
<1>2. \A i \in E : \A j \in 1..i : j \in E
  <2> TAKE i \in E
  <2> TAKE j \in 1..i
  <2>1. i \in 1..Len(s) /\ j \in 1..Len(s) /\ j <= i /\ s[i] < x
    BY <1>1
  <2>2. s[j] <= s[i]
    BY <2>1 DEF Ascends
  <2> QED
    BY <1>1, <2>1, <2>2
<1>3. \A i \in 1..Len(s) : i \in E <=> s[i] < x
  BY <1>1
<1>4. Inserted(s, x) = [i \in 1..Len(s) + 1 |-> IF i <= m THEN s[i]
                                              ELSE IF i = m + 1 THEN x ELSE s[i - 1]]
  BY DEF Inserted
<1> HIDE DEF E
<1>5. m \in 0..Len(s) /\ E = 1..m
  BY <1>1, <1>2, FirstPositions
<1>6. \A i \in 1..m : s[i] < x
  BY <1>1, <1>3, <1>5
<1>7. \A i \in m + 1..Len(s) : s[i] >= x
  BY <1>1, <1>3, <1>5
<1> HIDE DEF m
<1> QED
  BY <1>4, <1>5, <1>6, <1>7

\* Inserting keeps the order and adds one element.
LEMMA InsertedAscends ==
  ASSUME NEW s \in Seq(Nat), NEW x \in Nat, Ascends(s)
  PROVE  /\ Inserted(s, x) \in Seq(Nat) /\ Len(Inserted(s, x)) = Len(s) + 1
         /\ Ascends(Inserted(s, x))
<1> DEFINE t == Inserted(s, x)
<1>1. PICK p \in 0..Len(s) :
        /\ t = [i \in 1..Len(s) + 1 |-> IF i <= p THEN s[i] ELSE IF i = p + 1 THEN x ELSE s[i - 1]]
        /\ \A i \in 1..p : s[i] < x
        /\ \A i \in p + 1..Len(s) : s[i] >= x
  BY InsertedShape
<1>2. Len(s) \in Nat /\ \A i \in 1..Len(s) : s[i] \in Nat
  OBVIOUS
<1>3. \A i \in 1..Len(s) + 1 : /\ i <= p => t[i] = s[i] /\ i \in 1..Len(s)
                               /\ i = p + 1 => t[i] = x
                               /\ i > p + 1 => t[i] = s[i - 1] /\ i - 1 \in 1..Len(s)
  BY <1>1, <1>2
<1>4. \A i \in 1..Len(s) + 1 : t[i] \in Nat
  <2> TAKE i \in 1..Len(s) + 1
  <2>1. i <= p \/ i = p + 1 \/ i > p + 1
    BY <1>2
  <2> QED
    BY <1>2, <1>3, <2>1
<1>5. t \in [1..Len(s) + 1 -> Nat]
  BY <1>1, <1>4
<1>6. t \in Seq(Nat) /\ Len(t) = Len(s) + 1
  BY <1>2, <1>5
<1> HIDE DEF t
<1>7. ASSUME NEW i \in 1..Len(t), NEW j \in 1..Len(t), i <= j
      PROVE  t[i] <= t[j]
  <2>1. CASE j <= p
    <3>1. i \in 1..Len(s) /\ j \in 1..Len(s) /\ t[i] = s[i] /\ t[j] = s[j]
      BY <1>1, <1>2, <1>3, <1>6, <1>7, <2>1
    <3> QED
      BY <1>7, <3>1 DEF Ascends
  <2>2. CASE i <= p /\ j = p + 1
    <3>1. i \in 1..p
      BY <2>2
    <3> QED
      BY <1>1, <1>2, <1>3, <1>6, <2>2, <3>1
  <2>3. CASE i <= p /\ j > p + 1
    <3>1. i \in 1..Len(s) /\ j - 1 \in 1..Len(s) /\ i <= j - 1
      BY <1>2, <1>3, <1>6, <2>3
    <3> QED
      BY <1>2, <1>3, <1>6, <2>3, <3>1 DEF Ascends
  <2>4. CASE i = p + 1 /\ j = p + 1
    BY <1>4, <1>6, <2>4
  <2>5. CASE i = p + 1 /\ j > p + 1
    <3>1. j - 1 \in p + 1..Len(s)
      BY <1>2, <1>6, <2>5
    <3> QED
      BY <1>1, <1>2, <1>3, <1>6, <2>5, <3>1
  <2>6. CASE i > p + 1
    <3>1. i - 1 \in 1..Len(s) /\ j - 1 \in 1..Len(s) /\ i - 1 <= j - 1 /\ j > p + 1
      BY <1>2, <1>3, <1>6, <1>7, <2>6
    <3> QED
      BY <1>2, <1>3, <1>6, <2>6, <3>1 DEF Ascends
  <2> QED
    BY <1>1, <1>2, <1>6, <1>7, <2>1, <2>2, <2>3, <2>4, <2>5, <2>6
<1>8. Ascends(t)
  BY <1>7 DEF Ascends
<1> QED
  BY <1>6, <1>8 DEF t

\* To picks what from picks, and one more.
PicksMore(all, s, x, from, to) ==
  /\ Picks(Append(all, x), Inserted(s, x), to)
  /\ Best(Append(all, x), Inserted(s, x), to)
  /\ LeftOut(Append(all, x), Inserted(s, x), to) = LeftOut(all, s, from)

\* What is inserted is picked too, and the best stays the best if nothing left out is
\* larger than what is inserted.
LEMMA InsertedIsBest ==
  ASSUME NEW all \in Seq(Nat), NEW s \in Seq(Nat), NEW x \in Nat, Ascends(s),
         NEW from, Picks(all, s, from), Best(all, s, from),
         \A j \in LeftOut(all, s, from) : all[j] <= x
  PROVE  \E to : PicksMore(all, s, x, from, to)
<1> DEFINE t == Inserted(s, x)
           allX == Append(all, x)
           n == Len(s)
           N == Len(all)
<1>1. PICK p \in 0..n :
        /\ t = [i \in 1..n + 1 |-> IF i <= p THEN s[i] ELSE IF i = p + 1 THEN x ELSE s[i - 1]]
        /\ \A i \in 1..p : s[i] < x
        /\ \A i \in p + 1..n : s[i] >= x
  BY InsertedShape
<1>2. n \in Nat /\ N \in Nat /\ p \in Nat /\ p <= n /\ t \in Seq(Nat) /\ Len(t) = n + 1
  <2>1. t \in Seq(Nat) /\ Len(t) = n + 1
    BY InsertedAscends
  <2>2. n \in Nat /\ N \in Nat
    OBVIOUS
  <2> HIDE DEF t, n, N
  <2> QED
    BY <2>1, <2>2
<1>3. Len(allX) = N + 1 /\ allX[N + 1] = x /\ \A j \in 1..N : allX[j] = all[j]
  OBVIOUS
<1> DEFINE to == [i \in 1..n + 1 |-> IF i <= p THEN from[i] ELSE IF i = p + 1 THEN N + 1 ELSE from[i - 1]]
<1>4. \A i \in 1..n : from[i] \in 1..N /\ s[i] = all[from[i]]
  BY DEF Picks
<1>5. \A i \in 1..n + 1 :
        /\ i <= p => i \in 1..n /\ t[i] = s[i] /\ to[i] = from[i]
        /\ i = p + 1 => t[i] = x /\ to[i] = N + 1
        /\ i > p + 1 => i - 1 \in 1..n /\ t[i] = s[i - 1] /\ to[i] = from[i - 1]
  BY <1>1, <1>2
<1>6. \A i \in 1..n + 1 : i <= p \/ i = p + 1 \/ i > p + 1
  BY <1>2
<1>7. DOMAIN to = 1..n + 1 /\ to = [i \in 1..n + 1 |-> to[i]]
  OBVIOUS
<1> HIDE DEF t, allX, n, N, to
<1>8. \A i \in 1..n + 1 : to[i] \in 1..N + 1 /\ t[i] = allX[to[i]]
  <2> TAKE i \in 1..n + 1
  <2>1. CASE i = p + 1
    BY <1>2, <1>3, <1>5, <2>1
  <2>2. ASSUME NEW k \in 1..n, t[i] = s[k], to[i] = from[k]
        PROVE  to[i] \in 1..N + 1 /\ t[i] = allX[to[i]]
    <3>1. from[k] \in 1..N /\ s[k] = all[from[k]] /\ 1..N \subseteq 1..N + 1
      BY <1>2, <1>4
    <3> QED
      BY <1>3, <2>2, <3>1
  <2>3. CASE i <= p
    BY <1>5, <2>2, <2>3
  <2>4. CASE i > p + 1
    BY <1>5, <2>2, <2>4
  <2> QED
    BY <1>6, <2>1, <2>3, <2>4
<1>9. ASSUME NEW i \in 1..n + 1, NEW j \in 1..n + 1, to[i] = to[j]
      PROVE  i = j
  <2>1. \A k \in 1..n : from[k] # N + 1
    BY <1>2, <1>4
  <2>2. \A k, l \in 1..n : from[k] = from[l] => k = l
    BY DEF Picks, n
  <2>3. CASE i = p + 1 \/ j = p + 1
    BY <1>5, <1>6, <1>9, <2>1, <2>3
  <2>4. CASE i <= p /\ j <= p
    BY <1>5, <1>9, <2>2, <2>4
  <2>5. CASE i <= p /\ j > p + 1
    <3>1. i = j - 1
      BY <1>5, <1>9, <2>2, <2>5
    <3> QED
      BY <1>2, <2>5, <3>1
  <2>6. CASE i > p + 1 /\ j <= p
    <3>1. j = i - 1
      BY <1>5, <1>9, <2>2, <2>6
    <3> QED
      BY <1>2, <2>6, <3>1
  <2>7. CASE i > p + 1 /\ j > p + 1
    <3>1. i - 1 = j - 1
      BY <1>5, <1>9, <2>2, <2>7
    <3> QED
      BY <1>2, <3>1
  <2> QED
    BY <1>6, <2>3, <2>4, <2>5, <2>6, <2>7
<1>10. Picks(allX, t, to)
  BY <1>2, <1>3, <1>7, <1>8, <1>9 DEF Picks
<1>11. \A k \in 1..n : \E i \in 1..n + 1 : to[i] = from[k] /\ t[i] = s[k]
  <2> TAKE k \in 1..n
  <2>1. CASE k <= p
    <3>1. k \in 1..n + 1
      BY <1>2
    <3> QED
      BY <1>5, <2>1, <3>1
  <2>2. CASE k > p
    <3>1. k + 1 \in 1..n + 1 /\ k + 1 > p + 1 /\ (k + 1) - 1 = k
      BY <1>2, <2>2
    <3> QED
      BY <1>5, <3>1
  <2>3. k <= p \/ k > p
    BY <1>2
  <2> QED
    BY <2>1, <2>2, <2>3
<1>12. \A j \in 1..N + 1 : (\A i \in 1..n + 1 : to[i] # j) <=> (j \in 1..N /\ \A k \in 1..n : from[k] # j)
  <2> TAKE j \in 1..N + 1
  <2>1. ASSUME \A i \in 1..n + 1 : to[i] # j
        PROVE  j \in 1..N /\ \A k \in 1..n : from[k] # j
    <3>1. p + 1 \in 1..n + 1 /\ to[p + 1] = N + 1
      BY <1>2, <1>5
    <3>2. j # N + 1
      BY <2>1, <3>1
    <3>3. j \in 1..N
      BY <1>2, <3>2
    <3>4. ASSUME NEW k \in 1..n
          PROVE  from[k] # j
      <4>1. PICK i \in 1..n + 1 : to[i] = from[k]
        BY <1>11
      <4> QED
        BY <2>1, <4>1
    <3> QED
      BY <3>3, <3>4
  <2>2. ASSUME j \in 1..N, \A k \in 1..n : from[k] # j, NEW i \in 1..n + 1
        PROVE  to[i] # j
    <3>1. j # N + 1
      BY <1>2, <2>2
    <3> QED
      BY <1>5, <1>6, <2>2, <3>1
  <2> QED
    BY <2>1, <2>2
<1>13. LeftOut(allX, t, to) = LeftOut(all, s, from)
  <2>1. LeftOut(allX, t, to) = {j \in 1..N + 1 : \A i \in 1..n + 1 : to[i] # j}
    BY <1>2, <1>3 DEF LeftOut
  <2>2. LeftOut(all, s, from) = {j \in 1..N : \A k \in 1..n : from[k] # j}
    BY DEF LeftOut, n, N
  <2>3. 1..N \subseteq 1..N + 1
    BY <1>2
  <2> QED
    BY <1>12, <2>1, <2>2, <2>3
<1>14. Best(allX, t, to)
  <2> SUFFICES ASSUME NEW j \in LeftOut(all, s, from), NEW i \in 1..n + 1
               PROVE  allX[j] <= t[i]
    BY <1>2, <1>13 DEF Best
  <2>1. j \in 1..N /\ allX[j] = all[j]
    BY <1>3 DEF LeftOut, N
  <2>2. all[j] <= x /\ \A k \in 1..n : all[j] <= s[k]
    BY DEF Best, n
  <2> QED
    BY <1>5, <1>6, <2>1, <2>2
<1> QED
  BY <1>10, <1>13, <1>14 DEF t, allX, PicksMore

\* The heap holds the best of what was pushed, and everything while there is room.
Held(all) == IF Len(all) < TopSlowest THEN Len(all) ELSE TopSlowest
Chosen(all, s, from) ==
  /\ Picks(all, s, from) /\ Best(all, s, from)
  /\ Len(all) < TopSlowest => LeftOut(all, s, from) = {}

SlowInv(all, s) == Ascends(s) /\ Len(s) = Held(all) /\ \E from : Chosen(all, s, from)

\* A push keeps the heap what it is, whether it adds, replaces or changes nothing.
LEMMA PushKeeps ==
  ASSUME NEW all \in Seq(Nat), NEW s \in Seq(Nat), NEW x \in Nat, SlowInv(all, s)
  PROVE  Push(s, x) \in Seq(Nat) /\ SlowInv(Append(all, x), Push(s, x))
<1> PICK from : Chosen(all, s, from)
  BY DEF SlowInv
<1>1. /\ Picks(all, s, from) /\ Best(all, s, from)
      /\ Len(all) < TopSlowest => LeftOut(all, s, from) = {}
  BY DEF Chosen
<1>2. /\ Len(all) \in Nat /\ Len(s) \in Nat /\ TopSlowest \in Nat /\ Len(Append(all, x)) = Len(all) + 1
      /\ \A i \in 1..Len(s) : s[i] \in Nat
      /\ \A i \in 1..Len(all) : all[i] \in Nat
  BY BoundsAssumption
<1>3. Ascends(s) /\ Len(s) = IF Len(all) < TopSlowest THEN Len(all) ELSE TopSlowest
  BY DEF SlowInv, Held
<1>4. CASE Len(s) < TopSlowest
  <2>1. Len(all) < TopSlowest /\ Len(s) = Len(all) /\ Push(s, x) = Inserted(s, x)
    BY <1>2, <1>3, <1>4 DEF Push
  <2>2. LeftOut(all, s, from) = {}
    BY <1>1, <2>1
  <2>3. PICK to : /\ Picks(Append(all, x), Inserted(s, x), to)
                  /\ Best(Append(all, x), Inserted(s, x), to)
                  /\ LeftOut(Append(all, x), Inserted(s, x), to) = {}
    <3>1. \A j \in LeftOut(all, s, from) : all[j] <= x
      BY <2>2
    <3>2. \E to : PicksMore(all, s, x, from, to)
      BY <1>1, <1>3, <3>1, InsertedIsBest
    <3> QED
      BY <2>2, <3>2 DEF PicksMore
  <2>4. /\ Inserted(s, x) \in Seq(Nat) /\ Len(Inserted(s, x)) = Len(s) + 1
        /\ Ascends(Inserted(s, x))
    BY <1>3, InsertedAscends
  <2>5. Len(Inserted(s, x)) = IF Len(Append(all, x)) < TopSlowest THEN Len(Append(all, x)) ELSE TopSlowest
    BY <1>2, <1>4, <2>1, <2>4
  <2> QED
    BY <2>1, <2>3, <2>4, <2>5 DEF SlowInv, Chosen, Held
<1>5. CASE ~(Len(s) < TopSlowest) /\ s # <<>> /\ x > Head(s)
  <2> DEFINE t == Tail(s)
             shifted == [i \in 1..Len(s) - 1 |-> from[i + 1]]
  <2>1. Len(s) = TopSlowest /\ ~(Len(all) < TopSlowest) /\ Len(s) >= 1 /\ s[1] < x /\ Push(s, x) = Inserted(t, x)
    BY <1>2, <1>3, <1>5 DEF Push
  <2>2. t \in Seq(Nat) /\ Len(t) = Len(s) - 1 /\ \A i \in 1..Len(s) - 1 : t[i] = s[i + 1]
    BY <1>5
  <2>3. \A i \in 1..Len(s) - 1 : i + 1 \in 1..Len(s)
    BY <1>2
  <2>4. DOMAIN shifted = 1..Len(s) - 1 /\ shifted = [i \in 1..Len(s) - 1 |-> shifted[i]] /\ \A i \in 1..Len(s) - 1 : shifted[i] = from[i + 1]
    OBVIOUS
  <2> HIDE DEF t, shifted
  <2>5. Ascends(t)
    <3> SUFFICES ASSUME NEW i \in 1..Len(s) - 1, NEW j \in 1..Len(s) - 1, i <= j
                 PROVE  t[i] <= t[j]
      BY <2>2 DEF Ascends
    <3>1. i + 1 \in 1..Len(s) /\ j + 1 \in 1..Len(s) /\ i + 1 <= j + 1
      BY <1>2
    <3>2. s[i + 1] <= s[j + 1]
      BY <1>3, <3>1 DEF Ascends
    <3>3. t[i] = s[i + 1] /\ t[j] = s[j + 1]
      BY <2>2
    <3> QED
      BY <3>2, <3>3
  <2>6. Picks(all, t, shifted)
    <3>1. \A i \in 1..Len(s) : from[i] \in 1..Len(all) /\ s[i] = all[from[i]]
      BY <1>1 DEF Picks
    <3>2. \A i \in 1..Len(s) - 1 : shifted[i] \in 1..Len(all) /\ t[i] = all[shifted[i]]
      <4> TAKE i \in 1..Len(s) - 1
      <4>1. i + 1 \in 1..Len(s) /\ t[i] = s[i + 1] /\ shifted[i] = from[i + 1]
        BY <2>2, <2>3, <2>4
      <4> QED
        BY <3>1, <4>1
    <3>3. ASSUME NEW i \in 1..Len(s) - 1, NEW j \in 1..Len(s) - 1, shifted[i] = shifted[j]
          PROVE  i = j
      <4>1. i + 1 = j + 1
        BY <1>1, <2>3, <2>4, <3>3 DEF Picks
      <4> QED
        BY <1>2, <4>1
    <3> QED
      BY <2>2, <2>4, <3>2, <3>3 DEF Picks
  <2>7. ASSUME NEW j \in LeftOut(all, t, shifted)
        PROVE  all[j] <= s[1]
    <3>1. j \in 1..Len(all) /\ 1 \in 1..Len(s)
      BY <1>2, <2>1 DEF LeftOut
    <3>2. CASE j = from[1]
      <4>1. all[j] = s[1]
        BY <1>1, <3>1, <3>2 DEF Picks
      <4> QED
        BY <1>2, <3>1, <4>1
    <3>3. CASE j # from[1]
      <4>1. ASSUME NEW i \in 1..Len(s)
            PROVE  from[i] # j
        <5>1. CASE i = 1
          BY <3>3, <5>1
        <5>2. CASE i # 1
          <6>1. i - 1 \in 1..Len(s) - 1 /\ (i - 1) + 1 = i
            BY <1>2, <5>2
          <6>2. shifted[i - 1] = from[i]
            BY <2>4, <6>1
          <6> QED
            BY <2>2, <6>1, <6>2 DEF LeftOut
        <5> QED
          BY <5>1, <5>2
      <4>2. j \in LeftOut(all, s, from)
        BY <3>1, <4>1 DEF LeftOut
      <4> QED
        BY <1>1, <3>1, <4>2 DEF Best
    <3> QED
      BY <3>2, <3>3
  <2>8. ASSUME NEW j \in LeftOut(all, t, shifted)
        PROVE  all[j] <= x /\ \A i \in 1..Len(t) : all[j] <= t[i]
    <3>1. all[j] \in Nat /\ all[j] <= s[1] /\ s[1] \in Nat
      BY <1>2, <2>1, <2>7 DEF LeftOut
    <3>2. ASSUME NEW i \in 1..Len(s) - 1
          PROVE  all[j] <= t[i]
      <4>1. 1 \in 1..Len(s) /\ i + 1 \in 1..Len(s) /\ 1 <= i + 1
        BY <1>2, <2>3
      <4>2. s[1] <= s[i + 1] /\ s[i + 1] \in Nat
        BY <1>2, <1>3, <4>1 DEF Ascends
      <4>3. t[i] = s[i + 1]
        BY <2>2
      <4>4. all[j] <= s[i + 1]
        BY <3>1, <4>2
      <4> QED
        BY <4>3, <4>4
    <3> QED
      BY <2>1, <2>2, <3>1, <3>2
  <2>9. Best(all, t, shifted)
    BY <2>8 DEF Best
  <2>10. PICK to : /\ Picks(Append(all, x), Inserted(t, x), to)
                   /\ Best(Append(all, x), Inserted(t, x), to)
    BY <2>2, <2>5, <2>6, <2>8, <2>9, InsertedIsBest DEF PicksMore
  <2>11. /\ Inserted(t, x) \in Seq(Nat) /\ Len(Inserted(t, x)) = Len(t) + 1
         /\ Ascends(Inserted(t, x))
    BY <2>2, <2>5, InsertedAscends
  <2>12. ~(Len(Append(all, x)) < TopSlowest) /\ Len(Inserted(t, x)) = TopSlowest
    BY <1>2, <2>1, <2>2, <2>11
  <2> QED
    BY <2>1, <2>10, <2>11, <2>12 DEF SlowInv, Chosen, Held
<1>6. CASE ~(Len(s) < TopSlowest) /\ ~(s # <<>> /\ x > Head(s))
  <2>1. Push(s, x) = s /\ Len(s) = TopSlowest /\ ~(Len(all) < TopSlowest)
    BY <1>2, <1>3, <1>6 DEF Push
  <2>2. \A i \in 1..Len(s) : x <= s[i]
    <3> TAKE i \in 1..Len(s)
    <3>1. s # <<>> /\ 1 \in 1..Len(s) /\ 1 <= i
      BY <1>2
    <3>2. x <= s[1] /\ s[1] <= s[i]
      BY <1>2, <1>3, <1>6, <3>1 DEF Ascends
    <3> QED
      BY <1>2, <3>1, <3>2
  <2>3. \A j \in 1..Len(all) : Append(all, x)[j] = all[j]
    OBVIOUS
  <2>4. Append(all, x)[Len(all) + 1] = x
    OBVIOUS
  <2>5. 1..Len(all) \subseteq 1..Len(all) + 1
    BY <1>2
  <2>6. Picks(Append(all, x), s, from)
    BY <1>1, <1>2, <2>3, <2>5 DEF Picks
  <2>7. ASSUME NEW j \in LeftOut(Append(all, x), s, from), NEW i \in 1..Len(s)
        PROVE  Append(all, x)[j] <= s[i]
    <3>1. j \in 1..Len(all) + 1 /\ \A k \in 1..Len(s) : from[k] # j
      BY <1>2, <2>7 DEF LeftOut
    <3>2. CASE j = Len(all) + 1
      BY <2>2, <2>4, <3>2
    <3>3. CASE j \in 1..Len(all)
      <4>1. j \in LeftOut(all, s, from)
        BY <3>1, <3>3 DEF LeftOut
      <4>2. all[j] <= s[i]
        BY <1>1, <4>1 DEF Best
      <4> QED
        BY <2>3, <3>3, <4>2
    <3> QED
      BY <1>2, <3>1, <3>2, <3>3
  <2>8. Best(Append(all, x), s, from)
    BY <2>7 DEF Best
  <2>9. ~(Len(Append(all, x)) < TopSlowest)
    BY <1>2, <2>1
  <2> QED
    BY <1>3, <2>1, <2>6, <2>8, <2>9 DEF SlowInv, Chosen, Held
<1> QED
  BY <1>4, <1>5, <1>6

\* The best, as the property says it.
LEMMA SlowIsLargest ==
  ASSUME NEW all, NEW s, SlowInv(all, s)
  PROVE  Largest(all, s)
<1>1. PICK from : Picks(all, s, from) /\ Best(all, s, from)
  BY DEF SlowInv, Chosen
<1>2. Len(s) = IF Len(all) < TopSlowest THEN Len(all) ELSE TopSlowest
  BY DEF SlowInv, Held
<1>3. /\ from \in [1..Len(s) -> 1..Len(all)] /\ IsInjective(from)
      /\ \A i \in 1..Len(s) : s[i] = all[from[i]]
  BY <1>1 DEF Picks, IsInjective
<1>4. \A j \in 1..Len(all) : (\A i \in 1..Len(s) : from[i] # j) => \A i \in 1..Len(s) : all[j] <= s[i]
  BY <1>1 DEF Best, LeftOut
<1> QED
  BY <1>2, <1>3, <1>4 DEF Largest

-----------------------------------------------------------------------------
(* The histograms.                                                         *)

\* A histogram holds the latest numbers, and all that were ever in range if no other came.
HistInv(all, h) ==
  /\ Latest(all, h.held) /\ h.max >= HistMax
  /\ (\A i \in 1..Len(all) : all[i] <= HistMax) => h.held = all

\* Recording keeps a histogram what it is, also when it starts a new one.
LEMMA RecordedKeeps ==
  ASSUME NEW all \in Seq(Nat), NEW h \in [max : Nat, held : Seq(Nat)], NEW x \in Nat, HistInv(all, h)
  PROVE  Recorded(h, x) \in [max : Nat, held : Seq(Nat)] /\ HistInv(Append(all, x), Recorded(h, x))
<1>1. h.max \in Nat /\ h.held \in Seq(Nat) /\ HistMax \in Nat /\ h.max >= HistMax
  BY BoundsAssumption DEF HistInv
<1>2. /\ Len(all) \in Nat /\ Len(Append(all, x)) = Len(all) + 1 /\ Append(all, x)[Len(all) + 1] = x
      /\ \A i \in 1..Len(all) : Append(all, x)[i] = all[i]
  OBVIOUS
<1>3. CASE x <= h.max
  <2>1. Recorded(h, x) = [h EXCEPT !.held = Append(h.held, x)]
    BY <1>3 DEF Recorded
  <2>2. Recorded(h, x).max = h.max /\ Recorded(h, x).held = Append(h.held, x) /\ Recorded(h, x) \in [max : Nat, held : Seq(Nat)]
    <3>1. Append(h.held, x) \in Seq(Nat)
      BY <1>1
    <3>2. \A v \in Seq(Nat) : /\ [h EXCEPT !.held = v] \in [max : Nat, held : Seq(Nat)]
                             /\ [h EXCEPT !.held = v].max = h.max /\ [h EXCEPT !.held = v].held = v
      OBVIOUS
    <3> QED
      BY <1>1, <2>1, <3>1, <3>2
  <2>3. Latest(Append(all, x), Append(h.held, x))
    BY <1>1, LatestAppends DEF HistInv
  <2>4. ASSUME \A i \in 1..Len(Append(all, x)) : Append(all, x)[i] <= HistMax
        PROVE  Append(h.held, x) = Append(all, x)
    <3>1. \A i \in 1..Len(all) : all[i] <= HistMax
      <4> TAKE i \in 1..Len(all)
      <4>1. i \in 1..Len(Append(all, x)) /\ Append(all, x)[i] = all[i]
        BY <1>2
      <4> QED
        BY <2>4, <4>1
    <3> QED
      BY <3>1 DEF HistInv
  <2> QED
    BY <1>1, <2>2, <2>3, <2>4 DEF HistInv
<1>4. CASE ~(x <= h.max)
  <2>1. Recorded(h, x) = [max |-> 2 * x, held |-> <<x>>]
    BY <1>4 DEF Recorded
  <2>2. 2 * x \in Nat /\ 2 * x >= HistMax /\ ~(x <= HistMax) /\ <<x>> \in Seq(Nat)
    BY <1>1, <1>4
  <2>3. Recorded(h, x).max = 2 * x /\ Recorded(h, x).held = <<x>> /\ Recorded(h, x) \in [max : Nat, held : Seq(Nat)]
    BY <2>1, <2>2
  <2>4. Latest(Append(all, x), <<x>>)
    BY LatestOne
  <2>5. ~(\A i \in 1..Len(Append(all, x)) : Append(all, x)[i] <= HistMax)
    <3>1. Len(all) + 1 \in 1..Len(Append(all, x))
      BY <1>2
    <3> QED
      BY <1>2, <2>2, <3>1
  <2> QED
    BY <2>2, <2>3, <2>4, <2>5 DEF HistInv
<1> QED
  BY <1>3, <1>4

-----------------------------------------------------------------------------
(* The invariant.                                                          *)

\* A window holds the latest samples of its kind, and what it gave up is expired.
WindowInv(k) ==
  /\ counts[k] = Len(received[k])
  /\ Latest(received[k], samples[k])
  /\ \A i \in 1..(Len(received[k]) - Len(samples[k])) : clock - received[k][i].at > Window

Inv ==
  /\ Types
  /\ \A k \in Kinds : WindowInv(k)
  /\ SlowInv(Numbers("rpc"), slowest)
  /\ \A k \in {"rpc", "mining"} : HistInv(Numbers(k), hist[k])
  /\ dropped + shown = Len(received["nothing"])

\* The invariant says what the property does.
LEMMA InvSays == Inv => SummariesHold
<1> SUFFICES ASSUME Inv PROVE SummariesHold
  OBVIOUS
<1>1. Largest(Numbers("rpc"), slowest)
  BY SlowIsLargest DEF Inv
<1>2. ASSUME NEW k \in DOMAIN hist
      PROVE  /\ Latest(Numbers(k), hist[k].held)
             /\ (\A i \in DOMAIN received[k] : received[k][i].value <= HistMax) => hist[k].held = Numbers(k)
  <2>1. k \in {"rpc", "mining"} /\ k \in Outcomes /\ received[k] \in Seq(Sample)
    BY <1>2 DEF Inv, Types, Outcomes, Kinds
  <2>2. HistInv(Numbers(k), hist[k])
    BY <2>1 DEF Inv
  <2>3. /\ Len(Numbers(k)) = Len(received[k]) /\ DOMAIN received[k] = 1..Len(received[k])
        /\ \A i \in 1..Len(received[k]) : Numbers(k)[i] = received[k][i].value
    BY <2>1 DEF Numbers
  <2> QED
    BY <2>2, <2>3 DEF HistInv
<1>3. dropped + shown = Len(received["nothing"]) /\ \A k \in Kinds : WindowInv(k)
  BY DEF Inv
<1> QED
  BY <1>1, <1>2, <1>3 DEF SummariesHold, WindowInv

\* What the numbers of a kind are, and how a received line extends them.
LEMMA NumbersGrow ==
  ASSUME Types, NEW k \in Outcomes
  PROVE  /\ Numbers(k) \in Seq(Nat)
         /\ received'[k] = received[k] => Numbers(k)' = Numbers(k)
         /\ \A x \in Sample : received'[k] = Append(received[k], x) => Numbers(k)' = Append(Numbers(k), x.value)
<1>1. received[k] \in Seq(Sample) /\ Len(received[k]) \in Nat
  BY DEF Types
<1>2. \A i \in 1..Len(received[k]) : received[k][i] \in Sample /\ received[k][i].value \in Nat
  <2>1. \A i \in 1..Len(received[k]) : received[k][i] \in Sample
    BY <1>1
  <2>2. \A y \in Sample : y.value \in Nat
    BY DEF Sample
  <2> QED
    BY <2>1, <2>2
<1>3. Numbers(k) \in [1..Len(received[k]) -> Nat]
  BY <1>2 DEF Numbers
<1>4. Numbers(k) \in Seq(Nat) /\ Len(Numbers(k)) = Len(received[k])
  BY <1>1, <1>3
<1>5. received'[k] = received[k] => Numbers(k)' = Numbers(k)
  BY DEF Numbers
<1>6. ASSUME NEW x \in Sample, received'[k] = Append(received[k], x)
      PROVE  Numbers(k)' = Append(Numbers(k), x.value)
  <2> DEFINE n == Len(received[k])
  <2>1. /\ Len(received'[k]) = n + 1 /\ received'[k][n + 1] = x
        /\ \A i \in 1..n : received'[k][i] = received[k][i]
    BY <1>1, <1>6
  <2>2. Numbers(k)' = [i \in 1..n + 1 |-> received'[k][i].value]
    BY <2>1 DEF Numbers
  <2>3. Append(Numbers(k), x.value) = [i \in 1..n + 1 |-> IF i = n + 1 THEN x.value ELSE Numbers(k)[i]]
    <3> DEFINE q == Append(Numbers(k), x.value)
    <3>1. x.value \in Nat
      BY DEF Sample
    <3>2. /\ q \in Seq(Nat) /\ Len(q) = n + 1 /\ q[n + 1] = x.value
          /\ \A i \in 1..n : q[i] = Numbers(k)[i]
      BY <1>4, <3>1
    <3> HIDE DEF q
    <3>3. q = [i \in 1..n + 1 |-> q[i]]
      BY <3>2
    <3>4. \A i \in 1..n + 1 : q[i] = IF i = n + 1 THEN x.value ELSE Numbers(k)[i]
      BY <1>1, <3>2
    <3>5. q = [i \in 1..n + 1 |-> IF i = n + 1 THEN x.value ELSE Numbers(k)[i]]
      BY <3>3, <3>4
    <3> QED
      BY <3>5 DEF q
  <2>4. \A i \in 1..n : Numbers(k)[i] = received[k][i].value
    BY DEF Numbers
  <2>5. \A i \in 1..n + 1 : received'[k][i].value = IF i = n + 1 THEN x.value ELSE Numbers(k)[i]
    <3> TAKE i \in 1..n + 1
    <3>1. CASE i = n + 1
      BY <2>1, <3>1
    <3>2. CASE i # n + 1
      <4>1. i \in 1..n
        BY <1>1, <3>2
      <4> QED
        BY <2>1, <2>4, <3>2, <4>1
    <3> QED
      BY <3>1, <3>2
  <2> HIDE DEF n
  <2> QED
    BY <2>2, <2>3, <2>5
<1> QED
  BY <1>4, <1>5, <1>6

\* Nothing was received at the start.
LEMMA InitInv == Init => Inv
<1> SUFFICES ASSUME Init PROVE Inv
  OBVIOUS
<1> USE DEF Init
<1>1. \A k \in Outcomes : received[k] = <<>> /\ Len(received[k]) = 0 /\ Numbers(k) = <<>>
  BY DEF Numbers
<1>2. {"rpc", "mining"} \subseteq Kinds /\ Kinds \subseteq Outcomes /\ "nothing" \in Outcomes
  BY DEF Kinds, Outcomes
<1>3. Types
  <2>1. HistMax \in Nat /\ <<>> \in Seq(Nat) /\ <<>> \in Seq(Sample) /\ <<>> \in Seq(Lines)
    BY BoundsAssumption
  <2> QED
    BY <2>1 DEF Types
<1>4. \A k \in Kinds : WindowInv(k)
  <2> TAKE k \in Kinds
  <2>1. samples[k] = <<>> /\ counts[k] = 0 /\ received[k] = <<>> /\ Len(received[k]) = 0
    BY <1>1, <1>2
  <2> QED
    BY <2>1 DEF WindowInv, Latest
<1>5. SlowInv(Numbers("rpc"), slowest)
  <2>1. Numbers("rpc") = <<>> /\ slowest = <<>> /\ TopSlowest \in Nat
    BY <1>1, <1>2, BoundsAssumption
  <2>2. Picks(<<>>, <<>>, <<>>) /\ Best(<<>>, <<>>, <<>>) /\ LeftOut(<<>>, <<>>, <<>>) = {}
    BY DEF Picks, Best, LeftOut
  <2>3. Len(<<>>) = Held(<<>>) /\ Ascends(<<>>)
    BY <2>1 DEF Held, Ascends
  <2> QED
    BY <2>1, <2>2, <2>3 DEF SlowInv, Chosen
<1>6. \A k \in {"rpc", "mining"} : HistInv(Numbers(k), hist[k])
  <2> TAKE k \in {"rpc", "mining"}
  <2>1. Numbers(k) = <<>> /\ hist[k].held = <<>> /\ hist[k].max = HistMax /\ HistMax \in Nat
    BY <1>1, <1>2, BoundsAssumption
  <2> QED
    BY <2>1 DEF HistInv, Latest
<1>7. dropped + shown = Len(received["nothing"])
  BY <1>1, <1>2
<1> QED
  BY <1>3, <1>4, <1>5, <1>6, <1>7 DEF Inv

-----------------------------------------------------------------------------
(* The steps.                                                              *)

\* A line parses to one of the outcomes, and what its number is in microseconds is a number.
LEMMA LineParsed ==
  ASSUME NEW line \in Lines
  PROVE  /\ Parse(line) \in Outcomes
         /\ line.unit \in DOMAIN Micros => Value(line) \in Nat
<1>1. Parse(line) \in Outcomes
  <2>1. CASE \E k \in Kinds : line.log \in Logged[k]
    <3>1. (CHOOSE k \in Kinds : line.log \in Logged[k]) \in Kinds
      BY <2>1
    <3> QED
      BY <3>1 DEF Parse, Outcomes, Kinds
  <2>2. CASE ~\E k \in Kinds : line.log \in Logged[k]
    BY <2>2 DEF Parse, Outcomes, Kinds
  <2> QED
    BY <2>1, <2>2
<1>2. ASSUME line.unit \in DOMAIN Micros
      PROVE  Value(line) \in Nat
  <2>1. Micros[line.unit] \in Nat
    BY <1>2 DEF Micros
  <2>2. \A a, b \in Nat : a * b \in Nat
    OBVIOUS
  <2> QED
    BY <2>1, <2>2, LinesAssumption DEF Value
<1> QED
  BY <1>1, <1>2

\* A sample that is received is counted in its window.
LEMMA WindowAppends ==
  ASSUME Types, NEW k \in Kinds, WindowInv(k), NEW x \in Sample, clock' = clock,
         received'[k] = Append(received[k], x), samples'[k] = Append(samples[k], x),
         counts'[k] = counts[k] + 1
  PROVE  WindowInv(k)'
<1>1. /\ received[k] \in Seq(Sample) /\ samples[k] \in Seq(Sample)
      /\ Len(received[k]) \in Nat /\ Len(samples[k]) \in Nat /\ Len(samples[k]) <= Len(received[k])
  BY DEF Types, Outcomes, WindowInv, Latest
<1>2. Latest(received'[k], samples'[k])
  BY <1>1, LatestAppends DEF WindowInv
<1>3. /\ Len(received'[k]) = Len(received[k]) + 1 /\ Len(samples'[k]) = Len(samples[k]) + 1
      /\ \A i \in 1..Len(received[k]) : received'[k][i] = received[k][i]
  BY <1>1
<1>4. Len(received'[k]) - Len(samples'[k]) = Len(received[k]) - Len(samples[k])
  BY <1>1, <1>3
<1>5. \A i \in 1..(Len(received[k]) - Len(samples[k])) : i \in 1..Len(received[k])
  BY <1>1
<1> QED
  BY <1>2, <1>3, <1>4, <1>5 DEF WindowInv

\* A line goes to what it parses to, and to nothing else.
LEMMA ReceiveInv == Inv /\ Receive => Inv'
<1> SUFFICES ASSUME Inv, Receive PROVE Inv'
  OBVIOUS
<1>1. /\ input \in Seq(Lines) /\ channel \in Seq(Lines) /\ clock \in Nat /\ dropped \in Nat /\ shown \in Nat
      /\ samples \in [Kinds -> Seq(Sample)] /\ counts \in [Kinds -> Nat]
      /\ hist \in [{"rpc", "mining"} -> [max : Nat, held : Seq(Nat)]]
      /\ slowest \in Seq(Nat) /\ received \in [Outcomes -> Seq(Sample)]
  BY DEF Inv, Types
<1>2. /\ channel' \in Seq(Lines) /\ clock' = clock /\ shown' = shown /\ input' = input
  BY <1>1 DEF Receive
<1>3. PICK kind \in Outcomes, number \in Nat, sample \in Sample :
        /\ sample.value = number
        /\ IF kind \in Kinds THEN Sampled(kind, sample) /\ Counted(kind, number)
                             ELSE UNCHANGED <<samples, counts, hist, slowest>>
        /\ dropped' = IF kind = "nothing" THEN dropped + 1 ELSE dropped
        /\ received' = [received EXCEPT ![kind] = Append(received[kind], sample)]
  <2> DEFINE line == Head(channel)
             parsed == Parse(line)
             amount == IF line.unit \in DOMAIN Micros THEN Value(line) ELSE 0
             stored == [at |-> clock, value |-> amount]
  <2>1. /\ channel # <<>>
        /\ IF parsed \in Kinds THEN Sampled(parsed, stored) /\ Counted(parsed, amount)
                               ELSE UNCHANGED <<samples, counts, hist, slowest>>
        /\ dropped' = IF parsed = "nothing" THEN dropped + 1 ELSE dropped
        /\ received' = [received EXCEPT ![parsed] = Append(received[parsed], stored)]
    BY DEF Receive
  <2>2. line \in Lines
    BY <1>1, <2>1
  <2>3. parsed \in Outcomes /\ amount \in Nat
    BY <2>2, LineParsed
  <2>4. stored \in Sample /\ stored.value = amount
    BY <1>1, <2>3 DEF Sample
  <2> HIDE DEF line, parsed, amount, stored
  <2> QED
    BY <2>1, <2>3, <2>4
<1>4. /\ IF kind \in Kinds THEN Sampled(kind, sample) /\ Counted(kind, number)
                           ELSE UNCHANGED <<samples, counts, hist, slowest>>
      /\ dropped' = IF kind = "nothing" THEN dropped + 1 ELSE dropped
      /\ received' = [received EXCEPT ![kind] = Append(received[kind], sample)]
      /\ clock' = clock /\ shown' = shown /\ input' = input
  BY <1>2, <1>3
<1>5. sample \in Sample /\ sample.value = number
  BY <1>3
<1>6. Kinds \subseteq Outcomes /\ "nothing" \in Outcomes /\ "nothing" \notin Kinds /\ {"rpc", "mining"} \subseteq Kinds
  BY DEF Kinds, Outcomes
<1>7. /\ received'[kind] = Append(received[kind], sample)
      /\ \A k \in Outcomes : k # kind => received'[k] = received[k]
      /\ received' \in [Outcomes -> Seq(Sample)]
  <2>1. received[kind] \in Seq(Sample) /\ Append(received[kind], sample) \in Seq(Sample)
    BY <1>1, <1>3, <1>5
  <2> QED
    BY <1>1, <1>3, <1>4, <2>1
<1>8. /\ kind \in Kinds => /\ samples'[kind] = Append(samples[kind], sample)
                           /\ counts'[kind] = counts[kind] + 1
      /\ \A k \in Kinds : k # kind => samples'[k] = samples[k] /\ counts'[k] = counts[k]
      /\ samples' \in [Kinds -> Seq(Sample)] /\ counts' \in [Kinds -> Nat]
  <2>1. CASE kind \in Kinds
    <3>1. /\ samples' = [samples EXCEPT ![kind] = Append(samples[kind], sample)]
          /\ counts' = [counts EXCEPT ![kind] = counts[kind] + 1]
      BY <1>4, <2>1 DEF Sampled, Counted
    <3>2. Append(samples[kind], sample) \in Seq(Sample) /\ counts[kind] + 1 \in Nat
      BY <1>1, <1>5, <2>1
    <3> QED
      BY <1>1, <2>1, <3>1, <3>2
  <2>2. CASE kind \notin Kinds
    BY <1>1, <1>4, <2>2
  <2> QED
    BY <2>1, <2>2
<1>9. \A k \in Kinds : WindowInv(k)'
  <2> TAKE k \in Kinds
  <2>1. WindowInv(k) /\ Types
    BY DEF Inv
  <2>2. CASE k = kind
    BY <1>4, <1>5, <1>7, <1>8, <2>1, <2>2, WindowAppends
  <2>3. CASE k # kind
    BY <1>4, <1>6, <1>7, <1>8, <2>1, <2>3 DEF WindowInv
  <2> QED
    BY <2>2, <2>3
<1>10. /\ \A k \in Outcomes : Numbers(k) \in Seq(Nat)
       /\ \A k \in Outcomes : k # kind => Numbers(k)' = Numbers(k)
       /\ Numbers(kind)' = Append(Numbers(kind), number)
  <2>1. Types
    BY DEF Inv
  <2>2. \A k \in Outcomes : Numbers(k) \in Seq(Nat)
    BY <2>1, NumbersGrow
  <2>3. ASSUME NEW k \in Outcomes, k # kind PROVE Numbers(k)' = Numbers(k)
    BY <1>7, <2>1, <2>3, NumbersGrow
  <2>4. Numbers(kind)' = Append(Numbers(kind), sample.value)
    BY <1>3, <1>5, <1>7, <2>1, NumbersGrow
  <2> QED
    BY <1>5, <2>2, <2>3, <2>4
<1>11. slowest' \in Seq(Nat) /\ SlowInv(Numbers("rpc"), slowest)'
  <2>1. SlowInv(Numbers("rpc"), slowest) /\ Numbers("rpc") \in Seq(Nat)
    BY <1>6, <1>10 DEF Inv
  <2>2. CASE kind = "rpc"
    <3>1. slowest' = Push(slowest, number)
      BY <1>4, <1>6, <2>2 DEF Counted
    <3>2. Numbers("rpc")' = Append(Numbers("rpc"), number)
      <4>1. Numbers(kind)' = Append(Numbers(kind), number)
        BY <1>10
      <4> QED
        BY <2>2, <4>1
    <3>3. Push(slowest, number) \in Seq(Nat) /\ SlowInv(Append(Numbers("rpc"), number), Push(slowest, number))
      BY <1>1, <1>3, <2>1, PushKeeps
    <3> QED
      BY <3>1, <3>2, <3>3
  <2>3. CASE kind # "rpc"
    <3>1. slowest' = slowest
      BY <1>4, <2>3 DEF Counted
    <3>2. Numbers("rpc")' = Numbers("rpc")
      BY <1>6, <1>10, <2>3
    <3> QED
      BY <1>1, <2>1, <3>1, <3>2
  <2> QED
    BY <2>2, <2>3
<1>12. hist' = IF kind \in {"rpc", "mining"} THEN [hist EXCEPT ![kind] = Recorded(hist[kind], number)] ELSE hist
  BY <1>1, <1>4, <1>6 DEF Counted
<1>13. ASSUME NEW k \in {"rpc", "mining"}
       PROVE  hist'[k] \in [max : Nat, held : Seq(Nat)] /\ HistInv(Numbers(k), hist[k])'
  <2>1. hist[k] \in [max : Nat, held : Seq(Nat)] /\ HistInv(Numbers(k), hist[k]) /\ Numbers(k) \in Seq(Nat)
    BY <1>1, <1>6, <1>10, <1>13 DEF Inv
  <2>2. CASE k = kind
    <3>1. hist'[k] = Recorded(hist[k], number) /\ Numbers(k)' = Append(Numbers(k), number)
      <4>1. hist' = [hist EXCEPT ![k] = Recorded(hist[k], number)]
        BY <1>12, <1>13, <2>2
      <4>2. hist'[k] = Recorded(hist[k], number)
        BY <1>1, <1>13, <4>1
      <4>3. Numbers(k)' = Append(Numbers(k), number)
        BY <1>10, <2>2
      <4> QED
        BY <4>2, <4>3
    <3>2. /\ Recorded(hist[k], number) \in [max : Nat, held : Seq(Nat)]
          /\ HistInv(Append(Numbers(k), number), Recorded(hist[k], number))
      BY <1>3, <2>1, RecordedKeeps
    <3> QED
      BY <3>1, <3>2
  <2>3. CASE k # kind
    <3>1. hist'[k] = hist[k] /\ Numbers(k)' = Numbers(k)
      BY <1>1, <1>6, <1>10, <1>12, <1>13, <2>3
    <3> QED
      BY <2>1, <3>1
  <2> QED
    BY <2>2, <2>3
<1>14. hist' \in [{"rpc", "mining"} -> [max : Nat, held : Seq(Nat)]]
  <2>1. hist' = [k \in {"rpc", "mining"} |-> hist'[k]]
    BY <1>1, <1>12
  <2> QED
    BY <1>13, <2>1
<1>15. dropped' \in Nat /\ dropped' + shown' = Len(received'["nothing"])
  <2>1. dropped + shown = Len(received["nothing"]) /\ received["nothing"] \in Seq(Sample)
    BY <1>1, <1>6 DEF Inv
  <2>2. CASE kind = "nothing"
    <3>1. Len(received'["nothing"]) = Len(received["nothing"]) + 1
      BY <1>7, <2>1, <2>2
    <3>2. dropped' = dropped + 1 /\ shown' = shown
      BY <1>4, <2>2
    <3>3. \A a, b, c \in Nat : a + b = c => (a + 1) + b = c + 1 /\ a + 1 \in Nat
      OBVIOUS
    <3>4. Len(received["nothing"]) \in Nat
      BY <2>1
    <3>5. (dropped + 1) + shown = Len(received["nothing"]) + 1 /\ dropped + 1 \in Nat
      BY <1>1, <2>1, <3>3, <3>4
    <3> QED
      BY <3>1, <3>2, <3>5
  <2>3. CASE kind # "nothing"
    BY <1>1, <1>4, <1>6, <1>7, <2>1, <2>3
  <2> QED
    BY <2>2, <2>3
<1>16. Types'
  BY <1>1, <1>2, <1>4, <1>7, <1>8, <1>11, <1>14, <1>15 DEF Types
<1> QED
  BY <1>9, <1>11, <1>13, <1>15, <1>16 DEF Inv

\* What was received stays what it was while none of it changes.
LEMMA NumbersStay ==
  ASSUME Inv, UNCHANGED <<hist, slowest, received>>
  PROVE  /\ SlowInv(Numbers("rpc"), slowest)'
         /\ \A k \in {"rpc", "mining"} : HistInv(Numbers(k), hist[k])'
<1>1. \A k \in Outcomes : Numbers(k)' = Numbers(k)
  BY DEF Numbers
<1>2. {"rpc", "mining"} \subseteq Outcomes
  BY DEF Outcomes, Kinds
<1>3. SlowInv(Numbers("rpc"), slowest)'
  BY <1>1, <1>2 DEF Inv
<1>4. \A k \in {"rpc", "mining"} : HistInv(Numbers(k), hist[k])'
  BY <1>1, <1>2 DEF Inv
<1> QED
  BY <1>3, <1>4

\* A tick takes expired samples only, and moves what it shows out of dropped.
LEMMA TickInv == Inv /\ Tick => Inv'
<1> SUFFICES ASSUME Inv, Tick PROVE Inv'
  OBVIOUS
<1>1. /\ samples' = [k \in Kinds |-> Purged(samples[k])]
      /\ dropped' + shown' = dropped + shown /\ dropped' \in Nat /\ shown' \in Nat
      /\ UNCHANGED <<input, channel, clock, counts, hist, slowest, received>>
  <2>1. dropped \in Nat /\ shown \in Nat
    BY DEF Inv, Types
  <2> QED
    BY <2>1 DEF Tick, inputVars, shownVars
<1>2. ASSUME NEW k \in Kinds
      PROVE  samples'[k] \in Seq(Sample) /\ WindowInv(k)'
  <2> DEFINE n == Cardinality(Expired(samples[k]))
             all == Len(received[k])
             kept == Len(samples[k])
             gone == all - kept
  <2>1. samples[k] \in Seq(Sample) /\ received[k] \in Seq(Sample) /\ WindowInv(k)
    BY DEF Inv, Types, Outcomes
  <2>2. n \in 0..Len(samples[k]) /\ \A i \in 1..n : clock - samples[k][i].at > Window
    BY <2>1, PurgeTakesExpired
  <2>3. samples'[k] = SubSeq(samples[k], n + 1, Len(samples[k]))
    BY <1>1 DEF Purged
  <2> HIDE DEF n
  <2>4. /\ samples'[k] \in Seq(Sample) /\ Len(samples'[k]) = Len(samples[k]) - n
        /\ Latest(received[k], samples'[k])
    BY <2>1, <2>2, <2>3, LatestShrinks DEF WindowInv
  <2>5. kept \in Nat /\ all \in Nat /\ kept <= all /\ \A i \in 1..kept : samples[k][i] = received[k][gone + i]
    <3>1. Latest(received[k], samples[k])
      BY <2>1 DEF WindowInv
    <3>2. kept \in Nat /\ all \in Nat
      BY <2>1
    <3> QED
      BY <3>1, <3>2 DEF Latest
  <2>6. \A i \in 1..gone : clock - received[k][i].at > Window
    BY <2>1 DEF WindowInv
  <2>7. Len(samples'[k]) = kept - n /\ n \in 0..kept
    BY <2>2, <2>4
  <2> HIDE DEF all, kept
  <2>8. ASSUME NEW i \in 1..(all - Len(samples'[k]))
        PROVE  clock - received[k][i].at > Window
    <3>1. CASE i \in 1..gone
      BY <2>6, <3>1
    <3>2. CASE i > gone
      <4>1. i - gone \in 1..n /\ i - gone \in 1..kept /\ gone + (i - gone) = i
        BY <2>5, <2>7, <3>2
      <4>2. samples[k][i - gone] = received[k][i]
        BY <2>5, <4>1
      <4> QED
        BY <2>2, <4>1, <4>2
    <3> QED
      BY <2>5, <2>7, <3>1, <3>2
  <2> QED
    BY <1>1, <2>1, <2>4, <2>8 DEF WindowInv, all
<1>3. samples' \in [Kinds -> Seq(Sample)]
  BY <1>1, <1>2
<1>4. Types'
  BY <1>1, <1>3 DEF Inv, Types
<1> QED
  BY <1>1, <1>2, <1>4, NumbersStay DEF Inv

\* What is expired stays expired, as time goes on.
LEMMA ElapseInv == Inv /\ Elapse => Inv'
<1> SUFFICES ASSUME Inv, Elapse PROVE Inv'
  OBVIOUS
<1>1. /\ clock' = clock + 1 /\ clock \in Nat
      /\ UNCHANGED <<input, channel, samples, counts, hist, slowest, received, dropped, shown>>
  BY DEF Inv, Types, Elapse, inputVars, metricVars, shownVars
<1>2. ASSUME NEW k \in Kinds
      PROVE  WindowInv(k)'
  <2>1. received[k] \in Seq(Sample) /\ samples[k] \in Seq(Sample) /\ WindowInv(k) /\ Window \in Nat
    BY BoundsAssumption DEF Inv, Types, Outcomes
  <2>2. \A i \in 1..(Len(received[k]) - Len(samples[k])) : i \in 1..Len(received[k])
    <3>1. Len(received[k]) \in Nat /\ Len(samples[k]) \in Nat
      BY <2>1
    <3>2. \A a, b \in Nat : \A i \in 1..(a - b) : i \in 1..a
      OBVIOUS
    <3> QED
      BY <3>1, <3>2
  <2>3. \A i \in 1..Len(received[k]) : received[k][i] \in Sample
    BY <2>1
  <2>4. \A y \in Sample : y.at \in Nat
    BY DEF Sample
  <2>5. \A t \in Nat : clock - t > Window => clock' - t > Window
    BY <1>1, <2>1
  <2>6. \A i \in 1..(Len(received[k]) - Len(samples[k])) : clock' - received[k][i].at > Window
    BY <2>1, <2>2, <2>3, <2>4, <2>5 DEF WindowInv
  <2> QED
    <3>1. samples' = samples /\ counts' = counts /\ received' = received
      BY <1>1
    <3> QED
      BY <2>1, <2>6, <3>1 DEF WindowInv
<1>3. Types'
  BY <1>1 DEF Inv, Types
<1> QED
  BY <1>1, <1>2, <1>3, NumbersStay DEF Inv

\* The other steps move lines, or only the loop.
LEMMA QuietInv ==
  ASSUME Inv, UNCHANGED <<clock, samples, counts, hist, slowest, received, dropped, shown>>,
         input' \in Seq(Lines), channel' \in Seq(Lines)
  PROVE  Inv'
<1>1. \A k \in Kinds : WindowInv(k)'
  BY DEF Inv, WindowInv
<1>2. Types'
  BY DEF Inv, Types
<1> QED
  BY <1>1, <1>2, NumbersStay DEF Inv

\* Every step keeps the invariant.
LEMMA NextInv == Inv /\ [Next]_vars => Inv'
<1> SUFFICES ASSUME Inv, [Next]_vars PROVE Inv'
  OBVIOUS
<1>1. input \in Seq(Lines) /\ channel \in Seq(Lines)
  BY DEF Inv, Types
<1>2. ASSUME NEW l \in Lines, Write(l) PROVE Inv'
  BY <1>1, <1>2, QuietInv DEF Write, metricVars, shownVars
<1>3. CASE Read
  <2>1. Head(input) \in Lines /\ input' \in Seq(Lines) /\ channel' \in Seq(Lines)
    BY <1>1, <1>3 DEF Read
  <2> QED
    BY <1>3, <2>1, QuietInv DEF Read, metricVars, shownVars
<1>4. CASE Close \/ ReadEof \/ ReadFails \/ SendFails
  BY <1>1, <1>4, QuietInv DEF Close, ReadEof, ReadFails, SendFails, ReaderEnds, metricVars, shownVars
<1>5. CASE Eof \/ Signal \/ PrintFails \/ Join
  BY <1>1, <1>5, QuietInv DEF Eof, Signal, PrintFails, Join, inputVars, metricVars, shownVars
<1>6. CASE UNCHANGED vars
  BY <1>1, <1>6, QuietInv DEF vars, inputVars, metricVars, shownVars
<1> QED
  BY <1>2, <1>3, <1>4, <1>5, <1>6, ReceiveInv, TickInv, ElapseInv DEF Next

\* The summaries are right (SummariesHold): counters count, windows hold what is not
\* expired, the slowest are the largest, histograms the latest, and no dropped line is
\* shown twice or forgotten, for every log and every size.
THEOREM SummariesAreRight == Spec => []SummariesHold
BY InitInv, NextInv, InvSays, PTL DEF Spec
=============================================================================
