--------------------------- MODULE OutputVariance ---------------------------
(***************************************************************************)
(* The fallback of the miner when no nonce gives the prefix: it takes one  *)
(* unit from an output to get other ids.  Mining runs it; the entry tool   *)
(* sends what is left.                                                     *)
(***************************************************************************)
EXTENDS Integers, Sequences

\* The output whose turn the n-th fallback is.
Turn(o, n) == 1 + (n % Len(o))

\* Mutant: two units at a time.
LowerByTwo(o, n) ==
  IF o # <<>> /\ o[Turn(o, n)] > 1 THEN [o EXCEPT ![Turn(o, n)] = @ - 2] ELSE o

\* The fallback: take one unit from an output, in turn, if it has one.
Lower(o, n) ==
  IF o # <<>> /\ o[Turn(o, n)] > 0 THEN [o EXCEPT ![Turn(o, n)] = @ - 1] ELSE o
=============================================================================
