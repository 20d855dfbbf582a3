------------------------------ MODULE MCTxPerf ------------------------------
(***************************************************************************)
(* Three latencies, one of them out of the histogram's range and one whose *)
(* unit is not parsed, and mining lines on both sides of the range, one of *)
(* which reports no success.                                               *)
(***************************************************************************)
EXTENDS TxPerf

Line(log, number, unit) == [log |-> log, number |-> number, unit |-> unit]

MCLines == {
  Line("rpc_accepted", 1, "us"), Line("rpc_accepted", 2, "us"), Line("rpc_accepted", 1, "ms"),
  Line("rpc_accepted", 500, "ns"),
  Line("mining_progress", 1, "us"), Line("wallet_mined", 1, "ms")}
=============================================================================
