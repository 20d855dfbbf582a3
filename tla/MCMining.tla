------------------------------ MODULE MCMining ------------------------------
(* Output lists for TLC: none; one that runs dry before the third fallback; *)
(* two outputs that alternate, dry at a later turn and paying exactly.       *)
EXTENDS Mining

MCOutputLists == {<<>>, <<2>>, <<1, 5>>, <<2, 1>>}
=============================================================================
