--------------------------- MODULE MCWsConnection ---------------------------
(* Values for model-checking WsConnection. *)
EXTENDS WsConnection, TLC

CONSTANTS batch, call, sub, bad

\* A batch larger than the permits, a call, a subscription and a bad frame.
FrameKinds == (batch :> "call") @@ (call :> "call") @@ (sub :> "subscribe") @@ (bad :> "invalid")
FrameSizes == (batch :> 3) @@ (call :> 1) @@ (sub :> 1) @@ (bad :> 1)
KindOf == [m \in Messages |-> FrameKinds[m]]
SizeOf == [m \in Messages |-> FrameSizes[m]]
=============================================================================
