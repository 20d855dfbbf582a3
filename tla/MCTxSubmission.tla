--------------------------- MODULE MCTxSubmission ---------------------------
(* Values for model-checking TxSubmission. *)
EXTENDS TxSubmission, TLC

CONSTANTS r1, r2, r3, r4, igra, native

\* A legacy transaction whose price only meets a calm network, a dynamic one that
\* meets every fee here, one whose tip is below the configured floor, a blob.
Legacy  == [type |-> 0, decodes |-> TRUE, maxFee |-> 2, priorityFee |-> 0]
Dynamic == [type |-> 2, decodes |-> TRUE, maxFee |-> 3, priorityFee |-> 3]
LowTip  == [type |-> 4, decodes |-> TRUE, maxFee |-> 3, priorityFee |-> 1]
Blob    == [type |-> 3, decodes |-> TRUE, maxFee |-> 3, priorityFee |-> 3]

\* One transaction submitted by everyone (clients that retry, or race): requests
\* are interchangeable.
SameTx == [r \in Requests |-> Dynamic]
AnyRequest == Permutations(Requests)
\* Transactions the accept path must tell apart.
FourTxs == (r1 :> Dynamic) @@ (r2 :> LowTip) @@ (r3 :> Legacy) @@ (r4 :> Blob)
TwoTxs == (r1 :> Dynamic) @@ (r2 :> Legacy)

AllSubnets == {igra, native}

Good == [form |-> "partial", version |-> 1, subnet |-> igra, payload |-> 5,
         prefixed |-> FALSE]
Consolidation == [Good EXCEPT !.subnet = native, !.payload = 0, !.version = 0]

\* The transactions a daemon may put last: as asked, not decodable, of the wrong
\* version or subnetwork, and with a payload of at most the nonce.
LastTxs == {Good,
            [Good EXCEPT !.form = "undecodable"],
            [Good EXCEPT !.version = 0],
            [Good EXCEPT !.subnet = native],
            [Good EXCEPT !.payload = NonceLen],
            [Good EXCEPT !.payload = 0]}

\* Besides: no transaction, bare staging, and staging that carries a payload.
AnyBatch == {<<t>> : t \in LastTxs} \cup {<<Consolidation, Good>>, <<Good, Good>>, <<>>}
\* With an answer the decoder unwinds on.
Unwinding == {<<Good>>, <<>>, <<[Good EXCEPT !.form = "panic"]>>}
AnyAnswer == AnyBatch \cup Unwinding
=============================================================================
