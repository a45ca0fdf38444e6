------------------------------- MODULE MCTxPool -------------------------------
(***************************************************************************)
(* An instance of the transaction pool.  Two accounts; the first one has   *)
(* three nonces and two competing transactions for one of them.            *)
(***************************************************************************)
EXTENDS TxPool

CONSTANTS A, B, wallet, gossip

Tx(a, n, p, c) == [from |-> a, nonce |-> n, price |-> p, cost |-> c]

A0 == Tx(A, 0, 20, 2)
A0b == Tx(A, 0, 22, 3)
A1 == Tx(A, 1, 30, 4)
A2 == Tx(A, 2, 40, 1)
A3 == Tx(A, 3, 5, 1)
B0 == Tx(B, 0, 60, 1)
B1 == Tx(B, 1, 10, 1)
B2 == Tx(B, 2, 50, 2)

MCAccount == {A, B}

MCTxs == {A0, A0b, A1, A2, A3, B0, B1, B2}

MCStart == <<{B0}>>

MCFunds == (A :> 5) @@ (B :> 4)

MCBatches == (wallet :> {<<A0b, A3>>})
          @@ (gossip :> {<<A0, A1, A2>>, <<B2, B1>>})
=============================================================================
