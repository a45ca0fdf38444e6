---------------------------- MODULE MCBlockChain ----------------------------
(***************************************************************************)
(* Instances of BlockChain for TLC.                                        *)
(***************************************************************************)
EXTENDS BlockChain

Child(b, difficulty, tx) == Append(b, [difficulty |-> difficulty, tx |-> tx])

A1 == Child(Genesis, 1, <<"a", 0>>)
A2 == Child(A1, 1, NoTx)
A3 == Child(A2, 1, <<"a", 1>>)
B1 == Child(Genesis, 2, NoTx)
B2 == Child(B1, 1, <<"b", 0>>)

\* Two branches from genesis: block 1 of the second is in turn, so it beats
\* block 1 of the first and ties with its block 2.
MCNetwork == {A1, A2, A3, B1, B2}

\* The shortest reorganisation.
MCShort == {A1, A2, B1}
=============================================================================
