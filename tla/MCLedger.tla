------------------------------ MODULE MCLedger ------------------------------
(***************************************************************************)
(* A small universe of blocks for the ledger: two keys, coinbases that     *)
(* mature after one block and a new series every block, so that five       *)
(* heights see maturing, pruning, restoring and a replayed transaction.    *)
(***************************************************************************)
EXTENDS Ledger, TLC

Tx(from, to, amount, fee, series) ==
    [from |-> from, to |-> to, amount |-> amount, fee |-> fee, series |-> series,
     matures |-> 0, expires |-> 0, signed |-> TRUE]

Coinbase(to, amount, height) == Tx(Nil, to, amount, 0, height + 1)

MCTransaction ==
    [c0 |-> Coinbase("a", 4, 0),
     c1 |-> Coinbase("a", 4, 1), c2 |-> Coinbase("a", 5, 1),
     c3 |-> Coinbase("b", 3, 2), c4 |-> Coinbase("a", 3, 2),
     c8 |-> Coinbase("a", 3, 2), c9 |-> Coinbase("b", 2, 2),
     c5 |-> Coinbase("a", 3, 3), c6 |-> Coinbase("b", 3, 3),
     c10 |-> Coinbase("a", 3, 3), c11 |-> Coinbase("a", 1, 4),
     t1 |-> Tx("a", "b", 2, 1, 2),
     t2 |-> Tx("a", "b", 7, 1, 3),
     t3 |-> [Tx("b", "a", 1, 1, 3) EXCEPT !.matures = 4]]

B(previous, height, txs) ==
    [previous |-> previous, height |-> height, work |-> 1, chainWork |-> height + 1,
     headerOK |-> TRUE, txs |-> txs]

\* Block 5 overdraws "a" on its branch. Block 8 replays a transaction of its
\* parent that "a" could pay for again. Neither can connect.
MCBlock ==
    0 :> B(Nil, 0, <<"c0">>) @@
    1 :> B(0, 1, <<"c1">>) @@
    2 :> B(0, 1, <<"c2", "t1">>) @@
    3 :> B(1, 2, <<"c3", "t1">>) @@
    4 :> B(1, 2, <<"c4", "t2">>) @@
    5 :> B(3, 3, <<"c5", "t2">>) @@
    6 :> B(3, 3, <<"c6", "t3">>) @@
    8 :> B(2, 2, <<"c8", "t1">>) @@
    9 :> B(2, 2, <<"c9">>) @@
    10 :> B(9, 3, <<"c10", "t3">>) @@
    11 :> B(10, 4, <<"c11">>)

MCBlockID == DOMAIN MCBlock
MCTransactionID == DOMAIN MCTransaction
=============================================================================
