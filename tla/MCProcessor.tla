----------------------------- MODULE MCProcessor ----------------------------
(***************************************************************************)
(* Blocks for the processor: a chain 1-2, and a branch 3-4 that ties with  *)
(* it and wins with 5, fails with 6 (an overdraft in the last block), or   *)
(* fails with 9 (an overdraft in 8, its parent). Block 10 pays its miner   *)
(* too much and is never accepted.                                         *)
(***************************************************************************)
EXTENDS Processor, TLC

Tx(from, to, amount, fee, series, matures, expires) ==
    [from |-> from, to |-> to, amount |-> amount, fee |-> fee, series |-> series,
     matures |-> matures, expires |-> expires, signed |-> TRUE]

Coinbase(to, amount, height) == Tx(Nil, to, amount, 0, height \div 2 + 1, 0, 0)

MCTransaction ==
    [c0 |-> Coinbase("a", 4, 0),
     c1 |-> Coinbase("a", 4, 1), c2 |-> Coinbase("a", 5, 2),
     c3 |-> Coinbase("b", 4, 1), c4 |-> Coinbase("b", 5, 2), c5 |-> Coinbase("a", 4, 3),
     c10 |-> Coinbase("b", 9, 2),
     c6 |-> Coinbase("a", 5, 3), c8 |-> Coinbase("b", 5, 2), c9 |-> Coinbase("b", 4, 3),
     t1 |-> Tx("a", "b", 1, 1, 1, 0, 0),
     t2 |-> Tx("a", "b", 5, 1, 1, 0, 0),
     t3 |-> Tx("b", "a", 1, 1, 1, 0, 2)]

B(previous, height, txs) ==
    [previous |-> previous, height |-> height, work |-> 1, chainWork |-> height + 1,
     headerOK |-> TRUE, txs |-> txs]

MCBlock ==
    0 :> B(Nil, 0, <<"c0">>) @@
    1 :> B(0, 1, <<"c1">>) @@
    2 :> B(1, 2, <<"c2", "t1">>) @@
    3 :> B(0, 1, <<"c3">>) @@
    4 :> B(3, 2, <<"c4", "t1">>) @@
    5 :> B(4, 3, <<"c5">>) @@
    6 :> B(4, 3, <<"c6", "t2">>) @@
    8 :> B(3, 2, <<"c8", "t2">>) @@
    9 :> B(8, 3, <<"c9">>) @@
    10 :> B(1, 2, <<"c10">>)

MCBlockID == DOMAIN MCBlock

\* 2, 4 and 8 tie, and the clock may be set back.
MCTimes == [b \in MCBlockID |-> IF b = 4 THEN {1, 3} ELSE {2}]
MCTransactionID == DOMAIN MCTransaction
=============================================================================
