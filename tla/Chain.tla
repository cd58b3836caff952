------------------------------- MODULE Chain --------------------------------
(***************************************************************************)
(* Blocks, transactions and the consensus rules that depend on nothing but *)
(* a block and its header chain (block.go, transaction.go, balance_cache.go*)
(* and the checks of processor.go).                                        *)
(*                                                                         *)
(* A block ID is a hash of the header, which commits to the parent and to  *)
(* the transactions; IDs are compared as numbers (BlockHeader.Compare), so *)
(* an ID is a natural number here and Block[id] is the block it names.     *)
(* Transaction[t] is likewise the transaction with ID t.                   *)
(***************************************************************************)
EXTENDS Integers, Sequences, SequencesExt

CONSTANTS
    BlockID,                  \* IDs of all blocks that may ever arrive
    Genesis,                  \* processor.genesisID
    Block,                    \* ID -> block
    TransactionID,            \* IDs of all transactions
    Transaction,              \* ID -> transaction
    PublicKey,
    Nil,                      \* nil pointers, keys absent from a database
    COINBASE_MATURITY,        \* 100 in constants.go
    BLOCKS_UNTIL_NEW_SERIES,  \* 1008
    INITIAL_COINBASE_REWARD,
    BLOCKS_UNTIL_REWARD_HALVING,
    INITIAL_MAX_TRANSACTIONS_PER_BLOCK,
    BLOCKS_UNTIL_TRANSACTIONS_PER_BLOCK_DOUBLING,
    MAX_TRANSACTIONS_PER_BLOCK,
    MAX_TRANSACTIONS_PER_BLOCK_EXCEEDED_AT_HEIGHT

(***************************************************************************)
(* The header fields and checks that the model does not interpret (proof of*)
(* work, target, timestamps, nonce, hash list root, checkpoints) are one   *)
(* verdict, headerOK; "work" is computeBlockWork of the declared target.   *)
(* A coinbase has no sender: from = Nil. "signed" is the verdict of Verify.*)
(***************************************************************************)
BlockType ==
    [previous : BlockID \cup {Nil}, height : Nat, work : Nat \ {0},
     chainWork : Nat, headerOK : BOOLEAN, txs : Seq(TransactionID)]

TransactionType ==
    [from : PublicKey \cup {Nil}, to : PublicKey, amount : Nat, fee : Nat,
     series : Nat, matures : Nat, expires : Nat, signed : BOOLEAN]

ASSUME ChainAssumption ==
    /\ BlockID \subseteq Nat
    /\ Nil \notin BlockID /\ Nil \notin PublicKey
    /\ Block \in [BlockID -> BlockType]
    /\ Transaction \in [TransactionID -> TransactionType]
    /\ Genesis \in BlockID
    /\ Block[Genesis].previous = Nil /\ Block[Genesis].height = 0

ASSUME ParameterAssumption ==
    /\ COINBASE_MATURITY \in Nat \ {0}
    /\ BLOCKS_UNTIL_NEW_SERIES \in Nat \ {0}
    /\ INITIAL_COINBASE_REWARD \in Nat
    /\ BLOCKS_UNTIL_REWARD_HALVING \in Nat \ {0}
    /\ INITIAL_MAX_TRANSACTIONS_PER_BLOCK \in Nat \ {0}
    /\ BLOCKS_UNTIL_TRANSACTIONS_PER_BLOCK_DOUBLING \in Nat \ {0}
    /\ MAX_TRANSACTIONS_PER_BLOCK \in Nat \ {0}
    /\ MAX_TRANSACTIONS_PER_BLOCK_EXCEEDED_AT_HEIGHT \in Nat

Previous(b) == Block[b].previous
Height(b) == Block[b].height
Txs(b) == Block[b].txs

-----------------------------------------------------------------------------
(* Transactions *)

IsCoinbase(t) == Transaction[t].from = Nil

IsMature(t, height) ==
    Transaction[t].matures = 0 \/ Transaction[t].matures >= height

IsExpired(t, height) ==
    Transaction[t].expires # 0 /\ Transaction[t].expires < height

\* The context-free checks on a transaction whose verdict the model uses.
checkTransaction(t) ==
    LET tx == Transaction[t]
    IN  /\ IsCoinbase(t) => tx.fee = 0 /\ tx.matures = 0 /\ tx.expires = 0
        /\ tx.from # tx.to
        /\ tx.amount > 0
        /\ tx.series > 0

\* A coinbase uses the series of its height, any other transaction that one
\* or the one before.
checkTransactionSeries(t, height) ==
    LET high == height \div BLOCKS_UNTIL_NEW_SERIES + 1
    IN  IF IsCoinbase(t)
        THEN Transaction[t].series = high
        ELSE /\ Transaction[t].series <= high
             /\ Transaction[t].series >= (IF high = 1 THEN 1 ELSE high - 1)

-----------------------------------------------------------------------------
(* Balances: BalanceCache.Apply and Undo on a total map of balances *)

\* Mutant: the sender is not charged the fee.
DebitNoFee(bal, t) ==
    IF IsCoinbase(t) THEN bal
    ELSE [bal EXCEPT ![Transaction[t].from] = @ - Transaction[t].amount]

Debit(bal, t) ==
    IF IsCoinbase(t) THEN bal
    ELSE [bal EXCEPT ![Transaction[t].from] =
              @ - (Transaction[t].amount + Transaction[t].fee)]

Apply(bal, t) ==
    [Debit(bal, t) EXCEPT ![Transaction[t].to] = @ + Transaction[t].amount]

\* Apply refuses an overdraft, and a remainder too small to be spent.
CanApply(bal, t, minBalance) ==
    \/ IsCoinbase(t)
    \/ LET rest == Debit(bal, t)[Transaction[t].from]
       IN  rest = 0 \/ (rest > 0 /\ rest >= minBalance)

\* Mutant: the sender is not refunded the fee.
UndoNoFee(bal, t) ==
    LET debited == [bal EXCEPT ![Transaction[t].to] = @ - Transaction[t].amount]
    IN  IF IsCoinbase(t) THEN debited
        ELSE [debited EXCEPT ![Transaction[t].from] = @ + Transaction[t].amount]

Undo(bal, t) ==
    LET debited == [bal EXCEPT ![Transaction[t].to] = @ - Transaction[t].amount]
    IN  IF IsCoinbase(t) THEN debited
        ELSE [debited EXCEPT ![Transaction[t].from] =
                  @ + (Transaction[t].amount + Transaction[t].fee)]

ApplyAll(bal, txs) == FoldLeft(Apply, bal, txs)

UndoAll(bal, txs) == FoldLeft(Undo, bal, Reverse(txs))

\* Every Apply of the list succeeds. With minBalance 0 an Apply fails exactly
\* when it would make the sender's balance negative, and every other balance
\* only grows, so it is enough that no prefix overdraws anyone.
Applicable(bal, txs) ==
    \A i \in 0..Len(txs) : ApplyAll(bal, SubSeq(txs, 1, i)) \in [PublicKey -> Nat]

\* Mutant: transactions are undone first to last.
UndoableForward(bal, txs) ==
    \A i \in 0..Len(txs) :
        FoldLeft(Undo, bal, SubSeq(txs, 1, i)) \in [PublicKey -> Nat]

\* No Undo of the list panics with "Recipient balance went negative".
Undoable(bal, txs) ==
    \A i \in 1..Len(txs) + 1 :
        UndoAll(bal, SubSeq(txs, i, Len(txs))) \in [PublicKey -> Nat]

-----------------------------------------------------------------------------
(* Blocks *)

BlockCreationReward(height) ==
    LET halvings == height \div BLOCKS_UNTIL_REWARD_HALVING
    IN  IF halvings >= 64 THEN 0
        ELSE INITIAL_COINBASE_REWARD \div 2^halvings

\* Doubles every so many blocks and grows linearly in between.
computeMaxTransactionsPerBlock(height) ==
    LET step == BLOCKS_UNTIL_TRANSACTIONS_PER_BLOCK_DOUBLING
        base == INITIAL_MAX_TRANSACTIONS_PER_BLOCK * 2^(height \div step)
    IN  IF height >= MAX_TRANSACTIONS_PER_BLOCK_EXCEEDED_AT_HEIGHT
        THEN MAX_TRANSACTIONS_PER_BLOCK
        ELSE base + (base * (height % step)) \div step

checkBlock(b) ==
    /\ Block[b].headerOK
    /\ Len(Txs(b)) \in 1..computeMaxTransactionsPerBlock(Height(b))
    /\ \A i \in DOMAIN Txs(b) : IsCoinbase(Txs(b)[i]) <=> i = 1
    /\ \A i \in DOMAIN Txs(b) : checkTransaction(Txs(b)[i])
    /\ \A i, j \in DOMAIN Txs(b) : Txs(b)[i] = Txs(b)[j] => i = j

Fees(b) == FoldLeft(LAMBDA sum, t : sum + Transaction[t].fee, 0, Txs(b))

\* What acceptBlock asks of a block given its parent's header. (A signature
\* check is skipped for a queued transaction, whose signature was checked.)
checkInChain(b) ==
    LET prev == Block[Previous(b)]
    IN  /\ Height(b) = prev.height + 1
        /\ Block[b].chainWork = prev.chainWork + Block[b].work
        /\ \A i \in DOMAIN Txs(b) :
              LET t == Txs(b)[i]
              IN  /\ checkTransactionSeries(t, Height(b))
                  /\ ~IsCoinbase(t) => /\ IsMature(t, Height(b))
                                       /\ ~IsExpired(t, Height(b))
                                       /\ Transaction[t].signed
        /\ Transaction[Txs(b)[1]].amount = BlockCreationReward(Height(b)) + Fees(b)

\* BlockHeader.Compare: most work, then first stored, then lesser ID.
Compare(b, theirs, thisWhen, theirWhen) ==
    LET w == Block[b].chainWork
        v == Block[theirs].chainWork
    IN  \/ w > v
        \/ w = v /\ thisWhen < theirWhen
        \/ w = v /\ thisWhen = theirWhen /\ b < theirs

\* A block that passed every check acceptBlock makes before storing it.
Checked(b) == Previous(b) \in BlockID /\ checkBlock(b) /\ checkInChain(b)

\* The genesis block is compiled in (genesis.go) and obeys the same rules.
ASSUME GenesisAssumption ==
    /\ checkBlock(Genesis)
    /\ \A i \in DOMAIN Txs(Genesis) : checkTransactionSeries(Txs(Genesis)[i], 0)
    /\ Transaction[Txs(Genesis)[1]].amount = BlockCreationReward(0)
    /\ Len(Txs(Genesis)) = 1
=============================================================================
