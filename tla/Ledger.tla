------------------------------- MODULE Ledger -------------------------------
(***************************************************************************)
(* LedgerDisk: the block chain by height, the branch each block is on, the *)
(* indices of confirmed transactions and the balance of every public key   *)
(* (ledger_disk.go). One variable per table of its LevelDB schema; a key   *)
(* that is absent maps to Nil, an absent balance is 0. ConnectBlock and    *)
(* DisconnectBlock write one atomic synced batch, so each is one step.     *)
(***************************************************************************)
EXTENDS Chain

CONSTANT Prune     \* the -prune flag of the client

ASSUME LedgerAssumption ==
    /\ Prune \in BOOLEAN
    /\ Nil \notin [height : Nat, index : Nat]

VARIABLES
    tip,           \* T: ID of the main chain tip
    branch,        \* B: block ID -> branch type
    heightIndex,   \* h: height -> block ID
    txIndex,       \* t: transaction ID -> height and index in the block
    pkTxIndex,     \* k: the set of <<public key, height, index>>
    balance        \* b: public key -> balance

ledgerVars == <<tip, branch, heightIndex, txIndex, pkTxIndex, balance>>

Heights == {Height(b) : b \in BlockID}

BranchType == {"MAIN", "SIDE", "UNKNOWN"}

LedgerTypeOK ==
    /\ tip \in BlockID \cup {Nil}
    /\ branch \in [BlockID -> BranchType]
    /\ heightIndex \in [Heights -> BlockID \cup {Nil}]
    /\ txIndex \in [TransactionID -> [height : Nat, index : Nat] \cup {Nil}]
    /\ pkTxIndex \subseteq PublicKey \X Nat \X Nat
    /\ balance \in [PublicKey -> Nat]

LedgerInit ==
    /\ tip = Nil
    /\ branch = [b \in BlockID |-> "UNKNOWN"]
    /\ heightIndex = [h \in Heights |-> Nil]
    /\ txIndex = [t \in TransactionID |-> Nil]
    /\ pkTxIndex = {}
    /\ balance = [k \in PublicKey |-> 0]

TipHeight == Height(tip)

GetBlockIDForHeight(h) == IF h \in Heights THEN heightIndex[h] ELSE Nil

-----------------------------------------------------------------------------
(* What one block contributes to the indices *)

TxSet(b) == {Txs(b)[i] : i \in DOMAIN Txs(b)}

\* The position of t in block b. Transaction indices count from 0.
TxPosition(b, t) == (CHOOSE i \in DOMAIN Txs(b) : Txs(b)[i] = t) - 1

TxEntry(b, t) == [height |-> Height(b), index |-> TxPosition(b, t)]

\* Both parties of each transaction; a coinbase has only a recipient.
PkTxKeys(b) ==
    UNION {{<<k, Height(b), i - 1>> :
               k \in PublicKey \cap {Transaction[Txs(b)[i]].from, Transaction[Txs(b)[i]].to}} :
           i \in DOMAIN Txs(b)}

\* The transactions whose effect block b has on balances, in order: in place
\* of its own coinbase the one that is COINBASE_MATURITY blocks deep now.
EffectiveTxs(b) ==
    LET old == Height(b) - COINBASE_MATURITY
    IN  (IF old >= 0 THEN <<Txs(heightIndex[old])[1]>> ELSE <<>>) \o Tail(Txs(b))

\* Mutant: pruning one block early.
PrunedHeightEarly(b) == Height(b) - 2 * BLOCKS_UNTIL_NEW_SERIES + 1

\* The block whose index entries connecting b prunes, and disconnecting it
\* restores.
PrunedHeight(b) == Height(b) - 2 * BLOCKS_UNTIL_NEW_SERIES
PrunedTxs(b) ==
    IF Prune /\ PrunedHeight(b) >= 0 THEN TxSet(heightIndex[PrunedHeight(b)]) ELSE {}
PrunedPkTxKeys(b) ==
    IF Prune /\ PrunedHeight(b) >= 0 THEN PkTxKeys(heightIndex[PrunedHeight(b)]) ELSE {}

\* A block that ConnectBlock or DisconnectBlock looks up by height is there.
Found(b) ==
    /\ Height(b) >= COINBASE_MATURITY
          => GetBlockIDForHeight(Height(b) - COINBASE_MATURITY) # Nil
    /\ Prune /\ PrunedHeight(b) >= 0
          => GetBlockIDForHeight(PrunedHeight(b)) # Nil

-----------------------------------------------------------------------------
(* Operations *)

\* Mutant: ConnectBlock without its check of confirmed transactions.
ConnectOKNoIndex(b) ==
    /\ tip = Nil \/ tip = Previous(b)
    /\ Found(b)
    /\ Applicable(balance, EffectiveTxs(b))

\* ConnectBlock returns no error. It looks a transaction up in the database,
\* not in the batch, so it does not see a duplicate within the block.
ConnectOK(b) ==
    /\ tip = Nil \/ tip = Previous(b)
    /\ \A t \in TxSet(b) : txIndex[t] = Nil
    /\ Found(b)
    /\ Applicable(balance, EffectiveTxs(b))

ConnectBlock(b) ==
    /\ ConnectOK(b)
    /\ tip' = b
    /\ branch' = [branch EXCEPT ![b] = "MAIN"]
    /\ heightIndex' = [heightIndex EXCEPT ![Height(b)] = b]
    /\ txIndex' = [t \in TransactionID |->
                      IF t \in PrunedTxs(b) THEN Nil
                      ELSE IF t \in TxSet(b) THEN TxEntry(b, t) ELSE txIndex[t]]
    /\ pkTxIndex' = (pkTxIndex \cup PkTxKeys(b)) \ PrunedPkTxKeys(b)
    /\ balance' = ApplyAll(balance, EffectiveTxs(b))

\* DisconnectBlock returns no error; and, Undoable, it does not panic.
DisconnectOK(b) ==
    /\ tip = b
    /\ Found(b)
    /\ Undoable(balance, EffectiveTxs(b))

DisconnectBlock(b) ==
    /\ DisconnectOK(b)
    /\ tip' = Previous(b)
    /\ branch' = [branch EXCEPT ![b] = "SIDE"]
    /\ heightIndex' = [heightIndex EXCEPT ![Height(b)] = Nil]
    /\ txIndex' = [t \in TransactionID |->
                      IF t \in PrunedTxs(b)
                      THEN TxEntry(heightIndex[PrunedHeight(b)], t)
                      ELSE IF t \in TxSet(b) THEN Nil ELSE txIndex[t]]
    /\ pkTxIndex' = (pkTxIndex \ PkTxKeys(b)) \cup PrunedPkTxKeys(b)
    /\ balance' = UndoAll(balance, EffectiveTxs(b))

SetBranchType(b, type) ==
    /\ branch' = [branch EXCEPT ![b] = type]
    /\ UNCHANGED <<tip, heightIndex, txIndex, pkTxIndex, balance>>

\* The ledger under any caller that begins it with the genesis block, connects
\* only checked blocks, never disconnects the genesis block, and sets no
\* branch type but SIDE: what Processor does with it.
LedgerNext ==
    \/ tip = Nil /\ ConnectBlock(Genesis)
    \/ \E b \in BlockID : tip # Nil /\ ConnectBlock(b) /\ Checked(b)
    \/ \E b \in BlockID \ {Genesis} : DisconnectBlock(b)
    \/ \E b \in BlockID : SetBranchType(b, "SIDE")

LedgerSpec == LedgerInit /\ [][LedgerNext]_ledgerVars

-----------------------------------------------------------------------------
(* Properties *)

\* The height index is the chain of parents of the tip, up from the genesis
\* block, and holds nothing above it, after any run of ConnectBlock and
\* DisconnectBlock batches.
ChainLinked ==
    IF tip = Nil THEN \A h \in Heights : heightIndex[h] = Nil
    ELSE /\ 0..TipHeight \subseteq Heights
         /\ \A h \in Heights : h > TipHeight => heightIndex[h] = Nil
         /\ \A h \in 0..TipHeight : heightIndex[h] \in BlockID /\ Height(heightIndex[h]) = h
         /\ \A h \in 1..TipHeight : Previous(heightIndex[h]) = heightIndex[h - 1]
         /\ heightIndex[TipHeight] = tip
         /\ heightIndex[0] = Genesis

\* A block marked MAIN is on the main chain ("Only blocks currently on the
\* main branch are considered confirmed", ledger.go).
MainIsOnChain ==
    \A b \in BlockID : branch[b] = "MAIN" => heightIndex[Height(b)] = b

\* Heights whose index entries are kept.
Indexed ==
    IF tip = Nil THEN {}
    ELSE {h \in 0..TipHeight : Prune => h > TipHeight - 2 * BLOCKS_UNTIL_NEW_SERIES}

\* The transaction index holds exactly the transactions of the blocks whose
\* indices are kept, each with its place: pruneIndices and restoreIndices
\* undo one another across reorganizations.
TxIndexExact ==
    \A t \in TransactionID :
        txIndex[t] # Nil =>
            \E h \in Indexed : t \in TxSet(heightIndex[h]) /\ txIndex[t] = TxEntry(heightIndex[h], t)

\* None of their transactions is missing: a reorganization below the pruned
\* height restores what pruneIndices removed.
TxIndexComplete ==
    \A h \in Indexed : \A t \in TxSet(heightIndex[h]) : txIndex[t] # Nil

\* The same of the index of transactions by public key.
PkTxIndexExact == pkTxIndex = UNION {PkTxKeys(heightIndex[h]) : h \in Indexed}

\* No transaction is confirmed twice on the main chain, although ConnectBlock
\* looks for an earlier confirmation in an index that is pruned.
NoDoubleConfirmation ==
    tip # Nil =>
        \A g, h \in 0..TipHeight :
            TxSet(heightIndex[g]) \cap TxSet(heightIndex[h]) # {} => g = h

\* Every block above the genesis block passed acceptBlock's checks.
ChainChecked == tip # Nil => \A h \in 1..TipHeight : Checked(heightIndex[h])

\* The tables fit together after any run of ConnectBlock, DisconnectBlock and
\* SetBranchType: one chain, and just the index entries that are not pruned. It is
\* inductive: an entry may be pruned because the chain is checked (series expire),
\* and the index is exact because nothing is confirmed twice.
LedgerInv ==
    /\ LedgerTypeOK
    /\ ChainLinked
    /\ ChainChecked
    /\ MainIsOnChain
    /\ NoDoubleConfirmation
    /\ TxIndexExact
    /\ TxIndexComplete
    /\ PkTxIndexExact

\* What the main chain up to a height does to balances, in order.
History(height) ==
    FlattenSeq([i \in 1..height + 1 |-> EffectiveTxs(heightIndex[i - 1])])

BalancesAt(height) == ApplyAll([k \in PublicKey |-> 0], History(height))

\* The balances kept incrementally by ConnectBlock and DisconnectBlock are
\* those of replaying the main chain from the genesis block.
BalancesAreReplay == tip # Nil => balance = BalancesAt(TipHeight)

\* The sum of all balances, and what the inspector expects it to be: the rewards
\* of the mature blocks, less the fees that wait in coinbases not yet mature.
Balance == FoldFunction(+, 0, balance)

verify ==
    LET sum(f) == FoldFunction(+, 0, f)
        immatureFees(h) == Transaction[Txs(heightIndex[h])[1]].amount - BlockCreationReward(h)
        mature == TipHeight - COINBASE_MATURITY
    IN  IF mature < 0 THEN 0
        ELSE sum([h \in 0..mature |-> BlockCreationReward(h)])
               - sum([h \in mature + 1..TipHeight |-> immatureFees(h)])

\* Nothing is created or lost ("every last issued bit must be accounted for in
\* public key balances", processor.go): the inspector's verification succeeds
\* after any run of ConnectBlock and DisconnectBlock.
SupplyConserved == tip # Nil => Balance = verify

\* Disconnecting the tip never panics with "Recipient balance went negative"
\* (balance_cache.go) and never misses a block it looks up by height.
TipCanBeDisconnected ==
    tip \notin {Nil, Genesis} => DisconnectOK(tip)

-----------------------------------------------------------------------------
(* Offline queries *)

\* Mutant: every coinbase counts.
GetPublicKeyBalanceAtImmature(k, height) ==
    LET entries == {e \in pkTxIndex : e[1] = k /\ e[2] <= height}
        effect(e) == LET tx == Transaction[Txs(heightIndex[e[2]])[e[3] + 1]]
                     IN  IF k = tx.to THEN tx.amount ELSE -(tx.amount + tx.fee)
    IN  MapThenSumSet(effect, entries)

\* A coinbase that is not mature counts for nothing; maturity is judged by
\* the height of the tip.
GetPublicKeyBalanceAt(k, height) ==
    LET entries == {e \in pkTxIndex :
                       /\ e[1] = k /\ e[2] <= height
                       /\ ~(e[3] = 0 /\ e[2] > TipHeight - COINBASE_MATURITY)}
        effect(e) == LET tx == Transaction[Txs(heightIndex[e[2]])[e[3] + 1]]
                     IN  IF k = tx.to THEN tx.amount ELSE -(tx.amount + tx.fee)
        total(S) == MapThenSumSet(effect, S)
        upTo(e) == {d \in entries : d[2] < e[2] \/ (d[2] = e[2] /\ d[3] <= e[3])}
    IN  IF \E e \in entries : total(upTo(e)) < 0 THEN Nil ELSE total(entries)

\* At the current height it returns the current balance (the consistency the
\* inspector's verification relies on). Accurate only without pruning.
BalanceAtTip ==
    tip # Nil /\ ~Prune =>
        \A k \in PublicKey : GetPublicKeyBalanceAt(k, TipHeight) = balance[k]
=============================================================================
