---------------------------- MODULE LedgerProofs ----------------------------
(***************************************************************************)
(* Proofs about Ledger.tla, for every universe of blocks and transactions  *)
(* and every value of the consensus parameters.                            *)
(***************************************************************************)
EXTENDS Ledger, SequenceTheorems, TLAPS

-----------------------------------------------------------------------------
(* Facts about blocks *)

\* Fields of a block have their types.
LEMMA BlockFields ==
    ASSUME NEW b \in BlockID
    PROVE  /\ Previous(b) \in BlockID \cup {Nil}
           /\ Height(b) \in Nat
           /\ Height(b) \in Heights
           /\ Txs(b) \in Seq(TransactionID)
           /\ Len(Txs(b)) \in Nat
           /\ DOMAIN Txs(b) = 1..Len(Txs(b))
  <1>1. Block[b] \in BlockType
    BY ChainAssumption
  <1>2. /\ Previous(b) \in BlockID \cup {Nil}
        /\ Height(b) \in Nat
        /\ Txs(b) \in Seq(TransactionID)
    BY <1>1 DEF BlockType, Previous, Height, Txs
  <1>3. Height(b) \in Heights
    BY DEF Heights
  <1> QED
    BY <1>2, <1>3

\* Fields of a transaction have their types.
LEMMA TransactionFields ==
    ASSUME NEW t \in TransactionID
    PROVE  /\ Transaction[t].series \in Nat
           /\ Transaction[t].from \in PublicKey \cup {Nil}
           /\ Transaction[t].to \in PublicKey
  <1>1. Transaction[t] \in TransactionType
    BY ChainAssumption
  <1> QED
    BY <1>1 DEF TransactionType

\* A transaction of a block has an entry that says where it is.
LEMMA TxEntryType ==
    ASSUME NEW b \in BlockID, NEW t \in TxSet(b)
    PROVE  /\ t \in TransactionID
           /\ TxEntry(b, t) \in [height : Nat, index : Nat]
           /\ TxEntry(b, t) # Nil
  <1>1. PICK i \in DOMAIN Txs(b) : Txs(b)[i] = t
    BY DEF TxSet
  <1>2. (CHOOSE j \in DOMAIN Txs(b) : Txs(b)[j] = t) \in DOMAIN Txs(b)
    BY <1>1
  <1>3. TxPosition(b, t) \in Nat
    BY <1>2, BlockFields DEF TxPosition
  <1>4. t \in TransactionID
    BY <1>1, BlockFields
  <1>5. TxEntry(b, t) \in [height : Nat, index : Nat]
    BY <1>3, BlockFields DEF TxEntry
  <1> QED
    BY <1>4, <1>5, LedgerAssumption

\* The entries of a block by public key carry its height.
LEMMA PkTxKeysType ==
    ASSUME NEW b \in BlockID
    PROVE  /\ PkTxKeys(b) \subseteq PublicKey \X Nat \X Nat
           /\ \A e \in PkTxKeys(b) : e[2] = Height(b)
  <1> SUFFICES ASSUME NEW e \in PkTxKeys(b)
               PROVE  e \in PublicKey \X Nat \X Nat /\ e[2] = Height(b)
    OBVIOUS
  <1>1. PICK i \in DOMAIN Txs(b), k \in PublicKey : e = <<k, Height(b), i - 1>>
    BY DEF PkTxKeys
  <1>2. i - 1 \in Nat
    BY BlockFields
  <1> QED
    BY <1>1, <1>2, BlockFields

\* A checked block, and the genesis block, begin with a coinbase.
LEMMA NonEmpty ==
    ASSUME NEW b \in BlockID, checkBlock(b)
    PROVE  Txs(b) # <<>> /\ 1 \in DOMAIN Txs(b)
  <1>1. Len(Txs(b)) \in 1..computeMaxTransactionsPerBlock(Height(b))
    BY DEF checkBlock
  <1>2. Len(Txs(b)) >= 1
    BY <1>1, BlockFields
  <1> QED
    BY <1>2, BlockFields

-----------------------------------------------------------------------------
(* Series: why an entry may be pruned after two series *)

\* Integer division brackets what it divides.
LEMMA DivBounds ==
    ASSUME NEW n \in Nat, NEW s \in Nat \ {0}
    PROVE  /\ n \div s \in Nat
           /\ s * (n \div s) <= n
           /\ n < s * (n \div s) + s
  OBVIOUS

\* Heights more than two series apart have series numbers more than one apart.
LEMMA TwoSeriesLater ==
    ASSUME NEW g \in Nat, NEW n \in Nat, NEW s \in Nat \ {0}, g + 2 * s < n
    PROVE  g \div s + 1 < n \div s
  <1> DEFINE q == g \div s
             r == n \div s
  <1>1. q \in Nat /\ r \in Nat /\ g < s * q + s /\ n < s * r + s /\ s * q <= g
    BY DivBounds
  <1>2. SUFFICES ASSUME r <= q + 1 PROVE FALSE
    BY <1>1
  <1> HIDE DEF q, r
  <1>3. s * r <= s * (q + 1)
    BY <1>1, <1>2
  <1>4. s * (q + 1) = s * q + s
    BY <1>1
  <1> QED
    BY <1>1, <1>3, <1>4

\* A user transaction or coinbase valid at a height g is valid at no height
\* more than two series above it.
LEMMA SeriesExpire ==
    ASSUME NEW t \in TransactionID, NEW g \in Nat, NEW n \in Nat,
           g + 2 * BLOCKS_UNTIL_NEW_SERIES < n,
           checkTransactionSeries(t, g), checkTransactionSeries(t, n)
    PROVE  FALSE
  <1> DEFINE s == BLOCKS_UNTIL_NEW_SERIES
             q == g \div s
             r == n \div s
             x == Transaction[t].series
  <1>1. s \in Nat \ {0}
    BY ParameterAssumption
  <1>2. q \in Nat /\ r \in Nat /\ q + 1 < r
    BY <1>1, DivBounds, TwoSeriesLater
  <1>3. x \in Nat
    BY TransactionFields
  <1>4. x <= q + 1
    BY <1>2, <1>3 DEF checkTransactionSeries
  <1>5. x >= r
    BY <1>2, <1>3 DEF checkTransactionSeries
  <1> HIDE DEF q, r, x
  <1> QED
    BY <1>2, <1>3, <1>4, <1>5

-----------------------------------------------------------------------------
(* Balances *)

\* ConnectBlock writes no negative balance: the last prefix of an applicable
\* list is the list.
LEMMA ApplyAllType ==
    ASSUME NEW bal, NEW txs \in Seq(TransactionID), Applicable(bal, txs)
    PROVE  ApplyAll(bal, txs) \in [PublicKey -> Nat]
  <1>1. Len(txs) \in 0..Len(txs)
    OBVIOUS
  <1>2. SubSeq(txs, 1, Len(txs)) = txs
    BY SubSeqFull
  <1> QED
    BY <1>1, <1>2 DEF Applicable

\* Neither does DisconnectBlock when no Undo panics.
LEMMA UndoAllType ==
    ASSUME NEW bal, NEW txs \in Seq(TransactionID), Undoable(bal, txs)
    PROVE  UndoAll(bal, txs) \in [PublicKey -> Nat]
  <1>1. 1 \in 1..Len(txs) + 1
    OBVIOUS
  <1>2. SubSeq(txs, 1, Len(txs)) = txs
    BY SubSeqFull
  <1> QED
    BY <1>1, <1>2 DEF Undoable

\* What a block does to balances is a list of transactions.
LEMMA EffectiveTxsType ==
    ASSUME NEW b \in BlockID, Txs(b) # <<>>,
           Height(b) >= COINBASE_MATURITY =>
               /\ heightIndex[Height(b) - COINBASE_MATURITY] \in BlockID
               /\ checkBlock(heightIndex[Height(b) - COINBASE_MATURITY])
    PROVE  EffectiveTxs(b) \in Seq(TransactionID)
  <1> DEFINE old == Height(b) - COINBASE_MATURITY
             mature == IF old >= 0 THEN <<Txs(heightIndex[old])[1]>> ELSE <<>>
  <1>1. Tail(Txs(b)) \in Seq(TransactionID)
    BY BlockFields, HeadTailProperties
  <1>2. CASE old >= 0
    <2>1. Height(b) >= COINBASE_MATURITY
      BY <1>2, BlockFields, ParameterAssumption
    <2>2. Txs(heightIndex[old])[1] \in TransactionID
      BY <2>1, NonEmpty, BlockFields
    <2>3. mature \in Seq(TransactionID)
      BY <1>2, <2>2
    <2> QED
      BY <1>1, <2>3 DEF EffectiveTxs
  <1>3. CASE ~(old >= 0)
    <2>1. mature \in Seq(TransactionID)
      BY <1>3
    <2> QED
      BY <1>1, <2>1 DEF EffectiveTxs
  <1> QED
    BY <1>2, <1>3

-----------------------------------------------------------------------------
(* The main chain *)

\* Each block of the main chain passed checkBlock and its transactions were
\* of a valid series at its height.
LEMMA ChainBlocks ==
    ASSUME LedgerInv, tip # Nil, NEW h \in 0..TipHeight
    PROVE  /\ heightIndex[h] \in BlockID
           /\ Height(heightIndex[h]) = h
           /\ h \in Heights
           /\ checkBlock(heightIndex[h])
           /\ \A t \in TxSet(heightIndex[h]) :
                  t \in TransactionID /\ checkTransactionSeries(t, h)
  <1>1. tip \in BlockID /\ TipHeight \in Nat
    BY BlockFields DEF LedgerInv, LedgerTypeOK, TipHeight
  <1>2. heightIndex[h] \in BlockID /\ Height(heightIndex[h]) = h /\ h \in Heights
    BY DEF LedgerInv, ChainLinked
  <1>3. \A t \in TxSet(heightIndex[h]) : t \in TransactionID
    BY <1>2, TxEntryType
  <1>4. CASE h = 0
    <2>1. heightIndex[h] = Genesis
      BY <1>4 DEF LedgerInv, ChainLinked
    <2> QED
      BY <1>2, <1>3, <1>4, <2>1, GenesisAssumption DEF TxSet
  <1>5. CASE h # 0
    <2>1. Checked(heightIndex[h])
      BY <1>1, <1>5 DEF LedgerInv, ChainChecked
    <2> QED
      BY <1>2, <1>3, <2>1 DEF Checked, checkInChain, TxSet
  <1> QED
    BY <1>4, <1>5

\* What is known of a block that is about to be connected and of the chain
\* below it, the genesis block included.
LEMMA ConnectFacts ==
    ASSUME LedgerInv, NEW b \in BlockID, ConnectOK(b),
           \/ tip = Nil /\ b = Genesis
           \/ tip # Nil /\ Checked(b)
    PROVE  /\ Height(b) \in Nat
           /\ checkBlock(b)
           /\ \A t \in TxSet(b) : t \in TransactionID /\ checkTransactionSeries(t, Height(b))
           /\ Height(b) = 0 => b = Genesis
           /\ Height(b) # 0 => /\ Checked(b)
                               /\ Previous(b) = heightIndex[Height(b) - 1]
                               /\ heightIndex[0] = Genesis
           /\ \A h \in 0..Height(b) - 1 :
                  /\ heightIndex[h] \in BlockID
                  /\ Height(heightIndex[h]) = h
                  /\ h \in Heights
                  /\ checkBlock(heightIndex[h])
                  /\ \A t \in TxSet(heightIndex[h]) :
                         t \in TransactionID /\ checkTransactionSeries(t, h)
           /\ \A h \in 1..Height(b) - 1 :
                  /\ Previous(heightIndex[h]) = heightIndex[h - 1]
                  /\ Checked(heightIndex[h])
           /\ \A h \in Heights : h >= Height(b) => heightIndex[h] = Nil
           /\ Indexed = {h \in 0..Height(b) - 1 :
                            Prune => h > Height(b) - 1 - 2 * BLOCKS_UNTIL_NEW_SERIES}
           /\ \A g, h \in 0..Height(b) - 1 :
                  TxSet(heightIndex[g]) \cap TxSet(heightIndex[h]) # {} => g = h
  <1>0. Height(b) \in Nat /\ \A h \in Heights : h \in Nat
    BY BlockFields DEF Heights
  <1>1. \A t \in TxSet(b) : t \in TransactionID
    BY TxEntryType
  <1>2. CASE tip = Nil /\ b = Genesis
    <2>1. Height(b) = 0
      BY <1>2, ChainAssumption DEF Height
    <2>2. \A t \in TxSet(b) : checkTransactionSeries(t, Height(b))
      BY <1>2, <2>1, GenesisAssumption DEF TxSet
    <2>3. \A h \in Heights : heightIndex[h] = Nil
      BY <1>2 DEF LedgerInv, ChainLinked
    <2>4. Indexed = {}
      BY <1>2 DEF Indexed
    <2>5. 0..Height(b) - 1 = {} /\ 1..Height(b) - 1 = {}
      BY <2>1
    <2> QED
      BY <1>1, <1>2, <2>1, <2>2, <2>3, <2>4, <2>5, GenesisAssumption
  <1>3. CASE tip # Nil /\ Checked(b)
    <2>1. tip = Previous(b) /\ tip \in BlockID
      BY <1>3 DEF ConnectOK, LedgerInv, LedgerTypeOK
    <2>2. Height(b) = TipHeight + 1 /\ TipHeight \in Nat
      BY <1>3, <2>1, BlockFields DEF Checked, checkInChain, TipHeight, Height
    <2>3. checkBlock(b) /\ \A t \in TxSet(b) : checkTransactionSeries(t, Height(b))
      BY <1>3 DEF Checked, checkInChain, TxSet
    <2>4. Height(b) # 0 /\ Height(b) - 1 = TipHeight /\ 0 \in 0..TipHeight
      BY <2>2
    <2>5. Previous(b) = heightIndex[TipHeight] /\ heightIndex[0] = Genesis
      BY <1>3, <2>1 DEF LedgerInv, ChainLinked
    <2>6. \A h \in 1..TipHeight : /\ Previous(heightIndex[h]) = heightIndex[h - 1]
                                  /\ Checked(heightIndex[h])
      BY <1>3 DEF LedgerInv, ChainLinked, ChainChecked
    <2>7. \A h \in Heights : h >= Height(b) => heightIndex[h] = Nil
      BY <1>0, <1>3, <2>2 DEF LedgerInv, ChainLinked
    <2>8. Indexed = {h \in 0..TipHeight :
                        Prune => h > TipHeight - 2 * BLOCKS_UNTIL_NEW_SERIES}
      BY <1>3 DEF Indexed
    <2>9. \A g, h \in 0..TipHeight :
              TxSet(heightIndex[g]) \cap TxSet(heightIndex[h]) # {} => g = h
      BY <1>3 DEF LedgerInv, NoDoubleConfirmation
    <2>10. \A h \in 0..TipHeight :
                  /\ heightIndex[h] \in BlockID
                  /\ Height(heightIndex[h]) = h
                  /\ h \in Heights
                  /\ checkBlock(heightIndex[h])
                  /\ \A t \in TxSet(heightIndex[h]) :
                         t \in TransactionID /\ checkTransactionSeries(t, h)
      BY <1>3, ChainBlocks
    <2> QED
      BY <1>0, <1>1, <1>3, <2>3, <2>4, <2>5, <2>6, <2>7, <2>8, <2>9, <2>10
  <1> QED
    BY <1>2, <1>3

-----------------------------------------------------------------------------
(* Each operation preserves the invariant *)

\* ConnectBlock of a checked block, or of the genesis block on an empty ledger.
LEMMA ConnectPreserves ==
    ASSUME LedgerInv, NEW b \in BlockID, ConnectBlock(b),
           \/ tip = Nil /\ b = Genesis
           \/ tip # Nil /\ Checked(b)
    PROVE  LedgerInv'
  <1> DEFINE n == Height(b)
             s == BLOCKS_UNTIL_NEW_SERIES
  <1> USE DEF TipHeight
  <1>1. ConnectOK(b)
    BY DEF ConnectBlock
  <1>2. /\ n \in Nat /\ n \in Heights /\ s \in Nat \ {0} /\ COINBASE_MATURITY \in Nat \ {0}
        /\ \A h \in Heights : h \in Nat
    BY BlockFields, ParameterAssumption DEF Heights
  <1>3. /\ tip' = b
        /\ heightIndex' = [heightIndex EXCEPT ![n] = b]
        /\ heightIndex \in [Heights -> BlockID \cup {Nil}]
        /\ branch \in [BlockID -> BranchType]
    BY DEF ConnectBlock, LedgerInv, LedgerTypeOK
  <1>4. /\ heightIndex'[n] = b
        /\ \A h \in 0..n-1 : heightIndex'[h] = heightIndex[h]
        /\ \A h \in Heights : h # n => heightIndex'[h] = heightIndex[h]
    BY <1>1, <1>2, <1>3, ConnectFacts
  <1>5. Indexed' = {h \in 0..n : Prune => h > n - 2 * s}
    BY <1>3, ChainAssumption DEF Indexed
  <1>6. Prune /\ n - 2 * s >= 0 => n - 2 * s \in 0..n-1
    BY <1>2
  <1>7. ASSUME NEW t \in PrunedTxs(b)
        PROVE  Prune /\ n - 2 * s \in 0..n-1 /\ t \in TxSet(heightIndex[n - 2 * s])
    BY <1>6, <1>7 DEF PrunedTxs, PrunedHeight
  <1>8. LedgerTypeOK'
    <2>1. tip' \in BlockID \cup {Nil} /\ heightIndex' \in [Heights -> BlockID \cup {Nil}]
      BY <1>2, <1>3
    <2>2. branch' \in [BlockID -> BranchType]
      BY <1>3 DEF ConnectBlock, BranchType
    <2>3. txIndex' \in [TransactionID -> [height : Nat, index : Nat] \cup {Nil}]
      BY TxEntryType DEF ConnectBlock, LedgerInv, LedgerTypeOK
    <2>4. pkTxIndex' \subseteq PublicKey \X Nat \X Nat
      BY PkTxKeysType DEF ConnectBlock, LedgerInv, LedgerTypeOK
    <2>5. balance' \in [PublicKey -> Nat]
      <3>1. Txs(b) # <<>>
        BY <1>1, ConnectFacts, NonEmpty
      <3>2. n >= COINBASE_MATURITY => n - COINBASE_MATURITY \in 0..n-1
        BY <1>2
      <3>3. EffectiveTxs(b) \in Seq(TransactionID)
        BY <1>1, <3>1, <3>2, ConnectFacts, EffectiveTxsType
      <3> QED
        BY <1>1, <3>3, ApplyAllType DEF ConnectOK, ConnectBlock
    <2> QED
      BY <2>1, <2>2, <2>3, <2>4, <2>5 DEF LedgerTypeOK
  <1>9. ChainLinked'
    <2>1. 0..n \subseteq Heights
      BY <1>1, <1>2, ConnectFacts
    <2>2. \A h \in Heights : h > n => heightIndex'[h] = Nil
      BY <1>1, <1>2, <1>4, ConnectFacts
    <2>3. \A h \in 0..n : heightIndex'[h] \in BlockID /\ Height(heightIndex'[h]) = h
      <3>1. ASSUME NEW h \in 0..n-1
            PROVE  heightIndex'[h] \in BlockID /\ Height(heightIndex'[h]) = h
        BY <1>1, <1>4, ConnectFacts
      <3> QED
        BY <1>2, <1>4, <3>1
    <2>4. \A h \in 1..n : Previous(heightIndex'[h]) = heightIndex'[h - 1]
      <3>1. ASSUME NEW h \in 1..n-1
            PROVE  Previous(heightIndex'[h]) = heightIndex'[h - 1]
        BY <1>1, <1>2, <1>4, ConnectFacts
      <3>2. n # 0 => Previous(heightIndex'[n]) = heightIndex'[n - 1]
        BY <1>1, <1>2, <1>4, ConnectFacts
      <3> QED
        BY <1>2, <3>1, <3>2
    <2>5. heightIndex'[0] = Genesis
      BY <1>1, <1>2, <1>4, ConnectFacts
    <2> QED
      BY <1>3, <1>4, <2>1, <2>2, <2>3, <2>4, <2>5, ChainAssumption DEF ChainLinked
  <1>10. ChainChecked'
    <2>1. ASSUME NEW h \in 1..n-1 PROVE Checked(heightIndex'[h])
      BY <1>1, <1>2, <1>4, ConnectFacts
    <2>2. n # 0 => Checked(heightIndex'[n])
      BY <1>1, <1>4, ConnectFacts
    <2> QED
      BY <1>2, <1>3, <2>1, <2>2 DEF ChainChecked
  <1>11. MainIsOnChain'
    <2> SUFFICES ASSUME NEW c \in BlockID, branch'[c] = "MAIN", c # b
                 PROVE  heightIndex'[Height(c)] = c
      BY <1>4 DEF MainIsOnChain
    <2>1. branch[c] = "MAIN"
      BY <1>3 DEF ConnectBlock
    <2>2. heightIndex[Height(c)] = c
      BY <2>1 DEF LedgerInv, MainIsOnChain
    <2>3. Height(c) \in Heights /\ Height(c) # n
      BY <1>1, <1>2, <2>2, BlockFields, ConnectFacts, ChainAssumption
    <2> QED
      BY <1>4, <2>2, <2>3
  <1>12. \* no transaction of b is confirmed below it
         ASSUME NEW h \in 0..n-1, NEW t \in TxSet(heightIndex[h]), t \in TxSet(b)
         PROVE  FALSE
    <2>1. t \in TransactionID /\ txIndex[t] = Nil
      BY <1>1, <1>12, TxEntryType DEF ConnectOK
    <2>2. h \notin Indexed
      BY <2>1 DEF LedgerInv, TxIndexComplete
    <2>3. h + 2 * s < n /\ h \in Nat
      BY <1>1, <1>2, <2>2, ConnectFacts
    <2>4. checkTransactionSeries(t, h) /\ checkTransactionSeries(t, n)
      BY <1>1, <1>12, ConnectFacts
    <2> QED
      BY <1>2, <2>1, <2>3, <2>4, SeriesExpire
  <1>13. NoDoubleConfirmation'
    <2> SUFFICES ASSUME NEW g \in 0..n, NEW h \in 0..n, NEW t,
                        t \in TxSet(heightIndex'[g]), t \in TxSet(heightIndex'[h])
                 PROVE  g = h
      BY <1>3 DEF NoDoubleConfirmation, TxSet
    <2>1. CASE g = n \/ h = n
      BY <1>2, <1>4, <1>12, <2>1
    <2>2. CASE g # n /\ h # n
      <3>1. g \in 0..n-1 /\ h \in 0..n-1
        BY <1>2, <2>2
      <3>2. TxSet(heightIndex[g]) \cap TxSet(heightIndex[h]) # {}
        BY <1>4, <3>1
      <3> QED
        BY <1>1, <3>1, <3>2, ConnectFacts
    <2> QED
      BY <2>1, <2>2
  <1>14. TxIndexExact'
    <2> SUFFICES ASSUME NEW t \in TransactionID, txIndex'[t] # Nil
                 PROVE  \E h \in Indexed' : /\ t \in TxSet(heightIndex'[h])
                                            /\ txIndex'[t] = TxEntry(heightIndex'[h], t)
      BY DEF TxIndexExact, TxSet, TxEntry, TxPosition
    <2>1. t \notin PrunedTxs(b)
      BY DEF ConnectBlock
    <2>2. CASE t \in TxSet(b)
      <3>1. n \in Indexed'
        BY <1>2, <1>5
      <3> QED
        BY <1>4, <2>1, <2>2, <3>1 DEF ConnectBlock
    <2>3. CASE t \notin TxSet(b)
      <3>1. txIndex'[t] = txIndex[t]
        BY <2>1, <2>3 DEF ConnectBlock
      <3>2. PICK h \in Indexed : t \in TxSet(heightIndex[h]) /\ txIndex[t] = TxEntry(heightIndex[h], t)
        BY <3>1 DEF LedgerInv, TxIndexExact
      <3>3. h \in 0..n-1 /\ (Prune => h > n - 1 - 2 * s)
        BY <1>1, ConnectFacts
      <3>4. ~(Prune /\ h = n - 2 * s)
        BY <1>2, <2>1, <3>2, <3>3 DEF PrunedTxs, PrunedHeight
      <3>5. h \in Indexed'
        BY <1>2, <1>5, <3>3, <3>4
      <3> QED
        BY <1>4, <3>1, <3>2, <3>3, <3>5
    <2> QED
      BY <2>2, <2>3
  <1>15. TxIndexComplete'
    <2> SUFFICES ASSUME NEW h \in Indexed', NEW t \in TxSet(heightIndex'[h])
                 PROVE  txIndex'[t] # Nil
      BY DEF TxIndexComplete, TxSet
    <2>1. h \in 0..n /\ (Prune => h > n - 2 * s)
      BY <1>5
    <2>2. t \in TransactionID /\ t \notin PrunedTxs(b)
      <3>1. ASSUME t \in PrunedTxs(b) PROVE FALSE
        <4>1. Prune /\ n - 2 * s \in 0..n-1 /\ t \in TxSet(heightIndex[n - 2 * s])
          BY <1>7, <3>1
        <4>2. CASE h = n
          BY <1>4, <1>12, <4>1, <4>2
        <4>3. CASE h # n
          <5>1. h \in 0..n-1 /\ t \in TxSet(heightIndex[h])
            BY <1>2, <1>4, <2>1, <4>3
          <5>2. h = n - 2 * s
            BY <1>1, <4>1, <5>1, ConnectFacts
          <5> QED
            BY <1>2, <2>1, <4>1, <5>1, <5>2
        <4> QED
          BY <4>2, <4>3
      <3>2. heightIndex'[h] \in BlockID
        BY <1>1, <1>2, <1>4, <2>1, ConnectFacts
      <3> QED
        BY <3>1, <3>2, TxEntryType
    <2>3. CASE h = n
      BY <1>4, <2>2, <2>3, TxEntryType DEF ConnectBlock
    <2>4. CASE h # n
      <3>1. h \in 0..n-1 /\ h \in Indexed /\ t \in TxSet(heightIndex[h])
        BY <1>1, <1>2, <1>4, <2>1, <2>4, ConnectFacts
      <3>2. txIndex[t] # Nil
        BY <3>1 DEF LedgerInv, TxIndexComplete
      <3> QED
        BY <2>2, <3>2, TxEntryType DEF ConnectBlock
    <2> QED
      BY <2>3, <2>4
  <1>16. PkTxIndexExact'
    <2>1. \A h \in Indexed : h \in 0..n-1 /\ (Prune => h > n - 1 - 2 * s)
      BY <1>1, ConnectFacts
    <2>2. ASSUME NEW e \in pkTxIndex', NEW h0 \in Indexed \cup {n},
                 e \in PkTxKeys(heightIndex'[h0])
          PROVE  \E h \in Indexed' : e \in PkTxKeys(heightIndex'[h])
      <3>1. CASE h0 = n
        BY <1>2, <1>5, <2>2, <3>1
      <3>2. CASE h0 # n
        <4>1. h0 \in 0..n-1 /\ (Prune => h0 > n - 1 - 2 * s)
          BY <2>1, <2>2, <3>2
        <4>2. ~(Prune /\ h0 = n - 2 * s)
          BY <1>2, <1>4, <2>2, <4>1 DEF ConnectBlock, PrunedPkTxKeys, PrunedHeight
        <4>3. h0 \in Indexed'
          BY <1>2, <1>5, <4>1, <4>2
        <4> QED
          BY <2>2, <4>3
      <3> QED
        BY <3>1, <3>2
    <2>3. ASSUME NEW e \in pkTxIndex'
          PROVE  \E h0 \in Indexed \cup {n} : e \in PkTxKeys(heightIndex'[h0])
      <3>1. e \in pkTxIndex \/ e \in PkTxKeys(b)
        BY <2>3 DEF ConnectBlock
      <3> QED
        BY <1>4, <2>1, <3>1 DEF LedgerInv, PkTxIndexExact
    <2>4. ASSUME NEW h \in Indexed', NEW e \in PkTxKeys(heightIndex'[h])
          PROVE  e \in pkTxIndex'
      <3>1. h \in 0..n /\ (Prune => h > n - 2 * s)
        BY <1>5, <2>4
      <3>2. heightIndex'[h] \in BlockID /\ Height(heightIndex'[h]) = h
        BY <1>1, <1>2, <1>4, <3>1, ConnectFacts
      <3>3. e \in pkTxIndex \/ e \in PkTxKeys(b)
        <4>1. CASE h = n
          BY <1>4, <2>4, <4>1
        <4>2. CASE h # n
          <5>1. h \in 0..n-1 /\ h \in Indexed
            BY <1>1, <1>2, <3>1, <4>2, ConnectFacts
          <5> QED
            BY <1>4, <2>4, <5>1 DEF LedgerInv, PkTxIndexExact
        <4> QED
          BY <4>1, <4>2
      <3>4. e \notin PrunedPkTxKeys(b)
        <4>1. SUFFICES ASSUME Prune, n - 2 * s >= 0, e \in PkTxKeys(heightIndex[n - 2 * s])
                       PROVE  FALSE
          BY DEF PrunedPkTxKeys, PrunedHeight
        <4>2. e[2] = n - 2 * s
          BY <1>1, <1>6, <4>1, ConnectFacts, PkTxKeysType
        <4>3. e[2] = h
          BY <2>4, <3>2, PkTxKeysType
        <4> QED
          BY <1>2, <3>1, <4>1, <4>2, <4>3
      <3> QED
        BY <3>3, <3>4 DEF ConnectBlock
    <2>5. pkTxIndex' = UNION {PkTxKeys(heightIndex'[h]) : h \in Indexed'}
      BY <2>2, <2>3, <2>4
    <2> QED
      BY <2>5 DEF PkTxIndexExact, PkTxKeys
  <1> QED
    BY <1>8, <1>9, <1>10, <1>11, <1>13, <1>14, <1>15, <1>16 DEF LedgerInv

\* DisconnectBlock of the tip.
LEMMA DisconnectPreserves ==
    ASSUME LedgerInv, NEW b \in BlockID \ {Genesis}, DisconnectBlock(b)
    PROVE  LedgerInv'
  <1> DEFINE n == Height(b)
             s == BLOCKS_UNTIL_NEW_SERIES
  <1> USE DEF TipHeight
  <1>1. /\ tip = b /\ tip # Nil
        /\ n \in Nat /\ n \in Heights /\ s \in Nat \ {0} /\ COINBASE_MATURITY \in Nat \ {0}
        /\ \A h \in Heights : h \in Nat
    BY BlockFields, ParameterAssumption, ChainAssumption
       DEF Heights, DisconnectBlock, DisconnectOK
  <1>2. heightIndex[n] = b /\ heightIndex[0] = Genesis
    BY <1>1 DEF LedgerInv, ChainLinked
  <1>3. n # 0 /\ n - 1 \in 0..n /\ n - 1 \in Nat
    BY <1>1, <1>2
  <1>4. \A h \in 0..n : /\ heightIndex[h] \in BlockID
                        /\ Height(heightIndex[h]) = h
                        /\ h \in Heights
                        /\ checkBlock(heightIndex[h])
                        /\ \A t \in TxSet(heightIndex[h]) : t \in TransactionID
    BY <1>1, ChainBlocks
  <1>5. /\ tip' = heightIndex[n - 1] /\ tip' \in BlockID /\ tip' # Nil
        /\ Height(tip') = n - 1
    <2>1. tip' = Previous(b) /\ Previous(b) = heightIndex[n - 1]
      BY <1>1, <1>2, <1>3 DEF LedgerInv, ChainLinked, DisconnectBlock
    <2> QED
      BY <1>3, <1>4, <2>1, ChainAssumption
  <1>6. /\ heightIndex' = [heightIndex EXCEPT ![n] = Nil]
        /\ heightIndex \in [Heights -> BlockID \cup {Nil}]
        /\ branch \in [BlockID -> BranchType]
    BY DEF DisconnectBlock, LedgerInv, LedgerTypeOK
  <1>7. /\ heightIndex'[n] = Nil
        /\ \A h \in 0..n-1 : heightIndex'[h] = heightIndex[h] /\ h \in 0..n
        /\ \A h \in Heights : h # n => heightIndex'[h] = heightIndex[h]
    BY <1>1, <1>4, <1>6
  <1>8. /\ Indexed = {h \in 0..n : Prune => h > n - 2 * s}
        /\ Indexed' = {h \in 0..n-1 : Prune => h > n - 1 - 2 * s}
    BY <1>1, <1>5 DEF Indexed
  <1>9. Prune /\ n - 2 * s >= 0 => n - 2 * s \in 0..n-1 /\ n - 2 * s \in Indexed'
    BY <1>1, <1>8
  <1>10. LedgerTypeOK'
    <2>1. tip' \in BlockID \cup {Nil} /\ heightIndex' \in [Heights -> BlockID \cup {Nil}]
      BY <1>5, <1>6
    <2>2. branch' \in [BlockID -> BranchType]
      BY <1>6 DEF DisconnectBlock, BranchType
    <2>3. txIndex' \in [TransactionID -> [height : Nat, index : Nat] \cup {Nil}]
      <3>1. \A t \in PrunedTxs(b) :
                TxEntry(heightIndex[PrunedHeight(b)], t) \in [height : Nat, index : Nat]
        BY <1>4, <1>7, <1>9, TxEntryType DEF PrunedTxs, PrunedHeight
      <3> QED
        BY <3>1 DEF DisconnectBlock, LedgerInv, LedgerTypeOK
    <2>4. pkTxIndex' \subseteq PublicKey \X Nat \X Nat
      <3>1. PrunedPkTxKeys(b) \subseteq PublicKey \X Nat \X Nat
        BY <1>4, <1>7, <1>9, PkTxKeysType DEF PrunedPkTxKeys, PrunedHeight
      <3> QED
        BY <3>1 DEF DisconnectBlock, LedgerInv, LedgerTypeOK
    <2>5. balance' \in [PublicKey -> Nat]
      <3>1. Txs(b) # <<>>
        BY <1>1, <1>2, <1>4, NonEmpty
      <3>2. n >= COINBASE_MATURITY => n - COINBASE_MATURITY \in 0..n
        BY <1>1
      <3>3. EffectiveTxs(b) \in Seq(TransactionID)
        BY <1>4, <3>1, <3>2, EffectiveTxsType
      <3> QED
        BY <3>3, UndoAllType DEF DisconnectOK, DisconnectBlock
    <2> QED
      BY <2>1, <2>2, <2>3, <2>4, <2>5 DEF LedgerTypeOK
  <1>11. ChainLinked'
    <2>1. 0..n-1 \subseteq Heights
      BY <1>4, <1>7
    <2>2. \A h \in Heights : h > n - 1 => heightIndex'[h] = Nil
      BY <1>1, <1>7 DEF LedgerInv, ChainLinked
    <2>3. \A h \in 0..n-1 : heightIndex'[h] \in BlockID /\ Height(heightIndex'[h]) = h
      BY <1>4, <1>7
    <2>4. \A h \in 1..n-1 : Previous(heightIndex'[h]) = heightIndex'[h - 1]
      <3> SUFFICES ASSUME NEW h \in 1..n-1
                   PROVE  Previous(heightIndex'[h]) = heightIndex'[h - 1]
        OBVIOUS
      <3>1. h \in 0..n-1 /\ h - 1 \in 0..n-1 /\ h \in 1..n
        BY <1>1
      <3>2. Previous(heightIndex[h]) = heightIndex[h - 1]
        BY <1>1, <3>1 DEF LedgerInv, ChainLinked
      <3> QED
        BY <1>7, <3>1, <3>2
    <2>5. heightIndex'[0] = Genesis /\ heightIndex'[n - 1] = tip'
      BY <1>1, <1>2, <1>3, <1>5, <1>7
    <2> QED
      BY <1>5, <2>1, <2>2, <2>3, <2>4, <2>5 DEF ChainLinked
  <1>12. ChainChecked'
    <2>1. ASSUME NEW h \in 1..n-1 PROVE Checked(heightIndex'[h])
      <3>1. h \in 0..n-1 /\ h \in 1..n
        BY <1>1
      <3> QED
        BY <1>1, <1>7, <3>1 DEF LedgerInv, ChainChecked
    <2> QED
      BY <1>5, <2>1 DEF ChainChecked
  <1>13. MainIsOnChain'
    <2> SUFFICES ASSUME NEW c \in BlockID, branch'[c] = "MAIN"
                 PROVE  heightIndex'[Height(c)] = c
      BY DEF MainIsOnChain
    <2>1. c # b /\ branch[c] = "MAIN"
      BY <1>6 DEF DisconnectBlock
    <2>2. heightIndex[Height(c)] = c
      BY <2>1 DEF LedgerInv, MainIsOnChain
    <2>3. Height(c) \in Heights /\ Height(c) # n
      BY <1>2, <2>1, <2>2, BlockFields
    <2> QED
      BY <1>7, <2>2, <2>3
  <1>14. NoDoubleConfirmation'
    <2> SUFFICES ASSUME NEW g \in 0..n-1, NEW h \in 0..n-1, NEW t,
                        t \in TxSet(heightIndex'[g]), t \in TxSet(heightIndex'[h])
                 PROVE  g = h
      BY <1>5 DEF NoDoubleConfirmation, TxSet
    <2>1. TxSet(heightIndex[g]) \cap TxSet(heightIndex[h]) # {}
      BY <1>7
    <2> QED
      BY <1>1, <1>7, <2>1 DEF LedgerInv, NoDoubleConfirmation
  <1>15. TxIndexExact'
    <2> SUFFICES ASSUME NEW t \in TransactionID, txIndex'[t] # Nil
                 PROVE  \E h \in Indexed' : /\ t \in TxSet(heightIndex'[h])
                                            /\ txIndex'[t] = TxEntry(heightIndex'[h], t)
      BY DEF TxIndexExact, TxSet, TxEntry, TxPosition
    <2>1. CASE t \in PrunedTxs(b)
      <3>1. Prune /\ n - 2 * s >= 0 /\ t \in TxSet(heightIndex[n - 2 * s])
        BY <2>1 DEF PrunedTxs, PrunedHeight
      <3>2. txIndex'[t] = TxEntry(heightIndex[n - 2 * s], t)
        BY <2>1 DEF DisconnectBlock, PrunedHeight
      <3> QED
        BY <1>7, <1>9, <3>1, <3>2
    <2>2. CASE t \notin PrunedTxs(b)
      <3>1. t \notin TxSet(b) /\ txIndex'[t] = txIndex[t]
        BY <2>2 DEF DisconnectBlock
      <3>2. PICK h \in Indexed : t \in TxSet(heightIndex[h]) /\ txIndex[t] = TxEntry(heightIndex[h], t)
        BY <3>1 DEF LedgerInv, TxIndexExact
      <3>3. h # n
        BY <1>2, <3>1, <3>2
      <3>4. h \in 0..n-1 /\ h \in Indexed'
        BY <1>1, <1>8, <3>2, <3>3
      <3> QED
        BY <1>7, <3>1, <3>2, <3>4
    <2> QED
      BY <2>1, <2>2
  <1>16. TxIndexComplete'
    <2> SUFFICES ASSUME NEW h \in Indexed', NEW t \in TxSet(heightIndex'[h])
                 PROVE  txIndex'[t] # Nil
      BY DEF TxIndexComplete, TxSet
    <2>1. h \in 0..n-1 /\ h \in 0..n /\ (Prune => h > n - 1 - 2 * s)
      BY <1>7, <1>8
    <2>2. t \in TxSet(heightIndex[h]) /\ t \in TransactionID
      BY <1>4, <1>7, <2>1
    <2>3. CASE t \in PrunedTxs(b)
      <3>1. Prune /\ n - 2 * s >= 0 /\ t \in TxSet(heightIndex[n - 2 * s])
        BY <2>3 DEF PrunedTxs, PrunedHeight
      <3>2. TxEntry(heightIndex[n - 2 * s], t) # Nil
        BY <1>4, <1>7, <1>9, <3>1, TxEntryType
      <3> QED
        BY <2>2, <2>3, <3>2 DEF DisconnectBlock, PrunedHeight
    <2>4. CASE t \notin PrunedTxs(b)
      <3>1. ~(Prune /\ h = n - 2 * s)
        BY <1>1, <2>1, <2>2, <2>4 DEF PrunedTxs, PrunedHeight
      <3>2. h \in Indexed
        BY <1>1, <1>8, <2>1, <3>1
      <3>3. txIndex[t] # Nil
        BY <2>2, <3>2 DEF LedgerInv, TxIndexComplete
      <3>4. t \notin TxSet(b)
        <4>1. n \in 0..n /\ h # n
          BY <1>1, <2>1
        <4> QED
          BY <1>1, <1>2, <2>1, <2>2, <4>1 DEF LedgerInv, NoDoubleConfirmation
      <3> QED
        BY <2>2, <2>4, <3>3, <3>4 DEF DisconnectBlock
    <2> QED
      BY <2>3, <2>4
  <1>17. PkTxIndexExact'
    <2>1. ASSUME NEW e \in pkTxIndex'
          PROVE  \E h \in Indexed' : e \in PkTxKeys(heightIndex'[h])
      <3>1. CASE e \in PrunedPkTxKeys(b)
        BY <1>7, <1>9, <3>1 DEF PrunedPkTxKeys, PrunedHeight
      <3>2. CASE e \notin PrunedPkTxKeys(b)
        <4>1. e \in pkTxIndex /\ e \notin PkTxKeys(b)
          BY <2>1, <3>2 DEF DisconnectBlock
        <4>2. PICK h \in Indexed : e \in PkTxKeys(heightIndex[h])
          BY <4>1 DEF LedgerInv, PkTxIndexExact
        <4>3. h # n
          BY <1>2, <4>1, <4>2
        <4>4. h \in 0..n-1 /\ h \in Indexed'
          BY <1>1, <1>8, <4>2, <4>3
        <4> QED
          BY <1>7, <4>2, <4>4
      <3> QED
        BY <3>1, <3>2
    <2>2. ASSUME NEW h \in Indexed', NEW e \in PkTxKeys(heightIndex'[h])
          PROVE  e \in pkTxIndex'
      <3>1. h \in 0..n-1 /\ h \in 0..n /\ (Prune => h > n - 1 - 2 * s)
        BY <1>7, <1>8, <2>2
      <3>2. e \in PkTxKeys(heightIndex[h]) /\ e[2] = h
        BY <1>4, <1>7, <2>2, <3>1, PkTxKeysType
      <3>3. CASE Prune /\ h = n - 2 * s
        BY <1>1, <3>1, <3>2, <3>3 DEF DisconnectBlock, PrunedPkTxKeys, PrunedHeight
      <3>4. CASE ~(Prune /\ h = n - 2 * s)
        <4>1. h \in Indexed
          BY <1>1, <1>8, <3>1, <3>4
        <4>2. e \in pkTxIndex
          BY <3>2, <4>1 DEF LedgerInv, PkTxIndexExact
        <4>3. e \notin PkTxKeys(b)
          BY <1>1, <3>1, <3>2, PkTxKeysType
        <4> QED
          BY <4>2, <4>3 DEF DisconnectBlock
      <3> QED
        BY <3>3, <3>4
    <2>3. pkTxIndex' = UNION {PkTxKeys(heightIndex'[h]) : h \in Indexed'}
      BY <2>1, <2>2
    <2> QED
      BY <2>3 DEF PkTxIndexExact, PkTxKeys
  <1> QED
    BY <1>10, <1>11, <1>12, <1>13, <1>14, <1>15, <1>16, <1>17 DEF LedgerInv

\* A step that changes only branch types keeps everything but what it says of
\* them.
LEMMA UnchangedPreserves ==
    ASSUME LedgerInv, LedgerTypeOK', MainIsOnChain',
           UNCHANGED <<tip, heightIndex, txIndex, pkTxIndex>>
    PROVE  LedgerInv'
  <1>1. TipHeight' = TipHeight /\ Indexed' = Indexed
    BY DEF TipHeight, Indexed
  <1>2. ChainLinked' /\ ChainChecked' /\ NoDoubleConfirmation'
    BY DEF LedgerInv, ChainLinked, ChainChecked, NoDoubleConfirmation, TipHeight, TxSet
  <1>3. TxIndexExact'
    <2> SUFFICES ASSUME NEW t \in TransactionID, txIndex'[t] # Nil
                 PROVE  \E h \in Indexed' : /\ t \in TxSet(heightIndex'[h])
                                            /\ txIndex'[t] = TxEntry(heightIndex'[h], t)
      BY DEF TxIndexExact, TxSet, TxEntry, TxPosition
    <2> QED
      BY <1>1 DEF LedgerInv, TxIndexExact
  <1>4. TxIndexComplete'
    BY <1>1 DEF LedgerInv, TxIndexComplete, TxSet
  <1>5. PkTxIndexExact'
    BY <1>1 DEF LedgerInv, PkTxIndexExact, PkTxKeys
  <1> QED
    BY <1>2, <1>3, <1>4, <1>5 DEF LedgerInv

\* SetBranchType(b, SIDE) marks nothing MAIN.
LEMMA SetBranchTypePreserves ==
    ASSUME LedgerInv, NEW b \in BlockID, SetBranchType(b, "SIDE")
    PROVE  LedgerInv'
  <1>1. LedgerTypeOK'
    BY DEF LedgerInv, LedgerTypeOK, SetBranchType, BranchType
  <1>2. MainIsOnChain'
    BY DEF LedgerInv, LedgerTypeOK, MainIsOnChain, SetBranchType
  <1> QED
    BY <1>1, <1>2, UnchangedPreserves DEF SetBranchType

\* The empty ledger satisfies the invariant.
LEMMA InitEstablishes == LedgerInit => LedgerInv
  <1> SUFFICES ASSUME LedgerInit PROVE LedgerInv
    OBVIOUS
  <1> USE DEF LedgerInit
  <1>1. LedgerTypeOK
    BY DEF LedgerTypeOK, BranchType
  <1>2. ChainLinked /\ ChainChecked /\ MainIsOnChain /\ NoDoubleConfirmation
    BY DEF ChainLinked, ChainChecked, MainIsOnChain, NoDoubleConfirmation
  <1>3. TxIndexExact /\ TxIndexComplete
    BY DEF TxIndexExact, TxIndexComplete, Indexed
  <1>4. PkTxIndexExact
    BY DEF PkTxIndexExact, Indexed
  <1> QED
    BY <1>1, <1>2, <1>3, <1>4 DEF LedgerInv

\* Every step of the ledger keeps the invariant.
LEMMA NextPreserves == LedgerInv /\ [LedgerNext]_ledgerVars => LedgerInv'
  <1> SUFFICES ASSUME LedgerInv, [LedgerNext]_ledgerVars PROVE LedgerInv'
    OBVIOUS
  <1>1. CASE tip = Nil /\ ConnectBlock(Genesis)
    BY <1>1, ConnectPreserves, ChainAssumption
  <1>2. ASSUME NEW b \in BlockID, tip # Nil, ConnectBlock(b), Checked(b)
        PROVE  LedgerInv'
    BY <1>2, ConnectPreserves
  <1>3. ASSUME NEW b \in BlockID \ {Genesis}, DisconnectBlock(b)
        PROVE  LedgerInv'
    BY <1>3, DisconnectPreserves
  <1>4. ASSUME NEW b \in BlockID, SetBranchType(b, "SIDE")
        PROVE  LedgerInv'
    BY <1>4, SetBranchTypePreserves
  <1>5. CASE UNCHANGED ledgerVars
    <2>1. LedgerTypeOK' /\ MainIsOnChain'
      BY <1>5 DEF LedgerInv, LedgerTypeOK, MainIsOnChain, ledgerVars
    <2> QED
      BY <1>5, <2>1, UnchangedPreserves DEF ledgerVars
  <1> QED
    BY <1>1, <1>2, <1>3, <1>4, <1>5 DEF LedgerNext

-----------------------------------------------------------------------------
(* Theorems *)

\* Whatever blocks the processor connects and disconnects, in whatever order,
\* the tables of the ledger fit together.
THEOREM LedgerInvariant == LedgerSpec => []LedgerInv
  BY InitEstablishes, NextPreserves, PTL DEF LedgerSpec

\* The ledger's tables hold values of their types; in particular ConnectBlock
\* and DisconnectBlock never leave a negative balance.
THEOREM LedgerTypeCorrect == LedgerSpec => []LedgerTypeOK
  <1>1. LedgerInv => LedgerTypeOK
    BY DEF LedgerInv
  <1> QED
    BY <1>1, LedgerInvariant, PTL

\* The height index is always the tip's chain down to the genesis block.
THEOREM ChainIsLinked == LedgerSpec => []ChainLinked
  <1>1. LedgerInv => ChainLinked
    BY DEF LedgerInv
  <1> QED
    BY <1>1, LedgerInvariant, PTL

\* No transaction is confirmed twice, with or without pruned indices.
THEOREM NothingConfirmedTwice == LedgerSpec => []NoDoubleConfirmation
  <1>1. LedgerInv => NoDoubleConfirmation
    BY DEF LedgerInv
  <1> QED
    BY <1>1, LedgerInvariant, PTL

\* Every entry of the transaction index is that of a block of the main chain that
\* is not pruned: DisconnectBlock and pruneIndices remove all others.
THEOREM IndexIsExact == LedgerSpec => []TxIndexExact
  <1>1. LedgerInv => TxIndexExact
    BY DEF LedgerInv
  <1> QED
    BY <1>1, LedgerInvariant, PTL

\* Every transaction of those blocks has its entry: restoreIndices puts back what
\* pruneIndices removed.
THEOREM IndexIsComplete == LedgerSpec => []TxIndexComplete
  <1>1. LedgerInv => TxIndexComplete
    BY DEF LedgerInv
  <1> QED
    BY <1>1, LedgerInvariant, PTL

\* The public key index holds exactly the entries of the blocks that are not pruned.
THEOREM PkIndexIsExact == LedgerSpec => []PkTxIndexExact
  <1>1. LedgerInv => PkTxIndexExact
    BY DEF LedgerInv
  <1> QED
    BY <1>1, LedgerInvariant, PTL

\* A block marked MAIN is on the main chain.
THEOREM MainBlocksAreOnChain == LedgerSpec => []MainIsOnChain
  <1>1. LedgerInv => MainIsOnChain
    BY DEF LedgerInv
  <1> QED
    BY <1>1, LedgerInvariant, PTL
=============================================================================
