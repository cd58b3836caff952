-------------------------- MODULE TransactionQueue --------------------------
(***************************************************************************)
(* TransactionQueueMemory: the FIFO of transactions to confirm and the     *)
(* cache of balances as they would be after confirming them                *)
(* (transaction_queue_memory.go, balance_cache.go). The cache holds the    *)
(* keys touched since its last Reset and falls back on the ledger for the  *)
(* others. txMap has the IDs in the queue, so the queue stands for both.   *)
(***************************************************************************)
EXTENDS Ledger

CONSTANTS MIN_FEE_CRUZBITS, MIN_AMOUNT_CRUZBITS, MAX_TRANSACTION_QUEUE_LENGTH

ASSUME QueueAssumption ==
    /\ MIN_FEE_CRUZBITS \in Nat /\ MIN_AMOUNT_CRUZBITS \in Nat
    /\ MAX_TRANSACTION_QUEUE_LENGTH \in Nat

VARIABLES
    queue,     \* txQueue, oldest first
    cache      \* balanceCache.cache

queueVars == <<queue, cache>>

QueueTypeOK ==
    /\ queue \in Seq(TransactionID)
    /\ DOMAIN cache \subseteq PublicKey
    /\ \A k \in DOMAIN cache : cache[k] \in Nat

EmptyCache == [k \in {} |-> 0]

QueueInit == queue = <<>> /\ cache = EmptyCache

MinBalance == MIN_AMOUNT_CRUZBITS + MIN_FEE_CRUZBITS

\* The balances a cache c over ledger balances bal stands for.
View(c, bal) == [k \in PublicKey |-> IF k \in DOMAIN c THEN c[k] ELSE bal[k]]

\* The cache after Apply(t): its two parties are cached from now on.
CacheApply(c, bal, t) ==
    LET parties == PublicKey \cap {Transaction[t].from, Transaction[t].to}
    IN  [k \in DOMAIN c \cup parties |-> Apply(View(c, bal), t)[k]]

\* The cache after an Apply(t) that failed to read the recipient's balance:
\* the sender's is debited already.
CacheDebit(c, bal, t) ==
    [k \in DOMAIN c \cup {Transaction[t].from} |-> Debit(View(c, bal), t)[k]]

-----------------------------------------------------------------------------
(* Operations *)

Without(txs) == SelectSeq(queue, LAMBDA t : t \notin Range(txs))

\* A transaction already queued is not added again; that is no error.
Add(t) ==
    /\ t \notin Range(queue)
    /\ CanApply(View(cache, balance), t, MinBalance)
    /\ queue' = Append(queue, t)
    /\ cache' = CacheApply(cache, balance, t)

\* The ledger cannot be read: nothing is queued.
AddFails(t) ==
    /\ t \notin Range(queue)
    /\ CanApply(View(cache, balance), t, MinBalance)
    /\ Transaction[t].to \notin DOMAIN cache
    /\ cache' = CacheDebit(cache, balance, t)
    /\ UNCHANGED queue

\* Transactions of a disconnected block go to the front, in their order.
AddBatch(txs) ==
    /\ queue' = txs \o Without(txs)
    /\ UNCHANGED cache

\* Whether a transaction may stay queued when the chain is this high.
StillValid(t, height) ==
    /\ checkTransactionSeries(t, height + 1)
    /\ IsMature(t, height + 1) /\ ~IsExpired(t, height + 1)
    /\ Transaction[t].fee >= MIN_FEE_CRUZBITS
    /\ Transaction[t].amount >= MIN_AMOUNT_CRUZBITS

\* The queue and the cache after reprocessQueue: the cache is rebuilt from
\* ledger balances bal by applying what is still valid, in order.
reprocessQueue(q, bal, height) ==
    LET keep(acc, t) ==
            IF StillValid(t, height) /\ CanApply(View(acc.cache, bal), t, MinBalance)
            THEN [queue |-> Append(acc.queue, t),
                  cache |-> CacheApply(acc.cache, bal, t)]
            ELSE acc
    IN  FoldLeft(keep, [queue |-> <<>>, cache |-> EmptyCache], q)

\* Mutant: what stays in the queue is never examined.
RemoveBatchNoReprocess(txs, height, more) ==
    queue' = Without(txs) /\ UNCHANGED cache

\* Transactions of a connected block leave the queue. The rest is examined
\* only when no more blocks are about to be connected.
RemoveBatch(txs, height, more) ==
    LET rest == Without(txs)
    IN  IF more
        THEN queue' = rest /\ UNCHANGED cache
        ELSE LET new == reprocessQueue(rest, balance', height)
             IN  queue' = new.queue /\ cache' = new.cache

\* reprocessQueue cannot read from the ledger the balance of a party of some
\* transaction: what follows it stays as it was, and if it is the recipient's
\* balance the sender is debited already.
RemoveBatchFails(txs, height) ==
    LET rest == Without(txs)
    IN  \E i \in DOMAIN rest :
           LET new == reprocessQueue(SubSeq(rest, 1, i - 1), balance', height)
           IN  /\ StillValid(rest[i], height)
               /\ queue' = new.queue \o SubSeq(rest, i, Len(rest))
               /\ \/ /\ Transaction[rest[i]].from \notin DOMAIN new.cache
                     /\ cache' = new.cache
                  \/ /\ Transaction[rest[i]].to \notin DOMAIN new.cache
                     /\ CanApply(View(new.cache, balance'), rest[i], MinBalance)
                     /\ cache' = CacheDebit(new.cache, balance', rest[i])
=============================================================================
