----------------------------- MODULE Processor ------------------------------
(***************************************************************************)
(* Processor: the goroutine that owns the ledger and the queue, takes one  *)
(* block or transaction at a time and keeps the ledger on the best chain   *)
(* (processor.go). A call of processBlock is a job that takes several      *)
(* steps: storing the block, the walk back to the common ancestor, one     *)
(* ledger batch per disconnected or connected block, and when one fails    *)
(* the same again for the old tip (reconnectTip). The process may crash,   *)
(* and a read or write of the databases may fail, between any two steps.   *)
(*                                                                         *)
(* The queue changes in the step of the ledger batch it follows: only the  *)
(* processor's goroutine changes either, and a crash loses the queue       *)
(* anyway. A block or transaction that fails a check changes nothing, so   *)
(* only the accepting paths are actions.                                   *)
(***************************************************************************)
EXTENDS TransactionQueue

CONSTANTS
    Times,       \* block ID -> clock readings, "when" the block may be stored
    MaxFaults    \* bound on crashes and database errors

ASSUME ProcessorAssumption == Times \in [BlockID -> SUBSET Nat] /\ MaxFaults \in Nat

VARIABLES
    when,      \* block store: block ID -> time stored
    job,       \* the call of processBlock in progress
    faults     \* how many crashes and database errors there were

vars == <<ledgerVars, queueVars, when, job, faults>>

Job == [pc : {"idle", "continue", "walk", "apply"},
        id : BlockID \cup {Nil},              \* the block to accept
        oldTip : BlockID \cup {Nil},          \* the tip before it
        reconnect : BOOLEAN,                  \* in reconnectTip
        tipAncestor : BlockID \cup {Nil},
        newAncestor : BlockID \cup {Nil},
        blocksToDisconnect : Seq(BlockID),
        blocksToConnect : Seq(BlockID)]

Idle == [pc |-> "idle", id |-> Nil, oldTip |-> Nil, reconnect |-> FALSE,
         tipAncestor |-> Nil, newAncestor |-> Nil,
         blocksToDisconnect |-> <<>>, blocksToConnect |-> <<>>]

TypeOK ==
    /\ LedgerTypeOK
    /\ QueueTypeOK
    /\ \A b \in BlockID : when[b] \in Times[b] \cup {Nil}
    /\ job \in Job
    /\ faults \in 0..MaxFaults

Init ==
    /\ LedgerInit
    /\ QueueInit
    /\ when = [b \in BlockID |-> Nil]
    /\ job = Idle
    /\ faults = 0

-----------------------------------------------------------------------------
(* Transactions *)

\* Mutant: processTransaction does not look for a confirmation.
checkForQueueNoIndex(t) ==
    /\ job.pc = "idle"
    /\ checkTransaction(t) /\ ~IsCoinbase(t)
    /\ Len(queue) < MAX_TRANSACTION_QUEUE_LENGTH
    /\ tip # Nil
    /\ StillValid(t, TipHeight)

\* Every check of processTransaction up to the call of Add.
checkForQueue(t) ==
    /\ job.pc = "idle"
    /\ Transaction[t].fee >= MIN_FEE_CRUZBITS
    /\ Transaction[t].amount >= MIN_AMOUNT_CRUZBITS
    /\ checkTransaction(t)
    /\ ~IsCoinbase(t)
    /\ Len(queue) < MAX_TRANSACTION_QUEUE_LENGTH
    /\ txIndex[t] = Nil
    /\ tip # Nil
    /\ checkTransactionSeries(t, TipHeight + 1)
    /\ IsMature(t, TipHeight + 1)
    /\ ~IsExpired(t, TipHeight + 1)
    /\ Transaction[t].signed

processTransaction(t) ==
    /\ checkForQueue(t)
    /\ Add(t)
    /\ UNCHANGED <<ledgerVars, when, job, faults>>

databaseErrorInAdd(t) ==
    /\ faults < MaxFaults
    /\ faults' = faults + 1
    /\ checkForQueue(t)
    /\ AddFails(t)
    /\ UNCHANGED <<ledgerVars, when, job>>

-----------------------------------------------------------------------------
(* Blocks *)

Store(b, now) == when' = [when EXCEPT ![b] = now]

\* processBlock of the genesis block begins the ledger.
processGenesis(now) ==
    /\ job.pc = "idle"
    /\ branch[Genesis] = "UNKNOWN"
    /\ checkBlock(Genesis)
    /\ Store(Genesis, now)
    /\ job' = [Idle EXCEPT !.pc = "apply", !.id = Genesis]
    /\ UNCHANGED <<ledgerVars, queueVars, faults>>

\* Mutants: processBlock of a block processed already, acceptBlock without the
\* checks that depend on the parent.
acceptBlockAgain(b, now) ==
    /\ job.pc = "idle"
    /\ checkBlock(b)
    /\ Previous(b) \in BlockID
    /\ branch[Previous(b)] \in {"MAIN", "SIDE"}
    /\ checkInChain(b)
    /\ Store(b, now)
    /\ job' = [Idle EXCEPT !.pc = "continue", !.id = b, !.oldTip = tip]
    /\ UNCHANGED <<ledgerVars, queueVars, faults>>
acceptBlockUnchecked(b, now) ==
    /\ job.pc = "idle"
    /\ branch[b] = "UNKNOWN"
    /\ checkBlock(b)
    /\ Previous(b) \in BlockID
    /\ branch[Previous(b)] \in {"MAIN", "SIDE"}
    /\ Store(b, now)
    /\ job' = [Idle EXCEPT !.pc = "continue", !.id = b, !.oldTip = tip]
    /\ UNCHANGED <<ledgerVars, queueVars, faults>>

\* processBlock and acceptBlock up to the point where the block is stored.
acceptBlock(b, now) ==
    /\ job.pc = "idle"
    /\ branch[b] = "UNKNOWN"
    /\ checkBlock(b)
    /\ Previous(b) \in BlockID
    /\ branch[Previous(b)] \in {"MAIN", "SIDE"}
    /\ checkInChain(b)
    /\ Store(b, now)
    /\ job' = [Idle EXCEPT !.pc = "continue", !.id = b, !.oldTip = tip]
    /\ UNCHANGED <<ledgerVars, queueVars, faults>>

\* Mutants: a failed block is given up, or tried again, or the tip to go back to
\* is read after the attempt and not before.
AbortGivesUp == Idle
AbortRetries ==
    IF job.oldTip = Nil THEN Idle
    ELSE [Idle EXCEPT !.pc = "continue", !.id = job.id, !.oldTip = job.oldTip]
AbortReadsTipLate ==
    IF job.reconnect \/ job.oldTip = Nil THEN Idle
    ELSE [Idle EXCEPT !.pc = "continue", !.id = tip,
                      !.oldTip = job.oldTip, !.reconnect = TRUE]

\* An error returned by acceptBlockContinue: acceptBlock tries the old tip,
\* reconnectTip and the genesis block give up.
Abort ==
    IF job.reconnect \/ job.oldTip = Nil THEN Idle
    ELSE [Idle EXCEPT !.pc = "continue", !.id = job.oldTip,
                      !.oldTip = job.oldTip, !.reconnect = TRUE]

Better(b, c) == Compare(b, c, when[b], when[c])

\* acceptBlockContinue: the block is the tip already (a failed block left the
\* chain alone), or no better than the tip, or the chain must change.
acceptBlockContinue ==
    /\ job.pc = "continue"
    /\ \/ /\ job.id = tip
          /\ job' = Idle
          /\ UNCHANGED ledgerVars
       \/ /\ job.id # tip
          /\ ~Better(job.id, tip)
          /\ SetBranchType(job.id, "SIDE")
          /\ job' = Idle
       \/ /\ job.id # tip
          /\ Better(job.id, tip)
          /\ job' = [job EXCEPT !.pc = "walk", !.tipAncestor = tip,
                                !.newAncestor = Previous(job.id)]
          /\ UNCHANGED ledgerVars
    /\ UNCHANGED <<queueVars, when, faults>>

\* One iteration of the loops that walk both chains back, first to the lower
\* of the two heights and then together until they meet.
walkBack ==
    LET t == job.tipAncestor
        n == job.newAncestor
        dropTip == Height(t) >= Height(n)
        takeNew == Height(n) >= Height(t)
    IN  /\ job.pc = "walk"
        /\ t # n
        /\ job' = [job EXCEPT
              !.tipAncestor = IF dropTip THEN Previous(t) ELSE t,
              !.newAncestor = IF takeNew THEN Previous(n) ELSE n,
              !.blocksToDisconnect = IF dropTip THEN Append(@, t) ELSE @,
              !.blocksToConnect = IF takeNew THEN <<n>> \o @ ELSE @]
        /\ UNCHANGED <<ledgerVars, queueVars, when, faults>>

foundAncestor ==
    /\ job.pc = "walk"
    /\ job.tipAncestor = job.newAncestor
    /\ job' = [job EXCEPT !.pc = "apply"]
    /\ UNCHANGED <<ledgerVars, queueVars, when, faults>>

disconnectBlock ==
    LET b == Head(job.blocksToDisconnect)
    IN  /\ job.pc = "apply"
        /\ job.blocksToDisconnect # <<>>
        /\ DisconnectBlock(b)
        /\ AddBatch(Tail(Txs(b)))
        /\ job' = [job EXCEPT !.blocksToDisconnect = Tail(@)]
        /\ UNCHANGED <<when, faults>>

\* The new chain's blocks and then the block itself. The rest of the queue
\* is examined after the last one.
more == job.blocksToConnect # <<>>
nextToConnect == IF more THEN Head(job.blocksToConnect) ELSE job.id

connectBlock ==
    /\ job.pc = "apply"
    /\ job.blocksToDisconnect = <<>>
    /\ ConnectBlock(nextToConnect)
    /\ RemoveBatch(Tail(Txs(nextToConnect)), Height(nextToConnect), more)
    /\ job' = IF more THEN [job EXCEPT !.blocksToConnect = Tail(@)] ELSE Idle
    /\ UNCHANGED <<when, faults>>

connectBlockFails ==
    /\ job.pc = "apply"
    /\ job.blocksToDisconnect = <<>>
    /\ ~ConnectOK(nextToConnect)
    /\ job' = Abort
    /\ UNCHANGED <<ledgerVars, queueVars, when, faults>>

\* A database returns an error: the batch is not written.
databaseError ==
    /\ job.pc # "idle"
    /\ faults < MaxFaults
    /\ faults' = faults + 1
    /\ job' = Abort
    /\ UNCHANGED <<ledgerVars, queueVars, when>>

\* The last block is connected and then its caller gets an error, because
\* reprocessQueue could not read the ledger.
databaseErrorInReprocess ==
    /\ job.pc = "apply"
    /\ job.blocksToDisconnect = <<>> /\ ~more
    /\ faults < MaxFaults
    /\ faults' = faults + 1
    /\ ConnectBlock(job.id)
    /\ RemoveBatchFails(Tail(Txs(job.id)), Height(job.id))
    /\ job' = Abort
    /\ UNCHANGED when

\* The process dies and is started again: the databases survive.
crash ==
    /\ faults < MaxFaults
    /\ faults' = faults + 1
    /\ job' = Idle
    /\ queue' = <<>> /\ cache' = EmptyCache
    /\ UNCHANGED <<ledgerVars, when>>

processBlockStep ==
    \/ acceptBlockContinue
    \/ walkBack
    \/ foundAncestor
    \/ disconnectBlock
    \/ connectBlock
    \/ connectBlockFails

Next ==
    \/ \E t \in TransactionID : processTransaction(t)
    \/ \E now \in Times[Genesis] : processGenesis(now)
    \/ \E b \in BlockID : \E now \in Times[b] : acceptBlock(b, now)
    \/ processBlockStep
    \/ \E t \in TransactionID : databaseErrorInAdd(t)
    \/ databaseError
    \/ databaseErrorInReprocess
    \/ crash

\* Once processBlock is called its goroutine is always runnable.
Spec == Init /\ [][Next]_vars /\ WF_vars(processBlockStep)

-----------------------------------------------------------------------------
(* Properties *)

\* Every call of processBlock returns, whatever fails on the way: the caller
\* waits for the result on an unbuffered channel.
ProcessBlockReturns == job.pc # "idle" ~> job.pc = "idle"

\* Without faults, between jobs no block on any branch is better than the tip.
TipIsBest ==
    job.pc = "idle" /\ faults = 0 =>
        \A b \in BlockID : branch[b] # "UNKNOWN" /\ b # tip => Better(tip, b)

\* A block that cannot be connected leaves the node on the tip it had, after
\* any number of blocks were disconnected and connected (reconnectTip).
OldTipIsRestored ==
    [][faults' = 0 /\ job.reconnect /\ job'.pc = "idle" => tip' = job.oldTip]_vars

\* Every block of the main chain is marked MAIN ("Only blocks currently on the
\* main branch are considered confirmed", ledger.go).
ChainBlocksAreMain ==
    \A h \in Heights : heightIndex[h] # Nil => branch[heightIndex[h]] = "MAIN"

\* So it is as long as there is no fault: the SetBranchType of a block that is
\* not better than the tip never hits a block below the tip.
OnChainIsMain == faults = 0 => ChainBlocksAreMain

\* Nothing in the queue is confirmed, at any step of a reorganization and
\* after any fault: a batch leaves the queue in the step that confirms it.
QueueIsUnconfirmed == \A t \in Range(queue) : txIndex[t] = Nil

\* The queue could be mined: in order, on top of the tip, every queued
\* transaction is valid at the next height and funded (createNextBlock fills a
\* block with a prefix of it).
Minable ==
    /\ \A t \in Range(queue) : StillValid(t, TipHeight)
    /\ Applicable(balance, queue)

\* The balance cache is the ledger with the queue applied to it.
CacheCurrent == View(cache, balance) = ApplyAll(balance, queue)

\* Without faults, between jobs, the queue could be mined and the next
\* transaction is judged by the balances it will find; also after a failed
\* reorganization put back the old tip.
QueueIsMinable ==
    job.pc = "idle" /\ faults = 0 /\ tip # Nil => Minable /\ CacheCurrent

\* Whatever faults there were, a job that ends by connecting its block repairs
\* the queue and the cache (reprocessQueue).
ConnectRepairsQueue ==
    [][connectBlock /\ ~more => Minable' /\ CacheCurrent']_vars
=============================================================================
