------------------------------- MODULE Mining -------------------------------
(***************************************************************************)
(* The goroutines around the processor and the channels between them: the  *)
(* processor's loop (processor.go, run), miners (miner.go, run) and peers'  *)
(* readers, which only call the processor and wait. A call puts a job in a *)
(* bounded channel and waits for its result. The processor announces each  *)
(* block it connects or disconnects, and each transaction it queues, on a  *)
(* bounded channel of every registered miner, and waits while one is full. *)
(*                                                                         *)
(* What processing does to balances is the subject of Processor. Here a    *)
(* block is its parent, height and transactions (less the coinbase), every *)
(* block has the same work, and the one error ConnectBlock returns is that *)
(* a transaction is confirmed already. Peers' writers, which drain larger  *)
(* channels, and the wait for the initial download are left out.           *)
(***************************************************************************)
EXTENDS Naturals, Sequences, SequencesExt, FiniteSetsExt

CONSTANTS
    Miner, Peer, Tx, Nil,
    TipChangeCap,        \* capacity of a miner's tipChangeChan: 1
    NewTxCap,            \* of its newTxChan: 1
    BlockChanCap,        \* of the processor's blockChan: 10
    TxChanCap,           \* of its txChan: 100
    MAX_TRANSACTIONS_TO_INCLUDE_PER_BLOCK,   \* counts the coinbase
    MaxBlocks            \* bound on the blocks ever submitted

ASSUME MiningAssumption ==
    /\ Nil \notin Miner \cup Peer \cup Tx
    /\ Miner \cap Peer = {}
    /\ {TipChangeCap, NewTxCap, BlockChanCap, TxChanCap, MaxBlocks,
        MAX_TRANSACTIONS_TO_INCLUDE_PER_BLOCK} \subseteq Nat \ {0}

VARIABLES
    blocks,              \* blocks submitted, in order; the first is the genesis block
    processed,           \* those whose branch type is not UNKNOWN
    tip, queue,          \* the ledger's tip, the transactions queued
    proc,                \* the processor's goroutine
    blockChan, txChan,   \* jobs waiting: [from, block], [from, tx]
    tipChangeChannels, newTxChannels,   \* miners registered
    tipChangeChan, newTxChan,           \* each miner's channels
    pc,                  \* where each caller is
    job,                 \* the block or transaction a caller submits
    block,               \* the block a miner works on
    base,                \* the tip it is about to build on
    shutdown             \* callers told to stop

chainVars == <<blocks, processed, tip, queue>>
jobVars == <<blockChan, txChan>>
noticeVars == <<tipChangeChannels, newTxChannels, tipChangeChan, newTxChan>>
callerVars == <<pc, job, block, base, shutdown>>
vars == <<chainVars, proc, jobVars, noticeVars, callerVars>>

Caller == Miner \cup Peer

Idle == [pc |-> "select", from |-> Nil, id |-> Nil, oldTip |-> Nil, reconnect |-> FALSE,
         todo |-> <<>>, sends |-> <<>>, msg |-> Nil]

Init ==
    /\ blocks = <<[previous |-> 0, height |-> 0, txs |-> <<>>]>>
    /\ processed = {1} /\ tip = 1 /\ queue = {}
    /\ proc = Idle
    /\ blockChan = <<>> /\ txChan = <<>>
    /\ tipChangeChannels = {} /\ newTxChannels = {}
    /\ tipChangeChan = [m \in Miner |-> <<>>] /\ newTxChan = [m \in Miner |-> <<>>]
    /\ pc = [c \in Caller |-> IF c \in Miner THEN "registerTip" ELSE "idle"]
    /\ job = [c \in Caller |-> Nil]
    /\ block = [m \in Miner |-> Nil] /\ base = [m \in Miner |-> Nil]
    /\ shutdown = {}

-----------------------------------------------------------------------------
(* The chain *)

\* The blocks from the genesis block to b.
Path(b) ==
    LET path[c \in 1..b] ==
            IF blocks[c].previous = 0 THEN <<c>> ELSE Append(path[blocks[c].previous], c)
    IN  path[b]

Confirmed == UNION {Range(blocks[b].txs) : b \in Range(Path(tip))}

\* Compare: most work, then first stored.
Better(b, c) ==
    \/ blocks[b].height > blocks[c].height
    \/ blocks[b].height = blocks[c].height /\ b < c

\* The steps of acceptBlockContinue from the tip to block b: down to the
\* common ancestor, then up; "more" for all but the last.
Plan(b) ==
    LET old == Path(tip)
        new == Path(b)
        common == Max({i \in 1..Len(old) : i <= Len(new) /\ old[i] = new[i]})
        undo == Reverse(SubSeq(old, common + 1, Len(old)))
        redo == SubSeq(new, common + 1, Len(new))
    IN  [i \in DOMAIN undo |-> [block |-> undo[i], connect |-> FALSE, more |-> FALSE]] \o
        [i \in DOMAIN redo |-> [block |-> redo[i], connect |-> TRUE, more |-> i < Len(redo)]]

-----------------------------------------------------------------------------
(* The processor's loop *)

\* A block seen before, with a duplicate or of unknown parent ends here.
takeBlock ==
    LET id == Head(blockChan).block
        ok == /\ id \notin processed
              /\ IsInjective(blocks[id].txs)
              /\ blocks[id].previous \in processed
        started == [Idle EXCEPT !.from = Head(blockChan).from]
    IN  /\ proc.pc = "select" /\ blockChan # <<>>
        /\ blockChan' = Tail(blockChan)
        /\ proc' = IF ok THEN [started EXCEPT !.pc = "continue", !.id = id, !.oldTip = tip]
                         ELSE [started EXCEPT !.pc = "return"]
        /\ UNCHANGED <<chainVars, txChan, noticeVars, callerVars>>

acceptBlockContinue ==
    /\ proc.pc = "continue"
    /\ IF proc.id # tip /\ Better(proc.id, tip)
       THEN /\ proc' = [proc EXCEPT !.pc = "apply", !.todo = Plan(proc.id)]
            /\ UNCHANGED processed
       ELSE /\ proc' = [proc EXCEPT !.pc = "return"]
            /\ processed' = processed \cup {proc.id}
    /\ UNCHANGED <<blocks, tip, queue, jobVars, noticeVars, callerVars>>

step == Head(proc.todo)
applying == proc.pc = "apply" /\ proc.sends = <<>> /\ proc.todo # <<>>

\* Go on to tell every registered channel, in the order the map yields.
announce(channels, rest, msg) ==
    \E order \in SetToSeqs(channels) :
        proc' = [proc EXCEPT !.todo = rest, !.sends = order, !.msg = msg]

disconnectBlock ==
    /\ applying /\ ~step.connect
    /\ tip' = blocks[tip].previous
    /\ queue' = queue \cup Range(blocks[tip].txs)
    /\ announce(tipChangeChannels, Tail(proc.todo), step)
    /\ UNCHANGED <<blocks, processed, jobVars, noticeVars, callerVars>>

\* Reprocessing the queue after the last block may drop transactions.
connectBlock ==
    LET txs == Range(blocks[step.block].txs)
    IN  /\ applying /\ step.connect
        /\ txs \cap Confirmed = {}
        /\ tip' = step.block
        /\ processed' = processed \cup {step.block}
        /\ \E kept \in SUBSET (queue \ txs) :
              /\ step.more => kept = queue \ txs
              /\ queue' = kept
        /\ announce(tipChangeChannels, Tail(proc.todo), step)
        /\ UNCHANGED <<blocks, jobVars, noticeVars, callerVars>>

\* acceptBlock tries to go back to the old tip, once (reconnectTip).
connectBlockFails ==
    /\ applying /\ step.connect
    /\ Range(blocks[step.block].txs) \cap Confirmed # {}
    /\ proc' = IF proc.reconnect THEN [proc EXCEPT !.pc = "return"]
               ELSE [proc EXCEPT !.pc = "continue", !.id = proc.oldTip, !.reconnect = TRUE]
    /\ UNCHANGED <<chainVars, jobVars, noticeVars, callerVars>>

applied ==
    /\ proc.pc \in {"apply", "tx"} /\ proc.sends = <<>> /\ proc.todo = <<>>
    /\ proc' = [proc EXCEPT !.pc = "return"]
    /\ UNCHANGED <<chainVars, jobVars, noticeVars, callerVars>>

\* Mutant: a notice is dropped when the channel is full.
notifyTipChangeDrops ==
    LET m == Head(proc.sends)
    IN  /\ proc.pc = "apply" /\ proc.sends # <<>>
        /\ tipChangeChan' = IF Len(tipChangeChan[m]) < TipChangeCap
                            THEN [tipChangeChan EXCEPT ![m] = Append(@, proc.msg)]
                            ELSE tipChangeChan
        /\ proc' = [proc EXCEPT !.sends = Tail(@)]
        /\ UNCHANGED <<chainVars, jobVars, tipChangeChannels, newTxChannels, newTxChan, callerVars>>

notifyTipChange ==
    LET m == Head(proc.sends)
    IN  /\ proc.pc = "apply" /\ proc.sends # <<>>
        /\ Len(tipChangeChan[m]) < TipChangeCap
        /\ tipChangeChan' = [tipChangeChan EXCEPT ![m] = Append(@, proc.msg)]
        /\ proc' = [proc EXCEPT !.sends = Tail(@)]
        /\ UNCHANGED <<chainVars, jobVars, tipChangeChannels, newTxChannels, newTxChan, callerVars>>

\* A transaction that fails a check, or is queued already, is not announced.
processTransaction ==
    LET t == Head(txChan).tx
        started == [Idle EXCEPT !.from = Head(txChan).from]
    IN  /\ proc.pc = "select" /\ txChan # <<>>
        /\ txChan' = Tail(txChan)
        /\ \/ /\ t \notin queue \cup Confirmed
              /\ queue' = queue \cup {t}
              /\ \E order \in SetToSeqs(newTxChannels) :
                    proc' = [started EXCEPT !.pc = "tx", !.sends = order, !.msg = t]
           \/ /\ proc' = [started EXCEPT !.pc = "return"]
              /\ UNCHANGED queue
        /\ UNCHANGED <<blocks, processed, tip, blockChan, noticeVars, callerVars>>

\* Mutant: a notice is dropped when the channel is full.
notifyNewTxDrops ==
    LET m == Head(proc.sends)
    IN  /\ proc.pc = "tx" /\ proc.sends # <<>>
        /\ newTxChan' = IF Len(newTxChan[m]) < NewTxCap
                        THEN [newTxChan EXCEPT ![m] = Append(@, proc.msg)] ELSE newTxChan
        /\ proc' = [proc EXCEPT !.sends = Tail(@)]
        /\ UNCHANGED <<chainVars, jobVars, tipChangeChannels, newTxChannels, tipChangeChan, callerVars>>

notifyNewTx ==
    LET m == Head(proc.sends)
    IN  /\ proc.pc = "tx" /\ proc.sends # <<>>
        /\ Len(newTxChan[m]) < NewTxCap
        /\ newTxChan' = [newTxChan EXCEPT ![m] = Append(@, proc.msg)]
        /\ proc' = [proc EXCEPT !.sends = Tail(@)]
        /\ UNCHANGED <<chainVars, jobVars, tipChangeChannels, newTxChannels, tipChangeChan, callerVars>>

\* The caller is at the other end of the unbuffered resultChan. A miner goes
\* on without a block.
sendResult ==
    LET c == proc.from
    IN  /\ proc.pc = "return"
        /\ pc[c] = "wait"
        /\ proc' = Idle
        /\ pc' = [pc EXCEPT ![c] = IF c \in Miner THEN "select" ELSE "idle"]
        /\ block' = [m \in Miner |-> IF m = c THEN Nil ELSE block[m]]
        /\ UNCHANGED <<chainVars, jobVars, noticeVars, job, base, shutdown>>

\* These channels are unbuffered: the miner waits for the processor's select.
register(m) ==
    /\ proc.pc = "select"
    /\ \/ /\ pc[m] = "registerTip"
          /\ tipChangeChannels' = tipChangeChannels \cup {m}
          /\ pc' = [pc EXCEPT ![m] = "registerTx"]
          /\ UNCHANGED newTxChannels
       \/ /\ pc[m] = "registerTx"
          /\ newTxChannels' = newTxChannels \cup {m}
          /\ pc' = [pc EXCEPT ![m] = "select"]
          /\ UNCHANGED tipChangeChannels
    /\ UNCHANGED <<chainVars, proc, jobVars, tipChangeChan, newTxChan, job, block, base, shutdown>>

\* The deferred calls, last deferred first.
unregister(m) ==
    /\ proc.pc = "select"
    /\ \/ /\ pc[m] = "unregisterTx"
          /\ newTxChannels' = newTxChannels \ {m}
          /\ pc' = [pc EXCEPT ![m] = "unregisterTip"]
          /\ UNCHANGED tipChangeChannels
       \/ /\ pc[m] = "unregisterTip"
          /\ tipChangeChannels' = tipChangeChannels \ {m}
          /\ pc' = [pc EXCEPT ![m] = "done"]
          /\ UNCHANGED newTxChannels
    /\ UNCHANGED <<chainVars, proc, jobVars, tipChangeChan, newTxChan, job, block, base, shutdown>>

-----------------------------------------------------------------------------
(* Calls of ProcessBlock and ProcessTransaction *)

callProcessBlock(c) ==
    /\ pc[c] = "sendBlock"
    /\ Len(blockChan) < BlockChanCap
    /\ blocks' = Append(blocks, job[c])
    /\ blockChan' = Append(blockChan, [from |-> c, block |-> Len(blocks) + 1])
    /\ pc' = [pc EXCEPT ![c] = "wait"]
    /\ job' = [job EXCEPT ![c] = Nil]
    /\ UNCHANGED <<processed, tip, queue, proc, txChan, noticeVars, block, base, shutdown>>

callProcessTransaction(c) ==
    /\ pc[c] = "sendTx"
    /\ Len(txChan) < TxChanCap
    /\ txChan' = Append(txChan, [from |-> c, tx |-> job[c]])
    /\ pc' = [pc EXCEPT ![c] = "wait"]
    /\ job' = [job EXCEPT ![c] = Nil]
    /\ UNCHANGED <<chainVars, proc, blockChan, noticeVars, block, base, shutdown>>

\* Blocks submitted or about to be.
Submitted == Len(blocks) + Cardinality({c \in Caller : pc[c] = "sendBlock"})

-----------------------------------------------------------------------------
(* A miner's loop *)

\* "only build off newly connected tip blocks"
onTipChange(m) ==
    LET notice == Head(tipChangeChan[m])
        restart == notice.connect /\ ~notice.more
    IN  /\ pc[m] = "select" /\ tipChangeChan[m] # <<>>
        /\ tipChangeChan' = [tipChangeChan EXCEPT ![m] = Tail(@)]
        /\ pc' = [pc EXCEPT ![m] = IF restart THEN "createOnNotice" ELSE @]
        /\ base' = [base EXCEPT ![m] = IF restart THEN notice.block ELSE @]
        /\ UNCHANGED <<chainVars, proc, jobVars, tipChangeChannels, newTxChannels, newTxChan,
                       job, block, shutdown>>

Full(b) == Len(b.txs) + 1 >= MAX_TRANSACTIONS_TO_INCLUDE_PER_BLOCK

onNewTx(m) ==
    /\ pc[m] = "select" /\ newTxChan[m] # <<>>
    /\ newTxChan' = [newTxChan EXCEPT ![m] = Tail(@)]
    /\ block' = IF block[m] = Nil \/ Full(block[m]) THEN block
                ELSE [block EXCEPT ![m].txs = Append(@, Head(newTxChan[m]))]
    /\ UNCHANGED <<chainVars, proc, jobVars, tipChangeChannels, newTxChannels, tipChangeChan,
                   pc, job, base, shutdown>>

\* The default case, taken when no other is ready: hash the block, or first
\* create one on the ledger's tip.
onDefault(m) ==
    /\ pc[m] = "select"
    /\ tipChangeChan[m] = <<>> /\ newTxChan[m] = <<>> /\ m \notin shutdown
    /\ IF block[m] = Nil
       THEN pc' = [pc EXCEPT ![m] = "createOnTip"] /\ base' = [base EXCEPT ![m] = tip]
       ELSE pc' = [pc EXCEPT ![m] = "hash"] /\ UNCHANGED base
    /\ UNCHANGED <<chainVars, proc, jobVars, noticeVars, job, block, shutdown>>

\* The queue is read later than the tip.
createNextBlock(m) ==
    LET limit == Min({Cardinality(queue), MAX_TRANSACTIONS_TO_INCLUDE_PER_BLOCK - 1})
    IN  /\ pc[m] \in {"createOnNotice", "createOnTip"}
        /\ \E txs \in kSubset(limit, queue) :
              block' = [block EXCEPT ![m] = [previous |-> base[m],
                                             height |-> blocks[base[m]].height + 1,
                                             txs |-> SetToSeq(txs)]]
        /\ base' = [base EXCEPT ![m] = Nil]
        /\ pc' = [pc EXCEPT ![m] = IF @ = "createOnTip" THEN "hash" ELSE "select"]
        /\ UNCHANGED <<chainVars, proc, jobVars, noticeVars, job, shutdown>>

noSolution(m) ==
    /\ pc[m] = "hash"
    /\ pc' = [pc EXCEPT ![m] = "select"]
    /\ UNCHANGED <<chainVars, proc, jobVars, noticeVars, job, block, base, shutdown>>

foundSolution(m) ==
    /\ pc[m] = "hash"
    /\ Submitted < MaxBlocks
    /\ pc' = [pc EXCEPT ![m] = "sendBlock"]
    /\ job' = [job EXCEPT ![m] = block[m]]
    /\ UNCHANGED <<chainVars, proc, jobVars, noticeVars, block, base, shutdown>>

onShutdown(m) ==
    /\ pc[m] = "select" /\ m \in shutdown
    /\ pc' = [pc EXCEPT ![m] = "unregisterTx"]
    /\ UNCHANGED <<chainVars, proc, jobVars, noticeVars, job, block, base, shutdown>>

-----------------------------------------------------------------------------
(* Peers and the client *)

\* The block store: blocks that passed the checks, connected or not.
Stored ==
    {b \in DOMAIN blocks :
        /\ b \in processed \/ (IsInjective(blocks[b].txs) /\ blocks[b].previous \in processed)
        /\ \A i \in DOMAIN blockChan : blockChan[i].block # b}

\* onBlock: a block whose parent is not stored is not passed on. A peer that
\* is dropped for a bad block is replaced by another.
peerSubmitsBlock(p) ==
    /\ pc[p] = "idle" /\ p \notin shutdown
    /\ Submitted < MaxBlocks
    /\ \E previous \in Stored, txs \in SUBSET Tx :
          job' = [job EXCEPT ![p] = [previous |-> previous,
                                     height |-> blocks[previous].height + 1,
                                     txs |-> SetToSeq(txs)]]
    /\ pc' = [pc EXCEPT ![p] = "sendBlock"]
    /\ UNCHANGED <<chainVars, proc, jobVars, noticeVars, block, base, shutdown>>

\* onPushTransaction: nor is a transaction in the queue.
peerSubmitsTx(p) ==
    /\ pc[p] = "idle" /\ p \notin shutdown
    /\ \E t \in Tx \ queue : job' = [job EXCEPT ![p] = t]
    /\ pc' = [pc EXCEPT ![p] = "sendTx"]
    /\ UNCHANGED <<chainVars, proc, jobVars, noticeVars, block, base, shutdown>>

\* The client stops the peers, then one miner after the other, and waits for
\* each to end.
Stopped(c) == c \in shutdown /\ pc[c] \in {"idle", "done"}

Shutdown(c) ==
    /\ c \notin shutdown
    /\ \A d \in shutdown : Stopped(d)
    /\ c \in Miner => Peer \subseteq shutdown
    /\ shutdown' = shutdown \cup {c}
    /\ UNCHANGED <<chainVars, proc, jobVars, noticeVars, pc, job, block, base>>

processorStep ==
    \/ takeBlock \/ acceptBlockContinue \/ disconnectBlock \/ connectBlock
    \/ connectBlockFails \/ applied \/ notifyTipChange
    \/ processTransaction \/ notifyNewTx \/ sendResult

call(c) == callProcessBlock(c) \/ callProcessTransaction(c)

minerStep(m) ==
    \/ register(m) \/ unregister(m) \/ onTipChange(m) \/ onNewTx(m) \/ onDefault(m)
    \/ createNextBlock(m) \/ noSolution(m) \/ onShutdown(m)

Next ==
    \/ processorStep
    \/ \E c \in Caller : call(c) \/ Shutdown(c)
    \/ \E m \in Miner : minerStep(m) \/ foundSolution(m)
    \/ \E p \in Peer : peerSubmitsBlock(p) \/ peerSubmitsTx(p)

\* A goroutine that can take a step takes one, and Go's select, which chooses
\* at random, does not pass over a job, a shutdown or a registration for ever. Nobody
\* has to find a block, to send one or to stop the client.
Spec ==
    /\ Init /\ [][Next]_vars
    /\ WF_vars(processorStep) /\ SF_vars(takeBlock) /\ SF_vars(processTransaction)
    /\ \A c \in Caller : WF_vars(call(c))
    /\ \A m \in Miner : /\ WF_vars(minerStep(m))
                        /\ SF_vars(onShutdown(m))
                        /\ SF_vars(register(m)) /\ SF_vars(unregister(m))

-----------------------------------------------------------------------------
(* Properties *)

TypeOK ==
    /\ tip \in processed /\ processed \subseteq DOMAIN blocks
    /\ queue \subseteq Tx
    /\ proc.pc \in {"select", "continue", "apply", "tx", "return"}
    /\ Len(blockChan) <= BlockChanCap /\ Len(txChan) <= TxChanCap
    /\ newTxChannels \subseteq Miner /\ tipChangeChannels \subseteq Miner
    /\ \A m \in Miner : Len(tipChangeChan[m]) <= TipChangeCap /\ Len(newTxChan[m]) <= NewTxCap
    /\ shutdown \subseteq Caller

Working(m) == pc[m] \in {"select", "hash"} /\ block[m] # Nil

\* While the processor is between jobs, a miner whose block is not on the tip
\* has the notice of that tip still to read: it never mines on a stale block
\* without end, even when it began the block in the middle of a reorganization
\* or the reorganization failed and was taken back.
StaleWorkIsNoticed ==
    proc.pc = "select" =>
        \A m \in Miner : Working(m) /\ block[m].previous # tip =>
            /\ tipChangeChan[m] # <<>>
            /\ Last(tipChangeChan[m]) = [block |-> tip, connect |-> TRUE, more |-> FALSE]

\* While the processor is between jobs, a queued transaction is in a miner's
\* block, or the block is full, or a notice that will bring it is unread: also
\* one put back in the queue by a disconnected block, which is not announced.
QueuedIsAnnounced ==
    proc.pc = "select" =>
        \A m \in Miner : Working(m) =>
            \A t \in queue :
                \/ t \in Range(block[m].txs) \cup Range(newTxChan[m])
                \/ Full(block[m])
                \/ tipChangeChan[m] # <<>>

\* "send back the result" (processor.go): every call of ProcessBlock or
\* ProcessTransaction returns.
CallReturns == \A c \in Caller : pc[c] = "wait" ~> pc[c] # "wait"
=============================================================================
