------------------------------ MODULE PeerWork ------------------------------
(***************************************************************************)
(* The writer goroutine of a peer's connection (peer.go, run) between the  *)
(* processor, which waits for room in its channel to announce each change  *)
(* of the tip, and the processor again, which it calls with the work that  *)
(* the peer submits; and the reader goroutine, which calls the processor   *)
(* too and tells the writer when the connection is over.                   *)
(*                                                                         *)
(* A block is a number; what processing does with it is the subject of     *)
(* Processor. A work block is an object the peer keeps, hands to the       *)
(* processor and changes again, so an announcement that carries one holds  *)
(* a reference to it. The channel for new transactions, which has room for *)
(* a whole block of them, and errors of the storage are left out.          *)
(***************************************************************************)
EXTENDS Naturals, Sequences, SequencesExt, FiniteSetsExt

CONSTANTS
    Peer,
    Worker,              \* peers that ask for work
    Leaver,              \* peers whose connection may end
    TipChangeCap,        \* capacity of tipChangeChan: 10
    BlockChanCap,        \* of the processor's blockChan: 10
    MaxBlocks, MaxReorg, \* bounds on the blocks ever made, and on those undone at once
    MaxWorks,            \* on the works made when the tip has not changed
    SubmitsPerWork,      \* solutions a miner finds for one work
    Nil

ASSUME PeerWorkAssumption ==
    /\ Worker \cup Leaver \subseteq Peer /\ Nil \notin Peer
    /\ {TipChangeCap, BlockChanCap, SubmitsPerWork} \subseteq Nat \ {0}
    /\ {MaxBlocks, MaxReorg, MaxWorks} \subseteq Nat

VARIABLES
    chain, blocks,       \* the main chain; the number of blocks so far
    proc,                \* the processor: its job, the announcements still to make
    blockChan,
    tipChangeChannels,   \* peers registered
    tipChangeChan,       \* peer -> announcements waiting
    writer, reader,      \* peer -> where its goroutine is
    result,              \* callers whose result is there
    outChan, open,       \* peer -> messages waiting; the socket is open
    workID, base,        \* peer -> its current work: the number, the block it builds on
    header,              \* work -> the header its block has now
    works, submitted,    \* the number of works so far; work -> solutions found
    submitWorkChan,      \* peer -> submissions waiting
    told                 \* peer -> blocks it knows: announced to it, or from it

procVars == <<chain, proc, blockChan, tipChangeChannels, tipChangeChan>>
workVars == <<workID, base, header, works>>
minerVars == <<submitted, submitWorkChan>>
linkVars == <<outChan, open>>
vars == <<blocks, procVars, writer, reader, result, linkVars, workVars, minerVars, told>>

Caller == {<<p, g>> : p \in Peer, g \in {"reader", "writer"}}
Work == 1..(MaxWorks + MaxBlocks * Cardinality(Worker))
Select == [job |-> Nil, changes |-> <<>>, change |-> Nil, left |-> <<>>]
tip == Last(chain)

Init ==
    /\ chain = <<1>> /\ blocks = 1
    /\ proc = Select /\ blockChan = <<>>
    /\ tipChangeChannels = {} /\ tipChangeChan = [p \in Peer |-> <<>>]
    /\ writer = [p \in Peer |-> "register"] /\ reader = [p \in Peer |-> "reading"]
    /\ result = {}
    /\ outChan = [p \in Peer |-> 0] /\ open = [p \in Peer |-> TRUE]
    /\ workID = [p \in Peer |-> 0] /\ base = [p \in Peer |-> 0]
    /\ header = [w \in Work |-> 0] /\ works = 0
    /\ submitted = [w \in Work |-> 0] /\ submitWorkChan = [p \in Peer |-> <<>>]
    /\ told = [p \in Peer |-> {1}]

-----------------------------------------------------------------------------
(* The processor *)

\* What a block does to the main chain: nothing, or its last n blocks give way
\* to n + 1 others, of which all but the last were stored before. A work block
\* extends the chain if it builds on the tip.
Changes(job) ==
    LET change(id, connect, more, object) ==
            [id |-> id, connect |-> connect, more |-> more, source |-> job.from, object |-> object]
        reorg(n) ==
            [i \in 1..n |-> change(chain[Len(chain) + 1 - i], FALSE, FALSE, 0)] \o
            [i \in 1..n |-> change(blocks + i, TRUE, TRUE, 0)] \o
            <<change(job.id, TRUE, FALSE, job.object)>>
        depths == {n \in 0..MaxReorg : n < Len(chain) /\ blocks + n <= MaxBlocks}
    IN  IF job.object = 0 THEN {<<>>} \cup {reorg(n) : n \in depths}
        ELSE IF job.previous = tip THEN {reorg(0)} ELSE {<<>>}

takeBlock ==
    /\ proc = Select /\ blockChan # <<>>
    /\ blockChan' = Tail(blockChan)
    /\ \E changes \in Changes(Head(blockChan)) :
          /\ proc' = [Select EXCEPT !.job = Head(blockChan), !.changes = changes]
          /\ blocks' = blocks + Cardinality({i \in DOMAIN changes : changes[i].more})
    /\ UNCHANGED <<chain, tipChangeChannels, tipChangeChan, writer, reader, result, linkVars,
                   workVars, minerVars, told>>

\* disconnectBlock and connectBlock: the ledger changes, then every registered
\* channel is told, in the order the map yields.
change ==
    LET c == Head(proc.changes)
    IN  /\ proc.left = <<>> /\ proc.changes # <<>>
        /\ chain' = IF c.connect THEN Append(chain, c.id) ELSE Front(chain)
        /\ \E order \in SetToSeqs(tipChangeChannels) :
              proc' = [proc EXCEPT !.change = c, !.changes = Tail(@), !.left = order]
        /\ UNCHANGED <<blocks, blockChan, tipChangeChannels, tipChangeChan, writer, reader,
                       result, linkVars, workVars, minerVars, told>>

notify ==
    /\ proc.left # <<>>
    /\ LET p == Head(proc.left)
       IN  /\ Len(tipChangeChan[p]) < TipChangeCap
           /\ tipChangeChan' = [tipChangeChan EXCEPT ![p] = Append(@, proc.change)]
    /\ proc' = [proc EXCEPT !.left = Tail(@)]
    /\ UNCHANGED <<blocks, chain, blockChan, tipChangeChannels, writer, reader, result, linkVars,
                   workVars, minerVars, told>>

giveResult ==
    /\ proc.job # Nil /\ proc.left = <<>> /\ proc.changes = <<>>
    /\ result' = result \cup {proc.job.caller} /\ proc' = Select
    /\ UNCHANGED <<blocks, chain, blockChan, tipChangeChannels, tipChangeChan, writer, reader,
                   linkVars, workVars, minerVars, told>>

processor == takeBlock \/ change \/ notify \/ giveResult

-----------------------------------------------------------------------------
(* The writer *)

\* The blocks before that a peer learns of by asking (ChainSync).
RegisterForTipChange(p) ==
    /\ writer[p] = "register" /\ proc = Select
    /\ tipChangeChannels' = tipChangeChannels \cup {p}
    /\ writer' = [writer EXCEPT ![p] = "select"]
    /\ told' = [told EXCEPT ![p] = @ \cup {tip}]
    /\ UNCHANGED <<blocks, chain, proc, blockChan, tipChangeChan, reader, result, linkVars,
                   workVars, minerVars>>

UnregisterForTipChange(p) ==
    /\ writer[p] = "unregister" /\ proc = Select
    /\ tipChangeChannels' = tipChangeChannels \ {p}
    /\ writer' = [writer EXCEPT ![p] = "done"]
    /\ UNCHANGED <<blocks, chain, proc, blockChan, tipChangeChan, reader, result, linkVars,
                   workVars, minerVars, told>>

\* A message of the reader, or the end of it; the writer's deferred calls follow.
onOutChan(p) ==
    /\ writer[p] = "select"
    /\ \/ /\ outChan[p] > 0
          /\ outChan' = [outChan EXCEPT ![p] = @ - 1]
          /\ UNCHANGED writer
       \/ /\ outChan[p] = 0 /\ reader[p] = "ended"
          /\ writer' = [writer EXCEPT ![p] = "unregister"]
          /\ UNCHANGED outChan
    /\ UNCHANGED <<blocks, procVars, reader, result, open, workVars, minerVars, told>>

\* The peer does not want work unless it has asked for it.
createNewWorkBlock(p, id) ==
    /\ works' = works + 1
    /\ workID' = [workID EXCEPT ![p] = works + 1] /\ base' = [base EXCEPT ![p] = id]
    /\ UNCHANGED header

\* Mutants: work only follows a change that others made; a change with any
\* source is not announced.
onTipChangeOthers(p) ==
    LET t == Head(tipChangeChan[p])
    IN  /\ writer[p] = "select" /\ tipChangeChan[p] # <<>>
        /\ tipChangeChan' = [tipChangeChan EXCEPT ![p] = Tail(@)]
        /\ IF t.connect /\ ~t.more /\ workID[p] # 0 /\ t.source # p
           THEN createNewWorkBlock(p, t.id) ELSE UNCHANGED workVars
        /\ told' = [told EXCEPT ![p] = IF t.connect THEN @ \cup {t.id} ELSE @]
        /\ UNCHANGED <<blocks, chain, proc, blockChan, tipChangeChannels, writer, reader, result,
                       linkVars, minerVars>>
onTipChangeQuiet(p) ==
    LET t == Head(tipChangeChan[p])
    IN  /\ writer[p] = "select" /\ tipChangeChan[p] # <<>>
        /\ tipChangeChan' = [tipChangeChan EXCEPT ![p] = Tail(@)]
        /\ IF t.connect /\ ~t.more /\ workID[p] # 0
           THEN createNewWorkBlock(p, t.id) ELSE UNCHANGED workVars
        /\ UNCHANGED told
        /\ UNCHANGED <<blocks, chain, proc, blockChan, tipChangeChannels, writer, reader, result,
                       linkVars, minerVars>>

\* New work, then an announcement unless the peer is the source.
onTipChange(p) ==
    LET t == Head(tipChangeChan[p])
    IN  /\ writer[p] = "select" /\ tipChangeChan[p] # <<>>
        /\ tipChangeChan' = [tipChangeChan EXCEPT ![p] = Tail(@)]
        /\ IF t.connect /\ ~t.more /\ workID[p] # 0
           THEN createNewWorkBlock(p, t.id) ELSE UNCHANGED workVars
        /\ told' = [told EXCEPT ![p] = IF t.connect /\ t.source # p THEN @ \cup {t.id} ELSE @]
        /\ UNCHANGED <<blocks, chain, proc, blockChan, tipChangeChannels, writer, reader, result,
                       linkVars, minerVars>>

onGetWork(p) ==
    /\ writer[p] = "select" /\ p \in Worker /\ open[p] /\ workID[p] = 0 /\ works < MaxWorks
    /\ createNewWorkBlock(p, tip)
    /\ UNCHANGED <<blocks, procVars, writer, reader, result, linkVars, minerVars, told>>

\* Every 30 seconds, if the queue has changed.
onUpdateWorkCheck(p) ==
    /\ writer[p] = "select" /\ workID[p] # 0 /\ works < MaxWorks
    /\ createNewWorkBlock(p, tip)
    /\ UNCHANGED <<blocks, procVars, writer, reader, result, linkVars, minerVars, told>>

\* Mutant: the number of the work is not compared.
onSubmitWorkAny(p) ==
    LET s == Head(submitWorkChan[p])
    IN  /\ writer[p] = "select" /\ submitWorkChan[p] # <<>>
        /\ submitWorkChan' = [submitWorkChan EXCEPT ![p] = Tail(@)]
        /\ Len(blockChan) < BlockChanCap
        /\ header' = [header EXCEPT ![workID[p]] = s.id]
        /\ blockChan' = Append(blockChan, [caller |-> <<p, "writer">>, from |-> p,
                               id |-> s.id, previous |-> s.previous, object |-> workID[p]])
        /\ writer' = [writer EXCEPT ![p] = "call"]
        /\ UNCHANGED <<blocks, chain, proc, tipChangeChannels, tipChangeChan, reader, result,
                       linkVars, workID, base, works, submitted, told>>

\* A solution of the current work completes the work block, which the
\* processor gets.
onSubmitWork(p) ==
    LET s == Head(submitWorkChan[p])
    IN  /\ writer[p] = "select" /\ submitWorkChan[p] # <<>>
        /\ submitWorkChan' = [submitWorkChan EXCEPT ![p] = Tail(@)]
        /\ IF s.work = workID[p]
           THEN /\ Len(blockChan) < BlockChanCap
                /\ header' = [header EXCEPT ![s.work] = s.id]
                /\ blockChan' = Append(blockChan, [caller |-> <<p, "writer">>, from |-> p,
                                       id |-> s.id, previous |-> s.previous, object |-> s.work])
                /\ writer' = [writer EXCEPT ![p] = "call"]
           ELSE UNCHANGED <<header, blockChan, writer>>
        /\ UNCHANGED <<blocks, chain, proc, tipChangeChannels, tipChangeChan, reader, result,
                       linkVars, workID, base, works, submitted, told>>

submitWorkResult(p) ==
    /\ writer[p] = "call" /\ <<p, "writer">> \in result
    /\ result' = result \ {<<p, "writer">>}
    /\ writer' = [writer EXCEPT ![p] = "select"]
    /\ UNCHANGED <<blocks, procVars, reader, linkVars, workVars, minerVars, told>>

-----------------------------------------------------------------------------
(* The reader *)

\* A block from the peer.
onBlock(p) ==
    /\ reader[p] = "reading" /\ open[p] /\ blocks < MaxBlocks
    /\ Len(blockChan) < BlockChanCap
    /\ blocks' = blocks + 1
    /\ blockChan' = Append(blockChan, [caller |-> <<p, "reader">>, from |-> p, id |-> blocks + 1,
                                       previous |-> 0, object |-> 0])
    /\ told' = [told EXCEPT ![p] = @ \cup {blocks + 1}]
    /\ reader' = [reader EXCEPT ![p] = "call"]
    /\ UNCHANGED <<chain, proc, tipChangeChannels, tipChangeChan, writer, result, linkVars,
                   workVars, minerVars>>

\* After it, a message for the writer, which has room for one.
onBlockResult(p) ==
    /\ reader[p] = "call" /\ <<p, "reader">> \in result
    /\ outChan[p] = 0
    /\ result' = result \ {<<p, "reader">>}
    /\ outChan' = [outChan EXCEPT ![p] = 1]
    /\ reader' = [reader EXCEPT ![p] = "reading"]
    /\ UNCHANGED <<blocks, procVars, writer, open, workVars, minerVars, told>>

\* The miner has found a solution for the last work it was sent.
onSubmission(p) ==
    /\ reader[p] = "reading" /\ open[p] /\ submitWorkChan[p] = <<>>
    /\ workID[p] # 0 /\ submitted[workID[p]] < SubmitsPerWork /\ blocks < MaxBlocks
    /\ blocks' = blocks + 1
    /\ submitted' = [submitted EXCEPT ![workID[p]] = @ + 1]
    /\ submitWorkChan' = [submitWorkChan EXCEPT ![p] =
           <<[work |-> workID[p], id |-> blocks + 1, previous |-> base[p]]>>]
    /\ told' = [told EXCEPT ![p] = @ \cup {blocks + 1}]
    /\ UNCHANGED <<procVars, writer, reader, result, linkVars, workVars>>

disconnect(p) ==
    /\ p \in Leaver /\ open[p]
    /\ open' = [open EXCEPT ![p] = FALSE]
    /\ UNCHANGED <<blocks, procVars, writer, reader, result, outChan, workVars, minerVars, told>>

readError(p) ==
    /\ reader[p] = "reading" /\ ~open[p]
    /\ reader' = [reader EXCEPT ![p] = "ended"]
    /\ UNCHANGED <<blocks, procVars, writer, result, linkVars, workVars, minerVars, told>>

-----------------------------------------------------------------------------
Next ==
    \/ processor
    \/ \E p \in Peer :
          \/ RegisterForTipChange(p) \/ UnregisterForTipChange(p) \/ onOutChan(p)
          \/ onTipChange(p) \/ onGetWork(p) \/ onUpdateWorkCheck(p)
          \/ onSubmitWork(p) \/ submitWorkResult(p)
          \/ onBlock(p) \/ onBlockResult(p) \/ onSubmission(p) \/ disconnect(p) \/ readError(p)

Spec == Init /\ [][Next]_vars

-----------------------------------------------------------------------------
(* Properties *)

TypeOK ==
    /\ tipChangeChannels \subseteq Peer
    /\ \A p \in Peer : Len(tipChangeChan[p]) <= TipChangeCap /\ outChan[p] \in 0..1
    /\ \A p \in Peer : writer[p] \in {"register", "select", "call", "unregister", "done"}
    /\ \A p \in Peer : reader[p] \in {"reading", "call", "ended"}
    /\ result \subseteq Caller /\ works \in Nat
    /\ workID \in [Peer -> Work \cup {0}] /\ base \in [Peer -> 0..MaxBlocks]

\* All announcements have been made and taken.
Quiet(p) == proc = Select /\ writer[p] = "select" /\ tipChangeChan[p] = <<>>

\* The work of a mining peer builds on the tip once the announcements are taken,
\* although work is also made from the ledger's tip while older ones wait.
WorkIsFresh == \A p \in Peer : Quiet(p) /\ workID[p] # 0 => base[p] = tip

\* Every peer knows every block that has become the tip since it registered: from
\* an announcement, or because it sent the block.
PeerKnowsTip == \A p \in Peer : Quiet(p) => tip \in told[p]

\* Only a solution of the work a peer has now is processed.
SolvesItsWork ==
    \A i \in DOMAIN blockChan :
        LET job == blockChan[i]
        IN  job.object # 0 => job.object = workID[job.from] /\ job.previous = base[job.from]

\* The header in an announcement is that of the block it announces ("BlockID //
\* block ID of the main chain tip block", "Block // full block"), as long as the
\* miner solves a work once: a second solution changes the same block object.
AnnouncedIsWhole ==
    \A p \in Peer : \A i \in DOMAIN tipChangeChan[p] :
        LET t == tipChangeChan[p][i]
        IN  t.object # 0 => header[t.object] = t.id \/ submitted[t.object] > 1
=============================================================================
