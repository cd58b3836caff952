---------------------------- MODULE BlockDownload ---------------------------
(***************************************************************************)
(* Downloading blocks from several peers at once (peer.go, block_queue.go). *)
(* Every connection has a reader goroutine with a queue of blocks to       *)
(* download and a queue of blocks in flight. A queue shared by all of them *)
(* records who downloads a block and since when; an entry older than two   *)
(* minutes may be taken over by another connection.                        *)
(*                                                                         *)
(* The readers interleave at each access to what they share: the global    *)
(* queue, the ledger's branch types, the block store and the processor.    *)
(* The remote side is an environment that announces blocks and answers.    *)
(***************************************************************************)
EXTENDS Naturals, Sequences, FiniteSets, Functions

CONSTANTS
    Peer, Block, Nil,
    Previous,            \* block -> its parent
    Genesis,
    Bad,                 \* blocks that fail the processor's checks
    Low,                 \* blocks below the latest checkpoint
    Steady,              \* peers that stay, announce good blocks, answer in order
    Syncing,             \* peers whose connections may begin during the initial block download
    inflightQueueMax,    \* 8
    downloadQueueMax,    \* 5000
    ignoreBlocksMax,     \* maxBlocksPerInv: 500
    MaxConnections       \* bound on the connections made with one address

ASSUME DownloadAssumption ==
    /\ Nil \notin Peer \cup Block
    /\ Genesis \in Block /\ Previous \in [Block \ {Genesis} -> Block]
    /\ Bad \cup Low \subseteq Block \ {Genesis}
    /\ Steady \cup Syncing \subseteq Peer
    /\ {inflightQueueMax, downloadQueueMax, ignoreBlocksMax, MaxConnections} \subseteq Nat

VARIABLES
    globalInflight,      \* block -> [who, fresh]: fresh for maxQueueWait
    processed,           \* blocks whose branch type is not UNKNOWN
    stored,              \* blocks whose header is stored
    pc,                  \* where the reader of each connection is
    cur,                 \* the block it handles
    up,                  \* the socket is open
    ibd,                 \* the reader takes the node to be syncing
    download,            \* localDownloadQueue
    inflight,            \* localInflightQueue
    ignoreBlocks,
    asked,               \* requests a steady peer has not answered
    connections          \* connections made with this address

sharedVars == <<globalInflight, processed, stored>>
vars == <<sharedVars, pc, cur, up, ibd, download, inflight, ignoreBlocks, asked, connections>>

None == [who |-> Nil, fresh |-> FALSE]

IbdValues(p) == IF p \in Syncing THEN BOOLEAN ELSE {FALSE}

Init ==
    /\ globalInflight = [b \in Block |-> None]
    /\ processed = {Genesis}
    /\ stored = {Genesis}
    /\ pc = [p \in Peer |-> "read"]
    /\ cur = [p \in Peer |-> Nil]
    /\ up = [p \in Peer |-> TRUE]
    /\ ibd \in [Peer -> BOOLEAN] /\ \A p \in Peer : ibd[p] \in IbdValues(p)
    /\ download = [p \in Peer |-> <<>>]
    /\ inflight = [p \in Peer |-> <<>>]
    /\ ignoreBlocks = [p \in Peer |-> {}]
    /\ asked = [p \in Peer |-> <<>>]
    /\ connections = [p \in Peer |-> 1]

-----------------------------------------------------------------------------
(* BlockQueue. A local queue is the sequence of its IDs: the blocks removed *)
(* from one are always at its front, and the age of an entry only matters  *)
(* in the global queue, whose order does not.                              *)

\* Mutant: an entry is never too old.
CanAddNever(b) == globalInflight[b] = None

CanAdd(b) == ~globalInflight[b].fresh

Add(b, p) == globalInflight' = [globalInflight EXCEPT ![b] = [who |-> p, fresh |-> TRUE]]

\* Mutant: whoever removes a block ends the download of anybody.
RemoveAnyone(b, p) == globalInflight' = [globalInflight EXCEPT ![b] = None]

Remove(b, p) ==
    globalInflight' = [globalInflight EXCEPT ![b] = IF @.who = p THEN None ELSE @]

\* Two minutes pass.
Expire(b) ==
    /\ globalInflight[b].fresh
    /\ globalInflight' = [globalInflight EXCEPT ![b].fresh = FALSE]
    /\ UNCHANGED <<processed, stored, pc, cur, up, ibd, download, inflight, ignoreBlocks,
                   asked, connections>>

-----------------------------------------------------------------------------
(* The reader of a connection *)

goto(p, label) == pc' = [pc EXCEPT ![p] = label]

reading(p) == pc[p] = "read" /\ up[p]

\* The reasons for which onInvBlock leaves a block alone.
known(p, b) ==
    b \in ignoreBlocks[p] \cup Range(download[p]) \cup Range(inflight[p]) \cup processed

\* An announcement that is ignored changes nothing and is no step.
onInvBlock(p, b) ==
    /\ reading(p)
    /\ p \in Steady => b \notin Bad
    /\ ~known(p, b)
    /\ Len(download[p]) < downloadQueueMax
    /\ download' = [download EXCEPT ![p] = Append(@, b)]
    /\ goto(p, "fill")
    /\ UNCHANGED <<sharedVars, cur, up, ibd, inflight, ignoreBlocks, asked, connections>>

full(p) == Len(inflight[p]) >= inflightQueueMax

\* processDownloadQueue: the head of its loop, with the second look at the ledger.
processDownloadQueue(p) ==
    /\ pc[p] = "fill"
    /\ \/ /\ full(p) \/ download[p] = <<>>
          /\ goto(p, "read")
          /\ UNCHANGED download
       \/ /\ ~full(p) /\ download[p] # <<>>
          /\ IF Head(download[p]) \in processed
             THEN download' = [download EXCEPT ![p] = Tail(@)] /\ UNCHANGED pc
             ELSE goto(p, "claim") /\ UNCHANGED download
    /\ UNCHANGED <<sharedVars, cur, up, ibd, inflight, ignoreBlocks, asked, connections>>

\* Claim the block at the front, or wait for the peer that downloads it.
claim(p) ==
    LET b == Head(download[p])
    IN  /\ pc[p] = "claim"
        /\ IF CanAdd(b)
           THEN /\ Add(b, p)
                /\ download' = [download EXCEPT ![p] = Tail(@)]
                /\ inflight' = [inflight EXCEPT ![p] = Append(@, b)]
                /\ asked' = [asked EXCEPT ![p] = IF p \in Steady THEN Append(@, b) ELSE @]
                /\ goto(p, "fill")
           ELSE goto(p, "read") /\ UNCHANGED <<globalInflight, download, inflight, asked>>
        /\ UNCHANGED <<processed, stored, cur, up, ibd, ignoreBlocks, connections>>

\* Mutant: the block requested last is expected first.
requestedLast(p, b) == inflight[p] # <<>> /\ inflight[p][Len(inflight[p])] = b

requested(p, b) == inflight[p] # <<>> /\ Head(inflight[p]) = b

\* The first half of onBlock. A steady remote side answers in order.
onBlock(p, b) ==
    /\ reading(p)
    /\ p \in Steady => asked[p] # <<>> /\ Head(asked[p]) = b
    /\ asked' = [asked EXCEPT ![p] = SelectSeq(@, LAMBDA c : c # b)]
    /\ up' = [up EXCEPT ![p] = requested(p, b)]
    /\ IF ~requested(p, b) THEN UNCHANGED <<pc, cur>>
       ELSE /\ cur' = [cur EXCEPT ![p] = b]
            /\ goto(p, IF ~ibd[p] /\ b \in Low THEN "ignore"
                       ELSE IF Previous[b] \in stored THEN "process" ELSE "orphan")
    /\ UNCHANGED <<sharedVars, ibd, download, inflight, ignoreBlocks, connections>>

\* "remove it from the inflight queues"
done(p, label) ==
    /\ inflight' = [inflight EXCEPT ![p] = Tail(@)]
    /\ Remove(Head(inflight[p]), p)
    /\ cur' = [cur EXCEPT ![p] = Nil]
    /\ goto(p, label)

\* Too low for a node that is synced: ignored from now on.
ignore(p) ==
    LET ignored == ignoreBlocks[p] \cup {cur[p]}
    IN  /\ pc[p] = "ignore"
        /\ done(p, "read")
        /\ ignoreBlocks' = [ignoreBlocks EXCEPT ![p] = ignored]
        /\ up' = [up EXCEPT ![p] = @ /\ Cardinality(ignored) <= ignoreBlocksMax]
        /\ UNCHANGED <<processed, stored, ibd, download, asked, connections>>

\* A find_common_ancestor request goes out; its answer is an announcement.
orphan(p) ==
    /\ pc[p] = "orphan"
    /\ done(p, "fill")
    /\ UNCHANGED <<processed, stored, up, ibd, download, ignoreBlocks, asked, connections>>

\* ProcessBlock: one job at a time. The block is stored before it is connected.
process(p) ==
    LET b == cur[p]
    IN  /\ pc[p] = "process"
        /\ \A q \in Peer : pc[q] # "connect"
        /\ IF b \in processed
           THEN goto(p, "accepted") /\ UNCHANGED <<stored, up, cur>>
           ELSE IF b \in Bad \/ Previous[b] \notin processed
           THEN /\ up' = [up EXCEPT ![p] = FALSE]
                /\ cur' = [cur EXCEPT ![p] = Nil]
                /\ goto(p, "read")
                /\ UNCHANGED stored
           ELSE stored' = stored \cup {b} /\ goto(p, "connect") /\ UNCHANGED <<up, cur>>
        /\ UNCHANGED <<globalInflight, processed, ibd, download, inflight, ignoreBlocks, asked,
                       connections>>

connect(p) ==
    /\ pc[p] = "connect"
    /\ processed' = processed \cup {cur[p]}
    /\ goto(p, "accepted")
    /\ UNCHANGED <<globalInflight, stored, cur, up, ibd, download, inflight, ignoreBlocks, asked,
                   connections>>

accepted(p) ==
    /\ pc[p] = "accepted"
    /\ done(p, "fill")
    /\ UNCHANGED <<processed, stored, up, ibd, download, ignoreBlocks, asked, connections>>

\* The pong handler, which the reader runs. While syncing it only looks whether
\* the sync is over, or has stalled.
onPong(p) ==
    /\ reading(p)
    /\ IF ibd[p]
       THEN /\ \/ ibd' = [ibd EXCEPT ![p] = FALSE] /\ UNCHANGED up
               \/ up' = [up EXCEPT ![p] = FALSE] /\ UNCHANGED ibd
            /\ UNCHANGED pc
       ELSE /\ download[p] # <<>>
            /\ goto(p, "fill")
            /\ UNCHANGED <<up, ibd>>
    /\ UNCHANGED <<sharedVars, cur, download, inflight, ignoreBlocks, asked, connections>>

\* The remote side hangs up, or stops answering pings.
drop(p) ==
    /\ up[p] /\ p \notin Steady
    /\ up' = [up EXCEPT ![p] = FALSE]
    /\ UNCHANGED <<sharedVars, pc, cur, ibd, download, inflight, ignoreBlocks, asked, connections>>

readError(p) ==
    /\ pc[p] = "read" /\ ~up[p]
    /\ goto(p, "cleanup")
    /\ UNCHANGED <<sharedVars, cur, up, ibd, download, inflight, ignoreBlocks, asked, connections>>

\* The deferred function of run: one block after the other, then the end.
cleanup(p) ==
    /\ pc[p] = "cleanup"
    /\ IF inflight[p] # <<>> THEN done(p, "cleanup")
       ELSE goto(p, "gone") /\ UNCHANGED <<globalInflight, cur, inflight>>
    /\ UNCHANGED <<processed, stored, up, ibd, download, ignoreBlocks, asked, connections>>

\* A new connection with the same address: NewPeer.
reconnect(p) ==
    /\ pc[p] = "gone" /\ connections[p] < MaxConnections
    /\ goto(p, "read")
    /\ up' = [up EXCEPT ![p] = TRUE]
    /\ \E value \in IbdValues(p) : ibd' = [ibd EXCEPT ![p] = value]
    /\ download' = [download EXCEPT ![p] = <<>>]
    /\ ignoreBlocks' = [ignoreBlocks EXCEPT ![p] = {}]
    /\ asked' = [asked EXCEPT ![p] = <<>>]
    /\ connections' = [connections EXCEPT ![p] = @ + 1]
    /\ UNCHANGED <<sharedVars, cur, inflight>>

\* What the reader does by itself.
readerStep(p) ==
    \/ processDownloadQueue(p) \/ claim(p) \/ ignore(p) \/ orphan(p) \/ process(p)
    \/ connect(p) \/ accepted(p) \/ readError(p) \/ cleanup(p)

Next ==
    \/ \E b \in Block : Expire(b)
    \/ \E p \in Peer : readerStep(p) \/ onPong(p) \/ drop(p) \/ reconnect(p)
    \/ \E p \in Peer, b \in Block \ {Genesis} : onInvBlock(p, b) \/ onBlock(p, b)

\* Readers run and time passes. A steady peer sends pongs and answers, and the
\* socket delivers in order: what it sent is read however often the reader is
\* busy. Nobody has to announce a block or to reconnect.
Spec ==
    /\ Init /\ [][Next]_vars
    /\ \A b \in Block : WF_vars(Expire(b))
    /\ \A p \in Peer : WF_vars(readerStep(p))
    /\ \A p \in Steady : /\ SF_vars(onPong(p))
                         /\ SF_vars(\E b \in Block \ {Genesis} : onBlock(p, b))

-----------------------------------------------------------------------------
(* Properties *)

TypeOK ==
    /\ globalInflight \in [Block -> [who : Peer \cup {Nil}, fresh : BOOLEAN]]
    /\ processed \subseteq stored /\ stored \subseteq Block
    /\ cur \in [Peer -> Block \cup {Nil}]
    /\ up \in [Peer -> BOOLEAN] /\ ibd \in [Peer -> BOOLEAN]
    /\ \A p \in Peer :
          /\ pc[p] \in {"read", "fill", "claim", "ignore", "orphan", "process", "connect",
                        "accepted", "cleanup", "gone"}
          /\ download[p] \in Seq(Block) /\ Len(download[p]) <= downloadQueueMax
          /\ inflight[p] \in Seq(Block) /\ Len(inflight[p]) <= inflightQueueMax
          /\ ignoreBlocks[p] \subseteq Block

\* "disconnect misbehaving peer" and "disconnect a peer that sends us a bad
\* block" (peer.go, onBlock): a peer that answers every request in order with
\* a block that passes the checks is not disconnected.
SteadyPeerStays == \A p \in Steady : up[p]

\* The global queue is a lease on every block (DownloadLease).
Lease == INSTANCE DownloadLease WITH
    holder <- globalInflight,
    waiting <- [b \in Block |-> {p \in Peer : b \in Range(inflight[p])}]

LeaseSpec == Lease!LeaseSpec

\* The block a steady peer is next asked for, whose parent is there, gets
\* processed, whatever the peer does that downloads it first. (Behind a block
\* whose parent is missing it can wait for ever: processDownloadQueue stops at
\* the first block that somebody else downloads.)
NextIsProcessed ==
    \A p \in Steady, b \in Block \ ({Genesis} \cup Bad \cup Low) :
        (download[p] # <<>> /\ Head(download[p]) = b /\ Previous[b] \in processed)
            ~> b \in processed
=============================================================================
