------------------------------ MODULE ChainSync -----------------------------
(***************************************************************************)
(* Two nodes that are connected bring each other's chains up to date       *)
(* (peer.go). Each asks the other once for the blocks after their common   *)
(* ancestor; an answer names at most maxBlocksPerInv of them, and the last *)
(* one, when it is fetched, makes the sender announce its tip, which leads *)
(* the receiver to ask again. Both nodes also get blocks from elsewhere.   *)
(*                                                                         *)
(* The two goroutines of a connection are kept apart. The reader hands     *)
(* messages to the writer through outChan; the writer also announces new   *)
(* tips, which may overtake them. The socket delivers in order. Who        *)
(* downloads a block when there are several peers is in BlockDownload.     *)
(***************************************************************************)
EXTENDS Integers, Sequences, FiniteSets, Functions, SequencesExt

CONSTANTS
    Node,                \* the two ends of the connection
    Block, Nil, Genesis,
    Previous, Height,    \* of every block
    Starts,              \* node -> the tip it starts with, its main chain all it has
    Elsewhere,           \* node -> blocks it may get from a miner or another peer
    maxBlocksPerInv,     \* 500
    denseIDs,            \* 10: a locator goes down one by one for as many blocks
    inflightQueueMax,    \* 8
    downloadQueueMax     \* 5000

ASSUME SyncAssumption ==
    /\ Cardinality(Node) = 2 /\ Nil \notin Block
    /\ Genesis \in Block /\ Height[Genesis] = 0
    /\ \A b \in Block \ {Genesis} :
          Previous[b] \in Block /\ Height[b] = Height[Previous[b]] + 1
    /\ Starts \subseteq [Node -> Block] /\ Elsewhere \in [Node -> SUBSET Block]
    /\ maxBlocksPerInv \in Nat \ {0, 1} /\ downloadQueueMax >= maxBlocksPerInv

VARIABLES
    has, tip,            \* the blocks a node has processed, and the best of them
    hello,               \* the first find_common_ancestor is still to be sent
    news,                \* tipChangeChan: connected blocks to announce
    out,                 \* outChan, and what the reader waits to put there
    wire,                \* node -> messages under way to it
    pc,                  \* the reader: "read", or inside a handler
    ids, at,             \* "inv": an inv_block and the place reached in it;
                         \* "list": the IDs collected and the next height
    continuationBlockID,
    download, inflight,
    open                 \* nobody has hung up

chainVars == <<has, tip, news>>
queueVars == <<download, inflight>>
readerVars == <<pc, ids, at>>
vars == <<chainVars, queueVars, hello, out, wire, readerVars, continuationBlockID, open>>

other(n) == CHOOSE o \in Node : o # n

set(f, n, value) == [f EXCEPT ![n] = value]

-----------------------------------------------------------------------------
(* The ledger, as the peer reads it *)

\* The block IDs from the genesis block to b.
Branch[b \in Block] ==
    IF b = Genesis THEN <<Genesis>> ELSE Append(Branch[Previous[b]], b)

Main(n) == Range(Branch[tip[n]])

GetBlockIDForHeight(n, height) ==
    IF height <= Height[tip[n]] THEN Branch[tip[n]][height + 1] ELSE Nil

\* The blocks of b's branch that become part of the main branch.
announced(n, b) == SelectSeq(Branch[b], LAMBDA c : c \notin Main(n))

\* A block is processed: a longer branch becomes the main one, and so may an
\* equally long one that was stored within the same second (the lesser ID wins).
\* What it connects is announced in order, unless this peer sent the block.
\* (The branches have the same target, so the longer one has more work.)
processBlock(n, b, elsewhere) ==
    IF b \in has[n] THEN UNCHANGED chainVars
    ELSE \E tie \in BOOLEAN :
        LET better == Height[b] > Height[tip[n]] \/ (tie /\ Height[b] = Height[tip[n]])
        IN  /\ has' = set(has, n, has[n] \cup {b})
            /\ tip' = IF better THEN set(tip, n, b) ELSE tip
            /\ news' = IF better /\ elsewhere THEN set(news, n, news[n] \o announced(n, b)) ELSE news

-----------------------------------------------------------------------------
(* Messages *)

inv_block(s) == [type |-> "inv_block", ids |-> s]
get_block(b) == [type |-> "get_block", ids |-> <<b>>]
block(b) == [type |-> "block", ids |-> <<b>>]
find_common_ancestor(s) == [type |-> "find_common_ancestor", ids |-> s]

say(n, messages) == out' = set(out, n, out[n] \o messages)

\* The reader waits while the last message of what it did finds outChan full.
running(n, label) == open /\ pc[n] = label /\ Len(out[n]) <= 1

reading(n, type) ==
    /\ running(n, "read")
    /\ wire[n] # <<>> /\ Head(wire[n]).type = type
    /\ wire' = set(wire, n, Tail(wire[n]))

-----------------------------------------------------------------------------
(* Asking for blocks *)

\* The distance from the i-th ID of a locator down to the next.
step(i) == IF i <= denseIDs + 1 THEN 1 ELSE 2 ^ (i - denseIDs - 1)

\* Mutant: the first ID is always the tip.
sendFindCommonAncestorTip(n, start) ==
    LET below[i \in 1..(Height[tip[n]] + 1)] ==
            IF i = 1 THEN Height[tip[n]] ELSE below[i - 1] - step(i - 1)
        path == [i \in 1..Cardinality({i \in DOMAIN below : below[i] > 0}) |->
                    GetBlockIDForHeight(n, below[i])]
    IN  Append(path, Genesis)

\* sendFindCommonAncestor: start, then ever sparser blocks of the main branch.
sendFindCommonAncestor(n, start) ==
    LET below[i \in 1..(Height[start] + 1)] ==
            IF i = 1 THEN Height[start] ELSE below[i - 1] - step(i - 1)
        path == [i \in 1..Cardinality({i \in DOMAIN below : below[i] > 0}) |->
                    IF i = 1 THEN start ELSE GetBlockIDForHeight(n, below[i])]
    IN  Append(path, Genesis)

onConnect(n) ==
    /\ open /\ hello[n]
    /\ hello' = set(hello, n, FALSE)
    /\ wire' = set(wire, other(n),
                   Append(wire[other(n)],
                          find_common_ancestor(sendFindCommonAncestor(n, tip[n]))))
    /\ UNCHANGED <<chainVars, queueVars, out, readerVars, continuationBlockID, open>>

full(f) == Len(f) >= inflightQueueMax

\* processDownloadQueue on the queues d and f: what it asks for, and the queues
\* after it.
processDownloadQueue(n, d, f) ==
    LET next(q, b) ==
            IF full(q.inflight)
            THEN [q EXCEPT !.download = Append(@, b)]
            ELSE IF b \in has'[n] THEN q
            ELSE [q EXCEPT !.inflight = Append(@, b), !.ask = Append(@, get_block(b))]
    IN  FoldLeft(next, [ask |-> <<>>, download |-> <<>>, inflight |-> f], d)

refill(n, d, f, messages) ==
    LET q == processDownloadQueue(n, d, f)
    IN  /\ download' = set(download, n, q.download)
        /\ inflight' = set(inflight, n, q.inflight)
        /\ say(n, messages \o q.ask)

\* Mutant: an ID that is known ends the matter.
deepSideChainNever(n, b) == FALSE

\* The last of several IDs is processed already: ask what comes after it.
deepSideChain(n, b) == Len(ids[n]) > 1 /\ at[n] = Len(ids[n])

onInv(n) ==
    /\ reading(n, "inv_block")
    /\ pc' = set(pc, n, "inv") /\ at' = set(at, n, 1)
    /\ ids' = set(ids, n, Head(wire[n]).ids)
    /\ UNCHANGED <<chainVars, queueVars, hello, out, continuationBlockID, open>>

\* One ID of an inv_block.
onInvBlock(n) ==
    LET b == ids[n][at[n]]
        last == at[n] = Len(ids[n])
        queued == b \in Range(download[n]) \cup Range(inflight[n])
    IN  /\ running(n, "inv")
        /\ pc' = IF last THEN set(pc, n, "read") ELSE pc
        /\ at' = set(at, n, IF last THEN 0 ELSE at[n] + 1)
        /\ ids' = IF last THEN set(ids, n, <<>>) ELSE ids
        /\ UNCHANGED <<chainVars, hello, wire, continuationBlockID, open>>
        /\ IF queued THEN UNCHANGED <<queueVars, out>>
           ELSE IF b \in has[n]
           THEN /\ IF deepSideChain(n, b)
                   THEN say(n, <<find_common_ancestor(sendFindCommonAncestor(n, b))>>)
                   ELSE UNCHANGED out
                /\ UNCHANGED queueVars
           ELSE IF Len(download[n]) >= downloadQueueMax THEN UNCHANGED <<queueVars, out>>
           ELSE refill(n, Append(download[n], b), inflight[n], <<>>)

requested(n, b) == inflight[n] # <<>> /\ Head(inflight[n]) = b

\* A block that was not asked for, or not next, is the end of the connection.
onBlock(n) ==
    LET b == Head(Head(wire[n]).ids)
    IN  /\ reading(n, "block")
        /\ open' = requested(n, b)
        /\ UNCHANGED <<hello, readerVars, continuationBlockID>>
        /\ IF ~requested(n, b) THEN UNCHANGED <<chainVars, queueVars, out>>
           ELSE IF Previous[b] \in has[n]
           THEN /\ processBlock(n, b, FALSE)
                /\ refill(n, download[n], Tail(inflight[n]), <<>>)
           ELSE /\ UNCHANGED chainVars
                /\ refill(n, download[n], Tail(inflight[n]),
                          <<find_common_ancestor(sendFindCommonAncestor(n, tip[n]))>>)

-----------------------------------------------------------------------------
(* Answering *)

\* The first ID that is on the main branch; the genesis block is, if no other.
onFindCommonAncestor(n) ==
    LET asked == Head(wire[n]).ids
        ancestor == SelectInSeq(asked, LAMBDA b : b \in Main(n))
    IN  /\ reading(n, "find_common_ancestor")
        /\ pc' = set(pc, n, "list")
        /\ ids' = set(ids, n, <<>>)
        /\ at' = set(at, n, Height[asked[ancestor]] + 1)
        /\ UNCHANGED <<chainVars, queueVars, hello, out, continuationBlockID, open>>

\* One round of its loop. The branch may change between two of them.
listing(n) ==
    LET b == GetBlockIDForHeight(n, at[n])
    IN  /\ running(n, "list")
        /\ UNCHANGED <<chainVars, queueVars, hello, wire, open>>
        /\ IF Len(ids[n]) < maxBlocksPerInv /\ b # Nil
           THEN /\ ids' = set(ids, n, Append(ids[n], b))
                /\ at' = set(at, n, at[n] + 1)
                /\ UNCHANGED <<pc, out, continuationBlockID>>
           ELSE /\ pc' = set(pc, n, "read")
                /\ ids' = set(ids, n, <<>>) /\ at' = set(at, n, 0)
                /\ IF ids[n] = <<>> THEN UNCHANGED <<out, continuationBlockID>>
                   ELSE /\ say(n, <<inv_block(ids[n])>>)
                        /\ continuationBlockID' =
                               set(continuationBlockID, n, ids[n][Len(ids[n])])

continues(n, b) == b = continuationBlockID[n]

\* Mutant: in place of the last block of an inv_block the tip is announced.
getBlockOrTip(n) ==
    LET b == Head(Head(wire[n]).ids)
    IN  /\ reading(n, "get_block")
        /\ IF continues(n, b)
           THEN /\ continuationBlockID' = set(continuationBlockID, n, Nil)
                /\ pc' = set(pc, n, "tell")
                /\ UNCHANGED out
           ELSE say(n, <<block(b)>>) /\ UNCHANGED <<continuationBlockID, pc>>
        /\ UNCHANGED <<chainVars, queueVars, hello, ids, at, open>>

\* A block that was announced is stored.
getBlock(n) ==
    LET b == Head(Head(wire[n]).ids)
    IN  /\ reading(n, "get_block")
        /\ say(n, <<block(b)>>)
        /\ IF continues(n, b)
           THEN /\ continuationBlockID' = set(continuationBlockID, n, Nil)
                /\ pc' = set(pc, n, "tell")
           ELSE UNCHANGED <<continuationBlockID, pc>>
        /\ UNCHANGED <<chainVars, queueVars, hello, ids, at, open>>

\* "send an inv for our tip block to prompt the peer", once the block is in outChan
tellTip(n) ==
    /\ running(n, "tell")
    /\ say(n, <<inv_block(<<tip[n]>>)>>)
    /\ pc' = set(pc, n, "read")
    /\ UNCHANGED <<chainVars, queueVars, hello, wire, ids, at, continuationBlockID, open>>

-----------------------------------------------------------------------------
(* The writer, and the rest of the node *)

send(n) ==
    /\ open /\ out[n] # <<>>
    /\ wire' = set(wire, other(n), Append(wire[other(n)], Head(out[n])))
    /\ out' = set(out, n, Tail(out[n]))
    /\ UNCHANGED <<chainVars, queueVars, hello, readerVars, continuationBlockID, open>>

announce(n) ==
    /\ open /\ news[n] # <<>>
    /\ wire' = set(wire, other(n), Append(wire[other(n)], inv_block(<<Head(news[n])>>)))
    /\ news' = set(news, n, Tail(news[n]))
    /\ UNCHANGED <<has, tip, queueVars, hello, out, readerVars, continuationBlockID, open>>

blockFromElsewhere(n, b) ==
    /\ b \in Elsewhere[n] \ has[n] /\ Previous[b] \in has[n]
    /\ processBlock(n, b, TRUE)
    /\ UNCHANGED <<queueVars, hello, out, wire, readerVars, continuationBlockID, open>>

reader(n) ==
    \/ onInv(n) \/ onInvBlock(n) \/ onBlock(n) \/ onFindCommonAncestor(n)
    \/ listing(n) \/ getBlock(n) \/ tellTip(n)

Init ==
    /\ tip \in Starts
    /\ has = [n \in Node |-> Range(Branch[tip[n]])]
    /\ hello = [n \in Node |-> TRUE]
    /\ news = [n \in Node |-> <<>>]
    /\ out = [n \in Node |-> <<>>]
    /\ wire = [n \in Node |-> <<>>]
    /\ pc = [n \in Node |-> "read"]
    /\ ids = [n \in Node |-> <<>>] /\ at = [n \in Node |-> 0]
    /\ continuationBlockID = [n \in Node |-> Nil]
    /\ download = [n \in Node |-> <<>>] /\ inflight = [n \in Node |-> <<>>]
    /\ open = TRUE

Next ==
    \/ \E n \in Node : reader(n) \/ onConnect(n) \/ send(n) \/ announce(n)
    \/ \E n \in Node, b \in Block : blockFromElsewhere(n, b)

\* The goroutines run. Nobody else has to send a block.
Spec ==
    /\ Init /\ [][Next]_vars
    /\ \A n \in Node : /\ WF_vars(reader(n)) /\ WF_vars(onConnect(n))
                       /\ WF_vars(send(n)) /\ WF_vars(announce(n))

-----------------------------------------------------------------------------
(* Properties *)

TypeOK ==
    /\ open \in BOOLEAN
    /\ \A n \in Node :
          /\ tip[n] \in has[n] /\ has[n] \subseteq Block
          /\ \A b \in has[n] \ {Genesis} : Previous[b] \in has[n]
          /\ Len(inflight[n]) <= inflightQueueMax /\ Len(download[n]) <= downloadQueueMax
          /\ continuationBlockID[n] \in Block \cup {Nil}

\* Two nodes that run this code never send each other a block that is not the
\* next one in flight ("disconnect misbehaving peer", peer.go, onBlock), and every
\* block in flight is answered: its request or the block itself is under way, in
\* the order of the queue, so no block waits behind one that will not come.
InflightIsUnderWay ==
    open /\ \A n \in Node :
        LET o == other(n)
            ofType(t, messages) == SelectSeq(messages, LAMBDA m : m.type = t)
            route == ofType("block", wire[n] \o out[o]) \o ofType("get_block", wire[o] \o out[n])
        IN  inflight[n] = [i \in DOMAIN route |-> Head(route[i].ids)]

\* The exchange comes to an end with equally good chains on both sides,
\* however far apart they were and whatever arrives from elsewhere meanwhile.
ChainsConverge == <>[](\A n, o \in Node : Height[tip[n]] = Height[tip[o]])

\* It does come to an end: no question is answered with what leads to the
\* same question again.
ExchangeEnds == <>[](\A n \in Node : wire[n] = <<>> /\ out[n] = <<>>)
=============================================================================
