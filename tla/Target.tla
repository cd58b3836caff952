------------------------------- MODULE Target -------------------------------
(***************************************************************************)
(* The rules for a block's target, chain work and time (processor.go,      *)
(* acceptBlock, and block.go), over a tree of headers that grows by valid  *)
(* blocks at any place in it. The constants are scaled down with the       *)
(* relations between them kept.                                            *)
(***************************************************************************)
EXTENDS Integers, Sequences, SequencesExt, FiniteSetsExt, Functions

CONSTANTS
    RETARGET_INTERVAL,      \* 2016 blocks
    TARGET_SPACING,         \* 600 seconds
    RETARGET_SMA_WINDOW,    \* 144 blocks
    BITCOIN_CASH_RETARGET_ALGORITHM_HEIGHT,    \* 28861
    NUM_BLOCKS_FOR_MEDIAN_TMESTAMP,            \* 11
    INITIAL_TARGET,
    TwoTo256,
    Times,                  \* the times that blocks may have
    MaxBlocks,              \* bound on the tree
    MaxFork                 \* on the length of a side branch when it is extended

ASSUME TargetAssumption ==
    /\ {RETARGET_INTERVAL, TARGET_SPACING, RETARGET_SMA_WINDOW, INITIAL_TARGET,
        NUM_BLOCKS_FOR_MEDIAN_TMESTAMP} \subseteq Nat \ {0}
    /\ {TwoTo256, MaxBlocks, MaxFork} \subseteq Nat
    /\ Times \subseteq Nat
    /\ BITCOIN_CASH_RETARGET_ALGORITHM_HEIGHT >= RETARGET_SMA_WINDOW

RETARGET_TIME == RETARGET_INTERVAL * TARGET_SPACING

VARIABLES
    headers,    \* all headers stored, in order
    tip         \* the tip of the main chain

vars == <<headers, tip>>

-----------------------------------------------------------------------------
(* The tree *)

\* The n-th ancestor of b.
Ancestor(b, n) ==
    LET up[i \in 0..n] == IF i = 0 THEN b ELSE headers[up[i - 1]].previous
    IN  up[n]

Branch(b) == {Ancestor(b, n) : n \in 0..headers[b].height}

\* GetBlockIDForHeight: of the main chain; 0 if there is none.
GetBlockIDForHeight(h) ==
    IF h > headers[tip].height THEN 0 ELSE Ancestor(tip, headers[tip].height - h)

-----------------------------------------------------------------------------
(* The rules *)

computeBlockWork(target) == IF target <= 0 THEN 0 ELSE TwoTo256 \div (target + 1)

computeChainWork(target, chainWork) == chainWork + computeBlockWork(target)

between(low, x, high) == IF x < low THEN low ELSE IF x > high THEN high ELSE x

\* Mutant: an interval is measured from its own first block.
actualTimespanOpen(prev) ==
    headers[prev].time - headers[Ancestor(prev, RETARGET_INTERVAL - 1)].time

\* "defend against time warp attack": an interval is measured from the last block
\* of the one before.
actualTimespan(prev) ==
    LET blocksToGoBack == IF headers[prev].height + 1 # RETARGET_INTERVAL THEN RETARGET_INTERVAL
                          ELSE RETARGET_INTERVAL - 1
    IN  headers[prev].time - headers[Ancestor(prev, blocksToGoBack)].time

isRetarget(prev) == (headers[prev].height + 1) % RETARGET_INTERVAL = 0

computeTargetBitcoin(prev) ==
    LET timespan == between(RETARGET_TIME \div 4, actualTimespan(prev), 4 * RETARGET_TIME)
        target == (headers[prev].target * timespan) \div RETARGET_TIME
    IN  IF ~isRetarget(prev) THEN headers[prev].target ELSE between(0, target, INITIAL_TARGET)

\* The target after prev, with the first block of the window given.
averageTarget(prev, first) ==
    LET timespan == between((RETARGET_SMA_WINDOW \div 2) * TARGET_SPACING,
                            headers[prev].time - headers[first].time,
                            2 * RETARGET_SMA_WINDOW * TARGET_SPACING)
        work == ((headers[prev].chainWork - headers[first].chainWork) * TARGET_SPACING) \div timespan
    IN  between(0, TwoTo256 \div work - 1, INITIAL_TARGET)


\* The first block of the window is looked up in the main chain.
firstID(prev) == GetBlockIDForHeight(headers[prev].height - RETARGET_SMA_WINDOW)

computeTargetBitcoinCash(prev) == averageTarget(prev, firstID(prev))

computeTarget(prev) ==
    IF headers[prev].height >= BITCOIN_CASH_RETARGET_ALGORITHM_HEIGHT
    THEN computeTargetBitcoinCash(prev) ELSE computeTargetBitcoin(prev)

\* The times of the last blocks up to prev.
timestamps(prev) ==
    LET n == Min({NUM_BLOCKS_FOR_MEDIAN_TMESTAMP, headers[prev].height + 1})
    IN  [i \in 1..n |-> headers[Ancestor(prev, i - 1)].time]

\* Mutant: the times are not sorted.
computeMedianTimestampRaw(prev) == timestamps(prev)[Len(timestamps(prev)) \div 2 + 1]

computeMedianTimestamp(prev) ==
    SortSeq(timestamps(prev), <)[Len(timestamps(prev)) \div 2 + 1]

\* Compare: most work, then first stored.
Compare(a, b) ==
    \/ headers'[a].chainWork > headers'[b].chainWork
    \/ headers'[a].chainWork = headers'[b].chainWork /\ a < b

-----------------------------------------------------------------------------
Genesis == [previous |-> 0, height |-> 0, time |-> 0, target |-> INITIAL_TARGET,
            chainWork |-> computeBlockWork(INITIAL_TARGET)]

Init == headers = <<Genesis>> /\ tip = 1

acceptBlock(prev, time) ==
    LET target == computeTarget(prev)
    IN  /\ Len(headers) < MaxBlocks
        /\ Cardinality(Branch(prev) \ Branch(tip)) <= MaxFork
        /\ time > computeMedianTimestamp(prev)
        /\ headers' = Append(headers,
               [previous |-> prev, height |-> headers[prev].height + 1, time |-> time,
                target |-> target,
                chainWork |-> computeChainWork(target, headers[prev].chainWork)])
        /\ tip' = IF Compare(Len(headers'), tip) THEN Len(headers') ELSE tip

Next == \E prev \in DOMAIN headers, time \in Times : acceptBlock(prev, time)

Spec == Init /\ [][Next]_vars

-----------------------------------------------------------------------------
(* Properties *)

\* The time that a block has to exceed never falls along a branch, whatever the
\* clocks of the miners show.
MedianNeverFalls ==
    \A b \in DOMAIN headers :
        b # 1 => computeMedianTimestamp(b) >= computeMedianTimestamp(headers[b].previous)

\* The timespans that retargets are computed from cover a branch without a gap
\* ("defend against time warp attack"): they add up to the time it took.
TimespansAddUp ==
    \A b \in DOMAIN headers :
        LET prevs == {p \in Branch(b) : isRetarget(p)}
        IN  prevs # {} =>
                MapThenSumSet(actualTimespan, prevs) =
                    headers[Max(prevs)].time - headers[1].time

=============================================================================
