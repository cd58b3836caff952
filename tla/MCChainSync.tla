---------------------------- MODULE MCChainSync -----------------------------
(***************************************************************************)
(* Small instances of ChainSync. Blocks 1, 2, ... are one branch on the    *)
(* genesis block 0, blocks 11, 12, ... another.                            *)
(***************************************************************************)
EXTENDS ChainSync, TLC

CONSTANTS n1, n2

MCBlock == 0..5 \cup 11..13
MCPrevious == [x \in MCBlock \ {0} |-> IF x = 11 THEN 0 ELSE x - 1]
MCHeight == [x \in MCBlock |-> x % 10]

\* Node n1 is on a branch of its own, far behind; or has nothing, while n2 changes
\* over to another branch as it answers.
MCStarts == {(n1 :> 12 @@ n2 :> 5), (n1 :> 0 @@ n2 :> 2)}
MCElsewhere == (n1 :> {} @@ n2 :> {11, 12, 13})
=============================================================================
