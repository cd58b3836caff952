-------------------------- MODULE MCBlockDownload ---------------------------
(***************************************************************************)
(* Small instances of BlockDownload: a chain of three blocks on the        *)
(* genesis block, and a block on the first of them.                        *)
(***************************************************************************)
EXTENDS BlockDownload, TLC

MCBlock == 0..3
MCPrevious == [b \in 1..3 |-> CASE b = 1 -> 0 [] b = 2 -> 1 [] b = 3 -> 1]
=============================================================================
