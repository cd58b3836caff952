--------------------------- MODULE MCBlockStorage ---------------------------
(***************************************************************************)
(* Instances of BlockStorage: a fork with branches of two and of one block.*)
(***************************************************************************)
EXTENDS BlockStorage

MCPrevious == [b \in 1..3 |-> IF b = 2 THEN 1 ELSE 0]
=============================================================================
