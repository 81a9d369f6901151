----------------------------- MODULE MCPruning -----------------------------
EXTENDS Pruning
MCBlocks == 0 .. 10
MCWork == [b \in MCBlocks |-> IF b = 5 THEN 2 ELSE 1]
=============================================================================
