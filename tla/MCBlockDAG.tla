----------------------------- MODULE MCBlockDAG -----------------------------
(* BlockDAG on seven blocks beside genesis, one of them heavier, which     *)
(* arrive neither in hash order nor against it.                            *)
EXTENDS BlockDAG

MCBlocks == 0 .. 7
MCWork == [b \in MCBlocks |-> IF b = 2 THEN 3 ELSE 1]
MCArrival == <<4, 1, 6, 2, 7, 5, 3>>
=============================================================================
