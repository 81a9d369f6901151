---------------------------- MODULE MCBlockRelay ----------------------------
(***************************************************************************)
(* Two peers and a DAG of seven blocks, a chain with one fork that is      *)
(* merged; the node has the first two.                                     *)
(***************************************************************************)
EXTENDS BlockRelay, TLC

CONSTANTS p1, p2

MCParents == (0 :> {}) @@ (1 :> {0}) @@ (2 :> {1}) @@ (3 :> {1}) @@ (4 :> {2, 3})
             @@ (5 :> {4}) @@ (6 :> {5})
MCPast == (0 :> {}) @@ (1 :> {0}) @@ (2 :> {0, 1}) @@ (3 :> {0, 1}) @@ (4 :> 0 .. 3)
          @@ (5 :> 0 .. 4) @@ (6 :> 0 .. 5)
MCHeight == (0 :> 0) @@ (1 :> 1) @@ (2 :> 2) @@ (3 :> 2) @@ (4 :> 3) @@ (5 :> 4) @@ (6 :> 5)

=============================================================================
