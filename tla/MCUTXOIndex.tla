---------------------------- MODULE MCUTXOIndex -----------------------------
(* Three outpoints of two scripts; the sets differ in outpoints and in the  *)
(* DAA score of one.                                                        *)
EXTENDS UTXOIndex, TLC

MCScript == <<"s", "s", "t">>
MCAmount == <<1, 2, 1>>
MCVirtualSets == {<< >>, 1 :> 1 @@ 3 :> 1, 1 :> 2 @@ 2 :> 1, 1 :> 1 @@ 2 :> 1 @@ 3 :> 2}
=============================================================================
