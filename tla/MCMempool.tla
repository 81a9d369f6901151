----------------------------- MODULE MCMempool -----------------------------
(***************************************************************************)
(* Four transactions: 2 and 3 spend the output of 1, and 3 and 4 a second  *)
(* coin; so 2 and 3 conflict, and 3 and 4.                                 *)
(***************************************************************************)
EXTENDS Mempool

MCTxs == 1 .. 4
MCOutpoints == {"a", "b", "o1", "o2", "o3", "o4"}
MCInputs == <<<<"a">>, <<"o1">>, <<"b", "o1">>, <<"b">>>>
MCOutputs == <<<<"o1">>, <<"o2">>, <<"o3">>, <<"o4">>>>
MCCoins == {"a", "b"}
MCFee == <<1, 2, 4, 1>>
MCSubmissions == {<<1, TRUE>>, <<2, TRUE>>, <<3, FALSE>>, <<4, TRUE>>}
MCMass == <<1, 1, 1, 2>>
=============================================================================
