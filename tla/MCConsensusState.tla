-------------------------- MODULE MCConsensusState --------------------------
(* ConsensusState on five blocks beside genesis, one of them heavier.      *)
(* Transactions t1 and t2 spend the same coin, t3 spends the output of t1  *)
(* and t4 the coinbase output of block 1.                                  *)
EXTENDS ConsensusState, TLC

CONSTANTS coin, t1, t2, t3, t4

MCBlocks == 0 .. 5
MCWork == [b \in MCBlocks |-> IF b = 3 THEN 2 ELSE 1]
MCTxs == {t1, t2, t3, t4}
MCSpends == t1 :> {coin} @@ t2 :> {coin} @@ t3 :> {t1} @@ t4 :> {1}
MCOutpoints == (MCBlocks \ {0}) \cup MCTxs \cup {coin}
MCScores == 0 .. 6

\* Payloads: a double spend and a chained transaction, in two of them also a
\* spent coinbase, and none at all.
NoTransactions == [b \in MCBlocks |-> << >>]
DoubleSpend == 1 :> <<t1>> @@ 2 :> <<t2>> @@ 3 :> <<t3>> @@ NoTransactions
SpentCoinbase == 4 :> <<t4>> @@ DoubleSpend
=============================================================================
