------------------------------ MODULE PastUTXO ------------------------------
(***************************************************************************)
(* The UTXO set and the verdict of a block.                                *)
(*                                                                         *)
(* First the reference: what a block's past UTXO set is, computed on whole *)
(* sets from the DAG alone, as a block's header commits to it.             *)
(*                                                                         *)
(* Then what calculate_past_utxo.go and verify_and_build_utxo.go compute:  *)
(* diffs over the virtual UTXO set, the multiset of the selected parent    *)
(* updated with the accepted transactions, and the comparison of both with *)
(* the header.                                                             *)
(*                                                                         *)
(* A transaction has one output, named by the transaction; the coinbase    *)
(* output of a block is named by the block, and genesis has none.  DAA     *)
(* scores are those of a difficulty window that holds every block.         *)
(***************************************************************************)
EXTENDS VirtualParents, UTXODiff

CONSTANTS
    Txs,                \* transactions
    Spends,             \* Spends[t]: the outpoints transaction t spends
    Payload,            \* Payload[b]: the transactions of block b, in order
    InitialUTXOs,       \* the UTXO set of genesis: outpoints with DAA score 0
    CoinbaseMaturity    \* blockCoinbaseMaturity

ASSUME OutpointsAssumption == (Blocks \ {Genesis}) \cup Txs \cup InitialUTXOs \subseteq Outpoints
ASSUME SpendsAssumption == \A t \in Txs : Spends[t] \subseteq Outpoints /\ Spends[t] # {}
ASSUME PayloadAssumption == \A b \in Blocks : \A i \in DOMAIN Payload[b] : Payload[b][i] \in Txs

InitialUTXOSet == [o \in Outpoints |-> IF o \in InitialUTXOs THEN 0 ELSE NoEntry]

\* A coinbase output can be spent from this DAA score on.
IsMature(o, entry, daaScore) == o \in Blocks => entry + CoinbaseMaturity <= daaScore

\* calculateDaaScoreAndAddedBlocks, with a window that holds every block but
\* genesis.
DAAScore(d, g) ==
    d.header[g.selectedParent].daaScore
        + Cardinality((ToSet(g.mergeSetBlues) \cup ToSet(g.mergeSetReds)) \ {Genesis})

-----------------------------------------------------------------------------
(* Reference: the header of a block, which commits to the UTXO set of its  *)
(* past and to the transactions its merge set brings, by their hashes in   *)
(* the code and by the sets themselves here.                               *)

RefCanSpend(set, t, daaScore) ==
    \A o \in Spends[t] : HasEntry(set, o) /\ IsMature(o, set[o], daaScore)

RefAccept(r, t) ==
    IF RefCanSpend(r.pastUTXO, t, r.daaScore)
    THEN [r EXCEPT !.pastUTXO = (t :> r.daaScore) @@ [o \in Spends[t] |-> NoEntry] @@ @,
                   !.accepted = @ \cup {t}]
    ELSE r

\* The header of a block with GHOSTDAG data g.  Its past UTXO set is that of its
\* selected parent, the selected parent's coinbase, and what can be spent of
\* the transactions of its merge set, in order.
Header(d, g) ==
    LET score == DAAScore(d, g)
        sp == g.selectedParent
        below == d.header[sp].pastUTXO
        start == [daaScore |-> score, accepted |-> {},
                  pastUTXO |-> IF sp = Genesis THEN below ELSE (sp :> score) @@ below]
        mergeSet == GetSortedMergeSet(d, g)
        txs == FlattenSeq([i \in DOMAIN mergeSet |-> Payload[mergeSet[i]]])
    IN  FoldLeft(RefAccept, start, txs)

PastUTXO(d, b) == d.header[b].pastUTXO

\* A block is UTXO valid when it spends outputs of its past UTXO set and its
\* selected parent is valid.
RECURSIVE RefValid(_, _)
RefValid(d, b) ==
    b # Genesis =>
        /\ \A t \in ToSet(Payload[b]) :
               RefCanSpend(PastUTXO(d, b), t, d.header[b].daaScore)
        /\ RefValid(d, SelectedParent(d, b))

\* The DAG with a block of parents ps.
WithBody(d, b, ps) ==
    LET g == GHOSTDAG(d, ps)
    IN  [header |-> (b :> Header(d, g)) @@ d.header] @@ WithBlock(d, b, ps, g)

InitDagWithBody ==
    [header |-> Genesis :> [daaScore |-> 0, accepted |-> {}, pastUTXO |-> InitialUTXOSet]] @@ InitDag

-----------------------------------------------------------------------------
(* The computation.  The MuHash of a UTXO set is the product of its        *)
(* elements: here, the elements with an odd exponent.                      *)

MultisetOf(set) == {<<o, set[o]>> : o \in {x \in Outpoints : HasEntry(set, x)}}

Toggle(multiset, elements) == (multiset \ elements) \cup (elements \ multiset)

\* populateTransactionWithUTXOEntriesFromVirtualOrDiff: the entries that the
\* inputs of t spend.
Inputs(set, diff, t) ==
    [o \in Outpoints |-> IF o \in Spends[t] THEN Lookup(set, diff, o) ELSE NoEntry]

CanSpend(set, diff, t, daaScore) ==
    \A o \in Spends[t] : LET entry == Inputs(set, diff, t)[o]
                         IN  entry # NoEntry /\ IsMature(o, entry, daaScore)

Outputs(t, daaScore) == [o \in Outpoints |-> IF o = t THEN daaScore ELSE NoEntry]

\* The same diff: TLC computes a collection that is built with @@ once, and one
\* that is a function expression at every use.
Stored(diff) == [toAdd |-> diff.toAdd @@ diff.toAdd, toRemove |-> diff.toRemove @@ diff.toRemove]

\* AddTransaction to the accumulated diff, and addTransactionToMultiset.
Add(a, ins, outs) ==
    [diff     |-> Stored(AddTransaction(a.diff, ins, outs)),
     multiset |-> Toggle(Toggle(a.multiset, MultisetOf(ins)), MultisetOf(outs)),
     failed   |-> a.failed \/ AddTransactionFails(a.diff, ins, outs),
     accepted |-> a.accepted]

\* maybeAcceptTransaction that does not see what the diff already spends.
MaybeAcceptTransaction_VirtualOnly(set, a, t, daaScore) ==
    IF CanSpend(set, EmptyDiff, t, daaScore)
    THEN [Add(a, Inputs(set, EmptyDiff, t), Outputs(t, daaScore)) EXCEPT !.accepted = @ \cup {t}]
    ELSE a

MaybeAcceptTransaction(set, a, t, daaScore) ==
    IF CanSpend(set, a.diff, t, daaScore)
    THEN [Add(a, Inputs(set, a.diff, t), Outputs(t, daaScore)) EXCEPT !.accepted = @ \cup {t}]
    ELSE a

\* calculatePastUTXOAndAcceptanceDataWithSelectedParentUTXO: set is the virtual
\* UTXO set, diff the past of the selected parent over it.
CalculatePastUTXO(d, g, set, diff, multiset) ==
    LET score == DAAScore(d, g)
        sp == g.selectedParent
        start == [diff |-> diff, multiset |-> multiset, failed |-> FALSE, accepted |-> {}]
        coinbase == IF sp = Genesis THEN start ELSE Add(start, EmptyCollection, Outputs(sp, score))
        AcceptBlock(a, b) ==
            FoldLeft(LAMBDA x, t : MaybeAcceptTransaction(set, x, t, score), a, Payload[b])
    IN  FoldLeft(AcceptBlock, coinbase, GetSortedMergeSet(d, g))

\* verifyUTXO that looks at the header only.
VerifyUTXO_HeaderOnly(d, b, set, past) ==
    LET header == d.header[b]
    IN  /\ past.multiset = MultisetOf(header.pastUTXO)
        /\ past.accepted = header.accepted

\* verifyUTXO: the UTXO commitment, the accepted ID merkle root, and the
\* block's own transactions against its past.
VerifyUTXO(d, b, set, past) ==
    LET header == d.header[b]
    IN  /\ past.multiset = MultisetOf(header.pastUTXO)
        /\ past.accepted = header.accepted
        /\ \A t \in ToSet(Payload[b]) : CanSpend(set, past.diff, t, header.daaScore)

\* restorePastUTXO: the diffs down the diff children, the last one first.
RECURSIVE RestorePastUTXO(_, _, _)
RestorePastUTXO(diffs, children, b) ==
    IF children[b] = NoBlock THEN [diff |-> diffs[b], failed |-> FALSE]
    ELSE LET r == RestorePastUTXO(diffs, children, children[b])
         IN  [diff   |-> Stored(WithDiff(r.diff, diffs[b])),
              failed |-> r.failed \/ WithDiffFails(r.diff, diffs[b])]
=============================================================================
