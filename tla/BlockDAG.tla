------------------------------ MODULE BlockDAG ------------------------------
(***************************************************************************)
(* The header part of block insertion: a DAG of blocks that grows one      *)
(* block at a time, each with the GHOSTDAG data computed when it arrived,  *)
(* the reachability tree over it, and the selected tip and selected chain  *)
(* of the headers.                                                         *)
(***************************************************************************)
EXTENDS HeaderDAG, Reachability

CONSTANT Arrival    \* the order in which the blocks beside genesis arrive

ASSUME ArrivalAssumption == ToSet(Arrival) = Blocks \ {Genesis}

VARIABLES
    tree,                   \* the reachability data
    headersSelectedTip,
    headersSelectedChain    \* the chain store: block by index and index by block

vars == <<dag, tree, headersSelectedTip, headersSelectedChain>>

\* The pruning point stays at genesis while the DAG is this small.
PruningPoint == Genesis

-----------------------------------------------------------------------------
(* The headers selected tip and chain.                                     *)

\* CalculateChainPath: the chain blocks of one tip and of the other, from the
\* first block that is on both chains.
CalculateChainPath(t, d, from, to) ==
    [removed |-> {b \in SelectedChain(d, from) : ~ IsReachabilityTreeAncestorOf(t, b, to)},
     added   |-> {b \in SelectedChain(d, to) : ~ IsReachabilityTreeAncestorOf(t, b, from)}]

\* The chain store when the removed entries are deleted after the added are written.
StageChain_DeleteLast(d, chain, path) ==
    LET base == Cardinality(DOMAIN chain.byIndex) - Cardinality(path.removed)
        added == Increasing(d, path.added)
        addedAt == base .. base + Len(added) - 1
        removedAt == {chain.byHash[b] : b \in path.removed}
        byIndex == [i \in addedAt |-> added[i - base + 1]] @@ chain.byIndex
        byHash == [b \in path.added |-> CHOOSE i \in addedAt : added[i - base + 1] = b] @@ chain.byHash
    IN  [byIndex |-> [i \in DOMAIN byIndex \ removedAt |-> byIndex[i]],
         byHash  |-> [b \in DOMAIN byHash \ path.removed |-> byHash[b]]]

\* Stage and Commit of the chain store: what is removed is deleted by hash and by
\* index, then what is added takes the indices from the first one freed.
StageChain(d, chain, path) ==
    LET base == Cardinality(DOMAIN chain.byIndex) - Cardinality(path.removed)
        added == Increasing(d, path.added)
        addedAt == base .. base + Len(added) - 1
        removedAt == {chain.byHash[b] : b \in path.removed}
    IN  [byIndex |-> [i \in addedAt |-> added[i - base + 1]]
                        @@ [i \in DOMAIN chain.byIndex \ removedAt |-> chain.byIndex[i]],
         byHash  |-> [b \in path.added |-> CHOOSE i \in addedAt : added[i - base + 1] = b]
                        @@ [b \in DOMAIN chain.byHash \ path.removed |-> chain.byHash[b]]]

\* AddHeaderTip, for a block that has the pruning point on its chain.
NewHeadersSelectedTip(t, d, tip, b) ==
    IF IsReachabilityTreeAncestorOf(t, PruningPoint, b) THEN ChooseSelectedParent(d, {tip, b}) ELSE tip

-----------------------------------------------------------------------------

Init ==
    /\ HeaderInit
    /\ tree = AddToTree(EmptyTree, Genesis, GenesisData)
    /\ headersSelectedTip = Genesis
    /\ headersSelectedChain = [byIndex |-> 0 :> Genesis, byHash |-> Genesis :> 0]

\* A block arrives: its GHOSTDAG data is staged, then its reachability data, then
\* it may become the headers selected tip, and then the reindex root follows.
AddBlock(b, ps) ==
    /\ b = Arrival[Cardinality(Known(dag))]
    /\ AddHeader(b, ps)
    /\ \E t \in {AddToTree(tree, b, dag'.data[b])} :
       \E tip \in {NewHeadersSelectedTip(t, dag', headersSelectedTip, b)} :
          /\ headersSelectedTip' = tip
          /\ headersSelectedChain' =
                StageChain(dag', headersSelectedChain, CalculateChainPath(t, dag', headersSelectedTip, tip))
          /\ tree' = IF tip = headersSelectedTip THEN t ELSE UpdateReindexRoot(t, dag', tip)

Next == \E b \in Blocks \ Known(dag), ps \in LegalParents(dag) : AddBlock(b, ps)

Spec == Init /\ [][Next]_vars

-----------------------------------------------------------------------------
(* Properties.                                                             *)

\* IsDAGAncestorOf "returns true if blockHashA is an ancestor of blockHashB in the
\* DAG", whatever reindexing has moved since either was added, and
\* IsReachabilityTreeAncestorOf is the selected chain.  And no reindexing runs out
\* of space ("should only ever happen if there are more than ~2^52 blocks").
ReachabilityIsExact ==
    /\ ~ tree.failed
    /\ \A a, b \in Known(dag) :
          /\ IsDAGAncestorOf(tree, a, b) <=> IsAncestorOf(dag, a, b)
          /\ IsReachabilityTreeAncestorOf(tree, a, b) <=> a \in SelectedChain(dag, b)

\* The chain store holds the selected chain of the headers selected tip, by index
\* and by hash, after every reorganisation, to a longer chain or to a shorter one.
HeadersSelectedChainIsExact ==
    LET chain == headersSelectedChain
        length == Cardinality(SelectedChain(dag, headersSelectedTip))
    IN  /\ DOMAIN chain.byIndex = 0 .. length - 1
        /\ chain.byIndex[length - 1] = headersSelectedTip
        /\ \A i \in 1 .. length - 1 : chain.byIndex[i - 1] = SelectedParent(dag, chain.byIndex[i])
        /\ DOMAIN chain.byHash = SelectedChain(dag, headersSelectedTip)
        /\ \A i \in DOMAIN chain.byIndex : chain.byHash[chain.byIndex[i]] = i
=============================================================================
