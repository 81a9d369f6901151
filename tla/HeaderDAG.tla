----------------------------- MODULE HeaderDAG ------------------------------
(***************************************************************************)
(* The DAG of headers: it grows one block at a time, in any order that the *)
(* parents allow, and each block keeps the GHOSTDAG data that was computed *)
(* when it arrived.                                                        *)
(***************************************************************************)
EXTENDS Ghostdag

VARIABLE dag    \* parents, past, chain and GHOSTDAG data of every known block

HeaderInit == dag = InitDag

\* The relations of a new header and its GHOSTDAG data are staged.
AddHeader(b, ps) == dag' = WithBlock(dag, b, ps, GHOSTDAG(dag, ps))

HeaderNext == \E b \in Blocks \ Known(dag), ps \in LegalParents(dag) : AddHeader(b, ps)

HeaderSpec == HeaderInit /\ [][HeaderNext]_dag

-----------------------------------------------------------------------------
(* Properties.                                                             *)

BlueSet(d, b) == UNION {ToSet(d.data[c].mergeSetBlues) : c \in SelectedChain(d, b)}

\* The incremental checks of checkBlueCandidate keep the global promise: from
\* the view of every block, every blue block has at most K blue blocks in its
\* anticone, although only the chain down to the candidate's past is walked;
\* and the size that blueAnticoneSize finds down the chain is the true one: the
\* nearest entry of bluesAnticoneSizes is never stale and never missing.
KCluster ==
    \A b \in Known(dag) :
        LET blues == BlueSet(dag, b)
            AnticoneSize(blue) == Cardinality({x \in blues : InAnticone(dag, x, blue)})
        IN  \A blue \in blues :
                /\ AnticoneSize(blue) <= K
                /\ b # Genesis => BlueAnticoneSize(dag, dag.data[b], blue) = AnticoneSize(blue)

\* Every block of the past is merged exactly once and after its ancestors: the
\* merge sets along the selected chain, each as GetSortedMergeSet "return[s] [it]
\* sorted in a toplogical order", partition the past.  So a transaction is
\* considered for acceptance once per inclusion, and after those it spends.
MergeSetsOrderThePast ==
    \A b \in Known(dag) :
        LET chain == SelectedChain(dag, b)
            sorted == [c \in chain |-> GetSortedMergeSet(dag, dag.data[c])]
        IN  /\ UNION {ToSet(sorted[c]) : c \in chain} = dag.past[b]
            /\ \A c, e \in chain : c # e => ToSet(sorted[c]) \cap ToSet(sorted[e]) = {}
            /\ \A i, j \in DOMAIN sorted[b] : i < j => sorted[b][j] \notin dag.past[sorted[b][i]]
=============================================================================
