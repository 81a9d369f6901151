------------------------------ MODULE Ghostdag ------------------------------
(***************************************************************************)
(* GHOSTDAG (processes/ghostdagmanager): the selected parent, the blue and *)
(* red merge set, the blue score and the blue work of every block of a     *)
(* growing DAG.                                                            *)
(*                                                                         *)
(* A block is its hash, a natural number; hash order is number order, and  *)
(* blocks may arrive in any order their parents allow.  Ancestry, which    *)
(* the code asks the reachability manager for, is kept as the past of each *)
(* block, and so is the chain that following selected parents gives.       *)
(***************************************************************************)
EXTENDS Naturals, Integers, Sequences, FiniteSets, SequencesExt, FiniteSetsExt

CONSTANTS
    Blocks,         \* block hashes
    Genesis,        \* the genesis block
    K,              \* the bound on the blue anticone of a blue block
    Work,           \* Work[b]: CalcWork of the bits of block b
    MaxBlockParents \* the most parents a block may have

ASSUME BlocksAssumption == Genesis \in Blocks /\ Blocks \subseteq Nat
ASSUME KAssumption == K \in Nat
ASSUME WorkAssumption == \A b \in Blocks : Work[b] \in Nat \ {0}

NoBlock == -1
NoSize == -1

Known(d) == DOMAIN d.parents

\* dagTopologyManager.IsAncestorOf is reflexive.
IsAncestorOf(d, a, b) == a = b \/ a \in d.past[b]

InAnticone(d, a, b) == ~ IsAncestorOf(d, a, b) /\ ~ IsAncestorOf(d, b, a)

PastOf(d, ps) == ps \cup UNION {d.past[p] : p \in ps}

SelectedParent(d, b) == d.data[b].selectedParent

\* Blue work first, the larger hash on a tie.
Less(d, a, b) ==
    \/ d.data[a].blueWork < d.data[b].blueWork
    \/ d.data[a].blueWork = d.data[b].blueWork /\ a < b

\* Blocks from the lightest to the heaviest.
Increasing(d, bs) ==
    [i \in 1 .. Cardinality(bs) |-> CHOOSE b \in bs : Cardinality({a \in bs : Less(d, a, b)}) = i - 1]

ChooseSelectedParent(d, ps) == CHOOSE p \in ps : \A q \in ps \ {p} : Less(d, q, p)

\* The selected parent chain of b, b included, down to genesis.
SelectedChain(d, b) == d.chain[b]

\* mergeSetWithoutSelectedParent: the breadth-first walk over the parents that
\* stops at the past of the selected parent, sorted by Less.
MergeSetWithoutSelectedParent(d, ps) ==
    LET sp == ChooseSelectedParent(d, ps)
        anticone == {b \in PastOf(d, ps) : ~ IsAncestorOf(d, b, sp)}
    IN  Increasing(d, anticone)

-----------------------------------------------------------------------------
(* ghostdagmanager: colouring the merge set.                               *)

\* The blue anticone size of blue block b from the view of GHOSTDAG data g:
\* the nearest entry down the selected chain.
BlueAnticoneSize(d, g, b) ==
    LET holders == {c \in SelectedChain(d, g.selectedParent) : b \in DOMAIN d.data[c].bluesAnticoneSizes}
        nearest == CHOOSE c \in holders : holders \subseteq SelectedChain(d, c)
    IN  IF b \in DOMAIN g.bluesAnticoneSizes THEN g.bluesAnticoneSizes[b]
        ELSE IF holders = {} THEN NoSize
        ELSE d.data[nearest].bluesAnticoneSizes[b]

\* The blues that checkBlueCandidate meets and that are not in the past of the
\* candidate: those of the new block and of its chain blocks, down to the first
\* chain block that is an ancestor of the candidate.
BluesInAnticone(d, g, candidate) ==
    LET chain == {c \in SelectedChain(d, g.selectedParent) : ~ IsAncestorOf(d, c, candidate)}
        blues == ToSet(g.mergeSetBlues)
                   \cup UNION {ToSet(d.data[c].mergeSetBlues) : c \in chain}
    IN  {b \in blues : ~ IsAncestorOf(d, b, candidate)}

\* checkBlueCandidate that compares with K + 1 throughout.
CheckBlueCandidate_OffByOne(d, g, candidate) ==
    LET anticone == BluesInAnticone(d, g, candidate)
    IN  /\ Len(g.mergeSetBlues) # K + 2
        /\ Cardinality(anticone) <= K + 1
        /\ \A b \in anticone : BlueAnticoneSize(d, g, b) # K + 1

CheckBlueCandidate(d, g, candidate) ==
    LET anticone == BluesInAnticone(d, g, candidate)
    IN  /\ Len(g.mergeSetBlues) # K + 1
        /\ Cardinality(anticone) <= K
        /\ \A b \in anticone : BlueAnticoneSize(d, g, b) # K

\* A blue of the new block counts for its blue score and its blue work.
WithBlue(g, b) == [g EXCEPT !.mergeSetBlues = Append(@, b),
                            !.blueScore = @ + 1,
                            !.blueWork = @ + Work[b]]

\* The sizes of g with the candidate among the blues.
RaisedSizes(d, g, candidate) ==
    LET anticone == BluesInAnticone(d, g, candidate)
    IN  [b \in DOMAIN g.bluesAnticoneSizes \cup anticone \cup {candidate} |->
            IF b \in anticone THEN BlueAnticoneSize(d, g, b) + 1
            ELSE IF b = candidate THEN Cardinality(anticone)
            ELSE g.bluesAnticoneSizes[b]]

Colour(d, g, candidate) ==
    IF CheckBlueCandidate(d, g, candidate)
    THEN [WithBlue(g, candidate) EXCEPT !.bluesAnticoneSizes = RaisedSizes(d, g, candidate)]
    ELSE [g EXCEPT !.mergeSetReds = Append(@, candidate)]

\* The data a block starts with: its selected parent is blue, and it takes over
\* the score and the work of it.
Uncoloured(d, sp) ==
    WithBlue([selectedParent     |-> sp,
              mergeSetBlues      |-> << >>,
              mergeSetReds       |-> << >>,
              bluesAnticoneSizes |-> [b \in {sp} |-> 0],
              blueScore          |-> d.data[sp].blueScore,
              blueWork           |-> d.data[sp].blueWork], sp)

\* The blocks of the merge set are coloured one after the other.
ColourAll(d, sp, mergeSet) ==
    LET coloured[i \in 0 .. Len(mergeSet)] ==
            IF i = 0 THEN Uncoloured(d, sp) ELSE Colour(d, coloured[i - 1], mergeSet[i])
    IN  coloured[Len(mergeSet)]

\* GHOSTDAG: the data of a block with parents ps.
GHOSTDAG(d, ps) == ColourAll(d, ChooseSelectedParent(d, ps), MergeSetWithoutSelectedParent(d, ps))

GenesisData == [selectedParent     |-> NoBlock,
                mergeSetBlues      |-> << >>,
                mergeSetReds       |-> << >>,
                bluesAnticoneSizes |-> [b \in {} |-> 0],
                blueScore          |-> 0,
                blueWork           |-> 0]

-----------------------------------------------------------------------------
(* The DAG.                                                                *)

\* GetSortedMergeSet that appends the reds instead of merging them.
GetSortedMergeSet_BluesThenReds(d, g) ==
    IF g.selectedParent = NoBlock THEN << >> ELSE g.mergeSetBlues \o g.mergeSetReds

\* Blues and reds of b, merged by Less, behind its selected parent.
GetSortedMergeSet(d, g) ==
    IF g.selectedParent = NoBlock THEN << >>
    ELSE LET others == (ToSet(g.mergeSetBlues) \cup ToSet(g.mergeSetReds)) \ {g.selectedParent}
         IN  <<g.selectedParent>> \o Increasing(d, others)

WithEntry(f, b, value) == [a \in DOMAIN f \cup {b} |-> IF a = b THEN value ELSE f[a]]

WithBlock(d, b, ps, g) ==
    [parents |-> WithEntry(d.parents, b, ps),
     past    |-> WithEntry(d.past, b, PastOf(d, ps)),
     chain   |-> WithEntry(d.chain, b, {b} \cup d.chain[g.selectedParent]),
     data    |-> WithEntry(d.data, b, g)]

\* Parents a header may name: known, not more than the limit, none the ancestor
\* of another (checkBlockParentsExist, checkParentsIncest).
LegalParents(d) ==
    {ps \in UNION {kSubset(n, Known(d)) : n \in 1 .. MaxBlockParents} :
        \A p, q \in ps : p = q \/ InAnticone(d, p, q)}

InitDag == [parents |-> [b \in {Genesis} |-> {}],
            past    |-> [b \in {Genesis} |-> {}],
            chain   |-> [b \in {Genesis} |-> {Genesis}],
            data    |-> [b \in {Genesis} |-> GenesisData]]
=============================================================================
