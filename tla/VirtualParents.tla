--------------------------- MODULE VirtualParents ---------------------------
(***************************************************************************)
(* The choice of the virtual block's parents (consensusstatemanager's      *)
(* pick_virtual_parents.go), and the finality point and the merge depth    *)
(* root it depends on.  The pruning point is genesis.                      *)
(***************************************************************************)
EXTENDS Ghostdag

CONSTANTS
    FinalityDepth,      \* finalityDepth, in blue score
    MergeDepth,         \* mergeDepth, in blue score
    MergeSetSizeLimit   \* mergeSetSizeLimit: the most blocks a block merges

ASSUME DepthAssumption == FinalityDepth \in Nat \ {0} /\ MergeDepth \in Nat \ {0}
ASSUME LimitAssumption == MergeSetSizeLimit \in Nat \ {0}

\* Blocks from the heaviest to the lightest.
Decreasing(d, bs) == Reverse(Increasing(d, bs))

Children(d, b) == {c \in Known(d) : b \in d.parents[c]}

-----------------------------------------------------------------------------
(* The finality point and the merge depth root.                            *)

\* calculateFinalityPoint and calculateMergeDepthRoot for a block with GHOSTDAG
\* data g: from the point of the selected parent, up the chain while the next
\* chain block has less than the required blue score.
RECURSIVE DepthPoint(_, _, _)
DepthPoint(d, g, depth) ==
    IF g.blueScore < depth \/ g.selectedParent = Genesis THEN Genesis
    ELSE LET start == DepthPoint(d, d.data[g.selectedParent], depth)
             below == {c \in SelectedChain(d, g.selectedParent) :
                          d.data[c].blueScore < g.blueScore - depth /\ IsAncestorOf(d, start, c)}
         IN  IF below = {} THEN start ELSE ChooseSelectedParent(d, below)

FinalityPoint(d, g) == DepthPoint(d, g, FinalityDepth)

MergeDepthRoot(d, g) == DepthPoint(d, g, MergeDepth)

\* isViolatingFinality that asks whether the finality point is in the past.
IsViolatingFinality_AnyPast(d, v, b) == ~ IsAncestorOf(d, FinalityPoint(d, v), b)

\* isViolatingFinality, where virtual has GHOSTDAG data v.
IsViolatingFinality(d, v, b) == FinalityPoint(d, v) \notin SelectedChain(d, b)

\* Merge depth that is not bounded.
BreakingReds_None(d, g, root) == {}

\* The reds that break the bounded merge depth of a block with data g: not in
\* the future of its merge depth root, and not below a blue that is on a chain
\* through the root (CheckBoundedMergeDepth, boundedMergeBreakingParents).  The
\* virtual genesis, here NoBlock, is below every block.
BreakingReds(d, g, root) ==
    LET kosherizing == {b \in ToSet(g.mergeSetBlues) : root \in SelectedChain(d, b)}
    IN  {r \in ToSet(g.mergeSetReds) : /\ root # NoBlock
                                       /\ ~ IsAncestorOf(d, root, r)
                                       /\ \A b \in kosherizing : ~ IsAncestorOf(d, r, b)}

BadReds(d, g) == BreakingReds(d, g, MergeDepthRoot(d, g))

-----------------------------------------------------------------------------
(* Picking.                                                                *)

\* selectVirtualSelectedParent: pop the heaviest candidate until one is valid;
\* a parent all of whose children were popped becomes a candidate.
RECURSIVE SelectVirtualSelectedParent(_, _, _, _)
SelectVirtualSelectedParent(d, status, heap, popped) ==
    LET top == ChooseSelectedParent(d, heap)
        gone == popped \cup {top}
    IN  IF status[top] = "Valid" THEN [selected |-> top, heap |-> heap \ {top}]
        ELSE SelectVirtualSelectedParent(d, status,
                 (heap \ {top}) \cup {p \in d.parents[top] : Children(d, p) \subseteq gone}, gone)

\* The candidates in the order they are tried: half of the parents from the
\* heavy end, half from the light end.
Prioritized(cs) ==
    LET max == MaxBlockParents - 1
        RECURSIVE Swap(_, _)
        Swap(s, i) == IF i >= max THEN s
                      ELSE LET end == Len(s) - (i - max \div 2)
                           IN  Swap([s EXCEPT ![i + 1] = s[end], ![end] = s[i + 1]], i + 1)
    IN  IF Len(cs) >= MaxBlockParents THEN Swap(cs, max \div 2) ELSE cs

\* mergeSetIncrease: the walk down from a candidate.  A header lists its
\* parents in hash order.
RECURSIVE MergeSetIncrease(_, _, _, _, _, _)
MergeSetIncrease(d, selected, size, queue, visited, increase) ==
    IF queue = << >> THEN [canBeParent |-> TRUE, increase |-> increase]
    ELSE LET current == Head(queue)
             new == d.parents[current] \ visited
         IN  IF \E s \in selected : IsAncestorOf(d, current, s)
             THEN MergeSetIncrease(d, selected, size, Tail(queue), visited, increase)
             ELSE IF size + increase + 1 > MergeSetSizeLimit
             THEN [canBeParent |-> FALSE, newCandidate |-> current]
             ELSE MergeSetIncrease(d, selected, size, Tail(queue) \o SetToSortSeq(new, <),
                                   visited \cup new, increase + 1)

\* The loop over the candidates.
RECURSIVE TryCandidates(_, _, _, _)
TryCandidates(d, selected, size, cs) ==
    IF size >= MergeSetSizeLimit \/ cs = << >> \/ Cardinality(selected) >= MaxBlockParents
    THEN selected
    ELSE LET parents == d.parents[Head(cs)]
             r == MergeSetIncrease(d, selected, size, SetToSortSeq(parents, <), parents, 1)
         IN  IF r.canBeParent
             THEN TryCandidates(d, selected \cup {Head(cs)}, size + r.increase, Tail(cs))
             ELSE IF \E c \in ToSet(Tail(cs)) : IsAncestorOf(d, c, r.newCandidate)
             THEN TryCandidates(d, selected, size, Tail(cs))
             ELSE TryCandidates(d, selected, size,
                      Append(SelectSeq(Tail(cs), LAMBDA c : ~ IsAncestorOf(d, r.newCandidate, c)),
                             r.newCandidate))

\* pickVirtualParents before it drops parents.
PickCandidates(d, status, tips) ==
    LET s == SelectVirtualSelectedParent(d, status, tips, {})
        heaviest == Decreasing(d, s.heap)
        cs == SubSeq(heaviest, 1, Min({3 * MaxBlockParents, Len(heaviest)}))
    IN  TryCandidates(d, {s.selected}, 1, Prioritized(cs))

\* boundedMergeBreakingParents that drops no parent.
WithoutBreaking_KeepsAll(d, picked, badReds) == picked

\* The parents that boundedMergeBreakingParents does not name.
WithoutBreaking(d, picked, badReds) ==
    {p \in picked : \A r \in badReds : ~ IsAncestorOf(d, r, p)}

\* pickVirtualParents.
PickVirtualParents(d, status, tips) ==
    LET picked == PickCandidates(d, status, tips)
    IN  WithoutBreaking(d, picked, BadReds(d, GHOSTDAG(d, picked)))
=============================================================================
