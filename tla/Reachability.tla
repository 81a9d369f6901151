---------------------------- MODULE Reachability ----------------------------
(***************************************************************************)
(* The reachability manager (processes/reachabilitymanager): ancestry      *)
(* queries answered from an interval-labelled tree over the selected       *)
(* parents and from one ordered future covering set per block.             *)
(*                                                                         *)
(* A tree t has, for every block, its interval <<start, end>>, its parent, *)
(* its children in order and its future covering set in order; root is the *)
(* reindex root and failed records that an operation returned an error.    *)
(* The functions that the code writes twice, once for the side before a    *)
(* node and once for the side after it, are written once, over the side.   *)
(***************************************************************************)
EXTENDS Ghostdag

CONSTANTS
    Capacity,       \* 2^64 - 1 in the code
    ReindexSlack,   \* the slack kept on both sides of a chain block
    ReindexWindow   \* how far in blue score the reindex root stays behind

ASSUME ReindexAssumption == Capacity \in Nat /\ ReindexSlack \in Nat /\ ReindexWindow \in Nat \ {0}

\* Genesis hangs from the virtual genesis.
VirtualGenesis == NoBlock

Before == "before"
After == "after"

-----------------------------------------------------------------------------
(* Intervals.                                                              *)

Size(iv) == iv[2] - iv[1] + 1

IntervalContains(iv, other) == iv[1] <= other[1] /\ other[2] <= iv[2]

\* An interval moved away from a side, or only its end on that side.
Shift(iv, side, n) == IF side = Before THEN <<iv[1] + n, iv[2] + n>> ELSE <<iv[1] - n, iv[2] - n>>
Shrink(iv, side, n) == IF side = Before THEN <<iv[1] + n, iv[2]>> ELSE <<iv[1], iv[2] - n>>
Grow(iv, side, n) == IF side = Before THEN <<iv[1], iv[2] + n>> ELSE <<iv[1] - n, iv[2]>>

FirstHalf(iv) == <<iv[1], iv[1] + ((Size(iv) + 1) \div 2) - 1>>

SumSeq(s) == FoldSeq(LAMBDA x, sum : x + sum, 0, s)

\* intervalSplitExact: consecutive parts of exactly these sizes.
SplitExact(iv, sizes) ==
    LET start(i) == iv[1] + SumSeq(SubSeq(sizes, 1, i - 1))
    IN  [i \in DOMAIN sizes |-> <<start(i), start(i) + sizes[i] - 1>>]

\* exponentialFractions of the spare space, rounded half up, never more than what
\* is left, the last part taking the rest.
RECURSIVE Biases(_, _, _, _)
Biases(sizes, weights, total, left) ==
    IF sizes = << >> THEN << >>
    ELSE LET bias == IF Len(sizes) = 1 THEN left
                     ELSE Min({left, (2 * total * 2 ^ Head(sizes) + weights) \div (2 * weights)})
         IN  <<Head(sizes) + bias>> \o Biases(Tail(sizes), weights, total, left - bias)

\* intervalSplitWithExponentialBias, for sizes that fit.
SplitWithExponentialBias(iv, sizes) ==
    LET spare == Size(iv) - SumSeq(sizes)
        weights == SumSeq([i \in DOMAIN sizes |-> 2 ^ sizes[i]])
    IN  SplitExact(iv, IF spare = 0 THEN sizes ELSE Biases(sizes, weights, spare, spare))

-----------------------------------------------------------------------------
(* The tree.                                                               *)

Stage(t, b, iv) == [t EXCEPT !.interval[b] = iv]

Fail(t) == [t EXCEPT !.failed = TRUE]

\* A node keeps the last number of its interval for itself.
RangeForChildren(t, b) == Shrink(t.interval[b], After, 1)

\* What is left for children in front of the first child or behind the last.
Remaining(t, b, side) ==
    LET range == RangeForChildren(t, b)
        children == t.children[b]
    IN  IF children = << >> THEN range
        ELSE IF side = Before THEN <<range[1], t.interval[Head(children)][1] - 1>>
        ELSE <<t.interval[Last(children)][2] + 1, range[2]>>

IsReachabilityTreeAncestorOf(t, a, b) == IntervalContains(t.interval[a], t.interval[b])

IsStrictTreeAncestorOf(t, a, b) == a # b /\ IsReachabilityTreeAncestorOf(t, a, b)

\* The binary search of findAncestorIndexOfNode over an ordered set of nodes.
RECURSIVE SearchAncestor(_, _, _, _, _)
SearchAncestor(t, nodes, end, low, high) ==
    IF low >= high THEN low
    ELSE LET middle == (low + high) \div 2
         IN  IF end < t.interval[nodes[middle + 1]][1]
             THEN SearchAncestor(t, nodes, end, low, middle)
             ELSE SearchAncestor(t, nodes, end, middle + 1, high)

\* The position of the only node that can contain b, 0 when there is none.
FindAncestorIndexOfNode(t, nodes, b) == SearchAncestor(t, nodes, t.interval[b][2], 0, Len(nodes))

FindNextAncestor(t, descendant, ancestor) ==
    LET children == t.children[ancestor]
    IN  children[FindAncestorIndexOfNode(t, children, descendant)]

\* The siblings of b on a side, from the nearest to the farthest.
Siblings(t, b, side) ==
    LET children == t.children[t.parent[b]]
        i == CHOOSE j \in DOMAIN children : children[j] = b
    IN  IF side = Before THEN Reverse(SubSeq(children, 1, i - 1))
        ELSE SubSeq(children, i + 1, Len(children))

-----------------------------------------------------------------------------
(* Reindexing below a new child.                                           *)

\* countSubtrees.
RECURSIVE SubtreeSize(_, _)
SubtreeSize(t, b) ==
    1 + SumSeq([i \in DOMAIN t.children[b] |-> SubtreeSize(t, t.children[b][i])])

SubtreeSizes(t, bs) == [i \in DOMAIN bs |-> SubtreeSize(t, bs[i])]

\* propagateInterval: the subtree below b shares the interval of b.
RECURSIVE PropagateInterval(_, _)
PropagateInterval(t, b) ==
    LET children == t.children[b]
        sizes == SubtreeSizes(t, children)
    IN  IF children = << >> THEN t
        ELSE IF SumSeq(sizes) > Size(RangeForChildren(t, b)) THEN Fail(t)
        ELSE LET parts == SplitWithExponentialBias(RangeForChildren(t, b), sizes)
             IN  FoldLeft(LAMBDA u, i : PropagateInterval(Stage(u, children[i], parts[i]), children[i]),
                          t, [i \in DOMAIN children |-> i])

\* offsetSiblingsBefore and offsetSiblingsAfter that leave the siblings on the
\* way to the node where they are.
OffsetSiblings_OnlyTheNode(t, side, node, current, offset) ==
    IF node \in ToSet(Siblings(t, current, side))
    THEN PropagateInterval(Stage(t, node, Grow(t.interval[node], side, offset)), node)
    ELSE t

\* offsetSiblingsBefore, offsetSiblingsAfter: the siblings of current make room
\* on their way to the node that is given the space.
OffsetSiblings(t, side, node, current, offset) ==
    LET siblings == Siblings(t, current, side)
        moved == IF node \in ToSet(siblings)
                 THEN SubSeq(siblings, 1, CHOOSE i \in DOMAIN siblings : siblings[i] = node)
                 ELSE siblings
    IN  FoldLeft(LAMBDA u, s :
                   PropagateInterval(
                     Stage(u, s, IF s = node THEN Grow(u.interval[s], side, offset)
                                 ELSE Shift(u.interval[s], side, offset)), s),
                 t, moved)

\* Down the chain again: every chain block gives its slack, but for the slack that
\* is reserved, to the block below.
RECURSIVE GiveDown(_, _, _, _, _, _)
GiveDown(t, side, node, current, ancestor, reserved) ==
    LET b == t.parent[current]
        offset == Size(Remaining(t, b, side)) - reserved
    IN  IF b = ancestor THEN t
        ELSE GiveDown(OffsetSiblings(Stage(t, b, Shrink(t.interval[b], side, offset)),
                                     side, node, b, offset),
                      side, node, b, ancestor, reserved)

\* reclaimIntervalBefore, reclaimIntervalAfter: up the chain until the slacks met
\* suffice, or to the reindex root, which has room for everything.
RECURSIVE ReclaimInterval(_, _, _, _, _, _, _, _)
ReclaimInterval(t, side, node, ancestor, current, required, slackSum, pathLen) ==
    LET slack == Size(Remaining(t, current, side))
        give(offset) == Stage(t, current, Shrink(t.interval[current], side, offset))
    IN  IF current = t.root
        THEN LET offset == required + ReindexSlack * pathLen - slackSum
             IN  GiveDown(OffsetSiblings(PropagateInterval(give(offset), current),
                                         side, node, current, offset),
                          side, node, current, ancestor, ReindexSlack)
        ELSE IF slackSum + slack >= required
        THEN LET offset == slack - (slackSum + slack - required)
             IN  GiveDown(OffsetSiblings(give(offset), side, node, current, offset),
                          side, node, current, ancestor, 0)
        ELSE ReclaimInterval(t, side, node, ancestor, FindNextAncestor(t, t.root, current),
                             required, slackSum + slack, pathLen + 1)

\* reindexIntervalsEarlierThanRoot: space for a node beside the chain to the
\* reindex root is taken from the slack along that chain.
ReindexEarlierThanRoot(t, node, ancestor, required) ==
    LET chosen == FindNextAncestor(t, t.root, ancestor)
        side == IF t.interval[node][1] < t.interval[chosen][1] THEN Before ELSE After
    IN  ReclaimInterval(t, side, node, ancestor, chosen, required, 0, 0)

HasRoom(t, b) == Size(t.interval[b]) >= SubtreeSize(t, b)

\* reindexIntervals: up to the first ancestor with room for its subtree.
RECURSIVE ReindexIntervals(_, _)
ReindexIntervals(t, current) ==
    LET parent == t.parent[current]
    IN  IF HasRoom(t, current) THEN PropagateInterval(t, current)
        ELSE IF current = VirtualGenesis \/ current = t.root THEN Fail(t)
        ELSE IF IsStrictTreeAncestorOf(t, parent, t.root)
        THEN ReindexEarlierThanRoot(t, current, parent, SubtreeSize(t, current))
        ELSE ReindexIntervals(t, parent)

\* addChild: half of what is left behind the last child; with nothing left, the
\* child starts from the empty interval there and space is found for it.
AddChild(t, b, child) ==
    LET remaining == Remaining(t, b, After)
        linked(iv) == [t EXCEPT !.children = (child :> << >>) @@ [@ EXCEPT ![b] = Append(@, child)],
                                !.parent = (child :> b) @@ @,
                                !.interval = (child :> iv) @@ @,
                                !.fcs = (child :> << >>) @@ @]
    IN  IF Size(remaining) = 0 THEN ReindexIntervals(linked(remaining), child)
        ELSE linked(FirstHalf(remaining))

-----------------------------------------------------------------------------
(* Future covering sets.                                                   *)

\* insertToFutureCoveringSet: nothing to add below a member, a member below the
\* new block is replaced, otherwise the new block goes where its interval is due.
InsertToFutureCoveringSet(t, b, future) ==
    LET set == t.fcs[b]
        i == FindAncestorIndexOfNode(t, set, future)
    IN  IF i # 0 /\ IsReachabilityTreeAncestorOf(t, set[i], future) THEN t
        ELSE IF i # 0 /\ IsReachabilityTreeAncestorOf(t, future, set[i])
        THEN [t EXCEPT !.fcs[b][i] = future]
        ELSE [t EXCEPT !.fcs[b] = InsertAt(set, i + 1, future)]

FutureCoveringSetHasAncestorOf(t, a, b) ==
    LET i == FindAncestorIndexOfNode(t, t.fcs[a], b)
    IN  i # 0 /\ IsReachabilityTreeAncestorOf(t, t.fcs[a][i], b)

\* The query the rest of the consensus asks.
IsDAGAncestorOf(t, a, b) ==
    \/ IsReachabilityTreeAncestorOf(t, a, b)
    \/ FutureCoveringSetHasAncestorOf(t, a, b)

\* AddBlock, for a block b with GHOSTDAG data g.
AddToTree(t, b, g) ==
    FoldLeft(LAMBDA u, merged : InsertToFutureCoveringSet(u, merged, b),
             AddChild(t, g.selectedParent, b), g.mergeSetBlues \o g.mergeSetReds)

\* Init of the manager.
EmptyTree == [interval |-> VirtualGenesis :> <<1, Capacity - 1>>,
              parent   |-> VirtualGenesis :> VirtualGenesis,
              children |-> VirtualGenesis :> << >>,
              fcs      |-> VirtualGenesis :> << >>,
              root     |-> VirtualGenesis,
              failed   |-> FALSE]

-----------------------------------------------------------------------------
(* Moving the reindex root.                                                *)

\* propagateChildrenIntervals of nodes whose sizes fill iv exactly.
PropagateChildrenIntervals(t, iv, nodes) ==
    LET parts == SplitExact(iv, SubtreeSizes(t, nodes))
    IN  FoldLeft(LAMBDA u, i : PropagateInterval(Stage(u, nodes[i], parts[i]), nodes[i]),
                 t, [i \in DOMAIN nodes |-> i])

\* expandIntervalToChosen.
ExpandIntervalToChosen(t, b, chosen, sumBefore, sumAfter, isFinal) ==
    LET iv == t.interval[b]
        new == <<iv[1] + sumBefore + ReindexSlack, iv[2] - sumAfter - ReindexSlack - 1>>
        tight == <<new[1] + ReindexSlack, new[2] - ReindexSlack>>
        propagated == IF isFinal /\ ~ IntervalContains(new, t.interval[chosen])
                      THEN PropagateInterval(Stage(t, chosen, tight), chosen)
                      ELSE t
    IN  Stage(propagated, chosen, new)

\* concentrateInterval: the children of b but the chosen one are packed at both
\* ends of the interval of b, and the chosen one is given the rest.
ConcentrateInterval(t, b, chosen, isFinal) ==
    LET before == Reverse(Siblings(t, chosen, Before))
        after == Siblings(t, chosen, After)
        sumBefore == SumSeq(SubtreeSizes(t, before))
        sumAfter == SumSeq(SubtreeSizes(t, after))
        iv == t.interval[b]
        left == <<iv[1] + ReindexSlack, iv[1] + ReindexSlack + sumBefore - 1>>
        right == <<iv[2] - ReindexSlack - sumAfter, iv[2] - ReindexSlack - 1>>
        packed == PropagateChildrenIntervals(PropagateChildrenIntervals(t, left, before), right, after)
    IN  ExpandIntervalToChosen(packed, b, chosen, sumBefore, sumAfter, isFinal)

RECURSIVE ConcentrateAlong(_, _, _, _)
ConcentrateAlong(t, tip, b, newRoot) ==
    IF b = newRoot THEN t
    ELSE LET chosen == FindNextAncestor(t, tip, b)
         IN  ConcentrateAlong(ConcentrateInterval(t, b, chosen, chosen = newRoot), tip, chosen, newRoot)

\* findCommonAncestor.
RECURSIVE FindCommonAncestor(_, _, _)
FindCommonAncestor(t, b, root) ==
    IF IsReachabilityTreeAncestorOf(t, b, root) THEN b
    ELSE FindCommonAncestor(t, t.parent[b], root)

\* Towards the tip while the next block is at least the window behind it.
RECURSIVE AdvanceRoot(_, _, _, _)
AdvanceRoot(t, d, tip, b) ==
    LET child == FindNextAncestor(t, tip, b)
    IN  IF d.data[tip].blueScore - d.data[child].blueScore < ReindexWindow THEN b
        ELSE AdvanceRoot(t, d, tip, child)

\* The root leaves its chain only for one that is the slack ahead in blue score.
KeepsRoot(t, d, tip) ==
    /\ ~ IsReachabilityTreeAncestorOf(t, t.root, tip)
    /\ d.data[tip].blueScore < d.data[t.root].blueScore + ReindexSlack

\* updateReindexRoot, findNextReindexRoot.
UpdateReindexRoot(t, d, tip) ==
    IF KeepsRoot(t, d, tip) THEN t
    ELSE LET ancestor == FindCommonAncestor(t, IF IsReachabilityTreeAncestorOf(t, t.root, tip)
                                                THEN t.root ELSE tip, t.root)
             newRoot == AdvanceRoot(t, d, tip, ancestor)
         IN  IF newRoot = t.root THEN t
             ELSE [ConcentrateAlong(t, tip, ancestor, newRoot) EXCEPT !.root = newRoot]
=============================================================================
