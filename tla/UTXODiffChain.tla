--------------------------- MODULE UTXODiffChain ----------------------------
(***************************************************************************)
(* What the consensus state manager promises of the UTXO diff store.       *)
(*                                                                         *)
(* The node keeps one full UTXO set, that of the virtual block.  The past  *)
(* UTXO set of every other resolved block is kept as a diff from the past  *)
(* UTXO set of its diff child, or from the virtual set when it has none.   *)
(* Only the head (the selected tip) has no diff child.                     *)
(*                                                                         *)
(* The actions are the ways a database commit may change the store; every  *)
(* stored diff is computed with the algebra of UTXODiff, from other diffs, *)
(* as the code computes it.  ConsensusState implements this specification. *)
(***************************************************************************)
EXTENDS UTXODiff

CONSTANTS
    Blocks,         \* blocks whose status may be resolved
    NoBlock         \* no diff child, and no block

VARIABLES
    past,           \* history: the past UTXO set of each resolved block
    diff,           \* utxoDiffStore: the diff of each block
    child,          \* utxoDiffStore: the diff child of each block
    resolved,       \* blocks whose status is resolved
    head,           \* the block whose diff starts at the virtual set
    virtualSet      \* consensusStateStore: the UTXO set of virtual

vars == <<past, diff, child, resolved, head, virtualSet>>

\* The diff store: a diff and perhaps a child per block, and a selected tip that
\* is resolved.
TypeOK ==
    /\ past \in [Blocks -> Collections]
    /\ diff \in [Blocks -> Diffs]
    /\ child \in [Blocks -> Blocks \cup {NoBlock}]
    /\ resolved \in SUBSET Blocks
    /\ head \in resolved
    /\ virtualSet \in Collections

Init ==
    /\ head \in Blocks
    /\ resolved = {head}
    /\ past \in [Blocks -> Collections]
    /\ \A b \in Blocks \ {head} : past[b] = EmptyCollection
    /\ virtualSet \in Collections
    /\ child = [b \in Blocks |-> NoBlock]
    /\ diff = [b \in Blocks |-> IF b = head THEN Between(virtualSet, past[head])
                                            ELSE EmptyDiff]

\* A block is resolved: its past UTXO set becomes known, no other's changes.
Resolve(b) ==
    /\ b \notin resolved
    /\ resolved' = resolved \cup {b}
    /\ past' \in [Blocks -> Collections]
    /\ \A x \in Blocks \ {b} : past'[x] = past[x]

\* updateSelectedTipUTXODiff: a diff d from the virtual set, from the new one.
Rebased(d) == DiffFrom(Between(virtualSet, virtualSet'), d)

\* A block is resolved that hangs on a resolved one: a chain block below the
\* tip, a disqualified block, or a tip that is not the new selected tip.
HangOn(b, c) ==
    /\ c \in resolved
    /\ Resolve(b)
    /\ virtualSet' \in Collections
    /\ child' = [child EXCEPT ![b] = c]
    /\ diff' = [diff EXCEPT
                   ![b] = DiffFrom(Between(virtualSet, past[c]), Between(virtualSet, past'[b])),
                   ![head] = Rebased(@)]
    /\ UNCHANGED head

\* A block is resolved that is the new selected tip: the old one hangs on it.
TakeHead(b) ==
    /\ Resolve(b)
    /\ virtualSet' \in Collections
    /\ head' = b
    /\ child' = [child EXCEPT ![head] = b]
    /\ diff' = [diff EXCEPT
                   ![head] = DiffFrom(Between(virtualSet, past'[b]), @),
                   ![b] = Rebased(Between(virtualSet, past'[b]))]

\* updateVirtualWithParents: the virtual set changes and nothing is resolved.
MoveVirtual ==
    /\ virtualSet' \in Collections
    /\ diff' = [diff EXCEPT ![head] = Rebased(@)]
    /\ UNCHANGED <<past, child, resolved, head>>

\* Some set that is closed under diff children holds p and does not hold c.
Avoids(p, c) ==
    \E T \in SUBSET resolved : /\ p \in T /\ c \notin T
                               /\ \A x \in T : child[x] \in T \cup {NoBlock}

\* ReverseUTXODiffs: block c, which p hung on before, now hangs on p.
Redirect(c, p) ==
    /\ c \in resolved \ {head}
    /\ p \in resolved
    /\ Avoids(p, c)
    /\ child' = [child EXCEPT ![c] = p]
    /\ diff' = [diff EXCEPT ![c] = Reversed(Between(past[c], past[p]))]
    /\ UNCHANGED <<past, resolved, head, virtualSet>>

Next == \/ \E b, c \in Blocks : HangOn(b, c)
        \/ \E b \in Blocks : TakeHead(b)
        \/ MoveVirtual
        \/ \E c, p \in Blocks : Redirect(c, p)

Spec == Init /\ [][Next]_vars

-----------------------------------------------------------------------------
\* The set a block's diff starts from.
Base(b) == IF child[b] = NoBlock THEN virtualSet ELSE past[child[b]]

\* Every stored diff leads exactly from its base to the past UTXO set of its
\* block, at every commit, although each was computed from other stored diffs
\* and the base of a diff changes whenever virtual moves (stageDiff calls of
\* resolve_block_status.go, update_virtual.go and reverse_utxo_diffs.go).
DiffsAreExact == \A b \in resolved : diff[b] = Between(Base(b), past[b])

\* The blocks with a diff child are the resolved ones other than the head, and
\* each hangs on a resolved block.  Staging a diff without a child does not
\* clear the child a block had (utxoDiffStore.Stage), so the head relies on
\* never having had one.
ChildrenAreResolved ==
    \A b \in Blocks : IF b \in resolved \ {head} THEN child[b] \in resolved
                                                 ELSE child[b] = NoBlock

\* "there's a restore path to all blocks at all times"
\* (resolve_block_status.go:334): following diff children from any resolved
\* block ends at the head.  A set of blocks that following them never leaves
\* holds the head.
RestorePath ==
    \A S \in SUBSET resolved :
        (S # {} /\ \A x \in S : child[x] \in S \cup {NoBlock}) => head \in S

\* The inductive invariant that the three are proved with.
IInv == TypeOK /\ DiffsAreExact /\ ChildrenAreResolved /\ RestorePath
=============================================================================
