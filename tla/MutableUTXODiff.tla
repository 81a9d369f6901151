-------------------------- MODULE MutableUTXODiff ---------------------------
(***************************************************************************)
(* One mutableUTXODiff object under every operation consensus performs on  *)
(* it.  The object stands for the way from a base UTXO set to a second     *)
(* one; both sets are kept beside it as history variables, changed by the  *)
(* plain meaning of each operation and not by the diff algebra.            *)
(***************************************************************************)
EXTENDS UTXODiff

VARIABLES
    base,       \* history: the set the diff starts from
    utxos,      \* history: the set the diff leads to
    mud,        \* the object: toAdd and toRemove
    failed      \* an operation has returned an error

mutableVars == <<base, utxos, mud, failed>>

\* A mutableUTXODiff is a pair of collections between two UTXO collections.
MutableTypeOK ==
    /\ base \in Collections
    /\ utxos \in Collections
    /\ mud \in Diffs
    /\ failed \in BOOLEAN

MutableInit ==
    /\ base \in Collections
    /\ utxos = base
    /\ mud = EmptyDiff
    /\ failed = FALSE

\* A transaction is accepted: it spends entries of the set the diff leads to
\* and creates outputs that set does not hold, which are not among its inputs.
AcceptTransaction(ins, outs) ==
    /\ \A o \in Outpoints : /\ HasEntry(ins, o) => ins[o] = utxos[o]
                            /\ HasEntry(outs, o) => ~ HasEntry(utxos, o)
    /\ failed' = (failed \/ AddTransactionFails(mud, ins, outs))
    /\ mud' = AddTransaction(mud, ins, outs)
    /\ utxos' = PutAll(RemoveMultiple(utxos, ins), outs)
    /\ UNCHANGED base

\* restorePastUTXO: the diff of the next block on the way is appended.
WithDiffInPlace(to) ==
    /\ failed' = (failed \/ WithDiffFails(mud, Between(utxos, to)))
    /\ mud' = WithDiff(mud, Between(utxos, to))
    /\ utxos' = to
    /\ UNCHANGED base

\* updateSelectedTipUTXODiff: virtual moves from base to newBase, and the diff
\* of the selected tip is made relative to the new virtual.
Rebase(newBase) ==
    /\ failed' = (failed \/ DiffFromFails(Between(base, newBase), mud))
    /\ mud' = DiffFrom(Between(base, newBase), mud)
    /\ base' = newBase
    /\ UNCHANGED utxos

\* ReverseUTXODiffs: the way back.
Reverse ==
    /\ mud' = Reversed(mud)
    /\ base' = utxos
    /\ utxos' = base
    /\ UNCHANGED failed

MutableNext ==
    \/ \E ins, outs \in Collections : AcceptTransaction(ins, outs)
    \/ \E to \in Collections : WithDiffInPlace(to)
    \/ \E newBase \in Collections : Rebase(newBase)
    \/ Reverse

MutableSpec == MutableInit /\ [][MutableNext]_mutableVars

-----------------------------------------------------------------------------
\* The object never drifts from the two sets it stands for: it is the one
\* diff between them, with no entry both added and removed at one DAA score,
\* whatever sequence of AddTransaction, WithDiffInPlace, DiffFrom and Reversed
\* produced it (mutable_utxo_diff.go, diff_algebra.go).
DiffIsExact == mud = Between(base, utxos)

\* The consistency checks of diffFrom, withDiffInPlace, addEntry and
\* removeEntry never reject an operation that is legal for the sets.
NeverFails == ~ failed

\* A transaction sees through the diff (toAdd, then toRemove, then the base)
\* exactly the entries of the set the diff leads to, and committing the diff
\* to the base gives that set (populate_tx_with_utxo_entries.go,
\* commitVirtualUTXODiff).
LookupIsExact == /\ \A o \in Outpoints : Lookup(base, mud, o) = utxos[o]
                 /\ Apply(base, mud) = utxos

MutableInv == MutableTypeOK /\ DiffIsExact /\ NeverFails
=============================================================================
