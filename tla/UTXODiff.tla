------------------------------ MODULE UTXODiff ------------------------------
(***************************************************************************)
(* The UTXO diff algebra of domain/consensus/utils/utxo.                   *)
(*                                                                         *)
(* A utxoCollection is a Go map from outpoints to entries.  Two entries of *)
(* one outpoint are outputs of the same transaction, so they can differ    *)
(* only in the DAA score of the block that accepted the transaction: an    *)
(* entry is modelled by that score.  The map is a total function with      *)
(* NoEntry for an absent key.  A UTXO set is a collection too.             *)
(*                                                                         *)
(* A code operation that may return an error is a pair of operators: the   *)
(* result, and ...Fails, the condition under which the error is returned.  *)
(***************************************************************************)
CONSTANTS
    Outpoints,      \* transaction outputs
    Scores,         \* DAA scores
    NoEntry         \* the value of an absent key

ASSUME NoEntryAssumption == NoEntry \notin Scores

Collections == [Outpoints -> Scores \cup {NoEntry}]

Diffs == [toAdd : Collections, toRemove : Collections]

HasEntry(c, o) == c[o] # NoEntry

EmptyCollection == [o \in Outpoints |-> NoEntry]

EmptyDiff == [toAdd |-> EmptyCollection, toRemove |-> EmptyCollection]

-----------------------------------------------------------------------------
(* Collections: the helpers of diff_algebra.go and utxo_collection.go.     *)

\* checkIntersection
Intersects(c1, c2) == \E o \in Outpoints : HasEntry(c1, o) /\ HasEntry(c2, o)

\* The entries of c1 that c2 holds with the same DAA score.
IntersectionHavingDAAScore(c1, c2) ==
    [o \in Outpoints |-> IF c1[o] = c2[o] THEN c1[o] ELSE NoEntry]

\* The entries of c1 that c2 does not hold with the same DAA score.
SubtractionHavingDAAScore(c1, c2) ==
    [o \in Outpoints |-> IF c1[o] = c2[o] THEN NoEntry ELSE c1[o]]

\* c with every entry of new put into it, as the in-place helpers do.
PutAll(c, new) == [o \in Outpoints |-> IF HasEntry(new, o) THEN new[o] ELSE c[o]]

RemoveMultiple(c, gone) ==
    [o \in Outpoints |-> IF HasEntry(gone, o) THEN NoEntry ELSE c[o]]

-----------------------------------------------------------------------------
(* this.DiffFrom(other): the diff that leads from this to other, when both *)
(* are diffs over one base.                                                *)

DiffFromFails(this, other) ==
    \/ \E o \in Outpoints :
          /\ HasEntry(this.toRemove, o) /\ HasEntry(other.toAdd, o)
          /\ ~ /\ other.toAdd[o] # this.toRemove[o]
               /\ \/ this.toAdd[o] = other.toAdd[o]
                  \/ other.toRemove[o] = this.toRemove[o]
    \/ \E o \in Outpoints :
          /\ HasEntry(this.toAdd, o) /\ HasEntry(other.toRemove, o)
          /\ ~ /\ other.toRemove[o] # this.toAdd[o]
               /\ \/ this.toRemove[o] = other.toRemove[o]
                  \/ other.toAdd[o] = this.toAdd[o]
    \/ \E o \in Outpoints :
          /\ HasEntry(this.toRemove, o) /\ HasEntry(other.toRemove, o)
          /\ this.toRemove[o] # other.toRemove[o]
    \/ LET inBothToAdd == IntersectionHavingDAAScore(this.toAdd, other.toAdd)
       IN  ~ (Intersects(inBothToAdd, this.toRemove)
                <=> Intersects(inBothToAdd, other.toRemove))

\* A DiffFrom that compares outpoints and forgets their DAA scores.
DiffFrom_IgnoresScore(this, other) ==
    LET Minus(c1, c2) == RemoveMultiple(c1, c2)
    IN  [toAdd    |-> PutAll(Minus(this.toRemove, other.toRemove),
                             Minus(other.toAdd, this.toAdd)),
         toRemove |-> PutAll(Minus(this.toAdd, other.toAdd),
                             Minus(other.toRemove, this.toRemove))]

DiffFrom(this, other) ==
    [toAdd    |-> PutAll(SubtractionHavingDAAScore(this.toRemove, other.toRemove),
                         SubtractionHavingDAAScore(other.toAdd, this.toAdd)),
     toRemove |-> PutAll(SubtractionHavingDAAScore(this.toAdd, other.toAdd),
                         SubtractionHavingDAAScore(other.toRemove, this.toRemove))]

-----------------------------------------------------------------------------
(* this.WithDiff(other): first this, then other, as one diff.              *)

WithDiffFails(this, other) ==
    \/ \E o \in Outpoints :
          /\ HasEntry(other.toRemove, o) /\ HasEntry(this.toRemove, o)
          /\ this.toAdd[o] # other.toRemove[o]
    \/ \E o \in Outpoints :
          /\ HasEntry(other.toAdd, o) /\ HasEntry(this.toAdd, o)
          /\ other.toRemove[o] # this.toAdd[o]

WithDiff(this, other) ==
    LET removed == PutAll(this.toRemove,
                          SubtractionHavingDAAScore(other.toRemove, this.toAdd))
        added   == RemoveMultiple(this.toAdd,
                          IntersectionHavingDAAScore(other.toRemove, this.toAdd))
    IN  [toAdd    |-> PutAll(added, SubtractionHavingDAAScore(other.toAdd, removed)),
         toRemove |-> RemoveMultiple(removed,
                          IntersectionHavingDAAScore(other.toAdd, removed))]

Reversed(diff) == [toAdd |-> diff.toRemove, toRemove |-> diff.toAdd]

-----------------------------------------------------------------------------
(* AddTransaction: removeEntry for every input, then addEntry for every    *)
(* output.  The inputs of a transaction are distinct outpoints and so are  *)
(* its outputs, so a loop over them is one pointwise step.                 *)

RemoveEntriesFails(diff, ins) ==
    \E o \in Outpoints : /\ HasEntry(ins, o)
                         /\ diff.toAdd[o] # ins[o]
                         /\ HasEntry(diff.toRemove, o)

RemoveEntries(diff, ins) ==
    [toAdd    |-> RemoveMultiple(diff.toAdd, IntersectionHavingDAAScore(ins, diff.toAdd)),
     toRemove |-> PutAll(diff.toRemove, SubtractionHavingDAAScore(ins, diff.toAdd))]

AddEntriesFails(diff, outs) ==
    \E o \in Outpoints : /\ HasEntry(outs, o)
                         /\ diff.toRemove[o] # outs[o]
                         /\ HasEntry(diff.toAdd, o)

AddEntries(diff, outs) ==
    [toAdd    |-> PutAll(diff.toAdd, SubtractionHavingDAAScore(outs, diff.toRemove)),
     toRemove |-> RemoveMultiple(diff.toRemove,
                                 IntersectionHavingDAAScore(outs, diff.toRemove))]

AddTransactionFails(diff, ins, outs) ==
    RemoveEntriesFails(diff, ins) \/ AddEntriesFails(RemoveEntries(diff, ins), outs)

\* AddTransaction that records the inputs without looking in toAdd first.
AddTransaction_NoCancel(diff, ins, outs) ==
    AddEntries([diff EXCEPT !.toRemove = PutAll(@, ins)], outs)

AddTransaction(diff, ins, outs) == AddEntries(RemoveEntries(diff, ins), outs)

-----------------------------------------------------------------------------
(* UTXO sets.                                                              *)

\* commitVirtualUTXODiff: delete toRemove, then put toAdd.
Apply(set, diff) == PutAll(RemoveMultiple(set, diff.toRemove), diff.toAdd)

\* What populateTransactionWithUTXOEntriesFromVirtualOrDiff finds for an
\* outpoint: the diff's toAdd, unless there the diff's toRemove, else the set.
Lookup(set, diff, o) ==
    IF HasEntry(diff.toAdd, o) THEN diff.toAdd[o]
    ELSE IF HasEntry(diff.toRemove, o) THEN NoEntry
    ELSE set[o]

\* Reference: the one diff without redundant entries that leads from one set
\* to another.
Between(from, to) == [toAdd    |-> SubtractionHavingDAAScore(to, from),
                      toRemove |-> SubtractionHavingDAAScore(from, to)]
=============================================================================
