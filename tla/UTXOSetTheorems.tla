-------------------------- MODULE UTXOSetTheorems ---------------------------
(***************************************************************************)
(* The laws of the UTXO diff algebra, and from them the properties of one  *)
(* mutable UTXO diff and of the UTXO diff store, for every set of blocks,  *)
(* outpoints and DAA scores; and the rewriting of the pruning point UTXO   *)
(* set, for any sets and any number of crashes.                            *)
(***************************************************************************)
EXTENDS MutableUTXODiff, UTXODiffChain, PruningUTXOSet, TLAPS

-----------------------------------------------------------------------------
(* The algebra: on diffs between UTXO sets each operation computes the     *)
(* diff it stands for, and none of its consistency checks fails.           *)

\* The diff between two UTXO sets is a diff.
LEMMA BetweenType ==
    ASSUME NEW A \in Collections, NEW B \in Collections
    PROVE  Between(A, B) \in Diffs
  BY DEF Between, Diffs, Collections, SubtractionHavingDAAScore

\* Applying the diff between two UTXO sets to the first gives the second
\* (commitVirtualUTXODiff).
LEMMA ApplyBetween ==
    ASSUME NEW A \in Collections, NEW B \in Collections
    PROVE  Apply(A, Between(A, B)) = B
  BY NoEntryAssumption
  DEF Apply, Between, Collections, SubtractionHavingDAAScore, PutAll, RemoveMultiple, HasEntry

\* An outpoint looked up through the diff between two sets is looked up in the
\* second (populateTransactionWithUTXOEntriesFromVirtualOrDiff).
LEMMA LookupBetween ==
    ASSUME NEW A \in Collections, NEW B \in Collections, NEW o \in Outpoints
    PROVE  Lookup(A, Between(A, B), o) = B[o]
  BY NoEntryAssumption
  DEF Lookup, Between, Collections, SubtractionHavingDAAScore, HasEntry

\* Reversed gives the way back.
LEMMA ReversedBetween ==
    ASSUME NEW A \in Collections, NEW B \in Collections
    PROVE  Reversed(Between(A, B)) = Between(B, A)
  BY DEF Reversed, Between

\* DiffFrom of two diffs over one set is the diff between their ends.
LEMMA DiffFromBetween ==
    ASSUME NEW V \in Collections, NEW A \in Collections, NEW B \in Collections
    PROVE  DiffFrom(Between(V, A), Between(V, B)) = Between(A, B)
  BY NoEntryAssumption, SMTT(30)
  DEF DiffFrom, Between, Collections, SubtractionHavingDAAScore, PutAll, HasEntry

\* WithDiff of the diffs along A, B, C is the diff between A and C.
LEMMA WithDiffBetween ==
    ASSUME NEW A \in Collections, NEW B \in Collections, NEW C \in Collections
    PROVE  WithDiff(Between(A, B), Between(B, C)) = Between(A, C)
  BY NoEntryAssumption
  DEF WithDiff, Between, Collections, SubtractionHavingDAAScore,
      IntersectionHavingDAAScore, PutAll, RemoveMultiple, HasEntry

\* The consistency checks of diffFrom accept two diffs over one set.
LEMMA DiffFromAccepts ==
    ASSUME NEW V \in Collections, NEW A \in Collections, NEW B \in Collections
    PROVE  ~ DiffFromFails(Between(V, A), Between(V, B))
  BY NoEntryAssumption
  DEF DiffFromFails, Between, Collections, SubtractionHavingDAAScore,
      IntersectionHavingDAAScore, Intersects, HasEntry

\* The consistency checks of withDiffInPlace accept consecutive diffs.
LEMMA WithDiffAccepts ==
    ASSUME NEW A \in Collections, NEW B \in Collections, NEW C \in Collections
    PROVE  ~ WithDiffFails(Between(A, B), Between(B, C))
  BY NoEntryAssumption, SMTT(30)
  DEF WithDiffFails, Between, Collections, SubtractionHavingDAAScore, HasEntry

\* A transaction that set allows: it spends entries of the set and its outputs
\* are not in the set.
Spendable(set, ins, outs) ==
    \A o \in Outpoints : /\ HasEntry(ins, o) => ins[o] = set[o]
                         /\ HasEntry(outs, o) => ~ HasEntry(set, o)

\* AddTransaction moves the end of the diff by the transaction.
LEMMA AddTransactionBetween ==
    ASSUME NEW A \in Collections, NEW B \in Collections,
           NEW ins \in Collections, NEW outs \in Collections, Spendable(B, ins, outs)
    PROVE  AddTransaction(Between(A, B), ins, outs)
               = Between(A, PutAll(RemoveMultiple(B, ins), outs))
  BY NoEntryAssumption
  DEF Spendable, AddTransaction, AddEntries, RemoveEntries, Between, Collections,
      SubtractionHavingDAAScore, IntersectionHavingDAAScore, PutAll, RemoveMultiple, HasEntry

\* The consistency checks of addEntry and removeEntry accept it.
LEMMA AddTransactionAccepts ==
    ASSUME NEW A \in Collections, NEW B \in Collections,
           NEW ins \in Collections, NEW outs \in Collections, Spendable(B, ins, outs)
    PROVE  ~ AddTransactionFails(Between(A, B), ins, outs)
  BY NoEntryAssumption
  DEF Spendable, AddTransactionFails, RemoveEntriesFails, AddEntriesFails, RemoveEntries,
      Between, Collections, SubtractionHavingDAAScore, IntersectionHavingDAAScore,
      PutAll, RemoveMultiple, HasEntry

-----------------------------------------------------------------------------
(* One mutable UTXO diff.  MutableInv is inductive: the error flag stays   *)
(* down only because the diff is exact, and the diff is exact only between *)
(* sets.                                                                   *)

\* A fresh diff is the empty way from a set to itself.
LEMMA MutableInitInv == MutableInit => MutableInv
  <1> SUFFICES ASSUME MutableInit PROVE MutableInv
    OBVIOUS
  <1>1. EmptyDiff \in Diffs /\ Between(base, base) = EmptyDiff
    BY DEF MutableInit, EmptyDiff, EmptyCollection, Between, Diffs, Collections,
           SubtractionHavingDAAScore
  <1> QED
    BY <1>1, Zenon DEF MutableInit, MutableInv, MutableTypeOK, DiffIsExact, NeverFails

\* Every operation keeps the diff exact and raises no error.
LEMMA MutableNextInv == MutableInv /\ [MutableNext]_mutableVars => MutableInv'
  <1> SUFFICES ASSUME MutableInv, [MutableNext]_mutableVars PROVE MutableInv'
    OBVIOUS
  <1> USE DEF MutableInv, MutableTypeOK, DiffIsExact, NeverFails
  <1>1. ASSUME NEW ins \in Collections, NEW outs \in Collections,
               AcceptTransaction(ins, outs)
        PROVE  MutableInv'
    <2>1. Spendable(utxos, ins, outs)
      BY <1>1 DEF AcceptTransaction, Spendable
    <2>2. utxos' \in Collections
      BY <1>1 DEF AcceptTransaction, Collections, PutAll, RemoveMultiple
    <2>3. mud' = Between(base, utxos')
      BY <1>1, <2>1, AddTransactionBetween DEF AcceptTransaction
    <2>4. ~ failed'
      BY <1>1, <2>1, AddTransactionAccepts DEF AcceptTransaction
    <2> QED
      BY <1>1, <2>2, <2>3, <2>4, BetweenType DEF AcceptTransaction
  <1>2. ASSUME NEW to \in Collections, WithDiffInPlace(to)
        PROVE  MutableInv'
    <2>1. mud' = Between(base, to)
      BY <1>2, WithDiffBetween DEF WithDiffInPlace
    <2>2. ~ failed'
      BY <1>2, WithDiffAccepts DEF WithDiffInPlace
    <2> QED
      BY <1>2, <2>1, <2>2, BetweenType DEF WithDiffInPlace
  <1>3. ASSUME NEW newBase \in Collections, Rebase(newBase)
        PROVE  MutableInv'
    <2>1. mud' = Between(newBase, utxos)
      BY <1>3, DiffFromBetween DEF Rebase
    <2>2. ~ failed'
      BY <1>3, DiffFromAccepts DEF Rebase
    <2> QED
      BY <1>3, <2>1, <2>2, BetweenType DEF Rebase
  <1>4. CASE Reverse
    BY <1>4, ReversedBetween, BetweenType DEF Reverse
  <1>5. CASE UNCHANGED mutableVars
    BY <1>5 DEF mutableVars
  <1> QED
    BY <1>1, <1>2, <1>3, <1>4, <1>5 DEF MutableNext

\* The object and the two sets it stands for keep their types.
THEOREM MutableTypeCorrect == MutableSpec => []MutableTypeOK
  <1>1. MutableInv => MutableTypeOK
    BY DEF MutableInv
  <1> QED
    BY MutableInitInv, MutableNextInv, <1>1, PTL DEF MutableSpec

\* The diff is always the one diff between the two sets, whatever operations
\* produced it.
THEOREM DiffIsAlwaysExact == MutableSpec => []DiffIsExact
  <1>1. MutableInv => DiffIsExact
    BY DEF MutableInv
  <1> QED
    BY MutableInitInv, MutableNextInv, <1>1, PTL DEF MutableSpec

\* No consistency check ever rejects an operation that is legal for the sets.
THEOREM OperationsNeverFail == MutableSpec => []NeverFails
  <1>1. MutableInv => NeverFails
    BY DEF MutableInv
  <1> QED
    BY MutableInitInv, MutableNextInv, <1>1, PTL DEF MutableSpec

\* A lookup through the diff is a lookup in the set the diff leads to.
THEOREM LookupIsAlwaysExact == MutableSpec => []LookupIsExact
  <1>1. MutableInv => LookupIsExact
    BY LookupBetween, ApplyBetween DEF MutableInv, MutableTypeOK, DiffIsExact, LookupIsExact
  <1> QED
    BY MutableInitInv, MutableNextInv, <1>1, PTL DEF MutableSpec

-----------------------------------------------------------------------------
(* The UTXO diff store.  The invariant IInv is inductive: a diff is exact  *)
(* because the diffs it is computed from are, and a redirected block stays *)
(* on a restore path because the way it is redirected to avoids it.        *)

LEMMA InitIInv ==
    ASSUME NoBlock \notin Blocks, Init
    PROVE  IInv
  <1>1. past \in [Blocks -> Collections] /\ virtualSet \in Collections /\ head \in Blocks
    BY DEF Init, Collections, EmptyCollection
  <1>2. EmptyDiff \in Diffs
    BY DEF EmptyDiff, EmptyCollection, Diffs, Collections
  <1>3. past[head] \in Collections
    BY <1>1
  <1>4. Between(virtualSet, past[head]) \in Diffs
    BY <1>1, <1>3, BetweenType
  <1>5. TypeOK
    BY <1>1, <1>2, <1>4 DEF Init, TypeOK
  <1>6. DiffsAreExact
    BY <1>1 DEF Init, DiffsAreExact, Base
  <1>7. ChildrenAreResolved /\ RestorePath
    BY <1>1 DEF Init, ChildrenAreResolved, RestorePath
  <1> QED
    BY <1>5, <1>6, <1>7 DEF IInv

\* Moving virtual rebases the diff of the head and nothing else.
LEMMA RebasedHead ==
    ASSUME IInv, virtualSet' \in Collections
    PROVE  Rebased(diff[head]) = Between(virtualSet', past[head])
  <1>1. diff[head] = Between(virtualSet, past[head]) /\ past[head] \in Collections
    BY DEF IInv, TypeOK, DiffsAreExact, ChildrenAreResolved, Base
  <1> QED
    BY <1>1, DiffFromBetween DEF Rebased, IInv, TypeOK

\* Resolving a block below the head.
LEMMA HangOnIInv ==
    ASSUME NoBlock \notin Blocks, IInv, NEW b \in Blocks, NEW c \in Blocks, HangOn(b, c)
    PROVE  IInv'
  <1>1. /\ b \notin resolved /\ b # head /\ c \in resolved /\ c # b
        /\ resolved' = resolved \cup {b} /\ head' = head
        /\ child' = [child EXCEPT ![b] = c]
        /\ past' \in [Blocks -> Collections] /\ virtualSet' \in Collections
        /\ \A x \in resolved : past'[x] = past[x] /\ child'[x] = child[x]
        /\ child'[b] = c
    BY DEF HangOn, Resolve, IInv, TypeOK
  <1>2. diff'[b] = Between(past[c], past'[b])
    <2>1. diff'[b] = DiffFrom(Between(virtualSet, past[c]), Between(virtualSet, past'[b]))
      BY <1>1 DEF HangOn, IInv, TypeOK
    <2>2. past[c] \in Collections /\ past'[b] \in Collections /\ virtualSet \in Collections
      BY <1>1 DEF IInv, TypeOK
    <2> QED
      BY <2>1, <2>2, DiffFromBetween
  <1>3. diff'[head] = Between(virtualSet', past[head])
    BY <1>1, RebasedHead DEF HangOn, IInv, TypeOK
  <1>4. \A x \in resolved \ {head} : diff'[x] = diff[x]
    BY <1>1 DEF HangOn, IInv, TypeOK
  <1>5. TypeOK'
    <2>1. diff'[b] \in Diffs /\ diff'[head] \in Diffs
      BY <1>1, <1>2, <1>3, BetweenType DEF IInv, TypeOK
    <2>2. diff' \in [Blocks -> Diffs]
      BY <1>1, <2>1 DEF HangOn, IInv, TypeOK
    <2> QED
      BY <1>1, <2>2, Zenon DEF IInv, TypeOK
  <1>6. ChildrenAreResolved'
    BY <1>1 DEF IInv, TypeOK, ChildrenAreResolved
  <1>7. DiffsAreExact'
    <2> SUFFICES ASSUME NEW x \in resolved'
                 PROVE  diff'[x] = Between(Base(x)', past'[x])
      BY DEF DiffsAreExact
    <2>1. CASE x = b
      BY <1>1, <1>2, <2>1 DEF Base
    <2>2. CASE x = head
      BY <1>1, <1>3, <2>2 DEF Base, IInv, TypeOK, ChildrenAreResolved
    <2>3. CASE x \in resolved \ {head}
      BY <1>1, <1>4, <2>3 DEF Base, IInv, TypeOK, ChildrenAreResolved, DiffsAreExact
    <2> QED
      BY <1>1, <2>1, <2>2, <2>3
  <1>8. RestorePath'
    <2> SUFFICES ASSUME NEW S \in SUBSET resolved', S # {},
                        \A x \in S : child'[x] \in S \cup {NoBlock}
                 PROVE  head \in S
      BY <1>1 DEF RestorePath
    <2> DEFINE R == S \ {b}
    <2>1. R \in SUBSET resolved /\ R # {}
      BY <1>1
    <2>2. \A x \in R : child[x] \in R \cup {NoBlock}
      BY <1>1, <2>1 DEF IInv, TypeOK, ChildrenAreResolved
    <2> QED
      BY <2>1, <2>2, Zenon DEF IInv, RestorePath
  <1> QED
    BY <1>5, <1>6, <1>7, <1>8 DEF IInv

\* Resolving the new selected tip.
LEMMA TakeHeadIInv ==
    ASSUME NoBlock \notin Blocks, IInv, NEW b \in Blocks, TakeHead(b)
    PROVE  IInv'
  <1>1. /\ b \notin resolved /\ b # head /\ head \in resolved
        /\ resolved' = resolved \cup {b} /\ head' = b
        /\ child' = [child EXCEPT ![head] = b]
        /\ past' \in [Blocks -> Collections] /\ virtualSet' \in Collections
        /\ \A x \in resolved : past'[x] = past[x]
        /\ \A x \in Blocks \ {head} : child'[x] = child[x]
        /\ child'[head] = b /\ child[b] = NoBlock
    BY DEF TakeHead, Resolve, IInv, TypeOK, ChildrenAreResolved
  <1>2. diff'[head] = Between(past'[b], past[head])
    <2>1. diff'[head] = DiffFrom(Between(virtualSet, past'[b]), diff[head])
      BY <1>1 DEF TakeHead, IInv, TypeOK
    <2>2. diff[head] = Between(virtualSet, past[head])
      BY <1>1 DEF IInv, TypeOK, DiffsAreExact, ChildrenAreResolved, Base
    <2>3. past[head] \in Collections /\ past'[b] \in Collections /\ virtualSet \in Collections
      BY <1>1 DEF IInv, TypeOK
    <2> QED
      BY <2>1, <2>2, <2>3, DiffFromBetween
  <1>3. diff'[b] = Between(virtualSet', past'[b])
    <2>1. diff'[b] = DiffFrom(Between(virtualSet, virtualSet'), Between(virtualSet, past'[b]))
      BY <1>1 DEF TakeHead, IInv, TypeOK, Rebased
    <2>2. past'[b] \in Collections /\ virtualSet \in Collections
      BY <1>1 DEF IInv, TypeOK
    <2> QED
      BY <1>1, <2>1, <2>2, DiffFromBetween
  <1>4. \A x \in resolved \ {head} : diff'[x] = diff[x]
    BY <1>1 DEF TakeHead, IInv, TypeOK
  <1>5. TypeOK'
    <2>1. diff'[b] \in Diffs /\ diff'[head] \in Diffs
      BY <1>1, <1>2, <1>3, BetweenType DEF IInv, TypeOK
    <2>2. diff' \in [Blocks -> Diffs]
      BY <1>1, <2>1 DEF TakeHead, IInv, TypeOK
    <2> QED
      BY <1>1, <2>2, Zenon DEF IInv, TypeOK
  <1>6. ChildrenAreResolved'
    BY <1>1 DEF IInv, TypeOK, ChildrenAreResolved
  <1>7. DiffsAreExact'
    <2> SUFFICES ASSUME NEW x \in resolved'
                 PROVE  diff'[x] = Between(Base(x)', past'[x])
      BY DEF DiffsAreExact
    <2>1. CASE x = b
      BY <1>1, <1>3, <2>1 DEF Base
    <2>2. CASE x = head
      BY <1>1, <1>2, <2>2 DEF Base
    <2>3. CASE x \in resolved \ {head}
      BY <1>1, <1>4, <2>3 DEF Base, IInv, TypeOK, ChildrenAreResolved, DiffsAreExact
    <2> QED
      BY <1>1, <2>1, <2>2, <2>3
  <1>8. RestorePath'
    <2> SUFFICES ASSUME NEW S \in SUBSET resolved', S # {}, b \notin S,
                        \A x \in S : child'[x] \in S \cup {NoBlock}
                 PROVE  FALSE
      BY <1>1 DEF RestorePath
    <2>1. S \in SUBSET resolved /\ head \notin S
      BY <1>1
    <2>2. \A x \in S : child[x] \in S \cup {NoBlock}
      BY <1>1, <2>1 DEF IInv, TypeOK
    <2> QED
      BY <2>1, <2>2 DEF IInv, RestorePath
  <1> QED
    BY <1>5, <1>6, <1>7, <1>8 DEF IInv

\* Moving virtual.
LEMMA MoveVirtualIInv ==
    ASSUME NoBlock \notin Blocks, IInv, MoveVirtual
    PROVE  IInv'
  <1>1. diff'[head] = Between(virtualSet', past[head])
    BY RebasedHead DEF MoveVirtual, IInv, TypeOK
  <1>2. \A x \in resolved \ {head} : diff'[x] = diff[x]
    BY DEF MoveVirtual, IInv, TypeOK
  <1>3. diff'[head] \in Diffs
    BY <1>1, BetweenType DEF MoveVirtual, IInv, TypeOK
  <1>4. TypeOK'
    BY <1>3 DEF MoveVirtual, IInv, TypeOK
  <1>5. ChildrenAreResolved' /\ RestorePath'
    BY DEF MoveVirtual, IInv, ChildrenAreResolved, RestorePath
  <1>6. DiffsAreExact'
    <2> SUFFICES ASSUME NEW x \in resolved
                 PROVE  diff'[x] = Between(Base(x)', past[x])
      BY DEF DiffsAreExact, MoveVirtual
    <2>1. CASE x = head
      BY <1>1, <2>1 DEF Base, MoveVirtual, IInv, TypeOK, ChildrenAreResolved
    <2>2. CASE x # head
      BY <1>2, <2>2
      DEF Base, MoveVirtual, IInv, TypeOK, ChildrenAreResolved, DiffsAreExact
    <2> QED
      BY <2>1, <2>2
  <1> QED
    BY <1>4, <1>5, <1>6 DEF IInv

\* Redirecting a block to one that hung on it.
LEMMA RedirectIInv ==
    ASSUME NoBlock \notin Blocks, IInv, NEW c \in Blocks, NEW p \in Blocks, Redirect(c, p)
    PROVE  IInv'
  <1>1. /\ c \in resolved /\ c # head /\ p \in resolved /\ Avoids(p, c)
        /\ child' = [child EXCEPT ![c] = p] /\ child'[c] = p
        /\ \A x \in Blocks \ {c} : child'[x] = child[x] /\ diff'[x] = diff[x]
        /\ UNCHANGED <<past, resolved, head, virtualSet>>
    BY DEF Redirect, IInv, TypeOK
  <1>2. diff'[c] = Between(past[p], past[c])
    BY <1>1, ReversedBetween DEF Redirect, IInv, TypeOK
  <1>3. TypeOK'
    <2>1. diff'[c] \in Diffs
      BY <1>1, <1>2, BetweenType DEF IInv, TypeOK
    <2> QED
      BY <1>1, <2>1 DEF Redirect, IInv, TypeOK
  <1>4. ChildrenAreResolved'
    BY <1>1 DEF IInv, TypeOK, ChildrenAreResolved
  <1>5. DiffsAreExact'
    BY <1>1, <1>2 DEF Base, IInv, TypeOK, ChildrenAreResolved, DiffsAreExact
  <1>6. RestorePath'
    <2> SUFFICES ASSUME NEW S \in SUBSET resolved, S # {},
                        \A x \in S : child'[x] \in S \cup {NoBlock}
                 PROVE  head \in S
      BY <1>1 DEF RestorePath
    <2>1. CASE c \notin S
      BY <1>1, <2>1 DEF IInv, TypeOK, RestorePath
    <2>2. CASE c \in S
      <3>1. PICK T \in SUBSET resolved :
                /\ p \in T /\ c \notin T
                /\ \A x \in T : child[x] \in T \cup {NoBlock}
        BY <1>1 DEF Avoids
      <3> DEFINE R == S \cap T
      <3>2. R \in SUBSET resolved /\ R # {}
        BY <1>1, <2>2, <3>1
      <3>3. \A x \in R : child[x] \in R \cup {NoBlock}
        BY <1>1, <3>1 DEF IInv, TypeOK
      <3> QED
        BY <3>2, <3>3, Zenon DEF IInv, RestorePath
    <2> QED
      BY <2>1, <2>2
  <1> QED
    BY <1>3, <1>4, <1>5, <1>6 DEF IInv

LEMMA NextIInv ==
    ASSUME NoBlock \notin Blocks, IInv, [Next]_vars
    PROVE  IInv'
  <1>1. CASE Next
    BY <1>1, HangOnIInv, TakeHeadIInv, MoveVirtualIInv, RedirectIInv DEF Next
  <1>2. CASE UNCHANGED vars
    BY <1>2 DEF vars, IInv, TypeOK, DiffsAreExact, ChildrenAreResolved, RestorePath, Base
  <1> QED
    BY <1>1, <1>2

\* The stores keep their types.
THEOREM TypeCorrect ==
    ASSUME NoBlock \notin Blocks
    PROVE  Spec => []TypeOK
  <1>1. Init => IInv
    BY InitIInv
  <1>2. IInv /\ [Next]_vars => IInv'
    BY NextIInv
  <1>3. IInv => TypeOK
    BY DEF IInv
  <1> QED
    BY <1>1, <1>2, <1>3, PTL DEF Spec

\* Every stored diff is exact at every commit.
THEOREM DiffsAreAlwaysExact ==
    ASSUME NoBlock \notin Blocks
    PROVE  Spec => []DiffsAreExact
  <1>1. Init => IInv
    BY InitIInv
  <1>2. IInv /\ [Next]_vars => IInv'
    BY NextIInv
  <1>3. IInv => DiffsAreExact
    BY DEF IInv
  <1> QED
    BY <1>1, <1>2, <1>3, PTL DEF Spec

\* Only the head hangs on virtual, and every other block on a resolved one.
THEOREM ChildrenAreAlwaysResolved ==
    ASSUME NoBlock \notin Blocks
    PROVE  Spec => []ChildrenAreResolved
  <1>1. Init => IInv
    BY InitIInv
  <1>2. IInv /\ [Next]_vars => IInv'
    BY NextIInv
  <1>3. IInv => ChildrenAreResolved
    BY DEF IInv
  <1> QED
    BY <1>1, <1>2, <1>3, PTL DEF Spec

\* There is a restore path to all blocks at all times.
THEOREM AlwaysARestorePath ==
    ASSUME NoBlock \notin Blocks
    PROVE  Spec => []RestorePath
  <1>1. Init => IInv
    BY InitIInv
  <1>2. IInv /\ [Next]_vars => IInv'
    BY NextIInv
  <1>3. IInv => RestorePath
    BY DEF IInv
  <1> QED
    BY <1>1, <1>2, <1>3, PTL DEF Spec
-----------------------------------------------------------------------------
(* The update of the pruning point UTXO set.                               *)

\* Genesis is the pruning point of a new database, and its set is stored.
LEMMA InitUpdateInv == UpdateInit => UpdateInv
  BY Zenon DEF UpdateInit, UpdateInv, UpdateTypeOK, SetIsExact, Mixture

\* Every commit, every single write of UpdatePruningPointUTXOSet and every
\* crash leaves a set that the update, begun again, makes exact.
LEMMA NextUpdateInv == UpdateInv /\ [UpdateNext]_updateVars => UpdateInv'
<1> SUFFICES ASSUME UpdateInv, [UpdateNext]_updateVars
             PROVE  UpdateInv'
  OBVIOUS
<1> USE DEF UpdateInv, UpdateTypeOK, SetIsExact, Mixture
<1>1. CASE Advance
  BY <1>1 DEF Advance
<1>2. CASE Begin
  BY <1>2 DEF Begin
<1>3. ASSUME NEW o \in Outputs, Delete(o)
      PROVE  UpdateInv'
  BY <1>3 DEF Delete
<1>4. ASSUME NEW o \in Outputs, Put(o)
      PROVE  UpdateInv'
  BY <1>4 DEF Put
<1>5. CASE Finish
  <2>1. storedSet = newSet
    <3>1. storedSet \subseteq newSet
      BY <1>5 DEF Finish
    <3>2. newSet \subseteq storedSet
      BY <1>5 DEF Finish
    <3> QED
      BY <3>1, <3>2, Zenon
  <2> QED
    BY <1>5, <2>1, Zenon DEF Finish
<1>6. CASE Crash
  BY <1>6, Zenon DEF Crash
<1>7. CASE UNCHANGED updateVars
  BY <1>7 DEF updateVars
<1> QED
  BY <1>1, <1>2, <1>3, <1>4, <1>5, <1>6, <1>7 DEF UpdateNext

\* The stored set is the past UTXO set of the pruning point whenever the flag
\* is clear, for any pruning points and after any number of crashes.
THEOREM UpdateIsExact == UpdateSpec => []SetIsExact
<1>1. UpdateInv => SetIsExact
  BY DEF UpdateInv
<1> QED
  BY InitUpdateInv, NextUpdateInv, <1>1, PTL DEF UpdateSpec

\* A step clears the flag only over an exact set and writes only under the flag.
GuardsTheSet ==
    /\ updating /\ ~ updating' => storedSet' = newSet'
    /\ ~ updating => storedSet' = storedSet

\* FinishUpdatingPruningPointUTXOSet: the only step that clears the flag does
\* so over an exact set, and no step rewrites the set while it is clear.
THEOREM FlagGuardsTheSet == UpdateSpec => [][GuardsTheSet]_updateVars
<1>1. UpdateInv /\ UpdateInv' /\ [UpdateNext]_updateVars => [GuardsTheSet]_updateVars
  <2> SUFFICES ASSUME UpdateInv, UpdateInv', [UpdateNext]_updateVars
               PROVE  [GuardsTheSet]_updateVars
    OBVIOUS
  <2> USE DEF GuardsTheSet, UpdateInv, SetIsExact, Mixture, UpdateTypeOK
  <2>1. CASE Advance
    BY <2>1 DEF Advance
  <2>2. CASE Begin
    BY <2>2 DEF Begin
  <2>3. ASSUME NEW o \in Outputs, Delete(o) \/ Put(o)
        PROVE  GuardsTheSet
    BY <2>3 DEF Delete, Put
  <2>4. CASE Finish
    BY <2>4 DEF Finish
  <2>5. CASE Crash
    BY <2>5 DEF Crash
  <2> QED
    BY <2>1, <2>2, <2>3, <2>4, <2>5 DEF UpdateNext, updateVars
<1> QED
  BY InitUpdateInv, NextUpdateInv, <1>1, PTL DEF UpdateSpec
=============================================================================
