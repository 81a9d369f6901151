--------------------------- MODULE PruningUTXOSet ---------------------------
(***************************************************************************)
(* What the update of the pruning point UTXO set promises: the set follows *)
(* the pruning point although it is written entry by entry outside any     *)
(* transaction and the node may stop at any write.                         *)
(*                                                                         *)
(* The pruning points stand for their past UTXO sets: newSet is that of    *)
(* the pruning point, oldSet that of the one before it.  The flag is       *)
(* committed with the pruning point and removed after the last write, and  *)
(* an update that was cut short is done again from its first entry.        *)
(***************************************************************************)

CONSTANT Outputs        \* the unspent outputs there can be

VARIABLES
    oldSet,     \* past UTXO set of the previous pruning point
    newSet,     \* past UTXO set of the pruning point
    updating,   \* the flag updatingPruningPointUTXOSet
    storedSet,  \* the stored pruning point UTXO set
    writing,    \* TRUE: an update is in progress
    toRemove,   \* what it has left to delete
    toAdd       \* and to put

updateVars == <<oldSet, newSet, updating, storedSet, writing, toRemove, toAdd>>

UpdateInit ==
    /\ newSet \in SUBSET Outputs
    /\ oldSet = newSet
    /\ storedSet = newSet
    /\ updating = FALSE
    /\ writing = FALSE
    /\ toRemove = {} /\ toAdd = {}

\* The commit of a new pruning point.
Advance ==
    /\ ~ updating
    /\ oldSet' = newSet
    /\ newSet' \in SUBSET Outputs
    /\ updating' = TRUE
    /\ UNCHANGED <<storedSet, writing, toRemove, toAdd>>

\* updatePruningPoint computes the diff of the two pruning points.
Begin ==
    /\ updating /\ ~ writing
    /\ writing' = TRUE
    /\ toRemove' = oldSet \ newSet
    /\ toAdd' = newSet \ oldSet
    /\ UNCHANGED <<oldSet, newSet, updating, storedSet>>

Delete(o) ==
    /\ writing /\ o \in toRemove
    /\ storedSet' = storedSet \ {o}
    /\ toRemove' = toRemove \ {o}
    /\ UNCHANGED <<oldSet, newSet, updating, writing, toAdd>>

Put(o) ==
    /\ writing /\ toRemove = {} /\ o \in toAdd
    /\ storedSet' = storedSet \cup {o}
    /\ toAdd' = toAdd \ {o}
    /\ UNCHANGED <<oldSet, newSet, updating, writing, toRemove>>

Finish ==
    /\ writing /\ toRemove = {} /\ toAdd = {}
    /\ updating' = FALSE
    /\ writing' = FALSE
    /\ UNCHANGED <<oldSet, newSet, storedSet, toRemove, toAdd>>

\* A crash loses what the update holds in memory.
Crash ==
    /\ writing
    /\ writing' = FALSE
    /\ toRemove' = {} /\ toAdd' = {}
    /\ UNCHANGED <<oldSet, newSet, updating, storedSet>>

UpdateNext ==
    \/ Advance
    \/ Begin
    \/ \E o \in Outputs : Delete(o) \/ Put(o)
    \/ Finish
    \/ Crash

UpdateSpec == UpdateInit /\ [][UpdateNext]_updateVars

\* While no update is pending, the stored set is the past UTXO set of the
\* pruning point (the set that a node serves to its peers in IBD), whatever
\* prefix of the writes earlier crashes left behind.
SetIsExact == ~ updating => storedSet = newSet

-----------------------------------------------------------------------------
(* The inductive invariant.                                                *)

\* The stored set and the pending diff are sets of outputs.
UpdateTypeOK ==
    /\ oldSet \subseteq Outputs /\ newSet \subseteq Outputs /\ storedSet \subseteq Outputs
    /\ toRemove \subseteq Outputs /\ toAdd \subseteq Outputs
    /\ updating \in BOOLEAN /\ writing \in BOOLEAN

\* An interrupted update leaves a mixture of the two sets, and one in progress
\* has nothing of what it deleted and all of what it has put.
Mixture ==
    /\ updating => oldSet \cap newSet \subseteq storedSet /\ storedSet \subseteq oldSet \cup newSet
    /\ writing => /\ updating
                  /\ toRemove \subseteq oldSet \ newSet /\ toAdd \subseteq newSet \ oldSet
                  /\ storedSet \cap (oldSet \ newSet) \subseteq toRemove
                  /\ (newSet \ oldSet) \ storedSet \subseteq toAdd

UpdateInv == UpdateTypeOK /\ SetIsExact /\ Mixture
=============================================================================
