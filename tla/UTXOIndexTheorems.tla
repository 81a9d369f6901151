------------------------- MODULE UTXOIndexTheorems --------------------------
(***************************************************************************)
(* The index is exact, and its diffs contiguous, for every set of          *)
(* outpoints, of scripts and of virtual UTXO sets, every page size and     *)
(* channel capacity, and any number of crashes, resets and overrides.      *)
(***************************************************************************)
EXTENDS UTXOIndex, FiniteSetTheorems, TLAPS

(* Arithmetic of amounts.                                                  *)

\* Comparisons of numbers.
LEMMA Compared ==
    ASSUME NEW a \in Nat, NEW b \in Nat
    PROVE  /\ a < b => b >= a + 1
           /\ a <= b => a = b \/ a < b
           /\ \A c \in Nat : a <= c /\ b > c => a <= b
  OBVIOUS

\* An index that follows another is not the first.
LEMMA LaterIndex ==
    ASSUME NEW m \in Nat, NEW k \in Nat, NEW i \in 1 .. k, i + 1 \in 1 .. m
    PROVE  1 \in 1 .. m /\ 1 < i + 1
  OBVIOUS

\* Quotient and remainder of unsigned arithmetic.
LEMMA DivMod ==
    ASSUME NEW a \in Int
    PROVE  /\ a \div Word \in Int /\ a % Word \in Nat /\ a % Word < Word
           /\ a = (a \div Word) * Word + (a % Word)
  <1>1. Word \in Nat /\ Word > 0
    BY SizesAssumption
  <1>2. a \div Word \in Int /\ a % Word \in Nat /\ a % Word < Word
    BY <1>1
  <1>3. a = (a \div Word) * Word + (a % Word)
    BY <1>1
  <1> QED
    BY <1>2, <1>3

\* A positive multiple of Word is at least Word.
LEMMA Multiple ==
    ASSUME NEW k \in Int, k >= 1
    PROVE  k * Word >= Word
  BY SizesAssumption

\* There is one remainder.
LEMMA OneRemainder ==
    ASSUME NEW p \in Int, NEW q \in Int, NEW x \in Nat, NEW y \in Nat,
           x < Word, y < Word, p * Word + x = q * Word + y
    PROVE  x = y
  <1>1. Word \in Int
    BY SizesAssumption
  <1>2. (p - q) * Word = y - x /\ (q - p) * Word = x - y
    BY <1>1
  <1>3. p - q < 1 /\ q - p < 1
    BY <1>1, <1>2, Multiple
  <1> QED
    BY <1>1, <1>2, <1>3

\* Numbers that differ by a multiple of Word have one remainder.
LEMMA SameRemainder ==
    ASSUME NEW a \in Int, NEW b \in Int, NEW k \in Int, a = b + k * Word
    PROVE  a % Word = b % Word
  <1>1. Word \in Int
    BY SizesAssumption
  <1>2. (a \div Word) * Word + (a % Word) = (b \div Word + k) * Word + (b % Word)
    <2>1. (b \div Word + k) * Word = (b \div Word) * Word + k * Word
      BY <1>1, DivMod
    <2> QED
      BY <1>1, <2>1, DivMod
  <1>3. b \div Word + k \in Int
    BY DivMod
  <1> QED
    BY <1>2, <1>3, DivMod, OneRemainder

\* updateCirculatingSompiSupply works on remainders.
LEMMA SupplyOfRemainders ==
    ASSUME NEW x \in Nat, NEW a \in Nat, NEW r \in Nat
    PROVE  (x + a - r) % Word = IF a % Word = r % Word THEN x % Word
                                ELSE ((x % Word) + (a % Word) - (r % Word)) % Word
  <1> DEFINE W == Word
             k == a \div W - r \div W
             j == x \div W + a \div W - r \div W
  <1>1. W \in Int
    BY SizesAssumption
  <1>2. k \in Int /\ j \in Int
    BY DivMod
  <1>3. /\ k * W = (a \div W) * W - (r \div W) * W
        /\ j * W = (x \div W) * W + (a \div W) * W - (r \div W) * W
    BY <1>1, DivMod
  <1>4. CASE a % W = r % W
    <2>1. x + a - r = x + k * W
      BY <1>1, <1>2, <1>3, <1>4, DivMod
    <2> QED
      BY <1>2, <1>4, <2>1, SameRemainder
  <1>5. CASE a % W # r % W
    <2>1. x + a - r = ((x % W) + (a % W) - (r % W)) + j * W
      BY <1>1, <1>2, <1>3, DivMod
    <2>2. (x % W) + (a % W) - (r % W) \in Int
      BY DivMod
    <2>3. (x + a - r) % W = ((x % W) + (a % W) - (r % W)) % W
      BY <1>2, <2>1, <2>2, SameRemainder
    <2> QED
      BY <1>5, <2>3
  <1> QED
    BY <1>4, <1>5

-----------------------------------------------------------------------------
(* Counting outpoints.                                                     *)

\* Outpoints are in the order of their keys.
LEMMA OutpointType == \A o \in Outpoints : o \in Nat /\ o > 0
  <1>1. Outpoints \subseteq Nat \ {0}
    BY OutpointsAssumption
  <1> QED
    BY <1>1

\* Sets of outpoints are finite.
LEMMA OutpointsAreFinite ==
    ASSUME NEW os \in SUBSET Outpoints
    PROVE  IsFiniteSet(os)
  <1>1. PICK n \in Outpoints \cup {0} : \A o \in Outpoints : o <= n
    BY OutpointsAssumption
  <1>2. n \in Nat /\ os \in SUBSET Nat /\ \A o \in os : o <= n
    BY <1>1, OutpointsAssumption
  <1> QED
    BY <1>2, FS_BoundedSetOfNaturals

\* What is added to a finite set, and what is removed from it, tells its size.
LEMMA SizeAfterMove ==
    ASSUME NEW A, NEW B, IsFiniteSet(A), IsFiniteSet(B)
    PROVE  /\ Cardinality(A) \in Nat /\ Cardinality(B \ A) \in Nat /\ Cardinality(A \ B) \in Nat
           /\ Cardinality(B) = Cardinality(A) + Cardinality(B \ A) - Cardinality(A \ B)
           /\ Cardinality(A \ B) <= Cardinality(A)
  <1>1. /\ IsFiniteSet(A \ B) /\ Cardinality(A \ B) = Cardinality(A) - Cardinality(A \cap B)
        /\ IsFiniteSet(B \ A) /\ Cardinality(B \ A) = Cardinality(B) - Cardinality(B \cap A)
    BY FS_Difference, Zenon
  <1>2. A \cap B = B \cap A /\ IsFiniteSet(A \cap B)
    BY FS_Intersection
  <1>3. /\ Cardinality(A) \in Nat /\ Cardinality(B) \in Nat /\ Cardinality(A \cap B) \in Nat
        /\ Cardinality(A \ B) \in Nat /\ Cardinality(B \ A) \in Nat
    BY <1>1, <1>2, FS_CardinalityType
  <1> DEFINE a == Cardinality(A)
             b == Cardinality(B)
             c == Cardinality(A \cap B)
             x == Cardinality(A \ B)
             y == Cardinality(B \ A)
  <1>4. a \in Nat /\ b \in Nat /\ c \in Nat /\ x \in Nat /\ y \in Nat /\ x = a - c /\ y = b - c
    BY <1>1, <1>2, <1>3, Zenon
  <1> HIDE DEF a, b, c, x, y
  <1>5. b = a + y - x /\ x <= a
    BY <1>4
  <1> QED
    BY <1>4, <1>5, Zenon DEF a, b, x, y

\* The count of a script after outpoints are added and removed.
LEMMA CountAfterMove ==
    ASSUME NEW A \in SUBSET Outpoints, NEW B \in SUBSET Outpoints, NEW s
    PROVE  /\ CountOf(s, A) \in Nat
           /\ CountOf(s, B) = CountOf(s, A) + CountOf(s, B \ A) - CountOf(s, A \ B)
           /\ CountOf(s, B \ A) \in Nat /\ CountOf(s, A \ B) \in Nat
  <1> DEFINE P == {o \in A : Script[o] = s}
             Q == {o \in B : Script[o] = s}
  <1>1. IsFiniteSet(P) /\ IsFiniteSet(Q)
    BY OutpointsAreFinite
  <1>2. {o \in B \ A : Script[o] = s} = Q \ P /\ {o \in A \ B : Script[o] = s} = P \ Q
    OBVIOUS
  <1> HIDE DEF P, Q
  <1>3. /\ Cardinality(P) \in Nat /\ Cardinality(Q \ P) \in Nat /\ Cardinality(P \ Q) \in Nat
        /\ Cardinality(Q) = Cardinality(P) + Cardinality(Q \ P) - Cardinality(P \ Q)
    BY <1>1, SizeAfterMove, Zenon
  <1> QED
    BY <1>2, <1>3 DEF CountOf, P, Q

\* No outpoint of a set has the script: its count is 0.
LEMMA CountOfNone ==
    ASSUME NEW os, NEW s, \A o \in os : Script[o] # s
    PROVE  CountOf(s, os) = 0
  <1>1. {o \in os : Script[o] = s} = {}
    OBVIOUS
  <1> QED
    BY <1>1, FS_EmptySet DEF CountOf

\* A set of outpoints has finitely many sompi.
LEMMA SompiAreFinite ==
    ASSUME NEW os \in SUBSET Outpoints
    PROVE  IsFiniteSet(Sompi(os))
  <1> DEFINE of == [o \in os |-> {o} \X (1 .. Amount[o])]
             S == {{o} \X (1 .. Amount[o]) : o \in os}
  <1>1. of \in Surjection(os, S)
    BY Zenon DEF Surjection
  <1>2. IsFiniteSet(S)
    BY <1>1, OutpointsAreFinite, FS_Surjection
  <1>3. ASSUME NEW T \in S PROVE IsFiniteSet(T)
    <2>1. PICK o \in os : T = {o} \X (1 .. Amount[o])
      OBVIOUS
    <2>2. IsFiniteSet({o})
      BY FS_Singleton, Zenon
    <2>3. IsFiniteSet(1 .. Amount[o])
      BY FS_Interval, EntriesAssumption
    <2> QED
      BY <2>1, <2>2, <2>3, FS_Product, Zenon
  <1> HIDE DEF S
  <1>4. IsFiniteSet(UNION S)
    BY <1>2, <1>3, FS_UNION
  <1> QED
    BY <1>4 DEF S, Sompi

\* The supply after outpoints are added and removed.
LEMMA SumAfterMove ==
    ASSUME NEW A \in SUBSET Outpoints, NEW B \in SUBSET Outpoints
    PROVE  /\ Sum(A) \in Nat
           /\ Sum(B) = AddSupply(Sum(A), B \ A, A \ B)
  <1> DEFINE P == Sompi(A)
             Q == Sompi(B)
  <1>1. Sompi(B \ A) = Q \ P
    BY DEF Sompi
  <1>2. Sompi(A \ B) = P \ Q
    BY DEF Sompi
  <1>3. IsFiniteSet(P) /\ IsFiniteSet(Q)
    BY SompiAreFinite
  <1> HIDE DEF P, Q
  <1>4. /\ Cardinality(P) \in Nat /\ Cardinality(Q \ P) \in Nat /\ Cardinality(P \ Q) \in Nat
        /\ Cardinality(Q) = Cardinality(P) + Cardinality(Q \ P) - Cardinality(P \ Q)
    BY <1>3, SizeAfterMove, Zenon
  <1> DEFINE x == Cardinality(P)
             a == Cardinality(Q \ P)
             r == Cardinality(P \ Q)
  <1>5. x \in Nat /\ a \in Nat /\ r \in Nat /\ Cardinality(Q) = x + a - r
    BY <1>4, Zenon
  <1>6. Sum(A) = x % Word /\ Sum(B \ A) = a % Word /\ Sum(A \ B) = r % Word /\ Sum(B) = (x + a - r) % Word
    BY <1>1, <1>2, <1>5, Zenon DEF Sum, P, Q
  <1> HIDE DEF x, a, r
  <1>7. (x + a - r) % Word = IF a % Word = r % Word THEN x % Word
                             ELSE ((x % Word) + (a % Word) - (r % Word)) % Word
    BY <1>5, SupplyOfRemainders
  <1>8. x % Word \in Nat
    BY <1>5, DivMod
  <1> QED
    BY <1>6, <1>7, <1>8, Zenon DEF AddSupply

\* No outpoints have no amount.
LEMMA SumOfNone == Sum({}) = 0
  <1>1. Sompi({}) = {}
    BY DEF Sompi
  <1>2. 0 % Word = 0
    <2>1. 0 % Word \in Nat /\ 0 % Word < Word /\ 0 = (0 \div Word) * Word + (0 % Word) /\ 0 \div Word \in Int
      BY DivMod
    <2>2. 0 * Word + 0 = (0 \div Word) * Word + (0 % Word)
      BY <2>1, SizesAssumption
    <2> QED
      BY <2>1, <2>2, OneRemainder, SizesAssumption
  <1> QED
    BY <1>1, <1>2, FS_EmptySet DEF Sum

-----------------------------------------------------------------------------
(* Pages of VirtualUTXOs.                                                  *)

\* A set of outpoints has a smallest one.
LEMMA Smallest ==
    ASSUME NEW os \in SUBSET Nat, os # {}
    PROVE  \E o \in os : \A u \in os : o <= u
  <1> DEFINE R == {ss \in Nat \X Nat : ss[1] < ss[2]}
  <1>1. IsWellFoundedOn(R, Nat)
    BY NatLessThanWellFounded, Zenon DEF OpToRel
  <1>2. \A x, y \in Nat : <<y, x>> \notin R => x <= y
    OBVIOUS
  <1> HIDE DEF R
  <1>3. PICK x \in os : \A y \in os : <<y, x>> \notin R
    BY <1>1, WFMin, Zenon
  <1> QED
    BY <1>2, <1>3, Zenon

\* A set of outpoints has a largest one.
LEMMA Largest ==
    ASSUME NEW os \in SUBSET Outpoints, os # {}
    PROVE  Max(os) \in os /\ \A u \in os : u <= Max(os)
  <1>1. PICK n \in Outpoints \cup {0} : \A o \in Outpoints : o <= n
    BY OutpointsAssumption
  <1>2. n \in Nat /\ os \in SUBSET Nat
    BY OutpointsAssumption
  <1> DEFINE D == {n - o : o \in os}
  <1>3. \A o \in os : n - o \in Nat
    BY <1>1, <1>2
  <1>9. D \in SUBSET Nat /\ D # {}
    BY <1>3, Zenon
  <1>4. PICK d \in D : \A e \in D : d <= e
    BY <1>9, Smallest, Zenon
  <1>5. PICK o \in os : d = n - o
    BY <1>4
  <1>6. \A u \in os : n - u \in D
    OBVIOUS
  <1>7. ASSUME NEW u \in os PROVE o >= u
    <2>1. n - o <= n - u
      BY <1>4, <1>5, <1>6, Zenon
    <2> QED
      BY <1>2, <2>1
  <1>8. Max(os) \in os /\ \A u \in os : Max(os) >= u
    BY <1>7 DEF Max
  <1> QED
    BY <1>2, <1>8

\* A page is a prefix, and a page that is not full is all there is left.
LEMMA PageIsAPrefix ==
    ASSUME NEW os \in SUBSET Outpoints
    PROVE  /\ FirstPage(os) \subseteq os
           /\ \A o \in FirstPage(os), u \in os : u < o => u \in FirstPage(os)
           /\ Cardinality(FirstPage(os)) < PageSize => FirstPage(os) = os
  <1> DEFINE before(o) == {u \in os : u < o}
  <1>1. os \in SUBSET Nat
    BY OutpointsAssumption
  <1>2. ASSUME NEW o \in os, NEW T \in SUBSET os, before(o) \subseteq T
        PROVE  Cardinality(before(o)) \in Nat /\ Cardinality(T) \in Nat /\ Cardinality(before(o)) <= Cardinality(T)
    <2>1. IsFiniteSet(T) /\ IsFiniteSet(before(o))
      BY OutpointsAreFinite
    <2> QED
      BY <1>2, <2>1, FS_CardinalityType, FS_Subset
  <1>3. ASSUME NEW o \in FirstPage(os), NEW u \in os, u < o
        PROVE  u \in FirstPage(os)
    <2>1. o \in os /\ before(u) \subseteq before(o) /\ before(o) \in SUBSET os
      <3>1. o \in os
        BY DEF FirstPage
      <3>2. ASSUME NEW v \in before(u) PROVE v \in before(o)
        BY <1>1, <1>3, <3>1
      <3> QED
        BY <3>1, <3>2, Zenon
    <2>2. /\ Cardinality(before(u)) <= Cardinality(before(o))
          /\ Cardinality(before(u)) \in Nat /\ Cardinality(before(o)) \in Nat
      BY <1>2, <2>1
    <2>3. Cardinality(before(o)) < PageSize
      BY DEF FirstPage
    <2>4. Cardinality(before(u)) < PageSize
      BY <2>2, <2>3, SizesAssumption
    <2> QED
      BY <2>4 DEF FirstPage
  <1>4. ASSUME Cardinality(FirstPage(os)) < PageSize, FirstPage(os) # os
        PROVE  FALSE
    <2> DEFINE rest == os \ FirstPage(os)
    <2>1. rest \in SUBSET Nat /\ rest # {}
      BY <1>1, <1>4, Zenon DEF FirstPage
    <2>2. PICK o \in rest : \A u \in rest : o <= u
      BY <2>1, Smallest, Zenon
    <2>3. o \in os /\ FirstPage(os) \in SUBSET os /\ before(o) \subseteq FirstPage(os)
      <3>1. o \in os /\ FirstPage(os) \in SUBSET os
        BY Zenon DEF FirstPage
      <3>2. ASSUME NEW v \in before(o) PROVE v \in FirstPage(os)
        <4>1. v \in os /\ v < o /\ (v \in rest => o <= v)
          BY <2>2, Zenon
        <4> QED
          BY <1>1, <3>1, <4>1
      <3> QED
        BY <3>1, <3>2, Zenon
    <2>4. Cardinality(before(o)) < PageSize
      BY <1>2, <1>4, <2>3, SizesAssumption
    <2> QED
      BY <2>2, <2>4 DEF FirstPage
  <1> QED
    BY <1>3, <1>4 DEF FirstPage

-----------------------------------------------------------------------------
(* The inductive invariant.                                                *)

\* The values of the keys, of the events and of the operations.
Entries == UNION {[os -> Nat] : os \in SUBSET Outpoints}
Indexes == [parents : Nat, supply : Int, initialized : BOOLEAN,
            counts : [Scripts -> Int], entries : [Outpoints -> Int]]
Changes == [kind : {"virtualChangeSet"}, from : Nat, parents : Nat,
            toRemove : Entries, toAdd : Entries]
Events == {BlockAdded} \cup Changes

\* The stages of Reset before and after the virtual it copies is known.
Deleting == {"parents", "supply", "initialized", "counts", "entries"}
Paging == {"put", "count", "addSupply"}
Copying == {"initialize", "page", "mark", "end"} \cup Paging
Resets == [kind : {"reset"}, by : {"new", "override"}, stage : Deleting \cup Copying,
           virtual : Nat, from : Nat, page : Entries \cup {<< >>},
           left : SUBSET (Outpoints \cup Scripts)]

\* The variables keep these types.
TypeOK ==
    /\ history \in Seq(VirtualSets) /\ Len(history) >= 1
    /\ events \in Seq(Events)
    /\ db \in Indexes
    /\ op \in {Down, Running, Panicked, NotStarted} \cup Resets
    /\ override \in BOOLEAN /\ lost \in BOOLEAN /\ misapplied \in BOOLEAN
    /\ overrides \in Nat

\* The outpoints of a virtual of the past.
Set(v) == DOMAIN history[v]

\* A diff leads from one virtual set to the next one.
ChangeOK(e) ==
    /\ e.from \in 1 .. Len(history) - 1 /\ e.parents = e.from + 1
    /\ DOMAIN Staged(e).toAdd = Set(e.parents) \ Set(e.from)
    /\ DOMAIN Staged(e).toRemove = Set(e.from) \ Set(e.parents)

\* So does every diff of the channel.
EventsOK == \A i \in 1 .. Len(events) : events[i] \in Changes => ChangeOK(events[i])

\* The index has exactly the outpoints os, with their counts and their supply.
CountsAre(os) == \A s \in Scripts : db.counts[s] = CountOf(s, os)
Exact(os) == Indexed = os /\ db.supply = Sum(os) /\ CountsAre(os)

\* The outpoints of the pages that Reset has copied, and those it has not.
Copied == {o \in Set(op.virtual) : o <= op.from}
Ahead == {o \in Set(op.virtual) : o > op.from}

\* The outpoints that a page is put beside, while it is put.
PageOK ==
    /\ op.page \in Entries /\ DOMAIN op.page = FirstPage(Ahead)
    /\ db.supply = Sum(Copied)
    /\ op.stage = "put" => /\ op.left \subseteq DOMAIN op.page
                           /\ Indexed = Copied \cup (DOMAIN op.page \ op.left)
                           /\ CountsAre(Copied)
    /\ op.stage # "put" => Indexed = Copied \cup DOMAIN op.page
    /\ op.stage = "count" =>
          /\ op.left \subseteq Scripts
          /\ \A s \in Scripts : db.counts[s] = CountOf(s, Copied) +
                                   IF s \in op.left THEN 0 ELSE CountOf(s, DOMAIN op.page)
    /\ op.stage = "addSupply" => CountsAre(Copied \cup DOMAIN op.page)

\* What each stage of Reset finds in the database.
ResetOK ==
    op.kind = "reset" =>
        /\ op.stage \notin {"parents", "end"} => db.parents = 0
        /\ op.stage \in Deleting \cup {"initialize"} => op.from = 0
        /\ op.stage \in {"entries", "initialize"} => \A s \in Scripts : db.counts[s] = 0
        /\ op.stage = "initialize" => Indexed = {}
        /\ op.stage \in Copying => op.virtual \in 1 .. Len(history)
        /\ op.stage = "page" => Exact(Copied)
        /\ op.stage \in Paging => PageOK
        /\ op.stage \in {"mark", "end"} => Exact(Set(op.virtual))
        /\ op.stage = "end" => db.parents = op.virtual

\* Nothing runs beside New.
NewOK ==
    op.kind = "reset" /\ op.by = "new" =>
        /\ events = << >>
        /\ op.stage \in Copying => op.virtual = ParentHashes

\* Only an override resets a running node.
OverrideOK == override \/ (op.kind = "reset" /\ op.by = "override") => overrides > 0

\* The channel holds the diffs from the virtual of the index to the current
\* one, in order.
IsChange(i) == events[i] \in Changes
Contiguous ==
    op = Running /\ ~ lost /\ overrides = 0 =>
        /\ \A i \in 1 .. Len(events) : IsChange(i) => events[i].from >= db.parents
        /\ \A i, j \in 1 .. Len(events) :
              IsChange(i) /\ IsChange(j) /\ i < j => events[i].from < events[j].from
        /\ \A v \in db.parents .. Len(history) - 1 :
              \E i \in 1 .. Len(events) : IsChange(i) /\ events[i].from = v

\* The index is marked with a virtual there has been.
ParentsOK == db.parents <= Len(history)

\* The invariant that every step keeps.
IInv == /\ TypeOK /\ ParentsOK /\ EventsOK /\ ResetOK /\ NewOK /\ OverrideOK /\ Contiguous
        /\ IndexIsExact /\ DiffsAreContiguous

-----------------------------------------------------------------------------
(* Facts about the state.                                                  *)

\* Every outpoint has one of the scripts.
LEMMA ScriptsOfOutpoints ==
    ASSUME NEW o \in Outpoints
    PROVE  Script[o] \in Scripts
  BY EntriesAssumption, Zenon DEF Scripts, Range

\* A virtual set maps outpoints to scores.
LEMMA VirtualSetType ==
    ASSUME NEW set \in VirtualSets
    PROVE  DOMAIN set \in SUBSET Outpoints /\ set \in [DOMAIN set -> Nat] /\ set \in Entries
  <1>1. PICK os \in SUBSET Outpoints : set \in [os -> Nat]
    BY VirtualSetsAssumption, Zenon
  <1>2. DOMAIN set = os
    BY <1>1, Zenon
  <1> QED
    BY <1>1, <1>2, Zenon DEF Entries

\* The virtuals of the past have UTXO sets of outpoints.
LEMMA SetType ==
    ASSUME TypeOK, NEW v \in 1 .. Len(history)
    PROVE  history[v] \in VirtualSets /\ Set(v) \in SUBSET Outpoints
  <1>1. history[v] \in VirtualSets
    BY DEF TypeOK
  <1> QED
    BY <1>1, VirtualSetType, Zenon DEF Set

\* Part of some entries.
LEMMA RestrictType ==
    ASSUME NEW f \in Entries, NEW os \in SUBSET DOMAIN f
    PROVE  Restrict(f, os) \in Entries /\ DOMAIN Restrict(f, os) = os
           /\ \A o \in os : Restrict(f, os)[o] = f[o] /\ f[o] \in Nat
  <1>1. PICK us \in SUBSET Outpoints : f \in [us -> Nat]
    BY DEF Entries
  <1>2. os \in SUBSET Outpoints /\ \A o \in os : f[o] \in Nat
    BY <1>1
  <1>3. [o \in os |-> f[o]] \in [os -> Nat]
    BY <1>2
  <1> QED
    BY <1>2, <1>3 DEF Restrict, Entries

\* The diff to the next virtual set, as Update stages it.
LEMMA ChangeLeads ==
    ASSUME TypeOK, NEW set \in VirtualSets
    PROVE  LET e == VirtualChangeSet(set)
           IN  /\ e \in Changes /\ e.from = Len(history) /\ e.parents = Len(history) + 1
               /\ DOMAIN Staged(e).toAdd = DOMAIN set \ DOMAIN VirtualSet
               /\ DOMAIN Staged(e).toRemove = DOMAIN VirtualSet \ DOMAIN set
  <1> DEFINE old == VirtualSet
             Same(o) == o \in DOMAIN old /\ o \in DOMAIN set /\ old[o] = set[o]
             gone == {o \in DOMAIN old : ~ Same(o)}
             come == {o \in DOMAIN set : ~ Same(o)}
             e == VirtualChangeSet(set)
  <1>1. old \in Entries /\ set \in Entries
    <2>1. Len(history) \in 1 .. Len(history)
      BY DEF TypeOK
    <2> QED
      BY <2>1, SetType, VirtualSetType DEF VirtualSet
  <1>2. /\ Restrict(old, gone) \in Entries /\ DOMAIN Restrict(old, gone) = gone
        /\ Restrict(set, come) \in Entries /\ DOMAIN Restrict(set, come) = come
    BY <1>1, RestrictType
  <1>3. e = [kind |-> "virtualChangeSet", from |-> Len(history), parents |-> Len(history) + 1,
             toRemove |-> Restrict(old, gone), toAdd |-> Restrict(set, come)]
    BY Zenon DEF VirtualChangeSet, ParentHashes
  <1>4. Len(history) \in Nat
    BY DEF TypeOK
  <1>5. e \in Changes /\ e.from = Len(history) /\ e.parents = Len(history) + 1
    BY <1>2, <1>3, <1>4 DEF Changes
  <1>6. DOMAIN e.toRemove = gone /\ DOMAIN e.toAdd = come /\ e.toRemove \in Entries /\ e.toAdd \in Entries
    BY <1>2, <1>3
  <1>7. gone \ (gone \cap come) = DOMAIN old \ DOMAIN set /\ come \ (gone \cap come) = DOMAIN set \ DOMAIN old
    OBVIOUS
  <1> HIDE DEF old, gone, come, e
  <1>8. /\ DOMAIN Staged(e).toAdd = come \ (gone \cap come)
        /\ DOMAIN Staged(e).toRemove = gone \ (gone \cap come)
    BY <1>6, RestrictType, ZenonT(30) DEF Staged
  <1> QED
    BY <1>5, <1>7, <1>8, Zenon DEF e, old

\* Send puts some of the events at the end of the channel, all of them if there
\* is room, or the node goes down.
LEMMA SendAppends ==
    ASSUME TypeOK, NEW new \in Seq(Events), Send(new)
    PROVE  \/ op' = Down /\ events' = << >>
           \/ /\ op' = op /\ events' \in Seq(Events) /\ Len(events') >= Len(events)
              /\ Len(events') <= Len(events) + Len(new)
              /\ Len(events) + Len(new) <= Capacity => Len(events') = Len(events) + Len(new)
              /\ \A i \in 1 .. Len(events') :
                    events'[i] = IF i <= Len(events) THEN events[i] ELSE new[i - Len(events)]
  <1> DEFINE room == Capacity - Len(events)
             m == Min({Len(new), room})
  <1>1. events \in Seq(Events) /\ Len(events) \in Nat /\ Len(new) \in Nat /\ room \in Int
    BY SizesAssumption DEF TypeOK
  <1>2. CASE Len(events) + Len(new) <= Capacity
    <2>1. events' = events \o new /\ op' = op
      BY <1>2 DEF Send
    <2> QED
      BY <1>1, <1>2, <2>1
  <1>3. CASE ~ (Len(events) + Len(new) <= Capacity) /\ events' = Sent(new) /\ op' = op
    <2>1. m = room
      <3>1. room <= Len(new)
        BY <1>1, <1>3, SizesAssumption
      <3>2. \E x \in {Len(new), room} : \A y \in {Len(new), room} : x <= y
        BY <1>1, <3>1
      <3>3. m \in {Len(new), room} /\ \A y \in {Len(new), room} : m <= y
        BY <3>2 DEF Min
      <3> QED
        BY <1>1, <3>1, <3>3
    <2>2. events' = events \o SubSeq(new, 1, room)
      BY <1>3, <2>1, Zenon DEF Sent
    <2>3. room <= Len(new)
      BY <1>1, <1>3, SizesAssumption
    <2>4. SubSeq(new, 1, room) \in Seq(Events) /\ Len(SubSeq(new, 1, room)) <= Len(new)
          /\ \A i \in 1 .. Len(SubSeq(new, 1, room)) : SubSeq(new, 1, room)[i] = new[i]
      BY <1>1, <2>3
    <2> DEFINE part == SubSeq(new, 1, room)
    <2> HIDE DEF part, room, m
    <2> QED
      BY <1>1, <1>3, <2>2, <2>4 DEF part
  <1>4. CASE op' = Down /\ events' = << >>
    BY <1>4
  <1> QED
    BY <1>2, <1>3, <1>4 DEF Send

\* The states of the node are told apart by their kinds.
LEMMA OpKinds ==
    ASSUME TypeOK
    PROVE  /\ Running.kind # "reset" /\ Down.kind # "reset"
           /\ Panicked.kind # "reset" /\ NotStarted.kind # "reset"
           /\ Down # Running /\ Down # Panicked /\ Down # NotStarted
           /\ Running # Panicked /\ Running # NotStarted /\ Panicked # NotStarted
           /\ op.kind = "reset" => op \in Resets
           /\ op.kind = "reset" => op \notin {Running, Down, Panicked, NotStarted}
  <1>1. /\ Running.kind = "running" /\ Down.kind = "down"
        /\ Panicked.kind = "panicked" /\ NotStarted.kind = "notStarted"
    BY DEF Running, Down, Panicked, NotStarted
  <1> QED
    BY <1>1 DEF TypeOK

\* A reset has a kind of its own.
LEMMA ResetKind ==
    ASSUME NEW r \in Resets
    PROVE  r.kind = "reset" /\ r \notin {Running, Down, Panicked, NotStarted}
  BY DEF Resets, Running, Down, Panicked, NotStarted

\* An added block is not taken for a diff.
LEMMA BlockAddedIsNoChange == BlockAdded \notin Changes
  BY DEF BlockAdded, Changes

\* A diff stays right while virtual moves on.
LEMMA GrowChanges ==
    ASSUME TypeOK, Len(history') \in Nat, Len(history') >= Len(history),
           \A v \in 1 .. Len(history) : history'[v] = history[v],
           NEW e, ChangeOK(e)
    PROVE  ChangeOK(e)'
  <1>1. Len(history) \in Nat
    BY DEF TypeOK
  <1>2. e.from \in 1 .. Len(history) /\ e.parents \in 1 .. Len(history) /\ e.from \in 1 .. Len(history') - 1
    BY <1>1 DEF ChangeOK
  <1>3. Set(e.from)' = Set(e.from) /\ Set(e.parents)' = Set(e.parents)
    BY <1>2 DEF Set
  <1> QED
    BY <1>2, <1>3 DEF ChangeOK

\* An index that is exact stays exact while virtual moves on.
LEMMA GrowExact ==
    ASSUME TypeOK, ParentsOK, Len(history') \in Nat, Len(history') >= Len(history),
           \A v \in 1 .. Len(history) : history'[v] = history[v],
           UNCHANGED <<db, misapplied>>, IndexIsExact
    PROVE  IndexIsExact' /\ ParentsOK'
  <1>1. Len(history) \in Nat /\ db.parents \in Nat
    BY DEF TypeOK, Indexes
  <1>2. ParentsOK'
    BY <1>1 DEF ParentsOK
  <1>3. db.parents # 0 => history'[db.parents] = history[db.parents]
    BY <1>1 DEF ParentsOK
  <1>4. Indexed' = Indexed
    BY DEF Indexed
  <1> QED
    BY <1>2, <1>3, <1>4 DEF IndexIsExact

\* A reset copies the virtual it began with while virtual moves on.
LEMMA GrowReset ==
    ASSUME TypeOK, Len(history') \in Nat, Len(history') >= Len(history),
           \A v \in 1 .. Len(history) : history'[v] = history[v],
           UNCHANGED <<db, op>>, ResetOK
    PROVE  ResetOK'
  <1> SUFFICES ASSUME op.kind = "reset" PROVE ResetOK'
    BY DEF ResetOK
  <1>1. Len(history) \in Nat
    BY DEF TypeOK
  <1>2. Indexed' = Indexed
    BY DEF Indexed
  <1>3. \A os : CountsAre(os)' <=> CountsAre(os)
    BY DEF CountsAre
  <1>4. CASE op.stage \notin Copying
    BY <1>4, <1>2, <1>3, Zenon DEF ResetOK, Copying
  <1>5. CASE op.stage \in Copying
    <2>1. op.virtual \in 1 .. Len(history) /\ op.virtual \in 1 .. Len(history')
      BY <1>1, <1>5 DEF ResetOK
    <2>2. Set(op.virtual)' = Set(op.virtual)
      BY <2>1 DEF Set
    <2>3. Copied' = Copied /\ Ahead' = Ahead
      BY <2>2 DEF Copied, Ahead
    <2>4. Exact(Copied)' <=> Exact(Copied)
      BY <1>2, <2>3 DEF Exact, CountsAre
    <2>5. Exact(Set(op.virtual))' <=> Exact(Set(op.virtual))
      BY <1>2, <2>2, ZenonT(30) DEF Exact, CountsAre
    <2>6. PageOK' <=> PageOK
      BY <1>2, <2>3 DEF PageOK, CountsAre
    <2> QED
      BY <2>1, <2>4, <2>5, <2>6, <1>2, ZenonT(30) DEF ResetOK
  <1> QED
    BY <1>4, <1>5, ZenonT(30)

-----------------------------------------------------------------------------
(* The initial state.                                                      *)

\* A node that was never started has an index that is not marked.
LEMMA InitIInv == Init => IInv
  <1> SUFFICES ASSUME Init PROVE IInv
    OBVIOUS
  <1>1. PICK set \in VirtualSets : history = <<set>>
    BY DEF Init
  <1>2. history \in Seq(VirtualSets) /\ Len(history) = 1
    BY <1>1
  <1>3. events = << >> /\ events \in Seq(Events) /\ Len(events) = 0
    BY DEF Init
  <1>4. db \in Indexes /\ db.parents = 0
    BY DEF Init, EmptyIndex, Indexes, Absent
  <1>5. op = Down /\ op.kind = "down"
    BY DEF Init, Down
  <1>6. TypeOK
    <2>1. Len(history) >= 1 /\ op \in {Down, Running, Panicked, NotStarted} \cup Resets
      BY <1>2, <1>5
    <2>2. override \in BOOLEAN /\ lost \in BOOLEAN /\ misapplied \in BOOLEAN /\ overrides \in Nat
      BY Zenon DEF Init
    <2> QED
      BY <1>2, <1>3, <1>4, <2>1, <2>2, ZenonT(30) DEF TypeOK
  <1>7. ParentsOK /\ EventsOK /\ ResetOK /\ NewOK
    BY <1>2, <1>3, <1>4, <1>5 DEF ParentsOK, EventsOK, ResetOK, NewOK
  <1>8. OverrideOK /\ Contiguous /\ IndexIsExact /\ DiffsAreContiguous
    BY <1>4, <1>5, <1>6, OpKinds, ZenonT(30) DEF Init, OverrideOK, Contiguous, IndexIsExact, DiffsAreContiguous
  <1> QED
    BY <1>6, <1>7, <1>8 DEF IInv

-----------------------------------------------------------------------------
(* Steps of consensus.                                                     *)

\* A node that goes down, or comes to rest, has nothing to keep but its database.
LEMMA StopsOK ==
    ASSUME IInv, TypeOK', op' \in {Down, Panicked}, events' = << >> \/ UNCHANGED <<events, history>>,
           UNCHANGED <<override, overrides>>
    PROVE  EventsOK' /\ ResetOK' /\ NewOK' /\ OverrideOK' /\ Contiguous'
  <1>1. op' # Running /\ op'.kind # "reset"
    BY OpKinds DEF IInv
  <1>2. EventsOK'
    <2>1. CASE events' = << >>
      BY <2>1 DEF EventsOK
    <2>2. CASE UNCHANGED <<events, history>>
      BY <2>2, Zenon DEF IInv, EventsOK, ChangeOK, Set
    <2> QED
      BY <2>1, <2>2
  <1> QED
    BY <1>1, <1>2 DEF ResetOK, NewOK, OverrideOK, Contiguous, IInv

\* What may happen while blocks are added does not happen beside New.
LEMMA NotBesideNew ==
    ASSUME IInv, MayAddBlocks
    PROVE  op.kind = "reset" => op.by # "new"
  BY OpKinds DEF IInv, MayAddBlocks

\* A block that moves no virtual is sent, or lost in a full channel.
LEMMA InsertBlockStep ==
    ASSUME IInv, InsertBlock
    PROVE  IInv'
  <1> DEFINE new == <<BlockAdded>>
  <1>1. /\ Send(new) /\ MayAddBlocks
        /\ UNCHANGED <<history, db, override, lost, misapplied, overrides>>
    BY DEF InsertBlock
  <1>2. TypeOK /\ new \in Seq(Events) /\ Len(new) = 1 /\ new[1] = BlockAdded
    BY DEF IInv, Events
  <1>3. Len(history) \in Nat /\ Len(events) \in Nat
    BY <1>2 DEF TypeOK
  <1>4. IndexIsExact' /\ ParentsOK'
    BY <1>1, <1>3, GrowExact DEF IInv
  <1>5. CASE op' = Down /\ events' = << >>
    <2>1. TypeOK'
      BY <1>1, <1>2, <1>5 DEF TypeOK
    <2>2. DiffsAreContiguous'
      BY <1>1, <1>2, <1>5, OpKinds, Zenon DEF IInv, DiffsAreContiguous
    <2> QED
      BY <1>1, <1>4, <1>5, <2>1, <2>2, StopsOK, Zenon DEF IInv
  <1>6. CASE /\ op' = op /\ events' \in Seq(Events) /\ Len(events') >= Len(events)
             /\ \A i \in 1 .. Len(events') :
                   events'[i] = IF i <= Len(events) THEN events[i] ELSE BlockAdded
    <2>1. TypeOK'
      BY <1>1, <1>2, <1>6, ZenonT(30) DEF TypeOK
    <2>2. Len(events') \in Nat
      BY <1>6
    <2>3. \A i \in 1 .. Len(events') : events'[i] \in Changes => i \in 1 .. Len(events) /\ events'[i] = events[i]
      BY <1>3, <1>6, <2>2, BlockAddedIsNoChange
    <2>4. \A i \in 1 .. Len(events) : i \in 1 .. Len(events') /\ events'[i] = events[i]
      BY <1>3, <1>6, <2>2
    <2>5. EventsOK'
      BY <1>1, <2>3, ZenonT(30) DEF IInv, EventsOK, ChangeOK, Set
    <2>6. ResetOK'
      BY <1>1, <1>2, <1>3, <1>6, GrowReset DEF IInv
    <2>7. NewOK' /\ OverrideOK'
      BY <1>1, <1>6, NotBesideNew, Zenon DEF IInv, NewOK, OverrideOK
    <2>8. Contiguous'
      <3> SUFFICES ASSUME op = Running, ~ lost, overrides = 0 PROVE Contiguous'
        BY <1>1, <1>6, Zenon DEF Contiguous
      <3>1. /\ \A i \in 1 .. Len(events) : IsChange(i) => events[i].from >= db.parents
            /\ \A i, j \in 1 .. Len(events) :
                  IsChange(i) /\ IsChange(j) /\ i < j => events[i].from < events[j].from
            /\ \A v \in db.parents .. Len(history) - 1 :
                  \E i \in 1 .. Len(events) : IsChange(i) /\ events[i].from = v
        BY Zenon DEF IInv, Contiguous
      <3>2. \A i \in 1 .. Len(events') : IsChange(i)' => events'[i].from >= db'.parents
        BY <1>1, <2>3, <3>1, ZenonT(30) DEF IsChange
      <3>3. \A i, j \in 1 .. Len(events') : IsChange(i)' /\ IsChange(j)' /\ i < j => events'[i].from < events'[j].from
        BY <2>3, <3>1, ZenonT(30) DEF IsChange
      <3>4. \A v \in db'.parents .. Len(history') - 1 : \E i \in 1 .. Len(events') : IsChange(i)' /\ events'[i].from = v
        BY <1>1, <2>4, <3>1, ZenonT(30) DEF IsChange
      <3> QED
        BY <3>2, <3>3, <3>4, Zenon DEF Contiguous
    <2>9. DiffsAreContiguous'
      BY <1>1, <1>6 DEF IInv, DiffsAreContiguous
    <2> QED
      BY <1>4, <2>1, <2>5, <2>6, <2>7, <2>8, <2>9, ZenonT(30) DEF IInv
  <1>7. Len(events') <= Len(events) + 1 /\ op' = op /\ events' \in Seq(Events) =>
          \A i \in 1 .. Len(events') : ~ (i <= Len(events)) => i - Len(events) = 1
    BY <1>3
  <1> QED
    BY <1>1, <1>2, <1>5, <1>6, <1>7, SendAppends, ZenonT(30)

\* Virtual moves on: what is true of the sets so far stays true.
LEMMA HistoryGrows ==
    ASSUME TypeOK, NEW set \in VirtualSets, history' = Append(history, set)
    PROVE  /\ history' \in Seq(VirtualSets) /\ Len(history) \in Nat /\ Len(history) >= 1
           /\ Len(history') = Len(history) + 1
           /\ \A v \in 1 .. Len(history) : history'[v] = history[v]
           /\ history'[Len(history) + 1] = set
  BY DEF TypeOK

\* Virtual moves, and its diff is sent, or lost in a full channel.
LEMMA MoveVirtualStep ==
    ASSUME IInv, NEW set \in VirtualSets, NEW byBlock \in BOOLEAN, MoveVirtual(set, byBlock)
    PROVE  IInv'
  <1> DEFINE change == VirtualChangeSet(set)
             new == IF byBlock THEN <<BlockAdded, change>> ELSE <<change>>
             n == Len(history)
             m == Len(events)
  <1>1. /\ Send(new) /\ MayAddBlocks
        /\ history' = Append(history, set)
        /\ lost' = (lost \/ m + Len(new) > Capacity)
        /\ UNCHANGED <<db, override, misapplied, overrides>>
    BY DEF MoveVirtual
  <1>2. TypeOK
    BY DEF IInv
  <1>3. /\ history' \in Seq(VirtualSets) /\ n \in Nat /\ n >= 1 /\ Len(history') = n + 1
        /\ \A v \in 1 .. n : history'[v] = history[v]
        /\ history'[n + 1] = set
    BY <1>1, <1>2, HistoryGrows, Zenon
  <1>4. /\ change \in Changes /\ change.from = n /\ change.parents = n + 1
        /\ DOMAIN Staged(change).toAdd = DOMAIN set \ DOMAIN VirtualSet
        /\ DOMAIN Staged(change).toRemove = DOMAIN VirtualSet \ DOMAIN set
    BY <1>2, ChangeLeads
  <1>5. \A e : e = change => ChangeOK(e)'
    <2>1. history'[n] = VirtualSet /\ history'[n + 1] = set
      BY <1>3 DEF VirtualSet
    <2>2. n \in 1 .. Len(history') - 1
      BY <1>3
    <2> SUFFICES ASSUME NEW e, e = change PROVE ChangeOK(e)'
      OBVIOUS
    <2>3. e.from = n /\ e.parents = n + 1
      BY <1>4, Zenon
    <2>4. Set(e.from)' = DOMAIN VirtualSet /\ Set(e.parents)' = DOMAIN set
      BY <2>1, <2>3, Zenon DEF Set
    <2>5. /\ DOMAIN Staged(e).toAdd = Set(e.parents)' \ Set(e.from)'
          /\ DOMAIN Staged(e).toRemove = Set(e.from)' \ Set(e.parents)'
      BY <1>4, <2>4, Zenon
    <2>6. e.from \in 1 .. Len(history') - 1 /\ e.parents = e.from + 1
      BY <2>2, <2>3, Zenon
    <2> QED
      BY <2>5, <2>6, Zenon DEF ChangeOK
  <1> HIDE DEF change
  <1>6. /\ new \in Seq(Events) /\ Len(new) \in 1 .. 2 /\ new[Len(new)] = change
        /\ \A i \in 1 .. Len(new) : new[i] \in Changes => new[i] = change /\ i = Len(new)
    <2>1. BlockAdded \in Events /\ change \in Events
      BY <1>4, Zenon DEF Events
    <2>2. CASE byBlock
      BY <1>4, <2>1, <2>2, BlockAddedIsNoChange
    <2>3. CASE ~ byBlock
      BY <1>4, <2>1, <2>3
    <2> QED
      BY <2>2, <2>3, Zenon
  <1> HIDE DEF new
  <1>7. IndexIsExact' /\ ParentsOK'
    BY <1>1, <1>2, <1>3, GrowExact DEF IInv
  <1>8. m \in Nat
    BY <1>2 DEF TypeOK
  <1>9. CASE op' = Down /\ events' = << >>
    <2>1. TypeOK'
      BY <1>1, <1>2, <1>3, <1>9 DEF TypeOK
    <2>2. DiffsAreContiguous'
      BY <1>1, <1>2, <1>9, OpKinds, ZenonT(30) DEF IInv, DiffsAreContiguous
    <2> QED
      BY <1>1, <1>7, <1>9, <2>1, <2>2, StopsOK, Zenon DEF IInv
  <1>10. CASE /\ op' = op /\ events' \in Seq(Events) /\ Len(events') >= m
              /\ Len(events') <= m + Len(new)
              /\ m + Len(new) <= Capacity => Len(events') = m + Len(new)
              /\ \A i \in 1 .. Len(events') : events'[i] = IF i <= m THEN events[i] ELSE new[i - m]
    <2>1. TypeOK'
      BY <1>1, <1>2, <1>3, <1>10 DEF TypeOK
    <2>2. Len(events') \in Nat
      BY <1>10
    <2>3. \A i \in 1 .. Len(events') : events'[i] \in Changes =>
            \/ i \in 1 .. m /\ events'[i] = events[i]
            \/ i = m + Len(new) /\ events'[i] = change
      <3> SUFFICES ASSUME NEW i \in 1 .. Len(events'), events'[i] \in Changes, ~ (i <= m)
                   PROVE  i = m + Len(new) /\ events'[i] = change
        BY <1>8, <1>10, <2>2
      <3>1. i - m \in 1 .. Len(new) /\ events'[i] = new[i - m]
        BY <1>6, <1>8, <1>10, <2>2
      <3> QED
        BY <1>6, <1>8, <2>2, <3>1
    <2>4. \A i \in 1 .. m : i \in 1 .. Len(events') /\ events'[i] = events[i]
      BY <1>8, <1>10, <2>2
    <2>5. EventsOK'
      <3> SUFFICES ASSUME NEW i \in 1 .. Len(events'), events'[i] \in Changes
                   PROVE  ChangeOK(events[i])'
        BY DEF EventsOK
      <3>1. CASE i \in 1 .. m /\ events'[i] = events[i]
        <4>1. ChangeOK(events[i])
          BY <3>1 DEF IInv, EventsOK
        <4>2. \A e : e = events[i] => ChangeOK(e)'
          BY <1>2, <1>3, <4>1, GrowChanges
        <4> QED
          BY <3>1, <4>2
      <3>2. CASE events'[i] = change
        BY <3>2, <1>5, ZenonT(30)
      <3> QED
        BY <2>3, <3>1, <3>2
    <2>6. ResetOK'
      BY <1>1, <1>2, <1>3, <1>10, GrowReset DEF IInv
    <2>7. NewOK' /\ OverrideOK'
      BY <1>1, <1>10, NotBesideNew, ZenonT(30) DEF IInv, NewOK, OverrideOK
    <2>8. Contiguous'
      <3> SUFFICES ASSUME op = Running, ~ lost', overrides = 0 PROVE Contiguous'
        BY <1>1, <1>10, Zenon DEF Contiguous
      <3>1. ~ lost /\ Len(events') = m + Len(new) /\ db' = db
        <4>1. ~ lost /\ ~ (m + Len(new) > Capacity) /\ db' = db
          BY <1>1, Zenon
        <4>2. m \in Nat /\ Len(new) \in Nat /\ Capacity \in Nat
          BY <1>6, <1>8, SizesAssumption
        <4>3. m + Len(new) <= Capacity
          BY <4>1, <4>2
        <4> QED
          BY <1>10, <4>1, <4>3, ZenonT(30)
      <3>2. events'[m + Len(new)] = change /\ m + Len(new) \in 1 .. Len(events')
        <4>1. m + Len(new) \in 1 .. Len(events') /\ ~ (m + Len(new) <= m) /\ m + Len(new) - m = Len(new)
          BY <1>6, <1>8, <3>1
        <4>2. \A k \in 1 .. Len(events') : ~ (k <= m) => events'[k] = new[k - m]
          BY <1>10, Zenon
        <4>3. events'[m + Len(new)] = new[m + Len(new) - m]
          <5> DEFINE k == m + Len(new)
          <5>1. k \in 1 .. Len(events') /\ ~ (k <= m)
            BY <4>1, Zenon
          <5> HIDE DEF k
          <5>2. events'[k] = new[k - m]
            BY <4>2, <5>1, Zenon
          <5> QED
            BY <5>2 DEF k
        <4> QED
          BY <1>6, <4>1, <4>3, ZenonT(30)
      <3>3. \A i \in 1 .. m : events[i] \in Changes => events[i].from \in Nat /\ events[i].from < n /\ events[i].from >= db.parents
        BY <1>3, <3>1 DEF IInv, EventsOK, ChangeOK, Contiguous, IsChange
      <3>4. \A i \in 1 .. Len(events') : IsChange(i)' => events'[i].from >= db.parents
        <4>1. n >= db.parents
          BY <1>2, <1>3, Zenon DEF IInv, ParentsOK, TypeOK, Indexes
        <4> SUFFICES ASSUME NEW i \in 1 .. Len(events'), events'[i] \in Changes
                     PROVE  events'[i].from >= db.parents
          BY Zenon DEF IsChange
        <4>2. CASE i \in 1 .. m /\ events'[i] = events[i]
          BY <3>3, <4>2, Zenon
        <4>3. CASE events'[i] = change
          BY <1>4, <4>1, <4>3, ZenonT(30)
        <4> QED
          BY <2>3, <4>2, <4>3, ZenonT(30)
      <3>5. ASSUME NEW i \in 1 .. Len(events'), NEW j \in 1 .. Len(events'), IsChange(i)', IsChange(j)', i < j
            PROVE  events'[i].from < events'[j].from
        <4>1. i \in 1 .. m /\ events'[i] = events[i]
          <5>1. i # m + Len(new)
            BY <1>6, <1>8, <3>1, <3>5
          <5>2. events'[i] \in Changes
            BY <3>5, ZenonT(30) DEF IsChange
          <5> QED
            BY <2>3, <5>1, <5>2, ZenonT(30)
        <4>2. CASE j \in 1 .. m /\ events'[j] = events[j]
          BY <3>1, <3>5, <4>1, <4>2, ZenonT(30) DEF IInv, Contiguous, IsChange
        <4>3. CASE events'[j] = change
          BY <1>4, <3>3, <3>5, <4>1, <4>3, ZenonT(30) DEF IsChange
        <4> QED
          BY <2>3, <3>5, <4>2, <4>3, Zenon DEF IsChange
      <3>6. ASSUME NEW v \in db.parents .. Len(history') - 1
            PROVE  \E i \in 1 .. Len(events') : IsChange(i)' /\ events'[i].from = v
        <4>0. db.parents \in Nat
          BY <1>2, ZenonT(30) DEF TypeOK, Indexes
        <4>1. CASE v = n
          BY <1>4, <3>2, <4>1, ZenonT(30) DEF IsChange
        <4>2. CASE v # n
          <5>1. v \in db.parents .. n - 1
            BY <1>3, <4>0, <4>2
          <5>2. PICK i \in 1 .. m : IsChange(i) /\ events[i].from = v
            BY <3>1, <5>1, ZenonT(30) DEF IInv, Contiguous
          <5> QED
            BY <2>4, <5>2, ZenonT(30) DEF IsChange
        <4> QED
          BY <4>1, <4>2, ZenonT(30)
      <3> QED
        BY <3>1, <3>4, <3>5, <3>6, ZenonT(30) DEF Contiguous
    <2>9. DiffsAreContiguous'
      BY <1>1, <1>10, Zenon DEF IInv, DiffsAreContiguous
    <2> QED
      BY <1>7, <2>1, <2>5, <2>6, <2>7, <2>8, <2>9, Zenon DEF IInv
  <1> QED
    BY <1>1, <1>2, <1>6, <1>9, <1>10, SendAppends, Zenon

\* An IBD replaces the consensus, and its virtual.
LEMMA CommitStagingConsensusStep ==
    ASSUME IInv, NEW set \in VirtualSets, CommitStagingConsensus(set)
    PROVE  IInv'
  <1>1. /\ op = Running
        /\ history' = Append(history, set) /\ override' = TRUE /\ overrides' = overrides + 1
        /\ UNCHANGED <<events, db, op, lost, misapplied>>
    BY DEF CommitStagingConsensus
  <1>2. TypeOK /\ overrides \in Nat
    BY Zenon DEF IInv, TypeOK
  <1>3. /\ history' \in Seq(VirtualSets) /\ Len(history) \in Nat /\ Len(history) >= 1
        /\ Len(history') = Len(history) + 1
        /\ \A v \in 1 .. Len(history) : history'[v] = history[v]
    BY <1>1, <1>2, HistoryGrows, ZenonT(30)
  <1>4. IndexIsExact' /\ ParentsOK'
    BY <1>1, <1>2, <1>3, GrowExact DEF IInv
  <1>5. TypeOK'
    BY <1>1, <1>2, <1>3 DEF TypeOK
  <1>6. EventsOK'
    <2> SUFFICES ASSUME NEW i \in 1 .. Len(events), events[i] \in Changes
                 PROVE  \A e : e = events[i] => ChangeOK(e)'
      BY <1>1, ZenonT(30) DEF EventsOK
    <2>1. ChangeOK(events[i])
      BY Zenon DEF IInv, EventsOK
    <2> QED
      BY <1>2, <1>3, <2>1, GrowChanges
  <1>7. ResetOK'
    BY <1>1, <1>2, <1>3, GrowReset, SMTT(30) DEF IInv
  <1>8. NewOK' /\ OverrideOK' /\ Contiguous'
    BY <1>1, <1>2, OpKinds DEF NewOK, OverrideOK, Contiguous
  <1>9. DiffsAreContiguous'
    BY <1>1, <1>2 DEF IInv, DiffsAreContiguous
  <1> QED
    BY <1>4, <1>5, <1>6, <1>7, <1>8, <1>9, ZenonT(30) DEF IInv

-----------------------------------------------------------------------------
(* The handler of the events.                                              *)

\* Without a loss and an override the next diff starts where the index is.
LEMMA NextChange ==
    ASSUME IInv, op = Running, ~ lost, overrides = 0, events # << >>, events[1] \in Changes
    PROVE  events[1].from = db.parents
  <1>1. Len(events) \in Nat /\ 1 \in 1 .. Len(events) /\ db.parents \in Nat /\ Len(history) \in Nat
    BY SMTT(30) DEF IInv, TypeOK, Indexes
  <1>2. events[1].from \in 1 .. Len(history) - 1 /\ events[1].from >= db.parents
    BY <1>1, Zenon DEF IInv, EventsOK, ChangeOK, Contiguous, IsChange
  <1>3. db.parents \in db.parents .. Len(history) - 1
    BY <1>1, <1>2
  <1>4. PICK i \in 1 .. Len(events) : IsChange(i) /\ events[i].from = db.parents
    BY <1>3, Zenon DEF IInv, Contiguous
  <1>5. 1 < i => events[1].from < events[i].from
    BY <1>1, <1>4, Zenon DEF IInv, Contiguous, IsChange
  <1> QED
    BY <1>1, <1>2, <1>4, <1>5

\* A diff that starts at the virtual of an exact index is applied, and the index
\* is exact for the next virtual.
LEMMA UpdateIsExact ==
    ASSUME TypeOK, NEW e \in Changes, ChangeOK(e), Exact(Set(e.from))
    PROVE  /\ ~ CommitFails(Staged(e))
           /\ \A d : d = Updated(e, Staged(e)) =>
                 /\ {o \in Outpoints : d.entries[o] # Absent} = Set(e.parents)
                 /\ d.supply = Sum(Set(e.parents))
                 /\ \A s \in Scripts : d.counts[s] = CountOf(s, Set(e.parents))
  <1> DEFINE A == Set(e.from)
             B == Set(e.parents)
             st == Staged(e)
  <1>1. A \in SUBSET Outpoints /\ B \in SUBSET Outpoints
    BY SetType, SMTT(30) DEF ChangeOK, TypeOK
  <1>2. DOMAIN st.toAdd = B \ A /\ DOMAIN st.toRemove = A \ B
    BY DEF ChangeOK
  <1>3. Indexed = A /\ db.supply = Sum(A) /\ \A s \in Scripts : db.counts[s] = CountOf(s, A)
    BY Zenon DEF Exact, CountsAre
  <1>4. Sum(A) \in Nat /\ Sum(B) = AddSupply(Sum(A), B \ A, A \ B)
    BY <1>1, SumAfterMove, Zenon
  <1>5. ASSUME NEW s \in Scripts
        PROVE  CountOf(s, B) \in Nat /\ db.counts[s] + CountDelta(st, s) = CountOf(s, B)
    <2>1. /\ CountOf(s, A) \in Nat /\ CountOf(s, B) \in Nat
          /\ CountOf(s, B \ A) \in Nat /\ CountOf(s, A \ B) \in Nat
          /\ CountOf(s, B) = CountOf(s, A) + CountOf(s, B \ A) - CountOf(s, A \ B)
      BY <1>1, CountAfterMove, Zenon
    <2>2. db.counts[s] = CountOf(s, A) /\ CountDelta(st, s) = CountOf(s, B \ A) - CountOf(s, A \ B)
      BY <1>2, <1>3, ZenonT(30) DEF CountDelta
    <2> QED
      BY <2>1, <2>2
  <1>6. ~ CommitFails(st)
    BY <1>3, <1>4, <1>5 DEF CommitFails, Absent
  <1>7. \A o \in DOMAIN st.toAdd : st.toAdd[o] \in Nat
    BY RestrictType, ZenonT(30) DEF Staged, Changes
  <1> SUFFICES ASSUME NEW d, d = Updated(e, st)
               PROVE  /\ {o \in Outpoints : d.entries[o] # Absent} = B
                      /\ d.supply = Sum(B)
                      /\ \A s \in Scripts : d.counts[s] = CountOf(s, B)
    BY <1>6
  <1> HIDE DEF A, B, st
  <1>8. /\ d.entries = [o \in Outpoints |-> IF o \in DOMAIN st.toAdd THEN st.toAdd[o]
                                            ELSE IF o \in DOMAIN st.toRemove THEN Absent ELSE db.entries[o]]
        /\ d.supply = AddSupply(db.supply, DOMAIN st.toAdd, DOMAIN st.toRemove)
        /\ d.counts = [s \in Scripts |-> db.counts[s] + CountDelta(st, s)]
    BY ZenonT(30) DEF Updated, TypeOK, Indexes
  <1>9. ASSUME NEW o \in Outpoints PROVE d.entries[o] # Absent <=> o \in B
    BY <1>2, <1>3, <1>7, <1>8 DEF Indexed, Absent
  <1>10. {o \in Outpoints : d.entries[o] # Absent} = B
    BY <1>1, <1>9, Zenon
  <1>11. d.supply = Sum(B)
    BY <1>2, <1>3, <1>4, <1>8, Zenon
  <1>12. \A s \in Scripts : d.counts[s] = CountOf(s, B)
    BY <1>5, <1>8, Zenon
  <1> QED
    BY <1>10, <1>11, <1>12, Zenon

\* Sums are amounts, and so is an updated supply.
LEMMA SupplyType ==
    ASSUME NEW supply \in Int, NEW A \in SUBSET Outpoints, NEW B \in SUBSET Outpoints
    PROVE  Sum(A) \in Nat /\ AddSupply(supply, A, B) \in Int
  <1>1. Sum(A) \in Nat /\ Sum(B) \in Nat
    BY SumAfterMove, Zenon
  <1>2. supply + Sum(A) - Sum(B) \in Int
    BY <1>1
  <1>3. (supply + Sum(A) - Sum(B)) % Word \in Nat
    BY <1>2, DivMod, Zenon
  <1> QED
    BY <1>1, <1>3 DEF AddSupply

\* Update keeps the types of the database.
LEMMA UpdatedType ==
    ASSUME TypeOK, NEW e \in Changes
    PROVE  Updated(e, Staged(e)) \in Indexes /\ Updated(e, Staged(e)).parents = e.parents
  <1> DEFINE st == Staged(e)
  <1>0. e.toAdd \in Entries /\ e.toRemove \in Entries /\ e.parents \in Nat
    BY Zenon DEF Changes
  <1>1. st.toAdd \in Entries /\ st.toRemove \in Entries
    BY <1>0, RestrictType, Zenon DEF Staged
  <1>2. DOMAIN st.toAdd \in SUBSET Outpoints /\ DOMAIN st.toRemove \in SUBSET Outpoints
        /\ \A o \in DOMAIN st.toAdd : st.toAdd[o] \in Nat
    BY <1>1 DEF Entries
  <1> HIDE DEF st
  <1>3. AddSupply(db.supply, DOMAIN st.toAdd, DOMAIN st.toRemove) \in Int
    BY <1>2, SupplyType, ZenonT(30) DEF TypeOK, Indexes
  <1>4. ASSUME NEW s \in Scripts PROVE CountDelta(st, s) \in Int
    <2>1. CountOf(s, DOMAIN st.toAdd) \in Nat /\ CountOf(s, DOMAIN st.toRemove) \in Nat
      BY <1>2, CountAfterMove, ZenonT(30)
    <2> QED
      BY <2>1 DEF CountDelta
  <1>5. [s \in Scripts |-> db.counts[s] + CountDelta(st, s)] \in [Scripts -> Int]
    BY <1>4 DEF TypeOK, Indexes
  <1>6. [o \in Outpoints |-> IF o \in DOMAIN st.toAdd THEN st.toAdd[o]
                             ELSE IF o \in DOMAIN st.toRemove THEN Absent ELSE db.entries[o]] \in [Outpoints -> Int]
    BY <1>2 DEF TypeOK, Indexes, Absent
  <1>7. Updated(e, st) \in Indexes /\ Updated(e, st).parents = e.parents
    BY <1>0, <1>3, <1>5, <1>6, ZenonT(30) DEF Updated, TypeOK, Indexes
  <1> QED
    BY <1>7 DEF st

\* The events that are left are in the order they were in.
LEMMA ShiftedOrder ==
    ASSUME IInv, op = Running, ~ lost, overrides = 0,
           NEW i \in 1 .. Len(events'), NEW j \in 1 .. Len(events'),
           IsChange(i)', IsChange(j)', i < j,
           \A k \in 1 .. Len(events') : k + 1 \in 1 .. Len(events) /\ events'[k] = events[k + 1]
    PROVE  events'[i].from < events'[j].from
  <1>1. /\ events'[i] = events[i + 1] /\ i + 1 \in 1 .. Len(events)
        /\ events'[j] = events[j + 1] /\ j + 1 \in 1 .. Len(events)
    BY Zenon
  <1>2. IsChange(i + 1) /\ IsChange(j + 1)
    BY <1>1, Zenon DEF IsChange
  <1>3. i + 1 < j + 1
    OBVIOUS
  <1>4. events[i + 1].from < events[j + 1].from
    BY <1>1, <1>2, <1>3, Zenon DEF IInv, Contiguous
  <1> QED
    BY <1>1, <1>4, Zenon

\* An event is taken from the channel; a diff is applied in one transaction.
LEMMA HandleEventStep ==
    ASSUME IInv, HandleEvent
    PROVE  IInv'
  <1> DEFINE e == Head(events)
             st == Staged(e)
             m == Len(events)
  <1>1. op = Running /\ events # << >> /\ UNCHANGED <<history, override, lost, overrides>>
    BY DEF HandleEvent
  <1>2. TypeOK
    BY DEF IInv
  <1>3. m \in Nat /\ m >= 1 /\ e = events[1] /\ e \in Events
    BY <1>1, <1>2 DEF TypeOK
  <1>4. /\ Tail(events) \in Seq(Events) /\ Len(Tail(events)) = m - 1
        /\ \A i \in 1 .. m - 1 : Tail(events)[i] = events[i + 1]
    BY <1>1, <1>2 DEF TypeOK
  <1>5. op.kind # "reset" /\ Running # NotStarted /\ Running # Panicked
    BY <1>1, <1>2, OpKinds, ZenonT(30)
  <1>6. events' = Tail(events) => EventsOK'
    <2> SUFFICES ASSUME events' = Tail(events), NEW i \in 1 .. m - 1, Tail(events)[i] \in Changes
                 PROVE  ChangeOK(events[i])'
      BY <1>4, ZenonT(30) DEF EventsOK
    <2>1. events'[i] = events[i + 1] /\ i + 1 \in 1 .. m
      BY <1>3, <1>4
    <2>2. ChangeOK(events[i + 1])
      BY <1>4, <2>1, ZenonT(30) DEF IInv, EventsOK
    <2> QED
      BY <1>1, <2>1, <2>2, ZenonT(30) DEF ChangeOK, Set
  <1>7. op' = op => ResetOK' /\ NewOK' /\ OverrideOK'
    BY <1>1, <1>5, ZenonT(30) DEF IInv, ResetOK, NewOK, OverrideOK
  <1>8. CASE e = BlockAdded
    <2>1. events' = Tail(events) /\ UNCHANGED <<db, op, misapplied>>
      BY <1>8, ZenonT(30) DEF HandleEvent
    <2>2. TypeOK'
      BY <1>1, <1>2, <1>4, <2>1, ZenonT(30) DEF TypeOK
    <2>3. ~ IsChange(1)
      BY <1>3, <1>8, BlockAddedIsNoChange, ZenonT(30) DEF IsChange
    <2>4. Contiguous'
      <3> SUFFICES ASSUME ~ lost, overrides = 0 PROVE Contiguous'
        BY <1>1, ZenonT(30) DEF Contiguous
      <3>1. \A i \in 1 .. Len(events') : i + 1 \in 1 .. m /\ events'[i] = events[i + 1]
        BY <1>3, <1>4, <2>1
      <3>2. \A i \in 1 .. m : i # 1 => i - 1 \in 1 .. Len(events') /\ events'[i - 1] = events[i]
        BY <1>3, <1>4, <2>1
      <3>3. \A i \in 1 .. Len(events') : IsChange(i)' => events'[i].from >= db.parents
        BY <1>1, <3>1 DEF IInv, Contiguous, IsChange
      <3>4. ASSUME NEW i \in 1 .. Len(events'), NEW j \in 1 .. Len(events'),
                   IsChange(i)', IsChange(j)', i < j
            PROVE  events'[i].from < events'[j].from
        BY <1>1, <3>1, <3>4, ShiftedOrder, ZenonT(30)
      <3>5. ASSUME NEW v \in db.parents .. Len(history) - 1
            PROVE  \E i \in 1 .. Len(events') : IsChange(i)' /\ events'[i].from = v
        <4>1. PICK i \in 1 .. m : IsChange(i) /\ events[i].from = v
          BY <1>1, Zenon DEF IInv, Contiguous
        <4> QED
          BY <2>3, <3>2, <4>1, Zenon DEF IsChange
      <3> QED
        BY <1>1, <2>1, <3>3, <3>4, <3>5, ZenonT(30) DEF Contiguous
    <2>5. ParentsOK' /\ IndexIsExact' /\ DiffsAreContiguous'
      BY <1>1, <2>1, Zenon DEF IInv, ParentsOK, IndexIsExact, Indexed, DiffsAreContiguous
    <2> QED
      BY <1>6, <1>7, <2>1, <2>2, <2>4, <2>5, ZenonT(30) DEF IInv
  <1>9. CASE e # BlockAdded
    <2>1. /\ misapplied' = (misapplied \/ e.from # db.parents)
          /\ \/ CommitFails(st) /\ op' = Panicked /\ events' = << >> /\ UNCHANGED db
             \/ ~ CommitFails(st) /\ db' = Updated(e, st) /\ events' = Tail(events) /\ UNCHANGED op
      BY <1>9, Zenon DEF HandleEvent
    <2>2. e \in Changes
      BY <1>3, <1>9, ZenonT(30) DEF Events
    <2>3. ChangeOK(e) /\ e.from \in 1 .. Len(history) - 1 /\ e.parents \in 1 .. Len(history)
      <3>1. ChangeOK(e)
        BY <1>3, <2>2 DEF IInv, EventsOK
      <3> QED
        BY <1>2, <3>1 DEF ChangeOK, TypeOK
    <2>4. misapplied' \in BOOLEAN /\ (misapplied' => lost \/ overrides > 0)
      <3>1. ~ lost /\ overrides = 0 => e.from = db.parents
        BY <1>1, <1>3, <2>2, NextChange, Zenon
      <3>2. misapplied => lost \/ overrides > 0
        BY DEF IInv, DiffsAreContiguous
      <3>3. overrides \in Nat /\ misapplied \in BOOLEAN
        BY <1>2 DEF TypeOK
      <3> QED
        BY <2>1, <3>1, <3>2, <3>3
    <2>5. ~ misapplied' => e.from = db.parents /\ Exact(Set(e.from))
      <3> SUFFICES ASSUME ~ misapplied' PROVE e.from = db.parents /\ Exact(Set(e.from))
        OBVIOUS
      <3>1. ~ misapplied /\ e.from = db.parents
        BY <2>1, ZenonT(30)
      <3>2. e.from # 0
        BY <1>2, <2>3 DEF TypeOK
      <3>3. Exact(Set(db.parents))
        BY <3>1, <3>2, Zenon DEF IInv, IndexIsExact, Exact, CountsAre, Set
      <3> QED
        BY <3>1, <3>3, Zenon
    <2> HIDE DEF e
    <2>6. CASE CommitFails(st) /\ op' = Panicked /\ events' = << >> /\ UNCHANGED db
      <3>1. misapplied'
        BY <1>2, <2>2, <2>3, <2>5, <2>6, UpdateIsExact, ZenonT(30)
      <3>2. TypeOK'
        BY <1>1, <1>2, <2>4, <2>6, SMTT(30) DEF TypeOK
      <3>3. ParentsOK' /\ IndexIsExact' /\ DiffsAreContiguous'
        BY <1>1, <1>2, <2>4, <2>6, <3>1, OpKinds, ZenonT(30) DEF IInv, ParentsOK, IndexIsExact, DiffsAreContiguous
      <3> QED
        BY <1>1, <2>6, <3>2, <3>3, StopsOK, ZenonT(30) DEF IInv
    <2>7. CASE ~ CommitFails(st) /\ db' = Updated(e, st) /\ events' = Tail(events) /\ UNCHANGED op
      <3>1. db' \in Indexes /\ db'.parents = e.parents
        BY <1>2, <2>2, <2>7, UpdatedType, ZenonT(30)
      <3>2. TypeOK'
        BY <1>1, <1>2, <1>4, <2>4, <2>7, <3>1, ZenonT(30) DEF TypeOK
      <3>3. ParentsOK'
        BY <1>1, <1>2, <2>3, <3>1, SMTT(30) DEF ParentsOK, TypeOK
      <3>4. IndexIsExact'
        <4> SUFFICES ASSUME ~ misapplied' PROVE IndexIsExact'
          BY ZenonT(30) DEF IndexIsExact
        <4>1. /\ {o \in Outpoints : db'.entries[o] # Absent} = Set(e.parents)
              /\ db'.supply = Sum(Set(e.parents))
              /\ \A s \in Scripts : db'.counts[s] = CountOf(s, Set(e.parents))
          BY <1>2, <2>2, <2>3, <2>5, <2>7, UpdateIsExact, SMTT(30)
        <4> QED
          BY <1>1, <3>1, <4>1, ZenonT(30) DEF IndexIsExact, Indexed, Set
      <3>5. Contiguous'
        <4> SUFFICES ASSUME ~ lost, overrides = 0 PROVE Contiguous'
          BY <1>1 DEF Contiguous
        <4>1. e.from = db.parents /\ e.parents = db.parents + 1 /\ IsChange(1) /\ db.parents \in Nat
          BY <1>1, <1>2, <1>3, <2>2, <2>3, NextChange, Zenon DEF ChangeOK, IsChange, TypeOK, Indexes
        <4>2. \A i \in 1 .. Len(events') : i + 1 \in 1 .. m /\ events'[i] = events[i + 1]
          BY <1>3, <1>4, <2>7
        <4>3. \A i \in 1 .. m : i # 1 => i - 1 \in 1 .. Len(events') /\ events'[i - 1] = events[i]
          BY <1>3, <1>4, <2>7
        <4>4. \A i \in 1 .. Len(events') : IsChange(i)' => events'[i].from >= db'.parents
          <5> SUFFICES ASSUME NEW i \in 1 .. Len(events'), events'[i] \in Changes
                       PROVE  events'[i].from >= db'.parents
            BY DEF IsChange
          <5>1. events'[i] = events[i + 1] /\ i + 1 \in 1 .. m /\ 1 \in 1 .. m /\ 1 < i + 1
            <6>1. m \in Nat /\ Len(events') \in Nat
              BY <1>2, <3>2 DEF TypeOK
            <6>2. events'[i] = events[i + 1] /\ i + 1 \in 1 .. m
              BY <4>2, Zenon
            <6> QED
              BY <6>1, <6>2, LaterIndex, Zenon
          <5>2. events[1].from < events[i + 1].from /\ events[i + 1].from \in Nat
            <6>1. \A j, k \in 1 .. m : IsChange(j) /\ IsChange(k) /\ j < k => events[j].from < events[k].from
              BY <1>1, Zenon DEF IInv, Contiguous
            <6>2. IsChange(i + 1) /\ events[i + 1].from \in Nat
              BY <5>1, ZenonT(30) DEF IsChange, Changes
            <6> QED
              BY <4>1, <5>1, <6>1, <6>2, Zenon
          <5>3. events[1].from = db.parents
            BY <1>3, <4>1, Zenon
          <5>4. events[i + 1].from >= db.parents + 1
            BY <4>1, <5>2, <5>3, Compared, Zenon
          <5> QED
            BY <3>1, <4>1, <5>1, <5>4, Zenon
        <4>5. ASSUME NEW i \in 1 .. Len(events'), NEW j \in 1 .. Len(events'),
                     IsChange(i)', IsChange(j)', i < j
              PROVE  events'[i].from < events'[j].from
          BY <1>1, <4>2, <4>5, ShiftedOrder, Zenon
        <4>6. ASSUME NEW v \in db'.parents .. Len(history) - 1
              PROVE  \E i \in 1 .. Len(events') : IsChange(i)' /\ events'[i].from = v
          <5>1. v \in db.parents .. Len(history) - 1 /\ v # e.from
            BY <1>2, <3>1, <4>1 DEF TypeOK
          <5>2. PICK i \in 1 .. m : IsChange(i) /\ events[i].from = v
            BY <1>1, <5>1, Zenon DEF IInv, Contiguous
          <5>3. i # 1
            BY <1>3, <5>1, <5>2, Zenon
          <5> QED
            BY <4>3, <5>2, <5>3, Zenon DEF IsChange
        <4> QED
          BY <1>1, <4>4, <4>5, <4>6, Zenon DEF Contiguous
      <3>6. DiffsAreContiguous'
        BY <1>1, <1>5, <2>4, <2>7, Zenon DEF DiffsAreContiguous
      <3> QED
        BY <1>6, <1>7, <2>7, <3>2, <3>3, <3>4, <3>5, <3>6, ZenonT(30) DEF IInv
    <2> QED
      BY <2>1, <2>6, <2>7
  <1> QED
    BY <1>8, <1>9, Zenon

-----------------------------------------------------------------------------
(* Starts, resets and crashes.                                             *)

\* A reset begins with all keys as they are.
LEMMA ResettingType ==
    ASSUME NEW by \in {"new", "override"}
    PROVE  /\ Resetting(by) \in Resets /\ Resetting(by).by = by
           /\ Resetting(by).stage = "parents" /\ Resetting(by).from = 0
  BY DEF Resetting, Resets, Deleting

\* The override that an IBD asks for begins a reset.
LEMMA OnPruningPointUTXOSetOverrideStep ==
    ASSUME IInv, OnPruningPointUTXOSetOverride
    PROVE  IInv'
  <1>1. /\ op = Running /\ override /\ op' = Resetting("override") /\ override' = FALSE
        /\ UNCHANGED <<history, events, db, lost, misapplied, overrides>>
    BY DEF OnPruningPointUTXOSetOverride
  <1>2. TypeOK /\ op' \in Resets /\ op'.by = "override" /\ op'.stage = "parents" /\ op'.from = 0
    BY <1>1, ResettingType DEF IInv
  <1>3. TypeOK'
    BY <1>1, <1>2, Zenon DEF TypeOK
  <1>4. op'.kind = "reset" /\ op' # Running /\ op' # Panicked /\ op' # NotStarted
    BY <1>2, ResetKind
  <1>5. overrides > 0
    BY <1>1, ZenonT(30) DEF IInv, OverrideOK
  <1>6. ParentsOK' /\ EventsOK' /\ IndexIsExact'
    BY <1>1 DEF IInv, ParentsOK, EventsOK, ChangeOK, Set, IndexIsExact, Indexed
  <1>7. ResetOK'
    BY <1>2, ZenonT(30) DEF ResetOK, Copying, Paging
  <1>8. NewOK' /\ OverrideOK' /\ Contiguous' /\ DiffsAreContiguous'
    BY <1>1, <1>2, <1>4, <1>5, ZenonT(30) DEF NewOK, OverrideOK, Contiguous, DiffsAreContiguous, IInv
  <1> QED
    BY <1>3, <1>6, <1>7, <1>8, ZenonT(30) DEF IInv

\* A start resets the index unless it is marked with the current virtual.
LEMMA NewStep ==
    ASSUME IInv, New
    PROVE  IInv'
  <1>1. /\ (op' = Running /\ IsSynced) \/ op' = Resetting("new")
        /\ events' = << >> /\ override' = FALSE
        /\ UNCHANGED <<history, db, lost, misapplied, overrides>>
    BY DEF New
  <1>2. TypeOK
    BY DEF IInv
  <1>3. op' = Running \/ (op' \in Resets /\ op'.by = "new" /\ op'.stage = "parents" /\ op'.from = 0)
    BY <1>1, ResettingType
  <1>4. events' \in Seq(Events) /\ Len(events') = 0
    BY <1>1
  <1>5. TypeOK'
    BY <1>1, <1>2, <1>3, <1>4, ZenonT(30) DEF TypeOK
  <1>6. op' # NotStarted /\ op' # Panicked /\ (op'.kind = "reset" => op' # Running /\ op'.by = "new" /\ op'.stage = "parents" /\ op'.from = 0)
    BY <1>2, <1>3, ResetKind, OpKinds, ZenonT(30)
  <1>7. ParentsOK' /\ EventsOK' /\ IndexIsExact'
    BY <1>1, <1>4, SMTT(30) DEF IInv, ParentsOK, EventsOK, IndexIsExact, Indexed
  <1>8. ResetOK'
    BY <1>6, ZenonT(30) DEF ResetOK, Copying, Paging
  <1>9. NewOK' /\ OverrideOK'
    BY <1>1, <1>6, ZenonT(30) DEF NewOK, OverrideOK, Copying, Paging
  <1>10. Contiguous'
    <2> SUFFICES ASSUME op' = Running PROVE Contiguous'
      BY ZenonT(30) DEF Contiguous
    <2>1. db.parents = Len(history)
      BY <1>1, <1>2, OpKinds, ResettingType, ResetKind, ZenonT(30) DEF IsSynced, ParentHashes
    <2>2. Len(history) \in Nat
      BY <1>2 DEF TypeOK
    <2> QED
      BY <1>1, <1>4, <2>1, <2>2, SMTT(30) DEF Contiguous
  <1>11. DiffsAreContiguous'
    BY <1>1, <1>6, ZenonT(30) DEF IInv, DiffsAreContiguous
  <1> QED
    BY <1>5, <1>7, <1>8, <1>9, <1>10, <1>11, ZenonT(30) DEF IInv

\* A crash leaves the database as the last commit left it.
LEMMA CrashStep ==
    ASSUME IInv, Crash
    PROVE  IInv'
  <1>1. op' = Down /\ UNCHANGED <<history, events, db, override, lost, misapplied, overrides>>
    BY ZenonT(30) DEF Crash
  <1>2. TypeOK'
    BY <1>1, ZenonT(30) DEF IInv, TypeOK
  <1>3. ParentsOK' /\ IndexIsExact'
    BY <1>1, ZenonT(30) DEF IInv, ParentsOK, IndexIsExact, Indexed
  <1>4. DiffsAreContiguous'
    BY <1>1, OpKinds, ZenonT(30) DEF IInv, DiffsAreContiguous
  <1> QED
    BY <1>1, <1>2, <1>3, <1>4, StopsOK, ZenonT(30) DEF IInv

-----------------------------------------------------------------------------
(* The steps of Reset.                                                     *)

\* What a step of a reset leaves alone, whatever it writes.
LEMMA ResetFrame ==
    ASSUME IInv, op.kind = "reset", op' \in Resets, op'.by = op.by, db' \in Indexes,
           UNCHANGED <<history, events, override, overrides>>,
           lost' \in BOOLEAN, misapplied' \in BOOLEAN, misapplied' => lost' \/ overrides > 0,
           op'.stage \in Copying => \/ op.stage \in Copying /\ op'.virtual = op.virtual
                                    \/ op'.virtual = Len(history)
    PROVE  TypeOK' /\ EventsOK' /\ NewOK' /\ OverrideOK' /\ Contiguous' /\ DiffsAreContiguous'
  <1>1. op'.kind = "reset" /\ op' # Running /\ op' # Panicked /\ op' # NotStarted
    BY ResetKind, ZenonT(30)
  <1>2. TypeOK'
    BY DEF IInv, TypeOK
  <1>3. EventsOK'
    BY ZenonT(30) DEF IInv, EventsOK, ChangeOK, Set
  <1>4. NewOK'
    BY <1>1, ZenonT(30) DEF IInv, NewOK, ParentHashes
  <1>5. OverrideOK' /\ Contiguous' /\ DiffsAreContiguous'
    BY <1>1, ZenonT(30) DEF IInv, OverrideOK, Contiguous, DiffsAreContiguous
  <1> QED
    BY <1>2, <1>3, <1>4, <1>5, ZenonT(30)

\* A step to another stage.
LEMMA GoToType ==
    ASSUME IInv, op.kind = "reset", NEW st \in Deleting \cup Copying, op' = [op EXCEPT !.stage = st]
    PROVE  /\ op' \in Resets /\ op'.kind = "reset" /\ op'.stage = st /\ op'.by = op.by
           /\ op'.virtual = op.virtual /\ op'.from = op.from /\ op'.page = op.page /\ op'.left = op.left
  <1>1. op \in Resets
    BY OpKinds, ZenonT(30) DEF IInv
  <1> QED
    BY <1>1 DEF Resets

\* Most stages find and leave an index without parents.
LEMMA NoParentsOK ==
    ASSUME IInv, db' \in Indexes, db'.parents = 0, UNCHANGED history
    PROVE  ParentsOK' /\ IndexIsExact'
  BY DEF IInv, TypeOK, ParentsOK, IndexIsExact

\* A reset under way has kept its promises about errors.
LEMMA StillContiguous ==
    ASSUME IInv, UNCHANGED <<lost, misapplied>>
    PROVE  lost' \in BOOLEAN /\ misapplied' \in BOOLEAN /\ (misapplied' => lost' \/ overrides > 0)
  BY DEF IInv, TypeOK, DiffsAreContiguous

\* The mark is deleted before everything else.
LEMMA DeleteAllStep ==
    ASSUME IInv, DeleteAll
    PROVE  IInv'
  <1>1. UNCHANGED <<history, events, override, lost, misapplied, overrides>>
    BY DEF DeleteAll
  <1>2. db \in Indexes
    BY ZenonT(30) DEF IInv, TypeOK
  <1>3. ASSUME op.kind = "reset", op' \in Resets, op'.kind = "reset", op'.by = op.by,
               op'.stage \in Deleting \ {"parents"}, op'.from = op.from, op.stage \in Deleting,
               db' \in Indexes, db'.parents = 0,
               op'.stage = "entries" => \A s \in Scripts : db'.counts[s] = 0
        PROVE  IInv'
    <2>1. op'.stage \notin Copying /\ op'.stage # "initialize" /\ op'.stage # "end" /\ op'.stage # "parents"
      BY <1>3, ZenonT(30) DEF Deleting, Copying, Paging
    <2>2. TypeOK' /\ EventsOK' /\ NewOK' /\ OverrideOK' /\ Contiguous' /\ DiffsAreContiguous'
      BY <1>1, <1>3, <2>1, ResetFrame, StillContiguous, ZenonT(30)
    <2>3. ParentsOK' /\ IndexIsExact'
      BY <1>1, <1>3, NoParentsOK, ZenonT(30)
    <2>4. op'.from = 0
      BY <1>3, ZenonT(30) DEF IInv, ResetOK
    <2>5. ResetOK'
      BY <1>3, <2>1, <2>4, ZenonT(30) DEF ResetOK, Copying, Paging
    <2> QED
      BY <2>2, <2>3, <2>5, ZenonT(30) DEF IInv
  <1>4. CASE AtStage("parents") /\ db' = DeleteParents(db) /\ GoTo("supply")
    <2>1. db' \in Indexes /\ db'.parents = 0
      BY <1>2, <1>4, Zenon DEF DeleteParents, Indexes
    <2> QED
      BY <1>3, <1>4, <2>1, GoToType DEF AtStage, GoTo, Deleting
  <1>5. CASE AtStage("supply") /\ db' = [db EXCEPT !.supply = Absent] /\ GoTo("initialized")
    <2>1. db' \in Indexes /\ db'.parents = db.parents
      BY <1>2, <1>5 DEF Indexes, Absent
    <2>2. db.parents = 0
      BY <1>5 DEF IInv, ResetOK, AtStage
    <2> QED
      BY <1>3, <1>5, <2>1, <2>2, GoToType, ZenonT(30) DEF AtStage, GoTo, Deleting
  <1>6. CASE AtStage("initialized") /\ db' = [db EXCEPT !.initialized = FALSE] /\ GoTo("counts")
    <2>1. db' \in Indexes /\ db'.parents = db.parents
      BY <1>2, <1>6, ZenonT(30) DEF Indexes
    <2>2. db.parents = 0
      BY <1>6 DEF IInv, ResetOK, AtStage
    <2> QED
      BY <1>3, <1>6, <2>1, <2>2, GoToType, ZenonT(30) DEF AtStage, GoTo, Deleting
  <1>7. ASSUME AtStage("counts"), NEW s \in Scripts, db' = [db EXCEPT !.counts[s] = 0], UNCHANGED op
        PROVE  IInv'
    <2>1. db' \in Indexes /\ db'.parents = db.parents
      BY <1>2, <1>7 DEF Indexes
    <2>2. db.parents = 0 /\ op \in Resets
      BY <1>7, OpKinds, Zenon DEF IInv, ResetOK, AtStage
    <2> QED
      BY <1>3, <1>7, <2>1, <2>2, Zenon DEF AtStage, Deleting
  <1>8. CASE AtStage("counts") /\ (\A s \in Scripts : db.counts[s] = 0) /\ GoTo("entries") /\ UNCHANGED db
    <2>1. db.parents = 0
      BY <1>8 DEF IInv, ResetOK, AtStage
    <2> QED
      BY <1>2, <1>3, <1>8, <2>1, GoToType, ZenonT(30) DEF AtStage, GoTo, Deleting
  <1>9. CASE AtStage("entries") /\ db' = [db EXCEPT !.entries[Min(Indexed)] = Absent] /\ UNCHANGED op
    <2>1. db' \in Indexes /\ db'.parents = db.parents /\ db'.counts = db.counts
      BY <1>2, <1>9 DEF Indexes, Absent
    <2>2. db.parents = 0 /\ op \in Resets /\ \A s \in Scripts : db.counts[s] = 0
      BY <1>9, OpKinds, Zenon DEF IInv, ResetOK, AtStage
    <2> QED
      BY <1>3, <1>9, <2>1, <2>2, Zenon DEF AtStage, Deleting
  <1> QED
    BY <1>4, <1>5, <1>6, <1>7, <1>8, <1>9, ZenonT(30) DEF DeleteAll

\* Reset reads the virtual that it copies.
LEMMA GetVirtualInfoStep ==
    ASSUME IInv, GetVirtualInfo
    PROVE  IInv'
  <1>1. /\ op.kind = "reset" /\ op.stage = "entries" /\ Indexed = {}
        /\ op' = [op EXCEPT !.stage = "initialize", !.virtual = Len(history)]
        /\ lost' = FALSE /\ misapplied' = FALSE
        /\ UNCHANGED <<history, events, db, override, overrides>>
    BY DEF GetVirtualInfo, AtStage, ParentHashes
  <1>2. op \in Resets /\ db \in Indexes /\ Len(history) \in Nat /\ Len(history) >= 1
    BY <1>1, OpKinds DEF IInv, TypeOK
  <1>3. /\ op' \in Resets /\ op'.kind = "reset" /\ op'.stage = "initialize" /\ op'.by = op.by
        /\ op'.virtual = Len(history) /\ op'.from = op.from
    BY <1>1, <1>2, Zenon DEF Resets, Copying
  <1>4. TypeOK' /\ EventsOK' /\ NewOK' /\ OverrideOK' /\ Contiguous' /\ DiffsAreContiguous'
    BY <1>1, <1>2, <1>3, ResetFrame, ZenonT(30)
  <1>5. db.parents = 0 /\ op.from = 0 /\ \A s \in Scripts : db.counts[s] = 0
    BY <1>1 DEF IInv, ResetOK, Deleting
  <1>6. ParentsOK' /\ IndexIsExact'
    BY <1>1, <1>2, <1>5, NoParentsOK, ZenonT(30)
  <1>7. Indexed' = {} /\ op'.virtual \in 1 .. Len(history')
    BY <1>1, <1>2, <1>3 DEF Indexed
  <1>8. ResetOK'
    BY <1>1, <1>3, <1>5, <1>7, Zenon DEF ResetOK, Paging
  <1> QED
    BY <1>4, <1>6, <1>8 DEF IInv

\* Only the supply is written.
LEMMA WithSupply ==
    ASSUME TypeOK, NEW x \in Int, db' = [db EXCEPT !.supply = x]
    PROVE  /\ db' \in Indexes /\ db'.parents = db.parents /\ db'.supply = x
           /\ db'.entries = db.entries /\ db'.counts = db.counts
  BY Zenon DEF TypeOK, Indexes

\* The supply of the deleted index is that of no outpoints.
LEMMA InitializeStep ==
    ASSUME IInv, InitializeCirculatingSompiSupply
    PROVE  IInv'
  <1>1. /\ op.kind = "reset" /\ op.stage = "initialize"
        /\ db' = [db EXCEPT !.supply = Sum(Indexed)]
        /\ op' = [op EXCEPT !.stage = "page"]
        /\ UNCHANGED <<history, events, override, lost, misapplied, overrides>>
    BY DEF InitializeCirculatingSompiSupply, AtStage, GoTo
  <1>2. /\ op' \in Resets /\ op'.kind = "reset" /\ op'.stage = "page" /\ op'.by = op.by
        /\ op'.virtual = op.virtual /\ op'.from = op.from
    BY <1>1, GoToType, Zenon DEF Copying
  <1>3. /\ db.parents = 0 /\ op.from = 0 /\ Indexed = {} /\ op.virtual \in 1 .. Len(history)
        /\ \A s \in Scripts : db.counts[s] = 0
    BY <1>1 DEF IInv, ResetOK, Copying
  <1>4. /\ db' \in Indexes /\ db'.parents = 0 /\ db'.supply = Sum({})
        /\ db'.entries = db.entries /\ db'.counts = db.counts
    <2>1. Sum({}) \in Nat
      BY SupplyType
    <2> QED
      BY <1>1, <1>3, <2>1, WithSupply DEF IInv
  <1>5. TypeOK' /\ EventsOK' /\ NewOK' /\ OverrideOK' /\ Contiguous' /\ DiffsAreContiguous'
    BY <1>1, <1>2, <1>4, ResetFrame, StillContiguous, Zenon DEF Copying
  <1>6. ParentsOK' /\ IndexIsExact'
    BY <1>1, <1>4, NoParentsOK, Zenon
  <1>7. Copied' = {}
    <2>1. Set(op.virtual) \in SUBSET Outpoints
      BY <1>3, SetType, ZenonT(30) DEF IInv
    <2>2. \A o \in Outpoints : ~ (o <= 0)
      BY OutpointType
    <2>3. Set(op.virtual)' = Set(op.virtual) /\ op'.from = 0
      BY <1>1, <1>2, <1>3, ZenonT(30) DEF Set
    <2>4. Copied' = {o \in Set(op.virtual) : o <= 0}
      BY <2>3, ZenonT(30) DEF Copied
    <2> QED
      BY <2>1, <2>2, <2>4, Zenon
  <1>8. Exact(Copied)'
    <2>1. \A s \in Scripts : CountOf(s, {}) = 0
      BY CountOfNone, ZenonT(30)
    <2>2. Indexed' = {}
      BY <1>3, <1>4, ZenonT(30) DEF Indexed
    <2> QED
      BY <1>3, <1>4, <1>7, <2>1, <2>2, ZenonT(30) DEF Exact, CountsAre
  <1>9. ResetOK'
    BY <1>1, <1>2, <1>3, <1>4, <1>8, ZenonT(30) DEF ResetOK, Copying, Paging, Deleting
  <1> QED
    BY <1>5, <1>6, <1>9 DEF IInv

\* The next page follows the last outpoint of the one before it, unless virtual
\* has moved.
LEMMA GetVirtualUTXOsStep ==
    ASSUME IInv, GetVirtualUTXOs
    PROVE  IInv'
  <1>1. /\ op.kind = "reset" /\ op.stage = "page"
        /\ UNCHANGED <<history, events, db, override, lost, misapplied, overrides>>
    BY ZenonT(30) DEF GetVirtualUTXOs, AtStage
  <1>2. TypeOK /\ op \in Resets /\ db \in Indexes
    BY <1>1, OpKinds, ZenonT(30) DEF IInv, TypeOK
  <1>3. /\ db.parents = 0 /\ op.virtual \in 1 .. Len(history)
        /\ Indexed = Copied /\ db.supply = Sum(Copied) /\ CountsAre(Copied)
    BY <1>1, ZenonT(30) DEF IInv, ResetOK, Copying, Exact
  <1>4. ParentsOK' /\ IndexIsExact'
    BY <1>1, <1>2, <1>3, NoParentsOK, ZenonT(30)
  <1>5. CASE ~ VirtualIsExpected
    <2>1. op.by # "new"
      BY <1>1, <1>5, ZenonT(30) DEF IInv, NewOK, VirtualIsExpected, Copying
    <2>2. op' = Running
      BY <1>5, <2>1, ZenonT(30) DEF GetVirtualUTXOs, ResetFails
    <2>3. overrides > 0
      BY <1>1, <1>2, <2>1, ZenonT(30) DEF IInv, OverrideOK, Resets
    <2>4. TypeOK'
      BY <1>1, <1>2, <2>2, ZenonT(30) DEF TypeOK
    <2>5. op'.kind # "reset"
      BY <1>2, <2>2, OpKinds, ZenonT(30)
    <2>6. ResetOK' /\ NewOK'
      BY <2>5, ZenonT(30) DEF ResetOK, NewOK
    <2>7. EventsOK' /\ Contiguous'
      BY <1>1, <1>2, <2>2, <2>3, OpKinds, SMTT(30) DEF IInv, EventsOK, ChangeOK, Set, Contiguous
    <2>8. OverrideOK' /\ DiffsAreContiguous'
      BY <1>1, <1>2, <2>2, <2>3, OpKinds, Zenon DEF IInv, OverrideOK, DiffsAreContiguous
    <2> QED
      BY <1>4, <2>4, <2>6, <2>7, <2>8, ZenonT(30) DEF IInv
  <1>6. CASE VirtualIsExpected
    <2> DEFINE D == FirstPage(PageFrom(op.from))
               page == Restrict(VirtualSet, D)
    <2>1. op.virtual = Len(history) /\ op' = [op EXCEPT !.stage = "put", !.page = page, !.left = D]
      BY <1>6 DEF GetVirtualUTXOs, VirtualIsExpected, ParentHashes
    <2>2. VirtualSet = history[op.virtual] /\ PageFrom(op.from) = Ahead
      BY <2>1, Zenon DEF VirtualSet, PageFrom, Ahead, Set
    <2>3. VirtualSet \in Entries /\ DOMAIN VirtualSet = Set(op.virtual) /\ Set(op.virtual) \in SUBSET Outpoints
      BY <1>2, <1>3, <2>2, SetType, VirtualSetType, Zenon DEF Set
    <2>4. Ahead \in SUBSET Outpoints /\ D = FirstPage(Ahead) /\ D \subseteq Ahead
      <3>1. Ahead \in SUBSET Outpoints
        BY <2>3, ZenonT(30) DEF Ahead
      <3> QED
        BY <2>2, <3>1, PageIsAPrefix, Zenon
    <2>5. D \in SUBSET Outpoints /\ D \in SUBSET DOMAIN VirtualSet
      BY <2>3, <2>4, ZenonT(30) DEF Ahead
    <2>6. page \in Entries /\ DOMAIN page = D
      BY <2>3, <2>5, RestrictType
    <2> HIDE DEF D, page
    <2>7. /\ op' \in Resets /\ op'.kind = "reset" /\ op'.by = op.by /\ op'.stage = "put" /\ op'.virtual = op.virtual
          /\ op'.from = op.from /\ op'.page = page /\ op'.left = D
      BY <1>2, <2>1, <2>5, <2>6, ZenonT(30) DEF Resets, Copying, Paging
    <2>8. TypeOK' /\ EventsOK' /\ NewOK' /\ OverrideOK' /\ Contiguous' /\ DiffsAreContiguous'
      BY <1>1, <1>2, <2>7, ResetFrame, StillContiguous, ZenonT(30) DEF Copying
    <2>9. Copied' = Copied /\ Ahead' = Ahead /\ Indexed' = Indexed
      BY <1>1, <2>7, ZenonT(30) DEF Copied, Ahead, Set, Indexed
    <2>10. PageOK'
      BY <1>1, <1>3, <2>4, <2>6, <2>7, <2>9, ZenonT(30) DEF PageOK, CountsAre
    <2>11. ResetOK'
      BY <1>1, <1>3, <2>7, <2>10, ZenonT(30) DEF ResetOK, Copying, Paging, Deleting
    <2> QED
      BY <1>4, <2>8, <2>11, Zenon DEF IInv
  <1> QED
    BY <1>5, <1>6

\* Where a page stands: beyond the copied outpoints, and a prefix of the rest.
LEMMA PageFacts ==
    ASSUME IInv, op.kind = "reset", op.stage \in Paging
    PROVE  /\ TypeOK /\ op \in Resets /\ db \in Indexes /\ op.page \in Entries
           /\ db.parents = 0 /\ op.virtual \in 1 .. Len(history)
           /\ PageOK
           /\ Copied \in SUBSET Outpoints /\ DOMAIN op.page \in SUBSET Outpoints
           /\ Ahead \in SUBSET Outpoints /\ DOMAIN op.page = FirstPage(Ahead)
           /\ DOMAIN op.page \subseteq Ahead
           /\ Copied \cap Ahead = {} /\ Copied \cup Ahead = Set(op.virtual)
  <1>1. TypeOK /\ op \in Resets /\ db \in Indexes
    BY OpKinds, ZenonT(30) DEF IInv, TypeOK
  <1>2. db.parents = 0 /\ op.virtual \in 1 .. Len(history) /\ PageOK
    BY DEF IInv, ResetOK, Copying, Paging
  <1>3. Set(op.virtual) \in SUBSET Outpoints
    BY <1>1, <1>2, SetType, ZenonT(30)
  <1>4. Copied \in SUBSET Outpoints /\ Ahead \in SUBSET Outpoints
    BY <1>3, ZenonT(30) DEF Copied, Ahead
  <1>5. DOMAIN op.page = FirstPage(Ahead) /\ op.page \in Entries
    BY <1>2, ZenonT(30) DEF PageOK
  <1>6. DOMAIN op.page \subseteq Ahead
    BY <1>4, <1>5, PageIsAPrefix, ZenonT(30)
  <1>7. op.from \in Nat
    BY <1>1, ZenonT(30) DEF Resets
  <1>8. \A o \in Set(op.virtual) : (o > op.from) <=> ~ (o <= op.from)
    BY <1>3, <1>7, OutpointType
  <1>9. Copied \cap Ahead = {} /\ Copied \cup Ahead = Set(op.virtual)
    BY <1>8, ZenonT(30) DEF Copied, Ahead
  <1> QED
    BY <1>1, <1>2, <1>4, <1>5, <1>6, <1>9, ZenonT(30)

\* A step inside a page that leaves what is copied as it is.
LEMMA PageStep ==
    ASSUME IInv, op.kind = "reset", op.stage \in Paging,
           op' \in Resets, op'.kind = "reset", op'.by = op.by, op'.virtual = op.virtual, op'.stage \in Paging,
           op'.from = op.from, op'.page = op.page, db' \in Indexes, db'.parents = 0,
           db'.supply = db.supply,
           UNCHANGED <<history, events, override, lost, misapplied, overrides>>,
           Copied' = Copied /\ Ahead' = Ahead => PageOK'
    PROVE  IInv'
  <1>1. TypeOK' /\ EventsOK' /\ NewOK' /\ OverrideOK' /\ Contiguous' /\ DiffsAreContiguous'
    BY ResetFrame, StillContiguous, ZenonT(30) DEF Copying
  <1>2. ParentsOK' /\ IndexIsExact'
    BY NoParentsOK, ZenonT(30)
  <1>3. Copied' = Copied /\ Ahead' = Ahead
    BY ZenonT(30) DEF Copied, Ahead, Set
  <1>4. op'.virtual \in 1 .. Len(history')
    BY PageFacts, ZenonT(30)
  <1>5. ResetOK'
    BY <1>3, <1>4, ZenonT(30) DEF ResetOK, Copying, Paging, Deleting
  <1> QED
    BY <1>1, <1>2, <1>5, ZenonT(30) DEF IInv

\* The entries of a page are put, in any order.
LEMMA PutEntryStep ==
    ASSUME IInv, AtStage("put"), NEW o \in op.left,
           db' = [db EXCEPT !.entries[o] = op.page[o]], op' = [op EXCEPT !.left = @ \ {o}],
           UNCHANGED <<history, events, override, lost, misapplied, overrides>>
    PROVE  IInv'
  <1> DEFINE D == DOMAIN op.page
  <1>1. op.kind = "reset" /\ op.stage = "put" /\ op.stage \in Paging
    BY DEF AtStage, Paging
  <1>2. /\ op \in Resets /\ db \in Indexes /\ op.page \in Entries /\ db.parents = 0 /\ PageOK
        /\ D \in SUBSET Outpoints
    BY <1>1, PageFacts, ZenonT(30)
  <1>3. /\ op' \in Resets /\ op'.kind = "reset" /\ op'.by = op.by /\ op'.virtual = op.virtual
        /\ op'.stage = "put" /\ op'.from = op.from /\ op'.page = op.page /\ op'.left = op.left \ {o}
    BY <1>1, <1>2, ZenonT(30) DEF Resets
  <1>4. op.left \subseteq D /\ o \in D /\ o \in Outpoints /\ op.page[o] \in Nat
    <2>1. op.left \subseteq D
      BY <1>1, <1>2, ZenonT(30) DEF PageOK
    <2> QED
      BY <1>2, <2>1, ZenonT(30) DEF Entries
  <1>5. /\ db' \in Indexes /\ db'.parents = 0 /\ db'.supply = db.supply /\ db'.counts = db.counts
        /\ db'.entries = [db.entries EXCEPT ![o] = op.page[o]]
    BY <1>2, <1>4 DEF Indexes
  <1>6. Indexed' = Indexed \cup {o}
    BY <1>2, <1>4, <1>5 DEF Indexed, Indexes, Absent
  <1>7. Indexed = Copied \cup (D \ op.left) /\ CountsAre(Copied) /\ db.supply = Sum(Copied) /\ D = FirstPage(Ahead)
    BY <1>1, <1>2, ZenonT(30) DEF PageOK
  <1>8. Indexed' = Copied \cup (D \ (op.left \ {o}))
    BY <1>4, <1>6, <1>7, ZenonT(30)
  <1>9. Copied' = Copied /\ Ahead' = Ahead => PageOK'
    BY <1>2, <1>3, <1>4, <1>5, <1>7, <1>8, ZenonT(30) DEF PageOK, CountsAre
  <1> QED
    BY <1>1, <1>3, <1>5, <1>9, PageStep, ZenonT(30) DEF Paging

\* All entries of a page are there: its scripts are to be counted.
LEMMA PutDoneStep ==
    ASSUME IInv, AtStage("put"), op.left = {}, UNCHANGED db,
           op' = [op EXCEPT !.stage = "count", !.left = {Script[o] : o \in DOMAIN op.page}],
           UNCHANGED <<history, events, override, lost, misapplied, overrides>>
    PROVE  IInv'
  <1> DEFINE D == DOMAIN op.page
             scripts == {Script[o] : o \in D}
  <1>1. op.kind = "reset" /\ op.stage = "put" /\ op.stage \in Paging
    BY DEF AtStage, Paging
  <1>2. /\ op \in Resets /\ db \in Indexes /\ op.page \in Entries /\ db.parents = 0 /\ PageOK
        /\ D \in SUBSET Outpoints /\ Copied \in SUBSET Outpoints
    BY <1>1, PageFacts
  <1>3. scripts \subseteq Scripts
    BY <1>2, ScriptsOfOutpoints
  <1>4. ASSUME NEW s \in Scripts
        PROVE  CountOf(s, Copied) = CountOf(s, Copied) + IF s \in scripts THEN 0 ELSE CountOf(s, D)
    <2>1. CountOf(s, Copied) \in Nat
      BY <1>2, CountAfterMove, Zenon
    <2>2. s \notin scripts => CountOf(s, D) = 0
      BY CountOfNone
    <2> QED
      BY <2>1, <2>2
  <1> HIDE DEF D, scripts
  <1>5. op' = [op EXCEPT !.stage = "count", !.left = scripts]
    BY DEF scripts, D
  <1>6. /\ op' \in Resets /\ op'.kind = "reset" /\ op'.by = op.by /\ op'.virtual = op.virtual
        /\ op'.stage = "count" /\ op'.from = op.from /\ op'.page = op.page /\ op'.left = scripts
    BY <1>2, <1>3, <1>5, ZenonT(30) DEF Resets, Copying, Paging
  <1>7. Indexed = Copied \cup D /\ CountsAre(Copied) /\ db.supply = Sum(Copied) /\ D = FirstPage(Ahead)
    BY <1>1, <1>2, Zenon DEF PageOK, D
  <1>8. Indexed' = Indexed /\ op'.page \in Entries /\ DOMAIN op'.page = D
    BY <1>2, <1>6, Zenon DEF Indexed, D
  <1>9. Copied' = Copied /\ Ahead' = Ahead => PageOK'
    <2> SUFFICES ASSUME Copied' = Copied, Ahead' = Ahead PROVE PageOK'
      OBVIOUS
    <2>1. \A s \in Scripts : db'.counts[s] = CountOf(s, Copied) + IF s \in scripts THEN 0 ELSE CountOf(s, D)
      BY <1>4, <1>7, Zenon DEF CountsAre
    <2> QED
      BY <1>3, <1>6, <1>7, <1>8, <2>1, ZenonT(30) DEF PageOK
  <1> QED
    BY <1>1, <1>2, <1>6, <1>9, PageStep, Zenon DEF Paging

\* The counts of the scripts of a page, in any order.
LEMMA PutCountStep ==
    ASSUME IInv, AtStage("count"), NEW s \in op.left,
           db' = [db EXCEPT !.counts[s] = @ + CountOf(s, DOMAIN op.page)], op' = [op EXCEPT !.left = @ \ {s}],
           UNCHANGED <<history, events, override, lost, misapplied, overrides>>
    PROVE  IInv'
  <1> DEFINE D == DOMAIN op.page
             x == CountOf(s, D)
  <1>1. op.kind = "reset" /\ op.stage = "count" /\ op.stage \in Paging
    BY DEF AtStage, Paging
  <1>2. /\ op \in Resets /\ db \in Indexes /\ op.page \in Entries /\ db.parents = 0 /\ PageOK
        /\ D \in SUBSET Outpoints /\ Copied \in SUBSET Outpoints
    BY <1>1, PageFacts
  <1>3. /\ op' \in Resets /\ op'.kind = "reset" /\ op'.by = op.by /\ op'.virtual = op.virtual
        /\ op'.stage = "count" /\ op'.from = op.from /\ op'.page = op.page /\ op'.left = op.left \ {s}
    BY <1>1, <1>2, ZenonT(30) DEF Resets
  <1>4. /\ op.left \subseteq Scripts /\ Indexed = Copied \cup D /\ db.supply = Sum(Copied) /\ D = FirstPage(Ahead)
        /\ \A r \in Scripts : db.counts[r] = CountOf(r, Copied) + IF r \in op.left THEN 0 ELSE CountOf(r, D)
    BY <1>1, <1>2, ZenonT(30) DEF PageOK
  <1>5. x \in Nat /\ CountOf(s, Copied) \in Nat
    BY <1>2, CountAfterMove, ZenonT(30)
  <1>6. /\ db' \in Indexes /\ db'.parents = 0 /\ db'.supply = db.supply /\ db'.entries = db.entries
        /\ db'.counts = [db.counts EXCEPT ![s] = db.counts[s] + x]
    <2> HIDE DEF x
    <2>1. db' = [db EXCEPT !.counts[s] = db.counts[s] + x]
      BY DEF x
    <2>2. db.counts[s] \in Int /\ s \in Scripts
      BY <1>2, <1>4, Zenon DEF Indexes
    <2> QED
      BY <1>2, <1>5, <2>1, <2>2 DEF Indexes
  <1>7. ASSUME NEW r \in Scripts
        PROVE  db'.counts[r] = CountOf(r, Copied) + IF r \in op.left \ {s} THEN 0 ELSE CountOf(r, D)
    <2>1. CASE r = s
      <3>1. db.counts[s] = CountOf(s, Copied) + 0
        BY <1>4, <2>1, Zenon
      <3>2. db'.counts[s] = db.counts[s] + x
        BY <1>2, <1>6, <2>1, Zenon DEF Indexes
      <3> HIDE DEF x
      <3>3. db'.counts[s] = CountOf(s, Copied) + x
        BY <1>5, <3>1, <3>2
      <3> QED
        BY <2>1, <3>3, Zenon DEF x
    <2>2. CASE r # s
      <3>1. db'.counts[r] = db.counts[r]
        BY <1>2, <1>6, <2>2, ZenonT(30) DEF Indexes
      <3> QED
        BY <1>4, <2>2, <3>1, ZenonT(30)
    <2> QED
      BY <2>1, <2>2, Zenon
  <1>8. Indexed' = Indexed
    BY <1>6, ZenonT(30) DEF Indexed
  <1>9. Copied' = Copied /\ Ahead' = Ahead => PageOK'
    <2> SUFFICES ASSUME Copied' = Copied, Ahead' = Ahead PROVE PageOK'
      OBVIOUS
    <2>1. op'.page \in Entries /\ DOMAIN op'.page = FirstPage(Ahead') /\ op'.left \subseteq Scripts
      BY <1>2, <1>3, <1>4, ZenonT(30)
    <2>2. db'.supply = Sum(Copied') /\ Indexed' = Copied' \cup DOMAIN op'.page
      BY <1>3, <1>4, <1>6, <1>8, ZenonT(30)
    <2>3. \A r \in Scripts : db'.counts[r] = CountOf(r, Copied') + IF r \in op'.left THEN 0 ELSE CountOf(r, DOMAIN op'.page)
      BY <1>3, <1>7, ZenonT(30)
    <2>4. op'.stage = "count" /\ op'.stage # "put" /\ op'.stage # "addSupply"
      BY <1>3, Zenon
    <2> QED
      BY <2>1, <2>2, <2>3, <2>4, ZenonT(30) DEF PageOK
  <1> QED
    BY <1>1, <1>3, <1>6, <1>9, PageStep, ZenonT(30) DEF Paging

\* All scripts of a page are counted.
LEMMA CountDoneStep ==
    ASSUME IInv, AtStage("count"), op.left = {}, db' = [db EXCEPT !.initialized = TRUE], GoTo("addSupply"),
           UNCHANGED <<history, events, override, lost, misapplied, overrides>>
    PROVE  IInv'
  <1> DEFINE D == DOMAIN op.page
  <1>1. op.kind = "reset" /\ op.stage = "count" /\ op.stage \in Paging
    BY DEF AtStage, Paging
  <1>2. /\ op \in Resets /\ db \in Indexes /\ op.page \in Entries /\ db.parents = 0 /\ PageOK
        /\ D \in SUBSET Outpoints /\ Copied \in SUBSET Outpoints /\ Copied \cap Ahead = {} /\ D \subseteq Ahead
    BY <1>1, PageFacts, Zenon
  <1>3. /\ op' \in Resets /\ op'.kind = "reset" /\ op'.by = op.by /\ op'.virtual = op.virtual
        /\ op'.stage = "addSupply" /\ op'.from = op.from /\ op'.page = op.page
    BY <1>1, GoToType, Zenon DEF GoTo, Copying, Paging
  <1>4. /\ Indexed = Copied \cup D /\ db.supply = Sum(Copied) /\ D = FirstPage(Ahead)
        /\ \A s \in Scripts : db.counts[s] = CountOf(s, Copied) + CountOf(s, D)
    BY <1>1, <1>2, Zenon DEF PageOK
  <1>5. /\ db' \in Indexes /\ db'.parents = 0 /\ db'.supply = db.supply
        /\ db'.entries = db.entries /\ db'.counts = db.counts
    BY <1>2, Zenon DEF Indexes
  <1>6. ASSUME NEW s \in Scripts PROVE db.counts[s] = CountOf(s, Copied \cup D)
    <2>1. (Copied \cup D) \ Copied = D /\ Copied \ (Copied \cup D) = {} /\ Copied \cup D \in SUBSET Outpoints
      BY <1>2
    <2>2. /\ CountOf(s, Copied) \in Nat /\ CountOf(s, D) \in Nat /\ CountOf(s, {}) = 0
      BY <1>2, CountAfterMove, CountOfNone, ZenonT(30)
    <2>3. CountOf(s, Copied \cup D) = CountOf(s, Copied) + CountOf(s, D) - CountOf(s, {})
      BY <1>2, <2>1, CountAfterMove
    <2> QED
      BY <1>4, <2>2, <2>3
  <1>7. Indexed' = Indexed
    BY <1>5, Zenon DEF Indexed
  <1>8. Copied' = Copied /\ Ahead' = Ahead => PageOK'
    BY <1>2, <1>3, <1>4, <1>5, <1>6, <1>7, ZenonT(30) DEF PageOK, CountsAre
  <1> QED
    BY <1>1, <1>3, <1>5, <1>8, PageStep, Zenon DEF Paging

\* What is copied once a full page is.
LEMMA CopiedGrows ==
    ASSUME IInv, op.kind = "reset", op.stage \in Paging, DOMAIN op.page # {}
    PROVE  /\ Max(DOMAIN op.page) \in Nat
           /\ {o \in Set(op.virtual) : o <= Max(DOMAIN op.page)} = Copied \cup DOMAIN op.page
  <1> DEFINE D == DOMAIN op.page
             m == Max(D)
  <1>1. /\ op \in Resets /\ Copied \in SUBSET Outpoints /\ D \in SUBSET Outpoints /\ Ahead \in SUBSET Outpoints
        /\ D = FirstPage(Ahead) /\ D \subseteq Ahead /\ Copied \cup Ahead = Set(op.virtual)
    BY PageFacts, ZenonT(30)
  <1>2. op.from \in Nat
    BY <1>1, ZenonT(30) DEF Resets
  <1>3. m \in D /\ \A u \in D : u <= m
    BY <1>1, Largest, ZenonT(30)
  <1>4. \A u \in Ahead : u < m => u \in D
    BY <1>1, <1>3, PageIsAPrefix, ZenonT(30)
  <1> HIDE DEF D, m
  <1>5. m \in Nat /\ m > op.from
    BY <1>1, <1>3, OutpointType, ZenonT(30) DEF Ahead
  <1>6. ASSUME NEW o \in Set(op.virtual) PROVE o <= m <=> o \in Copied \cup D
    <2>1. o \in Nat
      BY <1>1, OutpointType, ZenonT(30)
    <2>2. ASSUME o \in Copied PROVE o <= m
      BY <1>2, <1>5, <2>1, <2>2, Compared, ZenonT(30) DEF Copied
    <2>3. ASSUME o \in Ahead, o <= m PROVE o \in D
      <3>1. CASE o = m
        BY <1>3, <3>1, ZenonT(30)
      <3>2. CASE o < m
        BY <1>4, <2>3, <3>2, ZenonT(30)
      <3> QED
        BY <1>5, <2>1, <2>3, <3>1, <3>2, Compared, ZenonT(30)
    <2> QED
      BY <1>1, <1>3, <2>2, <2>3, ZenonT(30)
  <1>7. Copied \cup D \subseteq Set(op.virtual)
    BY <1>1, ZenonT(30)
  <1>8. m \in Nat /\ {o \in Set(op.virtual) : o <= m} = Copied \cup D
    BY <1>5, <1>6, <1>7, ZenonT(30)
  <1> QED
    BY <1>8, ZenonT(30) DEF D, m

\* The supply of a page, which ends Reset when the page is not full.
LEMMA AddSupplyStep ==
    ASSUME IInv, AtStage("addSupply"),
           IF Sum(DOMAIN op.page) # 0 /\ db.supply = Absent THEN ResetFails /\ UNCHANGED db
           ELSE /\ db' = [db EXCEPT !.supply = AddSupply(@, DOMAIN op.page, {})]
                /\ op' = IF Cardinality(DOMAIN op.page) < PageSize THEN [op EXCEPT !.stage = "mark"]
                         ELSE [op EXCEPT !.stage = "page", !.from = Max(DOMAIN op.page)],
           UNCHANGED <<history, events, override, lost, misapplied, overrides>>
    PROVE  IInv'
  <1> DEFINE D == DOMAIN op.page
             B == Copied \cup D
  <1>1. op.kind = "reset" /\ op.stage = "addSupply" /\ op.stage \in Paging
    BY DEF AtStage, Paging
  <1>2. /\ TypeOK /\ op \in Resets /\ db \in Indexes /\ op.page \in Entries /\ db.parents = 0 /\ PageOK
        /\ D \in SUBSET Outpoints /\ Copied \in SUBSET Outpoints /\ Ahead \in SUBSET Outpoints
        /\ Copied \cap Ahead = {} /\ D \subseteq Ahead /\ D = FirstPage(Ahead)
        /\ Copied \cup Ahead = Set(op.virtual) /\ op.virtual \in 1 .. Len(history)
    BY <1>1, PageFacts, ZenonT(30)
  <1>3. Indexed = B /\ db.supply = Sum(Copied) /\ CountsAre(B)
    BY <1>1, <1>2, ZenonT(30) DEF PageOK
  <1>4. B \ Copied = D /\ Copied \ B = {} /\ B \in SUBSET Outpoints
    BY <1>2
  <1>5. Sum(Copied) \in Nat /\ Sum(B) \in Nat /\ Sum(B) = AddSupply(Sum(Copied), D, {})
    <2> HIDE DEF D, B
    <2>1. Sum(Copied) \in Nat /\ Sum(B) \in Nat
      BY <1>2, <1>4, SumAfterMove, ZenonT(30)
    <2>2. Sum(B) = AddSupply(Sum(Copied), B \ Copied, Copied \ B)
      BY <1>2, <1>4, SumAfterMove, ZenonT(30)
    <2> QED
      BY <1>4, <2>1, <2>2, ZenonT(30)
  <1>6. db.supply # Absent
    BY <1>3, <1>5 DEF Absent
  <1>7. db' = [db EXCEPT !.supply = Sum(B)]
    <2>1. AddSupply(db.supply, D, {}) = Sum(B)
      BY <1>3, <1>5, Zenon
    <2>2. db' = [db EXCEPT !.supply = AddSupply(db.supply, D, {})]
      BY <1>6, Zenon
    <2> QED
      BY <2>1, <2>2, Zenon
  <1>8. op' = IF Cardinality(D) < PageSize THEN [op EXCEPT !.stage = "mark"]
              ELSE [op EXCEPT !.stage = "page", !.from = Max(D)]
    BY <1>6, Zenon
  <1>9. /\ db' \in Indexes /\ db'.parents = 0 /\ db'.supply = Sum(B)
        /\ db'.entries = db.entries /\ db'.counts = db.counts
    <2> HIDE DEF B
    <2>1. Sum(B) \in Int
      BY <1>5
    <2> QED
      BY <1>2, <1>7, <2>1, WithSupply, Zenon
  <1>10. Indexed' = B
    BY <1>3, <1>9, ZenonT(30) DEF Indexed
  <1>11. \A os : os = B => Exact(os)'
    BY <1>3, <1>9, <1>10, ZenonT(30) DEF Exact, CountsAre
  <1>12. ParentsOK' /\ IndexIsExact'
    BY <1>9, NoParentsOK, ZenonT(30)
  <1>13. Set(op.virtual) = DOMAIN history[op.virtual] /\ UNCHANGED history
    BY DEF Set
  <1>14. CASE Cardinality(D) < PageSize
    <2>1. op' = [op EXCEPT !.stage = "mark"]
      BY <1>8, <1>14, ZenonT(30)
    <2>2. /\ op' \in Resets /\ op'.kind = "reset" /\ op'.stage = "mark" /\ op'.by = op.by
          /\ op'.virtual = op.virtual
      BY <1>1, <2>1, GoToType, ZenonT(30) DEF Copying
    <2>3. D = Ahead
      BY <1>2, <1>14, PageIsAPrefix, ZenonT(30)
    <2>4. B = Set(op.virtual)
      BY <1>2, <2>3, ZenonT(30)
    <2>5. Set(op.virtual)' = B
      BY <1>13, <2>2, <2>4, ZenonT(30) DEF Set
    <2>6. Exact(Set(op.virtual))'
      BY <1>3, <1>9, <1>10, <2>5, ZenonT(30) DEF Exact, CountsAre
    <2>7. TypeOK' /\ EventsOK' /\ NewOK' /\ OverrideOK' /\ Contiguous' /\ DiffsAreContiguous'
      BY <1>1, <1>9, <2>2, ResetFrame, StillContiguous, ZenonT(30) DEF Copying
    <2>8. ResetOK'
      BY <1>2, <1>9, <2>2, <2>6, ZenonT(30) DEF ResetOK, Copying, Paging, Deleting
    <2> QED
      BY <1>12, <2>7, <2>8, ZenonT(30) DEF IInv
  <1>15. CASE ~ (Cardinality(D) < PageSize)
    <2>1. op' = [op EXCEPT !.stage = "page", !.from = Max(D)]
      BY <1>8, <1>15, ZenonT(30)
    <2>2. D # {}
      BY <1>15, FS_EmptySet, SizesAssumption
    <2>3. Max(D) \in Nat /\ {o \in Set(op.virtual) : o <= Max(D)} = B
      BY <1>1, <2>2, CopiedGrows, Zenon
    <2>4. /\ op' \in Resets /\ op'.kind = "reset" /\ op'.stage = "page" /\ op'.by = op.by
          /\ op'.virtual = op.virtual /\ op'.from = Max(D)
      <3> DEFINE m == Max(D)
      <3>1. m \in Nat /\ op' = [op EXCEPT !.stage = "page", !.from = m]
        BY <2>1, <2>3, Zenon
      <3> HIDE DEF m
      <3>2. /\ op' \in Resets /\ op'.kind = "reset" /\ op'.stage = "page" /\ op'.by = op.by
            /\ op'.virtual = op.virtual /\ op'.from = m
        BY <1>2, <3>1, ZenonT(30) DEF Resets, Copying
      <3> QED
        BY <3>2, Zenon DEF m
    <2>5. Copied' = B
      BY <1>13, <2>3, <2>4, Zenon DEF Copied, Set
    <2>6. Exact(Copied)'
      BY <1>3, <1>9, <1>10, <2>5, Zenon DEF Exact, CountsAre
    <2>7. TypeOK' /\ EventsOK' /\ NewOK' /\ OverrideOK' /\ Contiguous' /\ DiffsAreContiguous'
      BY <1>1, <1>9, <2>4, ResetFrame, StillContiguous, Zenon DEF Copying, Paging
    <2>8. ResetOK'
      BY <1>2, <1>9, <2>4, <2>6, ZenonT(30) DEF ResetOK, Copying, Paging, Deleting
    <2> QED
      BY <1>12, <2>7, <2>8 DEF IInv
  <1> QED
    BY <1>14, <1>15, ZenonT(30)

\* The steps that copy a page.
LEMMA AddAndCommitOutpointsStep ==
    ASSUME IInv, AddAndCommitOutpoints
    PROVE  IInv'
  <1>1. UNCHANGED <<history, events, override, lost, misapplied, overrides>>
    BY DEF AddAndCommitOutpoints
  <1>2. CASE /\ AtStage("put")
             /\ \E o \in op.left : /\ db' = [db EXCEPT !.entries[o] = op.page[o]]
                                   /\ op' = [op EXCEPT !.left = @ \ {o}]
    BY <1>1, <1>2, PutEntryStep, ZenonT(30)
  <1>3. CASE /\ AtStage("put") /\ op.left = {}
             /\ op' = [op EXCEPT !.stage = "count", !.left = {Script[o] : o \in DOMAIN op.page}]
             /\ UNCHANGED db
    BY <1>1, <1>3, PutDoneStep, ZenonT(30)
  <1>4. CASE /\ AtStage("count")
             /\ \E s \in op.left : /\ db' = [db EXCEPT !.counts[s] = @ + CountOf(s, DOMAIN op.page)]
                                   /\ op' = [op EXCEPT !.left = @ \ {s}]
    BY <1>1, <1>4, PutCountStep, ZenonT(30)
  <1>5. CASE /\ AtStage("count") /\ op.left = {}
             /\ db' = [db EXCEPT !.initialized = TRUE]
             /\ GoTo("addSupply")
    BY <1>1, <1>5, CountDoneStep, ZenonT(30)
  <1>6. CASE /\ AtStage("addSupply")
             /\ IF Sum(DOMAIN op.page) # 0 /\ db.supply = Absent THEN ResetFails /\ UNCHANGED db
                ELSE /\ db' = [db EXCEPT !.supply = AddSupply(@, DOMAIN op.page, {})]
                     /\ op' = IF Cardinality(DOMAIN op.page) < PageSize THEN [op EXCEPT !.stage = "mark"]
                              ELSE [op EXCEPT !.stage = "page", !.from = Max(DOMAIN op.page)]
    BY <1>1, <1>6, AddSupplyStep, ZenonT(30)
  <1> QED
    BY <1>2, <1>3, <1>4, <1>5, <1>6, ZenonT(30) DEF AddAndCommitOutpoints

\* The index is marked with the virtual that it was copied from, which New has
\* kept from moving.
LEMMA MarkAsSyncedStep ==
    ASSUME IInv, MarkAsSynced
    PROVE  IInv'
  <1>1. op.kind = "reset" /\ UNCHANGED <<history, events, override, lost, misapplied, overrides>>
    BY ZenonT(30) DEF MarkAsSynced, AtStage
  <1>2. /\ TypeOK /\ op \in Resets /\ db \in Indexes
    BY <1>1, OpKinds, ZenonT(30) DEF IInv, TypeOK
  <1>3. CASE AtStage("mark") /\ db' = [db EXCEPT !.parents = op.virtual] /\ GoTo("end")
    <2>1. op.stage = "mark" /\ op.stage \in Copying /\ "end" \in Deleting \cup Copying
      BY <1>3, ZenonT(30) DEF AtStage, Copying
    <2>2. op.virtual \in 1 .. Len(history) /\ Exact(Set(op.virtual))
      BY <1>1, <2>1, ZenonT(30) DEF IInv, ResetOK
    <2>3. /\ op' \in Resets /\ op'.kind = "reset" /\ op'.stage = "end" /\ op'.by = op.by
          /\ op'.virtual = op.virtual
      BY <1>1, <1>3, <2>1, GoToType, ZenonT(30) DEF GoTo
    <2>4. /\ db' \in Indexes /\ db'.parents = op.virtual /\ db'.supply = db.supply
          /\ db'.entries = db.entries /\ db'.counts = db.counts
      <3>1. op.virtual \in Nat
        BY <1>2, ZenonT(30) DEF Resets
      <3> QED
        BY <1>2, <1>3, <3>1, ZenonT(30) DEF Indexes
    <2>5. Indexed' = Indexed /\ Set(op.virtual)' = Set(op.virtual)
      BY <1>1, <2>3, <2>4, ZenonT(30) DEF Indexed, Set
    <2>6. Exact(Set(op.virtual))'
      BY <2>2, <2>4, <2>5, ZenonT(30) DEF Exact, CountsAre
    <2>7. TypeOK' /\ EventsOK' /\ NewOK' /\ OverrideOK' /\ Contiguous' /\ DiffsAreContiguous'
      BY <1>1, <2>1, <2>3, <2>4, ResetFrame, StillContiguous, ZenonT(30)
    <2>8. ParentsOK'
      BY <1>1, <1>2, <2>2, <2>4, SMTT(30) DEF ParentsOK, TypeOK
    <2>9. IndexIsExact'
      BY <1>1, <2>2, <2>4, <2>5, ZenonT(30) DEF Exact, CountsAre, IndexIsExact, Set
    <2>10. ResetOK'
      BY <1>1, <2>2, <2>3, <2>4, <2>6, ZenonT(30) DEF ResetOK, Copying, Paging, Deleting
    <2> QED
      BY <2>7, <2>8, <2>9, <2>10, ZenonT(30) DEF IInv
  <1>4. CASE AtStage("end") /\ db' = [db EXCEPT !.initialized = TRUE] /\ op' = Running
    <2>1. op.stage = "end" /\ op.stage \in Copying
      BY <1>4, ZenonT(30) DEF AtStage, Copying
    <2>2. db.parents = op.virtual /\ op.virtual \in 1 .. Len(history)
      BY <1>1, <2>1, ZenonT(30) DEF IInv, ResetOK
    <2>3. /\ db' \in Indexes /\ db'.parents = db.parents /\ db'.supply = db.supply
          /\ db'.entries = db.entries /\ db'.counts = db.counts
      BY <1>2, <1>4, ZenonT(30) DEF Indexes
    <2>4. op' = Running /\ op'.kind # "reset" /\ op' # NotStarted /\ op' # Panicked
      BY <1>4, ZenonT(30) DEF Running, NotStarted, Panicked
    <2>5. TypeOK'
      BY <1>1, <1>2, <2>3, <2>4, ZenonT(30) DEF TypeOK
    <2>6. ParentsOK' /\ EventsOK'
      BY <1>1, <2>3, ZenonT(30) DEF IInv, ParentsOK, EventsOK, ChangeOK, Set
    <2>7. ResetOK' /\ NewOK' /\ DiffsAreContiguous'
      BY <1>1, <2>4, ZenonT(30) DEF IInv, ResetOK, NewOK, DiffsAreContiguous
    <2>8. OverrideOK'
      BY <1>1, <2>4, ZenonT(30) DEF IInv, OverrideOK
    <2>9. IndexIsExact'
      <3>1. Indexed' = Indexed
        BY <2>3, ZenonT(30) DEF Indexed
      <3> QED
        BY <1>1, <2>3, <3>1, ZenonT(30) DEF IInv, IndexIsExact
    <2>10. Contiguous'
      <3> SUFFICES ASSUME overrides = 0 PROVE Contiguous'
        BY <1>1, ZenonT(30) DEF Contiguous
      <3>1. op.by = "new"
        BY <1>1, <1>2 DEF IInv, OverrideOK, Resets
      <3>2. events = << >> /\ op.virtual = Len(history)
        BY <1>1, <2>1, <3>1, Zenon DEF IInv, NewOK, ParentHashes
      <3>3. events' = << >> /\ Len(events') = 0 /\ db'.parents = Len(history') /\ Len(history') \in Nat
        BY <1>1, <1>2, <2>2, <2>3, <3>2, SMTT(30) DEF TypeOK
      <3>4. 1 .. Len(events') = {} /\ db'.parents .. Len(history') - 1 = {}
        BY <3>3
      <3> QED
        BY <3>4, ZenonT(30) DEF Contiguous
    <2> QED
      BY <2>5, <2>6, <2>7, <2>8, <2>9, <2>10, ZenonT(30) DEF IInv
  <1> QED
    BY <1>3, <1>4, ZenonT(30) DEF MarkAsSynced

\* Every step of the node keeps the invariant.
LEMMA NextIInv ==
    ASSUME IInv, [Next]_vars
    PROVE  IInv'
  <1>1. CASE InsertBlock
    BY <1>1, InsertBlockStep, Zenon
  <1>2. CASE \E set \in VirtualSets, byBlock \in BOOLEAN : MoveVirtual(set, byBlock)
    BY <1>2, MoveVirtualStep, Zenon
  <1>3. CASE \E set \in VirtualSets : CommitStagingConsensus(set)
    BY <1>3, CommitStagingConsensusStep, Zenon
  <1>4. CASE HandleEvent
    BY <1>4, HandleEventStep
  <1>5. CASE OnPruningPointUTXOSetOverride
    BY <1>5, OnPruningPointUTXOSetOverrideStep
  <1>6. CASE ResetStep
    BY <1>6, DeleteAllStep, GetVirtualInfoStep, InitializeStep, GetVirtualUTXOsStep,
       AddAndCommitOutpointsStep, MarkAsSyncedStep, ZenonT(30) DEF ResetStep
  <1>7. CASE New
    BY <1>7, NewStep
  <1>8. CASE Crash
    BY <1>8, CrashStep
  <1>9. CASE UNCHANGED vars
    <2>1. /\ history' = history /\ events' = events /\ db' = db /\ op' = op /\ override' = override
          /\ lost' = lost /\ misapplied' = misapplied /\ overrides' = overrides
      BY <1>9, ZenonT(30) DEF vars
    <2>2. Indexed' = Indexed /\ Copied' = Copied /\ Ahead' = Ahead
      BY <2>1, ZenonT(30) DEF Indexed, Copied, Ahead, Set
    <2>3. TypeOK' /\ ParentsOK' /\ NewOK' /\ OverrideOK' /\ DiffsAreContiguous'
      BY <2>1, ZenonT(30) DEF IInv, TypeOK, ParentsOK, NewOK, OverrideOK, DiffsAreContiguous, ParentHashes
    <2>4. EventsOK' /\ IndexIsExact'
      BY <2>1, <2>2, ZenonT(30) DEF IInv, EventsOK, ChangeOK, Set, IndexIsExact
    <2>5. Contiguous'
      BY <2>1, ZenonT(30) DEF IInv, Contiguous, IsChange
    <2>6. ResetOK'
      BY <2>1, <2>2, ZenonT(30) DEF IInv, ResetOK, PageOK, Exact, CountsAre, Set
    <2> QED
      BY <2>3, <2>4, <2>5, <2>6, ZenonT(30) DEF IInv
  <1> QED
    BY <1>1, <1>2, <1>3, <1>4, <1>5, <1>6, <1>7, <1>8, <1>9, ZenonT(30) DEF Next

\* A marked index is exact in every reachable state of the database, at every
\* page size, capacity and word size: IndexIsExact of the utxo_index run.
THEOREM IndexIsAlwaysExact == Spec => []IndexIsExact
  <1>1. IInv => IndexIsExact
    BY ZenonT(30) DEF IInv
  <1> QED
    BY InitIInv, NextIInv, <1>1, PTL DEF Spec

\* New never fails, and Update is only ever given the next diff unless one was
\* lost in a full channel or the consensus was replaced: DiffsAreContiguous of
\* the utxo_index run.
THEOREM DiffsAreAlwaysContiguous == Spec => []DiffsAreContiguous
  <1>1. IInv => DiffsAreContiguous
    BY DEF IInv
  <1> QED
    BY InitIInv, NextIInv, <1>1, PTL DEF Spec
=============================================================================
