------------------------- MODULE MatrixImportProofs -------------------------
(***************************************************************************)
(* What MatrixImport promises, for every number of ranks, every size,      *)
(* every partition, every sparsity pattern and every integer width.        *)
(*                                                                         *)
(* The invariant MInv says of each stage what it has made of the input, so *)
(* that the theorems come down to what the operators compute: Sorted lists *)
(* a set (SortedIs), the scan gives each rank its first row (StartCounts,  *)
(* GlobalRow), Csr holds a set of entries row by row (CsrHolds), narrowing *)
(* and diagonal-first reordering keep what it holds (AsHypreIntHolds,      *)
(* ReorderedHolds), and a reader of the blocks or of the triplets finds    *)
(* the entries again (HypreReads, CooIs).                                  *)
(***************************************************************************)
EXTENDS MatrixImport, FiniteSetTheorems, WellFoundedInduction, TLAPS

-------------------------------------------------------------------------------
(* Finite sets, and their members in ascending order.                      *)
LEMMA RowsFinite ==
  ASSUME input.size \in Nat, NEW S \in SUBSET Rows
  PROVE  IsFiniteSet(S) /\ Cardinality(S) \in Nat /\ Cardinality(S) <= input.size
<1> DEFINE n == input.size
<1>1. IsFiniteSet(Rows) /\ Cardinality(Rows) = n
  <2>1. n \in Nat /\ Rows = 0..n - 1
    BY DEF Rows
  <2> HIDE DEF n
  <2> QED
    BY <2>1, FS_Interval
<1> QED
  BY <1>1, FS_Subset, FS_CardinalityType

(* Keys that tell the members of a set apart.                              *)
Keyed(S, key) ==
  /\ IsFiniteSet(S)
  /\ \A e \in S : key[e][1] \in Int /\ key[e][2] \in Int
  /\ \A d, e \in S : key[d][1] = key[e][1] /\ key[d][2] = key[e][2] => d = e

UpTo(S, key, e) == {d \in S : ~Less(key[e], key[d])}

Ascends(S, key, s) ==
  /\ s \in [1..Cardinality(S) -> S]
  /\ \A j, k \in 1..Cardinality(S) : j < k => Less(key[s[j]], key[s[k]])
  /\ \A e \in S : \E k \in 1..Cardinality(S) : s[k] = e

(* The keys order the members strictly and totally.                        *)
LEMMA LessTotal ==
  ASSUME NEW S, NEW key, Keyed(S, key)
  PROVE  /\ \A d, e \in S : d = e \/ Less(key[d], key[e]) \/ Less(key[e], key[d])
         /\ \A d, e \in S : Less(key[d], key[e]) => d # e /\ ~Less(key[e], key[d])
         /\ \A c, d, e \in S : Less(key[c], key[d]) /\ Less(key[d], key[e]) => Less(key[c], key[e])
  BY DEF Keyed, Less

(* A member's place is the number of members up to it.                     *)
LEMMA PlacesGrow ==
  ASSUME NEW S, NEW key, Keyed(S, key)
  PROVE  /\ \A e \in S : /\ IsFiniteSet(UpTo(S, key, e))
                         /\ Cardinality(UpTo(S, key, e)) \in 1..Cardinality(S)
         /\ \A d, e \in S : Less(key[d], key[e]) =>
                              Cardinality(UpTo(S, key, d)) < Cardinality(UpTo(S, key, e))
<1>1. IsFiniteSet(S) /\ Cardinality(S) \in Nat
  BY FS_CardinalityType DEF Keyed
<1>2. \A e \in S : /\ IsFiniteSet(UpTo(S, key, e)) /\ Cardinality(UpTo(S, key, e)) \in Nat
                   /\ Cardinality(UpTo(S, key, e)) <= Cardinality(S)
  BY <1>1, FS_Subset, FS_CardinalityType DEF UpTo
<1>3. \A e \in S : e \in UpTo(S, key, e)
  BY LessTotal DEF UpTo
<1>4. \A e \in S : Cardinality(UpTo(S, key, e)) # 0
  BY <1>2, <1>3, FS_EmptySet
<1>5. ASSUME NEW d \in S, NEW e \in S, Less(key[d], key[e])
      PROVE  Cardinality(UpTo(S, key, d)) < Cardinality(UpTo(S, key, e))
  <2>1. \A c \in UpTo(S, key, d) : c \in UpTo(S, key, e)
    BY <1>5, LessTotal DEF UpTo
  <2>2. e \notin UpTo(S, key, d)
    BY <1>5 DEF UpTo
  <2>3. UpTo(S, key, d) \in SUBSET UpTo(S, key, e) /\ UpTo(S, key, d) # UpTo(S, key, e)
    BY <1>3, <2>1, <2>2
  <2>4. /\ Cardinality(UpTo(S, key, d)) <= Cardinality(UpTo(S, key, e))
        /\ Cardinality(UpTo(S, key, d)) # Cardinality(UpTo(S, key, e))
    BY <1>2, <2>3, FS_Subset
  <2> QED
    BY <1>2, <2>4
<1> QED
  BY <1>1, <1>2, <1>4, <1>5

(* A sorted sequence exists: the inverse of the places.                    *)
LEMMA SortedExists ==
  ASSUME NEW S, NEW key, Keyed(S, key)
  PROVE  \E s \in SetToSeqs(S) :
           \A j, k \in 1..Cardinality(S) : j < k => Less(key[s[j]], key[s[k]])
<1> DEFINE n     == Cardinality(S)
           place == [e \in S |-> Cardinality(UpTo(S, key, e))]
           s     == [k \in 1..n |-> CHOOSE e \in S : place[e] = k]
<1>1. n \in Nat /\ IsFiniteSet(S)
  BY FS_CardinalityType DEF Keyed
<1>2. place \in [S -> 1..n]
  BY PlacesGrow
<1>3. \A d, e \in S : d # e => place[d] # place[e]
  <2>1. \A d, e \in S : Less(key[d], key[e]) => place[d] < place[e]
    BY PlacesGrow
  <2>2. \A e \in S : place[e] \in Nat
    BY <1>1, <1>2
  <2> HIDE DEF place
  <2> QED
    BY <2>1, <2>2, LessTotal
<1> HIDE DEF place, n
<1>4. place \in Injection(S, 1..n)
  BY <1>2, <1>3 DEF Injection, IsInjective
<1>5. IsFiniteSet(1..n) /\ Cardinality(1..n) = n
  BY <1>1, FS_Interval
<1>6. place \in Surjection(S, 1..n)
  BY <1>4, <1>5, FS_Injection DEF n
<1>7. \A k \in 1..n : \E e \in S : place[e] = k
  BY <1>6 DEF Surjection
<1>8. \A k \in 1..n : s[k] \in S /\ place[s[k]] = k
  BY <1>7
<1>9. \A j, k \in 1..n : j < k => Less(key[s[j]], key[s[k]])
  <2> SUFFICES ASSUME NEW j \in 1..n, NEW k \in 1..n, j < k, ~Less(key[s[j]], key[s[k]])
               PROVE  FALSE
    OBVIOUS
  <2>1. s[j] \in S /\ s[k] \in S /\ place[s[j]] = j /\ place[s[k]] = k
    BY <1>8
  <2> HIDE DEF s
  <2>2. s[j] # s[k]
    BY <2>1
  <2>3. Less(key[s[k]], key[s[j]])
    BY <2>1, <2>2, LessTotal
  <2>4. place[s[k]] < place[s[j]]
    BY <2>1, <2>3, PlacesGrow DEF place
  <2> QED
    BY <1>1, <2>1, <2>4
<1>10. s \in SetToSeqs(S)
  <2>1. s \in [1..n -> S]
    BY <1>8
  <2>2. \A j, k \in 1..n : j # k => s[j] # s[k]
    BY <1>8
  <2> HIDE DEF s
  <2> QED
    BY <2>1, <2>2 DEF SetToSeqs, n
<1> HIDE DEF s
<1> QED
  BY <1>9, <1>10 DEF n

(* Sorted lists every member once, in ascending order.                     *)
LEMMA SortedIs ==
  ASSUME NEW S, NEW key, Keyed(S, key)
  PROVE  Ascends(S, key, Sorted(S, key))
<1> DEFINE s == Sorted(S, key)
           n == Cardinality(S)
<1>1. n \in Nat /\ IsFiniteSet(S)
  BY FS_CardinalityType DEF Keyed
<1>2. s \in SetToSeqs(S) /\ \A j, k \in 1..n : j < k => Less(key[s[j]], key[s[k]])
  BY SortedExists DEF Sorted
<1> HIDE DEF s
<1>3. s \in [1..n -> S] /\ \A j, k \in 1..n : j # k => s[j] # s[k]
  BY <1>2 DEF SetToSeqs
<1>4. s \in Injection(1..n, S)
  BY <1>3 DEF Injection, IsInjective
<1>5. IsFiniteSet(1..n) /\ Cardinality(1..n) = n
  BY <1>1, FS_Interval
<1>6. s \in Surjection(1..n, S)
  BY <1>1, <1>4, <1>5, FS_Injection
<1> QED
  BY <1>2, <1>3, <1>6 DEF Ascends, Surjection, s

(* The members before a boundary come first, as many as there are.         *)
LEMMA SortedPrefix ==
  ASSUME NEW S, NEW key, Keyed(S, key), NEW s, Ascends(S, key, s),
         NEW P \in SUBSET S, \A d \in P : \A e \in S \ P : Less(key[d], key[e])
  PROVE  \A k \in 1..Cardinality(S) : s[k] \in P <=> k <= Cardinality(P)
<1> DEFINE n == Cardinality(S)
           K == {k \in 1..n : s[k] \in P}
<1>1. n \in Nat /\ IsFiniteSet(S)
  BY FS_CardinalityType DEF Keyed
<1>2. s \in [1..n -> S] /\ \A j, k \in 1..n : j < k => Less(key[s[j]], key[s[k]])
  BY DEF Ascends
<1>3. \A j, k \in 1..n : s[j] = s[k] => j = k
  <2>1. \A j, k \in 1..n : j < k => s[j] # s[k]
    BY <1>2, LessTotal
  <2> QED
    BY <1>1, <2>1
<1>4. \A j, k \in 1..n : k \in K /\ j < k => j \in K
  <2> SUFFICES ASSUME NEW j \in 1..n, NEW k \in 1..n, s[k] \in P, j < k, s[j] \notin P
               PROVE  FALSE
    OBVIOUS
  <2>1. Less(key[s[k]], key[s[j]]) /\ Less(key[s[j]], key[s[k]]) /\ s[j] \in S /\ s[k] \in S
    BY <1>2
  <2> QED
    BY <2>1, LessTotal
<1>5. IsFiniteSet(K) /\ Cardinality(K) = Cardinality(P)
  <2> DEFINE f == [k \in K |-> s[k]]
  <2>1. f \in Bijection(K, P)
    <3>1. f \in [K -> P] /\ \A j, k \in K : f[j] = f[k] => j = k
      BY <1>3
    <3>2. \A e \in P : \E k \in K : f[k] = e
      BY DEF Ascends
    <3> HIDE DEF f
    <3> QED
      BY <3>1, <3>2 DEF Bijection, Injection, Surjection, IsInjective
  <2>2. IsFiniteSet(K)
    <3>1. IsFiniteSet(1..n) /\ K \in SUBSET (1..n)
      BY <1>1, FS_Interval
    <3> HIDE DEF K, n
    <3> QED
      BY <3>1, FS_Subset
  <2>3. ExistsBijection(K, P)
    BY <2>1 DEF ExistsBijection
  <2> QED
    BY <2>2, <2>3, FS_Bijection
<1>6. Cardinality(P) \in Nat
  BY <1>1, FS_Subset, FS_CardinalityType
<1>7. ASSUME NEW k \in 1..n, k \in K  PROVE k <= Cardinality(P)
  <2>1. 1..k \in SUBSET K
    <3>1. \A j \in 1..k : j \in 1..n /\ (j = k \/ j < k)
      BY <1>1
    <3> HIDE DEF K
    <3>2. \A j \in 1..k : j \in K
      BY <1>4, <1>7, <3>1
    <3> QED
      BY <3>2
  <2>2. Cardinality(1..k) = k
    BY <1>1, FS_Interval
  <2> HIDE DEF K
  <2> QED
    BY <1>5, <2>1, <2>2, FS_Subset
<1>8. ASSUME NEW k \in 1..n, k \notin K  PROVE k > Cardinality(P)
  <2>1. K \in SUBSET (1..k - 1)
    BY <1>4, <1>8
  <2>2. IsFiniteSet(1..k - 1) /\ Cardinality(1..k - 1) = k - 1
    <3> DEFINE m == k - 1
    <3>1. m \in Nat
      BY <1>1
    <3>2. IsFiniteSet(1..m) /\ Cardinality(1..m) = m
      <4> HIDE DEF m
      <4> QED
        BY <3>1, FS_Interval
    <3> QED
      BY <3>2
  <2> HIDE DEF K
  <2>3. Cardinality(K) <= k - 1
    BY <2>1, <2>2, FS_Subset
  <2> QED
    BY <1>5, <1>6, <2>3
<1> QED
  BY <1>1, <1>6, <1>7, <1>8

-------------------------------------------------------------------------------
(* What the import is given.                                               *)
Given ==
  /\ input.size \in Nat \ {0} /\ input.intMax \in Nat /\ input.bigMax \in Nat
  /\ input.owner \in [Rows -> Ranks] /\ input.colOwner \in [Rows -> Ranks]
  /\ input.entries \in SUBSET (Rows \X Rows)
  /\ ColumnsFollowRows => input.colOwner = input.owner
  /\ CountsFit => \A r \in Ranks :
       LocalRows(r) <= input.intMax /\ Cardinality(EntriesOf(r)) <= input.intMax

Below(r) == {g \in Rows : input.owner[g] < r}
UpToRank(r) == {g \in Rows : input.owner[g] <= r}
OwnedBy(T) == {g \in Rows : input.owner[g] \in T}

(* Ranks and rows as numbers.                                              *)
LEMMA RanksAre == Ranks \subseteq Int /\ 0 \in Ranks /\ NumRanks - 1 \in Ranks
  BY ImportAssumption DEF Ranks

(* A row is a number below the size.                                       *)
LEMMA RowsAre ==
  ASSUME input.size \in Nat
  PROVE  \A g : g \in Rows <=> g \in Nat /\ g < input.size
  BY DEF Rows

(* So is its owner's rank.                                                 *)
LEMMA OwnersAre ==
  ASSUME Given, NEW g \in Rows
  PROVE  /\ g \in Nat /\ g < input.size
         /\ input.owner[g] \in Ranks /\ input.owner[g] \in Nat
         /\ input.colOwner[g] \in Ranks /\ input.colOwner[g] \in Nat
<1>1. g \in Nat /\ g < input.size
  BY RowsAre DEF Given
<1>2. input.owner[g] \in Ranks /\ input.colOwner[g] \in Ranks
  BY DEF Given
<1>3. \A r \in Ranks : r \in Nat
  BY ImportAssumption DEF Ranks
<1> QED
  BY <1>1, <1>2, <1>3

HasLeast(W) == \E T \in W : \A U \in W : U \subseteq T => U = T

(* Every family of subsets of a finite set has a smallest member.          *)
LEMMA LeastSet ==
  ASSUME NEW S, IsFiniteSet(S)
  PROVE  \A W \in SUBSET SUBSET S : W # {} => HasLeast(W)
<1> SUFFICES ASSUME NEW W \in SUBSET SUBSET S, W # {}  PROVE HasLeast(W)
  OBVIOUS
<1>1. IsWellFoundedOn(StrictSubsetOrdering(S), SUBSET S)
  BY FS_FiniteSubsetsOfFinite, FS_StrictSubsetOrderingWellFounded, Zenon
<1>2. PICK T \in W : \A U \in W : <<U, T>> \notin StrictSubsetOrdering(S)
  BY <1>1, WFMin, Zenon
<1>3. \A U \in W : U \subseteq T => U = T
  BY <1>2 DEF StrictSubsetOrdering
<1> QED
  BY <1>3 DEF HasLeast

(* MPI_Scan counts the rows of the ranks up to this one.                   *)
LEMMA ScanCounts ==
  ASSUME Given, NEW r \in Ranks
  PROVE  ScanRows(r) = Cardinality(UpToRank(r))
<1> DEFINE One(T)  == CHOOSE x \in T : TRUE
           S       == 0..r
           Rec(f)  == f = [T \in SUBSET S |-> IF T = {} THEN 0 ELSE LocalRows(One(T)) + f[T \ {One(T)}]]
           iter    == CHOOSE f : Rec(f)
           Size    == [T \in SUBSET S |-> Cardinality(OwnedBy(T))]
<1>1. ScanRows(r) = iter[S]
  BY DEF ScanRows, MapThenSumSet, MapThenFoldSet
<1>2. \A T \in SUBSET S : T # {} => One(T) \in T
  OBVIOUS
<1>3. OwnedBy({}) = {} /\ Cardinality({}) = 0
  BY FS_EmptySet DEF OwnedBy
<1>4. \A T \in SUBSET S : Size[T] = IF T = {} THEN 0 ELSE LocalRows(One(T)) + Size[T \ {One(T)}]
  <2> SUFFICES ASSUME NEW T \in SUBSET S, T # {}
               PROVE  Size[T] = LocalRows(One(T)) + Size[T \ {One(T)}]
    BY <1>3
  <2> HIDE DEF One
  <2>1. One(T) \in T
    BY <1>2
  <2> DEFINE A == OwnedBy({One(T)})
             B == OwnedBy(T \ {One(T)})
  <2>2. A \cup B = OwnedBy(T) /\ A \cap B = {} /\ LocalRows(One(T)) = Cardinality(A)
    BY <2>1 DEF OwnedBy, LocalRows
  <2>3. /\ IsFiniteSet(A) /\ IsFiniteSet(B)
        /\ Cardinality(A) \in Nat /\ Cardinality(B) \in Nat
    BY RowsFinite DEF OwnedBy, Given
  <2>4. Cardinality(OwnedBy(T)) = Cardinality(A) + Cardinality(B) - Cardinality({})
    <3> HIDE DEF A, B
    <3> QED
      BY <2>2, <2>3, FS_Union
  <2>5. Size[T] = Cardinality(OwnedBy(T)) /\ Size[T \ {One(T)}] = Cardinality(B)
    OBVIOUS
  <2> HIDE DEF A, B, Size
  <2> QED
    BY <1>3, <2>2, <2>3, <2>4, <2>5
<1>5. Rec(Size)
  <2> HIDE DEF One
  <2> QED
    BY <1>4
<1>6. Rec(iter)
  <2> HIDE DEF Rec, Size
  <2> QED
    BY <1>5
<1>7. \A T \in SUBSET S : iter[T] = IF T = {} THEN 0 ELSE LocalRows(One(T)) + iter[T \ {One(T)}]
  <2> HIDE DEF iter, One
  <2> QED
    BY <1>6
<1>8. \A T \in SUBSET S : iter[T] = Size[T]
  <2> DEFINE W == {T \in SUBSET S : iter[T] # Size[T]}
  <2> SUFFICES ASSUME W # {}  PROVE FALSE
    OBVIOUS
  <2>1. W \in SUBSET SUBSET S /\ W # {}
    OBVIOUS
  <2>2. IsFiniteSet(S)
    BY RanksAre, FS_Interval
  <2> HIDE DEF iter, Size, One, S
  <2>3. PICK T \in W : \A U \in W : U \subseteq T => U = T
    <3> HIDE DEF W
    <3>1. HasLeast(W)
      BY <2>1, <2>2, LeastSet
    <3> QED
      BY <3>1 DEF HasLeast
  <2>4. T # {}
    BY <1>4, <1>7
  <2>5. T \ {One(T)} \in SUBSET S /\ T \ {One(T)} \notin W
    BY <1>2, <2>3, <2>4
  <2>6. iter[T \ {One(T)}] = Size[T \ {One(T)}]
    BY <2>5
  <2> QED
    BY <1>4, <1>7, <2>4, <2>6
<1>9. OwnedBy(S) = UpToRank(r)
  <2>1. \A g \in Rows : input.owner[g] \in 0..r <=> input.owner[g] <= r
    BY RanksAre, ImportAssumption DEF Given, Ranks
  <2> QED
    BY <2>1 DEF OwnedBy, UpToRank
<1> QED
  BY <1>1, <1>8, <1>9

Start(r) == ScanRows(r) - LocalRows(r)

(* A rank's first row is the number of rows of the ranks below it.         *)
LEMMA StartCounts ==
  ASSUME Given, NEW r \in Ranks
  PROVE  /\ Start(r) = Cardinality(Below(r)) /\ ScanRows(r) = Start(r) + LocalRows(r)
         /\ Start(r) \in 0..input.size /\ ScanRows(r) \in 0..input.size
         /\ LocalRows(r) \in 0..input.size
<1>1. /\ IsFiniteSet(Below(r)) /\ IsFiniteSet(OwnedBy({r})) /\ IsFiniteSet(UpToRank(r))
      /\ Cardinality(Below(r)) \in 0..input.size /\ Cardinality(OwnedBy({r})) \in 0..input.size
      /\ Cardinality(UpToRank(r)) \in 0..input.size
  BY RowsFinite DEF Below, OwnedBy, UpToRank, Given
<1>2. Below(r) \cup OwnedBy({r}) = UpToRank(r) /\ Below(r) \cap OwnedBy({r}) = {}
  <2>1. \A g \in Rows : input.owner[g] \in Int /\ r \in Int
    BY RanksAre DEF Given
  <2> QED
    BY <2>1 DEF Below, OwnedBy, UpToRank
<1>3. Cardinality(UpToRank(r)) = Cardinality(Below(r)) + Cardinality(OwnedBy({r})) - Cardinality({})
  BY <1>1, <1>2, FS_Union
<1>4. LocalRows(r) = Cardinality(OwnedBy({r}))
  BY DEF LocalRows, OwnedBy
<1> QED
  BY <1>1, <1>3, <1>4, ScanCounts, FS_EmptySet DEF Start

(* The ranges tile, in whatever order the rows are owned.                  *)
LEMMA StartsTile ==
  ASSUME Given
  PROVE  /\ Start(0) = 0 /\ ScanRows(NumRanks - 1) = input.size
         /\ \A r \in Ranks \ {0} : r - 1 \in Ranks /\ Start(r) = ScanRows(r - 1)
<1>1. \A g \in Rows : input.owner[g] \in 0..NumRanks - 1
  BY DEF Given, Ranks
<1>2. Start(0) = 0
  <2>1. Below(0) = {}
    BY <1>1, ImportAssumption DEF Below
  <2> QED
    BY <2>1, StartCounts, RanksAre, FS_EmptySet
<1>3. ScanRows(NumRanks - 1) = input.size
  <2>1. UpToRank(NumRanks - 1) = Rows
    BY <1>1, ImportAssumption DEF UpToRank
  <2> DEFINE n == input.size
  <2>2. Cardinality(Rows) = n
    <3>1. n \in Nat /\ Rows = 0..n - 1
      BY DEF Rows, Given
    <3> HIDE DEF n
    <3> QED
      BY <3>1, FS_Interval
  <2> QED
    BY <2>1, <2>2, ScanCounts, RanksAre
<1>4. ASSUME NEW r \in Ranks \ {0}  PROVE r - 1 \in Ranks /\ Start(r) = ScanRows(r - 1)
  <2>1. r - 1 \in Ranks
    BY ImportAssumption DEF Ranks
  <2>2. Below(r) = UpToRank(r - 1)
    BY <1>1, ImportAssumption DEF Below, UpToRank, Ranks
  <2> QED
    BY <2>1, <2>2, StartCounts, ScanCounts
<1> QED
  BY <1>2, <1>3, <1>4

-------------------------------------------------------------------------------
(* Numbering within a part: ascending, below the part's size.              *)
LEMMA LocalIndexGrows ==
  ASSUME input.size \in Nat, NEW o, NEW g \in Rows
  PROVE  /\ LocalIndex(o, g) \in 0..input.size - 1
         /\ LocalIndex(o, g) < Cardinality({h \in Rows : o[h] = o[g]})
         /\ \A h \in Rows : o[h] = o[g] /\ h < g => LocalIndex(o, h) < LocalIndex(o, g)
<1> DEFINE Before(x) == {h \in Rows : h < x /\ o[h] = o[x]}
           Part      == {h \in Rows : o[h] = o[g]}
<1>1. Rows \subseteq Int
  BY DEF Rows
<1>2. \A x \in Rows : /\ IsFiniteSet(Before(x)) /\ Cardinality(Before(x)) \in Nat
                      /\ IsFiniteSet(Before(x) \cup {x})
                      /\ Cardinality(Before(x) \cup {x}) = Cardinality(Before(x)) + 1
  <2> SUFFICES ASSUME NEW x \in Rows
               PROVE  /\ IsFiniteSet(Before(x)) /\ Cardinality(Before(x)) \in Nat
                      /\ IsFiniteSet(Before(x) \cup {x})
                      /\ Cardinality(Before(x) \cup {x}) = Cardinality(Before(x)) + 1
    OBVIOUS
  <2>1. Before(x) \in SUBSET Rows /\ x \notin Before(x)
    BY <1>1
  <2> HIDE DEF Before
  <2> QED
    BY <2>1, RowsFinite, FS_AddElement
<1>3. ASSUME NEW h \in Rows, o[h] = o[g], h < g
      PROVE  Cardinality(Before(h)) < Cardinality(Before(g))
  <2>1. Before(h) \cup {h} \in SUBSET Before(g)
    <3>1. g \in Int /\ h \in Int /\ \A x \in Before(h) : x \in Int
      BY <1>1
    <3>2. \A x \in Before(h) : x \in Before(g)
      BY <1>3, <3>1
    <3>3. h \in Before(g)
      BY <1>3
    <3> HIDE DEF Before
    <3> QED
      BY <3>2, <3>3
  <2> HIDE DEF Before
  <2>2. Cardinality(Before(h) \cup {h}) <= Cardinality(Before(g))
    BY <1>2, <2>1, FS_Subset
  <2>3. /\ Cardinality(Before(h)) \in Nat /\ Cardinality(Before(g)) \in Nat
        /\ Cardinality(Before(h) \cup {h}) = Cardinality(Before(h)) + 1
    BY <1>2
  <2> QED
    BY <2>2, <2>3
<1>4. Before(g) \cup {g} \in SUBSET Part /\ Part \in SUBSET Rows
  OBVIOUS
<1>5. /\ IsFiniteSet(Part) /\ Cardinality(Part) \in Nat /\ Cardinality(Part) <= input.size
      /\ Cardinality(Before(g) \cup {g}) <= Cardinality(Part)
  <2> HIDE DEF Before, Part
  <2> QED
    BY <1>4, RowsFinite, FS_Subset
<1>6. \A x \in Rows : LocalIndex(o, x) = Cardinality(Before(x))
  BY DEF LocalIndex
<1> HIDE DEF Before, Part
<1>7. LocalIndex(o, g) \in 0..input.size - 1 /\ LocalIndex(o, g) < Cardinality(Part)
  <2>1. /\ Cardinality(Before(g)) \in Nat
        /\ Cardinality(Before(g) \cup {g}) = Cardinality(Before(g)) + 1
    BY <1>2
  <2> QED
    BY <1>5, <1>6, <2>1
<1> QED
  BY <1>3, <1>6, <1>7 DEF Part

(* Within a part the local number tells the global one.                    *)
LEMMA LocalIndexTells ==
  ASSUME input.size \in Nat, NEW o, NEW g \in Rows, NEW h \in Rows, o[g] = o[h],
         LocalIndex(o, g) = LocalIndex(o, h)
  PROVE  g = h
<1>1. g \in Int /\ h \in Int
  BY RowsAre
<1>2. LocalIndex(o, g) \in Int /\ LocalIndex(o, h) \in Int
  <2>1. LocalIndex(o, g) \in 0..input.size - 1
    BY LocalIndexGrows
  <2> QED
    BY <2>1
<1>3. ~(g < h)
  <2> SUFFICES ASSUME g < h  PROVE LocalIndex(o, g) < LocalIndex(o, h)
    BY <1>2
  <2> QED
    BY LocalIndexGrows
<1>4. ~(h < g)
  <2> SUFFICES ASSUME h < g  PROVE LocalIndex(o, h) < LocalIndex(o, g)
    BY <1>2
  <2> QED
    BY LocalIndexGrows
<1> QED
  BY <1>1, <1>3, <1>4

(* With ordered parts a row's global number is its rank's first row plus   *)
(* its local one.                                                          *)
LEMMA GlobalRow ==
  ASSUME Given, OrderedParts, NEW g \in Rows
  PROVE  /\ Start(input.owner[g]) + LocalRow(g) = g
         /\ LocalRow(g) \in 0..LocalRows(input.owner[g]) - 1
<1> DEFINE r == input.owner[g]
           P == {h \in Rows : h < g /\ input.owner[h] = input.owner[g]}
<1>1. r \in Ranks /\ r \in Int /\ g \in Nat
  BY OwnersAre
<1>2. Below(r) \cup P = 0..g - 1 /\ Below(r) \cap P = {}
  <2>1. \A h \in Rows : input.owner[h] \in Int /\ h \in Nat
    BY OwnersAre
  <2>2. \A h \in Rows : input.owner[h] < r => h < g
    <3> SUFFICES ASSUME NEW h \in Rows, input.owner[h] < r, ~(h < g)  PROVE FALSE
      OBVIOUS
    <3>1. h # g /\ g < h
      BY <1>1, <2>1
    <3>2. input.owner[g] <= input.owner[h]
      BY <3>1 DEF OrderedParts
    <3> QED
      BY <1>1, <2>1, <3>2
  <2>3. \A h \in Rows : h < g => input.owner[h] <= r
    BY DEF OrderedParts
  <2>4. \A h \in 0..g - 1 : h \in Rows /\ h < g
    <3>1. g < input.size /\ input.size \in Nat
      BY OwnersAre DEF Given
    <3> QED
      BY <1>1, <3>1 DEF Rows
  <2>5. \A h \in Rows : h < g => h \in 0..g - 1
    BY <1>1, <2>1
  <2>6. \A h \in Below(r) : h \in 0..g - 1 /\ h \notin P
    BY <1>1, <2>1, <2>2, <2>5 DEF Below
  <2>7. \A h \in P : h \in 0..g - 1
    BY <2>5
  <2>8. \A h \in 0..g - 1 : h \in Below(r) \/ h \in P
    <3> SUFFICES ASSUME NEW h \in 0..g - 1  PROVE h \in Below(r) \/ h \in P
      OBVIOUS
    <3>1. h \in Rows /\ h < g
      BY <2>4
    <3>2. input.owner[h] < r \/ input.owner[h] = r
      BY <1>1, <2>1, <2>3, <3>1
    <3> QED
      BY <3>1, <3>2 DEF Below
  <2> HIDE DEF P
  <2> QED
    BY <2>6, <2>7, <2>8
<1>3. /\ IsFiniteSet(Below(r)) /\ IsFiniteSet(P)
      /\ Cardinality(Below(r)) \in Nat /\ Cardinality(P) \in Nat
  BY RowsFinite DEF Below, Given
<1>4. Cardinality(0..g - 1) = g
  BY <1>1, FS_Interval
<1>5. LocalRow(g) = Cardinality(P)
  BY DEF LocalRow, LocalIndex
<1> HIDE DEF P
<1>6. g = Cardinality(Below(r)) + Cardinality(P) - Cardinality({})
  <2>1. Cardinality(Below(r) \cup P)
          = Cardinality(Below(r)) + Cardinality(P) - Cardinality(Below(r) \cap P)
    BY <1>3, FS_Union
  <2> QED
    BY <1>2, <1>4, <2>1
<1>7. Start(r) + LocalRow(g) = g
  <2>1. Start(r) = Cardinality(Below(r)) /\ Cardinality({}) = 0
    BY <1>1, StartCounts, FS_EmptySet
  <2> QED
    BY <1>1, <1>3, <1>5, <1>6, <2>1
<1>8. LocalRow(g) < LocalRows(r)
  BY LocalIndexGrows DEF LocalRow, LocalRows, Given
<1> QED
  BY <1>1, <1>3, <1>5, <1>7, <1>8, StartCounts

-------------------------------------------------------------------------------
(* Entries of rank r, and a numbering that tells their columns apart.      *)
Numbered(r, E, column) ==
  /\ E \in SUBSET EntriesOf(r)
  /\ \A e \in E : column[e[2]] \in 0..input.size - 1
  /\ \A d, e \in E : column[d[2]] = column[e[2]] => d[2] = e[2]

(* Block b has the entries E, each once, in the row they belong to and     *)
(* under the number of their column.                                       *)
Lists(b, E, column) ==
  /\ b.nnz = Cardinality(E)
  /\ b.val \in [1..Cardinality(E) -> E]
  /\ \A j, k \in 1..Cardinality(E) : b.val[j] = b.val[k] => j = k
  /\ \A e \in E : \E k \in 1..Cardinality(E) : b.val[k] = e
  /\ DOMAIN b.col = 1..Cardinality(E)
  /\ \A k \in 1..Cardinality(E) : b.col[k] = column[b.val[k][2]]

Rowwise(b, r, n) ==
  /\ DOMAIN b.ptr = 0..LocalRows(r)
  /\ \A i \in 0..LocalRows(r) : b.ptr[i] \in 0..n
  /\ \A i \in 1..LocalRows(r) : \A k \in 1..n :
       b.ptr[i - 1] < k /\ k <= b.ptr[i] <=> LocalRow(b.val[k][1]) = i - 1

Holds(b, r, E, column) == Lists(b, E, column) /\ Rowwise(b, r, Cardinality(E))

(* An entry lies in the matrix, on a local row of its rank.                *)
LEMMA EntryIs ==
  ASSUME Given, NEW r, NEW e \in EntriesOf(r)
  PROVE  /\ e \in input.entries /\ e[1] \in Rows /\ e[2] \in Rows /\ e = <<e[1], e[2]>>
         /\ input.owner[e[1]] = r
         /\ LocalRow(e[1]) \in 0..LocalRows(r) - 1 /\ LocalRow(e[1]) \in Nat
         /\ LocalRows(r) \in Nat
<1>1. /\ e \in input.entries /\ e[1] \in Rows /\ e[2] \in Rows /\ e = <<e[1], e[2]>>
      /\ input.owner[e[1]] = r
  BY DEF EntriesOf, Given
<1>2. /\ LocalIndex(input.owner, e[1]) \in 0..input.size - 1
      /\ LocalIndex(input.owner, e[1])
           < Cardinality({h \in Rows : input.owner[h] = input.owner[e[1]]})
  BY <1>1, LocalIndexGrows DEF Given
<1>3. LocalRows(r) \in Nat
  BY RowsFinite DEF LocalRows, Given
<1>4. LocalRow(e[1]) < LocalRows(r) /\ LocalRow(e[1]) \in Nat
  BY <1>1, <1>2 DEF LocalRow, LocalRows
<1> QED
  BY <1>1, <1>3, <1>4

(* There are finitely many entries.                                        *)
LEMMA EntriesFinite ==
  ASSUME Given, NEW E \in SUBSET input.entries
  PROVE  /\ IsFiniteSet(E) /\ Cardinality(E) \in Nat
         /\ Cardinality(E) <= Cardinality(input.entries)
         /\ Cardinality(input.entries) \in Nat
<1>1. IsFiniteSet(Rows)
  BY RowsFinite DEF Given
<1>2. IsFiniteSet(Rows \X Rows)
  BY <1>1, FS_Product
<1>3. IsFiniteSet(input.entries)
  BY <1>2, FS_Subset DEF Given
<1> QED
  BY <1>3, FS_Subset, FS_CardinalityType

Key(E, column) == [e \in E |-> <<LocalRow(e[1]), column[e[2]]>>]

(* Local row and column number tell a rank's entries apart.                *)
LEMMA EntriesKeyed ==
  ASSUME Given, NEW r, NEW E, NEW column, Numbered(r, E, column)
  PROVE  Keyed(E, Key(E, column)) /\ Cardinality(E) \in Nat
<1>1. E \in SUBSET input.entries /\ \A e \in E : e \in EntriesOf(r)
  BY EntryIs DEF Numbered
<1>2. IsFiniteSet(E) /\ Cardinality(E) \in Nat
  BY <1>1, EntriesFinite
<1>3. \A e \in E : Key(E, column)[e][1] = LocalRow(e[1]) /\ Key(E, column)[e][2] = column[e[2]]
  BY DEF Key
<1>4. \A e \in E : LocalRow(e[1]) \in Int
  BY <1>1, EntryIs
<1>5. \A e \in E : column[e[2]] \in Int
  BY DEF Numbered
<1>6. ASSUME NEW d \in E, NEW e \in E, LocalRow(d[1]) = LocalRow(e[1]), column[d[2]] = column[e[2]]
      PROVE  d = e
  <2>1. d[2] = e[2]
    BY <1>6 DEF Numbered
  <2>2. d \in EntriesOf(r) /\ e \in EntriesOf(r)
    BY <1>1
  <2>3. input.owner[d[1]] = input.owner[e[1]] /\ d[1] \in Rows /\ e[1] \in Rows
    BY <2>2, EntryIs
  <2>4. d[1] = e[1]
    BY <1>6, <2>3, LocalIndexTells DEF LocalRow, Given
  <2> QED
    BY <2>1, <2>2, <2>4, EntryIs
<1> QED
  BY <1>2, <1>3, <1>4, <1>5, <1>6 DEF Keyed

(* A Csr of a set of entries holds them, row by row.                       *)
LEMMA CsrHolds ==
  ASSUME Given, NEW r, NEW E, NEW column, Numbered(r, E, column)
  PROVE  Holds(Csr(r, E, column), r, E, column)
<1> DEFINE n == Cardinality(E)
           key == Key(E, column)
           s == Sorted(E, key)
           b == Csr(r, E, column)
<1>1. Keyed(E, key) /\ n \in Nat
  BY EntriesKeyed
<1>2. Ascends(E, key, s)
  BY <1>1, SortedIs
<1>3. s \in [1..n -> E] /\ \A e \in E : \E k \in 1..n : s[k] = e
  BY <1>2 DEF Ascends
<1>4. Len(s) = n /\ DOMAIN s = 1..n
  BY <1>1, <1>3
<1>5. /\ b.ptr = [i \in 0..LocalRows(r) |-> Cardinality({e \in E : LocalRow(e[1]) < i})]
      /\ b.col = [k \in 1..n |-> column[s[k][2]]] /\ b.val = s /\ b.nnz = n
  <2>1. b = [ptr |-> [i \in 0..LocalRows(r) |-> Cardinality({e \in E : LocalRow(e[1]) < i})],
             col |-> [k \in 1..Len(s) |-> column[s[k][2]]],
             val |-> s,
             nnz |-> Len(s)]
    BY DEF Csr, Key
  <2> HIDE DEF b, s
  <2> QED
    BY <1>4, <2>1
<1>6. \A j, k \in 1..n : s[j] = s[k] => j = k
  <2>1. \A j, k \in 1..n : j < k => s[j] # s[k]
    BY <1>1, <1>2, <1>3, LessTotal DEF Ascends
  <2> HIDE DEF s, n
  <2> QED
    BY <1>1, <2>1
<1> HIDE DEF b, s, key, n
<1>7. Lists(b, E, column)
  BY <1>3, <1>5, <1>6 DEF Lists, n
<1>8. Rowwise(b, r, n)
  <2> DEFINE P(i) == {e \in E : LocalRow(e[1]) < i}
  <2>0. \A e \in E : LocalRow(e[1]) \in 0..LocalRows(r) - 1 /\ LocalRow(e[1]) \in Nat
    BY EntryIs DEF Numbered
  <2>1. \A i \in 0..LocalRows(r) : b.ptr[i] = Cardinality(P(i))
    BY <1>5
  <2>2. \A i \in Int : Cardinality(P(i)) \in 0..n
    <3>1. IsFiniteSet(E) /\ \A i : P(i) \in SUBSET E
      BY <1>1 DEF Keyed
    <3> HIDE DEF P
    <3> QED
      BY <1>1, <3>1, FS_Subset, FS_CardinalityType DEF n
  <2>3. \A i \in Int : \A k \in 1..n : LocalRow(s[k][1]) < i <=> k <= Cardinality(P(i))
    <3> SUFFICES ASSUME NEW i \in Int
                 PROVE  \A k \in 1..n : LocalRow(s[k][1]) < i <=> k <= Cardinality(P(i))
      OBVIOUS
    <3>1. \A e \in E : key[e][1] = LocalRow(e[1])
      BY DEF key, Key
    <3>2. \A d \in P(i) : \A e \in E \ P(i) : Less(key[d], key[e])
      BY <2>0, <3>1 DEF Less
    <3>3. \A k \in 1..n : s[k] \in P(i) <=> LocalRow(s[k][1]) < i
      BY <1>3
    <3>4. P(i) \in SUBSET E
      OBVIOUS
    <3> HIDE DEF P
    <3>5. \A k \in 1..n : s[k] \in P(i) <=> k <= Cardinality(P(i))
      BY <1>1, <1>2, <3>2, <3>4, SortedPrefix DEF n
    <3> QED
      BY <3>3, <3>5
  <2>4. DOMAIN b.ptr = 0..LocalRows(r)
    BY <1>5
  <2>5. LocalRows(r) \in Nat
    BY RowsFinite DEF LocalRows, Given
  <2> HIDE DEF P
  <2>6. \A i \in 0..LocalRows(r) : b.ptr[i] \in 0..n
    BY <2>1, <2>2, <2>5
  <2>7. ASSUME NEW i \in 1..LocalRows(r), NEW k \in 1..n
        PROVE  b.ptr[i - 1] < k /\ k <= b.ptr[i] <=> LocalRow(b.val[k][1]) = i - 1
    <3>1. i \in Int /\ i - 1 \in Int /\ i \in 0..LocalRows(r) /\ i - 1 \in 0..LocalRows(r)
      BY <2>5
    <3>2. /\ b.ptr[i] = Cardinality(P(i)) /\ b.ptr[i - 1] = Cardinality(P(i - 1))
          /\ b.ptr[i] \in Int /\ b.ptr[i - 1] \in Int /\ k \in Int
      BY <1>1, <2>1, <2>6, <3>1
    <3>3. /\ LocalRow(s[k][1]) < i <=> k <= b.ptr[i]
          /\ LocalRow(s[k][1]) < i - 1 <=> k <= b.ptr[i - 1]
      BY <2>3, <3>1, <3>2
    <3>4. LocalRow(s[k][1]) \in Int /\ b.val = s
      BY <1>3, <1>5, <2>0
    <3> QED
      BY <3>1, <3>2, <3>3, <3>4
  <2> QED
    BY <2>4, <2>6, <2>7 DEF Rowwise
<1> QED
  BY <1>7, <1>8 DEF Holds, b, n

(* A static_cast leaves alone what fits.                                   *)
LEMMA NarrowFits ==
  ASSUME NEW v \in Nat, input.intMax \in Nat, v <= input.intMax
  PROVE  Narrow(v) = v
  BY DEF Narrow

(* It never makes a count larger.                                          *)
LEMMA NarrowShrinks ==
  ASSUME NEW v \in Nat, input.intMax \in Nat
  PROVE  Narrow(v) \in Int /\ Narrow(v) <= v
  BY DEF Narrow

(* Nothing changes where the integers are wide enough.                     *)
LEMMA AsHypreIntHolds ==
  ASSUME Given, NEW r, NEW E, NEW column, Numbered(r, E, column),
         \A e \in E : column[e[2]] <= input.intMax,
         Cardinality(E) <= input.intMax, NEW b, Holds(b, r, E, column)
  PROVE  Holds(AsHypreInt(b), r, E, column)
<1> DEFINE n == Cardinality(E)
           c == AsHypreInt(b)
<1>1. n \in Nat /\ n <= input.intMax /\ input.intMax \in Nat /\ input.size \in Nat
  BY EntriesKeyed DEF Given
<1>2. /\ c.ptr = [i \in DOMAIN b.ptr |-> Narrow(b.ptr[i])]
      /\ c.col = [k \in DOMAIN b.col |-> Narrow(b.col[k])]
      /\ c.val = b.val /\ c.nnz = Narrow(b.nnz)
  BY DEF AsHypreInt
<1> HIDE DEF c, n
<1>3. /\ DOMAIN b.ptr = 0..LocalRows(r) /\ DOMAIN b.col = 1..n
      /\ \A i \in DOMAIN b.ptr : b.ptr[i] \in 0..n
      /\ \A k \in DOMAIN b.col : b.col[k] = column[b.val[k][2]] /\ b.val[k] \in E
      /\ b.nnz = n
  BY DEF Holds, Rowwise, Lists, n
<1>4. \A k \in DOMAIN b.col : b.col[k] \in 0..input.size - 1 /\ b.col[k] <= input.intMax
  BY <1>3 DEF Numbered
<1>5. \A i \in DOMAIN b.ptr : c.ptr[i] = b.ptr[i]
  <2>1. \A i \in DOMAIN b.ptr : b.ptr[i] \in Nat /\ b.ptr[i] <= input.intMax
    BY <1>1, <1>3
  <2> QED
    BY <1>1, <1>2, <2>1, NarrowFits
<1>6. \A k \in DOMAIN b.col : c.col[k] = b.col[k]
  <2>1. \A k \in DOMAIN b.col : b.col[k] \in Nat /\ b.col[k] <= input.intMax
    BY <1>1, <1>4
  <2> QED
    BY <1>1, <1>2, <2>1, NarrowFits
<1>7. c.nnz = b.nnz
  BY <1>1, <1>2, <1>3, NarrowFits
<1>8. DOMAIN c.ptr = DOMAIN b.ptr /\ DOMAIN c.col = DOMAIN b.col
  BY <1>2
<1>9. Lists(c, E, column)
  BY <1>2, <1>3, <1>6, <1>7, <1>8 DEF Holds, Lists, n
<1>10. Rowwise(c, r, n)
  <2>1. LocalRows(r) \in Nat
    BY RowsFinite DEF LocalRows, Given
  <2>2. \A i \in 1..LocalRows(r) : i \in DOMAIN b.ptr /\ i - 1 \in DOMAIN b.ptr
    BY <1>3, <2>1
  <2> QED
    BY <1>2, <1>3, <1>5, <1>8, <2>2 DEF Holds, Rowwise, n
<1> QED
  BY <1>9, <1>10 DEF Holds, c, n

-------------------------------------------------------------------------------
(* The rows of a block as its readers walk them.                           *)
LEMMA RowOfIs ==
  ASSUME Given, NEW r, NEW n \in Nat, NEW b, Rowwise(b, r, n), DOMAIN b.col = 1..n
  PROVE  /\ BlockRows(b) = 1..LocalRows(r)
         /\ \A i \in BlockRows(b) : \A k :
              k \in RowOf(b, i - 1) <=> k \in 1..n /\ LocalRow(b.val[k][1]) = i - 1
<1>1. LocalRows(r) \in Nat
  BY RowsFinite DEF LocalRows, Given
<1>2. BlockRows(b) = 1..LocalRows(r)
  BY <1>1 DEF BlockRows, Rowwise
<1>3. ASSUME NEW i \in 1..LocalRows(r), NEW k
      PROVE  k \in RowOf(b, i - 1) <=> k \in 1..n /\ LocalRow(b.val[k][1]) = i - 1
  <2>1. i - 1 + 1 = i /\ i \in 0..LocalRows(r) /\ i - 1 \in 0..LocalRows(r)
    BY <1>1
  <2>2. b.ptr[i] \in Int /\ b.ptr[i - 1] \in Int /\ b.ptr[i - 1 + 1] = b.ptr[i]
    BY <2>1 DEF Rowwise
  <2>3. k \in RowOf(b, i - 1) <=> k \in 1..n /\ b.ptr[i - 1] < k /\ k <= b.ptr[i]
    BY <2>2 DEF RowOf
  <2> QED
    BY <2>3 DEF Rowwise
<1> QED
  BY <1>2, <1>3

(* Each position lies in one row, the one of its entry.                    *)
LEMMA RowOfEach ==
  ASSUME Given, NEW r, NEW E, NEW column, Numbered(r, E, column),
         NEW b, Holds(b, r, E, column), NEW k \in 1..Cardinality(E)
  PROVE  LET row == LocalRow(b.val[k][1]) + 1
         IN  /\ row \in BlockRows(b) /\ row - 1 = LocalRow(b.val[k][1])
             /\ \A i \in BlockRows(b) : k \in RowOf(b, i - 1) <=> i = row
             /\ (CHOOSE i \in BlockRows(b) : k \in RowOf(b, i - 1)) = row
<1> DEFINE row == LocalRow(b.val[k][1]) + 1
<1>1. b.val[k] \in EntriesOf(r)
  BY DEF Holds, Lists, Numbered
<1>2. LocalRow(b.val[k][1]) \in 0..LocalRows(r) - 1 /\ LocalRows(r) \in Nat
  BY <1>1, EntryIs
<1>3. row \in 1..LocalRows(r) /\ row - 1 = LocalRow(b.val[k][1]) /\ row \in Int
  BY <1>2
<1>4. /\ BlockRows(b) = 1..LocalRows(r)
      /\ \A i \in BlockRows(b) : k \in RowOf(b, i - 1) <=> LocalRow(b.val[k][1]) = i - 1
  BY EntriesKeyed, RowOfIs DEF Holds, Lists
<1> HIDE DEF row
<1>5. \A i \in BlockRows(b) : k \in RowOf(b, i - 1) <=> i = row
  BY <1>3, <1>4
<1>6. row \in BlockRows(b)
  BY <1>3, <1>4
<1>7. (CHOOSE i \in BlockRows(b) : k \in RowOf(b, i - 1)) = row
  BY <1>5, <1>6
<1> QED
  BY <1>3, <1>5, <1>6, <1>7 DEF row

FirstOf(b, i) == b.ptr[i - 1] + 1

NoDiagonal(b, i) == \A j \in RowOf(b, i - 1) : b.col[j] # i - 1

(* The entry at j changes places with the first of row i.                  *)
Swapped(b, i, j, k) == IF k = FirstOf(b, i) THEN j ELSE IF k = j THEN FirstOf(b, i) ELSE k

(* Where reorder_diag_first takes the entry at k from.                     *)
LEMMA PermuteIs ==
  ASSUME Given, NEW r, NEW E, NEW column, Numbered(r, E, column),
         NEW b, Holds(b, r, E, column), NEW i \in BlockRows(b), NEW k \in RowOf(b, i - 1)
  PROVE  /\ FirstOf(b, i) \in RowOf(b, i - 1)
         /\ NoDiagonal(b, i) => Permute(b, k) = k
         /\ \A j \in RowOf(b, i - 1) : b.col[j] = i - 1 => Permute(b, k) = Swapped(b, i, j, k)
<1> DEFINE n     == Cardinality(E)
           first == b.ptr[i - 1] + 1
           at    == {j \in RowOf(b, i - 1) : b.col[j] = i - 1}
<1>1. n \in Nat /\ Rowwise(b, r, n) /\ DOMAIN b.col = 1..n
  BY EntriesKeyed DEF Holds, Lists
<1>2. /\ BlockRows(b) = 1..LocalRows(r)
      /\ \A j : j \in RowOf(b, i - 1) <=> j \in 1..n /\ LocalRow(b.val[j][1]) = i - 1
  BY <1>1, RowOfIs
<1>3. k \in 1..n /\ i = LocalRow(b.val[k][1]) + 1
  <2>1. k \in 1..n
    BY <1>2
  <2> QED
    BY <2>1, RowOfEach
<1>4. (CHOOSE x \in BlockRows(b) : k \in RowOf(b, x - 1)) = i
  BY <1>3, RowOfEach
<1>5. first \in RowOf(b, i - 1)
  <2>1. LocalRows(r) \in Nat
    BY RowsFinite DEF LocalRows, Given
  <2>2. i - 1 \in 0..LocalRows(r) /\ i \in 0..LocalRows(r) /\ i - 1 + 1 = i
    BY <1>2, <2>1
  <2>3. b.ptr[i - 1] \in 0..n /\ b.ptr[i] \in 0..n
    BY <1>1, <2>2 DEF Rowwise
  <2>4. b.ptr[i - 1] + 1 <= k /\ k <= b.ptr[i] /\ k \in 1..n
    BY <1>1, <2>2, <2>3 DEF RowOf
  <2> QED
    BY <1>1, <2>2, <2>3, <2>4 DEF RowOf
<1>6. Permute(b, k) = CASE at = {}    -> k
                        [] k = first  -> CHOOSE j \in at : TRUE
                        [] k \in at   -> first
                        [] OTHER      -> k
  BY <1>4 DEF Permute
<1>7. \A j, l \in at : j = l
  <2> SUFFICES ASSUME NEW j \in at, NEW l \in at  PROVE j = l
    OBVIOUS
  <2>1. /\ j \in 1..n /\ l \in 1..n /\ b.col[j] = b.col[l]
        /\ LocalRow(b.val[j][1]) = LocalRow(b.val[l][1])
    BY <1>2
  <2>2. b.val[j] \in E /\ b.val[l] \in E /\ column[b.val[j][2]] = column[b.val[l][2]]
    BY <2>1 DEF Holds, Lists
  <2>3. Keyed(E, Key(E, column))
    BY EntriesKeyed
  <2>4. b.val[j] = b.val[l]
    BY <2>1, <2>2, <2>3 DEF Keyed, Key
  <2> QED
    BY <2>1, <2>4 DEF Holds, Lists
<1>8. (\A j \in RowOf(b, i - 1) : b.col[j] # i - 1) => Permute(b, k) = k
  <2> SUFFICES ASSUME \A j \in RowOf(b, i - 1) : b.col[j] # i - 1  PROVE Permute(b, k) = k
    OBVIOUS
  <2>1. at = {}
    OBVIOUS
  <2> HIDE DEF at, first
  <2> QED
    BY <1>6, <2>1
<1>9. ASSUME NEW j \in RowOf(b, i - 1), b.col[j] = i - 1
      PROVE  Permute(b, k) = IF k = first THEN j ELSE IF k = j THEN first ELSE k
  <2>1. at = {j}
    BY <1>7, <1>9
  <2>2. at # {} /\ (CHOOSE l \in at : TRUE) = j /\ (k \in at <=> k = j)
    BY <2>1
  <2> HIDE DEF at, first
  <2>3. CASE k = first
    BY <1>6, <2>2, <2>3
  <2>4. CASE k # first /\ k = j
    BY <1>6, <2>2, <2>4
  <2>5. CASE k # first /\ k # j
    BY <1>6, <2>2, <2>5
  <2> QED
    BY <2>3, <2>4, <2>5
<1> QED
  BY <1>5, <1>8, <1>9 DEF FirstOf, NoDiagonal, Swapped

From(b, k) ==
  IF k \in UNION {RowOf(b, i - 1) : i \in BlockRows(b)} THEN Permute(b, k) ELSE k

(* The permutation stays within the rows and undoes itself.                *)
LEMMA FromIs ==
  ASSUME Given, NEW r, NEW E, NEW column, Numbered(r, E, column),
         NEW b, Holds(b, r, E, column), NEW k \in 1..Cardinality(E)
  PROVE  /\ From(b, k) \in 1..Cardinality(E) /\ From(b, From(b, k)) = k
         /\ LocalRow(b.val[From(b, k)][1]) = LocalRow(b.val[k][1])
         /\ b.col[From(b, k)] = LocalRow(b.val[k][1]) =>
              k = b.ptr[LocalRow(b.val[k][1])] + 1
<1> DEFINE n     == Cardinality(E)
           i     == LocalRow(b.val[k][1]) + 1
<1>1. i \in BlockRows(b) /\ i - 1 = LocalRow(b.val[k][1]) /\ k \in RowOf(b, i - 1)
  BY RowOfEach
<1> HIDE DEF i
<1>2. \A j : j \in RowOf(b, i - 1) <=> j \in 1..n /\ LocalRow(b.val[j][1]) = i - 1
  <2>1. n \in Nat /\ Rowwise(b, r, n) /\ DOMAIN b.col = 1..n
    BY EntriesKeyed DEF Holds, Lists
  <2> HIDE DEF n
  <2> QED
    BY <1>1, <2>1, RowOfIs
<1>3. \A j \in RowOf(b, i - 1) : From(b, j) = Permute(b, j)
  BY <1>1 DEF From
<1>4. FirstOf(b, i) \in RowOf(b, i - 1)
  BY <1>1, PermuteIs
<1>5. CASE NoDiagonal(b, i)
  <2>1. From(b, k) = k
    BY <1>1, <1>3, <1>5, PermuteIs
  <2> QED
    BY <1>1, <1>2, <1>5, <2>1 DEF NoDiagonal
<1>6. CASE ~NoDiagonal(b, i)
  <2>1. PICK j \in RowOf(b, i - 1) : b.col[j] = i - 1
    BY <1>6 DEF NoDiagonal
  <2>2. \A l \in RowOf(b, i - 1) : From(b, l) = Swapped(b, i, j, l)
    <3> SUFFICES ASSUME NEW l \in RowOf(b, i - 1)  PROVE From(b, l) = Swapped(b, i, j, l)
      OBVIOUS
    <3>1. Permute(b, l) = Swapped(b, i, j, l)
      BY <1>1, <2>1, PermuteIs
    <3> QED
      BY <1>3, <3>1
  <2>3. \A l \in RowOf(b, i - 1) : b.col[l] = i - 1 => l = j
    <3> SUFFICES ASSUME NEW l \in RowOf(b, i - 1), b.col[l] = i - 1, l # j  PROVE FALSE
      OBVIOUS
    <3>1. From(b, FirstOf(b, i)) = l
      <4>1. Permute(b, FirstOf(b, i)) = Swapped(b, i, l, FirstOf(b, i))
        BY <1>1, <1>4, PermuteIs
      <4> QED
        BY <1>3, <1>4, <4>1 DEF Swapped
    <3>2. From(b, FirstOf(b, i)) = j
      BY <1>4, <2>2 DEF Swapped
    <3> QED
      BY <3>1, <3>2
  <2>4. From(b, k) \in RowOf(b, i - 1) /\ From(b, From(b, k)) = k
    BY <1>1, <1>4, <2>2 DEF Swapped
  <2>5. b.col[From(b, k)] = i - 1 => k = FirstOf(b, i)
    BY <1>1, <1>4, <2>2, <2>3, <2>4 DEF Swapped
  <2> QED
    BY <1>1, <1>2, <2>4, <2>5 DEF FirstOf
<1> QED
  BY <1>5, <1>6

(* hypre's diagonal comes first.                                           *)
Leads(b) ==
  \A i \in BlockRows(b) : \A k \in RowOf(b, i - 1) :
    b.col[k] = i - 1 => k = b.ptr[i - 1] + 1

(* The reordered block holds the same entries, diagonals leading.          *)
LEMMA ReorderedHolds ==
  ASSUME Given, NEW r, NEW E, NEW column, Numbered(r, E, column),
         NEW b, Holds(b, r, E, column)
  PROVE  Holds(Reordered(b), r, E, column) /\ Leads(Reordered(b))
<1> DEFINE n == Cardinality(E)
           c == Reordered(b)
<1>1. /\ b.val \in [1..n -> E] /\ DOMAIN b.col = 1..n /\ n \in Nat
      /\ b.nnz = n /\ \A k \in 1..n : b.col[k] = column[b.val[k][2]]
      /\ \A j, k \in 1..n : b.val[j] = b.val[k] => j = k
      /\ \A e \in E : \E k \in 1..n : b.val[k] = e
  BY EntriesKeyed DEF Holds, Lists
<1>2. \A k \in 1..n : /\ From(b, k) \in 1..n /\ From(b, From(b, k)) = k
                      /\ LocalRow(b.val[From(b, k)][1]) = LocalRow(b.val[k][1])
                      /\ b.col[From(b, k)] = LocalRow(b.val[k][1]) =>
                           k = b.ptr[LocalRow(b.val[k][1])] + 1
  BY FromIs
<1>3. c = [b EXCEPT !.col = [k \in DOMAIN b.col |-> b.col[From(b, k)]],
                    !.val = [k \in DOMAIN b.val |-> b.val[From(b, k)]]]
  BY DEF Reordered, From
<1>4. /\ c.ptr = b.ptr /\ c.nnz = b.nnz
      /\ c.col = [k \in 1..n |-> b.col[From(b, k)]]
      /\ c.val = [k \in 1..n |-> b.val[From(b, k)]]
  BY <1>1, <1>3
<1> HIDE DEF c, n
<1>5. Lists(c, E, column)
  <2>0. \A k \in 1..n : c.val[k] = b.val[From(b, k)] /\ c.col[k] = b.col[From(b, k)]
    BY <1>4
  <2>1. c.val \in [1..n -> E] /\ \A k \in 1..n : c.col[k] = column[c.val[k][2]]
    <3>1. \A k \in 1..n : c.val[k] \in E /\ c.col[k] = column[c.val[k][2]]
      <4> SUFFICES ASSUME NEW k \in 1..n
                   PROVE  c.val[k] \in E /\ c.col[k] = column[c.val[k][2]]
        OBVIOUS
      <4>1. From(b, k) \in 1..n
        BY <1>2
      <4>2. b.val[From(b, k)] \in E /\ b.col[From(b, k)] = column[b.val[From(b, k)][2]]
        BY <1>1, <4>1
      <4> QED
        BY <2>0, <4>2
    <3> QED
      BY <1>4, <3>1
  <2>2. \A j, k \in 1..n : c.val[j] = c.val[k] => j = k
    <3> SUFFICES ASSUME NEW j \in 1..n, NEW k \in 1..n, c.val[j] = c.val[k]  PROVE j = k
      OBVIOUS
    <3>1. From(b, j) = From(b, k)
      <4>1. b.val[From(b, j)] = b.val[From(b, k)]
        BY <2>0
      <4>2. From(b, j) \in 1..n /\ From(b, k) \in 1..n
        BY <1>2
      <4> HIDE DEF From
      <4> QED
        BY <1>1, <4>1, <4>2
    <3> QED
      BY <1>2, <3>1
  <2>3. \A e \in E : \E k \in 1..n : c.val[k] = e
    <3> SUFFICES ASSUME NEW e \in E  PROVE \E k \in 1..n : c.val[k] = e
      OBVIOUS
    <3>1. PICK k \in 1..n : b.val[k] = e
      BY <1>1
    <3>2. From(b, k) \in 1..n /\ c.val[From(b, k)] = b.val[k]
      BY <1>2, <1>4
    <3> QED
      BY <3>1, <3>2
  <2>4. DOMAIN c.col = 1..n /\ c.nnz = n
    BY <1>1, <1>4
  <2> QED
    BY <2>1, <2>2, <2>3, <2>4 DEF Lists, n
<1>6. \A k \in 1..n : LocalRow(c.val[k][1]) = LocalRow(b.val[k][1])
  BY <1>2, <1>4
<1>7. Rowwise(c, r, n)
  BY <1>4, <1>6 DEF Holds, Rowwise, n
<1>8. Leads(c)
  <2> SUFFICES ASSUME NEW i \in BlockRows(c), NEW k \in RowOf(c, i - 1), c.col[k] = i - 1
               PROVE  k = c.ptr[i - 1] + 1
    BY DEF Leads
  <2>1. DOMAIN c.col = 1..n
    BY <1>4
  <2>2. k \in 1..n /\ LocalRow(c.val[k][1]) = i - 1
    <3>1. n \in Nat /\ i \in BlockRows(c) /\ k \in RowOf(c, i - 1)
      BY <1>1
    <3> QED
      BY ONLY <1>7, <2>1, <3>1, RowOfIs, Given
  <2>3. b.col[From(b, k)] = LocalRow(b.val[k][1]) /\ LocalRow(b.val[k][1]) = i - 1
    BY <1>4, <1>6, <2>2
  <2> QED
    BY <1>2, <1>4, <2>2, <2>3
<1> QED
  BY <1>5, <1>7, <1>8 DEF Holds, n, c

-------------------------------------------------------------------------------
(* The two blocks of a rank.                                               *)
Remote(r) == {e[2] : e \in OffdOf(r)}

(* The two blocks share out the rank's entries.                            *)
LEMMA PiecesAre ==
  ASSUME Given, NEW r
  PROVE  /\ DiagOf(r) \in SUBSET EntriesOf(r) /\ OffdOf(r) \in SUBSET EntriesOf(r)
         /\ DiagOf(r) \cup OffdOf(r) = EntriesOf(r) /\ DiagOf(r) \cap OffdOf(r) = {}
         /\ DiagOf(r) \in SUBSET input.entries /\ OffdOf(r) \in SUBSET input.entries
         /\ Cardinality(EntriesOf(r)) = Cardinality(DiagOf(r)) + Cardinality(OffdOf(r))
<1>1. /\ DiagOf(r) \in SUBSET EntriesOf(r) /\ OffdOf(r) \in SUBSET EntriesOf(r)
      /\ DiagOf(r) \cup OffdOf(r) = EntriesOf(r) /\ DiagOf(r) \cap OffdOf(r) = {}
      /\ DiagOf(r) \in SUBSET input.entries /\ OffdOf(r) \in SUBSET input.entries
  BY DEF DiagOf, OffdOf, EntriesOf
<1>2. /\ IsFiniteSet(DiagOf(r)) /\ IsFiniteSet(OffdOf(r))
      /\ Cardinality(DiagOf(r)) \in Nat /\ Cardinality(OffdOf(r)) \in Nat
  BY <1>1, EntriesFinite
<1>3. Cardinality(EntriesOf(r))
        = Cardinality(DiagOf(r)) + Cardinality(OffdOf(r)) - Cardinality({})
  BY <1>1, <1>2, FS_Union
<1> QED
  BY <1>1, <1>2, <1>3, FS_EmptySet

(* Local numbers tell the columns of the diagonal block apart.             *)
LEMMA DiagNumbered ==
  ASSUME Given, NEW r
  PROVE  Numbered(r, DiagOf(r), LocalColumn)
<1>1. \A e \in DiagOf(r) : e[2] \in Rows /\ input.colOwner[e[2]] = r
  BY EntryIs DEF DiagOf
<1>2. \A g \in Rows : LocalColumn[g] = LocalIndex(input.colOwner, g)
  BY DEF LocalColumn
<1>3. ASSUME NEW e \in DiagOf(r)  PROVE LocalColumn[e[2]] \in 0..input.size - 1
  <2>1. e[2] \in Rows /\ LocalColumn[e[2]] = LocalIndex(input.colOwner, e[2])
    BY <1>1, <1>2
  <2> QED
    BY <2>1, LocalIndexGrows DEF Given
<1>4. ASSUME NEW d \in DiagOf(r), NEW e \in DiagOf(r), LocalColumn[d[2]] = LocalColumn[e[2]]
      PROVE  d[2] = e[2]
  <2>1. /\ d[2] \in Rows /\ e[2] \in Rows /\ input.colOwner[d[2]] = input.colOwner[e[2]]
        /\ LocalIndex(input.colOwner, d[2]) = LocalIndex(input.colOwner, e[2])
    BY <1>1, <1>2, <1>4
  <2> QED
    BY <2>1, LocalIndexTells DEF Given
<1> QED
  BY <1>3, <1>4, PiecesAre DEF Numbered

RemoteKey(r) == [g \in Remote(r) |-> <<input.colOwner[g], g>>]

(* The index map lists the remote columns once each, by owner and number.  *)
LEMMA RemoteIs ==
  ASSUME Given, NEW r
  PROVE  LET m == Cardinality(Remote(r))
         IN  /\ m \in Nat /\ m <= input.size /\ Remote(r) \in SUBSET Rows
             /\ RemoteColumns(r) \in [1..m -> Remote(r)]
             /\ Len(RemoteColumns(r)) = m /\ DOMAIN RemoteColumns(r) = 1..m
             /\ \A j, k \in 1..m : j < k =>
                  LET g == RemoteColumns(r)[j]
                      h == RemoteColumns(r)[k]
                  IN  \/ input.colOwner[g] < input.colOwner[h]
                      \/ (input.colOwner[g] = input.colOwner[h] /\ g < h)
             /\ \A g \in Remote(r) : \E k \in 1..m : RemoteColumns(r)[k] = g
<1> DEFINE m == Cardinality(Remote(r))
           s == RemoteColumns(r)
<1>1. Remote(r) \in SUBSET Rows
  <2>1. \A e \in OffdOf(r) : e[2] \in Rows
    BY EntryIs DEF OffdOf
  <2> QED
    BY <2>1 DEF Remote
<1>2. IsFiniteSet(Remote(r)) /\ m \in Nat /\ m <= input.size
  BY <1>1, RowsFinite DEF Given
<1>3. \A g \in Remote(r) : RemoteKey(r)[g][1] = input.colOwner[g] /\ RemoteKey(r)[g][2] = g
  BY DEF RemoteKey
<1>4. \A g \in Remote(r) : input.colOwner[g] \in Int /\ g \in Int
  BY <1>1, OwnersAre
<1>5. Keyed(Remote(r), RemoteKey(r))
  BY <1>2, <1>3, <1>4 DEF Keyed
<1>6. s = Sorted(Remote(r), RemoteKey(r))
  BY DEF RemoteColumns, Remote, RemoteKey
<1>7. Ascends(Remote(r), RemoteKey(r), s)
  BY <1>5, <1>6, SortedIs
<1> HIDE DEF s
<1>8. s \in [1..m -> Remote(r)] /\ \A g \in Remote(r) : \E k \in 1..m : s[k] = g
  BY <1>7 DEF Ascends
<1>9. Len(s) = m /\ DOMAIN s = 1..m
  BY <1>2, <1>8
<1>10. \A j, k \in 1..m : j < k => \/ input.colOwner[s[j]] < input.colOwner[s[k]]
                                  \/ (input.colOwner[s[j]] = input.colOwner[s[k]] /\ s[j] < s[k])
  <2>1. \A j, k \in 1..m : j < k => Less(RemoteKey(r)[s[j]], RemoteKey(r)[s[k]])
    BY <1>7 DEF Ascends
  <2> QED
    BY <1>3, <1>8, <2>1 DEF Less
<1> QED
  BY <1>1, <1>2, <1>8, <1>9, <1>10 DEF s

(* The index map finds a remote column where it put it.                    *)
LEMMA RemoteColumnIs ==
  ASSUME Given, NEW r, NEW g \in Remote(r)
  PROVE  /\ RemoteColumn(r)[g] \in 0..Cardinality(Remote(r)) - 1
         /\ RemoteColumns(r)[RemoteColumn(r)[g] + 1] = g
<1> DEFINE m == Cardinality(Remote(r))
           s == RemoteColumns(r)
<1>1. m \in Nat /\ Len(s) = m /\ \E k \in 1..m : s[k] = g
  BY RemoteIs
<1> HIDE DEF m, s
<1>2. PICK k \in 1..m : s[k] = g
  BY <1>1
<1>3. k - 1 \in 0..m - 1 /\ s[k - 1 + 1] = g
  BY <1>1, <1>2
<1>4. RemoteColumn(r)[g] = CHOOSE j \in 0..m - 1 : s[j + 1] = g
  BY <1>1 DEF RemoteColumn, Remote, s
<1>5. (CHOOSE j \in 0..m - 1 : s[j + 1] = g) \in 0..m - 1
  BY <1>3
<1>6. s[(CHOOSE j \in 0..m - 1 : s[j + 1] = g) + 1] = g
  BY <1>3
<1> QED
  BY <1>4, <1>5, <1>6 DEF m, s

(* Its numbers tell the columns of the off-diagonal block apart.           *)
LEMMA OffdNumbered ==
  ASSUME Given, NEW r
  PROVE  Numbered(r, OffdOf(r), RemoteColumn(r))
<1>1. \A e \in OffdOf(r) : e[2] \in Remote(r)
  BY DEF Remote
<1>2. Cardinality(Remote(r)) \in Nat /\ Cardinality(Remote(r)) <= input.size /\ input.size \in Nat
  BY RemoteIs DEF Given
<1>3. \A e \in OffdOf(r) : RemoteColumn(r)[e[2]] \in 0..input.size - 1
  <2>1. \A e \in OffdOf(r) : RemoteColumn(r)[e[2]] \in 0..Cardinality(Remote(r)) - 1
    BY <1>1, RemoteColumnIs
  <2> QED
    BY <1>2, <2>1
<1>4. \A d, e \in OffdOf(r) : RemoteColumn(r)[d[2]] = RemoteColumn(r)[e[2]] => d[2] = e[2]
  <2> SUFFICES ASSUME NEW d \in OffdOf(r), NEW e \in OffdOf(r),
                      RemoteColumn(r)[d[2]] = RemoteColumn(r)[e[2]]
               PROVE  d[2] = e[2]
    OBVIOUS
  <2>1. RemoteColumns(r)[RemoteColumn(r)[d[2]] + 1] = d[2]
    BY <1>1, RemoteColumnIs
  <2>2. RemoteColumns(r)[RemoteColumn(r)[e[2]] + 1] = e[2]
    BY <1>1, RemoteColumnIs
  <2> QED
    BY <2>1, <2>2
<1> QED
  BY <1>3, <1>4, PiecesAre DEF Numbered

(* hypre's order of the remote columns: by global number.                  *)
LEMMA MapAscends ==
  ASSUME Given, OrderedParts, ColumnsFollowRows, NEW r
  PROVE  \A j, k \in DOMAIN RemoteColumns(r) :
           j < k => RemoteColumns(r)[j] < RemoteColumns(r)[k]
<1> SUFFICES ASSUME NEW j \in DOMAIN RemoteColumns(r), NEW k \in DOMAIN RemoteColumns(r), j < k
             PROVE  RemoteColumns(r)[j] < RemoteColumns(r)[k]
  OBVIOUS
<1> DEFINE g == RemoteColumns(r)[j]
           h == RemoteColumns(r)[k]
<1>1. /\ g \in Rows /\ h \in Rows
      /\ input.owner[g] < input.owner[h] \/ (input.owner[g] = input.owner[h] /\ g < h)
  BY RemoteIs DEF Given
<1> HIDE DEF g, h
<1>2. /\ g \in Nat /\ h \in Nat /\ input.owner[g] \in Nat /\ input.owner[h] \in Nat
  BY <1>1, OwnersAre
<1>3. h < g => input.owner[h] <= input.owner[g]
  BY <1>1 DEF OrderedParts
<1>4. g < h
  BY <1>1, <1>2, <1>3
<1> QED
  BY <1>4 DEF g, h

-------------------------------------------------------------------------------
(* A row's number within its part is below the part's size.                *)
LEMMA LocalIndexCounted ==
  ASSUME Given, NEW g \in Rows
  PROVE  LocalIndex(input.owner, g) <= LocalRows(input.owner[g])
<1> DEFINE S == {h \in Rows : h < g /\ input.owner[h] = input.owner[g]}
           T == {h \in Rows : input.owner[h] = input.owner[g]}
<1>1. S \subseteq T
  OBVIOUS
<1>2. IsFiniteSet(T)
  BY RowsFinite DEF Given
<1>3. Cardinality(S) <= Cardinality(T)
  BY <1>1, <1>2, FS_Subset
<1> QED
  BY <1>3 DEF LocalIndex, LocalRows

(* The pieces of a rank's entries are no more than these.                  *)
LEMMA PiecesSmall ==
  ASSUME Given, CountsFit, NEW r \in Ranks
  PROVE  /\ Cardinality(DiagOf(r)) <= input.intMax /\ Cardinality(OffdOf(r)) <= input.intMax
         /\ Cardinality(Remote(r)) <= input.intMax
<1>1. Cardinality(EntriesOf(r)) <= input.intMax
  BY DEF Given
<1>2. /\ DiagOf(r) \subseteq EntriesOf(r) /\ OffdOf(r) \subseteq EntriesOf(r)
  BY DEF DiagOf, OffdOf
<1>3. /\ IsFiniteSet(OffdOf(r)) /\ Cardinality(OffdOf(r)) \in Nat
      /\ Cardinality(DiagOf(r)) \in Nat /\ Cardinality(EntriesOf(r)) \in Nat
      /\ Cardinality(DiagOf(r)) <= Cardinality(EntriesOf(r))
      /\ Cardinality(OffdOf(r)) <= Cardinality(EntriesOf(r))
  <2>1. IsFiniteSet(EntriesOf(r))
    <3>1. EntriesOf(r) \in SUBSET input.entries
      BY DEF EntriesOf
    <3> QED
      BY <3>1, EntriesFinite
  <2>2. ASSUME NEW E, E \subseteq EntriesOf(r)
        PROVE  /\ IsFiniteSet(E) /\ Cardinality(E) \in Nat
               /\ Cardinality(E) <= Cardinality(EntriesOf(r))
    BY <2>1, <2>2, FS_Subset, FS_CardinalityType
  <2> QED
    BY <1>2, <2>1, <2>2, FS_CardinalityType
<1>4. Cardinality(Remote(r)) \in Nat /\ Cardinality(Remote(r)) <= Cardinality(OffdOf(r))
  <2> DEFINE f == [e \in OffdOf(r) |-> e[2]]
  <2>1. f \in Surjection(OffdOf(r), Remote(r))
    BY DEF Surjection, Remote
  <2> QED
    BY <1>3, <2>1, FS_Surjection, FS_CardinalityType
<1> QED
  BY <1>1, <1>3, <1>4 DEF Given

-------------------------------------------------------------------------------
(* The blocks as hypre receives them.                                      *)
LEMMA DiagBlockHolds ==
  ASSUME Given, ColumnsFollowRows, CountsFit, NEW r \in Ranks
  PROVE  Holds(DiagBlock(r), r, DiagOf(r), LocalColumn)
<1>1. Cardinality(DiagOf(r)) <= input.intMax
  BY PiecesAre, PiecesSmall DEF Given
<1>2. ASSUME NEW e \in DiagOf(r)  PROVE LocalColumn[e[2]] <= input.intMax
  <2>1. e[2] \in Rows /\ input.owner[e[2]] = r
    BY EntryIs DEF DiagOf, Given
  <2>2. LocalColumn[e[2]] = LocalIndex(input.owner, e[2])
    BY <2>1 DEF LocalColumn, Given
  <2>3. LocalIndex(input.owner, e[2]) <= LocalRows(r)
    BY <2>1, LocalIndexCounted
  <2>4. LocalIndex(input.owner, e[2]) \in Nat /\ LocalRows(r) \in Nat
    BY <2>1, RowsFinite DEF LocalRows, LocalIndex, Given
  <2> QED
    BY <2>2, <2>3, <2>4 DEF Given
<1> QED
  BY <1>1, <1>2, DiagNumbered, CsrHolds, AsHypreIntHolds DEF DiagBlock

(* And the off-diagonal one.                                               *)
LEMMA OffdBlockHolds ==
  ASSUME Given, CountsFit, NEW r \in Ranks
  PROVE  Holds(OffdBlock(r), r, OffdOf(r), RemoteColumn(r))
<1>1. Cardinality(OffdOf(r)) <= input.intMax /\ Cardinality(Remote(r)) <= input.intMax
  BY PiecesAre, PiecesSmall DEF Given
<1>2. ASSUME NEW e \in OffdOf(r)  PROVE RemoteColumn(r)[e[2]] <= input.intMax
  <2>1. RemoteColumn(r)[e[2]] \in 0..Cardinality(Remote(r)) - 1
    BY RemoteColumnIs DEF Remote
  <2>2. Cardinality(Remote(r)) \in Nat
    BY RemoteIs
  <2> QED
    BY <1>1, <2>1, <2>2 DEF Given
<1> QED
  BY <1>1, <1>2, OffdNumbered, CsrHolds, AsHypreIntHolds DEF OffdBlock

(* The counts beside the blocks are the true ones.                         *)
LEMMA CountsHold ==
  ASSUME Given, CountsFit, NEW r \in Ranks
  PROVE  Counts(r) = [rows |-> LocalRows(r), cols |-> Len(RemoteColumns(r))]
<1>1. /\ Len(RemoteColumns(r)) \in Nat /\ Len(RemoteColumns(r)) <= input.intMax
  BY RemoteIs, PiecesSmall
<1>2. LocalRows(r) \in Nat /\ LocalRows(r) <= input.intMax
  BY RowsFinite DEF LocalRows, Given
<1> QED
  BY <1>1, <1>2, NarrowFits DEF Counts, Given

(* Row i of a block's pointers are the positions of its entries.           *)
LEMMA RowOfHolds ==
  ASSUME Given, NEW r, NEW E, NEW column, Numbered(r, E, column), NEW b, Holds(b, r, E, column)
  PROVE  \A i \in BlockRows(b) : \A k :
           k \in RowOf(b, i - 1) <=>
             k \in 1..Cardinality(E) /\ LocalRow(b.val[k][1]) = i - 1
<1> DEFINE n == Cardinality(E)
<1>1. n \in Nat /\ Rowwise(b, r, n) /\ DOMAIN b.col = 1..n
  BY EntriesKeyed DEF Holds, Lists
<1> HIDE DEF n
<1>2. \A i \in BlockRows(b) : \A k :
        k \in RowOf(b, i - 1) <=> k \in 1..n /\ LocalRow(b.val[k][1]) = i - 1
  BY <1>1, RowOfIs
<1> QED
  BY <1>2 DEF n

(* What a reader of a block finds: its entries, at the global row and      *)
(* under whatever the reader makes of the column's number.                 *)
LEMMA ReadsEntries ==
  ASSUME Given, OrderedParts, NEW r \in Ranks, NEW E, NEW column, Numbered(r, E, column),
         NEW b, Holds(b, r, E, column),
         NEW global, \A e \in E : global[column[e[2]]] = e[2]
  PROVE  UNION {{<<Start(r) + i - 1, global[b.col[k]], b.val[k]>> : k \in RowOf(b, i - 1)} :
                  i \in BlockRows(b)}
           = {<<e[1], e[2], e>> : e \in E}
<1> DEFINE n == Cardinality(E)
           Read(i) == {<<Start(r) + i - 1, global[b.col[k]], b.val[k]>> : k \in RowOf(b, i - 1)}
<1>1. /\ n \in Nat /\ DOMAIN b.col = 1..n /\ Rowwise(b, r, n) /\ b.val \in [1..n -> E]
      /\ \A k \in 1..n : b.col[k] = column[b.val[k][2]]
      /\ \A e \in E : \E k \in 1..n : b.val[k] = e
  BY EntriesKeyed DEF Holds, Lists
<1>2. \A i \in BlockRows(b) : \A k :
        k \in RowOf(b, i - 1) <=> k \in 1..n /\ LocalRow(b.val[k][1]) = i - 1
  BY RowOfHolds
<1>3. \A e \in E : Start(r) + LocalRow(e[1]) = e[1] /\ Start(r) \in Int /\ LocalRow(e[1]) \in Int
  <2> SUFFICES ASSUME NEW e \in E
               PROVE  Start(r) + LocalRow(e[1]) = e[1] /\ Start(r) \in Int /\ LocalRow(e[1]) \in Int
    OBVIOUS
  <2>1. e \in EntriesOf(r)
    BY DEF Numbered
  <2>2. e[1] \in Rows /\ input.owner[e[1]] = r /\ LocalRow(e[1]) \in Nat
    BY <2>1, EntryIs
  <2>3. Start(r) \in 0..input.size
    BY StartCounts
  <2> QED
    BY <2>2, <2>3, GlobalRow
<1>4. BlockRows(b) = 1..LocalRows(r) /\ LocalRows(r) \in Nat
  <2>1. LocalRows(r) \in Nat
    BY RowsFinite DEF LocalRows, Given
  <2> QED
    BY <1>1, <2>1, RowOfIs
<1>5. ASSUME NEW i \in BlockRows(b), NEW k \in RowOf(b, i - 1)
      PROVE  /\ b.val[k] \in E
             /\ <<Start(r) + i - 1, global[b.col[k]], b.val[k]>>
                  = <<b.val[k][1], b.val[k][2], b.val[k]>>
  <2>1. k \in 1..n /\ LocalRow(b.val[k][1]) = i - 1
    BY <1>2
  <2>2. b.val[k] \in E /\ global[b.col[k]] = b.val[k][2]
    BY <1>1, <2>1
  <2>3. Start(r) + i - 1 = b.val[k][1]
    BY <1>3, <1>4, <2>1, <2>2
  <2> QED
    BY <2>2, <2>3
<1>6. ASSUME NEW e \in E
      PROVE  \E i \in BlockRows(b) : \E k \in RowOf(b, i - 1) : b.val[k] = e
  <2>1. PICK k \in 1..n : b.val[k] = e
    BY <1>1
  <2> DEFINE row == LocalRow(b.val[k][1]) + 1
  <2>2. row \in BlockRows(b) /\ \A i \in BlockRows(b) : k \in RowOf(b, i - 1) <=> i = row
    BY RowOfEach
  <2> HIDE DEF row
  <2>3. k \in RowOf(b, row - 1)
    BY <2>2
  <2> QED
    BY <2>1, <2>2, <2>3
<1>7. ASSUME NEW i \in BlockRows(b), NEW x \in Read(i)  PROVE x \in {<<e[1], e[2], e>> : e \in E}
  <2>1. PICK k \in RowOf(b, i - 1) : x = <<Start(r) + i - 1, global[b.col[k]], b.val[k]>>
    BY <1>7
  <2> QED
    BY <1>5, <2>1
<1>8. ASSUME NEW e \in E  PROVE \E i \in BlockRows(b) : <<e[1], e[2], e>> \in Read(i)
  <2>1. PICK i \in BlockRows(b) : \E k \in RowOf(b, i - 1) : b.val[k] = e
    BY <1>6
  <2>2. PICK k \in RowOf(b, i - 1) : b.val[k] = e
    BY <2>1
  <2>3. <<Start(r) + i - 1, global[b.col[k]], b.val[k]>> = <<e[1], e[2], e>>
    BY <1>5, <2>2
  <2> QED
    BY <2>3
<1> HIDE DEF Read
<1>9. UNION {Read(i) : i \in BlockRows(b)} = {<<e[1], e[2], e>> : e \in E}
  BY <1>7, <1>8
<1> QED
  BY <1>9 DEF Read

-------------------------------------------------------------------------------
(* The same with the columns found as hypre finds them.                    *)
DiagRead(r, b) ==
  UNION {{<<Start(r) + i - 1, Start(r) + b.col[k], b.val[k]>> :
            k \in RowOf(b, i - 1)} : i \in BlockRows(b)}

OffdRead(r, b) ==
  UNION {{<<Start(r) + i - 1, RemoteColumns(r)[b.col[k] + 1], b.val[k]>> :
            k \in RowOf(b, i - 1)} : i \in BlockRows(b)}

(* A position of a row holds an entry under its column's number.           *)
LEMMA ColumnNumbers ==
  ASSUME Given, NEW r, NEW E, NEW column, Numbered(r, E, column), NEW b, Holds(b, r, E, column),
         NEW i \in BlockRows(b), NEW k \in RowOf(b, i - 1)
  PROVE  b.val[k] \in E /\ b.col[k] = column[b.val[k][2]] /\ b.col[k] \in 0..input.size - 1
<1>1. k \in 1..Cardinality(E)
  BY RowOfHolds
<1>2. b.val[k] \in E /\ b.col[k] = column[b.val[k][2]]
  BY <1>1 DEF Holds, Lists
<1> QED
  BY <1>2 DEF Numbered

(* Local columns start at the rank's first row.                            *)
LEMMA DiagReads ==
  ASSUME Given, OrderedParts, ColumnsFollowRows, NEW r \in Ranks,
         NEW b, Holds(b, r, DiagOf(r), LocalColumn)
  PROVE  DiagRead(r, b) = {<<e[1], e[2], e>> : e \in DiagOf(r)}
<1> DEFINE global == [c \in 0..input.size - 1 |-> Start(r) + c]
<1>1. Numbered(r, DiagOf(r), LocalColumn)
  BY DiagNumbered
<1>2. \A e \in DiagOf(r) : global[LocalColumn[e[2]]] = e[2]
  <2> SUFFICES ASSUME NEW e \in DiagOf(r)  PROVE global[LocalColumn[e[2]]] = e[2]
    OBVIOUS
  <2>1. e[2] \in Rows /\ input.owner[e[2]] = r
    BY EntryIs DEF DiagOf, Given
  <2>2. LocalColumn[e[2]] = LocalRow(e[2]) /\ LocalColumn[e[2]] \in 0..input.size - 1
    BY <1>1, <2>1 DEF LocalColumn, LocalRow, Given, Numbered
  <2>3. Start(r) + LocalRow(e[2]) = e[2]
    BY <2>1, GlobalRow
  <2> QED
    BY <2>2, <2>3
<1>3. \A i \in BlockRows(b) : \A k \in RowOf(b, i - 1) : global[b.col[k]] = Start(r) + b.col[k]
  <2>1. \A i \in BlockRows(b) : \A k \in RowOf(b, i - 1) : b.col[k] \in 0..input.size - 1
    BY <1>1, ColumnNumbers
  <2> QED
    BY <2>1
<1> HIDE DEF global
<1>4. UNION {{<<Start(r) + i - 1, global[b.col[k]], b.val[k]>> : k \in RowOf(b, i - 1)} :
               i \in BlockRows(b)}
        = {<<e[1], e[2], e>> : e \in DiagOf(r)}
  BY <1>1, <1>2, ReadsEntries
<1>5. \A i \in BlockRows(b) :
        {<<Start(r) + i - 1, global[b.col[k]], b.val[k]>> : k \in RowOf(b, i - 1)}
          = {<<Start(r) + i - 1, Start(r) + b.col[k], b.val[k]>> : k \in RowOf(b, i - 1)}
  BY <1>3
<1> QED
  BY <1>4, <1>5 DEF DiagRead

(* Remote columns are looked up in the column map.                         *)
LEMMA OffdReads ==
  ASSUME Given, OrderedParts, NEW r \in Ranks, NEW b, Holds(b, r, OffdOf(r), RemoteColumn(r))
  PROVE  OffdRead(r, b) = {<<e[1], e[2], e>> : e \in OffdOf(r)}
<1> DEFINE global == [c \in 0..input.size - 1 |-> RemoteColumns(r)[c + 1]]
<1>1. Numbered(r, OffdOf(r), RemoteColumn(r))
  BY OffdNumbered
<1>2. \A e \in OffdOf(r) : global[RemoteColumn(r)[e[2]]] = e[2]
  <2> SUFFICES ASSUME NEW e \in OffdOf(r)  PROVE global[RemoteColumn(r)[e[2]]] = e[2]
    OBVIOUS
  <2>1. e[2] \in Remote(r)
    BY DEF Remote
  <2>2. RemoteColumns(r)[RemoteColumn(r)[e[2]] + 1] = e[2]
    BY <2>1, RemoteColumnIs
  <2>3. RemoteColumn(r)[e[2]] \in 0..input.size - 1
    BY <1>1 DEF Numbered
  <2> QED
    BY <2>2, <2>3
<1>3. \A i \in BlockRows(b) : \A k \in RowOf(b, i - 1) :
        global[b.col[k]] = RemoteColumns(r)[b.col[k] + 1]
  <2>1. \A i \in BlockRows(b) : \A k \in RowOf(b, i - 1) : b.col[k] \in 0..input.size - 1
    BY <1>1, ColumnNumbers
  <2> QED
    BY <2>1
<1> HIDE DEF global
<1>4. UNION {{<<Start(r) + i - 1, global[b.col[k]], b.val[k]>> : k \in RowOf(b, i - 1)} :
               i \in BlockRows(b)}
        = {<<e[1], e[2], e>> : e \in OffdOf(r)}
  BY <1>1, <1>2, ReadsEntries
<1>5. \A i \in BlockRows(b) :
        {<<Start(r) + i - 1, global[b.col[k]], b.val[k]>> : k \in RowOf(b, i - 1)}
          = {<<Start(r) + i - 1, RemoteColumns(r)[b.col[k] + 1], b.val[k]>> : k \in RowOf(b, i - 1)}
  BY <1>3
<1> QED
  BY <1>4, <1>5 DEF OffdRead

(* What hypre holds of rank r once the blocks and the map are set.         *)
LEMMA HypreReads ==
  ASSUME Given, Accepted, ColumnsFollowRows, CountsFit, NEW r \in Ranks
  PROVE  /\ DiagRead(r, Reordered(DiagBlock(r))) \cup OffdRead(r, OffdBlock(r))
              = {<<e[1], e[2], e>> : e \in EntriesOf(r)}
         /\ Reordered(DiagBlock(r)).nnz + OffdBlock(r).nnz = Cardinality(EntriesOf(r))
         /\ Leads(Reordered(DiagBlock(r)))
<1>1. OrderedParts
  BY DEF Accepted
<1>2. /\ Holds(Reordered(DiagBlock(r)), r, DiagOf(r), LocalColumn)
      /\ Leads(Reordered(DiagBlock(r)))
  BY DiagBlockHolds, DiagNumbered, ReorderedHolds
<1>3. Holds(OffdBlock(r), r, OffdOf(r), RemoteColumn(r))
  BY OffdBlockHolds
<1>4. DiagRead(r, Reordered(DiagBlock(r))) = {<<e[1], e[2], e>> : e \in DiagOf(r)}
  BY <1>1, <1>2, DiagReads
<1>5. OffdRead(r, OffdBlock(r)) = {<<e[1], e[2], e>> : e \in OffdOf(r)}
  BY <1>1, <1>3, OffdReads
<1>6. {<<e[1], e[2], e>> : e \in DiagOf(r)} \cup {<<e[1], e[2], e>> : e \in OffdOf(r)}
        = {<<e[1], e[2], e>> : e \in EntriesOf(r)}
  <2>1. DiagOf(r) \cup OffdOf(r) = EntriesOf(r)
    BY PiecesAre
  <2> QED
    BY <2>1
<1>7. /\ Reordered(DiagBlock(r)).nnz = Cardinality(DiagOf(r))
      /\ OffdBlock(r).nnz = Cardinality(OffdOf(r))
  BY <1>2, <1>3 DEF Holds, Lists
<1> QED
  BY <1>2, <1>4, <1>5, <1>6, <1>7, PiecesAre

-------------------------------------------------------------------------------
(* The triplets PETSc is given.                                            *)
TripletOf(e) == [row |-> e[1], col |-> e[2], val |-> e]

(* append_block writes each entry at its global row and column.            *)
LEMMA TripletsAre ==
  ASSUME Given, OrderedParts, NEW r \in Ranks, NEW E, NEW column, Numbered(r, E, column),
         NEW b, Holds(b, r, E, column),
         NEW global, \A e \in E : global[column[e[2]]] = e[2]
  PROVE  Triplets(b, Start(r), global) = [k \in 1..Cardinality(E) |-> TripletOf(b.val[k])]
<1> DEFINE n      == Cardinality(E)
           Row(k) == CHOOSE i \in BlockRows(b) : k \in RowOf(b, i - 1)
<1>1. /\ DOMAIN b.col = 1..n /\ b.val \in [1..n -> E]
      /\ \A k \in 1..n : b.col[k] = column[b.val[k][2]]
  BY DEF Holds, Lists
<1>2. ASSUME NEW k \in 1..n
      PROVE  Start(r) + Row(k) - 1 = b.val[k][1] /\ global[b.col[k]] = b.val[k][2]
  <2>1. b.val[k] \in E /\ global[b.col[k]] = b.val[k][2]
    BY <1>1
  <2>2. b.val[k][1] \in Rows /\ input.owner[b.val[k][1]] = r /\ LocalRow(b.val[k][1]) \in Nat
    BY <2>1, EntryIs DEF Numbered
  <2>3. Row(k) = LocalRow(b.val[k][1]) + 1
    BY RowOfEach
  <2>4. Start(r) + LocalRow(b.val[k][1]) = b.val[k][1] /\ Start(r) \in Int
    <3>1. Start(r) \in 0..input.size
      BY StartCounts
    <3> QED
      BY <2>2, <3>1, GlobalRow
  <2> HIDE DEF Row
  <2> QED
    BY <2>1, <2>2, <2>3, <2>4
<1>3. Triplets(b, Start(r), global)
        = [k \in 1..n |-> [row |-> Start(r) + Row(k) - 1, col |-> global[b.col[k]],
                           val |-> b.val[k]]]
  BY <1>1 DEF Triplets
<1> HIDE DEF Row, n
<1> QED
  BY <1>2, <1>3 DEF TripletOf, n

LocalColumns(r) == {g \in Rows : input.colOwner[g] = r}

OfLocal(r)  == [c \in {LocalColumn[g] : g \in LocalColumns(r)} |->
                  CHOOSE g \in LocalColumns(r) : LocalColumn[g] = c]
OfRemote(r) == [c \in 0..Len(RemoteColumns(r)) - 1 |-> RemoteColumns(r)[c + 1]]

(* map_to_global undoes the numbering of the columns.                      *)
LEMMA MapsInvert ==
  ASSUME Given, NEW r
  PROVE  /\ \A e \in DiagOf(r) : OfLocal(r)[LocalColumn[e[2]]] = e[2]
         /\ \A e \in OffdOf(r) : OfRemote(r)[RemoteColumn(r)[e[2]]] = e[2]
<1>1. ASSUME NEW e \in DiagOf(r)  PROVE OfLocal(r)[LocalColumn[e[2]]] = e[2]
  <2> DEFINE g == e[2]
             h == CHOOSE x \in LocalColumns(r) : LocalColumn[x] = LocalColumn[g]
  <2>1. g \in LocalColumns(r)
    BY EntryIs DEF DiagOf, LocalColumns
  <2> HIDE DEF g
  <2>2. OfLocal(r)[LocalColumn[g]] = h
    BY <2>1 DEF OfLocal
  <2>3. h \in LocalColumns(r) /\ LocalColumn[h] = LocalColumn[g]
    BY <2>1
  <2> HIDE DEF h
  <2>4. /\ g \in Rows /\ h \in Rows /\ input.colOwner[g] = input.colOwner[h]
        /\ LocalIndex(input.colOwner, g) = LocalIndex(input.colOwner, h)
    BY <2>1, <2>3 DEF LocalColumns, LocalColumn
  <2>5. g = h
    BY <2>4, LocalIndexTells DEF Given
  <2> QED
    BY <2>2, <2>5 DEF g
<1>2. ASSUME NEW e \in OffdOf(r)  PROVE OfRemote(r)[RemoteColumn(r)[e[2]]] = e[2]
  <2>1. e[2] \in Remote(r)
    BY DEF Remote
  <2>2. /\ RemoteColumn(r)[e[2]] \in 0..Len(RemoteColumns(r)) - 1
        /\ RemoteColumns(r)[RemoteColumn(r)[e[2]] + 1] = e[2]
    BY <2>1, RemoteColumnIs, RemoteIs
  <2> QED
    BY <2>2 DEF OfRemote
<1> QED
  BY <1>1, <1>2

Covers(u, m, D) == u \in [1..m -> D] /\ \A e \in D : \E k \in 1..m : u[k] = e

(* Two lists of entries, one behind the other.                             *)
Joined(s, m, n, u, v) ==
  /\ DOMAIN s = 1..m + n
  /\ \A k \in 1..m : s[k] = TripletOf(u[k])
  /\ \A k \in 1..n : s[m + k] = TripletOf(v[k])

(* Len and positions of a concatenation.                                   *)
LEMMA ConcatenationJoins ==
  ASSUME NEW m \in Nat, NEW n \in Nat, NEW u, NEW v
  PROVE  LET s == [k \in 1..m |-> TripletOf(u[k])] \o [k \in 1..n |-> TripletOf(v[k])]
         IN  Len(s) = m + n /\ Joined(s, m, n, u, v)
<1> DEFINE p == [k \in 1..m |-> TripletOf(u[k])]
           q == [k \in 1..n |-> TripletOf(v[k])]
           P == {TripletOf(u[k]) : k \in 1..m}
           Q == {TripletOf(v[k]) : k \in 1..n}
<1>1. p \in Seq(P) /\ q \in Seq(Q) /\ Len(p) = m /\ Len(q) = n
  OBVIOUS
<1>2. /\ \A k \in 1..m : p[k] = TripletOf(u[k])
      /\ \A k \in 1..n : q[k] = TripletOf(v[k])
  OBVIOUS
<1> HIDE DEF p, q, P, Q
<1>3. /\ Len(p \o q) = m + n /\ DOMAIN (p \o q) = 1..m + n
      /\ \A k \in 1..m : (p \o q)[k] = p[k]
      /\ \A k \in 1..n : (p \o q)[m + k] = q[k]
  BY <1>1
<1>4. Len(p \o q) = m + n /\ Joined(p \o q, m, n, u, v)
  BY <1>2, <1>3 DEF Joined
<1> QED
  BY <1>4 DEF p, q

Shows(s, S) == {s[k] : k \in DOMAIN s} = {TripletOf(e) : e \in S}

(* The joined triplets are those of both lists.                            *)
LEMMA ListsJoin ==
  ASSUME NEW m \in Nat, NEW n \in Nat, NEW D, NEW O, NEW u, NEW v,
         Covers(u, m, D), Covers(v, n, O), NEW s, Joined(s, m, n, u, v)
  PROVE  Shows(s, D \cup O)
<1>1. ASSUME NEW k \in DOMAIN s  PROVE \E e \in D \cup O : s[k] = TripletOf(e)
  <2>1. k \in 1..m + n
    BY DEF Joined
  <2>2. CASE k <= m
    <3>1. k \in 1..m
      BY <2>1, <2>2
    <3> QED
      BY <3>1 DEF Joined, Covers
  <2>3. CASE ~(k <= m)
    <3>1. k - m \in 1..n /\ m + (k - m) = k
      BY <2>1, <2>3
    <3>2. s[k] = TripletOf(v[k - m])
      BY <3>1 DEF Joined, Covers
    <3> QED
      BY <3>1, <3>2 DEF Covers
  <2> QED
    BY <2>2, <2>3
<1>2. ASSUME NEW e \in D \cup O  PROVE \E k \in DOMAIN s : s[k] = TripletOf(e)
  <2>1. CASE e \in D
    <3>1. PICK k \in 1..m : u[k] = e
      BY <2>1 DEF Covers
    <3>2. k \in 1..m + n
      OBVIOUS
    <3> QED
      BY <3>1, <3>2 DEF Joined
  <2>2. CASE e \in O
    <3>1. PICK k \in 1..n : v[k] = e
      BY <2>2 DEF Covers
    <3>2. m + k \in 1..m + n
      OBVIOUS
    <3> QED
      BY <3>1, <3>2 DEF Joined
  <2> QED
    BY <2>1, <2>2
<1> QED
  BY <1>1, <1>2 DEF Shows

(* A rank's triplets are its entries.                                      *)
LEMMA CooIs ==
  ASSUME Given, OrderedParts, NEW r \in Ranks, rowStart[r] = Start(r)
  PROVE  /\ Len(CooOf(r)) = Cardinality(EntriesOf(r))
         /\ Shows(CooOf(r), EntriesOf(r))
<1> DEFINE b == Csr(r, DiagOf(r), LocalColumn)
           c == Csr(r, OffdOf(r), RemoteColumn(r))
           m == Cardinality(DiagOf(r))
           n == Cardinality(OffdOf(r))
           s == CooOf(r)
<1>1. Numbered(r, DiagOf(r), LocalColumn) /\ Numbered(r, OffdOf(r), RemoteColumn(r))
  BY DiagNumbered, OffdNumbered
<1>2. Holds(b, r, DiagOf(r), LocalColumn) /\ Holds(c, r, OffdOf(r), RemoteColumn(r))
  BY <1>1, CsrHolds
<1>3. s = Triplets(b, Start(r), OfLocal(r)) \o Triplets(c, Start(r), OfRemote(r))
  BY DEF CooOf, OfLocal, OfRemote, LocalColumns
<1> HIDE DEF b, c, s
<1>4. Triplets(b, Start(r), OfLocal(r)) = [k \in 1..m |-> TripletOf(b.val[k])]
  BY <1>1, <1>2, MapsInvert, TripletsAre
<1>5. Triplets(c, Start(r), OfRemote(r)) = [k \in 1..n |-> TripletOf(c.val[k])]
  BY <1>1, <1>2, MapsInvert, TripletsAre
<1>6. Covers(b.val, m, DiagOf(r)) /\ Covers(c.val, n, OffdOf(r))
  BY <1>2 DEF Holds, Lists, Covers
<1>7. m \in Nat /\ n \in Nat
  BY PiecesAre, EntriesFinite
<1>8. /\ DiagOf(r) \cup OffdOf(r) = EntriesOf(r)
      /\ Cardinality(EntriesOf(r)) = m + n
  BY PiecesAre
<1> HIDE DEF m, n
<1>9. s = [k \in 1..m |-> TripletOf(b.val[k])] \o [k \in 1..n |-> TripletOf(c.val[k])]
  BY <1>3, <1>4, <1>5
<1>10. Len(s) = m + n /\ Joined(s, m, n, b.val, c.val)
  BY <1>7, <1>9, ConcatenationJoins
<1>11. Shows(s, DiagOf(r) \cup OffdOf(r))
  BY <1>6, <1>7, <1>10, ListsJoin
<1> QED
  BY <1>8, <1>10, <1>11 DEF s

-------------------------------------------------------------------------------
(* The input stays as it is, and with it what the ranks compute from it.   *)
LEMMA InputStays ==
  ASSUME input' = input
  PROVE  /\ Given' <=> Given
         /\ Accepted' <=> Accepted
         /\ Hypre' <=> Hypre
         /\ \A r : ScanRows(r)' = ScanRows(r) /\ LocalRows(r)' = LocalRows(r)
         /\ \A r : DiagBlock(r)' = DiagBlock(r) /\ OffdBlock(r)' = OffdBlock(r)
         /\ \A r : RemoteColumns(r)' = RemoteColumns(r) /\ Counts(r)' = Counts(r)
         /\ rowStart' = rowStart => \A r : CooOf(r)' = CooOf(r)
<1>1. Given' <=> Given
  BY DEF Given, Rows, Ranks, LocalRows, EntriesOf
<1>2. (Accepted' <=> Accepted) /\ (Hypre' <=> Hypre)
  BY DEF Accepted, OrderedParts, Fits, Hypre, Rows
<1>3. /\ LocalColumn' = LocalColumn
      /\ \A r : LocalRows(r)' = LocalRows(r)
      /\ \A g : LocalRow(g)' = LocalRow(g)
      /\ \A r : DiagOf(r)' = DiagOf(r) /\ OffdOf(r)' = OffdOf(r)
  BY DEF LocalColumn, LocalRows, LocalRow, LocalIndex, Rows, DiagOf, OffdOf, EntriesOf
<1>4. \A r : ScanRows(r)' = ScanRows(r)
  BY <1>3 DEF ScanRows, MapThenSumSet, MapThenFoldSet, LocalRows, Rows
<1>5. \A r : RemoteColumns(r)' = RemoteColumns(r)
  BY DEF RemoteColumns, OffdOf, EntriesOf, DiagOf
<1>6. ASSUME NEW r  PROVE RemoteColumn(r)' = RemoteColumn(r)
  <2>1. RemoteColumns(r)' = RemoteColumns(r) /\ OffdOf(r)' = OffdOf(r)
    BY <1>3, <1>5
  <2> QED
    BY <2>1 DEF RemoteColumn
<1>7. ASSUME NEW r, NEW E, NEW column  PROVE Csr(r, E, column)' = Csr(r, E, column)
  <2>1. LocalRows(r)' = LocalRows(r) /\ \A g : LocalRow(g)' = LocalRow(g)
    BY <1>3
  <2> QED
    BY <2>1 DEF Csr
<1>8. \A r : DiagBlock(r)' = DiagBlock(r)
  BY <1>3, <1>7 DEF DiagBlock, AsHypreInt, Narrow
<1>9. \A r : OffdBlock(r)' = OffdBlock(r)
  BY <1>3, <1>6, <1>7 DEF OffdBlock, AsHypreInt, Narrow
<1>10. ASSUME rowStart' = rowStart, NEW r  PROVE CooOf(r)' = CooOf(r)
  <2>1. OfLocal(r)' = OfLocal(r) /\ OfRemote(r)' = OfRemote(r)
    BY <1>3, <1>5 DEF OfLocal, OfRemote, LocalColumns, Rows
  <2>2. /\ Csr(r, DiagOf(r), LocalColumn)' = Csr(r, DiagOf(r), LocalColumn)
        /\ Csr(r, OffdOf(r), RemoteColumn(r))' = Csr(r, OffdOf(r), RemoteColumn(r))
    BY <1>3, <1>6, <1>7
  <2>3. CooOf(r) = Triplets(Csr(r, DiagOf(r), LocalColumn), rowStart[r], OfLocal(r))
                     \o Triplets(Csr(r, OffdOf(r), RemoteColumn(r)), rowStart[r], OfRemote(r))
    BY DEF CooOf, OfLocal, OfRemote, LocalColumns
  <2>4. CooOf(r)' = (Triplets(Csr(r, DiagOf(r), LocalColumn), rowStart[r], OfLocal(r))
                       \o Triplets(Csr(r, OffdOf(r), RemoteColumn(r)), rowStart[r], OfRemote(r)))'
    BY DEF CooOf, OfLocal, OfRemote, LocalColumns
  <2> QED
    BY <1>10, <2>1, <2>2, <2>3, <2>4
<1>11. \A r : Counts(r)' = Counts(r)
  BY <1>3, <1>5 DEF Counts, Narrow
<1> QED
  BY <1>1, <1>2, <1>3, <1>4, <1>5, <1>8, <1>9, <1>10, <1>11

-------------------------------------------------------------------------------
Scans == /\ rowEnd   = [r \in Ranks |-> ScanRows(r)]
         /\ rowStart = [r \in Ranks |-> Start(r)]

ColMapOf(r) == SubSeq(RemoteColumns(r), 1, Counts(r).cols)

HypreHolds == /\ diag = [r \in Ranks |-> Reordered(DiagBlock(r))]
              /\ offd = [r \in Ranks |-> OffdBlock(r)]
              /\ counts = [r \in Ranks |-> Counts(r)]
              /\ colMap = [r \in Ranks |-> ColMapOf(r)]

Refused == thrown = Ranks /\ ~Accepted

Done == /\ thrown = {} /\ Accepted /\ Scans
        /\ Hypre => HypreHolds
        /\ ~Hypre => coo = [r \in Ranks |-> CooOf(r)] /\ colMap = [r \in Ranks |-> << >>]

(* The inductive invariant: what each stage has made of the input.  Past   *)
(* the validation only an accepted matrix goes on, and then no rank throws.*)
MInv ==
  /\ Given
  /\ stage \in {"validate", "scan", "blocks", "reorder", "colmap", "triplets", "end"}
  /\ stage # "end" => thrown = {}
  /\ stage \notin {"validate", "end"} => Accepted
  /\ stage \in {"validate", "scan", "triplets"} => colMap = [r \in Ranks |-> << >>]
  /\ stage \in {"blocks", "reorder", "colmap"} => Hypre /\ Scans
  /\ stage = "triplets" => ~Hypre /\ Scans
  /\ stage = "reorder" => /\ diag = [r \in Ranks |-> DiagBlock(r)]
                          /\ offd = [r \in Ranks |-> OffdBlock(r)]
                          /\ counts = [r \in Ranks |-> Counts(r)]
  /\ stage = "colmap" => /\ diag = [r \in Ranks |-> Reordered(DiagBlock(r))]
                         /\ offd = [r \in Ranks |-> OffdBlock(r)]
                         /\ counts = [r \in Ranks |-> Counts(r)]
  /\ stage = "end" => Refused \/ Done

(* The inputs are matrices.                                                *)
LEMMA InputsAreGiven ==
  ASSUME NEW n \in Sizes, input \in InputsOfSize(n)
  PROVE  Given
<1>1. n \in Nat \ {0} /\ \A m \in IntMaxes : m \in Nat
  BY ImportAssumption
<1>2. /\ input.size = n /\ input.intMax \in IntMaxes /\ input.bigMax \in IntMaxes
      /\ input.owner \in [0..n - 1 -> Ranks] /\ input.colOwner \in [0..n - 1 -> Ranks]
      /\ input.entries \in SUBSET ((0..n - 1) \X (0..n - 1))
      /\ ColumnsFollowRows => input.colOwner = input.owner
      /\ CountsFit => \A r \in Ranks :
           /\ Cardinality({g \in 0..n - 1 : input.owner[g] = r}) <= input.intMax
           /\ Cardinality({e \in input.entries : input.owner[e[1]] = r}) <= input.intMax
  BY DEF InputsOfSize
<1>3. Rows = 0..n - 1
  BY <1>2 DEF Rows
<1>4. \A r : /\ LocalRows(r) = Cardinality({g \in 0..n - 1 : input.owner[g] = r})
            /\ EntriesOf(r) = {e \in input.entries : input.owner[e[1]] = r}
  BY <1>3 DEF LocalRows, EntriesOf
<1> QED
  BY <1>1, <1>2, <1>3, <1>4 DEF Given

(* The invariant holds at first, and each step keeps it.                   *)
LEMMA InitHolds ==
  ASSUME Init
  PROVE  MInv
<1>1. Given
  BY InputsAreGiven DEF Init
<1> QED
  BY <1>1 DEF Init, MInv

(* No rank's row range is beyond the library's integers.                   *)
LEMMA RangesFit ==
  ASSUME Given, Accepted
  PROVE  \A r \in Ranks : Fits(Start(r)) /\ Fits(ScanRows(r)) /\ Fits(LocalRows(r))
<1> SUFFICES ASSUME NEW r \in Ranks
             PROVE  Fits(Start(r)) /\ Fits(ScanRows(r)) /\ Fits(LocalRows(r))
  OBVIOUS
<1>1. /\ Start(r) \in 0..input.size /\ ScanRows(r) \in 0..input.size
      /\ LocalRows(r) \in 0..input.size
  BY StartCounts
<1>2. input.size <= input.bigMax /\ input.size \in Nat /\ input.bigMax \in Nat
  BY DEF Accepted, Fits, Given
<1> QED
  BY <1>1, <1>2 DEF Fits

(* Nor is a row or a column number.                                        *)
LEMMA RowsFit ==
  ASSUME Given, Accepted, NEW g \in Rows
  PROVE  Fits(g)
<1>1. g \in Nat /\ g < input.size
  BY OwnersAre
<1> QED
  BY <1>1 DEF Accepted, Fits, Given

(* Past the validation the matrix is accepted.                             *)
LEMMA ValidateStep ==
  ASSUME MInv, Validate
  PROVE  MInv'
<1>1. input' = input /\ colMap' = colMap
  BY DEF Validate
<1>2. Given' /\ (Accepted' <=> Accepted)
  BY <1>1, InputStays DEF MInv
<1>3. CASE Accepted
  BY <1>1, <1>2, <1>3 DEF MInv, Validate
<1>4. CASE ~Accepted
  <2>1. Refused'
    BY <1>2, <1>4 DEF Validate, Refused, Ranks
  <2> QED
    BY <1>1, <1>2, <1>4, <2>1 DEF MInv, Validate
<1> QED
  BY <1>3, <1>4

(* After the scan each rank knows its range.                               *)
LEMMA ScanStep ==
  ASSUME MInv, Scan
  PROVE  MInv'
<1>1. input' = input /\ colMap' = colMap /\ stage = "scan"
  BY DEF Scan
<1>2. /\ Given /\ Given' /\ Accepted /\ Accepted' /\ (Hypre' <=> Hypre)
      /\ \A r : ScanRows(r)' = ScanRows(r) /\ LocalRows(r)' = LocalRows(r)
  BY <1>1, InputStays DEF MInv
<1>3. Ranks' = Ranks
  BY DEF Ranks
<1>4. /\ rowEnd' = [r \in Ranks |-> ScanRows(r)]
      /\ rowStart' = [r \in Ranks |-> Start(r)]
  BY DEF Scan, Start
<1>5. Scans'
  BY <1>2, <1>3, <1>4 DEF Scans, Start
<1>6. thrown' = {}
  <2>1. \A r \in Ranks : Fits(Start(r)) /\ Fits(ScanRows(r)) /\ Fits(LocalRows(r))
    BY <1>2, RangesFit
  <2>2. \A r \in Ranks : rowStart'[r] = Start(r) /\ rowEnd'[r] = ScanRows(r)
    BY <1>4
  <2>3. thrown' = IF Hypre THEN {r \in Ranks : ~Fits(rowStart'[r]) \/ ~Fits(rowEnd'[r])}
                           ELSE {r \in Ranks : ~Fits(LocalRows(r))}
    BY DEF Scan
  <2> QED
    BY <2>1, <2>2, <2>3
<1>7. stage' = IF Hypre THEN "blocks" ELSE "triplets"
  BY DEF Scan
<1> QED
  BY <1>1, <1>2, <1>3, <1>5, <1>6, <1>7 DEF MInv

(* set_block gives hypre the two blocks.                                   *)
LEMMA SetBlocksStep ==
  ASSUME MInv, SetBlocks
  PROVE  MInv'
<1>1. /\ input' = input /\ stage = "blocks" /\ stage' = "reorder" /\ thrown' = thrown
      /\ rowStart' = rowStart /\ rowEnd' = rowEnd /\ Ranks' = Ranks
  BY DEF SetBlocks, Ranks
<1>2. /\ Given' /\ Accepted' /\ Hypre' /\ thrown = {}
      /\ \A r : ScanRows(r)' = ScanRows(r) /\ LocalRows(r)' = LocalRows(r)
      /\ \A r : DiagBlock(r)' = DiagBlock(r) /\ OffdBlock(r)' = OffdBlock(r)
      /\ \A r : Counts(r)' = Counts(r)
  BY <1>1, InputStays DEF MInv
<1>3. Scans'
  BY <1>1, <1>2 DEF MInv, Scans, Start
<1>4. /\ diag' = [r \in Ranks |-> DiagBlock(r)] /\ offd' = [r \in Ranks |-> OffdBlock(r)]
      /\ counts' = [r \in Ranks |-> Counts(r)]
  BY <1>2 DEF SetBlocks
<1> QED
  BY <1>1, <1>2, <1>3, <1>4 DEF MInv

(* hypre_CSRMatrixReorder moves each row's diagonal first.                 *)
LEMMA ReorderStep ==
  ASSUME MInv, ReorderDiagFirst
  PROVE  MInv'
<1>1. /\ input' = input /\ stage = "reorder" /\ stage' = "colmap" /\ thrown' = thrown
      /\ rowStart' = rowStart /\ rowEnd' = rowEnd /\ offd' = offd /\ Ranks' = Ranks
      /\ counts' = counts
  BY DEF ReorderDiagFirst, Ranks
<1>2. /\ Given' /\ Accepted' /\ Hypre' /\ thrown = {}
      /\ \A r : ScanRows(r)' = ScanRows(r) /\ LocalRows(r)' = LocalRows(r)
      /\ \A r : DiagBlock(r)' = DiagBlock(r) /\ OffdBlock(r)' = OffdBlock(r)
      /\ \A r : Counts(r)' = Counts(r)
  BY <1>1, InputStays DEF MInv
<1>3. Scans'
  BY <1>1, <1>2 DEF MInv, Scans, Start
<1>4. /\ diag = [r \in Ranks |-> DiagBlock(r)] /\ offd = [r \in Ranks |-> OffdBlock(r)]
      /\ counts = [r \in Ranks |-> Counts(r)]
      /\ diag' = [r \in Ranks |-> Reordered(diag[r])]
  BY <1>1 DEF MInv, ReorderDiagFirst
<1>5. diag' = [r \in Ranks |-> Reordered(DiagBlock(r))]
  BY <1>4
<1>6. \A r : Reordered(DiagBlock(r))' = Reordered(DiagBlock(r))
  BY <1>2 DEF Reordered
<1> QED
  BY <1>1, <1>2, <1>3, <1>4, <1>5, <1>6 DEF MInv

(* The column map completes hypre's matrix.                                *)
LEMMA SetColMapStep ==
  ASSUME MInv, SetColMap
  PROVE  MInv'
<1>1. /\ input' = input /\ stage = "colmap" /\ stage' = "end"
      /\ rowStart' = rowStart /\ rowEnd' = rowEnd /\ diag' = diag /\ offd' = offd
      /\ counts' = counts /\ Ranks' = Ranks
  BY DEF SetColMap, Ranks
<1>2. /\ Given /\ Given' /\ Accepted /\ Accepted' /\ Hypre' /\ thrown = {}
      /\ \A r : ScanRows(r)' = ScanRows(r) /\ LocalRows(r)' = LocalRows(r)
      /\ \A r : DiagBlock(r)' = DiagBlock(r) /\ OffdBlock(r)' = OffdBlock(r)
      /\ \A r : Counts(r)' = Counts(r)
      /\ \A r : RemoteColumns(r)' = RemoteColumns(r)
  BY <1>1, InputStays DEF MInv
<1>3. Scans'
  BY <1>1, <1>2 DEF MInv, Scans, Start
<1>4. ASSUME NEW r \in Ranks, NEW k \in DOMAIN ColumnMap(r)  PROVE Fits(ColumnMap(r)[k])
  <2> DEFINE s == RemoteColumns(r)
             n == counts[r].cols
  <2>1. n = Narrow(Len(s))
    BY <1>1 DEF MInv, Counts
  <2>2. Len(s) \in Nat /\ s \in [1..Len(s) -> Rows]
    BY <1>2, RemoteIs
  <2>3. n \in Int /\ n <= Len(s)
    BY <1>2, <2>1, <2>2, NarrowShrinks DEF Given
  <2> HIDE DEF s, n
  <2>4. k \in 1..Len(s) /\ ColumnMap(r)[k] = s[k]
    <3>1. ColumnMap(r) = SubSeq(s, 1, n)
      BY DEF ColumnMap, s, n
    <3>2. ColumnMap(r) = [i \in 1..n |-> s[i]]
      BY <2>3, <3>1
    <3> QED
      BY <2>2, <2>3, <3>2
  <2>5. s[k] \in Rows
    BY <2>2, <2>4
  <2> QED
    BY <1>2, <2>4, <2>5, RowsFit
<1>5. thrown' = {}
  BY <1>2, <1>4 DEF SetColMap
<1>6. colMap' = [r \in Ranks |-> ColMapOf(r)]
  BY <1>1, <1>5 DEF SetColMap, ColumnMap, ColMapOf, MInv
<1>7. \A r : Reordered(DiagBlock(r))' = Reordered(DiagBlock(r))
  BY <1>2 DEF Reordered
<1>8. /\ diag' = [r \in Ranks |-> Reordered(DiagBlock(r))]
      /\ offd' = [r \in Ranks |-> OffdBlock(r)]
      /\ counts' = [r \in Ranks |-> Counts(r)]
  BY <1>1 DEF MInv
<1>9. HypreHolds'
  BY <1>1, <1>2, <1>6, <1>7, <1>8 DEF HypreHolds, ColMapOf
<1>10. Done'
  BY <1>2, <1>3, <1>5, <1>9 DEF Done
<1> QED
  BY <1>1, <1>2, <1>10 DEF MInv

(* append_block fills in PETSc's triplets.                                 *)
LEMMA AppendBlocksStep ==
  ASSUME MInv, AppendBlocks
  PROVE  MInv'
<1>1. /\ input' = input /\ stage = "triplets" /\ stage' = "end"
      /\ rowStart' = rowStart /\ rowEnd' = rowEnd /\ colMap' = colMap /\ Ranks' = Ranks
  BY DEF AppendBlocks, Ranks
<1>2. /\ Given /\ Given' /\ Accepted /\ Accepted' /\ ~Hypre' /\ thrown = {} /\ Scans
      /\ colMap = [r \in Ranks |-> << >>]
      /\ \A r : ScanRows(r)' = ScanRows(r) /\ LocalRows(r)' = LocalRows(r)
      /\ \A r : CooOf(r)' = CooOf(r)
  BY <1>1, InputStays DEF MInv
<1>3. Scans'
  BY <1>1, <1>2 DEF Scans, Start
<1>4. coo' = [r \in Ranks |-> CooOf(r)]
  BY <1>2 DEF AppendBlocks
<1>5. \A r \in Ranks : \A k \in DOMAIN coo'[r] : Fits(coo'[r][k].row) /\ Fits(coo'[r][k].col)
  <2> SUFFICES ASSUME NEW r \in Ranks, NEW k \in DOMAIN CooOf(r)
               PROVE  Fits(CooOf(r)[k].row) /\ Fits(CooOf(r)[k].col)
    BY <1>4
  <2>1. Shows(CooOf(r), EntriesOf(r))
    BY <1>2, CooIs DEF Accepted, Scans
  <2>2. PICK e \in EntriesOf(r) : CooOf(r)[k] = TripletOf(e)
    BY <2>1 DEF Shows
  <2>3. e[1] \in Rows /\ e[2] \in Rows
    BY <1>2, EntryIs
  <2>4. CooOf(r)[k].row = e[1] /\ CooOf(r)[k].col = e[2]
    BY <2>2 DEF TripletOf
  <2> QED
    BY <1>2, <2>3, <2>4, RowsFit
<1>6. thrown' = {}
  BY <1>2, <1>5 DEF AppendBlocks
<1>7. Done'
  BY <1>1, <1>2, <1>3, <1>4, <1>6 DEF Done
<1> QED
  BY <1>1, <1>2, <1>7 DEF MInv

(* Nothing changes.                                                        *)
LEMMA StutterStep ==
  ASSUME MInv, UNCHANGED vars
  PROVE  MInv'
<1>1. /\ input' = input /\ stage' = stage /\ thrown' = thrown /\ rowStart' = rowStart
      /\ rowEnd' = rowEnd /\ diag' = diag /\ offd' = offd /\ colMap' = colMap /\ coo' = coo
      /\ counts' = counts
      /\ Ranks' = Ranks
  BY DEF vars, Ranks
<1>2. /\ Given' /\ (Accepted' <=> Accepted) /\ (Hypre' <=> Hypre)
      /\ \A r : ScanRows(r)' = ScanRows(r) /\ LocalRows(r)' = LocalRows(r)
      /\ \A r : DiagBlock(r)' = DiagBlock(r) /\ OffdBlock(r)' = OffdBlock(r)
      /\ \A r : RemoteColumns(r)' = RemoteColumns(r) /\ Counts(r)' = Counts(r)
      /\ \A r : CooOf(r)' = CooOf(r)
  BY <1>1, InputStays DEF MInv
<1>3. \A r : Reordered(DiagBlock(r))' = Reordered(DiagBlock(r))
  BY <1>2 DEF Reordered
<1>4. Scans' <=> Scans
  BY <1>1, <1>2 DEF Scans, Start
<1>5. HypreHolds' <=> HypreHolds
  BY <1>1, <1>2, <1>3 DEF HypreHolds, ColMapOf
<1>6. (Refused' <=> Refused) /\ (Done' <=> Done)
  BY <1>1, <1>2, <1>4, <1>5 DEF Refused, Done
<1> QED
  BY <1>1, <1>2, <1>3, <1>4, <1>6 DEF MInv

(* MInv holds throughout an import.                                        *)
THEOREM Invariance == Spec => []MInv
<1>1. Init => MInv
  BY InitHolds
<1>2. MInv /\ [Next]_vars => MInv'
  BY ValidateStep, ScanStep, SetBlocksStep, ReorderStep, SetColMapStep, AppendBlocksStep,
     StutterStep DEF Next
<1> QED
  BY <1>1, <1>2, PTL DEF Spec

-------------------------------------------------------------------------------
(* Refused on all ranks is refused on some.                                *)
LEMMA RanksNotEmpty == Ranks # {}
  BY RanksAre

(* A matrix the library cannot take is refused by every rank, before any   *)
(* collective; one that passes the validation stops no rank alone, neither *)
(* in the scan nor at a row or column number.                              *)
THEOREM RefusalAgrees == Spec => []RefusedByAllOrNone
<1>1. MInv => RefusedByAllOrNone
  BY DEF MInv, RefusedByAllOrNone, Refused, Done
<1> QED
  BY <1>1, Invariance, PTL

(* The triplets PETSc assembles are the matrix's entries, each once and at *)
(* its global row and column, for every contiguous row partition and every *)
(* column partition.                                                       *)
THEOREM PetscHoldsTheMatrix == Spec => []PetscMatrixRight
<1>1. ASSUME MInv  PROVE PetscMatrixRight
  <2> SUFFICES ASSUME Imported, ~Hypre, NEW r \in Ranks
               PROVE  /\ {coo[r][k] : k \in DOMAIN coo[r]} =
                           {[row |-> e[1], col |-> e[2], val |-> e] : e \in EntriesOf(r)}
                      /\ Len(coo[r]) = Cardinality(EntriesOf(r))
    BY DEF PetscMatrixRight
  <2>1. Given /\ Done
    BY <1>1, RanksNotEmpty DEF MInv, Imported, Refused
  <2>2. coo[r] = CooOf(r) /\ OrderedParts /\ rowStart[r] = Start(r)
    BY <2>1 DEF Done, Scans, Accepted
  <2>3. Shows(CooOf(r), EntriesOf(r)) /\ Len(CooOf(r)) = Cardinality(EntriesOf(r))
    BY <2>1, <2>2, CooIs
  <2> QED
    BY <2>2, <2>3 DEF Shows, TripletOf
<1> QED
  BY <1>1, Invariance, PTL

(* The ranks' ranges tile the matrix.                                      *)
LEMMA RangesTileHolds ==
  ASSUME MInv
  PROVE  RangesTile
<1> SUFFICES ASSUME Scanned
             PROVE  /\ rowStart[0] = 0 /\ rowEnd[NumRanks - 1] = input.size
                    /\ \A r \in Ranks \ {0} : rowStart[r] = rowEnd[r - 1]
  BY DEF RangesTile
<1>1. Given /\ Scans
  BY RanksNotEmpty DEF MInv, Scanned, Refused, Done
<1>2. \A r \in Ranks : rowStart[r] = Start(r) /\ rowEnd[r] = ScanRows(r)
  BY <1>1 DEF Scans
<1> QED
  BY <1>1, <1>2, StartsTile, RanksAre

(* The map is complete where the columns can be counted.                   *)
LEMMA ColMapComplete ==
  ASSUME Given, CountsFit, NEW r \in Ranks
  PROVE  ColMapOf(r) = RemoteColumns(r)
<1> DEFINE s == RemoteColumns(r)
           n == Len(s)
<1>1. ColMapOf(r) = SubSeq(s, 1, n)
  BY CountsHold DEF ColMapOf
<1>2. n \in Nat /\ s \in [1..n -> Rows]
  BY RemoteIs
<1> HIDE DEF s, n
<1>3. SubSeq(s, 1, n) = [i \in 1..n |-> s[i]]
  BY <1>2
<1>4. [i \in 1..n |-> s[i]] = s
  BY <1>2
<1> QED
  BY <1>1, <1>3, <1>4 DEF s

(* hypre's matrix is the one Ginkgo was given, in the form hypre requires, *)
(* under the two conditions HypreMatrixRight is checked with: no column    *)
(* partition of its own, and local integers wide enough to count what each *)
(* rank holds, which nothing in the code checks (see the README).          *)
THEOREM HypreHoldsTheMatrix ==
  ASSUME ColumnsFollowRows, CountsFit
  PROVE  Spec => []HypreMatrixRight
<1>1. ASSUME MInv  PROVE DiagonalLeads /\ ColMapAscends
  <2>1. Imported => Given /\ Done
    BY <1>1, RanksNotEmpty DEF MInv, Imported, Refused
  <2>2. DiagonalLeads
    <3> SUFFICES ASSUME Imported, Hypre, NEW r \in Ranks  PROVE Leads(diag[r])
      BY DEF DiagonalLeads, Leads
    <3>1. diag[r] = Reordered(DiagBlock(r))
      BY <2>1 DEF Done, HypreHolds
    <3> QED
      BY <2>1, <3>1, HypreReads DEF Done
  <2>3. ColMapAscends
    <3> SUFFICES ASSUME Imported, NEW r \in Ranks
                 PROVE  \A j, k \in DOMAIN colMap[r] : j < k => colMap[r][j] < colMap[r][k]
      BY DEF ColMapAscends
    <3>1. CASE Hypre
      <4>1. colMap[r] = RemoteColumns(r)
        BY <2>1, <3>1, ColMapComplete DEF Done, HypreHolds
      <4> QED
        BY <2>1, <4>1, MapAscends DEF Done, Accepted
    <3>2. CASE ~Hypre
      <4>1. colMap[r] = << >>
        BY <2>1, <3>2 DEF Done
      <4> QED
        BY <4>1
    <3> QED
      BY <3>1, <3>2
  <2> QED
    BY <2>2, <2>3
<1>2. ASSUME MInv, Imported, Hypre, NEW r \in Ranks
      PROVE  /\ ReadBack(r) = {<<e[1], e[2], e>> : e \in EntriesOf(r)}
             /\ diag[r].nnz + offd[r].nnz = Cardinality(EntriesOf(r))
             /\ counts[r] = [rows |-> rowEnd[r] - rowStart[r], cols |-> Len(colMap[r])]
  <2>1. Given /\ Done
    BY <1>2, RanksNotEmpty DEF MInv, Imported, Refused
  <2>2. /\ rowStart[r] = Start(r) /\ diag[r] = Reordered(DiagBlock(r))
        /\ offd[r] = OffdBlock(r) /\ colMap[r] = RemoteColumns(r)
        /\ counts[r] = Counts(r) /\ rowEnd[r] = ScanRows(r)
    BY <1>2, <2>1, ColMapComplete DEF Done, Scans, HypreHolds
  <2>3. ReadBack(r) = DiagRead(r, Reordered(DiagBlock(r))) \cup OffdRead(r, OffdBlock(r))
    BY <2>2 DEF ReadBack, DiagRead, OffdRead
  <2>4. rowEnd[r] - rowStart[r] = LocalRows(r)
    <3>1. ScanRows(r) \in 0..input.size /\ LocalRows(r) \in 0..input.size
      BY <2>1, StartCounts
    <3> QED
      BY <2>1, <2>2, <3>1 DEF Start, Given
  <2>5. counts[r] = [rows |-> LocalRows(r), cols |-> Len(RemoteColumns(r))]
    BY <2>1, <2>2, CountsHold
  <2> QED
    BY <2>1, <2>2, <2>3, <2>4, <2>5, HypreReads DEF Done
<1>3. MInv => HypreMatrixRight
  BY <1>1, <1>2, RangesTileHolds DEF HypreMatrixRight
<1> QED
  BY <1>3, Invariance, PTL
===============================================================================
