-------------------------- MODULE GridHierarchyProofs --------------------------
(***************************************************************************)
(* HierarchyRight, for any number of ranks, rows and levels.  Two facts    *)
(* about finite sets carry it: a fold that sums sizes of disjoint sets is  *)
(* the size of their union (MPI_SUM counts every row of every rank once),  *)
(* and Max of a finite set of integers is its largest member (MPI_MAX).    *)
(* Both come from LeastSet, minimality among the subsets of a finite set,  *)
(* as a proof by induction would need an operator for its hypothesis.      *)
(***************************************************************************)
EXTENDS GridHierarchy, FiniteSetTheorems, WellFoundedInduction, TLAPS

(* A family of subsets of a finite set has a smallest member.              *)
HasLeast(W) == \E T \in W : \A U \in W : U \subseteq T => U = T

LEMMA LeastSet ==
  ASSUME NEW S, IsFiniteSet(S)
  PROVE  \A W \in SUBSET SUBSET S : W # {} => HasLeast(W)
<1> SUFFICES ASSUME NEW W \in SUBSET SUBSET S, W # {}  PROVE HasLeast(W)
  OBVIOUS
<1>1. IsWellFoundedOn(StrictSubsetOrdering(S), SUBSET S)
  BY FS_FiniteSubsetsOfFinite, FS_StrictSubsetOrderingWellFounded, Zenon
<1>2. PICK T \in W : \A U \in W : <<U, T>> \notin StrictSubsetOrdering(S)
  BY <1>1, WFMin, Zenon
<1>3. \A U \in W : U \subseteq T => U = T
  BY <1>2 DEF StrictSubsetOrdering
<1> QED
  BY <1>3 DEF HasLeast

(* Summands as the sizes of sets C[q].                                     *)
Gathered(C, T) == UNION {C[q] : q \in T}

LEMMA GatheredFinite ==
  ASSUME NEW S, IsFiniteSet(S), NEW C, \A q \in S : IsFiniteSet(C[q])
  PROVE  \A T \in SUBSET S : IsFiniteSet(Gathered(C, T))
<1> SUFFICES ASSUME NEW T \in SUBSET S  PROVE IsFiniteSet(Gathered(C, T))
  OBVIOUS
<1>1. IsFiniteSet(T)
  BY FS_Subset
<1>2. IsFiniteSet({C[q] : q \in T})
  <2>1. [q \in T |-> C[q]] \in Surjection(T, {C[q] : q \in T})
    BY DEF Surjection
  <2> QED
    BY <1>1, <2>1, FS_Surjection, Zenon
<1> QED
  BY <1>2, FS_UNION DEF Gathered

LEMMA GatheredSize ==
  ASSUME NEW S, IsFiniteSet(S), NEW C, \A q \in S : IsFiniteSet(C[q]),
         \A p, q \in S : p # q => C[p] \cap C[q] = {},
         NEW T \in SUBSET S, NEW q \in T
  PROVE  Cardinality(Gathered(C, T)) = Cardinality(C[q]) + Cardinality(Gathered(C, T \ {q}))
<1>1. /\ Gathered(C, T) = C[q] \cup Gathered(C, T \ {q})
      /\ C[q] \cap Gathered(C, T \ {q}) = {}
  BY DEF Gathered
<1>2. IsFiniteSet(C[q]) /\ IsFiniteSet(Gathered(C, T \ {q}))
  BY GatheredFinite
<1>3. /\ Cardinality(C[q]) \in Nat /\ Cardinality(Gathered(C, T \ {q})) \in Nat
      /\ Cardinality({}) = 0
  BY <1>2, FS_EmptySet, FS_CardinalityType
<1>4. Cardinality(Gathered(C, T)) = Cardinality(C[q]) + Cardinality(Gathered(C, T \ {q}))
                                      - Cardinality(C[q] \cap Gathered(C, T \ {q}))
  BY <1>1, <1>2, FS_Union
<1> QED
  BY <1>1, <1>3, <1>4

(* The fold is the one function of the subsets of S that satisfies its     *)
(* recursion; the sizes of the unions satisfy it, too.                     *)
SumColumn(w, l, S) == MapThenSumSet(LAMBDA q : w[q][l], S)

LEMMA SumOfSizes ==
  ASSUME NEW S, IsFiniteSet(S), NEW C, \A q \in S : IsFiniteSet(C[q]),
         \A p, q \in S : p # q => C[p] \cap C[q] = {},
         NEW w, NEW l, \A q \in S : w[q][l] = Cardinality(C[q])
  PROVE  SumColumn(w, l, S) = Cardinality(Gathered(C, S))
<1> DEFINE One(T)  == CHOOSE x \in T : TRUE
           Rec(f)  == f = [T \in SUBSET S |-> IF T = {} THEN 0 ELSE w[One(T)][l] + f[T \ {One(T)}]]
           iter    == CHOOSE f : Rec(f)
           Size    == [T \in SUBSET S |-> Cardinality(Gathered(C, T))]
<1>1. SumColumn(w, l, S) = iter[S]
  BY DEF SumColumn, MapThenSumSet, MapThenFoldSet
<1>2. \A T \in SUBSET S : T # {} => One(T) \in T
  OBVIOUS
<1>3. Gathered(C, {}) = {} /\ Cardinality({}) = 0
  BY FS_EmptySet DEF Gathered
<1>4. \A T \in SUBSET S : Size[T] = IF T = {} THEN 0 ELSE w[One(T)][l] + Size[T \ {One(T)}]
  <2> SUFFICES ASSUME NEW T \in SUBSET S, T # {}
               PROVE  Size[T] = w[One(T)][l] + Size[T \ {One(T)}]
    BY <1>3
  <2> HIDE DEF One
  <2>1. One(T) \in T
    BY <1>2
  <2>2. Cardinality(Gathered(C, T))
          = Cardinality(C[One(T)]) + Cardinality(Gathered(C, T \ {One(T)}))
    BY <2>1, GatheredSize
  <2> QED
    BY <2>1, <2>2
<1>5. Rec(Size)
  <2> HIDE DEF One
  <2> QED
    BY <1>4
<1>6. Rec(iter)
  <2> HIDE DEF Rec, Size
  <2> QED
    BY <1>5
<1>7. \A T \in SUBSET S : iter[T] = IF T = {} THEN 0 ELSE w[One(T)][l] + iter[T \ {One(T)}]
  <2> HIDE DEF iter, One
  <2> QED
    BY <1>6
<1>8. \A T \in SUBSET S : iter[T] = Size[T]
  <2> DEFINE W == {T \in SUBSET S : iter[T] # Size[T]}
  <2> SUFFICES ASSUME W # {}  PROVE FALSE
    OBVIOUS
  <2>0. W \subseteq SUBSET S /\ W # {}
    OBVIOUS
  <2> HIDE DEF iter, Size, One
  <2>1. PICK T \in W : \A U \in W : U \subseteq T => U = T
    <3>1. HasLeast(W)
      BY <2>0, LeastSet
    <3> QED
      BY <3>1 DEF HasLeast
  <2>2. T # {}
    BY <1>4, <1>7
  <2>3. T \ {One(T)} \in SUBSET S /\ T \ {One(T)} \notin W
    BY <1>2, <2>1, <2>2
  <2>4. iter[T \ {One(T)}] = Size[T \ {One(T)}]
    BY <2>3
  <2> QED
    BY <1>4, <1>7, <2>2, <2>4
<1> QED
  BY <1>1, <1>8

(* Max is a member and no member is larger: the members above the smallest *)
(* of all sets {y : y >= x} are that x alone.                              *)
LEMMA MaxOfFinite ==
  ASSUME NEW S, IsFiniteSet(S), S \subseteq Int, S # {}
  PROVE  Max(S) \in S /\ \A y \in S : y <= Max(S)
<1> DEFINE Above(x) == {y \in S : y >= x}
           W        == {Above(x) : x \in S}
<1>1. W \subseteq SUBSET S /\ W # {}
  OBVIOUS
<1>2. PICK T \in W : \A U \in W : U \subseteq T => U = T
  <2> HIDE DEF W
  <2>1. HasLeast(W)
    BY <1>1, LeastSet
  <2> QED
    BY <2>1 DEF HasLeast
<1>3. PICK x \in S : T = Above(x)
  OBVIOUS
<1>4. \A y \in S : x >= y
  <2> SUFFICES ASSUME NEW y \in S, y > x  PROVE FALSE
    OBVIOUS
  <2>1. Above(y) \in W
    OBVIOUS
  <2>2. \A z \in Above(y) : z \in Above(x)
    OBVIOUS
  <2>3. x \in Above(x) /\ x \notin Above(y)
    OBVIOUS
  <2> HIDE DEF Above, W
  <2> QED
    BY <1>2, <1>3, <2>1, <2>2, <2>3
<1>5. Max(S) \in S /\ \A y \in S : Max(S) >= y
  BY <1>4 DEF Max
<1> QED
  BY <1>5

LEMMA RanksFinite == IsFiniteSet(Ranks) /\ 0 \in Ranks
  BY HierarchyAssumption, FS_Interval DEF Ranks

(* What hypre may know of the rows.                                        *)
Last == [Ranks -> UNION {[1..n -> Levels] : n \in 0..MaxRows}]

LEMMA RowsOfRank ==
  ASSUME lastLevel \in Last, NEW r \in Ranks
  PROVE  /\ LocalRows(r) \subseteq 1..MaxRows /\ IsFiniteSet(LocalRows(r))
         /\ \A i \in LocalRows(r) : lastLevel[r][i] \in Levels
<1>1. PICK n \in 0..MaxRows : lastLevel[r] \in [1..n -> Levels]
  BY DEF Last
<1>2. LocalRows(r) = 1..n
  BY <1>1 DEF LocalRows
<1>3. IsFiniteSet(1..n)
  BY FS_Interval, HierarchyAssumption
<1> QED
  BY <1>1, <1>2, <1>3, HierarchyAssumption

(* The levels a rank offers are those of the row that reaches deepest.     *)
LEMMA LevelsOffered ==
  ASSUME lastLevel \in Last, NEW r \in Ranks
  PROVE  /\ LocalLevels(r) \in 1..MaxLevel + 1
         /\ \A i \in LocalRows(r) : lastLevel[r][i] < LocalLevels(r)
         /\ LocalLevels(r) = 1 \/ \E i \in LocalRows(r) : lastLevel[r][i] = LocalLevels(r) - 1
<1> DEFINE S == {0} \cup {lastLevel[r][i] : i \in LocalRows(r)}
<1>1. \A i \in LocalRows(r) : lastLevel[r][i] \in 0..MaxLevel
  BY RowsOfRank DEF Levels
<1>2. S \in SUBSET (0..MaxLevel) /\ S # {}
  BY <1>1, HierarchyAssumption
<1>3. IsFiniteSet(0..MaxLevel)
  BY FS_Interval, HierarchyAssumption
<1>4. IsFiniteSet(S) /\ S \subseteq Int
  <2> HIDE DEF S
  <2>1. IsFiniteSet(S)
    BY <1>2, <1>3, FS_Subset
  <2>2. S \subseteq Int
    BY <1>2, HierarchyAssumption
  <2> QED
    BY <2>1, <2>2
<1>5. Max(S) \in S /\ \A y \in S : y <= Max(S)
  <2> HIDE DEF S
  <2> QED
    BY <1>2, <1>4, MaxOfFinite
<1>6. LocalLevels(r) = Max(S) + 1
  BY DEF LocalLevels
<1>7. Max(S) \in 0..MaxLevel
  BY <1>2, <1>5
<1> HIDE DEF S
<1>8. Max(S) = 0 \/ \E i \in LocalRows(r) : lastLevel[r][i] = Max(S)
  BY <1>5 DEF S
<1>9. \A i \in LocalRows(r) : lastLevel[r][i] <= Max(S)
  BY <1>5 DEF S
<1> QED
  BY <1>1, <1>6, <1>7, <1>8, <1>9, HierarchyAssumption

(* What a rank that has asked hypre brings to the first reduction.         *)
Brought(r) == [error |-> IF r \in broken THEN 1 ELSE 0, levels |-> LocalLevels(r)]

(* The reduction of the levels: the hierarchy has exactly the levels some  *)
(* row of some rank reaches, and the finest.                               *)
LEMMA LevelsReduced ==
  ASSUME lastLevel \in Last, \A r \in Ranks : offered[r] = Brought(r)
  PROVE  /\ NumLevels \in Nat \ {0}
         /\ \A l \in Int :
              l \in 0..NumLevels - 1 <=>
                l = 0 \/ (l \in Levels /\ \E r \in Ranks : \E i \in LocalRows(r) : l <= lastLevel[r][i])
<1> DEFINE S == {offered[q].levels : q \in Ranks}
<1>1. S = {LocalLevels(q) : q \in Ranks}
  <2>1. \A q \in Ranks : Brought(q).levels = LocalLevels(q)
    BY DEF Brought
  <2>2. \A q \in Ranks : offered[q].levels = LocalLevels(q)
    BY <2>1
  <2> QED
    BY <2>2
<1>2. S \in SUBSET (1..MaxLevel + 1) /\ S # {}
  BY <1>1, LevelsOffered, RanksFinite
<1>3. IsFiniteSet(1..MaxLevel + 1)
  BY FS_Interval, HierarchyAssumption
<1>4. IsFiniteSet(S) /\ S \subseteq Int
  <2> HIDE DEF S
  <2>1. IsFiniteSet(S)
    BY <1>2, <1>3, FS_Subset
  <2>2. S \subseteq Int
    BY <1>2, HierarchyAssumption
  <2> QED
    BY <2>1, <2>2
<1>5. Max(S) \in S /\ \A y \in S : y <= Max(S)
  <2> HIDE DEF S
  <2> QED
    BY <1>2, <1>4, MaxOfFinite
<1>6. NumLevels = Max(S)
  BY DEF NumLevels
<1> HIDE DEF S
<1>7. NumLevels \in 1..MaxLevel + 1
  BY <1>2, <1>5, <1>6
<1>8. \A q \in Ranks : LocalLevels(q) <= NumLevels
  BY <1>1, <1>5, <1>6
<1>9. PICK top \in Ranks : LocalLevels(top) = NumLevels
  BY <1>1, <1>5, <1>6
<1>10. ASSUME NEW l \in Int, l \in 0..NumLevels - 1, l # 0
       PROVE  l \in Levels /\ \E r \in Ranks : \E i \in LocalRows(r) : l <= lastLevel[r][i]
  <2>1. PICK i \in LocalRows(top) : lastLevel[top][i] = NumLevels - 1
    BY <1>7, <1>9, <1>10, LevelsOffered
  <2> QED
    BY <1>7, <1>9, <1>10, <2>1, HierarchyAssumption DEF Levels
<1>11. ASSUME NEW l \in Levels, NEW r \in Ranks, NEW i \in LocalRows(r), l <= lastLevel[r][i]
       PROVE  l \in 0..NumLevels - 1
  <2>1. lastLevel[r][i] < LocalLevels(r) /\ LocalLevels(r) \in Nat /\ lastLevel[r][i] \in Nat
    BY RowsOfRank, LevelsOffered, HierarchyAssumption DEF Levels
  <2> QED
    BY <1>7, <1>8, <1>11, <2>1, HierarchyAssumption DEF Levels
<1> QED
  BY <1>7, <1>10, <1>11

-------------------------------------------------------------------------------
(* The invariant: what each rank has brought to the reductions, and that   *)
(* nobody passes the first before all have joined it.                      *)
Counted(r) == at[r] \in {"sum", "returned"}

Sums(r) == [l \in DOMAIN rows[r] |-> SumColumn(rows, l, Ranks)]

Shapes ==
  /\ broken \subseteq Ranks /\ lastLevel \in Last
  /\ at \in [Ranks -> {"query", "max", "sum", "returned", "thrown"}]
  /\ DOMAIN offered = Ranks /\ DOMAIN rows = Ranks /\ DOMAIN result = Ranks

Offers ==
  \A r \in Ranks : IF at[r] = "query" THEN offered[r] = Nothing /\ r \notin broken
                                      ELSE offered[r] = Brought(r)

Counts ==
  \A r \in Ranks : IF Counted(r) THEN AllOffered /\ ~AnyError /\ rows[r] = Histogram(r)
                                 ELSE rows[r] = << >>

Results ==
  \A r \in Ranks : at[r] = "returned" => (\A q \in Ranks : Counted(q)) /\ result[r] = Sums(r)

Thrown == \A r \in Ranks : at[r] = "thrown" => AllOffered /\ AnyError

HInv == Shapes /\ Offers /\ Counts /\ Results /\ Thrown

LEMMA InitInv == Init => HInv
<1> SUFFICES ASSUME Init  PROVE HInv
  OBVIOUS
<1> QED
  BY DEF Init, HInv, Shapes, Offers, Counts, Results, Thrown, Counted, Last

(* Once every rank has offered, the reduced values stay.                   *)
LEMMA AllQueried ==
  ASSUME Shapes, Offers
  PROVE  AllOffered <=> \A r \in Ranks : at[r] # "query"
<1>1. \A r \in Ranks : at[r] # "query" => offered[r] # Nothing
  <2> SUFFICES ASSUME NEW r \in Ranks, at[r] # "query"  PROVE offered[r] # Nothing
    OBVIOUS
  <2>1. offered[r].levels = LocalLevels(r)
    <3>1. Brought(r).levels = LocalLevels(r)
      BY DEF Brought
    <3> QED
      BY <3>1 DEF Offers
  <2>2. LocalLevels(r) \in 1..MaxLevel + 1
    BY LevelsOffered DEF Shapes
  <2>3. Nothing.levels = 0
    BY DEF Nothing
  <2> QED
    BY <2>1, <2>2, <2>3, HierarchyAssumption
<1> QED
  BY <1>1 DEF Offers, AllOffered

LEMMA QueryInv ==
  ASSUME HInv, NEW r \in Ranks, Query(r)
  PROVE  HInv'
<1> USE DEF HInv
<1>1. PICK b \in BOOLEAN :
        /\ Breaks(r, b)
        /\ offered' = [offered EXCEPT ![r] = [error |-> GetGridHierarchy(r, b),
                                              levels |-> LocalLevels(r)]]
  BY DEF Query
<1>2. /\ at[r] = "query" /\ at' = [at EXCEPT ![r] = "max"]
      /\ UNCHANGED <<lastLevel, rows, result>>
  BY DEF Query, Go
<1>3. \A q \in Ranks : LocalLevels(q)' = LocalLevels(q)
  BY <1>2 DEF LocalLevels, LocalRows
<1>4. ArraySize(r) # 0
  <2> DEFINE S == {1, Cardinality(LocalRows(r))}
  <2>1. Cardinality(LocalRows(r)) \in Nat
    BY RowsOfRank, FS_CardinalityType DEF Shapes
  <2>2. IsFiniteSet(S)
    <3>1. IsFiniteSet({1}) /\ S = {1} \cup {Cardinality(LocalRows(r))}
      BY FS_Singleton
    <3> QED
      BY <3>1, FS_AddElement
  <2>3. S \subseteq Int /\ S # {} /\ 1 \in S
    BY <2>1
  <2>4. Max(S) \in S /\ \A y \in S : y <= Max(S)
    <3> HIDE DEF S
    <3> QED
      BY <2>2, <2>3, MaxOfFinite
  <2> QED
    BY <2>1, <2>4 DEF ArraySize
<1>5. GetGridHierarchy(r, b) = IF b THEN 1 ELSE 0
  BY <1>4 DEF GetGridHierarchy
<1>6. Shapes'
  BY <1>1, <1>2 DEF Shapes, Breaks
<1>7. Offers'
  <2> SUFFICES ASSUME NEW q \in Ranks
               PROVE  IF at'[q] = "query" THEN offered'[q] = Nothing /\ q \notin broken'
                                          ELSE offered'[q] = Brought(q)'
    BY DEF Offers, Nothing
  <2>1. CASE q = r
    <3>1. r \in broken' <=> b
      BY <1>1, <1>2 DEF Breaks, Offers
    <3>2. at'[r] = "max" /\ offered'[r] = [error |-> GetGridHierarchy(r, b), levels |-> LocalLevels(r)]
      BY <1>1, <1>2 DEF Shapes
    <3> QED
      BY <1>3, <1>5, <2>1, <3>1, <3>2 DEF Brought
  <2>2. CASE q # r
    <3>1. q \in broken' <=> q \in broken
      BY <1>1, <2>2 DEF Breaks
    <3>2. at'[q] = at[q] /\ offered'[q] = offered[q]
      BY <1>1, <1>2, <2>2 DEF Shapes
    <3>3. Brought(q)' = Brought(q)
      BY <1>3, <3>1 DEF Brought
    <3> QED
      BY <3>1, <3>2, <3>3 DEF Offers
  <2> QED
    BY <2>1, <2>2
<1>8. ~AllOffered
  BY <1>2, AllQueried
<1>9. \A q \in Ranks : ~Counted(q) /\ at[q] # "thrown"
  BY <1>8 DEF Counts, Thrown
<1>10. \A q \in Ranks : ~Counted(q)' /\ at'[q] # "thrown" /\ at'[q] # "returned"
  BY <1>2, <1>9 DEF Shapes, Counted
<1>11. Counts' /\ Results' /\ Thrown'
  BY <1>2, <1>9, <1>10 DEF Counts, Results, Thrown
<1> QED
  BY <1>6, <1>7, <1>11

LEMMA TakeMaxInv ==
  ASSUME HInv, NEW r \in Ranks, TakeMax(r)
  PROVE  HInv'
<1> USE DEF HInv
<1>1. /\ at[r] = "max" /\ AllOffered /\ UNCHANGED <<broken, lastLevel, offered, result>>
      /\ IF AnyError THEN at' = [at EXCEPT ![r] = "thrown"] /\ rows' = rows
         ELSE at' = [at EXCEPT ![r] = "sum"] /\ rows' = [rows EXCEPT ![r] = Histogram(r)]
  BY DEF TakeMax, Go
<1>2. AllOffered' /\ (AnyError' <=> AnyError)
  BY <1>1 DEF AllOffered, AnyError, Nothing
<1>3. \A q \in Ranks : Brought(q)' = Brought(q) /\ Histogram(q)' = Histogram(q)
  BY <1>1 DEF Brought, Histogram, NumLevels, RowsReaching, Reaches, LocalLevels, LocalRows
<1>4. Shapes'
  BY <1>1 DEF Shapes
<1>5. \A q \in Ranks : at'[q] = IF q = r THEN (IF AnyError THEN "thrown" ELSE "sum") ELSE at[q]
  BY <1>1 DEF Shapes
<1>6. Offers'
  BY <1>1, <1>3, <1>5 DEF Offers, Nothing
<1>7. \A q \in Ranks : rows'[q] = IF q = r /\ ~AnyError THEN Histogram(r) ELSE rows[q]
  BY <1>1 DEF Shapes
<1>8. Counts'
  BY <1>1, <1>2, <1>3, <1>5, <1>7 DEF Counts, Counted
<1>9. ~\A q \in Ranks : Counted(q)
  BY <1>1 DEF Counted
<1>10. Results'
  BY <1>5, <1>9 DEF Results
<1>11. Thrown'
  BY <1>2, <1>5 DEF Thrown
<1> QED
  BY <1>4, <1>6, <1>8, <1>10, <1>11

LEMMA NonEmptyIsCounted ==
  ASSUME Shapes, Counts, NEW r \in Ranks, rows[r] # << >>
  PROVE  Counted(r)
  BY DEF Counts

LEMMA TakeSumInv ==
  ASSUME HInv, NEW r \in Ranks, TakeSum(r)
  PROVE  HInv'
<1> USE DEF HInv
<1>1. /\ at[r] = "sum" /\ \A q \in Ranks : rows[q] # << >>
      /\ result' = [result EXCEPT ![r] = Sums(r)]
      /\ at' = [at EXCEPT ![r] = "returned"]
      /\ UNCHANGED <<broken, lastLevel, offered, rows>>
  BY DEF TakeSum, Go, Sums, SumColumn
<1>2. AllOffered' = AllOffered /\ AnyError' = AnyError
  BY <1>1 DEF AllOffered, AnyError, Nothing
<1>3. \A q \in Ranks : /\ Brought(q)' = Brought(q) /\ Histogram(q)' = Histogram(q)
                        /\ Sums(q)' = Sums(q)
  BY <1>1 DEF Brought, Histogram, NumLevels, RowsReaching, Reaches, LocalLevels, LocalRows, Sums
<1>4. Shapes'
  BY <1>1 DEF Shapes
<1>5. \A q \in Ranks : at'[q] = IF q = r THEN "returned" ELSE at[q]
  BY <1>1 DEF Shapes
<1>6. \A q \in Ranks : Counted(q) /\ Counted(q)'
  BY <1>1, <1>5, NonEmptyIsCounted DEF Counted
<1>7. Offers'
  BY <1>1, <1>3, <1>5 DEF Offers, Nothing
<1>8. Counts'
  BY <1>1, <1>2, <1>3, <1>6 DEF Counts
<1>9. \A q \in Ranks : result'[q] = IF q = r THEN Sums(r) ELSE result[q]
  BY <1>1 DEF Shapes
<1>10. Results'
  BY <1>3, <1>5, <1>6, <1>9 DEF Results
<1>11. Thrown'
  BY <1>2, <1>5 DEF Thrown
<1> QED
  BY <1>4, <1>7, <1>8, <1>10, <1>11

LEMMA StutterInv == HInv /\ UNCHANGED vars => HInv'
<1> SUFFICES ASSUME HInv, UNCHANGED vars  PROVE HInv'
  OBVIOUS
<1> USE DEF HInv, vars
<1>1. Shapes'
  BY DEF Shapes
<1>2. \A q \in Ranks : /\ Brought(q)' = Brought(q) /\ Histogram(q)' = Histogram(q)
                        /\ Sums(q)' = Sums(q)
  BY DEF Brought, Histogram, NumLevels, RowsReaching, Reaches, LocalLevels, LocalRows, Sums
<1>3. AllOffered' = AllOffered /\ AnyError' = AnyError
  BY DEF AllOffered, AnyError, Nothing
<1>4. Offers' /\ Counts' /\ Results' /\ Thrown'
  BY <1>2, <1>3 DEF Offers, Counts, Results, Thrown, Counted, Nothing
<1> QED
  BY <1>1, <1>4

LEMMA Invariance == Spec => []HInv
<1>1. HInv /\ [Next]_vars => HInv'
  BY QueryInv, TakeMaxInv, TakeSumInv, StutterInv DEF Next, Step
<1> QED
  BY InitInv, <1>1, PTL DEF Spec

-------------------------------------------------------------------------------
(* The rows that reach level l, rank by rank.                              *)
Reaching(l) == [q \in Ranks |-> {q} \X {i \in LocalRows(q) : Reaches(q, i, l)}]

(* The rows of one rank that reach a level.                                *)
LEMMA ReachingOfRank ==
  ASSUME lastLevel \in Last, NEW q \in Ranks, NEW l
  PROVE  /\ IsFiniteSet(Reaching(l)[q])
         /\ Cardinality(Reaching(l)[q]) = RowsReaching(q, l)
<1> DEFINE S == {i \in LocalRows(q) : Reaches(q, i, l)}
           f == [i \in S |-> <<q, i>>]
<1>1. IsFiniteSet(S)
  BY RowsOfRank, FS_Subset
<1>2. f \in Bijection(S, {q} \X S)
  BY DEF Bijection, Injection, Surjection, IsInjective
<1>3. ExistsBijection(S, {q} \X S)
  BY <1>2 DEF ExistsBijection
<1>4. IsFiniteSet({q} \X S) /\ Cardinality({q} \X S) = Cardinality(S)
  BY <1>1, <1>3, FS_Bijection
<1> QED
  BY <1>4 DEF Reaching, RowsReaching

(* The second reduction counts every row of every rank once.               *)
LEMMA SumOfRows ==
  ASSUME HInv, \A q \in Ranks : Counted(q), NEW l \in 0..NumLevels - 1
  PROVE  SumColumn(rows, l, Ranks)
           = Cardinality({ri \in AllRows : lastLevel[ri[1]][ri[2]] >= l})
<1> DEFINE C == Reaching(l)
<1>1. lastLevel \in Last
  BY DEF HInv, Shapes
<1>2. \A q \in Ranks : IsFiniteSet(C[q])
  BY <1>1, ReachingOfRank
<1>3. \A p, q \in Ranks : p # q => C[p] \cap C[q] = {}
  BY DEF Reaching
<1>4. \A q \in Ranks : rows[q][l] = Cardinality(C[q])
  <2> SUFFICES ASSUME NEW q \in Ranks  PROVE rows[q][l] = Cardinality(C[q])
    OBVIOUS
  <2>1. rows[q] = Histogram(q)
    BY DEF HInv, Counts
  <2>2. rows[q][l] = RowsReaching(q, l)
    BY <2>1 DEF Histogram
  <2> QED
    BY <1>1, <2>2, ReachingOfRank
<1>5. SumColumn(rows, l, Ranks) = Cardinality(Gathered(C, Ranks))
  <2> HIDE DEF C
  <2> QED
    BY <1>2, <1>3, <1>4, RanksFinite, SumOfSizes
<1>6. Gathered(C, Ranks) = {ri \in AllRows : lastLevel[ri[1]][ri[2]] >= l}
  <2>1. ASSUME NEW x \in Gathered(C, Ranks)
        PROVE  x \in {ri \in AllRows : lastLevel[ri[1]][ri[2]] >= l}
    <3>1. PICK q \in Ranks : x \in {q} \X {i \in LocalRows(q) : Reaches(q, i, l)}
      BY <2>1 DEF Gathered, Reaching
    <3>2. PICK i \in LocalRows(q) : x = <<q, i>> /\ l <= lastLevel[q][i]
      BY <3>1 DEF Reaches
    <3>3. i \in 1..MaxRows /\ lastLevel[q][i] \in Int
      BY <1>1, RowsOfRank, HierarchyAssumption DEF Levels
    <3> QED
      BY <3>2, <3>3 DEF AllRows
  <2>2. ASSUME NEW x \in AllRows, lastLevel[x[1]][x[2]] >= l
        PROVE  x \in Gathered(C, Ranks)
    <3>1. x \in Ranks \X (1..MaxRows) /\ x[2] \in LocalRows(x[1]) /\ x = <<x[1], x[2]>>
      BY DEF AllRows
    <3>2. lastLevel[x[1]][x[2]] \in Int
      BY <1>1, <3>1, RowsOfRank, HierarchyAssumption DEF Levels
    <3>3. Reaches(x[1], x[2], l)
      BY <2>2, <3>2 DEF Reaches
    <3>4. x \in C[x[1]]
      BY <3>1, <3>3 DEF Reaching
    <3> QED
      BY <3>1, <3>4 DEF Gathered
  <2> QED
    BY <2>1, <2>2
<1> QED
  BY <1>5, <1>6

(* The reductions of collect_grid_hierarchy match and agree, the hierarchy *)
(* every rank stores is the true one, and an error of one rank throws on   *)
(* all: for any number of ranks, of rows on each, and of levels.           *)
THEOREM HierarchyIsRight == Spec => []HierarchyRight
<1>1. HInv => HierarchyRight
  <2> SUFFICES ASSUME HInv  PROVE HierarchyRight
    OBVIOUS
  <2> USE DEF HInv
  <2>1. ReductionsMatch
    <3> SUFFICES ASSUME NEW q \in Ranks, NEW r \in Ranks, rows[q] # << >>, rows[r] # << >>
                 PROVE  DOMAIN rows[q] = DOMAIN rows[r]
      BY DEF ReductionsMatch
    <3>1. rows[q] = Histogram(q) /\ rows[r] = Histogram(r)
      BY DEF Counts
    <3> QED
      BY <3>1 DEF Histogram
  <2>2. \A r \in Ranks : at[r] # "query" => offered[r].error = IF r \in broken THEN 1 ELSE 0
    <3>1. \A r \in Ranks : Brought(r).error = IF r \in broken THEN 1 ELSE 0
      BY DEF Brought
    <3> QED
      BY <3>1 DEF Offers
  <2>3. \A r \in Ranks : at[r] = "thrown" => broken # {}
    <3> SUFFICES ASSUME NEW r \in Ranks, at[r] = "thrown"  PROVE broken # {}
      OBVIOUS
    <3>1. PICK q \in Ranks : offered[q].error > 0
      BY DEF Thrown, AnyError
    <3>2. at[q] # "query"
      BY AllQueried DEF Thrown
    <3> QED
      BY <2>2, <3>1, <3>2
  <2>4. ASSUME NEW r \in Ranks, at[r] = "returned"
        PROVE  /\ broken = {}
               /\ DOMAIN result[r] =
                    {0} \cup {l \in Levels : \E ri \in AllRows : l <= lastLevel[ri[1]][ri[2]]}
               /\ \A l \in DOMAIN result[r] :
                    result[r][l] = Cardinality({ri \in AllRows : lastLevel[ri[1]][ri[2]] >= l})
    <3>1. (\A q \in Ranks : Counted(q)) /\ result[r] = Sums(r)
      BY <2>4 DEF Results
    <3>2. AllOffered /\ ~AnyError /\ rows[r] = Histogram(r)
      BY <3>1 DEF Counts
    <3>3. \A q \in Ranks : at[q] # "query"
      BY <3>2, AllQueried
    <3>4. broken = {}
      BY <2>2, <3>2, <3>3 DEF AnyError, Shapes
    <3>5. DOMAIN result[r] = 0..NumLevels - 1
      BY <3>1, <3>2 DEF Sums, Histogram
    <3>6. lastLevel \in Last /\ \A q \in Ranks : offered[q] = Brought(q)
      BY <3>3 DEF Shapes, Offers
    <3>7. /\ NumLevels \in Nat \ {0}
          /\ \A l \in Int :
              l \in 0..NumLevels - 1 <=>
                l = 0 \/ (l \in Levels /\ \E q \in Ranks : \E i \in LocalRows(q) : l <= lastLevel[q][i])
      BY <3>6, LevelsReduced
    <3>8. \A l : (\E q \in Ranks : \E i \in LocalRows(q) : l <= lastLevel[q][i])
                 <=> \E ri \in AllRows : l <= lastLevel[ri[1]][ri[2]]
      <4>1. ASSUME NEW l, NEW q \in Ranks, NEW i \in LocalRows(q), l <= lastLevel[q][i]
            PROVE  \E ri \in AllRows : l <= lastLevel[ri[1]][ri[2]]
        <5>1. <<q, i>> \in AllRows
          BY <3>6, RowsOfRank DEF AllRows
        <5> QED
          BY <4>1, <5>1
      <4>2. ASSUME NEW l, NEW ri \in AllRows, l <= lastLevel[ri[1]][ri[2]]
            PROVE  \E q \in Ranks : \E i \in LocalRows(q) : l <= lastLevel[q][i]
        BY <4>2 DEF AllRows
      <4> QED
        BY <4>1, <4>2
    <3>9. 0..NumLevels - 1 =
            {0} \cup {l \in Levels : \E ri \in AllRows : l <= lastLevel[ri[1]][ri[2]]}
      <4>1. Levels \subseteq Int
        BY HierarchyAssumption DEF Levels
      <4>2. \A l \in 0..NumLevels - 1 : l \in Int
        BY <3>7
      <4> DEFINE Some(l) == \E ri \in AllRows : l <= lastLevel[ri[1]][ri[2]]
      <4>3. \A l \in Int : l \in 0..NumLevels - 1 <=> l = 0 \/ (l \in Levels /\ Some(l))
        BY <3>7, <3>8
      <4> DEFINE D == 0..NumLevels - 1
      <4>4. D = {0} \cup {l \in Levels : Some(l)}
        <5>1. \A l \in D : l = 0 \/ (l \in Levels /\ Some(l))
          BY <4>2, <4>3
        <5>2. 0 \in D /\ \A l \in Levels : Some(l) => l \in D
          BY <4>1, <4>3
        <5> HIDE DEF D, Some
        <5> QED
          BY <5>1, <5>2
      <4> QED
        BY <4>4 DEF Some
    <3>10. \A l \in 0..NumLevels - 1 :
            result[r][l] = Cardinality({ri \in AllRows : lastLevel[ri[1]][ri[2]] >= l})
      <4> SUFFICES ASSUME NEW l \in 0..NumLevels - 1
                   PROVE  result[r][l] = Cardinality({ri \in AllRows : lastLevel[ri[1]][ri[2]] >= l})
        OBVIOUS
      <4>1. result[r][l] = SumColumn(rows, l, Ranks)
        BY <3>1, <3>5 DEF Sums
      <4> QED
        BY <3>1, <4>1, SumOfRows
    <3> QED
      BY <3>4, <3>5, <3>9, <3>10
  <2> QED
    BY <2>1, <2>3, <2>4 DEF HierarchyRight
<1> QED
  BY <1>1, Invariance, PTL

-------------------------------------------------------------------------------
(* No deadlock.  Rank r can go on: it has still to ask hypre, or all ranks *)
(* have brought their part to the reduction it is in.                      *)
CanGoOn(r) ==
  \/ at[r] = "query"
  \/ at[r] = "max" /\ AllOffered
  \/ at[r] = "sum" /\ \A q \in Ranks : rows[q] # << >>

NobodyWaitsInVain == Ended \/ \E r \in Ranks : CanGoOn(r)

(* A step takes a rank to its next reduction or out of generate, or leaves *)
(* it where it is, and then as able to go on as it was.                    *)
Advances(r) == << at[r], at'[r] >> \in {<< "query", "max" >>, << "max", "sum" >>,
                                        << "max", "thrown" >>, << "sum", "returned" >>}

Rests(r) == at'[r] = at[r] /\ (CanGoOn(r) => CanGoOn(r)')

NobodyHoldsUp == \A r \in Ranks : Advances(r) \/ Rests(r)

(* A reduction that all ranks have joined stays joined: whoever is still   *)
(* to join it keeps the others from going on.                              *)
LEMMA StepsGoOn == ASSUME HInv, [Next]_vars  PROVE NobodyHoldsUp
<1> USE DEF HInv, Shapes
<1>1. ASSUME NEW s \in Ranks, Query(s)  PROVE NobodyHoldsUp
  <2>1. ~AllOffered
    BY <1>1, AllQueried DEF Query
  <2>2. ASSUME NEW r \in Ranks, r # s  PROVE Rests(r)
    BY <1>1, <2>1, <2>2 DEF Query, Go, Rests, CanGoOn
  <2>3. Advances(s)
    BY <1>1 DEF Query, Go, Advances
  <2> QED
    BY <2>2, <2>3 DEF NobodyHoldsUp
<1>2. ASSUME NEW s \in Ranks, TakeMax(s)  PROVE NobodyHoldsUp
  <2>1. rows[s] = << >>
    BY <1>2 DEF TakeMax, Counts, Counted
  <2>2. AllOffered' = AllOffered
    BY <1>2 DEF TakeMax, AllOffered
  <2>3. ASSUME NEW r \in Ranks, r # s  PROVE Rests(r)
    BY <1>2, <2>1, <2>2, <2>3 DEF TakeMax, Go, Rests, CanGoOn
  <2>4. Advances(s)
    BY <1>2 DEF TakeMax, Go, Advances
  <2> QED
    BY <2>3, <2>4 DEF NobodyHoldsUp
<1>3. ASSUME NEW s \in Ranks, TakeSum(s)  PROVE NobodyHoldsUp
  <2>1. AllOffered' = AllOffered
    BY <1>3 DEF TakeSum, AllOffered
  <2>2. ASSUME NEW r \in Ranks, r # s  PROVE Rests(r)
    BY <1>3, <2>1, <2>2 DEF TakeSum, Go, Rests, CanGoOn
  <2>3. Advances(s)
    BY <1>3 DEF TakeSum, Go, Advances
  <2> QED
    BY <2>2, <2>3 DEF NobodyHoldsUp
<1>4. CASE UNCHANGED vars
  BY <1>4 DEF vars, NobodyHoldsUp, Rests, CanGoOn, AllOffered
<1> QED
  BY <1>1, <1>2, <1>3, <1>4 DEF Next, Step

(* Until every rank has returned or thrown some rank can go on, whichever  *)
(* ranks hypre fails on: none enters the second reduction after another    *)
(* threw.  A rank that can go on can until it does, and every step of one  *)
(* brings it nearer its end.  This is what EveryRankEnds needs besides     *)
(* fairness.                                                               *)
THEOREM NoDeadlock == Spec => []NobodyWaitsInVain /\ [][NobodyHoldsUp]_vars
<1>1. HInv => NobodyWaitsInVain
  <2> SUFFICES ASSUME HInv, ~Ended  PROVE \E r \in Ranks : CanGoOn(r)
    BY DEF NobodyWaitsInVain
  <2> USE DEF HInv
  <2>1. CASE \E r \in Ranks : at[r] = "query"
    BY <2>1 DEF CanGoOn
  <2>2. CASE \A r \in Ranks : at[r] \in {"sum", "returned", "thrown"}
    <3>1. PICK r \in Ranks : at[r] = "sum"
      BY <2>2 DEF Ended
    <3>2. AllOffered /\ ~AnyError
      BY <3>1 DEF Counts, Counted
    <3>3. \A q \in Ranks : Counted(q)
      BY <2>2, <3>2 DEF Thrown, Counted
    <3>4. NumLevels \in Nat \ {0}
      BY <2>2, LevelsReduced DEF Shapes, Offers
    <3>5. \A q \in Ranks : rows[q] # << >>
      <4> SUFFICES ASSUME NEW q \in Ranks  PROVE rows[q] # << >>
        OBVIOUS
      <4>1. DOMAIN rows[q] = 0..NumLevels - 1
        BY <3>3 DEF Counts, Histogram
      <4>2. 0 \in 0..NumLevels - 1 /\ DOMAIN << >> = {}
        BY <3>4
      <4> QED
        BY <4>1, <4>2
    <3> QED
      BY <3>1, <3>5 DEF CanGoOn
  <2>3. CASE \E r \in Ranks : at[r] = "max" /\ \A q \in Ranks : at[q] # "query"
    BY <2>3, AllQueried DEF CanGoOn
  <2> QED
    BY <2>1, <2>2, <2>3 DEF Shapes
<1>2. HInv /\ [Next]_vars => NobodyHoldsUp
  BY StepsGoOn
<1> QED
  BY <1>1, <1>2, Invariance, PTL DEF Spec
===============================================================================
