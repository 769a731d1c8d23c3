----------------------------- MODULE MatrixImport -----------------------------
(***************************************************************************)
(* Distributed matrices on their way into hypre and PETSc: what            *)
(* build_distributed_par_csr and build_distributed_coo make of the blocks  *)
(* each rank holds.  The ranks share nothing between the scan and the end, *)
(* so they take each step together; what one throws alone stays visible in *)
(* thrown.  An entry's value is its own position, <<row, column>>: a value *)
(* stored at the wrong place shows.                                        *)
(***************************************************************************)
EXTENDS Integers, FiniteSets, FiniteSetsExt, SequencesExt

CONSTANTS
  NumRanks,
  Sizes,              \* bound: numbers of global rows
  MaxEntries,         \* bound: entries of a matrix
  IntMaxes,           \* largest values of the library's integers, 2^w - 1
  ColumnsFollowRows,  \* matrices are read without a column partition of their own
  CountsFit           \* the local integers can count what a rank holds

ASSUME ImportAssumption ==
  /\ NumRanks \in Nat \ {0}
  /\ Sizes \subseteq Nat \ {0} /\ IntMaxes \subseteq Nat
  /\ MaxEntries \in Nat /\ {ColumnsFollowRows, CountsFit} \subseteq BOOLEAN

Ranks == 0..NumRanks - 1

VARIABLES
  input,      \* the matrix as Ginkgo was given it, and the library
  stage,      \* how far the import is
  thrown,     \* the ranks an exception stopped
  rowStart,   \* rowStart[r], rowEnd[r]: the global rows of rank r
  rowEnd,
  diag,       \* diag[r], offd[r]: hypre's two blocks
  offd,
  colMap,     \* colMap[r]: the global column of each column of offd[r]
  counts,     \* counts[r]: the rows and the remote columns hypre is told of
  coo         \* coo[r]: PETSc's triplets

vars == <<input, stage, thrown, rowStart, rowEnd, diag, offd, colMap, counts, coo>>

Rows     == 0..input.size - 1
Hypre    == input.library = "hypre"
NoBlock  == [ptr |-> (0 :> 0), col |-> << >>, val |-> << >>, nnz |-> 0]
NoCounts == [rows |-> 0, cols |-> 0]

(* hypre counts globally in HYPRE_BigInt and locally in HYPRE_Int, which   *)
(* may be narrower; PETSc has one PetscInt.                                *)
InputsOfSize(n) ==
  {i \in [library : {"hypre", "petsc"}, size : {n}, intMax : IntMaxes, bigMax : IntMaxes,
          owner : [0..n - 1 -> Ranks], colOwner : [0..n - 1 -> Ranks],
          entries : {E \in SUBSET ((0..n - 1) \X (0..n - 1)) : Cardinality(E) <= MaxEntries}] :
     /\ i.intMax <= i.bigMax /\ (i.library = "petsc" => i.intMax = i.bigMax)
     /\ ColumnsFollowRows => i.colOwner = i.owner
     /\ CountsFit => \A r \in Ranks :
          /\ Cardinality({g \in 0..n - 1 : i.owner[g] = r}) <= i.intMax
          /\ Cardinality({e \in i.entries : i.owner[e[1]] = r}) <= i.intMax}

Init ==
  /\ \E n \in Sizes : input \in InputsOfSize(n)
  /\ stage = "validate" /\ thrown = {}
  /\ rowStart = [r \in Ranks |-> 0] /\ rowEnd = [r \in Ranks |-> 0]
  /\ diag = [r \in Ranks |-> NoBlock] /\ offd = [r \in Ranks |-> NoBlock]
  /\ colMap = [r \in Ranks |-> << >>] /\ coo = [r \in Ranks |-> << >>]
  /\ counts = [r \in Ranks |-> NoCounts]

-------------------------------------------------------------------------------
(* What Ginkgo keeps on rank r: rows and columns are numbered within their *)
(* part, columns of other ranks by owner and global number.                *)

LocalIndex(owner, g) == Cardinality({h \in Rows : h < g /\ owner[h] = owner[g]})
LocalRow(g)  == LocalIndex(input.owner, g)
LocalRows(r) == Cardinality({g \in Rows : input.owner[g] = r})

EntriesOf(r) == {e \in input.entries : input.owner[e[1]] = r}
DiagOf(r)    == {e \in EntriesOf(r) : input.colOwner[e[2]] = r}
OffdOf(r)    == EntriesOf(r) \ DiagOf(r)

(* The members of S in ascending order of their keys, which are pairs.     *)
Less(a, b) == a[1] < b[1] \/ (a[1] = b[1] /\ a[2] < b[2])

Sorted(S, key) ==
  CHOOSE s \in SetToSeqs(S) :
    \A j, k \in 1..Cardinality(S) : j < k => Less(key[s[j]], key[s[k]])

RemoteColumns(r) ==
  LET remote == {e[2] : e \in OffdOf(r)}
  IN  Sorted(remote, [g \in remote |-> <<input.colOwner[g], g>>])

LocalColumn  == [g \in Rows |-> LocalIndex(input.colOwner, g)]
RemoteColumn(r) ==
  [g \in {e[2] : e \in OffdOf(r)} |->
     CHOOSE k \in 0..Len(RemoteColumns(r)) - 1 : RemoteColumns(r)[k + 1] = g]

(* A Csr with the entries E, in ascending columns.                         *)
Csr(r, E, column) ==
  LET sorted == Sorted(E, [e \in E |-> <<LocalRow(e[1]), column[e[2]]>>])
  IN  [ptr |-> [i \in 0..LocalRows(r) |-> Cardinality({e \in E : LocalRow(e[1]) < i})],
       col |-> [k \in 1..Len(sorted) |-> column[sorted[k][2]]],
       val |-> sorted,
       nnz |-> Len(sorted)]

-------------------------------------------------------------------------------
(* to_hypre_big_int and to_petsc_int refuse what does not fit; a           *)
(* static_cast to HYPRE_Int wraps.                                         *)
Fits(v)   == v <= input.bigMax
Narrow(v) == ((v + input.intMax + 1) % (2 * (input.intMax + 1))) - (input.intMax + 1)

(* Variant: any partition is taken.                                        *)
AnyParts == TRUE

(* The parts of the row partition are contiguous and ordered by rank.      *)
OrderedParts == \A g, h \in Rows : g < h => input.owner[g] <= input.owner[h]

(* Variant: the global size is not checked.                                *)
AcceptedUnsized == OrderedParts

(* The same on every rank: nobody has called a collective yet.             *)
Accepted == OrderedParts /\ Fits(input.size)

Validate ==
  /\ stage = "validate"
  /\ stage' = IF Accepted THEN "scan" ELSE "end"
  /\ thrown' = IF Accepted THEN {} ELSE Ranks
  /\ UNCHANGED <<input, rowStart, rowEnd, diag, offd, colMap, counts, coo>>

(* MPI_Scan: the sum of the local row counts up to and with this rank.     *)
ScanRows(r) == MapThenSumSet(LocalRows, 0..r)

Scan ==
  /\ stage = "scan"
  /\ rowEnd' = [r \in Ranks |-> ScanRows(r)]
  /\ rowStart' = [r \in Ranks |-> rowEnd'[r] - LocalRows(r)]
  /\ thrown' = IF Hypre THEN {r \in Ranks : ~Fits(rowStart'[r]) \/ ~Fits(rowEnd'[r])}
                        ELSE {r \in Ranks : ~Fits(LocalRows(r))}
  /\ stage' = IF Hypre THEN "blocks" ELSE "triplets"
  /\ UNCHANGED <<input, diag, offd, colMap, counts, coo>>

(* as_hypre_int on indices of another type than HYPRE_Int, set_block.      *)
AsHypreInt(b) ==
  [ptr |-> [i \in DOMAIN b.ptr |-> Narrow(b.ptr[i])],
   col |-> [k \in DOMAIN b.col |-> Narrow(b.col[k])],
   val |-> b.val,
   nnz |-> Narrow(b.nnz)]

(* The row count the vectors are made with, and the number of remote       *)
(* columns.                                                                *)
Counts(r) == [rows |-> Narrow(LocalRows(r)), cols |-> Narrow(Len(RemoteColumns(r)))]

DiagBlock(r) == AsHypreInt(Csr(r, DiagOf(r), LocalColumn))
OffdBlock(r) == AsHypreInt(Csr(r, OffdOf(r), RemoteColumn(r)))

SetBlocks ==
  /\ stage = "blocks"
  /\ diag' = [r \in Ranks |-> IF r \in thrown THEN NoBlock ELSE DiagBlock(r)]
  /\ offd' = [r \in Ranks |-> IF r \in thrown THEN NoBlock ELSE OffdBlock(r)]
  /\ counts' = [r \in Ranks |-> IF r \in thrown THEN NoCounts ELSE Counts(r)]
  /\ stage' = "reorder"
  /\ UNCHANGED <<input, thrown, rowStart, rowEnd, colMap, coo>>

(* The positions of row i of a block, as a reader of its pointers walks.   *)
RowOf(b, i) == (b.ptr[i] + 1)..b.ptr[i + 1] \cap DOMAIN b.col
BlockRows(b) == DOMAIN b.ptr \ {0}

(* hypre_CSRMatrixReorder: in each row the diagonal changes places with    *)
(* the first entry, the values with the columns.  Permute is where the     *)
(* entry now at position k was.                                            *)
Permute(b, k) ==
  LET row   == CHOOSE i \in BlockRows(b) : k \in RowOf(b, i - 1)
      first == b.ptr[row - 1] + 1
      at    == {j \in RowOf(b, row - 1) : b.col[j] = row - 1}
  IN  CASE at = {}    -> k
        [] k = first  -> CHOOSE j \in at : TRUE
        [] k \in at   -> first
        [] OTHER      -> k

(* Variant: the columns move without their values.                         *)
ReorderedColumns(b) ==
  [b EXCEPT !.col = [k \in DOMAIN b.col |-> b.col[Permute(b, k)]]]

Reordered(b) ==
  LET walked == UNION {RowOf(b, i - 1) : i \in BlockRows(b)}
      From(k) == IF k \in walked THEN Permute(b, k) ELSE k
  IN  [b EXCEPT !.col = [k \in DOMAIN b.col |-> b.col[From(k)]],
                !.val = [k \in DOMAIN b.val |-> b.val[From(k)]]]

ReorderDiagFirst ==
  /\ stage = "reorder"
  /\ diag' = [r \in Ranks |-> Reordered(diag[r])]
  /\ stage' = "colmap"
  /\ UNCHANGED <<input, thrown, rowStart, rowEnd, offd, colMap, counts, coo>>

(* col_map_offd: the global numbers, in the index map's order, as many as  *)
(* were counted.                                                           *)
ColumnMap(r) == SubSeq(RemoteColumns(r), 1, counts[r].cols)

SetColMap ==
  /\ stage = "colmap"
  /\ thrown' = thrown \cup {r \in Ranks : \E k \in DOMAIN ColumnMap(r) : ~Fits(ColumnMap(r)[k])}
  /\ colMap' = [r \in Ranks |-> IF r \in thrown' THEN << >> ELSE ColumnMap(r)]
  /\ stage' = "end"
  /\ UNCHANGED <<input, rowStart, rowEnd, diag, offd, counts, coo>>

(* append_block: row i of the block is global row first + i, and the index *)
(* map gives the global columns of the block's entries.                    *)
Triplets(b, first, global) ==
  LET Row(k) == CHOOSE i \in BlockRows(b) : k \in RowOf(b, i - 1)
  IN  [k \in DOMAIN b.col |-> [row |-> first + Row(k) - 1, col |-> global[b.col[k]],
                               val |-> b.val[k]]]

CooOf(r) ==
  LET columns  == {g \in Rows : input.colOwner[g] = r}
      ofLocal  == [c \in {LocalColumn[g] : g \in columns} |->
                     CHOOSE g \in columns : LocalColumn[g] = c]
      ofRemote == [c \in 0..Len(RemoteColumns(r)) - 1 |-> RemoteColumns(r)[c + 1]]
  IN  Triplets(Csr(r, DiagOf(r), LocalColumn), rowStart[r], ofLocal)
        \o Triplets(Csr(r, OffdOf(r), RemoteColumn(r)), rowStart[r], ofRemote)

AppendBlocks ==
  /\ stage = "triplets"
  /\ coo' = [r \in Ranks |-> IF r \in thrown THEN << >> ELSE CooOf(r)]
  /\ thrown' = thrown \cup {r \in Ranks : \E k \in DOMAIN coo'[r] :
                              ~Fits(coo'[r][k].row) \/ ~Fits(coo'[r][k].col)}
  /\ stage' = "end"
  /\ UNCHANGED <<input, rowStart, rowEnd, diag, offd, colMap, counts>>

Next == Validate \/ Scan \/ SetBlocks \/ ReorderDiagFirst \/ SetColMap \/ AppendBlocks

Spec == Init /\ [][Next]_vars

-------------------------------------------------------------------------------
Imported == stage = "end" /\ thrown = {}
Scanned  == stage \notin {"validate", "scan"} /\ thrown = {}

(* Every rank's rows are counted within the matrix.                        *)
TypeOK ==
  /\ \E n \in Sizes : input \in InputsOfSize(n)
  /\ stage \in {"validate", "scan", "blocks", "reorder", "colmap", "triplets", "end"}
  /\ thrown \subseteq Ranks
  /\ rowStart \in [Ranks -> 0..input.size] /\ rowEnd \in [Ranks -> 0..input.size]

(* The ranks' row ranges tile the matrix in rank order, ranks without rows *)
(* included (hypre derives every rank's share of the vectors from them).   *)
RangesTile ==
  Scanned => /\ rowStart[0] = 0 /\ rowEnd[NumRanks - 1] = input.size
             /\ \A r \in Ranks \ {0} : rowStart[r] = rowEnd[r - 1]

(* A matrix the library cannot take is refused on every rank or on none,   *)
(* so that no rank waits for a collective the others never call.           *)
RefusedByAllOrNone == thrown \in {{}, Ranks}

(* hypre reads the first entry of a row of the diagonal block as its       *)
(* diagonal: wherever one is stored it comes first.                        *)
DiagonalLeads ==
  Imported /\ Hypre =>
    \A r \in Ranks : \A i \in BlockRows(diag[r]) :
      \A k \in RowOf(diag[r], i - 1) :
        diag[r].col[k] = i - 1 => k = diag[r].ptr[i - 1] + 1

(* hypre requires the columns of the off-diagonal block in ascending       *)
(* global order, which the index map's order by owner gives for ordered    *)
(* parts only.                                                             *)
ColMapAscends ==
  Imported => \A r \in Ranks : \A j, k \in DOMAIN colMap[r] :
                j < k => colMap[r][j] < colMap[r][k]

(* What hypre reads back from its two blocks on rank r.                    *)
ReadBack(r) ==
  (UNION {{<<rowStart[r] + i - 1, rowStart[r] + diag[r].col[k], diag[r].val[k]>> :
             k \in RowOf(diag[r], i - 1)} : i \in BlockRows(diag[r])})
  \cup
  (UNION {{<<rowStart[r] + i - 1, colMap[r][offd[r].col[k] + 1], offd[r].val[k]>> :
             k \in RowOf(offd[r], i - 1)} : i \in BlockRows(offd[r])})

(* The matrix hypre holds is the one Ginkgo was given: every entry is at   *)
(* its global row and column, on the rank that owns the row, once, with    *)
(* its value, after the narrowing, the permutation and the renumbering; it *)
(* has the form hypre requires, and the counts beside it are its own.      *)
HypreMatrixRight ==
  /\ RangesTile /\ DiagonalLeads /\ ColMapAscends
  /\ Imported /\ Hypre =>
       \A r \in Ranks :
         /\ ReadBack(r) = {<<e[1], e[2], e>> : e \in EntriesOf(r)}
         /\ diag[r].nnz + offd[r].nnz = Cardinality(EntriesOf(r))
         /\ counts[r] = [rows |-> rowEnd[r] - rowStart[r], cols |-> Len(colMap[r])]

(* The triplets PETSc assembles are the entries, each exactly once.        *)
PetscMatrixRight ==
  Imported /\ ~Hypre =>
    \A r \in Ranks :
      /\ {coo[r][k] : k \in DOMAIN coo[r]} =
           {[row |-> e[1], col |-> e[2], val |-> e] : e \in EntriesOf(r)}
      /\ Len(coo[r]) = Cardinality(EntriesOf(r))
===============================================================================
