---------------------------- MODULE GridHierarchy ----------------------------
(***************************************************************************)
(* How the ranks of a Pcg generate count BoomerAMG's levels and the rows   *)
(* of each (pcg.hpp): every rank asks hypre for the last level each of its *)
(* rows reaches, and two reductions turn the answers into one hierarchy,   *)
(* or into one error, on all of them.                                      *)
(***************************************************************************)
EXTENDS Integers, FiniteSets, FiniteSetsExt

CONSTANTS
  NumRanks,
  MaxRows,      \* bound: rows of one rank
  MaxLevel      \* bound: last level of a row

ASSUME HierarchyAssumption ==
  NumRanks \in Nat \ {0} /\ MaxRows \in Nat /\ MaxLevel \in Nat

Ranks  == 0..NumRanks - 1
Levels == 0..MaxLevel

VARIABLES
  broken,       \* the ranks hypre itself failed on
  lastLevel,    \* lastLevel[r][i]: what hypre knows of row i of rank r
  at,           \* at[r]: query, max, sum, returned or thrown
  offered,      \* offered[r]: what r brings to the MPI_MAX reduction
  rows,         \* rows[r]: what r brings to the MPI_SUM reduction
  result        \* result[r]: rows_per_level as r stores it

vars == <<broken, lastLevel, at, offered, rows, result>>

Nothing == [error |-> 0, levels |-> 0]

LocalRows(r) == DOMAIN lastLevel[r]

Init ==
  /\ lastLevel \in [Ranks -> UNION {[1..n -> Levels] : n \in 0..MaxRows}]
  /\ broken = {} /\ at = [r \in Ranks |-> "query"]
  /\ offered = [r \in Ranks |-> Nothing]
  /\ rows = [r \in Ranks |-> << >>] /\ result = [r \in Ranks |-> << >>]

Go(r, to) == at' = [at EXCEPT ![r] = to]

-------------------------------------------------------------------------------
(* An empty vector's data() may be null, so the array never is empty.      *)
ArraySize(r) == Max({1, Cardinality(LocalRows(r))})

(* HYPRE_BoomerAMGGetGridHierarchy: it rejects a null array and may fail   *)
(* on this rank alone for reasons of its own.                              *)
GetGridHierarchy(r, breaks) == IF breaks \/ ArraySize(r) = 0 THEN 1 ELSE 0

Breaks(r, b) == broken' = IF b THEN broken \cup {r} ELSE broken

LocalLevels(r) == Max({0} \cup {lastLevel[r][i] : i \in LocalRows(r)}) + 1

(* Variant: a rank throws on its own error, before the reduction.          *)
QueryOrThrow(r) ==
  /\ at[r] = "query"
  /\ \E b \in BOOLEAN :
       /\ Breaks(r, b)
       /\ IF GetGridHierarchy(r, b) # 0 THEN Go(r, "thrown") /\ offered' = offered
          ELSE /\ offered' = [offered EXCEPT ![r] = [error |-> 0, levels |-> LocalLevels(r)]]
               /\ Go(r, "max")
  /\ UNCHANGED <<lastLevel, rows, result>>

(* The error is carried into the reduction instead of thrown.              *)
Query(r) ==
  /\ at[r] = "query"
  /\ \E b \in BOOLEAN :
       /\ Breaks(r, b)
       /\ offered' = [offered EXCEPT ![r] = [error |-> GetGridHierarchy(r, b),
                                             levels |-> LocalLevels(r)]]
  /\ Go(r, "max")
  /\ UNCHANGED <<lastLevel, rows, result>>

(* A reduction ends on a rank once every rank has brought its part.        *)
AllOffered == \A q \in Ranks : offered[q] # Nothing
AnyError   == \E q \in Ranks : offered[q].error > 0
NumLevels  == Max({offered[q].levels : q \in Ranks})

Reaches(r, i, l) == l <= lastLevel[r][i]

RowsReaching(r, l) == Cardinality({i \in LocalRows(r) : Reaches(r, i, l)})

(* Variant: the histogram is as long as the rank's own rows need.          *)
HistogramLocal(r) == [l \in 0..LocalLevels(r) - 1 |-> RowsReaching(r, l)]

Histogram(r) == [l \in 0..NumLevels - 1 |-> RowsReaching(r, l)]

(* The reduced error throws on every rank; otherwise the rank counts.      *)
TakeMax(r) ==
  /\ at[r] = "max" /\ AllOffered
  /\ IF AnyError THEN Go(r, "thrown") /\ rows' = rows
     ELSE Go(r, "sum") /\ rows' = [rows EXCEPT ![r] = Histogram(r)]
  /\ UNCHANGED <<broken, lastLevel, offered, result>>

TakeSum(r) ==
  /\ at[r] = "sum" /\ \A q \in Ranks : rows[q] # << >>
  /\ result' = [result EXCEPT ![r] =
       [l \in DOMAIN rows[r] |-> MapThenSumSet(LAMBDA q : rows[q][l], Ranks)]]
  /\ Go(r, "returned")
  /\ UNCHANGED <<broken, lastLevel, offered, rows>>

Ended == \A r \in Ranks : at[r] \in {"returned", "thrown"}

Step(r) == Query(r) \/ TakeMax(r) \/ TakeSum(r)

Next == \E r \in Ranks : Step(r)

(* The ranks are processes of their own and run on.                        *)
Spec == Init /\ [][Next]_vars /\ \A r \in Ranks : WF_vars(Step(r))

-------------------------------------------------------------------------------
(* Types; a hierarchy has a finest level even where a rank has no rows.    *)
TypeOK ==
  /\ broken \subseteq Ranks
  /\ lastLevel \in [Ranks -> UNION {[1..n -> Levels] : n \in 0..MaxRows}]
  /\ at \in [Ranks -> {"query", "max", "sum", "returned", "thrown"}]
  /\ \A r \in Ranks : offered[r] # Nothing =>
       offered[r].error \in {0, 1} /\ offered[r].levels >= 1
  /\ \A r \in Ranks : at[r] \in {"sum", "returned"} => DOMAIN rows[r] # {}

(* Both reductions have the same length on all ranks, as MPI requires.     *)
ReductionsMatch ==
  \A q, r \in Ranks : rows[q] # << >> /\ rows[r] # << >> => DOMAIN rows[q] = DOMAIN rows[r]

AllRows == {ri \in Ranks \X (1..MaxRows) : ri[2] \in LocalRows(ri[1])}

(* Whatever levels a rank's own rows reach, the reductions match; ranks    *)
(* that return store the same hierarchy, and it is the true one: as many   *)
(* levels as any row reaches, on each the rows that reach it.  An error    *)
(* hypre meets on one rank throws on all, and nothing else does: a rank    *)
(* without rows is no error.                                               *)
HierarchyRight ==
  /\ ReductionsMatch
  /\ \A r \in Ranks : at[r] = "thrown" => broken # {}
  /\ \A r \in Ranks : at[r] = "returned" =>
       /\ broken = {}
       /\ DOMAIN result[r] =
            {0} \cup {l \in Levels : \E ri \in AllRows : l <= lastLevel[ri[1]][ri[2]]}
       /\ \A l \in DOMAIN result[r] :
            result[r][l] = Cardinality({ri \in AllRows : lastLevel[ri[1]][ri[2]] >= l})

(* No rank waits for ever in a reduction another one never joins: a        *)
(* rank-local throw cannot strand the others (pcg.hpp).                    *)
EveryRankEnds == <>Ended
===============================================================================
