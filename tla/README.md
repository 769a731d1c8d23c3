# Formal models of the third-party benchmark wrappers

The repository wraps linear solvers and SpGEMM kernels of other libraries
behind Ginkgo's interfaces, so that they can be benchmarked next to Ginkgo's
own: hypre's BoomerAMG-preconditioned CG (`hypre/`, `solver::Pcg`), PETSc's KSP
(`petsc/`, `solver::Ksp`) and four SpGEMM kernels (`spgemm/`). This directory
holds TLA+ models of the wrappers, the TLC configurations that check them, and
TLAPS proofs of nearly all the safety properties the configurations check.

Paths below are relative to the repository; `hypre/...hpp` stands for
`hypre/include/gko_tpl/hypre/...hpp`, `petsc/...hpp` likewise.

## Inventory

| Part | State | Operations | What is hard |
|---|---|---|---|
| `solver::Pcg`, distributed (`hypre/pcg.hpp`, `detail/import.hpp`, `detail/vectors.hpp`, `detail/timing.hpp`) | per solver: hypre matrix, AMG, PCG, two placed vectors, hierarchy, diagnostics; shared by copies | `generate`: import, configure, setup, hierarchy; `apply` | The constructor goes through nine collectives, `apply` through two. Whatever a rank decides alone between two of them can leave the other ranks waiting, or hand a solver to some ranks only |
| Process policy (`detail/policy.hpp`) | `active_memory_location()`, one per process; hypre's own memory location | `set_process_policy`, called by every object-creating function | The first solver decides for all later ones, serial ones included; each process has its own copy; it outlives hypre |
| hypre errors (`detail/error.hpp`) | hypre's global, sticky error flag | `GKO_TPL_ASSERT_NO_HYPRE_ERRORS`, `HYPRE_ClearError` | A flag left set surfaces in an unrelated call |
| `hypre::environment` | whether it owns hypre | constructor, destructor | Nesting, an application that initializes hypre itself, MPI finalized first, an initialization that fails |
| Object lifetime (`~state`, `~par_csr`, `~placed_vector`, copies, moves) | handles sharing a state | copy, move, assignment, destruction | Shared and moved states; libraries finalized before the last destructor; constructors that throw half-way |
| Matrix import, numerically (`detail/import.hpp`) | aliased and copied arrays | index conversion, row ranges, diagonal-first reorder, column map | narrowing casts, empty ranks |
| Option tables, config parsing (`detail/options.hpp`, `Pcg::parse`) | constant tables | name lookup, device check | relaxation types without a device version |
| `solver::Ksp`, distributed (`petsc/ksp.hpp`, `detail/import.hpp`, `detail/timing.hpp`) | per solver: Mat, KSP, two Vecs, diagnostics | `generate`, `apply` | as for Pcg |
| Instance prefixes (`petsc/detail/options.hpp`) | `next_instance_id`; PETSc's options database, per process, never cleared | prefix and insert options, `KSPSetFromOptions` | instances of one process must not read each other's options |
| PETSc vectors (`petsc/detail/vectors.hpp`) | array placed in a Vec | place, reset, stage through the host | a solve that throws while foreign arrays are placed |
| PETSc environment | whether it owns PETSc | constructor, destructor | as for hypre |
| SpGEMM wrappers (`spgemm/`) | arrays handed to kernels, Kokkos' initialization | two-phase or fused multiply per library | ownership of the result's arrays, exception paths, initialization of Kokkos |
| Device smoke tool (`hypre/tools/device_smoke.cpp`) | a repetition's outcome, the overall status | parse, create the executor, generate, apply, verify, exit | every rank must return the same status, and none may leave the repetitions before the others |
| Build system, tests | | | not modelled |

The parts interact by calls within a process, and by MPI collectives between
the processes of a communicator. There are no threads and no messages of the
wrappers' own: what interleaves is the ranks, and on each rank the sequence of
calls an application makes.

What makes the parts correct:

- the collective calls: all ranks see the same outcome, nobody waits for a rank
  that has left, no solver is handed to only some of the ranks, timed phases do
  not overlap, nobody solves with operands another rank has rejected;
- the policy: one memory location per process, in hypre itself too, and
  conflicts reported by all ranks or none;
- errors: a call reports its own failures and only those;
- lifetime: hypre is up while somebody's scope needs it; shared objects live as
  long as a copy; nothing leaks; nothing is freed through a finalized library;
- memory: every block is released once, by the allocator it came from, on every
  path out of a constructor; no library reads an array that is gone;
- the import: the library holds the matrix Ginkgo was given, or all ranks refuse it;
- prefixes: every KSP is configured with its own options;
- results: an apply that returns has solved for its own operands, and a `Ksp`'s
  diagnostics describe one solve;
- the driver: a wrong solution in any repetition on any rank gives a nonzero
  status on every rank.

`PROJECT.json` lists the hazards with their lines and the properties that
cover them.

## Modules

| Module | Models | Kind |
|---|---|---|
| `SpmdCalls` | sequences of collective calls by the ranks of a communicator, and what MPI does | shared base |
| `UniformCalls` | what the collective calls promise the application | abstract specification |
| `PcgSpmd` | `solver::Pcg` on a distributed matrix, all ranks | detailed model |
| `KspSpmd` | `solver::Ksp` on a distributed matrix, all ranks | detailed model |
| `GridHierarchy` | the two reductions at the end of Pcg's generate, with their data | detailed model |
| `MatrixImport` | both distributed imports, numerically | detailed model |
| `HypreRuntime` | hypre's state in one process and the objects behind the solvers | detailed model |
| `PcgMemory` | the arrays and objects of one Pcg, call by call | detailed model |
| `PetscRuntime` | PETSc's state in one process and the objects behind the solvers | detailed model |
| `KspVectors` | arrays placed in PETSc's vectors, staging, applies that throw | detailed model |
| `PetscProcess` | `PetscRuntime` and `KspVectors` together | composition |
| `SpGemm` | the four SpGEMM wrappers | detailed model |
| `DeviceSmoke` | the driver `device_smoke` on all ranks | detailed model |
| `MCPcgSpmd`, `MCKspSpmd`, `MCGridHierarchy`, `MCMatrixImport`, `MCHypreRuntime`, `MCPcgMemory`, `MCPetscProcess`, `MCSpGemm`, `MCDeviceSmoke` | instances for TLC | model checking |
| `PcgInvariants` | inductive invariants of `PcgSpmd` | proof support |
| `PcgSpmdProofs` | theorems about `PcgSpmd`, whatever fails, and when the ranks can agree | proofs |
| `KspSpmdProofs` | theorems about `KspSpmd`, whatever fails, and when no rank fails alone | proofs |
| `HypreRuntimeProofs`, `PetscRuntimeProofs` | theorems about one process, and about applies within it | proofs |
| `PcgMemoryProofs` | theorems about the ownership of arrays | proofs |
| `BenchmarkProofs` | theorems about the SpGEMM wrappers and about `device_smoke` | proofs |
| `MatrixImportProofs`, `GridHierarchyProofs` | theorems about the imported matrix and the reduced hierarchy | proofs |

### SpmdCalls

Every rank makes the same calls in the same order. `cur[r]` is the call rank
`r` is in, `reached[k][r]` the number of the last collective of call `k` it
entered, `outcome[k][r]` how call `k` ended there. An action of a solver module
is the code between two collectives: it is enabled when the last collective
entered lets the rank go (`Released`), and it ends by entering the next one
(`Enter`) or leaving the call (`End`), normally or by an exception.

MPI is external. A collective lets a rank go when all ranks it needs have
entered it: the ranks below it for `MPI_Scan`, the halo neighbours for hypre's
communication package, every rank for barriers, reductions, setup and solve. An
implementation may synchronize more; the model takes the least that the data
flow demands, which allows more interleavings. A rank that left a call early and
goes on to the next one does not complete the collective its peers are in: for
MPI this is erroneous, and the model lets the peers wait for ever.

### PcgSpmd

A program is an arbitrary sequence of `MaxOps` requests: `generate` with an
executor kind, a matrix and options, or `apply` with a number of columns. What is
kept of matrices, options and operands is what the rejections of the code tell
apart.

| Collective | Code | Action that leaves it |
|---|---|---|
| (entry) | `Pcg::Pcg` up to the dispatch, `build_distributed_par_csr` up to the scan | `GenerateEntry` |
| `Scan` | `MPI_Scan` of the row counts | `ImportBlocks` |
| `CommPkg` | `hypre_MatvecCommPkgCreate` | `Configure` |
| `VectorB`, `VectorX` | `HYPRE_IJVectorAssemble` (2.33 and newer) | `PlaceB`, `PlaceX` |
| `ImportBarrier` | `end_of_phase` | `StartSetup` |
| `Setup` | `HYPRE_ParCSRPCGSetup` | `FinishSetup` |
| `SetupBarrier` | `end_of_phase` | `QueryHierarchy` |
| `Levels` | `MPI_Allreduce` of error code and levels | `ReduceLevels` |
| `Rows` | `MPI_Allreduce` of the row counts | `ReduceRows` |
| (entry of apply) | `apply_impl` up to the reduction | `ApplyEntry` |
| `Flags` | `MPI_Allreduce` of the rejections | `RejectOrSolve` |
| `Solve` | `HYPRE_ParCSRPCGSolve` | `FinishSolve` |

The constructor sets the policy twice, once itself and once in the import, with
the same argument and nothing in between but checks; `GenerateEntry` does it
once. `active[r]` is the process's policy. `SerialGenerate` is a solver one rank
makes on its own between collective calls, of which only the effect on the
policy is kept. `hierErr` and `flags` are the values that go into the two
reductions that carry errors.

Failures of a single rank are the constant `LocalFaults`: a hypre error in any
step, also in the two calls that install the policy (`InstallMayFail`), an error
MPI returns to one rank from the wrapper's own collectives (`CollectiveFails`), a
callback that throws, a device synchronization, an allocation at the end of
generate. The failure of the hierarchy query is among them, and is the one the
code reduces over the ranks. `AllOrNothing` holds whatever fails up to the last
reduction. In that reduction, and in the allocations after it, a rank may still
fail by itself (`hypre/pcg.hpp:485-491`) while the others return; the property
says that nothing else can be the reason.

The advanced `apply` calls the plain one on a clone and then scales; it has no
collectives of its own and is not distinguished from it. The module assumes that
hypre is initialized (`HypreRuntime` says when it is) and 2.32 or newer, the
versions the wrapper supports; an older one compiles without the hierarchy query
and its two reductions.

### KspSpmd

The same structure with PETSc's collectives: scan, `MatSetPreallocationCOO`, the
import barrier, `KSPSetUp`, the setup barrier. The last of them is where a rank
can still fail on its own (`petsc/detail/timing.hpp:39`). `nextId`, `database` and
`instances` are the process-wide prefix counter, PETSc's options database, and
what each KSP was asked to be and was configured with.

### UniformCalls

For each call the set of ranks that have started to communicate, and its result
per rank. Either every rank turns the call down before communicating, or every
rank joins; a result is the same for all; "ok" needs everybody to have joined.
`PcgSpmd` and `KspSpmd` implement it under the mapping `joined = {ranks with
reached > 0}`, `result = outcome`.

### HypreRuntime

One process: MPI and hypre going up and down (`hypre::environment`, nested, or
the application on its own), the remembered policy (`active`) next to the
location hypre is really at (`location`), the sticky error flag, whether a failed
`HYPRE_Initialize` left hypre up for nobody to finalize (`abandoned`), and for each
`Pcg::state` which of its hypre objects (solvers, vectors, matrix) exist.
Handles are the application's `Pcg` objects: generated, copied, moved, assigned
over each other, destroyed, in any order. `SolversFreed`, `MatrixFreed` and
`VectorsFreed` are the conditions the three destructors test. A generate that
throws leaves no objects; the unwinding itself is in `PcgMemory`. Destroying a
solver late is allowed although the documentation forbids it, because the
destructors are written to survive it; using a solver of an earlier
initialization is not. Destructors and callbacks are assumed to leave no error
behind in hypre's flag.

### PcgMemory

One `solver::Pcg` from the first line of its constructor to the last
destructor; hypre is up. `setting` is what decides who allocates what: a serial
or a distributed matrix, index arrays that need converting or not, hypre before
or from 2.33, host or device, and whether the global size fits hypre's integers.
An action is one call that can fail or that allocates, releases or re-points
something; `Throw` sends the constructor to the unwinding, which runs through
the same actions as the destruction of a finished solver:

| Actions | Code |
|---|---|
| `CheckSize` ... `FinishMatrix` | `build_serial_par_csr`, `build_distributed_par_csr`: `set_block`, `hypre_ParCSRMatrixInitialize_v2`, `hypre_CSRMatrixSetRownnz`, `reorder_diag_first`, the column map |
| `CreateAmg`, `CreatePcg`, `AllocArrays`, `CreateVector`, `PlaceVector`, `Setup`, `KeepVectors`, `QueryHierarchy` | `Pcg::Pcg`, `placed_vector`'s constructor with its catch |
| `StartApply`, `SetValues`, `Solve`, `Report` | `apply_impl`, `set_values` |
| `FreeOperands`, `LetMatrixGo` | the application between applies |
| `FreeLocals`, `FreeSolvers`, `FreeMembers`, `FreeArrays`, `FreeMatrix`, `FreeCopies` | the locals of the constructor, the body of `~state`, its members in reverse order, `~par_csr` |

`alive` are the blocks allocated, `ptr` what each slot of hypre's matrix points
at, `target` what each vector points at, `level0` whether BoomerAMG still holds
the arrays it was set up with. `marks` and `permuted` follow the rearrangement of
the diagonal block: on the host `ReorderDiag` moves the diagonals only if
`SetRownnz` has run before, and `DiagonalFirst` says that BoomerAMG never gets a
block without, and never the caller's own rearranged. `Free(B, who)` notes in `misfreed` what was gone
already or belongs to another allocator.

### MatrixImport

`build_distributed_par_csr` (hypre) and `build_distributed_coo` (PETSc) with
their data: `Validate`, `Scan`, then `SetBlocks`, `ReorderDiagFirst` and
`SetColMap`, or `AppendBlocks`. Between the scan and the end the ranks share
nothing, so each action is the step of all of them. An entry's value is its own
position, so that a value that ends up at the wrong place shows. `Narrow` is a
`static_cast` to `HYPRE_Int`, with its wrap-around; `Fits` the checked conversions,
to `HYPRE_BigInt` or `PetscInt`. A mixed-integer hypre has a narrower `HYPRE_Int`
(`intMax`) than `HYPRE_BigInt` (`bigMax`). `counts` are the numbers of local rows
and remote columns hypre is told of, narrowed too. `ReadBack` is the matrix as hypre reads it from its two
blocks, row range and column map.

`Sorted` is the order in which Ginkgo keeps the entries of a `Csr` and the
columns of an index map; it is a definition by `CHOOSE`, not an algorithm,
because Ginkgo is outside the repository and only the order matters here.

### GridHierarchy

The end of Pcg's generate, which in `PcgSpmd` is two collectives and an error
bit, with its data: what hypre says of each row (`lastLevel`), the reduction
of error and level count (`Query`, `TakeMax`), and the reduction of the
histograms (`TakeSum`). Ranks without rows bring an array of one element, as the
code does, because hypre rejects a null one.

### PetscRuntime

`petsc::environment`, the application's own `PetscInitialize` and
`PetscFinalize`, MPI's end, and the three PETSc objects of each `Ksp::state`:
generated in full, generated up to an exception, copied, moved, destroyed when
the last handle goes. `EnvironmentFails` is an environment whose
`PetscInitialize` fails and leaves PETSc up. `calls` records a call made while PETSc or MPI is down.
PETSc has no process policy and no sticky errors. It is brought up once.

### KspVectors and PetscProcess

`KspVectors` is `Ksp::apply_impl` with `solve_with_arrays` and `placed_array`:
both operands are copied to the host where PETSc has no CUDA (`CopyIn`,
`CopyOut`), placed in the vectors (`PlaceArray`, whose guards are the
`placed_array` objects), solved, and reset when the guards go, on the normal way
out and while an exception unwinds (`DestroyGuard`). A guard ignores what
PETSc's reset returns: a reset that fails leaves the array in the vector, which
is then in `stuck`. PETSc refuses a second array in a vector, so a missed reset
shows at the next apply. The advanced
apply solves into a clone of x and then scales and adds (`Combine`); that may
fail too.

`PetscProcess` is the process of both: a process has one thread, so the
application and the environments move between applies (`Outside`), and an apply
runs on a state somebody holds while PETSc and MPI are up (`Inside`).

### SpGemm

One wrapper of one of four kinds and up to `MaxApplies` products. AC-SpGEMM and
spECK put Ginkgo's arrays into `dCSR` objects that free what they point at
when they go out of scope; the wrappers null the pointers at the end
(`Release`). nsparse and Kokkos work in two phases on Ginkgo's arrays. Any step
of any of them may throw (`Unwind`, noted in `unwound`); what a thrown AC-SpGEMM
or spECK product frees of the application's is `Lost`, and products after one are
not followed, since they would read released memory. The kernels are git submodules, whose sources are not part of the repository; they
are modelled from how the wrappers use them.

### DeviceSmoke

`main` of `device_smoke.cpp` on every rank: arguments, executor, then per
repetition generate, apply and verification, and the exit status. A call ends on
all ranks when all have joined it (`PcgSpmd` has what happens within); one rank
may fail alone at one place, and then returns 1. A NaN in hypre's solution makes
the difference to Ginkgo's vanish, since `std::max` ignores it; the residual
catches it.

Operators marked "Variant" in their comments are mistakes one could make in the
code. They are used by no specification and serve to test that each property can
fail.

## Runs

| Run | Instance | Shows |
|---|---|---|
| `pcg_uniform` | 3 ranks, 2 calls of 8 kinds, hypre < 2.33, only the hierarchy query may fail alone | types; agreement of all ranks; nobody stranded; conflicts uniform; one location; no solve with rejected operands; every call returns; refinement of `UniformCalls` |
| `pcg_faults` | 3 ranks, 2 calls, every fault, hypre >= 2.33, serial host solvers | generate is all or nothing up to its last reduction; phases separated |
| `pcg_policy_divergence` | 2 ranks, 1 call, a serial solver on the other executor kind | the finding below |
| `pcg_hierarchy` | 3 ranks, up to 2 rows each, levels 0 and 1 | one true hierarchy or one error; every rank ends |
| `pcg_memory` | every setting, every place to fail, 3 applies | blocks freed once and by their owner; none left; nothing gone is read; diagonals first; solves use their own operands |
| `hypre_process` | GPU build, 3 handles, 2 states, 3 nested scopes, 2 initializations | hypre up exactly in scopes, or for nobody after a failed initialization; shared objects live; objects where they were asked for; own failures only; no leak; nothing freed late |
| `import_matrix` | 3 ranks, every matrix and partition of 2 or 3 rows with up to 4 entries, hypre's two integers of one width or of two | refused by all or none; the same matrix in hypre and in PETSc |
| `ksp_uniform` | 3 ranks, 2 calls of 8 kinds, serial solvers, no faults | every call returns; refinement of `UniformCalls` |
| `ksp_faults` | 3 ranks, 2 calls, every fault, serial solvers | own options; all or nothing up to the last barrier |
| `petsc_process` | 3 handles, 2 states, 3 scopes, 2 applies of one state, every setting | no late call; shared objects live; no leak; nothing stays placed but what PETSc fails to reset; results right |
| `spgemm` | every wrapper, 3 products, any step of which may throw | the application's matrices are lost by thrown AC-SpGEMM and spECK products only, and exactly those in their `dCSR`s; no leak; the product is whole |
| `smoke` | 3 ranks, up to 3 repetitions, one rank may fail alone | status right on all ranks; every rank exits |

The type invariants that are not listed in a run (those of `KspSpmd`,
`HypreRuntime` and `PetscRuntime` are proved) hold in the same instances: name
`TypeOK` as an INVARIANT to see it.

### Bounds

- Three ranks give a first, a middle and a last one in the prefix scan and in the
  halo chain, so that a rank may be two collectives ahead of another; two ranks
  are enough for a disagreement. In the import, the middle rank may have no rows.
- Two calls let one rank be in the next call while another is still in this one,
  and let an apply use the solver of a generate. That a policy set by one call,
  kept by a rejected one and met by a third does no harm is covered by the
  theorems, which hold for programs of any length.
- The requests contain every reason to reject and every way to succeed; in
  the runs with faults only successful ones, since there everything may fail anyway.
- Three handles and two states: two handles sharing a state while a third has
  another, and an assignment over each.
- Two initializations of hypre: up, down, and up again. Three scopes: an owner
  and two nested guests. `PlacedWhereAsked` speaks of the first initialization
  only; see the first observation below.
- `MaxSerial` KSPs per process, two in `ksp_uniform` and one in `ksp_faults`, bounds
  the serial solvers, not the distributed ones: prefixes of both kinds mix in
  both orders.
- `IJInterface` is the collective assembly of the vectors, which hypre has from
  2.33 on: one run has it, with every fault, the other has not.
- Three applies of a `Pcg`: one that succeeds, one that throws, one after it.
  Two suffice for a `Ksp`, whose first may leave an array placed.
- `IntMaxes = {2, 7}`: a width that holds every size and one that does not hold
  the larger, and the pair of a mixed-integer hypre. Up to four entries give a row with a diagonal that is not first, and
  remote columns of two owners.
- `ColumnsFollowRows` and `CountsFit` are assumptions about the input that
  the code does not check. With `ColumnsFollowRows = FALSE` TLC finds a matrix
  hypre gets wrong (a column partition other than the row partition,
  `hypre/detail/import.hpp:375`); with `CountsFit = FALSE` one with a rank whose
  rows or nonzeros do not fit `HYPRE_Int`, so that a count wraps. The other two
  properties hold without either.
- Two rows per rank and two levels let ranks differ in the number of levels
  they see, and let a rank have none. Three repetitions let a failed one be the
  first, in the middle or the last.

Deadlock is checked where the system may not stop: in `pcg_uniform` and
`ksp_uniform`, where a rank stuck in a collective is an error. `CHECK_DEADLOCK
FALSE` is set for the runs with arbitrary faults, where the code does leave ranks
waiting, and for those whose subject comes to an end: one import, one solver, one
program, a bounded number of initializations.

### Fairness

- `PcgSpmd` and `KspSpmd`: `FairSpec` assumes weak fairness of each rank's
  `Step` and no more: a rank is a process that the operating system runs,
  and a collective that all its peers have entered returns. Serial solvers are not
  fair; an application need not make any.
- `GridHierarchy`: the same, per rank.
- `DeviceSmoke`: weak fairness of each rank on its own (`Alone(r)`) and of the
  calls all ranks have joined (`Together`). `EveryRankExits` excepts the runs in
  which a rank fails alone: the others then wait, see below.

The other modules are about one process at the application's will, or about a
straight line of steps, and state no liveness.

## Proofs

The theorems hold for every number of ranks and calls, all requests, any halo,
both builds, any number of handles, states, scopes and initializations, any
number of applies and products, and every matrix, partition and integer width:

| Module | Theorem | States | Assumes |
|---|---|---|---|
| `PcgSpmdProofs` | `TypeCorrect`, `GenerateAllOrNothing`, `PhasesApart`, `LocationIsOne` | `TypeOK`, `AllOrNothing`, `PhasesSeparated`, `OneLocation` | constants as declared; any `LocalFaults`, any `SerialLocs` |
| | `UniformInvariant`, `RanksAgree`, `NobodyStranded`, `ConflictsUniform`, `SolvesUsable` | `UniformInv`, `UniformOutcome`, `NoRankStranded`, `PolicyConflictUniform`, `SolveOnlyUsable` | `Agreement` |
| | `Refines` | `Spec => ImplementsUniform` | `Agreement` |
| `KspSpmdProofs` | `Invariance`, `TypeCorrect`, `OptionsAreOwn`, `GenerateAllOrNothing`, `PhasesApart`, `SolvesUsable` | `SafeInv` and its conjuncts `TypeOK`, `OwnOptions`, `AllOrNothing`, `PhasesSeparated`, `SolveOnlyUsable` | constants as declared; any `LocalFaults`, any serial solvers |
| | `UniformInvariant`, `RanksAgree`, `NobodyStranded`, `Refines` | `UniformInv`, `UniformOutcome`, `NoRankStranded`, `ImplementsUniform` | `NoRankFailsAlone` |
| | `NoDeadlock` | some rank can go on, and every step is progress | `NoRankFailsAlone` |
| `HypreRuntimeProofs` | `Invariance`, `TypeCorrect`, `HypreUpInScopes`, `SharedStayAlive`, `ObjectsPlaced`, `FailuresAreOwn`, `NothingIsLeaked`, `NothingFreedLate` | `Inv`, `TypeOK`, `UpInScopes`, `SharedObjectsAlive`, `PlacedWhereAsked`, `OwnFailuresOnly`, `NothingLeaks`, `NoFreeAfterFinalize` | constants as declared |
| `PcgMemoryProofs` | `Invariance`, `TypeCorrect`, `FreedByOwnerHolds`, `NothingLeftHolds`, `ReadableHolds`, `DiagonalFirstHolds`, `OwnOperandsHolds` | `Inv`, `TypeOK`, `FreedByOwner`, `NothingLeft`, `ReadableByHypre`, `DiagonalFirst`, `SolvesOwnOperands` | constants as declared |
| `PetscRuntimeProofs` | `Invariance`, `TypeCorrect`, `CallsAreTimely`, `SharedStayAlive`, `NothingIsLeaked`, `UpInsideScopes` | `Inv`, `TypeOK`, `NoLateCalls`, `SharedObjectsAlive`, `NothingLeaks`, `UpInScopes` | constants as declared |
| | `ProcessIsRuntime`, `ProcessIsSafe` | `ProcessSpec => Spec`, and the safety properties for `ProcessSpec` | the same |
| | `ProcessInvariance`, `VectorsAreReset`, `AppliesAreRight` | `ApplyInv`, `NothingPlaced`, `ResultsRight` for `ProcessSpec` | the same |
| `MatrixImportProofs` | `Invariance`, `RefusalAgrees`, `PetscHoldsTheMatrix` | `MInv`, `RefusedByAllOrNone`, `PetscMatrixRight` | constants as declared |
| | `HypreHoldsTheMatrix` | `HypreMatrixRight` | `ColumnsFollowRows`, `CountsFit` |
| `GridHierarchyProofs` | `HierarchyIsRight` | `HierarchyRight` | constants as declared |
| | `NoDeadlock` | some rank can go on, and every step is progress | the same; whichever ranks hypre fails on |
| `BenchmarkProofs` | `NothingIsLeaked`, `ProductIsWhole`, `MatricesLostByUnwinding` | `NothingLeaks`, `ProductWhole`, `LostOnlyByUnwinding` | constants as declared |
| | `SmokeInvariance`, `StatusIsRight`, `SmokeGoesOn` | `SmokeInv`, `StatusRight`, and that some rank can go on | constants as declared; any place for a rank to fail alone, for the last one none |

The hypotheses that are not about the declared constants are those without which
TLC finds the property violated: `Agreement` (the finding below) and
`NoRankFailsAlone` (a rank that fails alone strands the others),
`ColumnsFollowRows` and `CountsFit` (see Bounds and the
observations). The runs check the properties with the same ones.

**Pcg, all or nothing.** A rank is handed a solver only from the last reduction. The
inductive invariant `AllOrNothingInv` says that a rank in it has all ranks behind
it in the reduction before, with no error in any contribution. From there a rank
can throw only in that reduction, on an MPI error or a failed allocation of its
own: the reduction of the levels has given the same zero to all. A rank that
threw elsewhere is below that reduction and stops the others from being let go
by it. `CallOrder` is needed because a later call's collectives must not count
for an earlier one.

**Pcg, phases and location.** Both are inductive together with `TypeOK`. From the end
of the import on every collective needs all ranks, so a rank that enters the
next one has all others where it was, or further. The policy, once set, is never
changed, and the entry of a call that goes on leaves it at the call's location;
that also covers the serial solvers a rank makes on its own.

**Pcg, agreement.** `Agreement` says that only the hierarchy query fails on a rank
alone, and that a rank's own serial solvers, if it makes any, are all on the
executor kind that every distributed solver of the program uses. The finding
shows that the second part is needed. `UniformInv` ties the state of each rank
to the program alone: `PolicyOrigin` says that a policy comes from a serial
solver or from the first call of the program that could set it, so
`ProgramVerdict` predicts each rank's verdict at the entry of a call without
reference to its state; `GenerateInv` and `ApplyInv` say for each collective what
having reached it, and having ended there, implies about the program, the
reductions and the other ranks. Two ranks that ended in the same call ended by
the same fact. `Refines` maps each action: entering the first collective is the
rank joining, a return is a result, and any other collective is not visible.
That a result is one `UniformCalls` allows follows from the invariant before and
after the step.

**Ksp.** `SafeInv` holds whatever fails. For `OwnOptions` it needs that every
prefix in the database or in a KSP was drawn from the process's counter, which is
part of `TypeOK`: the prefix drawn next is then nobody's. `SolversComplete` says
that where a rank has a solver all have come to the barrier at the end of
generate, and that a rank that threw there did so on an MPI error of its own. The second part adds
`CallsAgree`, the counterpart of Pcg's `GenerateInv` and `ApplyInv`. Its
assumption is weaker than Pcg's in one respect: PETSc has no process policy, so
what serial solvers the ranks make does not matter.

**hypre's process.** `UpInScopes` is not inductive: an inner scope must be known not
to finalize hypre. `ScopesNest` says that the outermost scope, and no other,
initialized it, unless an initialization that failed did (`abandoned`), after
which no scope is an owner. `ProcessOrder` relates the policy to hypre's life: nobody sets it
before hypre is up, and during the first initialization hypre is at the
remembered location, also after a policy that failed half-way; no call leaves a
bit in the error flag.

**PETSc's process.** `LifeOrder` says that PETSc comes up after MPI and solvers come
after PETSc, so that a destructor that finds MPI not finalized finds it up. A
step of an apply leaves the variables of `PetscRuntime` alone, so the
composition implements it (`ProcessIsRuntime`), and its theorems carry over
(`ProcessIsSafe`).

**Pcg's memory.** `FreedByOwner` is about the past and not inductive. `Inv` says
for each place of the constructor, the applies and the unwinding which blocks
are there and who points at them: `Holding` for the Ginkgo matrix and its
holders, `VectorsKept`, `MatrixKept`, `SolversKept` for hypre's objects and the
wrapper's arrays, `OperandsKept` for what an apply has placed. With it each
release is of a block that is there and by whoever allocated it, on the normal
way out and from every place the constructor can throw, and nothing is left when
`pc = "gone"`. For `DiagonalFirst`, `SolversKept` says that
the rows are counted when the reorder begins, that the diagonals are first from
its end on, and that the caller's arrays are never permuted.

**Applies of a Ksp.** `GuardsKept` says that the guards alive are those of the
vectors with an array in them, in the order of their construction, apart from
vectors in `stuck`; since each guard resets its own vector as it goes, nothing
stays placed whatever throws, unless the reset itself fails.
`ContentKept` follows the operands from the copy to the host to the combination
of an advanced apply. They are invariants of the composition `ProcessSpec`: what
happens between applies leaves the variables of an apply alone.

**The imported matrix.** Every action is the step of all ranks, so `MInv` only
says what each stage has made of the input, and that past the validation no rank
throws: no row range and no row or column number is beyond the size, and the size
fits. What remains is about the operators, in lemmas of their own. `Sorted` has a
value (a member's place is the number of members up to it) and lists the set
(`SortedIs`). The prefix scan is the number of rows owned by the ranks up to one,
so with ordered parts a row's number is its rank's start plus its local one
(`GlobalRow`). A `Csr` of a set of entries holds them row by row (`CsrHolds`):
entries before row i come first in the sorted list, as many as the pointer says
(`SortedPrefix`). Narrowing changes nothing that fits, and with `CountsFit` every
pointer, local index and count does (`PiecesSmall`, `CountsHold`), so that the
column map is complete (`ColMapComplete`). The diagonal-first
permutation stays within a row and is its own inverse (`FromIs`), so the
reordered block holds the same entries. A reader of such a block, who finds the
global column by whatever undoes the numbering, finds the entries again
(`ReadsEntries`, `TripletsAre`). The order of the column map is by owner and
number, which is the order by number because columns follow the rows' ordered
parts (`MapAscends`). PETSc's side needs none of the hypotheses: it is given
global columns, and counts the triplets in a `PetscCount`.

**The hierarchy.** `HInv` says that the ranks past the first reduction share its
maxima, that those past the second share its sums, and that an error a rank brought
is in the maximum every rank sees. That the sum of the ranks' histograms counts
every row of every rank once is a fact about folds over finite sets
(`SumOfSizes`): where an induction would need an operator as its hypothesis, the
proof takes a smallest counterexample among the subsets of a finite set
(`LeastSet`).

**SpGEMM.** `Leftovers` and `Progress` say at each step of a product which arrays
it has and what of x is written. `Surviving` adds, for any wrapper, that the wraps
hold nothing that is not there (`WrapsKept`), that x's own block is there unless
lost, and that a one-phase product that threw was the last (`UnwoundLast`). The
exception passes with A and b in their wraps at every step, and with x's new
block from the step that adopts it on: `Lost` is exactly that.

**The smoke tool.** `StatusRight` is about the ends only; `SmokeInv` says how a
rank comes to one. A rank leaves `main` either together with all others, from
the loop (`EndedTogether`), or on its own, because of its arguments, its executor
or a failure (`LeftEarly`), and then with a status that the configuration
determines (`EarlyStatus`), the same on whichever rank. The two do not mix: a rank
that has left joins no call, so no call completes after one left early.
`LockStep` keeps the others in the same call, and `Verdicts` keeps the verdicts
on the repetitions alike and no better than the truth.

**No deadlock.** Liveness needs fairness and three facts that can be proved
without it. `NoDeadlock` states them for Pcg, Ksp and the hierarchy: while the
program runs some rank can go on; what lets a rank go on stays (`Rests`),
whatever the other ranks do; and a step of a rank brings it to its next
collective or out of its call (`Advances`), of which there are finitely many. For
the first, take the ranks in the earliest call any rank is in, and among them one
in its earliest collective (`HindmostGoesOn`). The ranks in later calls have
ended this one, by `CallOrder`, and `NoRankStranded` says that they entered the
collective it is in; nobody else is behind it. The other two hold because no rank
leaves a collective again. In `GridHierarchy` a rank that waits for sums waits
for ranks that saw the same maxima and so enter as well. For the smoke tool,
whose ranks are in lockstep, `SmokeGoesOn` states the first fact only. `ENABLED`
is out of the prover's reach, so the theorems state the guards (`CanGoOn`,
`SomebodyGoesOn`); on the instances of the runs TLC finds them equal to `ENABLED`
of the rank's step (without a fault, in the smoke tool).

The invariants hold for TLC on the instances of the runs as well. The runs do not
list them, since they are proved.

Two things to know when proving more. Zenon accepts goals of the form
`S \subseteq A \cap B` without proof, so no step states one; inclusions are
stated one by one or member by member. The proof manager reads `UNION A \cup B`
as `UNION (A \cup B)`, TLC as `(UNION A) \cup B`; the modules parenthesize it.

**Only model-checked**: liveness (`EveryCallReturns`, `EveryRankEnds`,
`EveryRankExits`), which with `ENABLED` is out of the prover's reach; what it needs
besides fairness is proved (above). Every safety property of the passing runs is
proved.

## Finding

`pcg_policy_divergence`: the comment at `hypre/detail/import.hpp:354-357` says
the policy check "throws uniformly (or not at all) before the first collective
call". It compares with a variable of the process, which serial solvers set as
well. If one rank has generated a serial host solver, it alone throws for a
distributed device solver; the others wait in `MPI_Scan`.

## Observed while modelling

Behaviour the models contain, without a run of its own:

- The remembered location survives `HYPRE_Finalize`. After a second
  `HYPRE_Initialize`, which `hypre/test/environment.cpp` performs, a GPU build
  is back at the device location and `set_process_policy` does nothing
  (`detail/policy.hpp:67`), although `hypre/pcg.hpp:76-79` and
  `detail/policy.hpp:38-41` say that the policy holds regardless of what ran
  earlier.
- Once MPI is finalized, the environment leaves hypre up and the body of `~state`
  returns early, but the destructors of its members test hypre only
  (`detail/import.hpp:196`, `detail/vectors.hpp:150`) and destroy the matrix and
  the vectors; the comment at `hypre/pcg.hpp:284-285` excludes it.
- An environment whose `HYPRE_Initialize` fails throws from its constructor
  (`hypre/environment.hpp:54`): no destructor runs, hypre counts as initialized,
  and no later environment will finalize it. PETSc's environment is alike.
- A rank on which MPI fails in the last reduction of `Pcg`'s generate, or that
  runs out of memory after it, throws while the others return a solver
  (`hypre/pcg.hpp:485-491`); `Ksp`'s last barrier is alike
  (`petsc/detail/timing.hpp:39`).
- After an apply that throws, iteration count, norm and `has_converged()` still
  describe the solve before (`hypre/pcg.hpp:646`). `PcgMemory` does not follow
  their values.
- `placed_array`'s destructor drops the error of PETSc's reset
  (`petsc/detail/vectors.hpp:46-53`): the array stays in the vector after the
  apply, and PETSc refuses the next one.
- A column partition of its own is not noticed: hypre gets the row starts for
  both (`detail/import.hpp:375`).
- Numbers of local rows, nonzeros and remote columns and converted index arrays
  are narrowed without a check (`detail/import.hpp:84`, `:346` and the casts
  before `hypre_ParCSRMatrixCreate`), unlike global numbers.
- An exception between `Wrap` and `Release` makes AC-SpGEMM's and spECK's wraps
  free the application's matrices (`spgemm/ac_wrapper.cu:45`, `:54`, `:63`; the
  pointers are nulled from line 65 on). The run `spgemm` contains it, and
  `LostOnlyByUnwinding` says exactly what goes.
- A rank of `device_smoke` that fails alone returns and waits in the end of MPI,
  while the others wait in the call it never joins (`device_smoke.cpp:519`).

## Not modelled

- The build system and the tests; the latter were read as statements of intent.
- The numerics of setup and solve, and of the SpGEMM kernels.
- The tables of `hypre/detail/options.hpp`, the setters and `Pcg::parse`, beyond
  the rejections they lead to: straight-line code on constant data.
- The tokens of a PETSc options string (`prefix_options`).
- Several live Kokkos wrappers at once, and the size of an SpGEMM wrapper after
  `read`: the first depends on Kokkos, the second is fixed data.
- PETSc brought up a second time; apply on a moved-from solver, a precondition of
  the language.
- The crash handler and the output of the smoke tool.

## Plan

1. `Options`: `prefix_options` on token sequences, against the definition "option
   names are prefixed, values are not"; hypre's smoother tables against what each
   memory location supports.
2. The `generate` of `HypreRuntime`, which leaves all parts or none, as an
   abstraction of `PcgMemory`'s constructor.
