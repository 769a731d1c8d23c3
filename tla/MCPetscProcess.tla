---------------------------- MODULE MCPetscProcess ----------------------------
(* An instance of PetscProcess for TLC.                                    *)
EXTENDS PetscProcess, TLC

CONSTANTS h1, h2, h3, s1, s2

Symmetry == Permutations(Handles)
=============================================================================
