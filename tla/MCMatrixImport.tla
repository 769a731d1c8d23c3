--------------------------- MODULE MCMatrixImport ---------------------------
(* Small instances of MatrixImport.                                        *)
EXTENDS MatrixImport
=============================================================================
