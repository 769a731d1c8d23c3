--------------------------- MODULE MCGridHierarchy ---------------------------
(* Small instances of GridHierarchy.                                       *)
EXTENDS GridHierarchy
==============================================================================
