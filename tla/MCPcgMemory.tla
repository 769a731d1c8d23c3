----------------------------- MODULE MCPcgMemory -----------------------------
(* An instance of PcgMemory for TLC.                                       *)
EXTENDS PcgMemory
=============================================================================
