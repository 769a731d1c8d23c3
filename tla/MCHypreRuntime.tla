---------------------------- MODULE MCHypreRuntime ----------------------------
(* Instances of HypreRuntime for TLC.                                      *)
EXTENDS HypreRuntime

CONSTANTS h1, h2, h3, s1, s2
===============================================================================
