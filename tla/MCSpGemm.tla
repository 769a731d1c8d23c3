------------------------------ MODULE MCSpGemm ------------------------------
(* Small instances of SpGemm.                                              *)
EXTENDS SpGemm
=============================================================================
