------------------------------ MODULE MCMtpCounts ------------------------------
(* Requests are interchangeable.                                              *)
EXTENDS MtpCounts

Symmetric == Permutations(Requests)
================================================================================
