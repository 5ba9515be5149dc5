--------------------------- MODULE MCRefillAdmission ---------------------------
(* The guarded controller and the cohort-gated one.                           *)
EXTENDS RefillAdmission

MCConfigs == {[holds |-> 2, gated |-> FALSE], [holds |-> 2, gated |-> TRUE]}
================================================================================
