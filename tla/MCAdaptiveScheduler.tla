------------------------- MODULE MCAdaptiveScheduler -------------------------
(***************************************************************************)
(* Instances of AdaptiveScheduler for TLC.  The requests are interchangeable *)
(* model values, so the safety runs use their permutations as symmetry; the *)
(* liveness runs do not.                                                    *)
(***************************************************************************)
EXTENDS AdaptiveScheduler, TLC

RequestSymmetry == Permutations(Requests)
=============================================================================
