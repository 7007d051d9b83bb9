---- MODULE MCStageSlots ----
(***************************************************************************)
(* StageSlots with two interchangeable workers, for TLC.                   *)
(***************************************************************************)
EXTENDS StageSlots, TLC

WorkerSymmetry == Permutations(Workers)
====
