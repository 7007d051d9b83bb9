---- MODULE MCCaptureFeed ----
(* CaptureFeed with the two workers interchangeable. *)
EXTENDS CaptureFeed, TLC

CONSTANTS w1, w2

WorkerSymmetry == Permutations(Workers)
====
