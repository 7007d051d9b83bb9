---- MODULE OrderedStream ----
(***************************************************************************)
(* What the capture stream promises the host: the stages of the run come   *)
(* in index order; each is taken whole or dropped whole and counted        *)
(* (SpillOverflow), and the host receives exactly the blocks taken, in     *)
(* that order.  UsbReturn implements it.                                   *)
(***************************************************************************)
EXTENDS Integers, Sequences

CONSTANTS StageBlocks, TargetBlocks

VARIABLES
  next,      \* the stage index whose turn it is
  dropped,   \* how many stages were dropped
  accepted,  \* the blocks taken for the host
  wire       \* the blocks the host has

vars == <<next, dropped, accepted, wire>>

Remaining(i) == TargetBlocks - i * StageBlocks
StageData(i) ==
  [k \in 1 .. (IF Remaining(i) < StageBlocks THEN Remaining(i)
               ELSE StageBlocks) |-> i * StageBlocks + k - 1]

Init == next = 0 /\ dropped = 0 /\ accepted = <<>> /\ wire = <<>>

Accept ==
  /\ Remaining(next) > 0
  /\ next' = next + 1
  /\ accepted' = accepted \o StageData(next)
  /\ UNCHANGED <<dropped, wire>>

Drop ==
  /\ Remaining(next) > 0
  /\ next' = next + 1
  /\ dropped' = dropped + 1
  /\ UNCHANGED <<accepted, wire>>

Deliver ==
  /\ \E n \in Len(wire) + 1 .. Len(accepted) : wire' = SubSeq(accepted, 1, n)
  /\ UNCHANGED <<next, dropped, accepted>>

Next == Accept \/ Drop \/ Deliver

Spec == Init /\ [][Next]_vars

\* What was taken is delivered.
FairSpec == Spec /\ WF_vars(Deliver)
====
