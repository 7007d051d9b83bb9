---- MODULE UsbReturn ----
(***************************************************************************)
(* The USB return path of the ESP32-P4 capture stream (E108 .. E121):      *)
(* usbTask takes the finished stages in index order and either arms a      *)
(* stage buffer directly (zero copy) or copies it into the PSRAM spill     *)
(* FIFO, from which it refills two bounce buffers; armed segments wait in  *)
(* a ring, one is in flight, and the TX-complete callback on the usbd task *)
(* releases it and arms the next.                                          *)
(*                                                                         *)
(* Buffers have contents: the codec refills a stage slot as soon as it is  *)
(* free, so a slot released too early would send other blocks than the     *)
(* ones queued.  The unit of data is the codec block.  The codec side      *)
(* (StageSlots) is one action here; one run without an abort is modelled,  *)
(* UsbRuns has the resets between runs.                                    *)
(***************************************************************************)
EXTENDS Integers, Sequences

CONSTANTS
  StageCount,    \* kStageCount
  BounceCount,   \* kBounceCount
  DirectDepth,   \* kDirectDepth
  ArmDepth,      \* kArmDepth
  StageBlocks,   \* StageFill in blocks
  BounceBlocks,  \* kStageBytes in blocks: what one bounce buffer takes
  PacketBlocks,  \* 512 bytes in blocks
  SpillBlocks,   \* kSpillBytes in blocks
  TargetBlocks,  \* the length of the run in blocks
  NoDirect,      \* kFlagNoDirect
  MaxFailures    \* bound: how often writeDirect() may fail

ASSUME ReturnAssumption ==
  /\ StageCount \in Nat \ {0} /\ BounceCount \in Nat \ {0}
  /\ DirectDepth \in Nat /\ ArmDepth \in Nat /\ DirectDepth <= ArmDepth
  /\ StageBlocks \in Nat \ {0} /\ BounceBlocks \in Nat \ {0}
  /\ PacketBlocks \in Nat \ {0} /\ SpillBlocks \in Nat
  /\ TargetBlocks \in Nat \ {0}
  /\ NoDirect \in BOOLEAN /\ MaxFailures \in Nat

VARIABLES
  made,          \* the stage index the codec completes next
  freeSlots,     \* FreeSlots
  stage,         \* Stage[slot], the blocks in it
  readyQ,        \* finished stages usbTask has not dispatched, in index order
  codecFinished, \* CodecFinished
  spill,         \* the PSRAM FIFO between SpillTail and SpillHead
  spillOverflow, \* SpillOverflow
  bounce,        \* Bounce[b], the blocks in it
  bounceBusy,    \* BounceBusy
  ring,          \* ArmRing between ArmHead and ArmTail
  inflight,      \* InflightSegment, NoSegment when Inflight is false
  armFailures,   \* ArmFailures
  upc,           \* where usbTask is
  seg,           \* usbTask: the segment it is pushing
  nextBounce,    \* usbTask: loop variable of refillBounces()
  final,         \* usbTask: its local "drained"
  cpc,           \* where the TX-complete callback is
  endpoint,      \* the segment the endpoint transfers
  accepted,      \* history: the blocks taken for sending, in that order
  wire           \* history: the blocks the host has received

codecVars == <<made, freeSlots, stage, readyQ, codecFinished>>
spillVars == <<spill, spillOverflow, bounce, bounceBusy>>
armVars   == <<ring, inflight, armFailures, endpoint>>
usbVars   == <<upc, seg, nextBounce, final>>
vars == <<codecVars, spillVars, armVars, usbVars, cpc, accepted, wire>>

Slots   == 0 .. StageCount - 1
Bounces == 0 .. BounceCount - 1

\* A segment of the arm ring.  "from" is a history field: where in the
\* accepted stream the segment begins.
Segment == [kind : {"stage"}, slot : Slots, length : Nat, from : Nat]
           \cup [kind : {"bounce"}, slot : Bounces, length : Nat, from : Nat]
NoSegment == [kind |-> "none", slot |-> 0, length |-> 0, from |-> 0]

Least(a, b) == IF a < b THEN a ELSE b

\* The blocks of stage i: the last stage of the run may be short
\* (stageExpectedFill).
Fill(i) == Least(StageBlocks, TargetBlocks - i * StageBlocks)
StageData(i) == [k \in 1 .. Fill(i) |-> i * StageBlocks + k - 1]

\* What the DMA reads for a segment: the buffer's contents at that time.
Content(s) == IF s.kind = "stage" THEN stage[s.slot] ELSE bounce[s.slot]

\* armQueued()
ArmQueued == Len(ring) + (IF inflight = NoSegment THEN 0 ELSE 1)

Init ==
  /\ made = 0 /\ freeSlots = Slots
  /\ stage = [s \in Slots |-> <<>>]
  /\ readyQ = <<>> /\ codecFinished = FALSE
  /\ spill = <<>> /\ spillOverflow = 0
  /\ bounce = [b \in Bounces |-> <<>>]
  /\ bounceBusy = [b \in Bounces |-> FALSE]
  /\ ring = <<>> /\ inflight = NoSegment /\ armFailures = 0
  /\ upc = "poll" /\ seg = NoSegment /\ nextBounce = 0 /\ final = FALSE
  /\ cpc = "idle" /\ endpoint = NoSegment
  /\ accepted = <<>> /\ wire = <<>>

---------------------------------------------------------------------------
(* The codec: StageSlots gives a free slot to the next stage, fills and    *)
(* publishes it.                                                           *)

CodecStage ==
  /\ ~codecFinished /\ made * StageBlocks < TargetBlocks
  /\ \E s \in freeSlots :
       /\ freeSlots' = freeSlots \ {s}
       /\ stage' = [stage EXCEPT ![s] = StageData(made)]
       /\ readyQ' = Append(readyQ, s)
  /\ made' = made + 1
  /\ UNCHANGED <<codecFinished, spillVars, armVars, usbVars, cpc, accepted,
                 wire>>

\* The workers have ended: at the target, or early when the source stopped.
CodecFinishes ==
  /\ ~codecFinished
  /\ codecFinished' = TRUE
  /\ UNCHANGED <<made, freeSlots, stage, readyQ, spillVars, armVars, usbVars,
                 cpc, accepted, wire>>

---------------------------------------------------------------------------
(* tryArm(), run by usbTask after a push and by the callback.              *)

\* The critical section claims the next segment if none is in flight.
Claim_HeadStays ==                    \* mutant: ArmHead is not advanced
  /\ inflight = NoSegment /\ ring # <<>>
  /\ inflight' = Head(ring)
  /\ UNCHANGED <<ring, armFailures, endpoint>>

Claim ==
  /\ inflight = NoSegment /\ ring # <<>>
  /\ inflight' = Head(ring)
  /\ ring' = Tail(ring)
  /\ UNCHANGED <<armFailures, endpoint>>

NothingToClaim ==
  /\ inflight # NoSegment \/ ring = <<>>
  /\ UNCHANGED armVars

\* writeDirect() hands the claimed segment to the endpoint ...
WriteDirect ==
  /\ endpoint' = inflight
  /\ UNCHANGED <<ring, inflight, armFailures>>

\* ... or fails: the failure is counted, the segment is forgotten.
WriteDirectFails ==
  /\ armFailures < MaxFailures
  /\ armFailures' = armFailures + 1
  /\ inflight' = NoSegment
  /\ UNCHANGED <<ring, endpoint>>

---------------------------------------------------------------------------
(* usbTask.                                                                *)

SpillStage_NoRoomTest ==       \* mutant: spillPush() does not test for room
  LET s == Head(readyQ) IN
  /\ freeSlots' = freeSlots \cup {s}
  /\ spill' = spill \o stage[s] /\ accepted' = accepted \o stage[s]
  /\ upc' = "polled"
  /\ UNCHANGED <<spillOverflow, seg, bounce, bounceBusy>>

\* The next stage in order is copied to the spill, or dropped when the spill
\* has no room for all of it; its slot is released at once.
SpillStage ==
  LET s == Head(readyQ) d == stage[s] IN
  /\ freeSlots' = freeSlots \cup {s}
  /\ \/ /\ Len(d) <= SpillBlocks - Len(spill)
        /\ spill' = spill \o d
        /\ accepted' = accepted \o d
        /\ UNCHANGED spillOverflow
     \/ /\ Len(d) > SpillBlocks - Len(spill)
        /\ spillOverflow' = spillOverflow + 1
        /\ UNCHANGED <<spill, accepted>>
  /\ upc' = "polled"
  /\ UNCHANGED <<seg, bounce, bounceBusy>>

DirectStage_Released ==        \* mutant: the slot is released when armed
  LET s == Head(readyQ) IN
  /\ seg' = [kind |-> "stage", slot |-> s, length |-> Len(stage[s]),
             from |-> Len(accepted)]
  /\ accepted' = accepted \o stage[s]
  /\ freeSlots' = freeSlots \cup {s}
  /\ upc' = "push"
  /\ UNCHANGED spillVars

\* The stage will be armed as it is.
DirectStage ==
  LET s == Head(readyQ) IN
  /\ seg' = [kind |-> "stage", slot |-> s, length |-> Len(stage[s]),
             from |-> Len(accepted)]
  /\ accepted' = accepted \o stage[s]
  /\ upc' = "push"
  /\ UNCHANGED <<freeSlots, spillVars>>

DirectNow_SpillIgnored ==      \* mutant: a stage may overtake the spill
  ~NoDirect /\ ArmQueued < DirectDepth

\* Nothing is spilled before this stage, and USB has no more than it needs.
DirectNow == ~NoDirect /\ spill = <<>> /\ ArmQueued < DirectDepth

\* dispatchStage(): reads spillUsed() and armQueued(), then acts on them.
\* After it usbTask dispatches the stages it has kept, then refills.
DispatchStage ==
  /\ upc \in {"poll", "polled"} /\ readyQ # <<>>
  /\ IF DirectNow THEN DirectStage ELSE SpillStage
  /\ readyQ' = Tail(readyQ)
  /\ UNCHANGED <<made, stage, codecFinished, armVars, nextBounce, final, cpc,
                 wire>>

\* refillBounces(drained) begins, after a dispatch or when no stage came
\* within a millisecond.
StartRefill ==
  /\ upc = "polled" \/ (upc = "poll" /\ readyQ = <<>>)
  /\ final' = (codecFinished /\ readyQ = <<>>)
  /\ nextBounce' = 0
  /\ upc' = "refill"
  /\ UNCHANGED <<codecVars, spillVars, armVars, seg, cpc, accepted, wire>>

RefillLength_WholePackets ==   \* mutant: the odd tail waits for more
  LET n == Least(BounceBlocks, Len(spill))
  IN  n - (n % PacketBlocks)

\* What the next bounce buffer gets: all of the spill it can hold, in whole
\* packets unless this is the end of the stream.
RefillLength ==
  LET n == Least(BounceBlocks, Len(spill))
  IN  IF final THEN n ELSE n - (n % PacketBlocks)

RingFull_Never == FALSE        \* mutant: armQueued() is not looked at

RingFull == ArmQueued >= ArmDepth

MarkBusy_Not(b) == UNCHANGED bounceBusy     \* mutant: BounceBusy is not set

MarkBusy(b) == bounceBusy' = [bounceBusy EXCEPT ![b] = TRUE]

SkipBusyBounce ==
  /\ upc = "refill" /\ nextBounce < BounceCount
  /\ bounceBusy[nextBounce]
  /\ nextBounce' = nextBounce + 1
  /\ UNCHANGED <<codecVars, spillVars, armVars, upc, seg, final, cpc,
                 accepted, wire>>

\* spillPop() into a bounce buffer, which becomes a segment.
RefillBounce ==
  /\ upc = "refill" /\ nextBounce < BounceCount
  /\ ~bounceBusy[nextBounce]
  /\ RefillLength > 0 /\ ~RingFull
  /\ LET n == RefillLength IN
     /\ bounce' = [bounce EXCEPT ![nextBounce] = SubSeq(spill, 1, n)]
     /\ spill' = SubSeq(spill, n + 1, Len(spill))
     /\ seg' = [kind |-> "bounce", slot |-> nextBounce, length |-> n,
                from |-> Len(accepted) - Len(spill)]
  /\ MarkBusy(nextBounce)
  /\ nextBounce' = nextBounce + 1
  /\ upc' = "push"
  /\ UNCHANGED <<codecVars, spillOverflow, armVars, final, cpc, accepted,
                 wire>>

EndRefill ==
  /\ upc = "refill"
  /\ \/ nextBounce = BounceCount
     \/ /\ nextBounce < BounceCount /\ ~bounceBusy[nextBounce]
        /\ RefillLength = 0 \/ RingFull
  /\ upc' = "check"
  /\ UNCHANGED <<codecVars, spillVars, armVars, seg, nextBounce, final, cpc,
                 accepted, wire>>

\* armPush(): a full ring refuses the segment, and nobody looks at that.
Push ==
  /\ upc = "push"
  /\ IF Len(ring) < ArmDepth
       THEN ring' = Append(ring, seg) /\ upc' = "arm"
       ELSE UNCHANGED ring /\ upc' = "pushed"
  /\ UNCHANGED <<codecVars, spillVars, inflight, armFailures, endpoint, seg,
                 nextBounce, final, cpc, accepted, wire>>

UsbArm ==
  /\ upc = "arm"
  /\ \/ Claim /\ upc' = "write"
     \/ NothingToClaim /\ upc' = "pushed"
  /\ UNCHANGED <<codecVars, spillVars, seg, nextBounce, final, cpc, accepted,
                 wire>>

UsbWrite ==
  /\ upc = "write"
  /\ WriteDirect \/ WriteDirectFails
  /\ upc' = "pushed"
  /\ UNCHANGED <<codecVars, spillVars, seg, nextBounce, final, cpc, accepted,
                 wire>>

\* Back to where the segment was made.
Pushed ==
  /\ upc = "pushed"
  /\ upc' = IF seg.kind = "stage" THEN "polled" ELSE "refill"
  /\ seg' = NoSegment
  /\ UNCHANGED <<codecVars, spillVars, armVars, nextBounce, final, cpc,
                 accepted, wire>>

CheckExit_RingIgnored ==       \* mutant: armed segments are not waited for
  /\ upc = "check"
  /\ upc' = IF final /\ spill = <<>> THEN "done" ELSE "poll"
  /\ UNCHANGED <<codecVars, spillVars, armVars, seg, nextBounce, final, cpc,
                 accepted, wire>>

\* The loop ends when everything has gone out.
CheckExit ==
  /\ upc = "check"
  /\ upc' = IF final /\ spill = <<>> /\ ArmQueued = 0 THEN "done" ELSE "poll"
  /\ UNCHANGED <<codecVars, spillVars, armVars, seg, nextBounce, final, cpc,
                 accepted, wire>>

UsbTask ==
  \/ DispatchStage \/ StartRefill \/ SkipBusyBounce \/ RefillBounce
  \/ EndRefill \/ Push \/ UsbArm \/ UsbWrite \/ Pushed \/ CheckExit

---------------------------------------------------------------------------
(* The usbd task.                                                          *)

\* A transfer has completed: the host has the blocks that were in the buffer;
\* onDirectTxComplete() clears Inflight and releases the buffer.  The usbd
\* task is above usbTask on the same core, so usbTask sees both or neither.
TxComplete ==
  /\ endpoint # NoSegment /\ cpc = "idle"
  /\ wire' = wire \o Content(endpoint)
  /\ endpoint' = NoSegment
  /\ inflight' = NoSegment
  /\ \/ /\ inflight.kind = "stage"
        /\ freeSlots' = freeSlots \cup {inflight.slot}
        /\ UNCHANGED bounceBusy
     \/ /\ inflight.kind = "bounce"
        /\ bounceBusy' = [bounceBusy EXCEPT ![inflight.slot] = FALSE]
        /\ UNCHANGED freeSlots
  /\ cpc' = "arm"
  /\ UNCHANGED <<made, stage, readyQ, codecFinished, spill, spillOverflow,
                 bounce, ring, armFailures, usbVars, accepted>>

CallbackArm_Not ==             \* mutant: the callback does not chain the next
  /\ cpc = "arm"
  /\ cpc' = "idle"
  /\ UNCHANGED <<codecVars, spillVars, armVars, usbVars, accepted, wire>>

\* onDirectTxComplete() calls tryArm().
CallbackArm ==
  /\ cpc = "arm"
  /\ \/ Claim /\ cpc' = "write"
     \/ NothingToClaim /\ cpc' = "idle"
  /\ UNCHANGED <<codecVars, spillVars, usbVars, accepted, wire>>

CallbackWrite ==
  /\ cpc = "write"
  /\ WriteDirect \/ WriteDirectFails
  /\ cpc' = "idle"
  /\ UNCHANGED <<codecVars, spillVars, usbVars, accepted, wire>>

Callback == CallbackArm \/ CallbackWrite

\* The run is over, usbTask has given UsbDone.
Finished == upc = "done" /\ UNCHANGED vars

Next ==
  \/ CodecStage \/ CodecFinishes
  \/ UsbTask
  \/ TxComplete \/ Callback
  \/ Finished

Spec == Init /\ [][Next]_vars

\* The tasks are scheduled, the codec ends, the host keeps reading.
Fairness ==
  /\ WF_vars(CodecFinishes) /\ WF_vars(UsbTask)
  /\ WF_vars(TxComplete) /\ WF_vars(Callback)

FairSpec == Spec /\ Fairness

---------------------------------------------------------------------------
(* Properties.                                                             *)

\* Type correctness of the state.
TypeOK ==
  /\ made \in Nat /\ freeSlots \subseteq Slots
  /\ stage \in [Slots -> Seq(Nat)]
  /\ readyQ \in Seq(Slots) /\ codecFinished \in BOOLEAN
  /\ spill \in Seq(Nat) /\ Len(spill) <= SpillBlocks
  /\ spillOverflow \in Nat
  /\ bounce \in [Bounces -> Seq(Nat)] /\ bounceBusy \in [Bounces -> BOOLEAN]
  /\ ring \in Seq(Segment) /\ Len(ring) <= ArmDepth
  /\ inflight \in Segment \cup {NoSegment}
  /\ endpoint \in Segment \cup {NoSegment}
  /\ armFailures \in Nat
  /\ upc \in {"poll", "polled", "push", "arm", "write", "pushed", "refill",
              "check", "done"}
  /\ seg \in Segment \cup {NoSegment}
  /\ nextBounce \in 0 .. BounceCount /\ final \in BOOLEAN
  /\ cpc \in {"idle", "arm", "write"}
  /\ accepted \in Seq(Nat) /\ wire \in Seq(Nat)

\* The segments that wait for the endpoint or are on it, usbTask's own last.
Queued == {ring[k] : k \in DOMAIN ring} \cup ({inflight} \ {NoSegment})
          \cup (IF upc = "push" THEN {seg} ELSE {})

\* The data of a queued segment does not change under it: until the transfer
\* is over, its buffer holds the blocks it was queued with, although the
\* codec and usbTask keep refilling buffers (releaseStage, BounceBusy).
QueuedDataKept ==
  \A s \in Queued : Content(s) = SubSeq(accepted, s.from + 1, s.from + s.length)

\* The host gets the accepted blocks in order, each once, none skipped, by
\* whichever of the two ways a block goes: directly, or through the spill and
\* a bounce buffer ("the arm ring is a FIFO and nothing is armed directly
\* until the spill is empty").
HostInOrder ==
  armFailures = 0 =>
    /\ Len(wire) <= Len(accepted)
    /\ \A k \in 1 .. Len(wire) : wire[k] = accepted[k]

\* When a transfer cannot be armed its blocks are missing, and even then
\* nothing arrives twice or out of order.
HostIncreasing ==
  \A j, k \in 1 .. Len(wire) : j < k => wire[j] < wire[k]

\* A queued buffer has one owner: its slot is not free and not waiting for
\* dispatch, its bounce buffer is busy, and no other segment names it.
OneOwner ==
  /\ \A s \in Queued :
       /\ s.kind = "stage" =>
            s.slot \notin freeSlots \cup {readyQ[k] : k \in DOMAIN readyQ}
       /\ s.kind = "bounce" => bounceBusy[s.slot]
       /\ \A t \in Queued : s.kind = t.kind /\ s.slot = t.slot => s = t
  /\ \A j \in DOMAIN readyQ :
       /\ readyQ[j] \notin freeSlots
       /\ \A k \in DOMAIN readyQ : readyQ[j] = readyQ[k] => j = k

\* armPush() never refuses a segment of the stream, so that the result nobody
\* looks at is always true.
ArmRingRoom == upc = "push" => Len(ring) < ArmDepth

\* No segment is left in the ring with nothing in flight and nobody about to
\* arm it: the wakeup is not lost between usbTask's push and the callback.
RingAwake ==
  armFailures = 0 /\ ring # <<>> /\ inflight = NoSegment =>
    upc = "arm" \/ cpc = "arm"

\* When usbTask gives UsbDone the host has everything that was accepted and
\* every buffer is back.
DoneMeansSent ==
  upc = "done" /\ armFailures = 0 =>
    /\ wire = accepted
    /\ \A b \in Bounces : ~bounceBusy[b]
    /\ Slots \ freeSlots = {readyQ[k] : k \in DOMAIN readyQ}

\* The run ends once the codec has, as long as the host keeps reading.
RunEnds == codecFinished ~> upc = "done"

\* What the return path promises: the stages in order, each either taken and
\* delivered or counted as dropped.
Stream == INSTANCE OrderedStream WITH
  next <- made - Len(readyQ), dropped <- spillOverflow

OrderedStream == Stream!FairSpec
====
