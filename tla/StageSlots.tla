---- MODULE StageSlots ----
(***************************************************************************)
(* The codec side of the ESP32-P4 capture stream (E114 .. E121): two codec *)
(* workers take chunks of the capture stream, write each block at the wire *)
(* position its raw offset gives, into stage buffers that are assigned to  *)
(* stage indices from a free list, and publish a stage when all its bytes  *)
(* are in.  One consumer task takes the published stages: usbTask sends    *)
(* them in index order, sinkTask (internal sink mode) throws them away in  *)
(* the order they arrive.                                                  *)
(*                                                                         *)
(* The unit of data is the codec block.  A chunk is a run of blocks that   *)
(* one worker places; the worker that places the block straddling two      *)
(* chunks before the rest of its chunk takes two such runs in succession.  *)
(* The FIFO of chunks is the cursor into the stream, since xQueueReceive   *)
(* hands the chunks out in stream order.  What happens to a dispatched     *)
(* stage on the USB side is abstract here: its slot is given back at once  *)
(* (spilled) or some time later (armed directly); UsbReturn has the        *)
(* detail.                                                                 *)
(***************************************************************************)
EXTENDS Integers, Sequences, FiniteSets

CONSTANTS
  Workers,       \* the codec tasks (kWorkers, or one with kFlagSingleCore)
  StageCount,    \* kStageCount, the number of stage buffers (slots)
  TableSize,     \* kSlotTable, the entries of the index -> slot table
  StageBlocks,   \* StageFill / WireBlockBytes
  TargetBlocks,  \* TargetBlocks, the length of the run
  ChunkSizes,    \* how many blocks one chunk may complete
  DirectDepth,   \* kDirectDepth, how many slots may wait for USB
  SinkModes,     \* bound: the values SinkOnly takes
  MaxLost,       \* bound: chunks lost to a full ChunkQueue
  MayStall       \* whether the source may stop delivering

ASSUME SlotAssumption ==
  /\ IsFiniteSet(Workers) /\ Workers # {}
  /\ StageCount \in Nat \ {0}
  /\ TableSize \in Nat \ {0}
  /\ StageBlocks \in Nat \ {0}
  /\ TargetBlocks \in Nat \ {0}
  /\ ChunkSizes \subseteq Nat \ {0}
  /\ DirectDepth \in Nat
  /\ MaxLost \in Nat
  /\ SinkModes \subseteq BOOLEAN /\ MayStall \in BOOLEAN

\* There are at most kWorkers = 2 of them, and the table is so much larger than
\* the number of slots that the blocks of one chunk fit in between.
ASSUME TableAssumption ==
  /\ \A u, v, w \in Workers : u = v \/ v = w \/ u = w
  /\ \A n \in ChunkSizes : n - 1 <= (TableSize - StageCount) * StageBlocks

VARIABLES
  cursor,        \* first block of the next chunk in ChunkQueue
  lost,          \* QueueOverflow: chunks the ISR could not queue
  stalled,       \* the source has stopped and ChunkQueue is empty
  sinkOnly,      \* SinkOnly: sinkTask consumes the stages, not usbTask
  pc,            \* where each worker is
  blk, left,     \* the blocks a worker still has to place
  buf,           \* the stage buffer acquireStage() returned to a worker
  slotIndex,     \* SlotTableIndex
  slotOf,        \* SlotTableSlot
  freeSlots,     \* FreeSlots
  filled,        \* StageFilled, in blocks
  stage,         \* Stage[slot]: the block at each block position
  readyQ,        \* ReadyStageQueue
  upc,           \* where the consumer task is
  nextSend,      \* usbTask: the index to send next
  held,          \* usbTask: stages that arrived ahead of their turn
  armed,         \* dispatched stages whose buffer USB still reads
  published,     \* history: the stage indices published so far
  aborted,       \* RunAborted
  codecFinished  \* CodecFinished

feedVars   == <<cursor, lost, stalled, sinkOnly>>
tableVars  == <<slotIndex, slotOf, freeSlots, filled>>
workVars   == <<pc, blk, left, buf>>
usbVars    == <<upc, nextSend, held, armed>>
vars == <<feedVars, workVars, tableVars, stage, readyQ, usbVars, published,
          aborted, codecFinished>>

Slots     == 0 .. StageCount - 1
Entries   == 0 .. TableSize - 1
Positions == 0 .. StageBlocks - 1
Blocks    == 0 .. TargetBlocks - 1
NoStage   == -1                     \* UINT32_MAX in SlotTableIndex
NoBlock   == -1
Indices   == 0 .. (TargetBlocks - 1) \div StageBlocks
WireChunk == [slot : Slots, index : Indices]
NoChunk   == [slot |-> -1, index |-> NoStage]     \* heldValid[i] == false

\* Smaller of two numbers.
Least(a, b) == IF a < b THEN a ELSE b

\* stageExpectedFill(): the fill at which a stage is complete, short for the
\* last stage of the run and zero past it.
ExpectedFill(i) ==
  IF i * StageBlocks >= TargetBlocks THEN 0
  ELSE Least(StageBlocks, TargetBlocks - i * StageBlocks)

\* The stage a worker writes next, and how many blocks it puts there.
StageOf(w) == blk[w] \div StageBlocks
Offset(w)  == blk[w] % StageBlocks
Piece_PastChunk(w) == StageBlocks - Offset(w)   \* mutant: "if (n > count)"
Piece(w)   == Least(StageBlocks - Offset(w), left[w])
Entry_PerSlot(i) == i % StageCount              \* mutant: kSlotTable too small
Entry(i)   == i % TableSize

Init ==
  /\ cursor = 0 /\ lost = 0 /\ stalled = FALSE /\ sinkOnly \in SinkModes
  /\ pc = [w \in Workers |-> "take"]
  /\ blk = [w \in Workers |-> 0]
  /\ left = [w \in Workers |-> 0]
  /\ buf = [w \in Workers |-> 0]
  /\ slotIndex = [e \in Entries |-> NoStage]
  /\ slotOf = [e \in Entries |-> 0]
  /\ freeSlots = Slots
  /\ filled = [s \in Slots |-> 0]
  /\ stage = [s \in Slots |-> [p \in Positions |-> NoBlock]]
  /\ readyQ = <<>>
  /\ upc = "poll" /\ nextSend = 0
  /\ held = [h \in Slots |-> NoChunk]
  /\ armed = {}
  /\ published = {}
  /\ aborted = FALSE /\ codecFinished = FALSE

---------------------------------------------------------------------------
(* The feed: chunks arrive in stream order; a chunk that finds ChunkQueue  *)
(* full is counted and gone.                                               *)

LoseChunk ==
  /\ lost < MaxLost /\ ~stalled
  /\ cursor < TargetBlocks
  /\ \E n \in ChunkSizes : cursor' = cursor + n
  /\ lost' = lost + 1
  /\ UNCHANGED <<stalled, sinkOnly, workVars, tableVars, stage, readyQ, usbVars,
                 published, aborted, codecFinished>>

SourceStalls ==
  /\ MayStall /\ ~stalled
  /\ cursor < TargetBlocks
  /\ stalled' = TRUE
  /\ UNCHANGED <<cursor, lost, sinkOnly, workVars, tableVars, stage, readyQ, usbVars,
                 published, aborted, codecFinished>>

---------------------------------------------------------------------------
(* A codec worker.  codecWorkerBody() and dynamicWorkerBody() share this   *)
(* control.                                                                *)

\* xQueueReceive() hands over the next chunk.
TakeChunk(w) ==
  /\ pc[w] = "take" /\ ~aborted /\ ~stalled
  /\ cursor < TargetBlocks
  /\ \E n \in ChunkSizes :
       /\ cursor' = cursor + n
       /\ blk' = [blk EXCEPT ![w] = cursor]
       /\ left' = [left EXCEPT ![w] = Least(n, TargetBlocks - cursor)]
  /\ pc' = [pc EXCEPT ![w] = "acquire"]
  /\ UNCHANGED <<lost, stalled, sinkOnly, buf, tableVars, stage, readyQ,
                 usbVars, published, aborted, codecFinished>>

\* The loop ends: a chunk past the target, an aborted run, or two seconds
\* without a chunk.
StopWorker(w) ==
  /\ pc[w] = "take"
  /\ aborted \/ stalled \/ cursor >= TargetBlocks
  /\ pc' = [pc EXCEPT ![w] = "done"]
  /\ UNCHANGED <<feedVars, blk, left, buf, tableVars, stage, readyQ, usbVars,
                 published, aborted, codecFinished>>

Bound(i) == slotIndex[Entry(i)] = i

TakeSlot_StaysFree(s, i) ==    \* mutant: the slot stays in FreeSlots
  /\ freeSlots' = freeSlots
  /\ slotIndex' = [slotIndex EXCEPT ![Entry(i)] = i]
  /\ slotOf' = [slotOf EXCEPT ![Entry(i)] = s]
  /\ filled' = [filled EXCEPT ![s] = 0]

TakeSlot_FillKept(s, i) ==     \* mutant: StageFilled is not reset
  /\ freeSlots' = freeSlots \ {s}
  /\ slotIndex' = [slotIndex EXCEPT ![Entry(i)] = i]
  /\ slotOf' = [slotOf EXCEPT ![Entry(i)] = s]
  /\ filled' = filled

\* A free slot is assigned to stage index i.
TakeSlot(s, i) ==
  /\ freeSlots' = freeSlots \ {s}
  /\ slotIndex' = [slotIndex EXCEPT ![Entry(i)] = i]
  /\ slotOf' = [slotOf EXCEPT ![Entry(i)] = s]
  /\ filled' = [filled EXCEPT ![s] = 0]

\* acquireStage(), the critical section: the slot the index already has, or
\* the lowest free slot.
Acquire(w) ==
  /\ pc[w] \in {"acquire", "wait"}
  /\ LET i == StageOf(w) IN
     \/ /\ Bound(i)
        /\ buf' = [buf EXCEPT ![w] = slotOf[Entry(i)]]
        /\ UNCHANGED tableVars
     \/ /\ ~Bound(i)
        /\ \E s \in freeSlots :
             /\ \A t \in freeSlots : s <= t
             /\ TakeSlot(s, i)
             /\ buf' = [buf EXCEPT ![w] = s]
  /\ pc' = [pc EXCEPT ![w] = "write"]
  /\ UNCHANGED <<feedVars, blk, left, stage, readyQ, usbVars, published,
                 aborted, codecFinished>>

\* The first attempt found neither: the wait begins.
AcquireFails(w) ==
  /\ pc[w] = "acquire"
  /\ ~Bound(StageOf(w)) /\ freeSlots = {}
  /\ pc' = [pc EXCEPT ![w] = "wait"]
  /\ UNCHANGED <<feedVars, blk, left, buf, tableVars, stage, readyQ, usbVars,
                 published, aborted, codecFinished>>

GiveUp_NoTimeout(w) ==         \* mutant: the wait is unbounded
  /\ pc[w] = "wait" /\ aborted
  /\ pc' = [pc EXCEPT ![w] = "done"]
  /\ UNCHANGED <<feedVars, blk, left, buf, tableVars, stage, readyQ, usbVars,
                 published, aborted, codecFinished>>

\* The wait ends without a slot: the run was aborted, or kStageWaitTimeoutUs
\* passed and this worker aborts it.  place() returns false, the loop ends.
GiveUp(w) ==
  /\ pc[w] = "wait"
  /\ aborted' = TRUE
  /\ pc' = [pc EXCEPT ![w] = "done"]
  /\ UNCHANGED <<feedVars, blk, left, buf, tableVars, stage, readyQ, usbVars,
                 published, codecFinished>>

\* The blocks of this piece are encoded into the buffer.
WriteBlocks(w) ==
  /\ pc[w] = "write"
  /\ stage' = [stage EXCEPT ![buf[w]] =
       [p \in Positions |->
          IF p \in Offset(w) .. Offset(w) + Piece(w) - 1
            THEN StageOf(w) * StageBlocks + p ELSE @[p]]]
  /\ pc' = [pc EXCEPT ![w] = "commit"]
  /\ UNCHANGED <<feedVars, blk, left, buf, tableVars, readyQ, usbVars,
                 published, aborted, codecFinished>>

\* place() goes on with the next piece of the chunk, or the chunk is done.
NextPiece(w) ==
  /\ blk' = [blk EXCEPT ![w] = @ + Piece(w)]
  /\ left' = [left EXCEPT ![w] = @ - Piece(w)]
  /\ pc' = [pc EXCEPT ![w] = IF left[w] > Piece(w) THEN "acquire" ELSE "take"]

\* commitStage(), the critical section: account the piece on the slot the
\* table names now; if the stage is complete, remember to publish it.
Commit(w) ==
  /\ pc[w] = "commit"
  /\ LET i == StageOf(w)
         b == slotOf[Entry(i)]
         f == filled[b] + Piece(w)
     IN /\ filled' = [filled EXCEPT ![b] = f]
        /\ IF f >= ExpectedFill(i)
             THEN /\ pc' = [pc EXCEPT ![w] = "publish"]
                  /\ buf' = [buf EXCEPT ![w] = b]
                  /\ published' = published \cup {i}
                  /\ UNCHANGED <<blk, left>>
             ELSE /\ NextPiece(w)
                  /\ UNCHANGED <<buf, published>>
  /\ UNCHANGED <<feedVars, slotIndex, slotOf, freeSlots, stage, readyQ,
                 usbVars, aborted, codecFinished>>

\* xQueueSend(ReadyStageQueue, portMAX_DELAY), a queue of kStageCount entries.
Publish(w) ==
  /\ pc[w] = "publish"
  /\ Len(readyQ) < StageCount
  /\ readyQ' = Append(readyQ, [slot |-> buf[w], index |-> StageOf(w)])
  /\ NextPiece(w)
  /\ UNCHANGED <<feedVars, buf, tableVars, stage, usbVars, published,
                 aborted, codecFinished>>

Worker(w) ==
  \/ TakeChunk(w) \/ StopWorker(w)
  \/ Acquire(w) \/ AcquireFails(w) \/ GiveUp(w)
  \/ WriteBlocks(w) \/ Commit(w) \/ Publish(w)

\* runCapture() has taken HarvestDone once per worker.
CodecFinishes ==
  /\ ~codecFinished
  /\ \A w \in Workers : pc[w] = "done"
  /\ codecFinished' = TRUE
  /\ UNCHANGED <<feedVars, workVars, tableVars, stage, readyQ, usbVars,
                 published, aborted>>

---------------------------------------------------------------------------
(* The consumer.                                                           *)

\* releaseStage()
Release(s) == freeSlots' = freeSlots \cup {s}

\* dispatchStage(): the stage is armed, its buffer busy until USB is done
\* with it, or copied to the spill (or dropped) and its buffer free at once.
Dispatch(r) ==
  \/ /\ Cardinality(armed) < DirectDepth
     /\ armed' = armed \cup {r}
     /\ UNCHANGED freeSlots
  \/ /\ Release(r.slot)
     /\ UNCHANGED armed

\* usbTask: the stage at the head of the queue is the one to send.
UsbReceive ==
  /\ ~sinkOnly /\ upc = "poll" /\ readyQ # <<>>
  /\ Head(readyQ).index = nextSend
  /\ Dispatch(Head(readyQ))
  /\ readyQ' = Tail(readyQ)
  /\ nextSend' = nextSend + 1
  /\ upc' = "drain"
  /\ UNCHANGED <<feedVars, workVars, slotIndex, slotOf, filled, stage, held,
                 published, aborted, codecFinished>>

\* usbTask: a stage ahead of its turn is kept.
UsbHold ==
  /\ ~sinkOnly /\ upc = "poll" /\ readyQ # <<>>
  /\ Head(readyQ).index # nextSend
  /\ held' = [held EXCEPT ![Head(readyQ).index % StageCount] = Head(readyQ)]
  /\ readyQ' = Tail(readyQ)
  /\ UNCHANGED <<feedVars, workVars, tableVars, stage, upc, nextSend, armed,
                 published, aborted, codecFinished>>

UsbDrain_FlagKept ==           \* mutant: heldValid is not cleared
  /\ upc = "drain"
  /\ LET r == held[nextSend % StageCount] IN
     \/ /\ r # NoChunk /\ r.index = nextSend
        /\ Dispatch(r)
        /\ nextSend' = nextSend + 1
        /\ UNCHANGED <<upc, held>>
     \/ /\ r = NoChunk \/ r.index # nextSend
        /\ upc' = "poll"
        /\ UNCHANGED <<nextSend, held, armed, freeSlots>>
  /\ UNCHANGED <<feedVars, workVars, slotIndex, slotOf, filled, stage,
                 readyQ, published, aborted, codecFinished>>

\* usbTask: after a dispatch, the kept stages whose turn has come.
UsbDrain ==
  /\ upc = "drain"
  /\ LET r == held[nextSend % StageCount] IN
     \/ /\ r # NoChunk /\ r.index = nextSend
        /\ Dispatch(r)
        /\ held' = [held EXCEPT ![nextSend % StageCount] = NoChunk]
        /\ nextSend' = nextSend + 1
        /\ UNCHANGED upc
     \/ /\ r = NoChunk \/ r.index # nextSend
        /\ upc' = "poll"
        /\ UNCHANGED <<nextSend, held, armed, freeSlots>>
  /\ UNCHANGED <<feedVars, workVars, slotIndex, slotOf, filled, stage,
                 readyQ, published, aborted, codecFinished>>

\* USB has sent a directly armed stage.
UsbComplete ==
  /\ \E r \in armed : Release(r.slot) /\ armed' = armed \ {r}
  /\ UNCHANGED <<feedVars, workVars, slotIndex, slotOf, filled, stage,
                 readyQ, upc, nextSend, held, published, aborted,
                 codecFinished>>

AllSent_QueueIgnored ==        \* mutant: ReadyStageQueue is not looked at
  armed = {} /\ \A h \in Slots : held[h] = NoChunk

\* drained && !anyHeld && armQueued() == 0
AllSent == readyQ = <<>> /\ armed = {} /\ \A h \in Slots : held[h] = NoChunk

\* usbTask leaves its loop: the run was aborted, or everything has gone out.
UsbExit ==
  /\ ~sinkOnly /\ upc = "poll" /\ codecFinished
  /\ aborted \/ AllSent
  /\ upc' = "done"
  /\ UNCHANGED <<feedVars, workVars, tableVars, stage, readyQ, nextSend,
                 held, armed, published, aborted, codecFinished>>

\* sinkTask: the buffer is read and given back at once.
SinkReceive ==
  /\ sinkOnly /\ upc = "poll" /\ readyQ # <<>>
  /\ Release(Head(readyQ).slot)
  /\ readyQ' = Tail(readyQ)
  /\ UNCHANGED <<feedVars, workVars, slotIndex, slotOf, filled, stage,
                 usbVars, published, aborted, codecFinished>>

SinkExit ==
  /\ sinkOnly /\ upc = "poll" /\ codecFinished /\ readyQ = <<>>
  /\ upc' = "done"
  /\ UNCHANGED <<feedVars, workVars, tableVars, stage, readyQ, nextSend,
                 held, armed, published, aborted, codecFinished>>

Consumer == UsbReceive \/ UsbHold \/ UsbDrain \/ UsbExit
            \/ SinkReceive \/ SinkExit

\* The run is over: runCapture() has taken UsbDone.
Finished == upc = "done" /\ UNCHANGED vars

Next ==
  \/ LoseChunk \/ SourceStalls
  \/ \E w \in Workers : Worker(w)
  \/ CodecFinishes
  \/ Consumer \/ UsbComplete
  \/ Finished

Spec == Init /\ [][Next]_vars

\* The tasks are scheduled, the DMA keeps delivering, the 500 ms timeout
\* expires, and the host keeps reading.
Fairness ==
  /\ \A w \in Workers : WF_vars(Worker(w))
  /\ WF_vars(CodecFinishes) /\ WF_vars(Consumer) /\ WF_vars(UsbComplete)

FairSpec == Spec /\ Fairness

---------------------------------------------------------------------------
(* Properties.                                                             *)

\* Type correctness of the state.
TypeOK ==
  /\ cursor \in Nat /\ lost \in 0 .. MaxLost /\ stalled \in BOOLEAN
  /\ sinkOnly \in BOOLEAN
  /\ pc \in [Workers -> {"take", "acquire", "wait", "write", "commit",
                         "publish", "done"}]
  /\ blk \in [Workers -> Nat] /\ left \in [Workers -> Nat]
  /\ buf \in [Workers -> Slots]
  /\ slotIndex \in [Entries -> Indices \cup {NoStage}]
  /\ slotOf \in [Entries -> Slots]
  /\ freeSlots \subseteq Slots
  /\ filled \in [Slots -> Nat]
  /\ stage \in [Slots -> [Positions -> Nat \cup {NoBlock}]]
  /\ readyQ \in Seq(WireChunk) /\ Len(readyQ) <= StageCount
  /\ upc \in {"poll", "drain", "done"} /\ nextSend \in Nat
  /\ held \in [Slots -> WireChunk \cup {NoChunk}]
  /\ armed \subseteq WireChunk
  /\ published \subseteq Indices
  /\ aborted \in BOOLEAN /\ codecFinished \in BOOLEAN

\* The published stages that still own a buffer.
Publishing == {[slot |-> buf[w], index |-> StageOf(w)] :
                 w \in {v \in Workers : pc[v] = "publish"}}
Outstanding == Publishing \cup {readyQ[k] : k \in DOMAIN readyQ}
               \cup {held[h] : h \in {g \in Slots : held[g] # NoChunk}}
               \cup armed

\* Everyone who has slot s: the free list, a table entry whose stage is not
\* published yet, a worker about to publish, the queue, usbTask, USB.
Holders(s) ==
  {<<"free", x>> : x \in {s} \cap freeSlots}
  \cup {<<"fill", e>> : e \in {d \in Entries :
          slotOf[d] = s /\ slotIndex[d] \notin published \cup {NoStage}}}
  \cup {<<"publish", w>> : w \in {v \in Workers :
          pc[v] = "publish" /\ buf[v] = s}}
  \cup {<<"ready", k>> : k \in {j \in DOMAIN readyQ : readyQ[j].slot = s}}
  \cup {<<"held", h>> : h \in {g \in Slots : held[g].slot = s}}
  \cup {<<"armed", r>> : r \in {q \in armed : q.slot = s}}

\* Every slot is in exactly one place while no chunk has been lost: a buffer
\* is never filled, queued or sent twice at a time, and none leaks
\* (FreeSlots, acquireStage, releaseStage).
OneHolder ==
  lost = 0 => \A s \in Slots : \E h \in Holders(s) : Holders(s) = {h}

\* A published stage holds exactly its own blocks, all of them, until its
\* buffer is released: a byte count per slot decides completion although two
\* workers fill the stage in any order (commitStage).
WholeStages ==
  \A r \in Outstanding : \A p \in Positions :
    p < ExpectedFill(r.index) =>
      stage[r.slot][p] = r.index * StageBlocks + p

\* "Both workers may ask for the same index and get the same slot": from
\* acquireStage to commitStage the table keeps naming the buffer the worker
\* writes.
SameSlot ==
  \A w \in Workers : pc[w] \in {"write", "commit"} =>
    Bound(StageOf(w)) /\ slotOf[Entry(StageOf(w))] = buf[w]

\* A worker that completes a stage never blocks in xQueueSend, although it
\* waits there without a timeout: there are no more stages than entries.
PublishRoom ==
  lost = 0 => \A w \in Workers : pc[w] = "publish" => Len(readyQ) < StageCount

\* usbTask never overwrites a stage it keeps: held[] has one place per slot,
\* indexed by the stage index modulo kStageCount.
HeldKept ==
  [][ lost = 0 => \A h \in Slots :
        held[h] # NoChunk /\ held'[h] # held[h] =>
          held'[h] = NoChunk /\ nextSend' = held[h].index + 1 ]_vars

\* A run that ends without an abort, a lost chunk or a stalled source has
\* sent every stage: the counters the host tests tell every incomplete run.
CompleteOrFlagged ==
  upc = "done" /\ ~sinkOnly =>
    aborted \/ lost > 0 \/ stalled \/ nextSend * StageBlocks >= TargetBlocks

\* runCapture() gets UsbDone: the run ends, with or without an abort.
RunEnds == <>(upc = "done")

\* A worker that waits for a slot waits for someone who can free one: the
\* queue, usbTask, USB, or a worker that is not waiting itself.
Starved ==
  /\ freeSlots = {} /\ armed = {} /\ readyQ = <<>> /\ upc = "poll"
  /\ \A w \in Workers : pc[w] = "wait" /\ ~Bound(StageOf(w))

\* The free list keeps the codec running "for as long as the spill has room
\* instead of blocking": the workers never all wait with nothing to free a
\* slot.
CodecKeepsRunning == ~Starved
====
