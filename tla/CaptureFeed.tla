---------------------------- MODULE CaptureFeed ----------------------------
(***************************************************************************)
(* The feed of the capture stream: PARLIO DMA writes a ring, node by node; *)
(* the ISR joins neighbouring nodes to chunks and queues them; the codec   *)
(* workers take chunks and read the blocks out of the ring, the DMA going  *)
(* on meanwhile.  A block that begins before its chunk is put together     *)
(* from the end of the chunk before, which is still in the ring.           *)
(*                                                                         *)
(* The unit of data is a few raw bytes.  What an address of the ring holds *)
(* is the stream position last written there.  Where the encoded blocks go *)
(* is StageSlots; here a worker that waits for a stage is only slow.       *)
(***************************************************************************)
EXTENDS Integers, Sequences

CONSTANTS
    Workers,        \* the codec tasks
    Ring,           \* kRingBytes
    NodeEnds,       \* the addresses at which the DMA nodes of the ring end
    MaxNode,        \* the longest node
    Block,          \* kRaw, raw bytes of a block
    Coalesce,       \* kCoalesceBytes
    QueueDepth,     \* kQueueDepth
    TargetBlocks,
    MaxExtra        \* bound: how far the stream goes on past the target

IsNextEnd(x, e) == e > x /\ \A f \in NodeEnds : f > x => e <= f

ASSUME FeedAssumption ==
    /\ Block \in Nat \ {0} /\ Ring \in Nat \ {0} /\ MaxNode \in Nat /\ Coalesce \in Nat
    /\ QueueDepth \in Nat \ {0} /\ TargetBlocks \in Nat \ {0} /\ MaxExtra \in Nat
    /\ Ring % Block = 0
    /\ MaxNode <= Coalesce
    /\ NodeEnds \subseteq 1 .. Ring /\ Ring \in NodeEnds
    /\ \A x \in {0} \cup NodeEnds : \A e \in NodeEnds :
           IsNextEnd(x, e) => e - x \in Block .. MaxNode

VARIABLES
    dma,            \* raw bytes written to the ring
    callback,       \* CallbackBytes
    pending,        \* PendingChunk, NoChunk when ~PendingValid
    queue,          \* ChunkQueue
    overflow,       \* QueueOverflow
    pc, job,        \* where each worker is, and its chunk
    shorts,         \* ShortChunks
    processed,      \* ProcessedRaw
    maxInflight,    \* MaxInflight; the workers' own maxima are merged as they arise
    aborted,        \* RunAborted
    encoded         \* history: what became of each block

feedVars == <<dma, callback, pending, queue, overflow>>
vars == <<feedVars, pc, job, shorts, processed, maxInflight, aborted, encoded>>

Blocks == 0 .. TargetBlocks - 1
TargetRawBytes == TargetBlocks * Block
Chunk(data, length, offset) == [data |-> data, length |-> length, rawOffset |-> offset]
NoChunk == Chunk(0, 0, 0)
NoJob == [chunk |-> NoChunk, block |-> 0, at |-> 0, full |-> 0, copy |-> "none"]

\* kFlagSingleCore leaves one worker.
Init ==
    /\ dma = 0 /\ callback = 0 /\ pending = NoChunk /\ queue = <<>> /\ overflow = 0
    /\ \E some \in (SUBSET Workers) \ {{}} :
           pc = [w \in Workers |-> IF w \in some THEN "take" ELSE "off"]
    /\ job = [w \in Workers |-> NoJob]
    /\ shorts = 0 /\ processed = 0 /\ maxInflight = 0 /\ aborted = FALSE
    /\ encoded = [b \in Blocks |-> "no"]

-----------------------------------------------------------------------------
(* The DMA and the ISR.                                                    *)

Running == \E w \in Workers : pc[w] \in {"take", "copied", "blocks", "counted"}

\* The stream goes on until runCapture() stops it; the model stops it MaxExtra past the target.
StreamOver == callback >= TargetRawBytes + MaxExtra

\* The next node of the ring is written.
Write ==
    /\ Running /\ dma = callback /\ ~StreamOver
    /\ \E e \in NodeEnds : IsNextEnd(dma % Ring, e) /\ dma' = dma + e - (dma % Ring)
    /\ UNCHANGED <<callback, pending, queue, overflow, pc, job, shorts, processed, maxInflight,
                   aborted, encoded>>

\* mutant: any node joins the pending chunk
Joins_Anywhere(chunk, data, bytes) == chunk # NoChunk /\ chunk.length + bytes <= Coalesce

\* The node begins where the pending chunk ends, and the two are not too long together.
Joins(chunk, data, bytes) ==
    /\ chunk # NoChunk
    /\ chunk.data + chunk.length = data
    /\ chunk.length + bytes <= Coalesce

\* mutant: the end of the stream stays pending
Flushes_Full(bytes, length) == length >= Coalesce

\* The pending chunk is queued at the target, and from then on with every node, or when it is full.
Flushes(bytes, length) == callback + bytes >= TargetRawBytes \/ length >= Coalesce

\* What is pushed when a node arrives, oldest first, and what stays pending.
Arrived(data, bytes) ==
    LET joined == [pending EXCEPT !.length = @ + bytes]
        fresh  == Chunk(data, bytes, callback)
        next   == IF Joins(pending, data, bytes) THEN joined ELSE fresh
        before == IF next = fresh /\ pending # NoChunk THEN <<pending>> ELSE <<>>
        flush  == Flushes(bytes, next.length)
    IN [pushed |-> IF flush THEN Append(before, next) ELSE before,
        pending |-> IF flush THEN NoChunk ELSE next]

\* pushChunk(): chunks that find ChunkQueue full are counted and gone.
onPartialReceive ==
    /\ dma > callback
    /\ LET bytes == dma - callback
           now   == Arrived(callback % Ring, bytes)
           room  == QueueDepth - Len(queue)
           kept  == IF Len(now.pushed) <= room THEN Len(now.pushed) ELSE room
       IN /\ callback' = dma
          /\ pending' = now.pending
          /\ queue' = queue \o SubSeq(now.pushed, 1, kept)
          /\ overflow' = overflow + Len(now.pushed) - kept
    /\ UNCHANGED <<dma, pc, job, shorts, processed, maxInflight, aborted, encoded>>

-----------------------------------------------------------------------------
(* Reading the ring.                                                       *)

\* The stream position an address holds now; negative when it was never written.
Content(x) == dma - 1 - ((dma - 1 - x) % Ring)

\* n bytes from address x on are those of the stream from position p on.
Holds(x, p, n) == \A k \in 0 .. n - 1 : x + k \in 0 .. Ring - 1 /\ Content(x + k) = p + k

\* "overrun": the DMA has come round to the block; "wrong" for any other reason.
Outcome(right, block) ==
    IF right THEN "good" ELSE IF dma > block * Block + Ring THEN "overrun" ELSE "wrong"

Encode(block, outcome) ==
    encoded' = [encoded EXCEPT ![block] = IF @ = "no" THEN outcome ELSE "twice"]

-----------------------------------------------------------------------------
(* A codec worker, codecWorkerBody() and dynamicWorkerBody().              *)

\* The block that began before the chunk, put together from the two places.
Straddle(c, block, tail) ==
    LET previous == IF c.data = 0 THEN Ring - tail ELSE c.data - tail
    IN Outcome(/\ Holds(previous, block * Block, tail)
               /\ Holds(c.data, block * Block + tail, Block - tail), block)

\* Whole blocks of the chunk from `at` on, none past the target.
Full(c, at, block) ==
    LET full == (c.length - at) \div Block
    IN IF block + full > TargetBlocks THEN TargetBlocks - block ELSE full

\* A chunk past the target ends the loop; one that does not complete its block is passed over.
TakeChunk(w) ==
    /\ pc[w] = "take" /\ ~aborted /\ queue # <<>>
    /\ LET c == Head(queue)
           tail == c.rawOffset % Block
           block == c.rawOffset \div Block
           lead == Block - tail
       IN \/ /\ block >= TargetBlocks
             /\ pc' = [pc EXCEPT ![w] = "done"]
             /\ UNCHANGED <<job, shorts>>
          \/ /\ block < TargetBlocks /\ tail # 0 /\ c.length < lead
             /\ shorts' = shorts + 1
             /\ UNCHANGED <<pc, job>>
          \/ /\ block < TargetBlocks /\ tail # 0 /\ c.length >= lead
             /\ job' = [job EXCEPT ![w] =
                   [chunk |-> c, block |-> block, at |-> lead, full |-> Full(c, lead, block + 1),
                    copy |-> Straddle(c, block, tail)]]
             /\ pc' = [pc EXCEPT ![w] = "copied"]
             /\ UNCHANGED shorts
          \/ /\ block < TargetBlocks /\ tail = 0
             /\ job' = [job EXCEPT ![w] =
                   [chunk |-> c, block |-> block, at |-> 0, full |-> Full(c, 0, block), copy |-> "none"]]
             /\ pc' = [pc EXCEPT ![w] = "blocks"]
             /\ UNCHANGED shorts
    /\ queue' = Tail(queue)
    /\ UNCHANGED <<dma, callback, pending, overflow, processed, maxInflight, aborted, encoded>>

\* The job when its next block is encoded, read in the chunk (n = 1) or from the copy.
Placed(j, n) ==
    [chunk |-> j.chunk, block |-> j.block + 1, at |-> j.at + n * Block, full |-> j.full - n,
     copy |-> "none"]

\* place(block, straddle, 1): from the copy, whatever the ring holds by now.
PlaceStraddle(w) ==
    /\ pc[w] = "copied"
    /\ Encode(job[w].block, job[w].copy)
    /\ job' = [job EXCEPT ![w] = Placed(@, 0)]
    /\ pc' = [pc EXCEPT ![w] = "blocks"]
    /\ UNCHANGED <<feedVars, shorts, processed, maxInflight, aborted>>

\* place(): one block more, from the ring.
PlaceBlock(w) ==
    /\ pc[w] = "blocks" /\ job[w].full > 0
    /\ LET j == job[w] IN
       Encode(j.block, Outcome(Holds(j.chunk.data + j.at, j.block * Block, Block), j.block))
    /\ job' = [job EXCEPT ![w] = Placed(@, 1)]
    /\ UNCHANGED <<feedVars, pc, shorts, processed, maxInflight, aborted>>

\* mutant: the last value, not the largest
Larger_Last(a, b) == b

Larger(a, b) == IF a > b THEN a ELSE b

\* The chunk is accounted in the count both workers share.
ChunkDone(w) ==
    /\ pc[w] = "blocks" /\ job[w].full = 0
    /\ processed' = processed + job[w].chunk.length
    /\ job' = [job EXCEPT ![w] = [NoJob EXCEPT !.at = processed']]
    /\ pc' = [pc EXCEPT ![w] = "counted"]
    /\ UNCHANGED <<feedVars, shorts, maxInflight, aborted, encoded>>

\* How far the stream, read after the count, is ahead of it.
Inflight(w) ==
    /\ pc[w] = "counted"
    /\ maxInflight' = Larger(maxInflight, IF callback > job[w].at THEN callback - job[w].at ELSE 0)
    /\ job' = [job EXCEPT ![w] = NoJob]
    /\ pc' = [pc EXCEPT ![w] = "take"]
    /\ UNCHANGED <<feedVars, shorts, processed, aborted, encoded>>

\* acquireStage() has no buffer for half a second: the run is aborted, the loop left.
GiveUp(w) ==
    /\ pc[w] = "copied" \/ (pc[w] = "blocks" /\ job[w].full > 0)
    /\ aborted' = TRUE
    /\ job' = [job EXCEPT ![w] = NoJob]
    /\ pc' = [pc EXCEPT ![w] = "done"]
    /\ UNCHANGED <<feedVars, shorts, processed, maxInflight, encoded>>

\* An aborted run, or ten waits of 200 ms without a chunk, wherever the stream is: a source that
\* stalls, or a worker the other one leaves nothing.  "starved" is told from "done" only for the
\* properties: the stream had not come to the target.
StopWorker(w) ==
    /\ pc[w] = "take"
    /\ \/ aborted /\ pc' = [pc EXCEPT ![w] = "done"]
       \/ /\ ~aborted /\ queue = <<>>
          /\ pc' = [pc EXCEPT ![w] = IF callback < TargetRawBytes THEN "starved" ELSE "done"]
    /\ UNCHANGED <<feedVars, job, shorts, processed, maxInflight, aborted, encoded>>

Worker(w) ==
    \/ TakeChunk(w) \/ PlaceStraddle(w) \/ PlaceBlock(w) \/ ChunkDone(w) \/ Inflight(w)
    \/ GiveUp(w) \/ StopWorker(w)

Finished == ~Running /\ UNCHANGED vars

Next == Write \/ onPartialReceive \/ (\E w \in Workers : Worker(w)) \/ Finished

Spec == Init /\ [][Next]_vars
-----------------------------------------------------------------------------
\* No block is encoded twice, or from other bytes than its own unless the DMA has come round to
\* it (codecWorkerBody, dynamicWorkerBody: chunks, straddling blocks, place()).
BlocksPlaced == \A b \in Blocks : encoded[b] \in {"no", "good", "overrun"}

\* Where the data begins that no worker has taken: queued, else pending, else yet to come.
Low == IF pending = NoChunk THEN callback ELSE pending.rawOffset
Front == IF queue = <<>> THEN Low ELSE queue[1].rawOffset
Ends(b) == (b + 1) * Block

\* A run that ends without an abort or a full queue has left out nothing between blocks it encoded:
\* no chunk was passed over as short, and every block that ends before the data nobody took is
\* encoded, also when the source stalled and the workers left after ten waits.  When one of them
\* left later than that, at the target, every block is: the end of the stream is not kept pending.
NoneLeftOut ==
    ~Running /\ ~aborted /\ overflow = 0 =>
        /\ shorts = 0
        /\ \A b \in Blocks : Ends(b) <= Front => encoded[b] # "no"
        /\ (\E w \in Workers : pc[w] = "done") => \A b \in Blocks : encoded[b] # "no"

Single == \E w \in Workers : \A v \in Workers \ {w} : pc[v] = "off"
Overrun == \E b \in Blocks : encoded[b] = "overrun"
InHand == \E w \in Workers : pc[w] \in {"copied", "blocks", "counted"}

\* With one worker (kFlagSingleCore) the reported max_inflight tells every overrun once a margin is
\* taken off the ring: a node the DMA is writing, the chunk that is accounted although it was read
\* late, and a block.
InflightMargin ==
    Single /\ Overrun /\ ~InHand /\ ~aborted => maxInflight + MaxNode + Coalesce + Block > Ring
=============================================================================
