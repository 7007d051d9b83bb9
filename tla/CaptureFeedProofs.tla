---- MODULE CaptureFeedProofs ----
(***************************************************************************)
(* Theorems about CaptureFeed, for every ring, division into nodes, block, *)
(* coalescing limit, queue depth and length of the run.                    *)
(***************************************************************************)
EXTENDS CaptureFeed, SequenceTheorems, TLAPS

---------------------------------------------------------------------------
(* Arithmetic of the ring and of the blocks.                               *)

LEMMA DivMod ==
  ASSUME NEW a \in Nat, NEW n \in Nat \ {0}
  PROVE  /\ a \div n \in Nat /\ a % n \in 0 .. n - 1
         /\ a = (a \div n) * n + (a % n)
  BY SMT

LEMMA ModUnique ==
  ASSUME NEW q \in Nat, NEW n \in Nat \ {0}, NEW r \in 0 .. n - 1
  PROVE  (n * q + r) % n = r
  BY SMTT(20)

LEMMA ModZero ==
  ASSUME NEW a \in Nat, NEW n \in Nat \ {0}
  PROVE  (a + n - (a % n)) % n = 0
  BY SMTT(20)

\* The position in the ring after the stream has moved on to address e.
LEMMA ModStep ==
  ASSUME NEW a \in Nat, NEW n \in Nat \ {0}, NEW e \in 0 .. n - 1
  PROVE  (a + e - (a % n)) % n = e
<1> DEFINE q == a \div n
           m == a % n
           p == n * q
<1>1. q \in Nat /\ m \in 0 .. n - 1 /\ a = q * n + m BY DivMod
<1> HIDE DEF q, m
<1>2. p \in Nat /\ q * n = p BY <1>1
<1>3. (p + e) % n = e BY <1>1, ModUnique
<1> HIDE DEF p
<1>4. a + e - m = p + e BY <1>1, <1>2
<1> QED BY <1>3, <1>4 DEF m

LEMMA Constants ==
  /\ Block \in Nat \ {0} /\ Ring \in Nat \ {0} /\ MaxNode \in Nat /\ Coalesce \in Nat
  /\ QueueDepth \in Nat \ {0} /\ TargetBlocks \in Nat /\ MaxNode <= Coalesce
  /\ NodeEnds \subseteq 1 .. Ring
  BY FeedAssumption

LEMMA TargetType == TargetRawBytes \in Nat
  BY Constants DEF TargetRawBytes

---------------------------------------------------------------------------
(* Types.                                                                  *)

ChunkRecord == [data : Nat, length : Nat, rawOffset : Nat]
Outcomes == {"no", "good", "overrun", "wrong", "twice", "none"}
JobRecord == [chunk : ChunkRecord, block : Nat, at : Nat, full : Int, copy : Outcomes]

\* Type correctness of the state.
TypeOK ==
  /\ dma \in Nat /\ callback \in Nat
  /\ pending \in ChunkRecord
  /\ queue \in Seq(ChunkRecord) /\ Len(queue) <= QueueDepth
  /\ overflow \in Nat
  /\ pc \in [Workers -> {"off", "take", "copied", "blocks", "counted", "done", "starved"}]
  /\ job \in [Workers -> JobRecord]
  /\ shorts \in Nat /\ processed \in Nat /\ maxInflight \in Nat
  /\ aborted \in BOOLEAN
  /\ encoded \in [Blocks -> Outcomes]

LEMMA NoneType ==
  /\ NoChunk \in ChunkRecord /\ NoChunk.length = 0
  /\ NoJob \in JobRecord /\ \A n \in Nat : [NoJob EXCEPT !.at = n] \in JobRecord
  BY DEF NoChunk, Chunk, ChunkRecord, NoJob, JobRecord, Outcomes

LEMMA OutcomeType ==
  ASSUME NEW right, NEW b
  PROVE  Outcome(right, b) \in Outcomes
  BY DEF Outcome, Outcomes

\* An overrun is one of the block: the DMA is more than a ring ahead of it.
LEMMA OutcomeOverrun ==
  ASSUME NEW right, NEW b, Outcome(right, b) = "overrun"
  PROVE  dma > b * Block + Ring
  BY DEF Outcome

LEMMA EncodeType ==
  ASSUME NEW b, NEW o \in Outcomes, encoded \in [Blocks -> Outcomes], Encode(b, o)
  PROVE  encoded' \in [Blocks -> Outcomes]
  BY DEF Encode, Outcomes

LEMMA EncodeOverrun ==
  ASSUME NEW b, NEW o, encoded \in [Blocks -> Outcomes], Encode(b, o), Overrun'
  PROVE  Overrun \/ o = "overrun"
<1>1. PICK c \in Blocks : encoded'[c] = "overrun" BY DEF Overrun, Blocks
<1>2. encoded'[c] \in {encoded[c], o, "twice"} BY <1>1 DEF Encode
<1> QED BY <1>1, <1>2 DEF Overrun

LEMMA LargerBound ==
  ASSUME NEW a \in Nat, NEW b \in Nat
  PROVE  Larger(a, b) \in Nat /\ Larger(a, b) >= a /\ Larger(a, b) >= b
  BY DEF Larger

\* What a chunk is about to give its worker.
LEMMA ChunkBlock ==
  ASSUME NEW c \in ChunkRecord
  PROVE  /\ c.rawOffset % Block \in Nat /\ Block - (c.rawOffset % Block) \in Nat
         /\ c.rawOffset \div Block \in Nat
         /\ (c.rawOffset \div Block) * Block + Block > c.rawOffset
<1>1. c.rawOffset \in Nat BY DEF ChunkRecord
<1> DEFINE q == c.rawOffset \div Block
           r == c.rawOffset % Block
<1>2. q \in Nat /\ r \in 0 .. Block - 1 /\ c.rawOffset = q * Block + r
  BY <1>1, Constants, DivMod
<1> HIDE DEF q, r
<1>3. q * Block \in Nat BY <1>2, Constants
<1>4. r \in Nat /\ Block - r \in Nat /\ q * Block + Block > c.rawOffset
  BY <1>1, <1>2, <1>3, Constants
<1> QED BY <1>2, <1>4 DEF q, r

---------------------------------------------------------------------------
(* The inductive invariant.                                                *)

\* n is not past anything that is still to be taken.
Ahead(n) == n <= Low /\ \A i \in 1 .. Len(queue) : n <= queue[i].rawOffset

\* The DMA is at most a node ahead of the ISR; the chunks follow one another.
FeedOrder ==
  /\ callback <= dma /\ dma <= callback + MaxNode
  /\ dma % Ring \in {0} \cup NodeEnds
  /\ pending # NoChunk =>
       pending.rawOffset + pending.length = callback /\ pending.length \in 1 .. Coalesce
  /\ \A i \in 1 .. Len(queue) :
       queue[i].length <= Coalesce /\ queue[i].rawOffset + queue[i].length <= Low
  /\ \A i, j \in 1 .. Len(queue) :
       i < j => queue[i].rawOffset + queue[i].length <= queue[j].rawOffset

\* w is the only codec worker.
Only(w) == \A v \in Workers \ {w} : pc[v] = "off"

Encoding(w) == pc[w] \in {"copied", "blocks"}

\* What the only worker has accounted lies before its chunk and all that follow.
Accounted(w) ==
  /\ Encoding(w) =>
       /\ processed <= job[w].chunk.rawOffset /\ job[w].chunk.length <= Coalesce
       /\ Ahead(job[w].chunk.rawOffset + job[w].chunk.length)
       /\ job[w].block * Block + Block > job[w].chunk.rawOffset
  /\ pc[w] = "counted" => job[w].at = processed
  /\ ~Encoding(w) => Ahead(processed)

\* The DMA is a ring ahead of the worker's chunk, up to the margin.
Late(w) ==
  \/ Encoding(w) /\ dma + Block > job[w].chunk.rawOffset + Ring
  \/ pc[w] = "counted" /\ dma + Coalesce + Block > job[w].at + Ring

Margin == maxInflight + MaxNode + Coalesce + Block > Ring

\* An overrun is in the maximum, or the worker that met it has its chunk in hand.
Told(w) ==
  /\ pc[w] = "copied" /\ job[w].copy = "overrun" => Late(w)
  /\ ~aborted /\ Overrun => Margin \/ Late(w)

IInv == TypeOK /\ FeedOrder /\ \A w \in Workers : Only(w) => Accounted(w) /\ Told(w)

---------------------------------------------------------------------------
(* The DMA and the ISR.                                                    *)

\* A node is written: the DMA is at the end of a node again.
LEMMA WriteStep ==
  ASSUME TypeOK, FeedOrder, Write
  PROVE  /\ dma' \in Nat /\ dma <= dma' /\ dma' <= callback + MaxNode
         /\ dma' % Ring \in {0} \cup NodeEnds
<1> DEFINE x == dma % Ring
<1>1. dma \in Nat /\ dma = callback BY DEF TypeOK, Write
<1>2. x \in 0 .. Ring - 1 /\ x \in {0} \cup NodeEnds
  BY <1>1, Constants, DivMod DEF FeedOrder
<1>3. PICK e \in NodeEnds : IsNextEnd(x, e) /\ dma' = dma + e - x
  BY DEF Write
<1>4. e \in 1 .. Ring /\ e - x \in Block .. MaxNode
  BY <1>2, <1>3, FeedAssumption
<1>5. dma' \in Nat /\ dma <= dma' /\ dma' <= callback + MaxNode
  <2> HIDE DEF x
  <2> QED BY <1>1, <1>2, <1>3, <1>4, Constants
<1>6. dma' % Ring \in {0, e}
  <2>1. CASE e = Ring
    BY <1>1, <1>3, <2>1, Constants, ModZero
  <2>2. CASE e # Ring
    <3>1. e \in 0 .. Ring - 1 BY <1>4, <2>2, Constants
    <3> QED BY <1>1, <1>3, <3>1, Constants, ModStep
  <2> QED BY <2>1, <2>2
<1> QED BY <1>5, <1>6

\* What a node pushes and leaves pending.
LEMMA ArrivedEffect ==
  ASSUME TypeOK, FeedOrder, NEW data \in Nat, NEW bytes \in 1 .. MaxNode,
         callback + bytes = dma,
         NEW now, now = Arrived(data, bytes),
         NEW low, low = IF now.pending = NoChunk THEN dma ELSE now.pending.rawOffset
  PROVE  /\ now.pending \in ChunkRecord /\ now.pushed \in Seq(ChunkRecord)
         /\ now.pending # NoChunk =>
              now.pending.rawOffset + now.pending.length = dma /\ now.pending.length \in 1 .. Coalesce
         /\ Low <= low /\ low \in Nat
         /\ \A k \in 1 .. Len(now.pushed) :
              /\ now.pushed[k].length <= Coalesce /\ Low <= now.pushed[k].rawOffset
              /\ now.pushed[k].rawOffset + now.pushed[k].length <= low
         /\ \A k, l \in 1 .. Len(now.pushed) :
              k < l => now.pushed[k].rawOffset + now.pushed[k].length <= now.pushed[l].rawOffset
<1> DEFINE joined == [pending EXCEPT !.length = @ + bytes]
           fresh  == Chunk(data, bytes, callback)
           next   == IF Joins(pending, data, bytes) THEN joined ELSE fresh
           before == IF next = fresh /\ pending # NoChunk THEN <<pending>> ELSE <<>>
           flush  == callback + bytes >= TargetRawBytes \/ next.length >= Coalesce
<1>1. /\ dma \in Nat /\ callback \in Nat /\ pending \in ChunkRecord /\ bytes \in Nat
      /\ bytes <= Coalesce
  BY Constants DEF TypeOK
<1>2. /\ fresh \in ChunkRecord /\ fresh.length = bytes /\ fresh.rawOffset = callback
      /\ fresh # NoChunk
  BY <1>1, NoneType DEF Chunk, ChunkRecord
<1>3. ASSUME Joins(pending, data, bytes)
      PROVE  /\ joined \in ChunkRecord /\ joined.rawOffset = pending.rawOffset
             /\ joined.length = pending.length + bytes /\ joined.length \in 1 .. Coalesce
             /\ joined.rawOffset + joined.length = dma /\ joined # NoChunk
             /\ pending # NoChunk
  <2>1. /\ pending # NoChunk /\ pending.length + bytes <= Coalesce
        /\ pending.rawOffset + pending.length = callback
    BY <1>3 DEF Joins, FeedOrder
  <2>2. pending.length \in Nat /\ pending.rawOffset \in Nat BY <1>1 DEF ChunkRecord
  <2>3. /\ joined \in ChunkRecord /\ joined.rawOffset = pending.rawOffset
        /\ joined.length = pending.length + bytes
    BY <1>1, <2>2 DEF ChunkRecord
  <2>4. joined.length # 0 /\ joined.length \in 1 .. Coalesce
    BY <1>1, <2>1, <2>2, <2>3, Constants
  <2>5. joined # NoChunk BY <2>4, NoneType
  <2> QED BY <1>1, <2>1, <2>2, <2>3, <2>4, <2>5
<1>4. Low \in Nat /\ Low <= callback
  BY <1>1 DEF Low, FeedOrder, ChunkRecord
<1>5. /\ next \in ChunkRecord /\ next # NoChunk /\ next.length \in 1 .. Coalesce
      /\ next.rawOffset + next.length = dma /\ Low <= next.rawOffset /\ next.rawOffset \in Nat
  <2>1. CASE Joins(pending, data, bytes)
    BY <1>1, <1>3, <1>4, <2>1 DEF Low, ChunkRecord
  <2>2. CASE ~Joins(pending, data, bytes)
    BY <1>1, <1>2, <1>4, <2>2
  <2> QED BY <2>1, <2>2
<1>6. ASSUME pending # NoChunk, next = fresh
      PROVE  /\ pending.length <= Coalesce /\ Low = pending.rawOffset
             /\ pending.rawOffset + pending.length <= next.rawOffset
  BY <1>1, <1>2, <1>6 DEF FeedOrder, Low, ChunkRecord
<1>7. before \in Seq(ChunkRecord) /\ Len(before) \in Nat
      /\ (Len(before) = 0 \/ (Len(before) = 1 /\ before[1] = pending /\ pending # NoChunk /\ next = fresh))
  BY <1>1
<1>8. now = [pushed |-> IF flush THEN Append(before, next) ELSE before,
             pending |-> IF flush THEN NoChunk ELSE next]
  BY DEF Arrived, Flushes
<1> HIDE DEF joined, fresh, next, before, flush
<1>9. CASE flush
  <2>1. /\ now.pending = NoChunk /\ now.pushed = Append(before, next) /\ low = dma
    BY <1>8, <1>9
  <2>2. /\ now.pushed \in Seq(ChunkRecord) /\ Len(now.pushed) = Len(before) + 1
        /\ now.pushed[Len(before) + 1] = next
        /\ \A k \in 1 .. Len(before) : now.pushed[k] = before[k]
    BY <1>5, <1>7, <2>1, AppendProperties
  <2>3. CASE Len(before) = 0
    BY <1>1, <1>4, <1>5, <2>1, <2>2, <2>3, NoneType
  <2>4. CASE Len(before) = 1
    <3>1. /\ now.pushed[1] = pending /\ now.pushed[2] = next /\ Len(now.pushed) = 2
      BY <1>7, <2>2, <2>4
    <3>2. /\ pending.rawOffset \in Nat /\ pending.length \in Nat /\ next.length \in Nat
      BY <1>1, <1>5 DEF ChunkRecord
    <3>3. /\ pending.length <= Coalesce /\ Low <= pending.rawOffset
          /\ pending.rawOffset + pending.length <= next.rawOffset
      BY <1>4, <1>6, <1>7, <2>4, <3>2
    <3>4. next.length <= Coalesce /\ Low <= next.rawOffset /\ next.rawOffset + next.length = low
      BY <1>5, <2>1
    <3>5. pending.rawOffset + pending.length <= low BY <1>5, <3>2, <3>3, <3>4
    <3>6. Low <= low /\ low \in Nat BY <1>1, <1>4, <2>1
    <3>7. \A k \in 1 .. Len(now.pushed) :
            /\ now.pushed[k].length <= Coalesce /\ Low <= now.pushed[k].rawOffset
            /\ now.pushed[k].rawOffset + now.pushed[k].length <= low
      <4> SUFFICES ASSUME NEW k \in 1 .. Len(now.pushed)
                   PROVE  /\ now.pushed[k].length <= Coalesce /\ Low <= now.pushed[k].rawOffset
                          /\ now.pushed[k].rawOffset + now.pushed[k].length <= low
        OBVIOUS
      <4>1. CASE k = 1 BY <3>1, <3>3, <3>5, <4>1
      <4>2. CASE k = 2 BY <3>1, <3>4, <1>5, <3>6, <4>2
      <4> QED BY <3>1, <4>1, <4>2
    <3>8. \A k, l \in 1 .. Len(now.pushed) : k < l => k = 1 /\ l = 2 BY <3>1
    <3>9. \A k, l \in 1 .. Len(now.pushed) :
            k < l => now.pushed[k].rawOffset + now.pushed[k].length <= now.pushed[l].rawOffset
      BY <3>1, <3>3, <3>8
    <3> QED BY <2>1, <2>2, <3>6, <3>7, <3>9, NoneType
  <2> QED BY <1>7, <2>3, <2>4
<1>10. CASE ~flush
  <2>1. now.pending = next /\ now.pushed = before /\ low = next.rawOffset
    BY <1>5, <1>8, <1>10
  <2>2. CASE Len(before) = 0
    BY <1>1, <1>4, <1>5, <1>7, <2>1, <2>2
  <2>3. CASE Len(before) = 1
    <3>1. pending.rawOffset \in Nat /\ pending.length \in Nat
      BY <1>1 DEF ChunkRecord
    <3> QED BY <1>1, <1>4, <1>5, <1>6, <1>7, <2>1, <2>3, <3>1
  <2> QED BY <1>7, <2>2, <2>3
<1> QED BY <1>9, <1>10

\* The queue after pushChunk() has taken what fits.
LEMMA QueueEffect ==
  ASSUME queue \in Seq(ChunkRecord), Len(queue) <= QueueDepth, NEW p \in Seq(ChunkRecord),
         NEW kept, kept = IF Len(p) <= QueueDepth - Len(queue) THEN Len(p) ELSE QueueDepth - Len(queue),
         queue' = queue \o SubSeq(p, 1, kept)
  PROVE  /\ queue' \in Seq(ChunkRecord) /\ Len(queue') <= QueueDepth /\ kept \in 0 .. Len(p)
         /\ Len(queue') = Len(queue) + kept
         /\ \A i \in 1 .. Len(queue) : queue'[i] = queue[i]
         /\ \A i \in Len(queue) + 1 .. Len(queue') : queue'[i] = p[i - Len(queue)] /\ i - Len(queue) \in 1 .. Len(p)
<1>1. Len(queue) \in Nat /\ Len(p) \in Nat /\ QueueDepth \in Nat BY Constants
<1>2. kept \in 0 .. Len(p) /\ Len(queue) + kept <= QueueDepth BY <1>1
<1> DEFINE t == SubSeq(p, 1, kept)
<1>3. t \in Seq(ChunkRecord) /\ Len(t) = kept /\ \A k \in 1 .. kept : t[k] = p[k]
  BY <1>1, <1>2, SubSeqProperties
<1> HIDE DEF t
<1>4. queue' = queue \o t BY DEF t
<1>5. /\ queue' \in Seq(ChunkRecord) /\ Len(queue') = Len(queue) + kept
      /\ \A i \in 1 .. Len(queue) + kept : queue'[i] = IF i <= Len(queue) THEN queue[i] ELSE t[i - Len(queue)]
  BY <1>3, <1>4, ConcatProperties
<1>6. ASSUME NEW i \in 1 .. Len(queue) PROVE queue'[i] = queue[i] BY <1>1, <1>2, <1>5
<1>7. ASSUME NEW i \in Len(queue) + 1 .. Len(queue')
      PROVE  queue'[i] = p[i - Len(queue)] /\ i - Len(queue) \in 1 .. Len(p)
  <2>1. i \in 1 .. Len(queue) + kept /\ ~(i <= Len(queue)) /\ i - Len(queue) \in 1 .. kept
    BY <1>1, <1>2, <1>5
  <2> QED BY <1>1, <1>2, <1>3, <1>5, <2>1
<1> QED BY <1>2, <1>5, <1>6, <1>7

\* onPartialReceive() keeps the order of the chunks and passes nothing that was ahead.
LEMMA ReceiveStep ==
  ASSUME TypeOK, FeedOrder, onPartialReceive
  PROVE  /\ TypeOK' /\ FeedOrder'
         /\ \A n \in Nat : Ahead(n) => Ahead(n)'
<1> DEFINE data == callback % Ring
           bytes == dma - callback
           now == Arrived(data, bytes)
           kept == IF Len(now.pushed) <= QueueDepth - Len(queue) THEN Len(now.pushed)
                   ELSE QueueDepth - Len(queue)
           low == IF now.pending = NoChunk THEN dma ELSE now.pending.rawOffset
<1>1. /\ dma \in Nat /\ callback \in Nat /\ overflow \in Nat
      /\ queue \in Seq(ChunkRecord) /\ Len(queue) <= QueueDepth
  BY DEF TypeOK
<1>2. data \in Nat BY <1>1, Constants, DivMod
<1>3. bytes \in 1 .. MaxNode /\ callback + bytes = dma
  BY <1>1, Constants DEF onPartialReceive, FeedOrder
<1>4. /\ callback' = dma /\ pending' = now.pending /\ dma' = dma
      /\ queue' = queue \o SubSeq(now.pushed, 1, kept)
      /\ overflow' = overflow + Len(now.pushed) - kept
      /\ UNCHANGED <<pc, job, shorts, processed, maxInflight, aborted, encoded>>
  BY DEF onPartialReceive
<1> HIDE DEF data, bytes, now, kept
<1>5. now = Arrived(data, bytes) BY DEF now
<1>6. /\ now.pending \in ChunkRecord /\ now.pushed \in Seq(ChunkRecord)
      /\ now.pending # NoChunk =>
           now.pending.rawOffset + now.pending.length = dma /\ now.pending.length \in 1 .. Coalesce
      /\ Low <= low /\ low \in Nat
      /\ \A k \in 1 .. Len(now.pushed) :
           /\ now.pushed[k].length <= Coalesce /\ Low <= now.pushed[k].rawOffset
           /\ now.pushed[k].rawOffset + now.pushed[k].length <= low
      /\ \A k, l \in 1 .. Len(now.pushed) :
           k < l => now.pushed[k].rawOffset + now.pushed[k].length <= now.pushed[l].rawOffset
  BY <1>2, <1>3, <1>5, ArrivedEffect
<1>7. /\ queue' \in Seq(ChunkRecord) /\ Len(queue') <= QueueDepth /\ kept \in 0 .. Len(now.pushed)
      /\ Len(queue') = Len(queue) + kept
      /\ \A i \in 1 .. Len(queue) : queue'[i] = queue[i]
      /\ \A i \in Len(queue) + 1 .. Len(queue') :
           queue'[i] = now.pushed[i - Len(queue)] /\ i - Len(queue) \in 1 .. Len(now.pushed)
  <2> DEFINE p == now.pushed
  <2>1. /\ p \in Seq(ChunkRecord) /\ queue' = queue \o SubSeq(p, 1, kept)
        /\ kept = IF Len(p) <= QueueDepth - Len(queue) THEN Len(p) ELSE QueueDepth - Len(queue)
    BY <1>4, <1>6 DEF kept
  <2> HIDE DEF p
  <2>2. /\ queue' \in Seq(ChunkRecord) /\ Len(queue') <= QueueDepth /\ kept \in 0 .. Len(p)
        /\ Len(queue') = Len(queue) + kept
        /\ \A i \in 1 .. Len(queue) : queue'[i] = queue[i]
        /\ \A i \in Len(queue) + 1 .. Len(queue') :
             queue'[i] = p[i - Len(queue)] /\ i - Len(queue) \in 1 .. Len(p)
    BY <1>1, <2>1, QueueEffect
  <2> QED BY <2>2 DEF p
<1>8. Low' = low BY <1>4 DEF Low
<1> HIDE DEF low
<1>9. Len(queue) \in Nat /\ Len(queue') \in Nat /\ Low \in Nat /\ Len(now.pushed) \in Nat
  BY <1>1, <1>6, <1>7 DEF Low, TypeOK, ChunkRecord
<1>10. TypeOK'
  <2>1. overflow' \in Nat BY <1>1, <1>4, <1>7, <1>9
  <2> QED BY <1>1, <1>4, <1>6, <1>7, <2>1 DEF TypeOK
<1>11. ASSUME NEW i \in 1 .. Len(queue')
       PROVE  \/ i \in 1 .. Len(queue) /\ queue'[i] = queue[i]
              \/ /\ i - Len(queue) \in 1 .. Len(now.pushed) /\ i > Len(queue)
                 /\ queue'[i] = now.pushed[i - Len(queue)]
  <2>1. i \in 1 .. Len(queue) \/ i \in Len(queue) + 1 .. Len(queue') BY <1>9
  <2> QED BY <1>7, <1>9, <2>1
<1>12. ASSUME NEW i \in 1 .. Len(queue')
       PROVE  queue'[i].rawOffset \in Nat /\ queue'[i].length \in Nat
  <2>1. queue' \in Seq(ChunkRecord) BY <1>7
  <2>2. queue'[i] \in ChunkRecord BY <2>1
  <2> QED BY <2>2 DEF ChunkRecord
<1>13. FeedOrder'
  <2>1. callback' <= dma' /\ dma' <= callback' + MaxNode BY <1>1, <1>4, Constants
  <2>2. dma' % Ring \in {0} \cup NodeEnds BY <1>4 DEF FeedOrder
  <2>3. pending' # NoChunk =>
          pending'.rawOffset + pending'.length = callback' /\ pending'.length \in 1 .. Coalesce
    BY <1>4, <1>6
  <2>4. ASSUME NEW i \in 1 .. Len(queue')
        PROVE  queue'[i].length <= Coalesce /\ queue'[i].rawOffset + queue'[i].length <= Low'
    <3>1. CASE i \in 1 .. Len(queue)
      <4>1. queue'[i].length <= Coalesce /\ queue'[i].rawOffset + queue'[i].length <= Low
        BY <1>7, <3>1 DEF FeedOrder
      <4> QED BY <1>6, <1>8, <1>9, <1>12, <4>1
    <3>2. CASE i \notin 1 .. Len(queue) BY <1>6, <1>8, <1>11, <3>2
    <3> QED BY <3>1, <3>2
  <2>5. ASSUME NEW i \in 1 .. Len(queue'), NEW j \in 1 .. Len(queue'), i < j
        PROVE  queue'[i].rawOffset + queue'[i].length <= queue'[j].rawOffset
    <3>1. CASE j \in 1 .. Len(queue)
      <4>1. i \in 1 .. Len(queue) BY <2>5, <3>1, <1>9
      <4> QED BY <1>7, <2>5, <3>1, <4>1 DEF FeedOrder
    <3>2. CASE i \in 1 .. Len(queue) /\ j \notin 1 .. Len(queue)
      <4>1. queue'[i].rawOffset + queue'[i].length <= Low BY <1>7, <3>2 DEF FeedOrder
      <4>2. Low <= queue'[j].rawOffset BY <1>6, <1>11, <3>2
      <4> QED BY <1>9, <1>12, <4>1, <4>2
    <3>3. CASE i \notin 1 .. Len(queue) /\ j \notin 1 .. Len(queue)
      <4>1. i - Len(queue) < j - Len(queue) BY <1>9, <2>5
      <4> QED BY <1>6, <1>11, <3>3, <4>1
    <3> QED BY <3>1, <3>2, <3>3, <1>9, <2>5
  <2> QED BY <2>1, <2>2, <2>3, <2>4, <2>5 DEF FeedOrder
<1>14. ASSUME NEW n \in Nat, Ahead(n) PROVE Ahead(n)'
  <2>1. n <= Low' BY <1>6, <1>8, <1>9, <1>14 DEF Ahead
  <2>2. ASSUME NEW i \in 1 .. Len(queue') PROVE n <= queue'[i].rawOffset
    <3>1. CASE i \in 1 .. Len(queue) BY <1>7, <1>14, <3>1 DEF Ahead
    <3>2. CASE i \notin 1 .. Len(queue)
      <4>1. Low <= queue'[i].rawOffset BY <1>6, <1>11, <3>2
      <4>2. n <= Low BY <1>14 DEF Ahead
      <4> QED BY <1>9, <1>12, <4>1, <4>2
    <3> QED BY <3>1, <3>2
  <2> QED BY <2>1, <2>2 DEF Ahead
<1> QED BY <1>10, <1>13, <1>14

---------------------------------------------------------------------------
(* The codec worker.                                                       *)

\* The queue after xQueueReceive(): the rest is where it was, one place on.
LEMMA TakeEffect ==
  ASSUME TypeOK, FeedOrder, queue # <<>>, queue' = Tail(queue),
         UNCHANGED <<dma, callback, pending>>
  PROVE  /\ queue' \in Seq(ChunkRecord) /\ Len(queue') <= QueueDepth
         /\ Head(queue) \in ChunkRecord /\ Head(queue).length <= Coalesce
         /\ FeedOrder'
         /\ \A n \in Nat : Ahead(n) => n <= Head(queue).rawOffset /\ Ahead(n)'
         /\ \A n \in Nat : n = Head(queue).rawOffset + Head(queue).length => Ahead(n)'
<1>1. queue \in Seq(ChunkRecord) /\ Len(queue) <= QueueDepth BY DEF TypeOK
<1>2. /\ queue' \in Seq(ChunkRecord) /\ Len(queue') = Len(queue) - 1
      /\ \A i \in 1 .. Len(queue') : queue'[i] = queue[i + 1]
      /\ Len(queue) \in Nat \ {0} /\ Head(queue) = queue[1]
  BY <1>1, HeadTailProperties, EmptySeq
<1>3. Len(queue') \in Nat /\ \A i \in 1 .. Len(queue') : i + 1 \in 1 .. Len(queue)
  BY <1>2
<1>4. queue[1] \in ChunkRecord /\ 1 \in 1 .. Len(queue) BY <1>1, <1>2
<1>5. queue[1].length <= Coalesce /\ queue[1].rawOffset + queue[1].length <= Low
  BY <1>4 DEF FeedOrder
<1>6. Low' = Low BY DEF Low
<1>7. FeedOrder'
  <2>1. /\ callback' <= dma' /\ dma' <= callback' + MaxNode
        /\ dma' % Ring \in {0} \cup NodeEnds
        /\ pending' # NoChunk =>
             pending'.rawOffset + pending'.length = callback' /\ pending'.length \in 1 .. Coalesce
    BY DEF FeedOrder
  <2>2. \A i \in 1 .. Len(queue') :
          queue'[i].length <= Coalesce /\ queue'[i].rawOffset + queue'[i].length <= Low'
    BY <1>2, <1>3, <1>6 DEF FeedOrder
  <2>3. ASSUME NEW i \in 1 .. Len(queue'), NEW j \in 1 .. Len(queue'), i < j
        PROVE  queue'[i].rawOffset + queue'[i].length <= queue'[j].rawOffset
    <3>1. i + 1 < j + 1 BY <2>3
    <3> QED BY <1>2, <1>3, <3>1 DEF FeedOrder
  <2> QED BY <2>1, <2>2, <2>3 DEF FeedOrder
<1>8. ASSUME NEW n \in Nat, Ahead(n) PROVE n <= Head(queue).rawOffset /\ Ahead(n)'
  BY <1>2, <1>3, <1>4, <1>6, <1>8 DEF Ahead
<1>9. ASSUME NEW n \in Nat, n = Head(queue).rawOffset + Head(queue).length PROVE Ahead(n)'
  <2>1. ASSUME NEW i \in 1 .. Len(queue') PROVE n <= queue'[i].rawOffset
    <3>1. 1 < i + 1 BY <1>3
    <3> QED BY <1>2, <1>3, <1>4, <1>9, <3>1 DEF FeedOrder
  <2> QED BY <1>2, <1>5, <1>6, <1>9, <2>1 DEF Ahead
<1>10. /\ Head(queue) \in ChunkRecord /\ Head(queue).length <= Coalesce
       /\ Len(queue') <= QueueDepth
  BY <1>1, <1>2, <1>4, <1>5, Constants
<1> QED BY <1>2, <1>7, <1>8, <1>9, <1>10

LEMMA FullType ==
  ASSUME NEW c \in ChunkRecord, NEW at \in Nat, NEW block \in Nat
  PROVE  Full(c, at, block) \in Int
<1>1. c.length - at \in Int /\ Block \in Nat \ {0} /\ TargetBlocks \in Nat
  BY Constants DEF ChunkRecord
<1> DEFINE f == (c.length - at) \div Block
<1>2. f \in Int BY <1>1
<1> HIDE DEF f
<1> QED BY <1>1, <1>2 DEF Full, f

\* What a worker does with the chunk it has taken.
LEMMA TakeCases ==
  ASSUME NEW w \in Workers, TakeChunk(w), NEW c, c = Head(queue),
         NEW tail, tail = c.rawOffset % Block, NEW block, block = c.rawOffset \div Block
  PROVE  \/ pc' = [pc EXCEPT ![w] = "done"] /\ UNCHANGED <<job, shorts>>
         \/ shorts' = shorts + 1 /\ UNCHANGED <<pc, job>>
         \/ /\ job' = [job EXCEPT ![w] =
                 [chunk |-> c, block |-> block, at |-> Block - tail,
                  full |-> Full(c, Block - tail, block + 1), copy |-> Straddle(c, block, tail)]]
            /\ pc' = [pc EXCEPT ![w] = "copied"] /\ UNCHANGED shorts
         \/ /\ job' = [job EXCEPT ![w] =
                 [chunk |-> c, block |-> block, at |-> 0, full |-> Full(c, 0, block),
                  copy |-> "none"]]
            /\ pc' = [pc EXCEPT ![w] = "blocks"] /\ UNCHANGED shorts
  BY DEF TakeChunk

\* The record of a job keeps its type when a block has been placed.
LEMMA JobType ==
  ASSUME NEW j \in JobRecord, NEW n \in {0, 1}
  PROVE  Placed(j, n) \in JobRecord
<1>1. /\ j.chunk \in ChunkRecord /\ j.block \in Nat /\ j.at \in Nat /\ j.full \in Int
  BY DEF JobRecord
<1>2. j.block + 1 \in Nat /\ j.at + n * Block \in Nat /\ j.full - n \in Int
  BY <1>1, Constants
<1> QED BY <1>1, <1>2 DEF JobRecord, Outcomes, Placed

\* The state keeps its type: the steps of a worker.
LEMMA WorkerType ==
  ASSUME TypeOK, FeedOrder, NEW w \in Workers, Worker(w)
  PROVE  TypeOK'
<1> DEFINE Places == {"off", "take", "copied", "blocks", "counted", "done", "starved"}
<1>0. /\ pc \in [Workers -> Places] /\ job \in [Workers -> JobRecord]
      /\ encoded \in [Blocks -> Outcomes] /\ job[w] \in JobRecord
      /\ shorts \in Nat /\ processed \in Nat /\ maxInflight \in Nat /\ callback \in Nat
  BY DEF TypeOK
<1>1. CASE TakeChunk(w)
  <2> DEFINE c == Head(queue)
             tail == c.rawOffset % Block
             block == c.rawOffset \div Block
  <2>1. /\ queue # <<>> /\ queue' = Tail(queue)
        /\ UNCHANGED <<dma, callback, pending, overflow, processed, maxInflight, aborted, encoded>>
    BY <1>1 DEF TakeChunk
  <2>2. queue' \in Seq(ChunkRecord) /\ Len(queue') <= QueueDepth /\ c \in ChunkRecord
    BY <2>1, TakeEffect
  <2>3. tail \in Nat /\ Block - tail \in Nat /\ block \in Nat BY <2>2, ChunkBlock
  <2>4. \/ pc' = [pc EXCEPT ![w] = "done"] /\ UNCHANGED <<job, shorts>>
        \/ shorts' = shorts + 1 /\ UNCHANGED <<pc, job>>
        \/ /\ job' = [job EXCEPT ![w] =
                [chunk |-> c, block |-> block, at |-> Block - tail,
                 full |-> Full(c, Block - tail, block + 1), copy |-> Straddle(c, block, tail)]]
           /\ pc' = [pc EXCEPT ![w] = "copied"] /\ UNCHANGED shorts
        \/ /\ job' = [job EXCEPT ![w] =
                [chunk |-> c, block |-> block, at |-> 0, full |-> Full(c, 0, block),
                 copy |-> "none"]]
           /\ pc' = [pc EXCEPT ![w] = "blocks"] /\ UNCHANGED shorts
    BY <1>1, TakeCases
  <2> HIDE DEF c, tail, block
  <2>5. Straddle(c, block, tail) \in Outcomes BY OutcomeType DEF Straddle
  <2>6. Full(c, Block - tail, block + 1) \in Int
    <3>1. block + 1 \in Nat BY <2>3
    <3> QED BY <2>2, <2>3, <3>1, FullType
  <2>7. Full(c, 0, block) \in Int BY <2>2, <2>3, FullType
  <2>8. /\ [chunk |-> c, block |-> block, at |-> Block - tail,
            full |-> Full(c, Block - tail, block + 1), copy |-> Straddle(c, block, tail)]
             \in JobRecord
        /\ [chunk |-> c, block |-> block, at |-> 0, full |-> Full(c, 0, block), copy |-> "none"]
             \in JobRecord
    BY <2>2, <2>3, <2>5, <2>6, <2>7 DEF JobRecord, Outcomes
  <2>9. pc' \in [Workers -> Places] BY <1>0, <2>4
  <2>10. job' \in [Workers -> JobRecord] BY <1>0, <2>4, <2>8
  <2>11. shorts' \in Nat BY <1>0, <2>4
  <2> QED BY <2>1, <2>2, <2>9, <2>10, <2>11 DEF TypeOK
<1>2. CASE PlaceStraddle(w)
  <2>1. job[w].copy \in Outcomes BY <1>0 DEF JobRecord
  <2>2. encoded' \in [Blocks -> Outcomes] BY <1>0, <1>2, <2>1, EncodeType DEF PlaceStraddle
  <2> DEFINE d == Placed(job[w], 0)
  <2>3. d \in JobRecord BY <1>0, JobType
  <2>4. job' = [job EXCEPT ![w] = d] /\ pc' = [pc EXCEPT ![w] = "blocks"]
    BY <1>2 DEF PlaceStraddle
  <2> HIDE DEF d
  <2>5. pc' \in [Workers -> Places] /\ job' \in [Workers -> JobRecord] BY <1>0, <2>3, <2>4
  <2> QED BY <1>2, <2>2, <2>5 DEF TypeOK, PlaceStraddle, feedVars
<1>3. CASE PlaceBlock(w)
  <2>1. encoded' \in [Blocks -> Outcomes]
    <3>1. PICK o \in Outcomes : Encode(job[w].block, o) BY <1>3, OutcomeType DEF PlaceBlock
    <3> QED BY <1>0, <3>1, EncodeType
  <2> DEFINE d == Placed(job[w], 1)
  <2>2. d \in JobRecord BY <1>0, JobType
  <2>3. job' = [job EXCEPT ![w] = d] BY <1>3 DEF PlaceBlock
  <2> HIDE DEF d
  <2>4. job' \in [Workers -> JobRecord] BY <1>0, <2>2, <2>3
  <2> QED BY <1>3, <2>1, <2>4 DEF TypeOK, PlaceBlock, feedVars
<1>4. CASE ChunkDone(w)
  <2>1. job[w].chunk.length \in Nat BY <1>0 DEF JobRecord, ChunkRecord
  <2>2. processed' \in Nat BY <1>0, <1>4, <2>1 DEF ChunkDone
  <2>3. pc' \in [Workers -> Places] /\ job' \in [Workers -> JobRecord]
    BY <1>0, <1>4, <2>2, NoneType DEF ChunkDone
  <2> QED BY <1>4, <2>2, <2>3 DEF TypeOK, ChunkDone, feedVars
<1>5. CASE Inflight(w)
  <2>1. job[w].at \in Nat BY <1>0 DEF JobRecord
  <2> DEFINE ahead == IF callback > job[w].at THEN callback - job[w].at ELSE 0
  <2>a. ahead \in Nat BY <1>0, <2>1
  <2>b. maxInflight' = Larger(maxInflight, ahead) BY <1>5 DEF Inflight
  <2> HIDE DEF ahead
  <2>2. maxInflight' \in Nat BY <1>0, <2>a, <2>b, LargerBound
  <2>3. pc' \in [Workers -> Places] /\ job' \in [Workers -> JobRecord]
    BY <1>0, <1>5, NoneType DEF Inflight
  <2> QED BY <1>5, <2>2, <2>3 DEF TypeOK, Inflight, feedVars
<1>6. CASE GiveUp(w)
  <2>1. pc' \in [Workers -> Places] /\ job' \in [Workers -> JobRecord]
    BY <1>0, <1>6, NoneType DEF GiveUp
  <2> QED BY <1>6, <2>1 DEF TypeOK, GiveUp, feedVars
<1>7. CASE StopWorker(w)
  <2>1. pc' \in [Workers -> Places] BY <1>0, <1>7 DEF StopWorker
  <2> QED BY <1>7, <2>1 DEF TypeOK, StopWorker, feedVars
<1> QED BY <1>1, <1>2, <1>3, <1>4, <1>5, <1>6, <1>7 DEF Worker

\* A worker that steps is on, and stays on; the others are where they were.
LEMMA OffKept ==
  ASSUME TypeOK, NEW v \in Workers, Worker(v)
  PROVE  /\ pc[v] # "off" /\ pc'[v] # "off"
         /\ \A u \in Workers \ {v} : pc'[u] = pc[u]
<1> DEFINE On == {"take", "copied", "blocks", "counted", "done", "starved"}
<1>1. pc[v] \in On
  BY DEF Worker, TakeChunk, PlaceStraddle, PlaceBlock, ChunkDone, Inflight, GiveUp, StopWorker
<1>2. pc' = pc \/ \E x \in On : pc' = [pc EXCEPT ![v] = x]
  BY DEF Worker, TakeChunk, PlaceStraddle, PlaceBlock, ChunkDone, Inflight, GiveUp, StopWorker
<1>3. pc'[v] \in On /\ \A u \in Workers \ {v} : pc'[u] = pc[u]
  BY <1>1, <1>2 DEF TypeOK
<1> QED BY <1>1, <1>3

LEMMA OnlyActs ==
  ASSUME TypeOK, NEW w \in Workers, Only(w), NEW v \in Workers, Worker(v)
  PROVE  v = w
  BY OffKept DEF Only

\* Only the first action that runs a worker could end its being alone, and none does.
LEMMA OnlyKept ==
  ASSUME TypeOK, NEW w \in Workers, Only(w)', [Next]_vars
  PROVE  Only(w)
<1>1. CASE UNCHANGED pc BY <1>1 DEF Only
<1>2. ASSUME NEW v \in Workers, Worker(v) PROVE Only(w)
  <2>1. pc'[v] # "off" /\ \A u \in Workers \ {v} : pc'[u] = pc[u] BY <1>2, OffKept
  <2> QED BY <2>1 DEF Only
<1>3. UNCHANGED pc \/ \E v \in Workers : Worker(v)
  BY DEF Next, Write, onPartialReceive, Finished, vars
<1> QED BY <1>1, <1>2, <1>3

\* The DMA and the ISR leave the worker as it is, and nothing behind what is ahead of it.
LEMMA FeedKeeps ==
  ASSUME TypeOK, NEW w \in Workers, Accounted(w), Told(w),
         UNCHANGED <<pc, job, processed, maxInflight, aborted, encoded>>,
         dma' \in Nat, dma <= dma',
         \A n \in Nat : Ahead(n) => Ahead(n)'
  PROVE  Accounted(w)' /\ Told(w)'
<1>1. /\ dma \in Nat /\ processed \in Nat /\ job[w] \in JobRecord
  BY DEF TypeOK
<1>2. /\ job[w].chunk.rawOffset \in Nat /\ job[w].chunk.length \in Nat /\ job[w].at \in Nat
  BY <1>1 DEF JobRecord, ChunkRecord
<1> DEFINE end == job[w].chunk.rawOffset + job[w].chunk.length
<1>3. end \in Nat BY <1>2
<1>4. Encoding(w)' = Encoding(w) BY DEF Encoding
<1>5. \/ (\A i \in 1 .. Len(queue') : end <= queue'[i].rawOffset) /\ end <= Low'
      \/ ~Encoding(w)
  BY <1>3 DEF Accounted, Ahead
<1>6. \/ (\A i \in 1 .. Len(queue') : processed <= queue'[i].rawOffset) /\ processed <= Low'
      \/ Encoding(w)
  BY <1>1 DEF Accounted, Ahead
<1>7. Accounted(w)' BY <1>4, <1>5, <1>6 DEF Accounted, Ahead
<1>8. Late(w) => Late(w)' BY <1>1, <1>2, <1>4, Constants DEF Late
<1>9. Overrun' = Overrun /\ Margin' = Margin BY DEF Overrun, Margin
<1> QED BY <1>7, <1>8, <1>9 DEF Told

LEMMA TakeKeeps ==
  ASSUME TypeOK, FeedOrder, NEW w \in Workers, Accounted(w), Told(w), TakeChunk(w)
  PROVE  Accounted(w)' /\ Told(w)'
<1> DEFINE c == Head(queue)
           tail == c.rawOffset % Block
           block == c.rawOffset \div Block
<1>1. /\ queue # <<>> /\ queue' = Tail(queue) /\ pc[w] = "take"
      /\ UNCHANGED <<dma, callback, pending, overflow, processed, maxInflight, aborted, encoded>>
  BY DEF TakeChunk
<1>2. /\ c \in ChunkRecord /\ c.length <= Coalesce
      /\ \A n \in Nat : Ahead(n) => n <= c.rawOffset /\ Ahead(n)'
      /\ \A n \in Nat : n = c.rawOffset + c.length => Ahead(n)'
  BY <1>1, TakeEffect
<1>3. /\ tail \in Nat /\ block \in Nat /\ block * Block + Block > c.rawOffset
  BY <1>2, ChunkBlock
<1>4. \/ pc' = [pc EXCEPT ![w] = "done"] /\ UNCHANGED <<job, shorts>>
      \/ shorts' = shorts + 1 /\ UNCHANGED <<pc, job>>
      \/ /\ job' = [job EXCEPT ![w] =
              [chunk |-> c, block |-> block, at |-> Block - tail,
               full |-> Full(c, Block - tail, block + 1), copy |-> Straddle(c, block, tail)]]
         /\ pc' = [pc EXCEPT ![w] = "copied"] /\ UNCHANGED shorts
      \/ /\ job' = [job EXCEPT ![w] =
              [chunk |-> c, block |-> block, at |-> 0, full |-> Full(c, 0, block),
               copy |-> "none"]]
         /\ pc' = [pc EXCEPT ![w] = "blocks"] /\ UNCHANGED shorts
  BY TakeCases
<1> HIDE DEF c, tail, block
<1>5. /\ dma \in Nat /\ processed \in Nat /\ c.rawOffset \in Nat /\ c.length \in Nat
      /\ pc \in [Workers -> {"off", "take", "copied", "blocks", "counted", "done", "starved"}]
      /\ job \in [Workers -> JobRecord]
  BY <1>2 DEF TypeOK, ChunkRecord
<1>6. processed <= c.rawOffset /\ Ahead(processed)'
  BY <1>1, <1>2, <1>5 DEF Accounted, Encoding
<1>7. Straddle(c, block, tail) = "overrun" => dma > block * Block + Ring
  BY OutcomeOverrun DEF Straddle
<1>8. ~aborted /\ Overrun => Margin BY <1>1 DEF Told, Late, Encoding
<1>9. Overrun' = Overrun /\ Margin' = Margin BY <1>1 DEF Overrun, Margin
<1>10. CASE pc'[w] \in {"take", "done"}
  <2>1. Accounted(w)'
    <3>1. ~Encoding(w)' /\ pc'[w] # "counted" BY <1>10 DEF Encoding
    <3>2. Ahead(processed)' BY <1>6
    <3> QED BY <3>1, <3>2 DEF Accounted
  <2>2. Told(w)' BY <1>1, <1>8, <1>9, <1>10 DEF Told
  <2> QED BY <2>1, <2>2
<1>11. CASE pc'[w] \in {"copied", "blocks"}
  <2>1. /\ job'[w].chunk = c /\ job'[w].block = block
        /\ pc'[w] = "copied" => job'[w].copy = Straddle(c, block, tail)
    BY <1>1, <1>4, <1>5, <1>11
  <2> DEFINE end == c.rawOffset + c.length
  <2>2. end \in Nat BY <1>5
  <2> HIDE DEF end
  <2>3. end <= Low' /\ \A i \in 1 .. Len(queue') : end <= queue'[i].rawOffset
    <3>1. end = c.rawOffset + c.length BY DEF end
    <3> QED BY <1>2, <2>2, <3>1 DEF Ahead
  <2>4. Accounted(w)'
    <3>1. /\ processed' <= job'[w].chunk.rawOffset /\ job'[w].chunk.length <= Coalesce
          /\ job'[w].block * Block + Block > job'[w].chunk.rawOffset
      BY <1>1, <1>2, <1>3, <1>6, <2>1
    <3>2. end = job'[w].chunk.rawOffset + job'[w].chunk.length BY <2>1 DEF end
    <3>3. Ahead(job[w].chunk.rawOffset + job[w].chunk.length)' BY <2>3, <3>2 DEF Ahead
    <3>4. Encoding(w)' /\ pc'[w] # "counted" BY <1>11 DEF Encoding
    <3> QED BY <3>1, <3>3, <3>4 DEF Accounted
  <2>5. pc'[w] = "copied" /\ job'[w].copy = "overrun" => Late(w)'
    <3> SUFFICES ASSUME pc'[w] = "copied", job'[w].copy = "overrun" PROVE Late(w)' OBVIOUS
    <3>1. dma > block * Block + Ring BY <1>7, <2>1
    <3>2. block * Block \in Nat BY <1>3, Constants
    <3>3. dma + Block > c.rawOffset + Ring BY <1>3, <1>5, <3>1, <3>2, Constants
    <3> QED BY <1>1, <2>1, <3>3 DEF Late, Encoding
  <2> QED BY <1>1, <1>8, <1>9, <2>4, <2>5 DEF Told
<1> QED BY <1>1, <1>4, <1>5, <1>10, <1>11

\* The other steps of the worker leave the feed alone.
LEMMA WorkerKeeps ==
  ASSUME TypeOK, FeedOrder, NEW w \in Workers, Accounted(w), Told(w), Worker(w)
  PROVE  Accounted(w)' /\ Told(w)'
<1>1. /\ dma \in Nat /\ callback \in Nat /\ processed \in Nat /\ maxInflight \in Nat
      /\ pc \in [Workers -> {"off", "take", "copied", "blocks", "counted", "done", "starved"}]
      /\ job \in [Workers -> JobRecord] /\ job[w] \in JobRecord
      /\ encoded \in [Blocks -> Outcomes] /\ aborted \in BOOLEAN
  BY DEF TypeOK
<1>2. /\ job[w].chunk.rawOffset \in Nat /\ job[w].chunk.length \in Nat
      /\ job[w].at \in Nat /\ job[w].block \in Nat
  BY <1>1 DEF JobRecord, ChunkRecord
<1>3. Low \in Nat /\ Low <= callback /\ dma <= callback + MaxNode
  BY <1>1 DEF Low, FeedOrder, TypeOK, ChunkRecord
<1>4. /\ Block \in Nat /\ Ring \in Nat /\ MaxNode \in Nat /\ Coalesce \in Nat
  BY Constants
<1>5. CASE TakeChunk(w) BY <1>5, TakeKeeps
<1>6. ASSUME NEW n \in {0, 1}, NEW o, Encode(job[w].block, o), Encoding(w),
             o = "overrun" => Late(w),
             job' = [job EXCEPT ![w] = Placed(@, n)], pc'[w] = "blocks", 
             UNCHANGED <<feedVars, shorts, processed, maxInflight, aborted>>
      PROVE  Accounted(w)' /\ Told(w)'
  <2>1. /\ job'[w].chunk = job[w].chunk /\ job'[w].block = job[w].block + 1
        /\ Encoding(w)' /\ pc'[w] = "blocks"
    BY <1>1, <1>6 DEF Placed, Encoding
  <2>2. /\ Low' = Low /\ queue' = queue /\ dma' = dma /\ processed' = processed
        /\ aborted' = aborted /\ Margin' = Margin
    BY <1>6 DEF feedVars, Low, Margin
  <2>3. job[w].block * Block \in Nat
        /\ (job[w].block + 1) * Block = job[w].block * Block + Block
    BY <1>2, Constants
  <2>4. Accounted(w)'
    <3>1. job'[w].block * Block + Block > job'[w].chunk.rawOffset
      <4>1. job[w].block * Block + Block > job[w].chunk.rawOffset BY <1>6 DEF Accounted
      <4> QED BY <1>2, <1>4, <2>1, <2>3, <4>1
    <3>2. Ahead(job[w].chunk.rawOffset + job[w].chunk.length)'
      <4>1. Ahead(job[w].chunk.rawOffset + job[w].chunk.length) BY <1>6 DEF Accounted
      <4> QED BY <2>1, <2>2, <4>1 DEF Ahead
    <3> QED BY <1>6, <2>1, <2>2, <3>1, <3>2 DEF Accounted
  <2>5. Late(w) => Late(w)' BY <1>6, <2>1, <2>2 DEF Late, Encoding
  <2>6. Overrun' => Overrun \/ o = "overrun" BY <1>1, <1>6, EncodeOverrun
  <2> QED BY <1>6, <2>1, <2>2, <2>4, <2>5, <2>6 DEF Told
<1>7. CASE PlaceStraddle(w)
  <2>1. Encoding(w) /\ (job[w].copy = "overrun" => Late(w))
    BY <1>7 DEF PlaceStraddle, Encoding, Told
  <2>2. pc'[w] = "blocks" BY <1>1, <1>7 DEF PlaceStraddle
  <2> QED BY <1>6, <1>7, <2>1, <2>2 DEF PlaceStraddle
<1>8. CASE PlaceBlock(w)
  <2> DEFINE j == job[w]
             o == Outcome(Holds(j.chunk.data + j.at, j.block * Block, Block), j.block)
  <2>1. Encoding(w) /\ pc'[w] = "blocks" /\ Encode(job[w].block, o)
    BY <1>8 DEF PlaceBlock, Encoding
  <2>2. o = "overrun" => Late(w)
    <3> SUFFICES ASSUME o = "overrun" PROVE Late(w) OBVIOUS
    <3>1. dma > job[w].block * Block + Ring BY OutcomeOverrun
    <3>2. job[w].block * Block \in Nat BY <1>2, Constants
    <3>3. job[w].block * Block + Block > job[w].chunk.rawOffset BY <2>1 DEF Accounted
    <3>4. dma + Block > job[w].chunk.rawOffset + Ring BY <1>1, <1>2, <3>1, <3>2, <3>3, Constants
    <3> QED BY <2>1, <3>4 DEF Late
  <2>3. /\ job' = [job EXCEPT ![w] = Placed(@, 1)]
        /\ UNCHANGED <<feedVars, shorts, processed, maxInflight, aborted>>
    BY <1>8 DEF PlaceBlock
  <2> HIDE DEF j, o
  <2> QED BY <1>6, <2>1, <2>2, <2>3
<1>9. CASE ChunkDone(w)
  <2>1. /\ processed' = processed + job[w].chunk.length /\ pc[w] = "blocks" /\ pc'[w] = "counted"
        /\ job'[w] = [NoJob EXCEPT !.at = processed']
        /\ UNCHANGED <<feedVars, shorts, maxInflight, aborted, encoded>>
    BY <1>1, <1>9 DEF ChunkDone
  <2>2. job'[w].at = processed' BY <2>1 DEF NoJob
  <2>3. /\ Low' = Low /\ queue' = queue /\ dma' = dma
        /\ Overrun' = Overrun /\ Margin' = Margin
    BY <2>1 DEF feedVars, Low, Overrun, Margin
  <2>4. /\ processed <= job[w].chunk.rawOffset /\ job[w].chunk.length <= Coalesce
        /\ Ahead(job[w].chunk.rawOffset + job[w].chunk.length)
    BY <2>1 DEF Accounted, Encoding
  <2>5. processed' <= job[w].chunk.rawOffset + job[w].chunk.length
    BY <1>1, <1>2, <2>1, <2>4
  <2>6. Ahead(processed)'
    <3>1. processed' \in Nat BY <1>1, <1>2, <2>1
    <3>2. processed' <= Low' BY <1>2, <1>3, <2>3, <2>4, <2>5, <3>1 DEF Ahead
    <3>3. ASSUME NEW i \in 1 .. Len(queue') PROVE processed' <= queue'[i].rawOffset
      <4>1. queue[i] \in ChunkRecord BY <2>3 DEF TypeOK
      <4>2. queue[i].rawOffset \in Nat BY <4>1 DEF ChunkRecord
      <4>3. job[w].chunk.rawOffset + job[w].chunk.length <= queue[i].rawOffset
        BY <2>3, <2>4 DEF Ahead
      <4> QED BY <1>2, <2>3, <2>5, <3>1, <4>2, <4>3
    <3> QED BY <3>2, <3>3 DEF Ahead
  <2>7. Accounted(w)' BY <2>1, <2>2, <2>6 DEF Accounted, Encoding
  <2>8. Late(w) => Late(w)'
    <3> SUFFICES ASSUME Late(w) PROVE Late(w)' OBVIOUS
    <3>1. dma + Block > job[w].chunk.rawOffset + Ring BY <2>1 DEF Late
    <3>2. dma' + Coalesce + Block > job'[w].at + Ring
      BY <1>1, <1>2, <2>1, <2>2, <2>3, <2>4, <3>1, Constants
    <3> QED BY <2>1, <3>2 DEF Late
  <2> QED BY <2>1, <2>3, <2>7, <2>8 DEF Told
<1>10. CASE Inflight(w)
  <2> DEFINE ahead == IF callback > job[w].at THEN callback - job[w].at ELSE 0
  <2>1. /\ maxInflight' = Larger(maxInflight, ahead) /\ pc[w] = "counted" /\ pc'[w] = "take"
        /\ UNCHANGED <<feedVars, shorts, processed, aborted, encoded>>
    BY <1>1, <1>10 DEF Inflight
  <2>2. ahead \in Nat /\ ahead >= callback - job[w].at BY <1>1, <1>2
  <2> HIDE DEF ahead
  <2>3. maxInflight' \in Nat /\ maxInflight' >= maxInflight /\ maxInflight' >= ahead
    BY <1>1, <2>1, <2>2, LargerBound
  <2>4. Low' = Low /\ queue' = queue /\ Overrun' = Overrun
    BY <2>1 DEF feedVars, Low, Overrun
  <2>5. Accounted(w)'
    BY <2>1, <2>4 DEF Accounted, Encoding, Ahead
  <2> DEFINE m == maxInflight'
  <2>6. m \in Nat /\ m >= maxInflight /\ m >= callback - job[w].at BY <1>1, <1>2, <2>2, <2>3
  <2> HIDE DEF m
  <2>7. Margin \/ Late(w) => m + MaxNode + Coalesce + Block > Ring
    <3>1. CASE Margin BY <1>1, <1>4, <2>6, <3>1 DEF Margin
    <3>2. CASE Late(w)
      <4>1. dma + Coalesce + Block > job[w].at + Ring BY <2>1, <3>2 DEF Late, Encoding
      <4> QED BY <1>1, <1>2, <1>3, <1>4, <2>6, <4>1
    <3> QED BY <3>1, <3>2
  <2>8. Margin \/ Late(w) => Margin' BY <2>7 DEF Margin, m
  <2> QED BY <2>1, <2>4, <2>5, <2>8 DEF Told
<1>11. CASE GiveUp(w)
  <2>1. Encoding(w) /\ pc'[w] = "done" /\ aborted' = TRUE
        /\ UNCHANGED <<feedVars, shorts, processed, maxInflight, encoded>>
    BY <1>1, <1>11 DEF GiveUp, Encoding
  <2>2. Low' = Low /\ queue' = queue BY <2>1 DEF feedVars, Low
  <2>3. /\ processed <= job[w].chunk.rawOffset
        /\ Ahead(job[w].chunk.rawOffset + job[w].chunk.length)
    BY <2>1 DEF Accounted
  <2>4. Ahead(processed)'
    <3>1. processed <= Low' BY <1>1, <1>2, <1>3, <2>2, <2>3 DEF Ahead
    <3>2. ASSUME NEW i \in 1 .. Len(queue') PROVE processed <= queue'[i].rawOffset
      <4>1. queue[i] \in ChunkRecord BY <2>2 DEF TypeOK
      <4>2. queue[i].rawOffset \in Nat BY <4>1 DEF ChunkRecord
      <4>3. job[w].chunk.rawOffset + job[w].chunk.length <= queue[i].rawOffset
        BY <2>2, <2>3 DEF Ahead
      <4> QED BY <1>1, <1>2, <2>2, <2>3, <4>2, <4>3
    <3> QED BY <2>1, <3>1, <3>2 DEF Ahead
  <2>5. ~Encoding(w)' /\ pc'[w] # "counted" BY <2>1 DEF Encoding
  <2>6. Accounted(w)' BY <2>4, <2>5 DEF Accounted
  <2> QED BY <2>1, <2>6 DEF Told
<1>12. CASE StopWorker(w)
  <2>1. /\ pc[w] = "take" /\ pc'[w] \in {"done", "starved"}
        /\ UNCHANGED <<feedVars, job, shorts, processed, maxInflight, aborted, encoded>>
    BY <1>1, <1>12 DEF StopWorker
  <2>2. Low' = Low /\ queue' = queue /\ Overrun' = Overrun /\ Margin' = Margin
    BY <2>1 DEF feedVars, Low, Overrun, Margin
  <2>3. Accounted(w)' BY <2>1, <2>2 DEF Accounted, Encoding, Ahead
  <2>4. ~Late(w) BY <2>1 DEF Late, Encoding
  <2> QED BY <2>1, <2>2, <2>3, <2>4 DEF Told
<1> QED BY <1>5, <1>7, <1>8, <1>9, <1>10, <1>11, <1>12 DEF Worker

---------------------------------------------------------------------------
(* The theorems.                                                           *)

LEMMA InitInv == Init => IInv
<1> SUFFICES ASSUME Init PROVE IInv OBVIOUS
<1>1. TypeOK
  <2>1. PICK some \in (SUBSET Workers) \ {{}} :
          pc = [w \in Workers |-> IF w \in some THEN "take" ELSE "off"]
    BY DEF Init
  <2>2. pc \in [Workers -> {"off", "take", "copied", "blocks", "counted", "done", "starved"}] BY <2>1
  <2>3. queue \in Seq(ChunkRecord) /\ Len(queue) = 0 BY DEF Init
  <2>4. encoded \in [Blocks -> Outcomes] BY DEF Init, Outcomes
  <2>5. job \in [Workers -> JobRecord] /\ pending \in ChunkRecord BY NoneType DEF Init
  <2>6. /\ dma = 0 /\ callback = 0 /\ overflow = 0 /\ shorts = 0 /\ processed = 0
        /\ maxInflight = 0 /\ aborted = FALSE
    BY DEF Init
  <2>7. Len(queue) <= QueueDepth BY <2>3, Constants
  <2>8. /\ dma \in Nat /\ callback \in Nat /\ overflow \in Nat /\ shorts \in Nat
        /\ processed \in Nat /\ maxInflight \in Nat /\ aborted \in BOOLEAN
    BY <2>6
  <2> QED BY <2>2, <2>3, <2>4, <2>5, <2>7, <2>8 DEF TypeOK
<1>2. dma % Ring = 0
  <2>1. Ring \in Nat \ {0} /\ dma = 0 BY Constants DEF Init
  <2> QED BY <2>1
<1>3. queue = <<>> /\ Len(queue) = 0 BY DEF Init
<1>4. FeedOrder BY <1>2, <1>3, Constants DEF Init, FeedOrder
<1>5. ASSUME NEW w \in Workers PROVE Accounted(w) /\ Told(w)
  <2>1. pc[w] \in {"take", "off"} BY DEF Init
  <2>2. Low = 0 /\ processed = 0 BY DEF Init, Low
  <2>3. Accounted(w) BY <1>3, <2>1, <2>2 DEF Accounted, Encoding, Ahead
  <2>4. ~Overrun BY DEF Init, Overrun
  <2> QED BY <2>1, <2>3, <2>4 DEF Told
<1> QED BY <1>1, <1>4, <1>5 DEF IInv

LEMMA StepInv == IInv /\ [Next]_vars => IInv'
<1> SUFFICES ASSUME IInv, [Next]_vars PROVE IInv' OBVIOUS
<1>1. TypeOK /\ FeedOrder BY DEF IInv
<1>2. \A w \in Workers : Only(w)' => Only(w) /\ Accounted(w) /\ Told(w)
  BY <1>1, OnlyKept DEF IInv
<1>3. CASE Write
  <2>1. /\ dma' \in Nat /\ dma <= dma' /\ dma' <= callback + MaxNode
        /\ dma' % Ring \in {0} \cup NodeEnds
    BY <1>1, <1>3, WriteStep
  <2>2. UNCHANGED <<callback, pending, queue, overflow, pc, job, shorts, processed, maxInflight,
                    aborted, encoded>>
    BY <1>3 DEF Write
  <2>3. TypeOK' BY <1>1, <2>1, <2>2 DEF TypeOK
  <2>4. callback <= dma' BY <1>1, <2>1 DEF FeedOrder, TypeOK
  <2>5. Low' = Low BY <2>2 DEF Low
  <2>6. FeedOrder' BY <1>1, <2>1, <2>2, <2>4, <2>5 DEF FeedOrder
  <2>7. \A n \in Nat : Ahead(n) => Ahead(n)' BY <2>2, <2>5 DEF Ahead
  <2>8. \A w \in Workers : Only(w)' => Accounted(w)' /\ Told(w)'
    BY <1>1, <1>2, <2>1, <2>2, <2>7, FeedKeeps
  <2> QED BY <2>3, <2>6, <2>8 DEF IInv
<1>4. CASE onPartialReceive
  <2>1. TypeOK' /\ FeedOrder' /\ \A n \in Nat : Ahead(n) => Ahead(n)'
    BY <1>1, <1>4, ReceiveStep
  <2>2. UNCHANGED <<dma, pc, job, shorts, processed, maxInflight, aborted, encoded>>
    BY <1>4 DEF onPartialReceive
  <2>3. dma' \in Nat /\ dma <= dma' BY <1>1, <2>2 DEF TypeOK
  <2>4. \A w \in Workers : Only(w)' => Accounted(w)' /\ Told(w)'
    BY <1>1, <1>2, <2>1, <2>2, <2>3, FeedKeeps
  <2> QED BY <2>1, <2>4 DEF IInv
<1>5. ASSUME NEW v \in Workers, Worker(v) PROVE IInv'
  <2>1. TypeOK' BY <1>1, <1>5, WorkerType
  <2>2. FeedOrder'
    <3>1. CASE TakeChunk(v)
      <4>1. /\ queue # <<>> /\ queue' = Tail(queue)
            /\ UNCHANGED <<dma, callback, pending>>
        BY <3>1 DEF TakeChunk
      <4> QED BY <1>1, <4>1, TakeEffect
    <3>2. CASE UNCHANGED feedVars
      <4>1. UNCHANGED <<dma, callback, pending, queue>> BY <3>2 DEF feedVars
      <4>2. Low' = Low BY <4>1 DEF Low
      <4> QED BY <1>1, <4>1, <4>2 DEF FeedOrder
    <3> QED BY <1>5, <3>1, <3>2
            DEF Worker, PlaceStraddle, PlaceBlock, ChunkDone, Inflight, GiveUp, StopWorker
  <2>3. ASSUME NEW w \in Workers, Only(w)' PROVE Accounted(w)' /\ Told(w)'
    <3>1. Only(w) /\ Accounted(w) /\ Told(w) BY <1>2, <2>3
    <3>2. v = w BY <1>1, <1>5, <3>1, OnlyActs
    <3> QED BY <1>1, <1>5, <3>1, <3>2, WorkerKeeps
  <2> QED BY <2>1, <2>2, <2>3 DEF IInv
<1>6. CASE UNCHANGED vars
  <2>1. UNCHANGED <<dma, callback, pending, queue, overflow, pc, job, shorts, processed,
                    maxInflight, aborted, encoded>>
    BY <1>6 DEF vars, feedVars
  <2>2. TypeOK' BY <1>1, <2>1 DEF TypeOK
  <2>3. Low' = Low BY <2>1 DEF Low
  <2>4. FeedOrder' BY <1>1, <2>1, <2>3 DEF FeedOrder
  <2>5. dma' \in Nat /\ dma <= dma' BY <1>1, <2>1 DEF TypeOK
  <2>6. \A n \in Nat : Ahead(n) => Ahead(n)' BY <2>1, <2>3 DEF Ahead
  <2>7. \A w \in Workers : Only(w)' => Accounted(w)' /\ Told(w)'
    BY <1>1, <1>2, <2>1, <2>5, <2>6, FeedKeeps
  <2> QED BY <2>2, <2>4, <2>7 DEF IInv
<1> QED BY <1>3, <1>4, <1>5, <1>6 DEF Next, Finished

\* The inductive invariant holds throughout: in particular the state keeps its type, the DMA is at
\* most one node ahead of the ISR, and the queued chunks follow one another in the stream.
THEOREM FeedInvariant == Spec => []IInv
<1>1. Init => IInv BY InitInv
<1>2. IInv /\ [Next]_vars => IInv' BY StepInv
<1> QED BY <1>1, <1>2, PTL DEF Spec

\* With one codec worker the reported max_inflight tells every overrun, up to a node, a chunk and a
\* block (codecWorkerBody, .ino:764-767).
THEOREM OverrunTold == Spec => []InflightMargin
<1>1. IInv => InflightMargin
  <2> SUFFICES ASSUME IInv, Single, Overrun, ~InHand, ~aborted
               PROVE  maxInflight + MaxNode + Coalesce + Block > Ring
    BY DEF InflightMargin
  <2>1. PICK w \in Workers : Only(w) BY DEF Single, Only
  <2>2. Told(w) BY <2>1 DEF IInv
  <2>3. ~Late(w) BY <2>1 DEF Late, Encoding, InHand
  <2> QED BY <2>2, <2>3 DEF Told, Margin
<1> QED BY <1>1, FeedInvariant, PTL

---------------------------------------------------------------------------
(* The blocks: each is encoded once, from its own bytes, and none is left   *)
(* out.                                                                     *)

\* The bytes of the chunk are in one piece of the ring, at their place, a block of them or more.
Sound(c) ==
  /\ c.data = c.rawOffset % Ring /\ c.data + c.length <= Ring
  /\ Block <= c.length

FeedSound ==
  /\ callback < dma =>
       (callback % Ring) + (dma - callback) <= Ring /\ Block <= dma - callback
  /\ pending # NoChunk => Sound(pending)
  /\ \A i \in 1 .. Len(queue) : Sound(queue[i])
  /\ TargetRawBytes <= callback => pending = NoChunk

\* No chunk was lost: what is queued goes on without a gap.
Linked ==
  overflow = 0 =>
    \A i \in 1 .. Len(queue) :
      queue[i].rawOffset + queue[i].length = IF i = Len(queue) THEN Low ELSE queue[i + 1].rawOffset

\* The blocks of its chunk that worker w has yet to encode.
Left(w) == job[w].full + (IF pc[w] = "copied" THEN 1 ELSE 0)
Hand(w) ==
  IF Encoding(w) THEN {b \in Blocks : job[w].block <= b /\ b < job[w].block + Left(w)} ELSE {}

\* Where the worker is in its chunk.
JobSound(w) ==
  Encoding(w) =>
    /\ Sound(job[w].chunk) /\ job[w].chunk.rawOffset + job[w].chunk.length <= Front
    /\ job[w].full \in Nat /\ job[w].block + Left(w) <= TargetBlocks
    /\ job[w].at + job[w].full * Block <= job[w].chunk.length
    /\ pc[w] = "copied" =>
         /\ (job[w].block + 1) * Block = job[w].chunk.rawOffset + job[w].at
         /\ job[w].copy \in {"good", "overrun"}
    /\ pc[w] = "blocks" => job[w].block * Block = job[w].chunk.rawOffset + job[w].at

\* Each block is with one worker at most, and only what lies before the front is encoded or in hand.
Once ==
  /\ \A b \in Blocks : /\ encoded[b] \in {"no", "good", "overrun"}
                       /\ encoded[b] # "no" => Ends(b) <= Front
  /\ \A w \in Workers : \A b \in Hand(w) : encoded[b] = "no" /\ Ends(b) <= Front
  /\ \A v, w \in Workers : v # w => Hand(v) \cap Hand(w) = {}

\* Without a lost chunk or an abort every block before the front is encoded or in hand.
NoneLeft ==
  /\ shorts = 0
  /\ \E w \in Workers : pc[w] # "off"
  /\ ~aborted => \A w \in Workers : pc[w] = "done" => TargetRawBytes <= Front
  /\ overflow = 0 /\ ~aborted =>
       \A b \in Blocks : Ends(b) <= Front => encoded[b] # "no" \/ \E w \in Workers : b \in Hand(w)

LEMMA FrontType ==
  ASSUME TypeOK
  PROVE  Low \in Nat /\ Front \in Nat
<1>1. Low \in Nat BY DEF TypeOK, Low, ChunkRecord
<1>2. CASE queue = <<>> BY <1>1, <1>2 DEF Front
<1>3. CASE queue # <<>>
  <2>1. queue \in Seq(ChunkRecord) /\ Len(queue) \in Nat \ {0} BY <1>3, EmptySeq DEF TypeOK
  <2>2. queue[1] \in ChunkRecord BY <2>1
  <2> QED BY <1>1, <1>3, <2>2 DEF Front, ChunkRecord
<1> QED BY <1>2, <1>3

\* The node that is written ends in the ring.
LEMMA WriteSound ==
  ASSUME TypeOK, FeedOrder, FeedSound, Write
  PROVE  FeedSound'
<1> DEFINE x == dma % Ring
<1>1. dma \in Nat /\ dma = callback BY DEF TypeOK, Write
<1>2. x \in 0 .. Ring - 1 /\ x \in {0} \cup NodeEnds
  BY <1>1, Constants, DivMod DEF FeedOrder
<1>3. PICK e \in NodeEnds : IsNextEnd(x, e) /\ dma' = dma + e - x
  BY DEF Write
<1>4. e \in 1 .. Ring /\ e - x \in Block .. MaxNode
  BY <1>2, <1>3, FeedAssumption
<1>5. UNCHANGED <<callback, pending, queue>> BY DEF Write
<1>6. callback' % Ring = x BY <1>1, <1>5
<1> HIDE DEF x
<1>7. dma' - callback' = e - x /\ x + (e - x) = e /\ e <= Ring /\ Block <= e - x
  BY <1>1, <1>2, <1>3, <1>4, <1>5, Constants
<1>8. (callback' % Ring) + (dma' - callback') <= Ring /\ Block <= dma' - callback'
  BY <1>6, <1>7
<1> QED BY <1>5, <1>8 DEF FeedSound, Sound

\* A chunk after another, and a chunk alone.
LEMMA OneTwo ==
  ASSUME NEW a, a \in ChunkRecord, NEW b, b \in ChunkRecord
  PROVE  /\ Len(Append(<<a>>, b)) = 2 /\ Append(<<a>>, b)[1] = a /\ Append(<<a>>, b)[2] = b
         /\ Append(<<>>, a) = <<a>>
         /\ Len(<<a>>) = 1 /\ <<a>>[1] = a
         /\ \A k \in 1 .. 1 : k = 1
         /\ \A k \in 1 .. 2 : k = 1 \/ k = 2
<1>1. PICK s \in Seq(ChunkRecord) : s = <<a>>
  <2>1. <<a>> \in Seq(ChunkRecord) OBVIOUS
  <2> QED BY <2>1
<1>2. Len(s) = 1 /\ s[1] = a BY <1>1
<1>3. /\ Len(Append(s, b)) = Len(s) + 1 /\ Append(s, b)[Len(s) + 1] = b
      /\ \A i \in 1 .. Len(s) : Append(s, b)[i] = s[i]
  BY AppendProperties
<1>4. Len(Append(s, b)) = 2 /\ Append(s, b)[1] = a /\ Append(s, b)[2] = b
  BY <1>2, <1>3
<1>5. Append(<<>>, a) = <<a>> OBVIOUS
<1>6. Len(<<a>>) = 1 /\ <<a>>[1] = a OBVIOUS
<1>7. \A k \in 1 .. 1 : k = 1 OBVIOUS
<1>8. \A k \in 1 .. 2 : k = 1 \/ k = 2 OBVIOUS
<1> QED BY <1>1, <1>4, <1>5, <1>6, <1>7, <1>8

\* What a node pushes and leaves pending is in one piece, and goes on where the feed was.
LEMMA ArrivedSound ==
  ASSUME TypeOK, FeedOrder, FeedSound, NEW data \in Nat, NEW bytes \in 1 .. MaxNode,
         callback + bytes = dma, data = callback % Ring,
         NEW now, now = Arrived(data, bytes),
         NEW low, low = IF now.pending = NoChunk THEN dma ELSE now.pending.rawOffset
  PROVE  /\ now.pending # NoChunk => Sound(now.pending)
         /\ \A k \in 1 .. Len(now.pushed) : Sound(now.pushed[k])
         /\ TargetRawBytes <= dma => now.pending = NoChunk
         /\ Len(now.pushed) = 0 => low = Low
         /\ Len(now.pushed) # 0 => now.pushed[1].rawOffset = Low
         /\ \A k \in 1 .. Len(now.pushed) :
              now.pushed[k].rawOffset + now.pushed[k].length =
                IF k = Len(now.pushed) THEN low ELSE now.pushed[k + 1].rawOffset
<1> DEFINE joined == [pending EXCEPT !.length = @ + bytes]
           fresh  == Chunk(data, bytes, callback)
           next   == IF Joins(pending, data, bytes) THEN joined ELSE fresh
           before == IF next = fresh /\ pending # NoChunk THEN <<pending>> ELSE <<>>
           flush  == callback + bytes >= TargetRawBytes \/ next.length >= Coalesce
<1>1. /\ dma \in Nat /\ callback \in Nat /\ pending \in ChunkRecord /\ bytes \in Nat
      /\ Block \in Nat /\ Ring \in Nat
  BY Constants DEF TypeOK
<1>2. bytes = dma - callback /\ callback < dma BY <1>1
<1>3. data + bytes <= Ring /\ Block <= bytes BY <1>2 DEF FeedSound
<1>4. /\ fresh.data = data /\ fresh.length = bytes /\ fresh.rawOffset = callback
      /\ fresh # NoChunk
  BY <1>1, NoneType DEF Chunk
<1>5. Sound(fresh) /\ fresh.rawOffset + fresh.length = dma BY <1>3, <1>4 DEF Sound
<1>6. ASSUME Joins(pending, data, bytes)
      PROVE  /\ Sound(joined) /\ joined.rawOffset = Low /\ joined.rawOffset + joined.length = dma
             /\ joined # NoChunk /\ joined.length # pending.length
  <2>1. /\ pending # NoChunk /\ pending.data + pending.length = data
        /\ pending.rawOffset + pending.length = callback
    BY <1>6 DEF Joins, FeedOrder
  <2>2. pending.data \in Nat /\ pending.length \in Nat /\ pending.rawOffset \in Nat
    BY <1>1 DEF ChunkRecord
  <2>3. /\ joined.data = pending.data /\ joined.rawOffset = pending.rawOffset
        /\ joined.length = pending.length + bytes
    BY <1>1 DEF ChunkRecord
  <2>4. Sound(pending) BY <2>1 DEF FeedSound
  <2> HIDE DEF joined
  <2>5. joined.data + joined.length <= Ring /\ Block <= joined.length
    BY <1>1, <1>3, <2>1, <2>2, <2>3
  <2>6. Sound(joined) BY <2>3, <2>4, <2>5 DEF Sound
  <2>7. joined.length # 0 /\ joined.length # pending.length /\ joined.rawOffset + joined.length = dma
    BY <1>1, <2>1, <2>2, <2>3
  <2> QED BY <2>1, <2>3, <2>6, <2>7, NoneType DEF Low
<1>7. next # NoChunk /\ Sound(next) /\ next.rawOffset + next.length = dma
  BY <1>4, <1>5, <1>6
<1>8. next \in ChunkRecord /\ pending \in ChunkRecord
  <2>1. fresh \in ChunkRecord BY <1>1 DEF Chunk, ChunkRecord
  <2>2. joined \in ChunkRecord BY <1>1 DEF ChunkRecord
  <2> QED BY <1>1, <2>1, <2>2
<1>9. CASE next = fresh /\ pending # NoChunk
  <2>1. /\ Sound(pending) /\ Low = pending.rawOffset
        /\ pending.rawOffset + pending.length = next.rawOffset
    BY <1>4, <1>9 DEF FeedSound, Low, FeedOrder
  <2>2. before = <<pending>> BY <1>9
  <2>3. now = [pushed |-> IF flush THEN Append(<<pending>>, next) ELSE <<pending>>,
               pending |-> IF flush THEN NoChunk ELSE next]
    BY <2>2 DEF Arrived, Flushes
  <2>4. TargetRawBytes <= dma => flush OBVIOUS
  <2> HIDE DEF next, flush, before, joined, fresh
  <2>5. CASE flush
    <3>1. now.pushed = Append(<<pending>>, next) /\ now.pending = NoChunk /\ low = dma BY <2>3, <2>5
    <3>2. Len(now.pushed) = 2 /\ now.pushed[1] = pending /\ now.pushed[2] = next
      <4>1. PICK a, b : a = pending /\ b = next OBVIOUS
      <4>2. /\ Len(Append(<<a>>, b)) = 2 /\ Append(<<a>>, b)[1] = a
            /\ Append(<<a>>, b)[2] = b
        BY <1>8, <4>1, OneTwo
      <4> QED BY <3>1, <4>1, <4>2
    <3>3. \A k \in 1 .. Len(now.pushed) : k = 1 \/ k = 2 BY <1>8, <3>2, OneTwo
    <3> QED BY <1>7, <2>1, <3>1, <3>2, <3>3
  <2>6. CASE ~flush
    <3>1. now.pushed = <<pending>> /\ now.pending = next /\ low = next.rawOffset
      BY <1>7, <2>3, <2>6
    <3>2. Len(now.pushed) = 1 /\ now.pushed[1] = pending BY <1>8, <3>1, OneTwo
    <3>3. \A k \in 1 .. Len(now.pushed) : k = 1 BY <1>8, <3>2, OneTwo
    <3> QED BY <1>7, <2>1, <2>4, <2>6, <3>1, <3>2, <3>3
  <2> QED BY <2>5, <2>6
<1>10. CASE ~(next = fresh /\ pending # NoChunk)
  <2>1. next.rawOffset = Low
    <3>1. CASE Joins(pending, data, bytes) BY <1>6, <3>1
    <3>2. CASE ~Joins(pending, data, bytes)
      <4>1. next = fresh /\ pending = NoChunk BY <1>10, <3>2
      <4> QED BY <1>4, <4>1 DEF Low
    <3> QED BY <3>1, <3>2
  <2>2. before = <<>> BY <1>10
  <2>3. now = [pushed |-> IF flush THEN <<next>> ELSE <<>>,
               pending |-> IF flush THEN NoChunk ELSE next]
    <3>1. Append(before, next) = <<next>> BY <1>8, <2>2, OneTwo
    <3> QED BY <2>2, <3>1 DEF Arrived, Flushes
  <2>4. TargetRawBytes <= dma => flush OBVIOUS
  <2> HIDE DEF next, flush, before, joined, fresh
  <2>5. CASE flush
    <3>1. now.pushed = <<next>> /\ now.pending = NoChunk /\ low = dma BY <2>3, <2>5
    <3>2. Len(now.pushed) = 1 /\ now.pushed[1] = next BY <1>8, <3>1, OneTwo
    <3>3. \A k \in 1 .. Len(now.pushed) : k = 1 BY <1>8, <3>2, OneTwo
    <3> QED BY <1>7, <2>1, <3>1, <3>2, <3>3
  <2>6. CASE ~flush
    <3>1. now.pushed = <<>> /\ now.pending = next /\ low = next.rawOffset
      BY <1>7, <2>3, <2>6
    <3>2. Len(now.pushed) = 0 BY <3>1
    <3> QED BY <1>7, <2>1, <2>4, <2>6, <3>1, <3>2
  <2> QED BY <2>5, <2>6
<1> QED BY <1>9, <1>10

\* onPartialReceive() does not move the front, and breaks the feed only where it loses a chunk.
LEMMA ReceiveSound ==
  ASSUME TypeOK, FeedOrder, FeedSound, Linked, onPartialReceive
  PROVE  FeedSound' /\ Linked' /\ Front' = Front /\ (overflow' = 0 => overflow = 0)
<1> DEFINE data == callback % Ring
           bytes == dma - callback
           now == Arrived(data, bytes)
           kept == IF Len(now.pushed) <= QueueDepth - Len(queue) THEN Len(now.pushed)
                   ELSE QueueDepth - Len(queue)
           low == IF now.pending = NoChunk THEN dma ELSE now.pending.rawOffset
<1>1. /\ dma \in Nat /\ callback \in Nat /\ overflow \in Nat
      /\ queue \in Seq(ChunkRecord) /\ Len(queue) <= QueueDepth
      /\ Len(queue) \in Nat /\ QueueDepth \in Nat \ {0}
  BY Constants DEF TypeOK
<1>2. data \in Nat BY <1>1, Constants, DivMod
<1>3. bytes \in 1 .. MaxNode /\ callback + bytes = dma
  BY <1>1, Constants DEF onPartialReceive, FeedOrder
<1>4. /\ callback' = dma /\ pending' = now.pending /\ dma' = dma
      /\ queue' = queue \o SubSeq(now.pushed, 1, kept)
      /\ overflow' = overflow + Len(now.pushed) - kept
  BY DEF onPartialReceive
<1>5. now = Arrived(data, bytes) /\ data = callback % Ring BY DEF now
<1> HIDE DEF data, bytes, now, kept
<1>6. now.pushed \in Seq(ChunkRecord) BY <1>2, <1>3, <1>5, ArrivedEffect
<1>7. /\ now.pending # NoChunk => Sound(now.pending)
      /\ \A k \in 1 .. Len(now.pushed) : Sound(now.pushed[k])
      /\ TargetRawBytes <= dma => now.pending = NoChunk
      /\ Len(now.pushed) = 0 => low = Low
      /\ Len(now.pushed) # 0 => now.pushed[1].rawOffset = Low
      /\ \A k \in 1 .. Len(now.pushed) :
           now.pushed[k].rawOffset + now.pushed[k].length =
             IF k = Len(now.pushed) THEN low ELSE now.pushed[k + 1].rawOffset
  BY <1>2, <1>3, <1>5, ArrivedSound
<1> DEFINE p == now.pushed
<1>8. /\ p \in Seq(ChunkRecord) /\ queue' = queue \o SubSeq(p, 1, kept) /\ Len(p) \in Nat
      /\ kept = IF Len(p) <= QueueDepth - Len(queue) THEN Len(p) ELSE QueueDepth - Len(queue)
  BY <1>4, <1>6 DEF kept
<1> HIDE DEF p
<1>9. /\ queue' \in Seq(ChunkRecord) /\ Len(queue') <= QueueDepth /\ kept \in 0 .. Len(p)
      /\ Len(queue') = Len(queue) + kept
      /\ \A i \in 1 .. Len(queue) : queue'[i] = queue[i]
      /\ \A i \in Len(queue) + 1 .. Len(queue') :
           queue'[i] = p[i - Len(queue)] /\ i - Len(queue) \in 1 .. Len(p)
  BY <1>1, <1>8, QueueEffect
<1>10. Low' = low BY <1>4 DEF Low
<1> HIDE DEF low
<1>11. ASSUME NEW i \in 1 .. Len(queue')
       PROVE  \/ i \in 1 .. Len(queue) /\ queue'[i] = queue[i]
              \/ i > Len(queue) /\ i - Len(queue) \in 1 .. Len(p) /\ queue'[i] = p[i - Len(queue)]
  <2>1. i \in 1 .. Len(queue) \/ i \in Len(queue) + 1 .. Len(queue') BY <1>1, <1>9
  <2> QED BY <1>1, <1>9, <2>1
<1>12. FeedSound'
  <2>1. ~(callback' < dma') BY <1>1, <1>4
  <2>2. pending' # NoChunk => Sound(pending') BY <1>4, <1>7
  <2>3. \A i \in 1 .. Len(queue') : Sound(queue'[i])
    BY <1>7, <1>11 DEF FeedSound, p
  <2>4. TargetRawBytes <= callback' => pending' = NoChunk BY <1>4, <1>7
  <2>5. \A c : Sound(c)' <=> Sound(c) BY DEF Sound
  <2>6. pending' # NoChunk => Sound(pending)' BY <2>2 DEF Sound
  <2>7. \A i \in 1 .. Len(queue') : Sound(queue[i])' BY <2>3 DEF Sound
  <2>8. (TargetRawBytes <= callback => pending = NoChunk)' BY <2>4 DEF TargetRawBytes
  <2> QED BY <2>1, <2>6, <2>7, <2>8 DEF FeedSound
<1>13. overflow' = 0 => overflow = 0 /\ kept = Len(p)
  <2>1. overflow' = overflow + Len(p) - kept BY <1>4 DEF p
  <2>2. overflow \in Nat /\ Len(p) \in Nat /\ kept \in 0 .. Len(p) BY <1>1, <1>8, <1>9
  <2> QED BY <2>1, <2>2
<1>14. Front' = Front
  <2>1. CASE queue # <<>>
    <3>1. Len(queue) # 0 BY <1>1, <2>1, EmptySeq
    <3>2. 1 \in 1 .. Len(queue) /\ Len(queue') # 0 BY <1>1, <1>9, <3>1
    <3>3. queue' # <<>> BY <3>2
    <3> QED BY <1>9, <2>1, <3>2, <3>3 DEF Front
  <2>2. CASE queue = <<>> /\ Len(p) = 0
    <3>1. Len(queue) = 0 BY <2>2
    <3>2. Len(queue') = 0 BY <1>9, <2>2, <3>1
    <3>3. queue' = <<>> BY <1>9, <3>2, EmptySeq
    <3>4. Low' = Low BY <1>7, <1>10, <2>2 DEF p
    <3> QED BY <2>2, <3>3, <3>4 DEF Front
  <2>3. CASE queue = <<>> /\ Len(p) # 0
    <3>1. Len(queue) = 0 BY <2>3
    <3>2. kept # 0 BY <1>1, <1>8, <2>3, <3>1
    <3>3. 1 \in Len(queue) + 1 .. Len(queue') /\ 1 - Len(queue) = 1 BY <1>9, <3>1, <3>2
    <3>4. queue'[1] = p[1] BY <1>9, <3>3
    <3>5. queue' # <<>>
      <4>1. Len(queue') # 0 BY <1>9, <3>1, <3>2
      <4> QED BY <4>1
    <3>6. Front' = queue'[1].rawOffset BY <3>5 DEF Front
    <3>7. Front = Low BY <2>3 DEF Front
    <3> QED BY <1>7, <2>3, <3>4, <3>6, <3>7 DEF p
  <2> QED BY <2>1, <2>2, <2>3
<1>15. Linked'
  <2> SUFFICES ASSUME overflow' = 0, NEW i \in 1 .. Len(queue')
               PROVE  queue'[i].rawOffset + queue'[i].length =
                        IF i = Len(queue') THEN Low' ELSE queue'[i + 1].rawOffset
    BY DEF Linked
  <2>1. overflow = 0 /\ kept = Len(p) /\ Len(queue') = Len(queue) + Len(p) BY <1>9, <1>13
  <2>2. CASE i < Len(queue)
    <3>1. i \in 1 .. Len(queue) /\ i + 1 \in 1 .. Len(queue) /\ i # Len(queue) /\ i # Len(queue')
      BY <1>1, <1>8, <2>1, <2>2
    <3>2. queue[i].rawOffset + queue[i].length = queue[i + 1].rawOffset BY <2>1, <3>1 DEF Linked
    <3> QED BY <1>9, <3>1, <3>2
  <2>3. CASE i = Len(queue)
    <3>1. queue[i].rawOffset + queue[i].length = Low /\ queue'[i] = queue[i]
      BY <1>9, <1>1, <2>1, <2>3 DEF Linked
    <3>2. CASE Len(p) = 0
      <4>1. i = Len(queue') BY <1>1, <2>1, <2>3, <3>2
      <4>2. Low' = Low BY <1>7, <1>10, <3>2 DEF p
      <4> QED BY <3>1, <4>1, <4>2
    <3>3. CASE Len(p) # 0
      <4>1. i # Len(queue') /\ i + 1 \in Len(queue) + 1 .. Len(queue') /\ i + 1 - Len(queue) = 1
        BY <1>1, <1>8, <2>1, <2>3, <3>3
      <4>2. queue'[i + 1] = p[1] BY <1>9, <4>1
      <4>3. p[1].rawOffset = Low BY <1>7, <3>3 DEF p
      <4> QED BY <3>1, <4>1, <4>2, <4>3
    <3> QED BY <3>2, <3>3
  <2>4. CASE i > Len(queue)
    <3>1. PICK k : k = i - Len(queue) OBVIOUS
    <3>2. k \in 1 .. Len(p) /\ queue'[i] = p[k] BY <1>11, <2>4, <1>1, <3>1
    <3>3. p[k].rawOffset + p[k].length = IF k = Len(p) THEN low ELSE p[k + 1].rawOffset
      BY <1>7, <3>2 DEF p
    <3>4. CASE k = Len(p)
      <4>1. i = Len(queue') BY <1>1, <1>8, <2>1, <3>1, <3>4
      <4> QED BY <1>10, <3>2, <3>3, <3>4, <4>1
    <3>5. CASE k # Len(p)
      <4>1. i # Len(queue') /\ i + 1 \in Len(queue) + 1 .. Len(queue') /\ i + 1 - Len(queue) = k + 1
        BY <1>1, <1>8, <2>1, <3>1, <3>2, <3>5
      <4>2. queue'[i + 1] = p[k + 1] BY <1>9, <4>1
      <4> QED BY <3>2, <3>3, <3>5, <4>1, <4>2
    <3> QED BY <3>4, <3>5
  <2> QED BY <1>1, <2>2, <2>3, <2>4
<1> QED BY <1>12, <1>13, <1>14, <1>15

\* The front moves over the chunk that is taken, and over what was lost after it.
LEMMA TakeSound ==
  ASSUME TypeOK, FeedOrder, FeedSound, Linked, queue # <<>>, queue' = Tail(queue),
         UNCHANGED <<dma, callback, pending, overflow>>, NEW c, c = Head(queue)
  PROVE  /\ FeedSound' /\ Linked'
         /\ c \in ChunkRecord /\ Sound(c) /\ Front = c.rawOffset
         /\ c.rawOffset + c.length <= callback
         /\ c.rawOffset + c.length <= Front'
         /\ overflow = 0 => Front' = c.rawOffset + c.length
<1>1. queue \in Seq(ChunkRecord) BY DEF TypeOK
<1>2. /\ queue' \in Seq(ChunkRecord) /\ Len(queue') = Len(queue) - 1
      /\ \A i \in 1 .. Len(queue') : queue'[i] = queue[i + 1]
      /\ Len(queue) \in Nat \ {0} /\ c = queue[1]
  BY <1>1, HeadTailProperties, EmptySeq
<1>3. Len(queue') \in Nat /\ \A i \in 1 .. Len(queue') : i + 1 \in 1 .. Len(queue)
  BY <1>2
<1>4. c \in ChunkRecord /\ 1 \in 1 .. Len(queue) BY <1>1, <1>2
<1>5. c.rawOffset \in Nat /\ c.length \in Nat /\ Low \in Nat /\ callback \in Nat /\ Low <= callback
  <2>1. pending # NoChunk => pending.rawOffset \in Nat /\ pending.length \in Nat
    BY DEF TypeOK, ChunkRecord
  <2>2. callback \in Nat BY DEF TypeOK
  <2>3. Low \in Nat /\ Low <= callback BY <2>1, <2>2 DEF Low, FeedOrder
  <2> QED BY <1>4, <2>2, <2>3 DEF ChunkRecord
<1>6. Low' = Low BY DEF Low
<1>7. Sound(c) /\ c.rawOffset + c.length <= Low BY <1>2, <1>4 DEF FeedSound, FeedOrder
<1>8. Front = c.rawOffset BY <1>2 DEF Front
<1>9. FeedSound'
  <2>1. \A i \in 1 .. Len(queue') : Sound(queue[i])' BY <1>2, <1>3 DEF FeedSound, Sound
  <2>2. pending' # NoChunk => Sound(pending)' BY DEF FeedSound, Sound
  <2>3. (TargetRawBytes <= callback => pending = NoChunk)' BY DEF FeedSound, TargetRawBytes
  <2> QED BY <2>1, <2>2, <2>3 DEF FeedSound
<1>10. Linked'
  <2> SUFFICES ASSUME overflow' = 0, NEW i \in 1 .. Len(queue')
               PROVE  queue'[i].rawOffset + queue'[i].length =
                        IF i = Len(queue') THEN Low' ELSE queue'[i + 1].rawOffset
    BY DEF Linked
  <2>1. queue[i + 1].rawOffset + queue[i + 1].length =
          IF i + 1 = Len(queue) THEN Low ELSE queue[i + 1 + 1].rawOffset
    BY <1>3 DEF Linked
  <2>2. CASE i = Len(queue') BY <1>2, <1>6, <2>1, <2>2
  <2>3. CASE i # Len(queue')
    <3>1. Len(queue) \in Nat /\ Len(queue') = Len(queue) - 1 BY <1>2
    <3>2. i \in 1 .. Len(queue') /\ Len(queue') \in Nat BY <1>3
    <3>3. PICK m, n : m = Len(queue) /\ n = Len(queue') OBVIOUS
    <3>4. m \in Nat /\ n = m - 1 /\ i \in 1 .. n /\ i # n BY <2>3, <3>1, <3>2, <3>3
    <3>5. i + 1 \in 1 .. n /\ i + 1 # m BY <3>4
    <3>6. i + 1 \in 1 .. Len(queue') /\ i + 1 # Len(queue) BY <3>3, <3>5
    <3> QED BY <1>2, <2>1, <2>3, <3>6
  <2> QED BY <2>2, <2>3
<1>11. /\ c.rawOffset + c.length <= Front'
       /\ overflow = 0 => Front' = c.rawOffset + c.length
  <2>1. CASE Len(queue) = 1
    <3>1. Len(queue') = 0 BY <1>2, <2>1
    <3>2. Front' = Low BY <1>2, <1>6, <3>1, EmptySeq DEF Front
    <3>3. overflow = 0 => c.rawOffset + c.length = Low BY <1>2, <1>4, <2>1 DEF Linked
    <3> QED BY <1>7, <3>2, <3>3
  <2>2. CASE Len(queue) # 1
    <3>1. Len(queue') # 0 /\ 1 \in 1 .. Len(queue') /\ 1 + 1 = 2 /\ 2 \in 1 .. Len(queue) /\ 1 < 2
      BY <1>2, <2>2
    <3>2. queue' # <<>> BY <3>1
    <3>3. queue'[1] = queue[2] BY <1>2, <3>1
    <3>4. Front' = queue[2].rawOffset BY <3>2, <3>3 DEF Front
    <3>5. c.rawOffset + c.length <= queue[2].rawOffset BY <1>2, <1>4, <3>1 DEF FeedOrder
    <3>6. overflow = 0 => c.rawOffset + c.length = queue[2].rawOffset
      BY <1>2, <1>4, <2>2, <3>1 DEF Linked
    <3> QED BY <3>4, <3>5, <3>6
  <2> QED BY <2>1, <2>2
<1>12. c.rawOffset + c.length <= callback BY <1>5, <1>7
<1> QED BY <1>4, <1>7, <1>8, <1>9, <1>10, <1>11, <1>12

---------------------------------------------------------------------------
(* Reading the ring, and counting blocks.                                   *)

\* n bytes from position p on are where they were written as long as the DMA has not come round.
LEMMA HoldsFrom ==
  ASSUME dma \in Nat, NEW q \in Nat, NEW x \in Nat, NEW n \in Nat, NEW p \in Nat, p = q * Ring + x,
         x + n <= Ring, p + n <= dma, dma <= p + Ring
  PROVE  Holds(x, p, n)
<1>0. Ring \in Nat \ {0} BY Constants
<1> SUFFICES ASSUME NEW k \in 0 .. n - 1
             PROVE  x + k \in 0 .. Ring - 1 /\ Content(x + k) = p + k
  BY DEF Holds
<1>1. PICK d : d = dma - 1 - (p + k) OBVIOUS
<1>2. d \in 0 .. Ring - 1 /\ x + k \in 0 .. Ring - 1 BY <1>0, <1>1
<1>3. PICK t : t = Ring * q OBVIOUS
<1>4. t \in Nat /\ q * Ring = t BY <1>0, <1>3
<1>5. dma - 1 - (x + k) = t + d BY <1>1, <1>4
<1>6. (t + d) % Ring = d BY <1>0, <1>2, <1>3, ModUnique
<1>7. Content(x + k) = dma - 1 - d BY <1>5, <1>6 DEF Content
<1>8. dma - 1 - d = p + k BY <1>1
<1> QED BY <1>2, <1>7, <1>8

\* The tail of a block before a chunk is in the same turn of the ring: a turn is a whole number of
\* blocks.
LEMMA TailInRing ==
  ASSUME NEW a \in Nat, a % Block # 0
  PROVE  a % Block <= a % Ring /\ a % Ring # 0
<1>0. Ring \in Nat \ {0} /\ Block \in Nat \ {0} /\ Ring % Block = 0 BY FeedAssumption
<1>1. PICK q, d, m : q = a \div Ring /\ d = a % Ring /\ m = Ring \div Block OBVIOUS
<1>2. q \in Nat /\ d \in 0 .. Ring - 1 /\ a = q * Ring + d BY <1>0, <1>1, DivMod
<1>3. m \in Nat /\ Ring = m * Block BY <1>0, <1>1, DivMod
<1>4. PICK s, r : s = d \div Block /\ r = d % Block OBVIOUS
<1>5. s \in Nat /\ r \in 0 .. Block - 1 /\ d = s * Block + r
  <2>1. d \in Nat BY <1>0, <1>2
  <2>2. /\ d \div Block \in Nat /\ d % Block \in 0 .. Block - 1
        /\ d = (d \div Block) * Block + (d % Block)
    BY <1>0, <2>1, DivMod
  <2> QED BY <1>4, <2>2
<1>6. PICK u : u = q * m + s OBVIOUS
<1>7. u \in Nat BY <1>2, <1>3, <1>5, <1>6
<1>8. q * Ring = (q * m) * Block BY <1>0, <1>2, <1>3
<1>9. Block * u = (q * m) * Block + s * Block
  <2>1. PICK v : v = q * m OBVIOUS
  <2>2. v \in Nat /\ u = v + s BY <1>2, <1>3, <1>6, <2>1
  <2>3. Block * (v + s) = v * Block + s * Block BY <1>0, <1>5, <2>2
  <2> QED BY <2>1, <2>2, <2>3
<1>10. a = Block * u + r
  <2>1. PICK v, t : v = (q * m) * Block /\ t = s * Block OBVIOUS
  <2>2. v \in Nat /\ t \in Nat BY <1>0, <1>2, <1>3, <1>5, <2>1
  <2>3. a = v + d /\ d = t + r /\ Block * u = v + t BY <1>2, <1>5, <1>8, <1>9, <2>1
  <2> QED BY <1>5, <2>2, <2>3
<1>11. a % Block = r BY <1>0, <1>5, <1>7, <1>10, ModUnique
<1>12. s * Block \in Nat BY <1>0, <1>5
<1>13. r <= d BY <1>5, <1>12
<1> QED BY <1>1, <1>5, <1>11, <1>13

LEMMA RightOutcome ==
  ASSUME dma \in Nat, NEW right, NEW b, b * Block \in Nat, dma <= b * Block + Ring => right
  PROVE  Outcome(right, b) \in {"good", "overrun"}
<1>1. Ring \in Nat BY Constants
<1>2. CASE right BY <1>2 DEF Outcome
<1>3. CASE ~right
  <2>1. ~(dma <= b * Block + Ring) BY <1>3
  <2>2. dma > b * Block + Ring BY <1>1, <2>1
  <2> QED BY <1>3, <2>2 DEF Outcome
<1> QED BY <1>2, <1>3

\* A block in the chunk is read right or too late.
LEMMA BlockOutcome ==
  ASSUME dma \in Nat, NEW c \in ChunkRecord, Sound(c), c.rawOffset + c.length <= dma,
         NEW at \in Nat, NEW b \in Nat, b * Block = c.rawOffset + at, at + Block <= c.length
  PROVE  Outcome(Holds(c.data + at, b * Block, Block), b) \in {"good", "overrun"}
<1>1. /\ Ring \in Nat \ {0} /\ Block \in Nat /\ c.rawOffset \in Nat /\ c.data \in Nat /\ c.length \in Nat
  BY Constants DEF ChunkRecord
<1>2. PICK q : q = c.rawOffset \div Ring OBVIOUS
<1>3. q \in Nat /\ c.rawOffset = q * Ring + c.data BY <1>1, <1>2, DivMod DEF Sound
<1>4. PICK p, x, t : p = b * Block /\ x = c.data + at /\ t = q * Ring OBVIOUS
<1>5. t \in Nat BY <1>1, <1>3, <1>4
<1>6. p \in Nat /\ x \in Nat /\ p = q * Ring + x /\ x + Block <= Ring /\ p + Block <= dma
  <2>1. c.data + c.length <= Ring BY DEF Sound
  <2>2. c.rawOffset = t + c.data /\ p = c.rawOffset + at BY <1>3, <1>4
  <2>3. p = t + x BY <1>1, <1>4, <1>5, <2>2
  <2> QED BY <1>1, <1>4, <1>5, <2>1, <2>2, <2>3
<1>7. dma <= p + Ring => Holds(x, p, Block) BY <1>1, <1>3, <1>6, HoldsFrom
<1> QED BY <1>4, <1>6, <1>7, RightOutcome

\* The two parts of a block that a chunk cuts.
LEMMA Lead ==
  ASSUME NEW n \in Nat \ {0}, NEW b \in Nat, NEW m \in 0 .. n - 1
  PROVE  /\ b * n \in Nat /\ n - m \in Nat /\ m \in Nat
         /\ \A l \in Nat : n <= l => n - m <= l
<1>1. b * n \in Nat OBVIOUS
<1>2. n - m \in Nat /\ m \in Nat /\ \A l \in Nat : n <= l => n - m <= l OBVIOUS
<1> QED BY <1>1, <1>2

\* So is the block that begins before the chunk.
LEMMA StraddleOutcome ==
  ASSUME dma \in Nat, NEW c \in ChunkRecord, Sound(c), c.rawOffset + c.length <= dma,
         NEW tail, tail = c.rawOffset % Block, tail # 0, NEW b, b = c.rawOffset \div Block
  PROVE  Straddle(c, b, tail) \in {"good", "overrun"}
<1>1. /\ Ring \in Nat \ {0} /\ Block \in Nat \ {0}
      /\ c.rawOffset \in Nat /\ c.data \in Nat /\ c.length \in Nat
  BY Constants DEF ChunkRecord
<1>2. b \in Nat /\ tail \in 0 .. Block - 1 /\ c.rawOffset = b * Block + tail BY <1>1, DivMod
<1>3. PICK q : q = c.rawOffset \div Ring OBVIOUS
<1>4. q \in Nat /\ c.rawOffset = q * Ring + c.data
  <2>1. c.data = c.rawOffset % Ring BY DEF Sound
  <2>2. /\ c.rawOffset \div Ring \in Nat
        /\ c.rawOffset = (c.rawOffset \div Ring) * Ring + (c.rawOffset % Ring)
    BY <1>1, DivMod
  <2> QED BY <1>3, <2>1, <2>2
<1>5. tail <= c.data /\ c.data # 0 BY <1>1, TailInRing DEF Sound
<1>6. PICK p, t, lead : p = b * Block /\ t = q * Ring /\ lead = Block - tail OBVIOUS
<1>7. /\ p \in Nat /\ t \in Nat /\ lead \in Nat /\ lead <= c.length /\ tail \in Nat
  <2>1. Block <= c.length BY DEF Sound
  <2>2. p \in Nat BY <1>1, <1>2, <1>6, Lead
  <2>3. t \in Nat BY <1>1, <1>4, <1>6
  <2>4. lead = Block - tail BY <1>6
  <2>5. lead \in Nat /\ lead <= c.length /\ tail \in Nat BY <1>1, <1>2, <2>1, <2>4, Lead
  <2> QED BY <2>2, <2>3, <2>5
<1>8. c.rawOffset = t + c.data /\ c.rawOffset = p + tail BY <1>2, <1>4, <1>6
<1>9. PICK x : x = c.data - tail OBVIOUS
<1>10. /\ x \in Nat /\ p = t + x /\ x + tail <= Ring /\ p + tail <= dma
       /\ p + tail \in Nat /\ p + tail = t + c.data
       /\ c.data + lead <= Ring /\ p + tail + lead <= dma
  <2>1. c.data + c.length <= Ring /\ Block <= c.length BY DEF Sound
  <2>2. PICK n, l, o : n = c.data /\ l = c.length /\ o = c.rawOffset OBVIOUS
  <2>3. /\ n \in Nat /\ l \in Nat /\ o \in Nat /\ n + l <= Ring /\ Block <= l
        /\ o = t + n /\ o = p + tail /\ tail <= n /\ x = n - tail /\ o + l <= dma
        /\ lead = Block - tail /\ lead <= l
    BY <1>1, <1>5, <1>6, <1>7, <1>8, <1>9, <2>1, <2>2
  <2>4. x \in Nat /\ p = t + x BY <1>7, <2>3
  <2>5. x + tail <= Ring /\ p + tail <= dma BY <1>1, <1>7, <2>3
  <2>6. p + tail \in Nat /\ p + tail = t + n BY <1>7, <2>3
  <2>7. n + lead <= Ring BY <1>1, <1>7, <2>3
  <2>8. p + tail + lead <= dma BY <1>1, <1>7, <2>3
  <2> QED BY <2>2, <2>4, <2>5, <2>6, <2>7, <2>8
<1>11. ASSUME dma <= p + Ring PROVE Holds(x, p, tail) /\ Holds(c.data, p + tail, lead)
  <2>0. p = q * Ring + x /\ x \in Nat /\ x + tail <= Ring /\ p + tail <= dma BY <1>6, <1>10
  <2>1. Holds(x, p, tail) BY <1>4, <1>7, <1>11, <2>0, HoldsFrom
  <2>2. dma <= p + tail + Ring BY <1>1, <1>2, <1>7, <1>11
  <2>3. PICK s : s = p + tail OBVIOUS
  <2>4. s \in Nat /\ s = q * Ring + c.data /\ s + lead <= dma /\ dma <= s + Ring
    BY <1>6, <1>10, <2>2, <2>3
  <2>5. Holds(c.data, s, lead) BY <1>1, <1>4, <1>7, <1>10, <2>4, HoldsFrom
  <2> QED BY <2>1, <2>3, <2>5
<1>12. Straddle(c, b, tail) = Outcome(Holds(x, p, tail) /\ Holds(c.data, p + tail, lead), b)
  BY <1>5, <1>6, <1>9 DEF Straddle
<1> QED BY <1>6, <1>7, <1>11, <1>12, RightOutcome

\* Multiples of the block are ordered as their numbers are.
LEMMA Multiples ==
  ASSUME NEW a \in Int, NEW b \in Int
  PROVE  /\ a * Block \in Int
         /\ a <= b => a * Block <= b * Block
         /\ a * Block < b * Block => a < b
         /\ (a + 1) * Block = a * Block + Block
         /\ (a + b) * Block = a * Block + b * Block
<1>0. Block \in Nat \ {0} BY Constants
<1>1. a * Block \in Int /\ b * Block \in Int BY <1>0
<1>2. ASSUME a <= b PROVE a * Block <= b * Block
  <2>1. PICK d : d = b - a OBVIOUS
  <2>2. d \in Nat /\ b = a + d BY <1>2, <2>1
  <2>3. (a + d) * Block = a * Block + d * Block BY <1>0, <2>2
  <2>4. d * Block \in Nat BY <1>0, <2>2
  <2> QED BY <1>1, <2>2, <2>3, <2>4
<1>3. ASSUME b <= a PROVE b * Block <= a * Block
  <2>1. PICK d : d = a - b OBVIOUS
  <2>2. d \in Nat /\ a = b + d BY <1>3, <2>1
  <2>3. (b + d) * Block = b * Block + d * Block BY <1>0, <2>2
  <2>4. d * Block \in Nat BY <1>0, <2>2
  <2> QED BY <1>1, <2>2, <2>3, <2>4
<1>4. a * Block < b * Block => a < b BY <1>1, <1>3
<1>5. (a + 1) * Block = a * Block + Block BY <1>0
<1>6. (a + b) * Block = a * Block + b * Block BY <1>0
<1> QED BY <1>1, <1>2, <1>4, <1>5, <1>6

\* The blocks from the first on that the chunk completes, none past the target.
LEMMA FullBound ==
  ASSUME NEW c \in ChunkRecord, NEW at \in Nat, at <= c.length,
         NEW first \in Nat, first <= TargetBlocks, NEW f, f = Full(c, at, first)
  PROVE  /\ f \in Nat /\ first + f <= TargetBlocks /\ at + f * Block <= c.length
         /\ first + f = TargetBlocks \/ c.length < at + f * Block + Block
<1>0. Block \in Nat \ {0} /\ TargetBlocks \in Nat /\ c.length \in Nat
  BY Constants DEF ChunkRecord
<1>1. PICK n, g : n = c.length - at /\ g = (c.length - at) \div Block OBVIOUS
<1>2. n \in Nat BY <1>0, <1>1
<1>3. g \in Nat /\ n % Block \in 0 .. Block - 1 /\ n = g * Block + (n % Block)
  BY <1>0, <1>1, <1>2, DivMod
<1>4. PICK t : t = g * Block OBVIOUS
<1>5. t \in Nat /\ t <= n /\ n < t + Block BY <1>0, <1>3, <1>4
<1>6. f = IF first + g > TargetBlocks THEN TargetBlocks - first ELSE g BY <1>1 DEF Full
<1>7. CASE first + g > TargetBlocks
  <2>1. f = TargetBlocks - first /\ f \in Nat /\ f <= g /\ first + f = TargetBlocks
    BY <1>0, <1>3, <1>6, <1>7
  <2>2. f * Block <= t BY <1>3, <1>4, <2>1, Multiples
  <2>3. f * Block \in Int BY <2>1, Multiples
  <2> QED BY <1>0, <1>1, <1>2, <1>5, <2>1, <2>2, <2>3
<1>8. CASE ~(first + g > TargetBlocks)
  <2>1. f = g /\ first + f <= TargetBlocks BY <1>0, <1>3, <1>6, <1>8
  <2>2. f * Block = t BY <1>4, <2>1
  <2>3. PICK l : l = c.length OBVIOUS
  <2>4. l \in Nat /\ n = l - at BY <1>0, <1>1, <2>3
  <2>5. at + t <= l /\ l < at + t + Block BY <1>0, <1>5, <2>4
  <2> QED BY <1>3, <2>1, <2>2, <2>3, <2>5
<1> QED BY <1>7, <1>8

---------------------------------------------------------------------------
(* The blocks in the workers' hands.                                        *)

BlockInv == FeedSound /\ Linked /\ (\A w \in Workers : JobSound(w)) /\ Once /\ NoneLeft

LEMMA EndsType ==
  ASSUME NEW b \in Blocks
  PROVE  b \in Nat /\ Ends(b) \in Nat /\ Ends(b) <= TargetRawBytes
<1>1. b \in Nat /\ b + 1 \in Nat /\ b + 1 <= TargetBlocks /\ TargetBlocks \in Nat
  BY Constants DEF Blocks
<1>2. PICK m : m = b + 1 OBVIOUS
<1>3. m * Block <= TargetBlocks * Block BY <1>1, <1>2, Multiples
<1>4. m * Block \in Nat BY <1>1, <1>2, Constants
<1> QED BY <1>1, <1>2, <1>3, <1>4 DEF Ends, TargetRawBytes

LEMMA FrontNext == TypeOK' => Front' \in Nat
<1> SUFFICES ASSUME TypeOK' PROVE Front' \in Nat OBVIOUS
<1>1. Low' \in Nat BY DEF TypeOK, Low, ChunkRecord
<1>2. CASE queue' = <<>> BY <1>1, <1>2 DEF Front
<1>3. CASE queue' # <<>>
  <2>1. queue' \in Seq(ChunkRecord) /\ Len(queue') \in Nat \ {0} BY <1>3, EmptySeq DEF TypeOK
  <2>2. queue'[1] \in ChunkRecord BY <2>1
  <2> QED BY <1>1, <1>3, <2>2 DEF Front, ChunkRecord
<1> QED BY <1>2, <1>3

\* A worker that does not step keeps its blocks.
LEMMA HandKept ==
  ASSUME NEW v \in Workers, pc'[v] = pc[v], job'[v] = job[v]
  PROVE  Hand(v)' = Hand(v)
  BY DEF Hand, Encoding, Left, Blocks

LEMMA JobKept ==
  ASSUME TypeOK, TypeOK', NEW v \in Workers, pc'[v] = pc[v], job'[v] = job[v],
         Front <= Front', JobSound(v)
  PROVE  JobSound(v)'
<1>1. Front \in Nat BY FrontType
<1>2. Front' \in Nat BY FrontNext
<1>3. job[v] \in JobRecord BY DEF TypeOK
<1>4. job[v].chunk.rawOffset \in Nat /\ job[v].chunk.length \in Nat BY <1>3 DEF JobRecord, ChunkRecord
<1>5. ASSUME Encoding(v) PROVE job[v].chunk.rawOffset + job[v].chunk.length <= Front'
  BY <1>1, <1>2, <1>4, <1>5 DEF JobSound
<1>6. Encoding(v)' <=> Encoding(v) BY DEF Encoding
<1>7. Left(v)' = Left(v) BY DEF Left
<1>8. Sound(job[v].chunk)' <=> Sound(job[v].chunk) BY DEF Sound
<1> QED BY <1>5, <1>6, <1>7, <1>8 DEF JobSound

\* What a step of worker w does with blocks: one is encoded, ...
Encodes(w) ==
  \E b \in Hand(w) : \E o \in {"good", "overrun"} :
    Encode(b, o) /\ Hand(w)' = Hand(w) \ {b} /\ Front' = Front

\* ... or none is and none stays in hand, ...
Clears(w) ==
  /\ encoded' = encoded /\ Hand(w)' = {}
  /\ Hand(w) = {} \/ aborted'
  /\ Front' = Front \/ TargetRawBytes <= Front

\* ... or those that the next chunk completes are taken.
Takes(w) ==
  /\ encoded' = encoded /\ Hand(w) = {}
  /\ \E e \in Nat : /\ e <= Front' /\ (overflow = 0 => Front' = e)
                    /\ Hand(w)' = {b \in Blocks : Front < Ends(b) /\ Ends(b) <= e}

LEMMA HandBlocks ==
  ASSUME NEW w \in Workers
  PROVE  Hand(w) \subseteq Blocks
  BY DEF Hand

LEMMA OnceStep ==
  ASSUME TypeOK, TypeOK', Once, NEW w \in Workers, Front <= Front',
         \A u \in Workers \ {w} : Hand(u)' = Hand(u),
         Encodes(w) \/ Clears(w) \/ Takes(w)
  PROVE  Once'
<1>1. Front \in Nat /\ Front' \in Nat BY FrontType, FrontNext
<1>2. \A b \in Blocks : Ends(b) \in Nat BY EndsType
<1>3. \A b \in Blocks : Ends(b) <= Front => Ends(b) <= Front' BY <1>1, <1>2
<1>4. \A u \in Workers : Hand(u) \subseteq Blocks BY HandBlocks
<1>5. encoded \in [Blocks -> Outcomes] BY DEF TypeOK
<1>6. /\ \A b \in Blocks : /\ encoded[b] \in {"no", "good", "overrun"}
                           /\ encoded[b] # "no" => Ends(b) <= Front
      /\ \A u \in Workers : \A b \in Hand(u) : encoded[b] = "no" /\ Ends(b) <= Front
      /\ \A u, v \in Workers : u # v => Hand(u) \cap Hand(v) = {}
  BY DEF Once
<1>7. SUFFICES
        /\ \A b \in Blocks : /\ encoded'[b] \in {"no", "good", "overrun"}
                             /\ encoded'[b] # "no" => Ends(b) <= Front'
        /\ \A u \in Workers : \A b \in Hand(u)' : encoded'[b] = "no" /\ Ends(b) <= Front'
        /\ \A u, v \in Workers : u # v => Hand(u)' \cap Hand(v)' = {}
  BY DEF Once, Blocks, Ends
<1>8. CASE Encodes(w)
  <2>1. PICK b \in Hand(w), o \in {"good", "overrun"} : Encode(b, o) /\ Hand(w)' = Hand(w) \ {b}
    BY <1>8 DEF Encodes
  <2>2. b \in Blocks /\ encoded[b] = "no" /\ Ends(b) <= Front' BY <1>3, <1>4, <1>6, <2>1
  <2>3. encoded'[b] = o /\ \A d \in Blocks \ {b} : encoded'[d] = encoded[d]
    BY <1>5, <2>1, <2>2 DEF Encode
  <2>4. \A d \in Blocks : /\ encoded'[d] \in {"no", "good", "overrun"}
                          /\ encoded'[d] # "no" => Ends(d) <= Front'
    BY <1>3, <1>6, <2>2, <2>3
  <2>5. \A u \in Workers : Hand(u)' \subseteq Hand(u) /\ b \notin Hand(u)'
    BY <1>6, <2>1
  <2>6. \A u \in Workers : \A d \in Hand(u)' : encoded'[d] = "no" /\ Ends(d) <= Front'
    BY <1>3, <1>4, <1>6, <2>3, <2>5
  <2> QED BY <1>6, <2>4, <2>5, <2>6
<1>9. CASE Clears(w)
  <2>1. encoded' = encoded /\ \A u \in Workers : Hand(u)' \subseteq Hand(u) BY <1>9 DEF Clears
  <2>2. \A u \in Workers : \A d \in Hand(u)' : encoded'[d] = "no" /\ Ends(d) <= Front'
    BY <1>3, <1>4, <1>6, <2>1
  <2> QED BY <1>3, <1>6, <2>1, <2>2
<1>10. CASE Takes(w)
  <2>1. PICK e \in Nat : /\ e <= Front'
                         /\ Hand(w)' = {b \in Blocks : Front < Ends(b) /\ Ends(b) <= e}
    BY <1>10 DEF Takes
  <2>2. encoded' = encoded BY <1>10 DEF Takes
  <2>3. \A b \in Hand(w)' : b \in Blocks /\ ~(Ends(b) <= Front) /\ Ends(b) <= Front'
    BY <1>1, <1>2, <2>1
  <2>4. \A b \in Hand(w)' : encoded'[b] = "no" BY <1>6, <2>2, <2>3
  <2>5. \A u \in Workers : \A d \in Hand(u)' : encoded'[d] = "no" /\ Ends(d) <= Front'
    BY <1>3, <1>4, <1>6, <2>2, <2>3, <2>4
  <2>6. \A u \in Workers \ {w} : Hand(u)' \cap Hand(w)' = {} BY <1>6, <2>3
  <2>7. \A u, v \in Workers : u # v => Hand(u)' \cap Hand(v)' = {} BY <1>6, <2>6
  <2> QED BY <1>3, <1>6, <2>2, <2>5, <2>7
<1> QED BY <1>8, <1>9, <1>10

LEMMA LeftStep ==
  ASSUME TypeOK, TypeOK', Once, NoneLeft, NEW w \in Workers, Front <= Front',
         \A u \in Workers \ {w} : Hand(u)' = Hand(u) /\ pc'[u] = pc[u],
         pc'[w] # "off", shorts' = 0, overflow' = overflow, aborted => aborted',
         pc'[w] = "done" /\ ~aborted' => TargetRawBytes <= Front',
         Encodes(w) \/ Clears(w) \/ Takes(w)
  PROVE  NoneLeft'
<1>1. Front \in Nat /\ Front' \in Nat BY FrontType, FrontNext
<1>2. \A b \in Blocks : Ends(b) \in Nat /\ Ends(b) <= TargetRawBytes BY EndsType
<1>3. \A u \in Workers : Hand(u) \subseteq Blocks BY HandBlocks
<1>4. encoded \in [Blocks -> Outcomes] BY DEF TypeOK
<1>5. ~aborted' => \A u \in Workers : pc'[u] = "done" => TargetRawBytes <= Front'
  <2> SUFFICES ASSUME ~aborted', NEW u \in Workers, pc'[u] = "done"
               PROVE  TargetRawBytes <= Front'
    OBVIOUS
  <2>1. CASE u = w BY <2>1
  <2>2. CASE u # w
    <3>1. TargetRawBytes <= Front BY <2>2 DEF NoneLeft
    <3> QED BY <1>1, <3>1, TargetType
  <2> QED BY <2>1, <2>2
<1>6. ASSUME overflow' = 0, ~aborted', NEW b \in Blocks, Ends(b) <= Front'
      PROVE  encoded'[b] # "no" \/ \E u \in Workers : b \in Hand(u)'
  <2>1. overflow = 0 /\ ~aborted BY <1>6
  <2>2. Ends(b) <= Front => encoded[b] # "no" \/ \E u \in Workers : b \in Hand(u)
    BY <2>1 DEF NoneLeft
  <2>3. CASE Encodes(w)
    <3>1. PICK d \in Hand(w), o \in {"good", "overrun"} : Encode(d, o) /\ Hand(w)' = Hand(w) \ {d}
      BY <2>3 DEF Encodes
    <3>2. Front' = Front BY <2>3 DEF Encodes
    <3>3. d \in Blocks /\ encoded[d] = "no" BY <1>3, <3>1 DEF Once
    <3>4. encoded'[d] = o /\ \A x \in Blocks \ {d} : encoded'[x] = encoded[x]
      BY <1>4, <3>1, <3>3 DEF Encode
    <3>5. CASE b = d BY <3>4, <3>5
    <3>6. CASE b # d BY <1>6, <2>2, <3>1, <3>2, <3>4, <3>6
    <3> QED BY <3>5, <3>6
  <2>4. CASE Clears(w)
    <3>1. encoded' = encoded /\ Hand(w) = {} BY <1>6, <2>4 DEF Clears
    <3>2. Ends(b) <= Front
      <4>1. CASE Front' = Front BY <1>6, <4>1
      <4>2. CASE TargetRawBytes <= Front BY <1>1, <1>2, <4>2, TargetType
      <4> QED BY <2>4, <4>1, <4>2 DEF Clears
    <3> QED BY <2>2, <3>1, <3>2
  <2>5. CASE Takes(w)
    <3>1. /\ encoded' = encoded /\ Hand(w) = {}
          /\ Hand(w)' = {x \in Blocks : Front < Ends(x) /\ Ends(x) <= Front'}
      BY <2>1, <2>5 DEF Takes
    <3>2. CASE Ends(b) <= Front BY <2>2, <3>1, <3>2
    <3>3. CASE ~(Ends(b) <= Front)
      <4>1. Front < Ends(b) BY <1>1, <1>2, <3>3
      <4> QED BY <1>6, <3>1, <4>1
    <3> QED BY <3>2, <3>3
  <2> QED BY <2>3, <2>4, <2>5
<1>7. \E u \in Workers : pc'[u] # "off" OBVIOUS
<1>8. (\A b \in Blocks : Ends(b) <= Front => encoded[b] # "no" \/ \E u \in Workers : b \in Hand(u))'
        <=> \A b \in Blocks : Ends(b) <= Front' => encoded'[b] # "no" \/ \E u \in Workers : b \in Hand(u)'
  BY DEF Blocks, Ends
<1> QED BY <1>5, <1>6, <1>7, <1>8 DEF NoneLeft, TargetRawBytes

\* The step of a worker, from what becomes of its chunk and of its blocks.
LEMMA HandsStep ==
  ASSUME TypeOK, TypeOK', BlockInv, NEW w \in Workers, FeedSound', Linked', Front <= Front',
         \A u \in Workers \ {w} : pc'[u] = pc[u] /\ job'[u] = job[u],
         pc'[w] # "off", shorts' = 0, overflow' = overflow, aborted => aborted',
         pc'[w] = "done" /\ ~aborted' => TargetRawBytes <= Front',
         JobSound(w)', Encodes(w) \/ Clears(w) \/ Takes(w)
  PROVE  BlockInv'
<1>1. \A u \in Workers \ {w} : Hand(u)' = Hand(u) BY HandKept
<1>2. \A u \in Workers \ {w} : JobSound(u)' BY JobKept DEF BlockInv
<1>3. \A u \in Workers : JobSound(u)' BY <1>2
<1>4. Once' BY <1>1, OnceStep DEF BlockInv
<1>5. NoneLeft' BY <1>1, LeftStep DEF BlockInv
<1> QED BY <1>3, <1>4, <1>5 DEF BlockInv

---------------------------------------------------------------------------
(* The steps of a worker.                                                   *)

LEMMA FeedKept ==
  ASSUME FeedSound, Linked, UNCHANGED feedVars
  PROVE  FeedSound' /\ Linked' /\ Front' = Front
<1>1. UNCHANGED <<dma, callback, pending, queue, overflow>> BY DEF feedVars
<1>2. Low' = Low BY <1>1 DEF Low
<1>3. FeedSound'
  <2>1. \A i \in 1 .. Len(queue') : Sound(queue[i])' BY <1>1 DEF FeedSound, Sound
  <2>2. pending' # NoChunk => Sound(pending)' BY <1>1 DEF FeedSound, Sound
  <2>3. (TargetRawBytes <= callback => pending = NoChunk)' BY <1>1 DEF FeedSound, TargetRawBytes
  <2>4. (callback < dma => (callback % Ring) + (dma - callback) <= Ring /\ Block <= dma - callback)'
    BY <1>1 DEF FeedSound
  <2> QED BY <2>1, <2>2, <2>3, <2>4 DEF FeedSound
<1> QED BY <1>1, <1>2, <1>3 DEF Linked, Front

LEMMA FrontWritten ==
  ASSUME TypeOK, FeedOrder
  PROVE  Front <= Low /\ Low <= callback /\ callback <= dma
<1>1. Low \in Nat /\ Front \in Nat BY FrontType
<1>2. callback \in Nat /\ dma \in Nat BY DEF TypeOK
<1>3. Low <= callback
  <2>1. pending # NoChunk => pending.rawOffset \in Nat /\ pending.length \in Nat
    BY DEF TypeOK, ChunkRecord
  <2> QED BY <1>2, <2>1 DEF Low, FeedOrder
<1>4. Front <= Low
  <2>1. CASE queue = <<>> BY <1>1, <2>1 DEF Front
  <2>2. CASE queue # <<>>
    <3>1. queue \in Seq(ChunkRecord) /\ Len(queue) \in Nat \ {0} BY <2>2, EmptySeq DEF TypeOK
    <3>2. queue[1] \in ChunkRecord /\ 1 \in 1 .. Len(queue) BY <3>1
    <3>3. queue[1].rawOffset \in Nat /\ queue[1].length \in Nat BY <3>2 DEF ChunkRecord
    <3>4. queue[1].rawOffset + queue[1].length <= Low BY <3>2 DEF FeedOrder
    <3>5. Front = queue[1].rawOffset BY <2>2 DEF Front
    <3> QED BY <1>1, <3>3, <3>4, <3>5
  <2> QED BY <2>1, <2>2
<1> QED BY <1>3, <1>4 DEF FeedOrder

\* The first block in hand is encoded; the others stay.
LEMMA HandNext ==
  ASSUME NEW w \in Workers, Encoding(w), NEW n \in Nat \ {0}, Left(w) = n,
         NEW b \in Nat, b = job[w].block, b + n <= TargetBlocks,
         Encoding(w)', Left(w)' = n - 1, job'[w].block = b + 1
  PROVE  b \in Hand(w) /\ Hand(w)' = Hand(w) \ {b}
<1>1. TargetBlocks \in Nat BY Constants
<1>2. Hand(w) = {d \in Blocks : b <= d /\ d < b + n} BY DEF Hand
<1>3. Hand(w)' = {d \in Blocks : b + 1 <= d /\ d < (b + 1) + (n - 1)}
  BY DEF Hand, Blocks
<1>4. b \in Blocks /\ b <= b /\ b < b + n BY <1>1 DEF Blocks
<1>5. \A d \in Blocks : b + 1 <= d /\ d < (b + 1) + (n - 1) <=> (b <= d /\ d < b + n) /\ d # b
  BY DEF Blocks
<1> QED BY <1>2, <1>3, <1>4, <1>5

\* What PlaceStraddle and PlaceBlock have in common.
LEMMA EncodeStep ==
  ASSUME TypeOK, TypeOK', FeedOrder, BlockInv, NEW w \in Workers, NEW n \in {0, 1},
         pc[w] = IF n = 0 THEN "copied" ELSE "blocks", n = 1 => job[w].full > 0,
         NEW o \in {"good", "overrun"}, Encode(job[w].block, o),
         job' = [job EXCEPT ![w] = Placed(job[w], n)], pc' = [pc EXCEPT ![w] = "blocks"],
         UNCHANGED <<feedVars, shorts, processed, maxInflight, aborted>>
  PROVE  BlockInv'
<1>1. FeedSound' /\ Linked' /\ Front' = Front BY FeedKept DEF BlockInv
<1>2. Front <= Front' BY <1>1, FrontType
<1>3. pc'[w] = "blocks" /\ \A u \in Workers \ {w} : pc'[u] = pc[u] /\ job'[u] = job[u]
  BY DEF TypeOK
<1>4. PICK j : j = job[w] OBVIOUS
<1>5. j \in JobRecord BY <1>4 DEF TypeOK
<1>6. job'[w] = [chunk |-> j.chunk, block |-> j.block + 1, at |-> j.at + n * Block,
                 full |-> j.full - n, copy |-> "none"]
  BY <1>4 DEF TypeOK, Placed
<1>7. /\ job'[w].chunk = j.chunk /\ job'[w].block = j.block + 1 /\ job'[w].at = j.at + n * Block
      /\ job'[w].full = j.full - n
  BY <1>6
<1>8. Encoding(w) /\ Encoding(w)' BY <1>3 DEF Encoding
<1>9. /\ Sound(j.chunk) /\ j.chunk.rawOffset + j.chunk.length <= Front
      /\ j.full \in Nat /\ j.block + Left(w) <= TargetBlocks
      /\ j.at + j.full * Block <= j.chunk.length
      /\ n = 0 => (j.block + 1) * Block = j.chunk.rawOffset + j.at
      /\ n = 1 => j.block * Block = j.chunk.rawOffset + j.at
  BY <1>4, <1>8 DEF BlockInv, JobSound
<1>10. /\ j.block \in Nat /\ j.at \in Nat /\ Block \in Nat \ {0} /\ TargetBlocks \in Nat
       /\ j.chunk \in ChunkRecord /\ j.chunk.rawOffset \in Nat /\ j.chunk.length \in Nat
  BY <1>5, Constants DEF JobRecord, ChunkRecord
<1>11. PICK m : m = Left(w) OBVIOUS
<1>12. m \in Nat \ {0} /\ Left(w)' = m - 1 /\ Left(w)' = j.full - n
  <2>1. m = j.full + (IF n = 0 THEN 1 ELSE 0) BY <1>4, <1>11 DEF Left
  <2>2. Left(w)' = (j.full - n) + 0 BY <1>3, <1>7 DEF Left
  <2>3. CASE n = 0 BY <1>9, <2>1, <2>2, <2>3
  <2>4. CASE n = 1 BY <1>4, <1>9, <2>1, <2>2, <2>4
  <2> QED BY <2>3, <2>4
<1>13. j.block \in Hand(w) /\ Hand(w)' = Hand(w) \ {j.block}
  BY <1>4, <1>7, <1>8, <1>9, <1>10, <1>11, <1>12, HandNext
<1>14. Encodes(w) BY <1>1, <1>4, <1>13 DEF Encodes
<1>15. JobSound(w)'
  <2>1. PICK b, f, a, s : b = j.block /\ f = j.full /\ a = j.at /\ s = j.chunk.rawOffset OBVIOUS
  <2>2. b \in Nat /\ f \in Nat /\ a \in Nat /\ s \in Nat BY <1>9, <1>10, <2>1
  <2>3. f - n \in Nat
    <3>1. CASE n = 0 BY <2>2, <3>1
    <3>2. CASE n = 1 BY <1>4, <2>1, <2>2, <3>2
    <3> QED BY <3>1, <3>2
  <2>4. (b + 1) + (f - n) <= TargetBlocks
    <3>1. b + m <= TargetBlocks BY <1>9, <1>11, <2>1
    <3>2. m - 1 = f - n BY <1>12, <2>1
    <3> QED BY <1>10, <1>12, <2>2, <2>3, <3>1, <3>2
  <2>5. (f - n) * Block + n * Block = f * Block
    <3>1. (f - n) + n = f BY <2>2
    <3>2. ((f - n) + n) * Block = (f - n) * Block + n * Block BY <2>3, Multiples
    <3> QED BY <3>1, <3>2
  <2>6. f * Block \in Int /\ (f - n) * Block \in Int /\ n * Block \in Int
    <3>1. f \in Int /\ f - n \in Int /\ n \in Int BY <2>2, <2>3
    <3>2. f * Block \in Int BY <3>1, Multiples
    <3>3. (f - n) * Block \in Int BY <3>1, Multiples
    <3>4. n * Block \in Int BY <3>1, Multiples
    <3> QED BY <3>2, <3>3, <3>4
  <2>7. (a + n * Block) + (f - n) * Block <= j.chunk.length
    <3>1. a + f * Block <= j.chunk.length BY <1>9, <2>1
    <3>2. (a + n * Block) + (f - n) * Block = a + f * Block
      <4>1. PICK x, y, z : x = n * Block /\ y = (f - n) * Block /\ z = f * Block OBVIOUS
      <4>2. y + x = z /\ x \in Int /\ y \in Int /\ z \in Int BY <2>5, <2>6, <4>1
      <4>3. (a + x) + y = a + z BY <2>2, <4>2
      <4> QED BY <4>1, <4>3
    <3> QED BY <3>1, <3>2
  <2>8. (b + 1) * Block = s + (a + n * Block)
    <3>1. (b + 1) * Block = b * Block + Block /\ b * Block \in Int BY <2>2, Multiples
    <3>2. CASE n = 0
      <4>1. (b + 1) * Block = s + a BY <1>9, <2>1, <3>2
      <4>2. a + n * Block = a BY <1>10, <2>2, <3>2
      <4> QED BY <4>1, <4>2
    <3>3. CASE n = 1
      <4>1. b * Block = s + a BY <1>9, <2>1, <3>3
      <4>2. n * Block = Block BY <1>10, <3>3
      <4>3. (s + a) + Block = s + (a + Block) BY <1>10, <2>2
      <4> QED BY <3>1, <4>1, <4>2, <4>3
    <3> QED BY <3>2, <3>3
  <2>9. Sound(j.chunk)' BY <1>9 DEF Sound
  <2>10. /\ Sound(job[w].chunk)' /\ job'[w].chunk.rawOffset + job'[w].chunk.length <= Front'
         /\ job'[w].full \in Nat /\ job'[w].block + Left(w)' <= TargetBlocks
         /\ job'[w].at + job'[w].full * Block <= job'[w].chunk.length
         /\ job'[w].block * Block = job'[w].chunk.rawOffset + job'[w].at
    <3>1. Sound(job[w].chunk)' BY <1>7, <2>9 DEF Sound
    <3>2. job'[w].chunk.rawOffset + job'[w].chunk.length <= Front' BY <1>1, <1>7, <1>9
    <3>3. job'[w].full \in Nat BY <1>7, <2>1, <2>3
    <3>4. job'[w].block + Left(w)' <= TargetBlocks BY <1>7, <1>12, <2>1, <2>4
    <3>5. job'[w].at + job'[w].full * Block <= job'[w].chunk.length BY <1>7, <2>1, <2>7
    <3>6. job'[w].block * Block = job'[w].chunk.rawOffset + job'[w].at BY <1>7, <2>1, <2>8
    <3> QED BY <3>1, <3>2, <3>3, <3>4, <3>5, <3>6
  <2> QED BY <1>3, <2>10 DEF JobSound
<1>16. shorts' = 0 /\ overflow' = overflow /\ (aborted => aborted')
  BY DEF BlockInv, NoneLeft, feedVars
<1> QED BY <1>1, <1>2, <1>3, <1>14, <1>15, <1>16, HandsStep

\* Blocks are encoded from their bytes, or the DMA has come round to them.
LEMMA PlaceStep ==
  ASSUME TypeOK, TypeOK', FeedOrder, BlockInv, NEW w \in Workers,
         PlaceStraddle(w) \/ PlaceBlock(w)
  PROVE  BlockInv'
<1>1. CASE PlaceStraddle(w)
  <2>1. pc[w] = "copied" /\ job[w].copy \in {"good", "overrun"}
    BY <1>1 DEF PlaceStraddle, BlockInv, JobSound, Encoding
  <2>2. PICK n \in {0, 1} : n = 0 OBVIOUS
  <2>3. job' = [job EXCEPT ![w] = Placed(job[w], n)] BY <1>1, <2>2 DEF PlaceStraddle
  <2>4. pc[w] = (IF n = 0 THEN "copied" ELSE "blocks") /\ (n = 1 => job[w].full > 0)
    BY <2>1, <2>2
  <2>5. PICK o \in {"good", "overrun"} : o = job[w].copy BY <2>1
  <2>6. Encode(job[w].block, o) BY <1>1, <2>5 DEF PlaceStraddle
  <2>7. pc' = [pc EXCEPT ![w] = "blocks"] BY <1>1 DEF PlaceStraddle
  <2>8. UNCHANGED <<feedVars, shorts, processed, maxInflight, aborted>> BY <1>1 DEF PlaceStraddle
  <2> QED BY <2>3, <2>4, <2>6, <2>7, <2>8, EncodeStep
<1>2. CASE PlaceBlock(w)
  <2>1. /\ pc[w] = "blocks" /\ job[w].full > 0
        /\ job' = [job EXCEPT ![w] = Placed(job[w], 1)]
        /\ UNCHANGED <<feedVars, pc, shorts, processed, maxInflight, aborted>>
    BY <1>2 DEF PlaceBlock
  <2>2. PICK c, a, b, f : c = job[w].chunk /\ a = job[w].at /\ b = job[w].block /\ f = job[w].full
    OBVIOUS
  <2>3. /\ Sound(c) /\ c.rawOffset + c.length <= Front /\ f \in Nat
        /\ a + f * Block <= c.length /\ b * Block = c.rawOffset + a
    BY <2>1, <2>2 DEF BlockInv, JobSound, Encoding
  <2>4. job[w] \in JobRecord BY DEF TypeOK
  <2>5. /\ c \in ChunkRecord /\ a \in Nat /\ b \in Nat /\ c.rawOffset \in Nat /\ c.length \in Nat
        /\ Block \in Nat
    BY <2>2, <2>4, Constants DEF JobRecord, ChunkRecord
  <2>6. a + Block <= c.length
    <3>1. 1 <= f BY <2>1, <2>2, <2>3
    <3>2. 1 * Block <= f * Block /\ f * Block \in Int BY <2>3, <3>1, Multiples
    <3> QED BY <2>3, <2>5, <3>2
  <2>7. dma \in Nat /\ c.rawOffset + c.length <= dma
    <3>1. Front <= Low /\ Low <= callback /\ callback <= dma BY FrontWritten
    <3>2. Front \in Nat /\ Low \in Nat /\ callback \in Nat /\ dma \in Nat BY FrontType DEF TypeOK
    <3> QED BY <2>3, <2>5, <3>1, <3>2
  <2>8. PICK o : o = Outcome(Holds(c.data + a, b * Block, Block), b) OBVIOUS
  <2>9. o \in {"good", "overrun"} BY <2>3, <2>5, <2>6, <2>7, <2>8, BlockOutcome
  <2>10. Encode(job[w].block, o) BY <1>2, <2>2, <2>8 DEF PlaceBlock
  <2>11. pc' = [pc EXCEPT ![w] = "blocks"] BY <2>1 DEF TypeOK
  <2>12. UNCHANGED <<feedVars, shorts, processed, maxInflight, aborted>> BY <2>1
  <2>13. PICK n \in {0, 1} : n = 1 OBVIOUS
  <2>14. job' = [job EXCEPT ![w] = Placed(job[w], n)] BY <2>1, <2>13
  <2>15. pc[w] = (IF n = 0 THEN "copied" ELSE "blocks") /\ (n = 1 => job[w].full > 0)
    BY <2>1, <2>13
  <2> QED BY <2>9, <2>10, <2>11, <2>12, <2>14, <2>15, EncodeStep
<1> QED BY <1>1, <1>2

\* What the steps have in common after which the worker has no chunk.
LEMMA ClearStep ==
  ASSUME TypeOK, TypeOK', BlockInv, NEW w \in Workers,
         \A u \in Workers \ {w} : pc'[u] = pc[u] /\ job'[u] = job[u],
         pc'[w] \in {"take", "counted", "done", "starved"}, UNCHANGED <<feedVars, shorts, encoded>>,
         aborted => aborted', Hand(w) = {} \/ aborted',
         pc'[w] = "done" /\ ~aborted' => TargetRawBytes <= Front
  PROVE  BlockInv'
<1>1. FeedSound' /\ Linked' /\ Front' = Front BY FeedKept DEF BlockInv
<1>2. Front <= Front' BY <1>1, FrontType
<1>3. ~Encoding(w)' /\ pc'[w] # "off" BY DEF Encoding
<1>4. Hand(w)' = {} BY <1>3 DEF Hand
<1>5. Clears(w) BY <1>1, <1>4 DEF Clears
<1>6. JobSound(w)' BY <1>3 DEF JobSound
<1>7. shorts' = 0 /\ overflow' = overflow BY DEF BlockInv, NoneLeft, feedVars
<1> QED BY <1>1, <1>2, <1>3, <1>5, <1>6, <1>7, HandsStep

LEMMA EndStep ==
  ASSUME TypeOK, TypeOK', BlockInv, NEW w \in Workers,
         ChunkDone(w) \/ Inflight(w) \/ GiveUp(w) \/ StopWorker(w)
  PROVE  BlockInv'
<1>0. \A u \in Workers \ {w} : pc'[u] = pc[u] /\ job'[u] = job[u]
  <2>1. pc \in [Workers -> {"off", "take", "copied", "blocks", "counted", "done", "starved"}] BY DEF TypeOK
  <2>2. job \in [Workers -> JobRecord] BY DEF TypeOK
  <2>3. \E x : pc' = [pc EXCEPT ![w] = x] BY DEF ChunkDone, Inflight, GiveUp, StopWorker
  <2>4. job' = job \/ \E x : job' = [job EXCEPT ![w] = x]
    BY DEF ChunkDone, Inflight, GiveUp, StopWorker
  <2>5. \A u \in Workers \ {w} : pc'[u] = pc[u] BY <2>1, <2>3
  <2>6. \A u \in Workers \ {w} : job'[u] = job[u] BY <2>2, <2>4
  <2> QED BY <2>5, <2>6
<1>1. CASE ChunkDone(w)
  <2>1. pc[w] = "blocks" /\ job[w].full = 0 BY <1>1 DEF ChunkDone
  <2>2. job[w].block \in Nat BY DEF TypeOK, JobRecord
  <2>3. Left(w) = 0 BY <2>1 DEF Left
  <2>4. Hand(w) = {} BY <2>2, <2>3 DEF Hand, Blocks
  <2>5. pc'[w] = "counted" BY <1>1 DEF ChunkDone, TypeOK
  <2>6. UNCHANGED <<feedVars, shorts, encoded>> /\ aborted' = aborted BY <1>1 DEF ChunkDone
  <2> QED BY <1>0, <2>4, <2>5, <2>6, ClearStep
<1>2. CASE Inflight(w)
  <2>1. Hand(w) = {} BY <1>2 DEF Inflight, Hand, Encoding
  <2>2. pc'[w] = "take" BY <1>2 DEF Inflight, TypeOK
  <2>3. UNCHANGED <<feedVars, shorts, encoded>> /\ aborted' = aborted BY <1>2 DEF Inflight
  <2> QED BY <1>0, <2>1, <2>2, <2>3, ClearStep
<1>3. CASE GiveUp(w)
  <2>1. pc'[w] = "done" BY <1>3 DEF GiveUp, TypeOK
  <2>2. UNCHANGED <<feedVars, shorts, encoded>> /\ aborted' BY <1>3 DEF GiveUp
  <2> QED BY <1>0, <2>1, <2>2, ClearStep
<1>4. CASE StopWorker(w)
  <2>1. Hand(w) = {} BY <1>4 DEF StopWorker, Hand, Encoding
  <2>2. pc'[w] \in {"done", "starved"} BY <1>4 DEF StopWorker, TypeOK
  <2>3. UNCHANGED <<feedVars, shorts, encoded>> /\ aborted' = aborted BY <1>4 DEF StopWorker
  <2>4. ASSUME pc'[w] = "done", ~aborted' PROVE TargetRawBytes <= Front
    <3>1. queue = <<>> BY <1>4, <2>3, <2>4 DEF StopWorker
    <3>2. ~(callback < TargetRawBytes)
      <4>1. pc' = [pc EXCEPT ![w] = IF callback < TargetRawBytes THEN "starved" ELSE "done"]
        BY <1>4, <2>3, <2>4 DEF StopWorker
      <4>2. pc'[w] = IF callback < TargetRawBytes THEN "starved" ELSE "done"
        BY <4>1 DEF TypeOK
      <4> QED BY <2>4, <4>2
    <3>3. TargetRawBytes \in Nat /\ callback \in Nat BY TargetType DEF TypeOK
    <3>4. TargetRawBytes <= callback BY <3>2, <3>3
    <3>5. pending = NoChunk BY <3>4 DEF BlockInv, FeedSound
    <3>6. Front = callback BY <3>1, <3>5 DEF Front, Low
    <3> QED BY <3>4, <3>6
  <2> QED BY <1>0, <2>1, <2>2, <2>3, <2>4, ClearStep
<1> QED BY <1>1, <1>2, <1>3, <1>4

\* The blocks that a chunk completes are those that end in it.
LEMMA ChunkBlocks ==
  ASSUME NEW o \in Nat, NEW b \in Nat, NEW n \in Nat, NEW e \in Nat,
         b * Block <= o, o < (b + 1) * Block, b + n <= TargetBlocks,
         n > 0 => (b + n) * Block <= e,
         b + n = TargetBlocks \/ e < (b + n + 1) * Block
  PROVE  \A d \in Blocks : b <= d /\ d < b + n <=> o < Ends(d) /\ Ends(d) <= e
<1> SUFFICES ASSUME NEW d \in Blocks
             PROVE  b <= d /\ d < b + n <=> o < Ends(d) /\ Ends(d) <= e
  OBVIOUS
<1>1. d \in Nat /\ d + 1 <= TargetBlocks /\ TargetBlocks \in Nat BY Constants DEF Blocks
<1>2. PICK m, k : m = d + 1 /\ k = b + n OBVIOUS
<1>3. m \in Nat /\ k \in Nat /\ Ends(d) = m * Block BY <1>1, <1>2 DEF Ends
<1>4. m * Block \in Int /\ k * Block \in Int /\ (k + 1) * Block \in Int
      /\ (b + 1) * Block \in Int /\ b * Block \in Int
  <2>1. k + 1 \in Int /\ b + 1 \in Int /\ m \in Int /\ k \in Int /\ b \in Int BY <1>3
  <2>2. \A x \in Int : x * Block \in Int BY Multiples
  <2> QED BY <2>1, <2>2
<1>5. ASSUME b <= d, d < b + n PROVE o < Ends(d) /\ Ends(d) <= e
  <2>1. b + 1 <= m /\ m <= k /\ n > 0 BY <1>1, <1>2, <1>5
  <2>2. (b + 1) * Block <= m * Block
    <3>1. b + 1 \in Int /\ m \in Int BY <1>3
    <3> QED BY <2>1, <3>1, Multiples
  <2>3. m * Block <= k * Block
    <3>1. k \in Int /\ m \in Int BY <1>3
    <3> QED BY <2>1, <3>1, Multiples
  <2>4. k * Block <= e BY <1>2, <2>1
  <2> QED BY <1>3, <1>4, <2>2, <2>3, <2>4
<1>6. ASSUME o < Ends(d), Ends(d) <= e PROVE b <= d /\ d < b + n
  <2>1. b * Block < m * Block BY <1>3, <1>4, <1>6
  <2>2. b < m
    <3>1. b \in Int /\ m \in Int BY <1>3
    <3> QED BY <2>1, <3>1, Multiples
  <2>3. d < k
    <3>1. CASE k = TargetBlocks BY <1>1, <3>1
    <3>2. CASE e < (k + 1) * Block
      <4>1. m * Block < (k + 1) * Block BY <1>3, <1>4, <1>6, <3>2
      <4>2. k + 1 \in Int /\ m \in Int BY <1>3
      <4>3. m < k + 1 BY <4>1, <4>2, Multiples
      <4> QED BY <1>1, <1>2, <1>3, <4>3
    <3> QED BY <1>2, <3>1, <3>2
  <2> QED BY <1>1, <1>2, <1>3, <2>2, <2>3
<1> QED BY <1>5, <1>6

\* A chunk is taken with a block of it to encode: `a` is where its blocks begin, `first` the first.
LEMMA JobStep ==
  ASSUME TypeOK, TypeOK', FeedOrder, BlockInv, NEW w \in Workers,
         pc[w] = "take", queue # <<>>, queue' = Tail(queue),
         UNCHANGED <<dma, callback, pending, overflow, shorts, aborted, encoded>>,
         NEW c, c = Head(queue), NEW b \in Nat, NEW a \in Nat, NEW first \in Nat,
         NEW place \in {"copied", "blocks"}, first = b + (IF place = "copied" THEN 1 ELSE 0),
         b < TargetBlocks, a <= c.length, first * Block = c.rawOffset + a,
         b * Block <= c.rawOffset, c.rawOffset < (b + 1) * Block,
         NEW o, place = "copied" => o \in {"good", "overrun"},
         job' = [job EXCEPT ![w] = [chunk |-> c, block |-> b, at |-> a,
                                    full |-> Full(c, a, first), copy |-> o]],
         pc' = [pc EXCEPT ![w] = place]
  PROVE  BlockInv'
<1>1. /\ FeedSound' /\ Linked' /\ c \in ChunkRecord /\ Sound(c) /\ Front = c.rawOffset
      /\ c.rawOffset + c.length <= Front'
      /\ overflow = 0 => Front' = c.rawOffset + c.length
  BY TakeSound DEF BlockInv
<1>2. PICK s, l : s = c.rawOffset /\ l = c.length OBVIOUS
<1>3. /\ s \in Nat /\ l \in Nat /\ Front' \in Nat /\ Block \in Nat \ {0} /\ TargetBlocks \in Nat
  BY <1>1, <1>2, FrontNext, Constants DEF ChunkRecord
<1>4. Front <= Front' BY <1>1, <1>2, <1>3
<1>5. pc'[w] = place /\ \A u \in Workers \ {w} : pc'[u] = pc[u] /\ job'[u] = job[u]
  BY DEF TypeOK
<1>6. PICK f : f = Full(c, a, first) OBVIOUS
<1>7. first <= TargetBlocks BY <1>3
<1>8. /\ f \in Nat /\ first + f <= TargetBlocks /\ a + f * Block <= l
      /\ first + f = TargetBlocks \/ l < a + f * Block + Block
  BY <1>1, <1>2, <1>6, <1>7, FullBound
<1>9. /\ job'[w].chunk = c /\ job'[w].block = b /\ job'[w].at = a /\ job'[w].full = f
      /\ job'[w].copy = o
  BY <1>6 DEF TypeOK
<1>10. PICK n : n = f + (IF place = "copied" THEN 1 ELSE 0) OBVIOUS
<1>11. n \in Nat /\ b + n = first + f
  <2>1. CASE place = "copied" BY <1>8, <1>10, <2>1
  <2>2. CASE place = "blocks" BY <1>8, <1>10, <2>2
  <2> QED BY <2>1, <2>2
<1>12. Left(w)' = n BY <1>5, <1>9, <1>10 DEF Left
<1>13. Encoding(w)' /\ Hand(w) = {} BY <1>5 DEF Encoding, Hand
<1>14. Hand(w)' = {d \in Blocks : b <= d /\ d < b + n} BY <1>9, <1>12, <1>13 DEF Hand, Blocks
<1>15. PICK e : e = s + l OBVIOUS
<1>16. e \in Nat /\ e <= Front' /\ (overflow = 0 => Front' = e) BY <1>1, <1>2, <1>3, <1>15
<1>17. (b + n) * Block <= e /\ (b + n = TargetBlocks \/ e < (b + n + 1) * Block)
  <2>1. PICK k, t, u : k = b + n /\ t = f * Block /\ u = k * Block OBVIOUS
  <2>2. k \in Nat /\ k = first + f BY <1>11, <2>1
  <2>3. t \in Int /\ u \in Int
    <3>1. f \in Int /\ k \in Int BY <1>8, <2>2
    <3> QED BY <2>1, <3>1, Multiples
  <2>4. u = (s + a) + t
    <3>1. first \in Int /\ f \in Int BY <1>8
    <3>2. (first + f) * Block = first * Block + f * Block BY <3>1, Multiples
    <3> QED BY <1>2, <2>1, <2>2, <3>2
  <2>5. (k + 1) * Block = u + Block
    <3>1. k \in Int BY <2>2
    <3> QED BY <2>1, <3>1, Multiples
  <2>6. a + t <= l /\ (k = TargetBlocks \/ l < a + t + Block) BY <1>8, <2>1, <2>2
  <2>7. u <= e BY <1>3, <1>15, <2>3, <2>4, <2>6
  <2>8. k = TargetBlocks \/ e < u + Block BY <1>3, <1>15, <2>3, <2>4, <2>6
  <2> QED BY <2>1, <2>5, <2>7, <2>8
<1>18. Hand(w)' = {d \in Blocks : Front < Ends(d) /\ Ends(d) <= e}
  <2>1. b * Block <= s /\ s < (b + 1) * Block BY <1>2
  <2>2. b + n <= TargetBlocks BY <1>8, <1>11
  <2>3. {d \in Blocks : b <= d /\ d < b + n} = {d \in Blocks : s < Ends(d) /\ Ends(d) <= e}
    <3>1. n > 0 => (b + n) * Block <= e BY <1>17
    <3>2. b + n = TargetBlocks \/ e < (b + n + 1) * Block BY <1>17
    <3>3. s \in Nat /\ n \in Nat /\ e \in Nat BY <1>3, <1>11, <1>16
    <3>4. \A d \in Blocks : b <= d /\ d < b + n <=> s < Ends(d) /\ Ends(d) <= e
      BY <2>1, <2>2, <3>1, <3>2, <3>3, ChunkBlocks
    <3> QED BY <3>4
  <2> QED BY <1>1, <1>2, <1>14, <2>3
<1>19. Takes(w) BY <1>13, <1>16, <1>18 DEF Takes
<1>20. JobSound(w)'
  <2>1. Sound(job[w].chunk)' BY <1>1, <1>9 DEF Sound
  <2>2. job'[w].chunk.rawOffset + job'[w].chunk.length <= Front' BY <1>1, <1>9
  <2>3. job'[w].full \in Nat BY <1>8, <1>9
  <2>4. job'[w].block + Left(w)' <= TargetBlocks BY <1>8, <1>9, <1>11, <1>12
  <2>5. job'[w].at + job'[w].full * Block <= job'[w].chunk.length BY <1>2, <1>8, <1>9
  <2>6. ASSUME pc'[w] = "copied"
        PROVE  /\ (job'[w].block + 1) * Block = job'[w].chunk.rawOffset + job'[w].at
               /\ job'[w].copy \in {"good", "overrun"}
    <3>1. first = b + 1 /\ o \in {"good", "overrun"} BY <1>5, <2>6
    <3> QED BY <1>9, <3>1
  <2>7. ASSUME pc'[w] = "blocks"
        PROVE  job'[w].block * Block = job'[w].chunk.rawOffset + job'[w].at
    <3>1. first = b BY <1>5, <2>7
    <3> QED BY <1>9, <3>1
  <2> QED BY <2>1, <2>2, <2>3, <2>4, <2>5, <2>6, <2>7 DEF JobSound
<1>21. shorts' = 0 BY DEF BlockInv, NoneLeft
<1>22. pc'[w] # "off" /\ pc'[w] # "done" BY <1>5
<1> QED BY <1>1, <1>4, <1>5, <1>19, <1>20, <1>21, <1>22, HandsStep

LEMMA TakeStep ==
  ASSUME TypeOK, TypeOK', FeedOrder, BlockInv, NEW w \in Workers, TakeChunk(w)
  PROVE  BlockInv'
<1>1. PICK c : c = Head(queue) OBVIOUS
<1>2. PICK tail, block : tail = c.rawOffset % Block /\ block = c.rawOffset \div Block OBVIOUS
<1>3. PICK lead : lead = Block - tail OBVIOUS
<1>4. /\ pc[w] = "take" /\ queue # <<>> /\ queue' = Tail(queue)
      /\ UNCHANGED <<dma, callback, pending, overflow, processed, maxInflight, aborted, encoded>>
  BY DEF TakeChunk
<1>5. /\ FeedSound' /\ Linked' /\ c \in ChunkRecord /\ Sound(c) /\ Front = c.rawOffset
      /\ c.rawOffset + c.length <= callback /\ c.rawOffset + c.length <= Front'
  BY <1>1, <1>4, TakeSound DEF BlockInv
<1>6. PICK s, l : s = c.rawOffset /\ l = c.length OBVIOUS
<1>7. /\ s \in Nat /\ l \in Nat /\ Front' \in Nat /\ Block \in Nat \ {0} /\ TargetBlocks \in Nat
      /\ callback \in Nat /\ dma \in Nat
  BY <1>5, <1>6, FrontNext, Constants DEF ChunkRecord, TypeOK
<1>8. block \in Nat /\ tail \in 0 .. Block - 1 /\ s = block * Block + tail
  BY <1>2, <1>6, <1>7, DivMod
<1>9. PICK t : t = block * Block OBVIOUS
<1>10. t \in Nat /\ (block + 1) * Block = t + Block /\ s = t + tail
  <2>1. block \in Int BY <1>8
  <2>2. (block + 1) * Block = t + Block BY <1>9, <2>1, Multiples
  <2> QED BY <1>7, <1>8, <1>9, <2>2
<1>11. t <= s /\ s < t + Block /\ tail \in Nat BY <1>7, <1>8, <1>10
<1>12. lead \in Nat /\ lead <= l /\ tail + lead = Block
  <2>1. Block <= l BY <1>5, <1>6 DEF Sound
  <2> QED BY <1>3, <1>7, <1>8, <2>1
<1>13. \/ /\ block >= TargetBlocks
          /\ pc' = [pc EXCEPT ![w] = "done"] /\ UNCHANGED <<job, shorts>>
       \/ tail # 0 /\ l < lead
       \/ /\ block < TargetBlocks /\ tail # 0
          /\ job' = [job EXCEPT ![w] =
               [chunk |-> c, block |-> block, at |-> lead, full |-> Full(c, lead, block + 1),
                copy |-> Straddle(c, block, tail)]]
          /\ pc' = [pc EXCEPT ![w] = "copied"] /\ UNCHANGED shorts
       \/ /\ block < TargetBlocks /\ tail = 0
          /\ job' = [job EXCEPT ![w] =
               [chunk |-> c, block |-> block, at |-> 0, full |-> Full(c, 0, block), copy |-> "none"]]
          /\ pc' = [pc EXCEPT ![w] = "blocks"] /\ UNCHANGED shorts
  BY <1>1, <1>2, <1>3, <1>6 DEF TakeChunk
<1>14. CASE /\ block >= TargetBlocks
            /\ pc' = [pc EXCEPT ![w] = "done"] /\ UNCHANGED <<job, shorts>>
  <2>1. pc'[w] = "done" /\ \A u \in Workers \ {w} : pc'[u] = pc[u] /\ job'[u] = job[u]
    BY <1>14 DEF TypeOK
  <2>2. TargetRawBytes <= Front
    <3>1. TargetBlocks \in Int /\ block \in Int /\ TargetBlocks <= block BY <1>7, <1>8, <1>14
    <3>2. TargetBlocks * Block <= block * Block BY <3>1, Multiples
    <3>3. TargetRawBytes <= t BY <1>9, <3>2 DEF TargetRawBytes
    <3> QED BY <1>5, <1>6, <1>7, <1>10, <1>11, <3>3, TargetType
  <2>3. Front <= Front' BY <1>5, <1>6, <1>7
  <2>4. TargetRawBytes <= Front' BY <2>2, <2>3, <1>7, TargetType, FrontType
  <2>5. ~Encoding(w)' /\ ~Encoding(w) BY <1>4, <2>1 DEF Encoding
  <2>6. Hand(w) = {} /\ Hand(w)' = {} BY <2>5 DEF Hand
  <2>7. Clears(w) BY <1>4, <2>2, <2>6 DEF Clears
  <2>8. JobSound(w)' BY <2>5 DEF JobSound
  <2>9. shorts' = 0 /\ overflow' = overflow /\ (aborted => aborted')
    BY <1>4, <1>14 DEF BlockInv, NoneLeft
  <2> QED BY <1>5, <2>1, <2>3, <2>4, <2>7, <2>8, <2>9, HandsStep
<1>15. CASE tail # 0 /\ l < lead BY <1>7, <1>12, <1>15
<1>16. CASE /\ block < TargetBlocks /\ tail # 0
            /\ job' = [job EXCEPT ![w] =
                 [chunk |-> c, block |-> block, at |-> lead, full |-> Full(c, lead, block + 1),
                  copy |-> Straddle(c, block, tail)]]
            /\ pc' = [pc EXCEPT ![w] = "copied"] /\ UNCHANGED shorts
  <2>1. Straddle(c, block, tail) \in {"good", "overrun"}
    <3>1. Front <= Low /\ Low <= callback /\ callback <= dma BY <1>5, FrontWritten
    <3>2. c.rawOffset + c.length <= dma BY <1>5, <1>6, <1>7, <3>1
    <3> QED BY <1>2, <1>5, <1>7, <1>16, <3>2, StraddleOutcome
  <2>2. PICK o : o = Straddle(c, block, tail) OBVIOUS
  <2>3. PICK first : first = block + 1 OBVIOUS
  <2>4. PICK place \in {"copied", "blocks"} : place = "copied" OBVIOUS
  <2>5. first \in Nat /\ first = block + (IF place = "copied" THEN 1 ELSE 0) BY <1>8, <2>3, <2>4
  <2>6. first * Block = c.rawOffset + lead BY <1>6, <1>7, <1>10, <1>11, <1>12, <2>3
  <2>7. block * Block <= c.rawOffset /\ c.rawOffset < (block + 1) * Block
    BY <1>6, <1>9, <1>10, <1>11
  <2>8. /\ job' = [job EXCEPT ![w] = [chunk |-> c, block |-> block, at |-> lead,
                                      full |-> Full(c, lead, first), copy |-> o]]
        /\ pc' = [pc EXCEPT ![w] = place]
    BY <1>16, <2>2, <2>3, <2>4
  <2>9. /\ UNCHANGED <<dma, callback, pending, overflow, shorts, aborted, encoded>>
        /\ block < TargetBlocks /\ lead <= c.length
        /\ place = "copied" => o \in {"good", "overrun"}
    BY <1>4, <1>6, <1>12, <1>16, <2>1, <2>2
  <2> QED BY <1>1, <1>4, <1>8, <1>12, <2>5, <2>6, <2>7, <2>8, <2>9, JobStep
<1>17. CASE /\ block < TargetBlocks /\ tail = 0
            /\ job' = [job EXCEPT ![w] =
                 [chunk |-> c, block |-> block, at |-> 0, full |-> Full(c, 0, block),
                  copy |-> "none"]]
            /\ pc' = [pc EXCEPT ![w] = "blocks"] /\ UNCHANGED shorts
  <2>2. PICK o : o = "none" OBVIOUS
  <2>3. PICK a \in Nat : a = 0 OBVIOUS
  <2>4. PICK place \in {"copied", "blocks"} : place = "blocks" OBVIOUS
  <2>5. block = block + (IF place = "copied" THEN 1 ELSE 0) BY <1>8, <2>4
  <2>6. block * Block = c.rawOffset + a BY <1>6, <1>7, <1>9, <1>10, <1>17, <2>3
  <2>7. block * Block <= c.rawOffset /\ c.rawOffset < (block + 1) * Block
    BY <1>6, <1>9, <1>10, <1>11
  <2>8. /\ job' = [job EXCEPT ![w] = [chunk |-> c, block |-> block, at |-> a,
                                      full |-> Full(c, a, block), copy |-> o]]
        /\ pc' = [pc EXCEPT ![w] = place]
    BY <1>17, <2>2, <2>3, <2>4
  <2>9. /\ UNCHANGED <<dma, callback, pending, overflow, shorts, aborted, encoded>>
        /\ block < TargetBlocks /\ a <= c.length
        /\ place = "copied" => o \in {"good", "overrun"}
    BY <1>4, <1>6, <1>7, <1>17, <2>3, <2>4
  <2> QED BY <1>1, <1>4, <1>8, <2>5, <2>6, <2>7, <2>8, <2>9, JobStep
<1> QED BY <1>13, <1>14, <1>15, <1>16, <1>17

LEMMA BlockInit == Init => BlockInv
<1> SUFFICES ASSUME Init PROVE BlockInv OBVIOUS
<1>1. /\ dma = 0 /\ callback = 0 /\ pending = NoChunk /\ queue = <<>> /\ overflow = 0
      /\ shorts = 0 /\ \A b \in Blocks : encoded[b] = "no"
  BY DEF Init
<1>2. PICK some \in (SUBSET Workers) \ {{}} :
        pc = [w \in Workers |-> IF w \in some THEN "take" ELSE "off"]
  BY DEF Init
<1>3. /\ \A w \in Workers : pc[w] \in {"take", "off"}
      /\ \E w \in Workers : pc[w] # "off"
  BY <1>2
<1>4. \A w \in Workers : ~Encoding(w) /\ Hand(w) = {} BY <1>3 DEF Encoding, Hand
<1>5. Low = 0 /\ Front = 0 BY <1>1 DEF Low, Front
<1>6. Len(queue) = 0 BY <1>1
<1>7. FeedSound BY <1>1, <1>6 DEF FeedSound
<1>8. Linked BY <1>6 DEF Linked
<1>9. \A w \in Workers : JobSound(w) BY <1>4 DEF JobSound
<1>10. Once BY <1>1, <1>4 DEF Once
<1>11. ASSUME NEW b \in Blocks PROVE ~(Ends(b) <= Front)
  <2>1. b \in Nat /\ Block \in Nat \ {0} BY EndsType, Constants
  <2>2. b \in Int BY <2>1
  <2>3. Ends(b) = b * Block + Block BY <2>2, Multiples DEF Ends
  <2>4. b * Block \in Nat BY <2>1
  <2> QED BY <1>5, <2>1, <2>3, <2>4
<1>12. NoneLeft BY <1>1, <1>3, <1>11 DEF NoneLeft
<1> QED BY <1>7, <1>8, <1>9, <1>10, <1>12 DEF BlockInv

LEMMA BlockStep == IInv /\ IInv' /\ BlockInv /\ [Next]_vars => BlockInv'
<1> SUFFICES ASSUME IInv, IInv', BlockInv, [Next]_vars PROVE BlockInv' OBVIOUS
<1>1. TypeOK /\ TypeOK' /\ FeedOrder BY DEF IInv
<1>2. Front \in Nat BY <1>1, FrontType
<1>3. ASSUME UNCHANGED <<pc, job, shorts, aborted, encoded>>, FeedSound', Linked', Front' = Front,
             overflow' = 0 => overflow = 0
      PROVE  BlockInv'
  <2>1. \A w \in Workers : Hand(w)' = Hand(w) BY <1>3, HandKept
  <2>2. \A w \in Workers : JobSound(w)' BY <1>1, <1>2, <1>3, JobKept DEF BlockInv
  <2>3. Once' BY <1>3, <2>1 DEF BlockInv, Once, Blocks, Ends
  <2>4. NoneLeft'
    <3>1. /\ shorts' = 0 /\ (\E w \in Workers : pc'[w] # "off")
          /\ ~aborted' => \A w \in Workers : pc'[w] = "done" => TargetRawBytes <= Front'
      BY <1>3 DEF BlockInv, NoneLeft
    <3>2. ASSUME overflow' = 0, ~aborted', NEW b \in Blocks, Ends(b) <= Front'
          PROVE  encoded'[b] # "no" \/ \E w \in Workers : b \in Hand(w)'
      BY <1>3, <2>1, <3>2 DEF BlockInv, NoneLeft
    <3> QED BY <3>1, <3>2 DEF NoneLeft, TargetRawBytes, Blocks, Ends
  <2> QED BY <1>3, <2>2, <2>3, <2>4 DEF BlockInv
<1>4. CASE Write
  <2>1. UNCHANGED <<callback, pending, queue, overflow, pc, job, shorts, aborted, encoded>>
    BY <1>4 DEF Write
  <2>2. FeedSound' BY <1>1, <1>4, WriteSound DEF BlockInv
  <2>3. Low' = Low /\ Front' = Front BY <2>1 DEF Low, Front
  <2>4. Linked' BY <2>1, <2>3 DEF BlockInv, Linked
  <2> QED BY <1>3, <2>1, <2>2, <2>3, <2>4
<1>5. CASE onPartialReceive
  <2>1. FeedSound' /\ Linked' /\ Front' = Front /\ (overflow' = 0 => overflow = 0)
    BY <1>1, <1>5, ReceiveSound DEF BlockInv
  <2>2. UNCHANGED <<pc, job, shorts, aborted, encoded>> BY <1>5 DEF onPartialReceive
  <2> QED BY <1>3, <2>1, <2>2
<1>6. ASSUME NEW w \in Workers, Worker(w) PROVE BlockInv'
  BY <1>1, <1>6, TakeStep, PlaceStep, EndStep DEF Worker
<1>7. CASE UNCHANGED vars
  <2>1. UNCHANGED feedVars /\ UNCHANGED <<pc, job, shorts, aborted, encoded>> /\ overflow' = overflow
    BY <1>7 DEF vars, feedVars
  <2>2. FeedSound' /\ Linked' /\ Front' = Front BY <2>1, FeedKept DEF BlockInv
  <2> QED BY <1>3, <2>1, <2>2
<1> QED BY <1>4, <1>5, <1>6, <1>7 DEF Next, Finished

LEMMA FeedInv == Spec => [](IInv /\ BlockInv)
<1>1. Init => IInv /\ BlockInv BY InitInv, BlockInit
<1>2. (IInv /\ BlockInv) /\ [Next]_vars => (IInv /\ BlockInv)' BY StepInv, BlockStep
<1> QED BY <1>1, <1>2, PTL DEF Spec

\* Every block is encoded once at most, and from its own bytes unless the DMA has come round to it
\* (onPartialReceive, codecWorkerBody, dynamicWorkerBody).
THEOREM BlocksArePlaced == Spec => []BlocksPlaced
<1>1. IInv /\ BlockInv => BlocksPlaced BY DEF BlockInv, Once, BlocksPlaced
<1> QED BY <1>1, FeedInv, PTL

\* A run that ends without an abort or a lost chunk has passed over no chunk as too short and has
\* left out no block before the data that nobody took, wherever the source stalled; and no block at
\* all when a worker left at the target (onPartialReceive, codecWorkerBody, dynamicWorkerBody).
THEOREM NoneIsLeftOut == Spec => []NoneLeftOut
<1>1. ASSUME IInv, BlockInv, ~Running, ~aborted, overflow = 0
      PROVE  /\ \A b \in Blocks : Ends(b) <= Front => encoded[b] # "no"
             /\ (\E w \in Workers : pc[w] = "done") => \A b \in Blocks : encoded[b] # "no"
  <2>1. pc \in [Workers -> {"off", "take", "copied", "blocks", "counted", "done", "starved"}]
    BY <1>1 DEF IInv, TypeOK
  <2>2. \A w \in Workers : pc[w] \in {"off", "done", "starved"} BY <1>1, <2>1 DEF Running
  <2>3. \A w \in Workers : Hand(w) = {} BY <2>2 DEF Hand, Encoding
  <2>4. \A b \in Blocks : Ends(b) <= Front => encoded[b] # "no"
    BY <1>1, <2>3 DEF BlockInv, NoneLeft
  <2>5. ASSUME NEW w \in Workers, pc[w] = "done", NEW b \in Blocks PROVE encoded[b] # "no"
    <3>1. TargetRawBytes <= Front BY <1>1, <2>5 DEF BlockInv, NoneLeft
    <3>2. Ends(b) \in Nat /\ Ends(b) <= TargetRawBytes /\ TargetRawBytes \in Nat /\ Front \in Nat
      BY <1>1, EndsType, TargetType, FrontType DEF IInv
    <3>3. Ends(b) <= Front BY <3>1, <3>2
    <3> QED BY <2>4, <3>3
  <2> QED BY <2>4, <2>5
<1>2. IInv /\ BlockInv => NoneLeftOut
  <2>1. BlockInv => shorts = 0 BY DEF BlockInv, NoneLeft
  <2> QED BY <1>1, <2>1 DEF NoneLeftOut
<1> QED BY <1>2, FeedInv, PTL
====
