---- MODULE StageSlotsProofs ----
(***************************************************************************)
(* Theorems about StageSlots, for every number of slots, size of the       *)
(* table, length of stages, chunks and run.                                *)
(***************************************************************************)
EXTENDS StageSlots, SequenceTheorems, FiniteSetTheorems, TLAPS

---------------------------------------------------------------------------
(* Stages and blocks.                                                      *)

LEMMA Constants ==
  /\ StageCount \in Nat \ {0} /\ TableSize \in Nat \ {0} /\ StageBlocks \in Nat \ {0}
  /\ TargetBlocks \in Nat \ {0} /\ ChunkSizes \subseteq Nat \ {0}
  /\ DirectDepth \in Nat /\ MaxLost \in Nat
  BY SlotAssumption

LEMMA DivMod ==
  ASSUME NEW a \in Nat, NEW n \in Nat \ {0}
  PROVE  /\ a \div n \in Nat /\ a % n \in 0 .. n - 1
         /\ a = (a \div n) * n + (a % n)
  BY SMT

LEMMA TimesApart ==
  ASSUME NEW i \in Nat, NEW k \in Nat, NEW n \in Nat, i < k
  PROVE  i * n \in Nat /\ k * n \in Nat /\ i * n + n <= k * n
  BY SMTT(20)

LEMMA ModDiffers ==
  ASSUME NEW a \in Nat, NEW b \in Nat, NEW n \in Nat \ {0}, a < b, b < a + n
  PROVE  a % n # b % n
<1> DEFINE p == a \div n
           q == b \div n
           r == a % n
<1>1. p \in Nat /\ q \in Nat /\ r \in 0 .. n - 1 /\ a = p * n + r BY DivMod
<1>2. SUFFICES ASSUME b % n = r PROVE FALSE OBVIOUS
<1>3. b = q * n + r BY <1>2, DivMod
<1> HIDE DEF p, q, r
<1>4. CASE p < q
  <2>1. p * n \in Nat /\ q * n \in Nat /\ p * n + n <= q * n BY <1>1, <1>4, TimesApart
  <2> DEFINE x == p * n
             y == q * n
  <2> HIDE DEF x, y
  <2>2. x \in Nat /\ y \in Nat /\ x + n <= y /\ a = x + r /\ b = y + r
    BY <1>1, <1>3, <2>1 DEF x, y
  <2> QED BY <1>1, <2>2
<1>5. CASE q < p
  <2>1. p * n \in Nat /\ q * n \in Nat /\ q * n + n <= p * n BY <1>1, <1>5, TimesApart
  <2> DEFINE x == p * n
             y == q * n
  <2> HIDE DEF x, y
  <2>2. x \in Nat /\ y \in Nat /\ y + n <= x /\ a = x + r /\ b = y + r
    BY <1>1, <1>3, <2>1 DEF x, y
  <2> QED BY <1>1, <2>2
<1>6. CASE p = q BY <1>1, <1>3, <1>6
<1> QED BY <1>1, <1>4, <1>5, <1>6

\* The first block of stage i, and the one past its last.
Start(i) == i * StageBlocks
Limit(i) == Least(Start(i) + StageBlocks, TargetBlocks)

LEMMA StartType ==
  ASSUME NEW i \in Nat
  PROVE  Start(i) \in Nat /\ \A k \in Nat : i < k => Start(i) + StageBlocks <= Start(k)
  BY TimesApart, Constants DEF Start

LEMMA StageOfBlock ==
  ASSUME NEW b \in Nat
  PROVE  /\ b \div StageBlocks \in Nat
         /\ Start(b \div StageBlocks) <= b /\ b < Start(b \div StageBlocks) + StageBlocks
         /\ b % StageBlocks = b - Start(b \div StageBlocks)
<1> DEFINE q == b \div StageBlocks
           r == b % StageBlocks
<1>1. q \in Nat /\ r \in 0 .. StageBlocks - 1 /\ b = q * StageBlocks + r
  BY DivMod, Constants
<1> HIDE DEF q, r
<1>2. Start(q) \in Nat /\ b = Start(q) + r BY <1>1, StartType DEF Start
<1>3. Start(q) <= b /\ b < Start(q) + StageBlocks /\ r = b - Start(q) BY <1>1, <1>2, Constants
<1> QED BY <1>1, <1>3 DEF q, r

\* A block lies in one stage.
LEMMA StageUnique ==
  ASSUME NEW b \in Nat, NEW i \in Nat, NEW k \in Nat,
         Start(i) <= b, b < Start(i) + StageBlocks,
         Start(k) <= b, b < Start(k) + StageBlocks
  PROVE  i = k
<1>1. Start(i) \in Nat /\ Start(k) \in Nat BY StartType
<1>2. ~(i < k) /\ ~(k < i) BY <1>1, StartType, Constants
<1> QED BY <1>2

LEMMA IndexRange ==
  ASSUME NEW i
  PROVE  i \in Indices <=> i \in Nat /\ Start(i) < TargetBlocks
<1> DEFINE m == (TargetBlocks - 1) \div StageBlocks
           t == TargetBlocks - 1
<1>1. t \in Nat BY Constants
<1>2. m \in Nat /\ Start(m) <= t /\ t < Start(m) + StageBlocks BY <1>1, StageOfBlock
<1>3. i \in Indices <=> i \in Nat /\ i <= m BY <1>2 DEF Indices
<1> HIDE DEF m
<1>4. ASSUME i \in Nat PROVE i <= m <=> Start(i) < TargetBlocks
  <2>1. Start(i) \in Nat /\ Start(m) \in Nat BY <1>2, <1>4, StartType
  <2>2. i < m => Start(i) + StageBlocks <= Start(m) BY <1>2, <1>4, StartType
  <2>3. m < i => Start(m) + StageBlocks <= Start(i) BY <1>2, <1>4, StartType
  <2> QED BY <1>2, <1>4, <2>1, <2>2, <2>3, Constants
<1> QED BY <1>3, <1>4

---------------------------------------------------------------------------
(* The blocks the workers have in hand.                                    *)

Busy == {"acquire", "wait", "write", "commit", "publish"}

\* Past the last block of the chunk of w.
Past(w) == blk[w] + left[w]

\* The chunks are disjoint parts of the stream, no longer than the table allows.
Chunks ==
  /\ \A w \in Workers :
       /\ pc[w] \in Busy => left[w] > 0
       /\ pc[w] = "take" => left[w] = 0
       /\ Past(w) <= TargetBlocks /\ Past(w) <= cursor
       /\ left[w] > 0 => left[w] - 1 <= (TableSize - StageCount) * StageBlocks
  /\ \A u, w \in Workers : u # w => Past(u) <= blk[w] \/ Past(w) <= blk[u]

\* An entry is used for its indices only.
Table == \A e \in Entries : slotIndex[e] # NoStage => Entry(slotIndex[e]) = e

\* A worker leaves its chunk unfinished only in an aborted run.
Ended ==
  /\ \A w \in Workers : pc[w] = "done" /\ ~aborted =>
       left[w] = 0 /\ (stalled \/ cursor >= TargetBlocks)
  /\ codecFinished => \A w \in Workers : pc[w] = "done"

LEMMA LeastIs ==
  ASSUME NEW a \in Int, NEW b \in Int
  PROVE  Least(a, b) \in Int /\ Least(a, b) \in {a, b} /\ Least(a, b) <= a /\ Least(a, b) <= b
  BY DEF Least

\* The piece is the part of the chunk that lies in the current stage.
LEMMA PieceFacts ==
  ASSUME TypeOK, Chunks, NEW w \in Workers, left[w] > 0
  PROVE  /\ blk[w] \in Nat /\ left[w] \in Nat /\ Piece(w) \in Nat /\ Piece(w) > 0
         /\ Piece(w) <= left[w] /\ StageOf(w) \in Indices
         /\ Start(StageOf(w)) \in Nat
         /\ Start(StageOf(w)) <= blk[w]
         /\ Offset(w) = blk[w] - Start(StageOf(w))
         /\ blk[w] + Piece(w) <= Start(StageOf(w)) + StageBlocks
         /\ blk[w] + Piece(w) = Past(w) \/ blk[w] + Piece(w) = Start(StageOf(w)) + StageBlocks
         /\ blk[w] + Piece(w) <= Limit(StageOf(w))
<1> DEFINE b == blk[w]
           n == left[w]
           i == StageOf(w)
<1>1. b \in Nat /\ n \in Nat /\ n > 0 /\ b + n <= TargetBlocks BY DEF TypeOK, Chunks, Past
<1>2. /\ i \in Nat /\ Start(i) <= b /\ b < Start(i) + StageBlocks /\ Offset(w) = b - Start(i)
  BY <1>1, StageOfBlock DEF StageOf, Offset
<1>3. Start(i) \in Nat BY <1>2, StartType
<1>4. Past(w) = b + n BY DEF Past
<1>5. Piece(w) = Least(StageBlocks - Offset(w), n) BY DEF Piece
<1> HIDE DEF b, n, i
<1>6. StageBlocks - Offset(w) \in Nat /\ StageBlocks - Offset(w) > 0
  BY <1>1, <1>2, <1>3, Constants
<1>7. /\ Piece(w) \in Int /\ Piece(w) \in {StageBlocks - Offset(w), n}
      /\ Piece(w) <= StageBlocks - Offset(w) /\ Piece(w) <= n
  BY <1>1, <1>5, <1>6, LeastIs
<1>8. /\ Piece(w) \in Nat /\ Piece(w) > 0 /\ b + Piece(w) <= Start(i) + StageBlocks
      /\ b + Piece(w) = Past(w) \/ b + Piece(w) = Start(i) + StageBlocks
      /\ b + Piece(w) <= TargetBlocks
  BY <1>1, <1>2, <1>3, <1>4, <1>6, <1>7, Constants
<1>9. i \in Indices BY <1>1, <1>2, <1>3, IndexRange, Constants
<1>10. b + Piece(w) <= Limit(i) BY <1>1, <1>3, <1>8, Constants DEF Limit, Least
<1> QED BY <1>1, <1>2, <1>3, <1>7, <1>8, <1>9, <1>10 DEF b, n, i

LEMMA WireChunkType ==
  /\ \A s \in Slots, i \in Indices : [slot |-> s, index |-> i] \in WireChunk
  /\ \A r \in WireChunk : r.slot \in Slots /\ r.index \in Indices /\ r # NoChunk
  /\ NoChunk.index = NoStage /\ NoChunk.slot = -1
  /\ NoStage \notin Indices /\ -1 \notin Slots /\ Indices \subseteq Nat /\ Slots \subseteq Nat
<1>1. NoStage \notin Indices /\ -1 \notin Slots /\ Slots \subseteq Nat BY Constants DEF NoStage, Indices, Slots
<1>2. Indices \subseteq Nat BY DEF Indices
<1> QED BY <1>1, <1>2 DEF WireChunk, NoChunk

LEMMA EntryType ==
  ASSUME NEW i \in Nat
  PROVE  Entry(i) \in Entries
  BY DivMod, Constants DEF Entry, Entries

LEMMA PlaceType ==
  ASSUME NEW i \in Nat
  PROVE  i % StageCount \in Slots
  BY DivMod, Constants DEF Slots

\* Taking the next chunk.
LEMMA TakeEffect ==
  ASSUME TypeOK, Chunks, NEW w \in Workers, TakeChunk(w)
  PROVE  /\ pc[w] = "take" /\ left[w] = 0 /\ ~aborted
         /\ \E n \in ChunkSizes, m \in Nat \ {0} :
              /\ cursor' = cursor + n /\ m = Least(n, TargetBlocks - cursor)
              /\ blk' = [blk EXCEPT ![w] = cursor] /\ left' = [left EXCEPT ![w] = m]
              /\ cursor + m <= cursor' /\ cursor + m <= TargetBlocks
              /\ cursor + m = cursor' \/ cursor + m = TargetBlocks
              /\ m - 1 <= (TableSize - StageCount) * StageBlocks
         /\ cursor \in Nat /\ cursor' \in Nat /\ cursor < TargetBlocks
         /\ pc' = [pc EXCEPT ![w] = "acquire"]
         /\ UNCHANGED <<lost, stalled, sinkOnly, buf, tableVars, stage, readyQ,
                        usbVars, published, aborted, codecFinished>>
<1>1. /\ cursor \in Nat /\ cursor < TargetBlocks /\ pc[w] = "take" /\ left[w] = 0
      /\ ~aborted /\ pc' = [pc EXCEPT ![w] = "acquire"]
      /\ UNCHANGED <<lost, stalled, sinkOnly, buf, tableVars, stage, readyQ,
                     usbVars, published, aborted, codecFinished>>
  BY DEF TakeChunk, TypeOK, Chunks
<1>2. PICK n \in ChunkSizes :
        /\ cursor' = cursor + n
        /\ blk' = [blk EXCEPT ![w] = cursor]
        /\ left' = [left EXCEPT ![w] = Least(n, TargetBlocks - cursor)]
  BY DEF TakeChunk
<1> DEFINE m == Least(n, TargetBlocks - cursor)
           room == (TableSize - StageCount) * StageBlocks
<1>3. n \in Nat \ {0} /\ n - 1 <= room BY Constants, TableAssumption
<1>4. m \in Int /\ m \in {n, TargetBlocks - cursor} /\ m <= n /\ m <= TargetBlocks - cursor
  <2>1. n \in Int /\ TargetBlocks - cursor \in Int BY <1>1, <1>3, Constants
  <2> QED BY <2>1, LeastIs
<1>5. room \in Int BY Constants
<1>6. left' = [left EXCEPT ![w] = m] /\ m = Least(n, TargetBlocks - cursor) BY <1>2
<1> HIDE DEF m, room
<1>7. /\ m \in Nat \ {0} /\ cursor' = cursor + n /\ cursor' \in Nat
      /\ cursor + m <= cursor' /\ cursor + m <= TargetBlocks
      /\ cursor + m = cursor' \/ cursor + m = TargetBlocks
      /\ m - 1 <= room
  BY <1>1, <1>2, <1>3, <1>4, <1>5, Constants
<1> QED BY <1>1, <1>2, <1>6, <1>7 DEF room

\* Going on behind the piece.
LEMMA NextEffect ==
  ASSUME TypeOK, Chunks, NEW w \in Workers, left[w] > 0, NextPiece(w)
  PROVE  /\ blk' = [blk EXCEPT ![w] = blk[w] + Piece(w)]
         /\ left' = [left EXCEPT ![w] = left[w] - Piece(w)]
         /\ blk[w] + Piece(w) \in Nat /\ left[w] - Piece(w) \in Nat
         /\ blk[w] + Piece(w) + (left[w] - Piece(w)) = Past(w)
         /\ \/ pc' = [pc EXCEPT ![w] = "acquire"] /\ left[w] - Piece(w) > 0
            \/ pc' = [pc EXCEPT ![w] = "take"] /\ left[w] - Piece(w) = 0
<1>1. /\ blk' = [blk EXCEPT ![w] = blk[w] + Piece(w)]
      /\ left' = [left EXCEPT ![w] = left[w] - Piece(w)]
      /\ pc' = [pc EXCEPT ![w] = IF left[w] > Piece(w) THEN "acquire" ELSE "take"]
  BY DEF NextPiece, TypeOK
<1>2. blk[w] \in Nat /\ left[w] \in Nat /\ Piece(w) \in Nat /\ Piece(w) <= left[w]
  BY PieceFacts
<1>3. Past(w) = blk[w] + left[w] BY DEF Past
<1> DEFINE b == blk[w]
           n == left[w]
           p == Piece(w)
<1> HIDE DEF b, n, p
<1>4. /\ b \in Nat /\ n \in Nat /\ p \in Nat /\ p <= n
  BY <1>2 DEF b, n, p
<1>5. /\ b + p \in Nat /\ n - p \in Nat /\ b + p + (n - p) = b + n
      /\ n > p => n - p > 0
      /\ ~(n > p) => n - p = 0
  BY <1>4
<1> QED BY <1>1, <1>3, <1>5 DEF b, n, p

---------------------------------------------------------------------------
(* Types.                                                                  *)

BaseInv == TypeOK /\ Chunks /\ Table /\ Ended

LEMMA BaseInit == Init => BaseInv
<1> SUFFICES ASSUME Init PROVE BaseInv OBVIOUS
<1> USE DEF Init
<1>1. 0 \in Slots BY Constants DEF Slots
<1>2. TypeOK
  <2>0. sinkOnly \in BOOLEAN BY SlotAssumption
  <2>1. /\ cursor \in Nat /\ lost \in 0 .. MaxLost /\ stalled \in BOOLEAN
        /\ pc \in [Workers -> {"take", "acquire", "wait", "write", "commit", "publish", "done"}]
        /\ blk \in [Workers -> Nat] /\ left \in [Workers -> Nat] /\ buf \in [Workers -> Slots]
    BY <1>1, Constants
  <2>2. /\ slotIndex \in [Entries -> Indices \cup {NoStage}] /\ slotOf \in [Entries -> Slots]
        /\ freeSlots \subseteq Slots /\ filled \in [Slots -> Nat]
        /\ held \in [Slots -> WireChunk \cup {NoChunk}]
    BY <1>1
  <2>3. stage \in [Slots -> [Positions -> Nat \cup {NoBlock}]] OBVIOUS
  <2>4. readyQ \in Seq(WireChunk) /\ Len(readyQ) <= StageCount BY Constants
  <2> QED BY <2>0, <2>1, <2>2, <2>3, <2>4 DEF TypeOK
<1>3. Chunks BY Constants DEF Chunks, Past, Busy
<1>4. Table /\ Ended BY DEF Table, Ended
<1> QED BY <1>2, <1>3, <1>4 DEF BaseInv

\* The chunks when the worker w has gone on within its own.
LEMMA ChunksStay ==
  ASSUME TypeOK, Chunks, NEW w \in Workers, cursor' \in Nat, cursor <= cursor',
         NEW b \in Nat, NEW n \in Nat, blk[w] <= b, b + n = Past(w), n <= left[w],
         blk' = [blk EXCEPT ![w] = b], left' = [left EXCEPT ![w] = n],
         \A u \in Workers : u # w => pc'[u] = pc[u],
         pc'[w] \in Busy => n > 0, pc'[w] = "take" => n = 0
  PROVE  Chunks'
<1>1. \A u \in Workers : blk[u] \in Nat /\ left[u] \in Nat /\ Past(u) \in Nat BY DEF TypeOK, Past
<1>2. blk'[w] = b /\ left'[w] = n BY DEF TypeOK
<1>3. \A u \in Workers : u # w => blk'[u] = blk[u] /\ left'[u] = left[u] BY DEF TypeOK
<1>4. \A u \in Workers : Past(u)' = Past(u) BY <1>2, <1>3 DEF Past
<1>5. cursor \in Nat BY DEF TypeOK
<1>6. ASSUME NEW u \in Workers
      PROVE  /\ pc'[u] \in Busy => left'[u] > 0
             /\ pc'[u] = "take" => left'[u] = 0
             /\ Past(u)' <= TargetBlocks /\ Past(u)' <= cursor'
             /\ left'[u] > 0 => left'[u] - 1 <= (TableSize - StageCount) * StageBlocks
  <2> DEFINE room == (TableSize - StageCount) * StageBlocks
  <2>1. room \in Int BY Constants
  <2>2. left[u] > 0 => left[u] - 1 <= room BY DEF Chunks
  <2> HIDE DEF room
  <2>3. Past(u)' <= TargetBlocks /\ Past(u)' <= cursor'
    BY <1>1, <1>4, <1>5, Constants DEF Chunks
  <2>4. CASE u = w
    <3>1. left'[u] > 0 => left'[u] - 1 <= room BY <1>1, <1>2, <2>1, <2>2, <2>4
    <3> QED BY <1>2, <2>3, <2>4, <3>1 DEF room
  <2>5. CASE u # w BY <1>3, <2>2, <2>3, <2>5 DEF Chunks, room
  <2> QED BY <2>4, <2>5
<1>7. ASSUME NEW u \in Workers, NEW v \in Workers, u # v
      PROVE  Past(u)' <= blk'[v] \/ Past(v)' <= blk'[u]
  <2>1. Past(u) <= blk[v] \/ Past(v) <= blk[u] BY <1>7 DEF Chunks
  <2>2. blk[u] <= blk'[u] /\ blk[v] <= blk'[v] BY <1>1, <1>2, <1>3
  <2>3. blk'[u] \in Nat /\ blk'[v] \in Nat BY <1>1, <1>2, <1>3
  <2> QED BY <1>1, <1>4, <2>1, <2>2, <2>3
<1>8. \A u \in Workers : pc'[u] \in Busy => left'[u] > 0 BY <1>6
<1> QED BY <1>6, <1>7 DEF Chunks

\* The chunks when nobody goes on.
LEMMA ChunksSame ==
  ASSUME TypeOK, Chunks, cursor' \in Nat, cursor <= cursor', UNCHANGED <<blk, left>>,
         \A w \in Workers : /\ pc'[w] \in Busy => pc[w] \in Busy
                            /\ pc'[w] = "take" => pc[w] = "take"
  PROVE  Chunks'
<1>1. \A u \in Workers : blk[u] \in Nat /\ left[u] \in Nat /\ Past(u) \in Nat BY DEF TypeOK, Past
<1>2. \A u \in Workers : Past(u)' = Past(u) BY DEF Past
<1>3. cursor \in Nat BY DEF TypeOK
<1>4. \A u \in Workers : Past(u)' <= cursor' BY <1>1, <1>2, <1>3 DEF Chunks
<1> QED BY <1>2, <1>4 DEF Chunks

LEMMA TakeChunks ==
  ASSUME TypeOK, Chunks, NEW w \in Workers, TakeChunk(w)
  PROVE  Chunks'
<1>1. PICK n \in ChunkSizes, m \in Nat \ {0} :
        /\ blk' = [blk EXCEPT ![w] = cursor] /\ left' = [left EXCEPT ![w] = m]
        /\ cursor + m <= cursor' /\ cursor + m <= TargetBlocks
        /\ m - 1 <= (TableSize - StageCount) * StageBlocks
  BY TakeEffect
<1>2. cursor \in Nat /\ cursor' \in Nat /\ pc' = [pc EXCEPT ![w] = "acquire"] BY TakeEffect
<1>3. \A u \in Workers : blk[u] \in Nat /\ left[u] \in Nat /\ Past(u) \in Nat BY DEF TypeOK, Past
<1>4. blk'[w] = cursor /\ left'[w] = m /\ pc'[w] = "acquire" BY <1>1, <1>2 DEF TypeOK
<1>5. \A u \in Workers : u # w => blk'[u] = blk[u] /\ left'[u] = left[u] /\ pc'[u] = pc[u]
  BY <1>1, <1>2 DEF TypeOK
<1>6. Past(w)' = cursor + m /\ \A u \in Workers : u # w => Past(u)' = Past(u)
  BY <1>4, <1>5 DEF Past
<1>7. cursor <= cursor' BY <1>1, <1>2
<1>8. \A u \in Workers : Past(u) <= cursor BY DEF Chunks
<1>9. ASSUME NEW u \in Workers
      PROVE  /\ pc'[u] \in Busy => left'[u] > 0
             /\ pc'[u] = "take" => left'[u] = 0
             /\ Past(u)' <= TargetBlocks /\ Past(u)' <= cursor'
             /\ left'[u] > 0 => left'[u] - 1 <= (TableSize - StageCount) * StageBlocks
  <2>1. CASE u = w BY <1>1, <1>4, <1>6, <2>1
  <2>2. CASE u # w BY <1>2, <1>3, <1>5, <1>6, <1>7, <2>2 DEF Chunks
  <2> QED BY <2>1, <2>2
<1>10. ASSUME NEW u \in Workers, NEW v \in Workers, u # v
       PROVE  Past(u)' <= blk'[v] \/ Past(v)' <= blk'[u]
  <2>1. Past(u) <= blk[v] \/ Past(v) <= blk[u] BY <1>10 DEF Chunks
  <2> QED BY <1>4, <1>5, <1>6, <1>8, <1>10, <2>1
<1> QED BY <1>9, <1>10 DEF Chunks

\* Acquiring: the slot of the stage, or a free one.
LEMMA AcquireType ==
  ASSUME TypeOK, Chunks, Table, NEW w \in Workers, Acquire(w)
  PROVE  TypeOK' /\ Table'
<1> DEFINE i == StageOf(w)
           e == Entry(i)
<1>1. left[w] > 0 BY DEF Acquire, Chunks, Busy
<1>2. i \in Indices /\ i \in Nat BY <1>1, PieceFacts, WireChunkType
<1>3. e \in Entries BY <1>2, EntryType
<1>4. slotOf[e] \in Slots BY <1>3 DEF TypeOK
<1>5. /\ pc' = [pc EXCEPT ![w] = "write"]
      /\ UNCHANGED <<feedVars, blk, left, stage, readyQ, usbVars, published,
                     aborted, codecFinished>>
      /\ \/ buf' = [buf EXCEPT ![w] = slotOf[e]] /\ UNCHANGED tableVars
         \/ \E s \in freeSlots : TakeSlot(s, i) /\ buf' = [buf EXCEPT ![w] = s]
  BY DEF Acquire
<1> HIDE DEF i
<1>6. CASE buf' = [buf EXCEPT ![w] = slotOf[e]] /\ UNCHANGED tableVars
  <2>1. TypeOK' BY <1>4, <1>5, <1>6 DEF TypeOK, tableVars, feedVars, usbVars
  <2> QED BY <1>6, <2>1 DEF Table, tableVars
<1>7. CASE \E s \in freeSlots : TakeSlot(s, i) /\ buf' = [buf EXCEPT ![w] = s]
  <2>1. PICK s \in freeSlots : TakeSlot(s, i) /\ buf' = [buf EXCEPT ![w] = s] BY <1>7
  <2>2. s \in Slots BY DEF TypeOK
  <2>3. /\ freeSlots' = freeSlots \ {s} /\ slotIndex' = [slotIndex EXCEPT ![e] = i]
        /\ slotOf' = [slotOf EXCEPT ![e] = s] /\ filled' = [filled EXCEPT ![s] = 0]
    BY <2>1 DEF TakeSlot
  <2> HIDE DEF e
  <2>4. /\ freeSlots' \subseteq Slots /\ slotIndex' \in [Entries -> Indices \cup {NoStage}]
        /\ slotOf' \in [Entries -> Slots] /\ filled' \in [Slots -> Nat]
        /\ buf' \in [Workers -> Slots]
    BY <1>2, <1>3, <2>1, <2>2, <2>3 DEF TypeOK
  <2>5. TypeOK' BY <1>5, <2>4 DEF TypeOK, feedVars, usbVars
  <2>6. ASSUME NEW d \in Entries, slotIndex'[d] # NoStage PROVE Entry(slotIndex'[d]) = d
    <3>1. CASE d = e BY <1>3, <2>3, <3>1 DEF TypeOK, e
    <3>2. CASE d # e BY <1>3, <2>3, <2>6, <3>2 DEF TypeOK, Table
    <3> QED BY <3>1, <3>2
  <2> QED BY <2>5, <2>6 DEF Table
<1> QED BY <1>5, <1>6, <1>7

\* The blocks of a piece are written at their places.
LEMMA WriteType ==
  ASSUME TypeOK, Chunks, NEW w \in Workers, WriteBlocks(w)
  PROVE  TypeOK'
<1> DEFINE s == buf[w]
           row == [p \in Positions |-> IF p \in Offset(w) .. Offset(w) + Piece(w) - 1
                     THEN StageOf(w) * StageBlocks + p ELSE stage[s][p]]
<1>1. left[w] > 0 BY DEF WriteBlocks, Chunks, Busy
<1>2. StageOf(w) * StageBlocks \in Nat BY <1>1, PieceFacts DEF Start
<1>3. s \in Slots /\ stage[s] \in [Positions -> Nat \cup {NoBlock}] BY DEF TypeOK
<1>4. Positions \subseteq Nat BY DEF Positions
<1>5. row \in [Positions -> Nat \cup {NoBlock}]
  <2>1. \A p \in Positions : StageOf(w) * StageBlocks + p \in Nat BY <1>2, <1>4
  <2> QED BY <1>3, <2>1
<1>6. stage' = [stage EXCEPT ![s] = row] BY DEF WriteBlocks
<1> HIDE DEF row, s
<1>7. stage' \in [Slots -> [Positions -> Nat \cup {NoBlock}]] BY <1>3, <1>5, <1>6 DEF TypeOK
<1> QED BY <1>7 DEF WriteBlocks, TypeOK, feedVars, tableVars, usbVars

\* Going on keeps the types of what it changes.
LEMMA NextType ==
  ASSUME TypeOK, Chunks, NEW w \in Workers, left[w] > 0, NextPiece(w)
  PROVE  /\ blk' \in [Workers -> Nat] /\ left' \in [Workers -> Nat]
         /\ pc' \in [Workers -> {"take", "acquire", "wait", "write", "commit", "publish", "done"}]
         /\ \A u \in Workers : u # w => pc'[u] = pc[u]
         /\ pc'[w] \in {"acquire", "take"}
         /\ cursor' = cursor => Chunks'
<1>1. /\ blk' = [blk EXCEPT ![w] = blk[w] + Piece(w)]
      /\ left' = [left EXCEPT ![w] = left[w] - Piece(w)]
      /\ blk[w] + Piece(w) \in Nat /\ left[w] - Piece(w) \in Nat
      /\ blk[w] + Piece(w) + (left[w] - Piece(w)) = Past(w)
      /\ \/ pc' = [pc EXCEPT ![w] = "acquire"] /\ left[w] - Piece(w) > 0
         \/ pc' = [pc EXCEPT ![w] = "take"] /\ left[w] - Piece(w) = 0
  BY NextEffect
<1>2. /\ pc' \in [Workers -> {"take", "acquire", "wait", "write", "commit", "publish", "done"}]
      /\ \A u \in Workers : u # w => pc'[u] = pc[u]
      /\ pc'[w] \in {"acquire", "take"}
      /\ pc'[w] \in Busy => left[w] - Piece(w) > 0
      /\ pc'[w] = "take" => left[w] - Piece(w) = 0
  BY <1>1 DEF TypeOK, Busy
<1>3. blk[w] <= blk[w] + Piece(w) /\ left[w] - Piece(w) <= left[w] BY PieceFacts
<1>4. ASSUME cursor' = cursor PROVE Chunks'
  <2>1. cursor' \in Nat /\ cursor <= cursor' BY <1>4 DEF TypeOK
  <2> DEFINE b == blk[w] + Piece(w)
             n == left[w] - Piece(w)
  <2>2. /\ b \in Nat /\ n \in Nat /\ blk[w] <= b /\ b + n = Past(w) /\ n <= left[w]
        /\ blk' = [blk EXCEPT ![w] = b] /\ left' = [left EXCEPT ![w] = n]
        /\ pc'[w] \in Busy => n > 0
        /\ pc'[w] = "take" => n = 0
    BY <1>1, <1>2, <1>3
  <2> HIDE DEF b, n
  <2> QED BY <1>2, <2>1, <2>2, ChunksStay
<1>5. blk' \in [Workers -> Nat] /\ left' \in [Workers -> Nat]
  <2> DEFINE b == blk[w] + Piece(w)
             n == left[w] - Piece(w)
  <2>1. /\ b \in Nat /\ n \in Nat
        /\ blk' = [blk EXCEPT ![w] = b] /\ left' = [left EXCEPT ![w] = n]
    BY <1>1
  <2> HIDE DEF b, n
  <2> QED BY <2>1 DEF TypeOK
<1> QED BY <1>2, <1>4, <1>5

LEMMA CommitType ==
  ASSUME TypeOK, Chunks, NEW w \in Workers, Commit(w)
  PROVE  TypeOK' /\ Chunks' /\ \A u \in Workers : pc'[u] = "done" => pc[u] = "done"
<1> DEFINE i == StageOf(w)
           b == slotOf[Entry(i)]
           f == filled[b] + Piece(w)
<1>1. left[w] > 0 /\ pc[w] = "commit" BY DEF Commit, Chunks, Busy
<1>2. i \in Indices /\ i \in Nat /\ Piece(w) \in Nat BY <1>1, PieceFacts, WireChunkType
<1>3. b \in Slots BY <1>2, EntryType DEF TypeOK
<1>4. f \in Nat
  <2>1. filled[b] \in Nat BY <1>3 DEF TypeOK
  <2> QED BY <1>2, <2>1
<1>5. /\ filled' = [filled EXCEPT ![b] = f]
      /\ \/ /\ pc' = [pc EXCEPT ![w] = "publish"] /\ buf' = [buf EXCEPT ![w] = b]
            /\ published' = published \cup {i} /\ UNCHANGED <<blk, left>>
         \/ NextPiece(w) /\ UNCHANGED <<buf, published>>
      /\ UNCHANGED <<feedVars, slotIndex, slotOf, freeSlots, stage, readyQ,
                     usbVars, aborted, codecFinished>>
  BY DEF Commit
<1> HIDE DEF i, b, f
<1>6. filled' \in [Slots -> Nat] BY <1>3, <1>4, <1>5 DEF TypeOK
<1>7. CASE /\ pc' = [pc EXCEPT ![w] = "publish"] /\ buf' = [buf EXCEPT ![w] = b]
           /\ published' = published \cup {i} /\ UNCHANGED <<blk, left>>
  <2>1. TypeOK' BY <1>2, <1>3, <1>5, <1>6, <1>7 DEF TypeOK, feedVars, usbVars
  <2>2. \A u \in Workers : /\ pc'[u] \in Busy => pc[u] \in Busy
                           /\ pc'[u] = "take" => pc[u] = "take"
                           /\ pc'[u] = "done" => pc[u] = "done"
    BY <1>1, <1>7 DEF TypeOK, Busy
  <2>3. cursor' = cursor /\ cursor \in Nat BY <1>5 DEF feedVars, TypeOK
  <2>4. Chunks' BY <1>7, <2>2, <2>3, ChunksSame
  <2> QED BY <2>1, <2>2, <2>4
<1>8. CASE NextPiece(w) /\ UNCHANGED <<buf, published>>
  <2>1. cursor' = cursor BY <1>5 DEF feedVars
  <2>2. /\ blk' \in [Workers -> Nat] /\ left' \in [Workers -> Nat]
        /\ pc' \in [Workers -> {"take", "acquire", "wait", "write", "commit", "publish", "done"}]
        /\ \A u \in Workers : u # w => pc'[u] = pc[u]
        /\ pc'[w] \in {"acquire", "take"}
        /\ Chunks'
    BY <1>1, <1>8, <2>1, NextType
  <2>3. TypeOK' BY <1>5, <1>6, <1>8, <2>2 DEF TypeOK, feedVars, usbVars
  <2> QED BY <2>2, <2>3
<1> QED BY <1>5, <1>7, <1>8

LEMMA PublishType ==
  ASSUME TypeOK, Chunks, NEW w \in Workers, Publish(w)
  PROVE  TypeOK' /\ Chunks' /\ \A u \in Workers : pc'[u] = "done" => pc[u] = "done"
<1> DEFINE r == [slot |-> buf[w], index |-> StageOf(w)]
<1>1. left[w] > 0 BY DEF Publish, Chunks, Busy
<1>2. r \in WireChunk BY <1>1, PieceFacts, WireChunkType DEF TypeOK
<1>3. /\ Len(readyQ) < StageCount /\ readyQ' = Append(readyQ, r) /\ NextPiece(w)
      /\ UNCHANGED <<feedVars, buf, tableVars, stage, usbVars, published,
                     aborted, codecFinished>>
  BY DEF Publish
<1> HIDE DEF r
<1>4. cursor' = cursor BY <1>3 DEF feedVars
<1>5. /\ blk' \in [Workers -> Nat] /\ left' \in [Workers -> Nat]
      /\ pc' \in [Workers -> {"take", "acquire", "wait", "write", "commit", "publish", "done"}]
      /\ \A u \in Workers : u # w => pc'[u] = pc[u]
      /\ pc'[w] \in {"acquire", "take"}
      /\ Chunks'
  BY <1>1, <1>3, <1>4, NextType
<1>6. readyQ \in Seq(WireChunk) BY DEF TypeOK
<1>7. readyQ' \in Seq(WireChunk) /\ Len(readyQ') <= StageCount
  <2>1. readyQ' \in Seq(WireChunk) /\ Len(readyQ') = Len(readyQ) + 1
    BY <1>2, <1>3, <1>6, AppendProperties
  <2>2. Len(readyQ) \in Nat BY <1>6
  <2> QED BY <1>3, <2>1, <2>2, Constants
<1>8. TypeOK' BY <1>3, <1>5, <1>7 DEF TypeOK, feedVars, tableVars, usbVars
<1> QED BY <1>5, <1>8

\* usbTask takes the first stage of the queue.
LEMMA HeadFacts ==
  ASSUME TypeOK, readyQ # <<>>
  PROVE  /\ Head(readyQ) = readyQ[1] /\ readyQ[1] \in WireChunk
         /\ Tail(readyQ) \in Seq(WireChunk) /\ Len(Tail(readyQ)) = Len(readyQ) - 1
         /\ Len(readyQ) \in Nat /\ Len(readyQ) > 0
         /\ \A k \in 1 .. Len(readyQ) - 1 : Tail(readyQ)[k] = readyQ[k + 1]
<1>1. readyQ \in Seq(WireChunk) BY DEF TypeOK
<1> QED BY <1>1, HeadTailProperties, EmptySeq

LEMMA DispatchType ==
  ASSUME TypeOK, NEW r \in WireChunk, Dispatch(r)
  PROVE  armed' \subseteq WireChunk /\ freeSlots' \subseteq Slots
  BY WireChunkType DEF Dispatch, Release, TypeOK

LEMMA ConsumerType ==
  TypeOK /\ (Consumer \/ UsbComplete) => TypeOK' /\ UNCHANGED <<cursor, stalled, aborted, codecFinished>>
                                         /\ UNCHANGED <<pc, blk, left, slotIndex>>
<1> SUFFICES ASSUME TypeOK, Consumer \/ UsbComplete
             PROVE  TypeOK' /\ UNCHANGED <<cursor, stalled, aborted, codecFinished>>
                    /\ UNCHANGED <<pc, blk, left, slotIndex>>
  OBVIOUS
<1>1. UNCHANGED <<feedVars, workVars, slotIndex, slotOf, filled, stage, published, aborted, codecFinished>>
  BY DEF Consumer, UsbComplete, UsbReceive, UsbHold, UsbDrain, UsbExit, SinkReceive,
         SinkExit, tableVars, usbVars
<1>2. /\ readyQ' \in Seq(WireChunk) /\ Len(readyQ') <= StageCount
      /\ upc' \in {"poll", "drain", "done"} /\ nextSend' \in Nat
      /\ held' \in [Slots -> WireChunk \cup {NoChunk}]
      /\ armed' \subseteq WireChunk /\ freeSlots' \subseteq Slots
  <2>1. CASE UsbReceive
    <3>1. /\ readyQ # <<>> /\ Dispatch(readyQ[1]) /\ readyQ' = Tail(readyQ)
          /\ nextSend' = nextSend + 1 /\ upc' = "drain" /\ held' = held
      BY <2>1, HeadFacts DEF UsbReceive
    <3>2. armed' \subseteq WireChunk /\ freeSlots' \subseteq Slots
      BY <3>1, HeadFacts, DispatchType
    <3>3. Len(readyQ') <= StageCount BY <3>1, HeadFacts, Constants DEF TypeOK
    <3>4. nextSend' \in Nat BY <3>1 DEF TypeOK
    <3> QED BY <3>1, <3>2, <3>3, <3>4, HeadFacts DEF TypeOK
  <2>2. CASE UsbHold
    <3>1. /\ readyQ # <<>> /\ readyQ' = Tail(readyQ)
          /\ held' = [held EXCEPT ![readyQ[1].index % StageCount] = readyQ[1]]
          /\ UNCHANGED <<tableVars, upc, nextSend, armed>>
      BY <2>2, HeadFacts DEF UsbHold
    <3>2. Len(readyQ') <= StageCount BY <3>1, HeadFacts, Constants DEF TypeOK
    <3>3. readyQ[1] \in WireChunk BY <3>1, HeadFacts
    <3>4. held' \in [Slots -> WireChunk \cup {NoChunk}] BY <3>1, <3>3 DEF TypeOK
    <3> QED BY <3>1, <3>2, <3>4, HeadFacts DEF TypeOK, tableVars
  <2>3. CASE UsbDrain
    <3> DEFINE h == nextSend % StageCount
    <3>1. h \in Slots /\ nextSend \in Nat BY PlaceType DEF TypeOK
    <3>2. readyQ' = readyQ BY <2>3 DEF UsbDrain
    <3>3. CASE /\ held[h] # NoChunk /\ Dispatch(held[h])
               /\ held' = [held EXCEPT ![h] = NoChunk]
               /\ nextSend' = nextSend + 1 /\ upc' = upc
      <4> HIDE DEF h
      <4>1. held[h] \in WireChunk BY <3>1, <3>3 DEF TypeOK
      <4>2. armed' \subseteq WireChunk /\ freeSlots' \subseteq Slots BY <3>3, <4>1, DispatchType
      <4>3. nextSend' \in Nat BY <3>1, <3>3
      <4>4. held' \in [Slots -> WireChunk \cup {NoChunk}] BY <3>3 DEF TypeOK
      <4> QED BY <3>2, <3>3, <4>2, <4>3, <4>4 DEF TypeOK
    <3>4. CASE upc' = "poll" /\ UNCHANGED <<nextSend, held, armed, freeSlots>>
      BY <3>2, <3>4 DEF TypeOK
    <3> QED BY <2>3, <3>3, <3>4 DEF UsbDrain
  <2>4. CASE UsbExit \/ SinkExit
    BY <2>4 DEF UsbExit, SinkExit, TypeOK, tableVars
  <2>5. CASE SinkReceive
    <3>1. /\ readyQ # <<>> /\ freeSlots' = freeSlots \cup {readyQ[1].slot}
          /\ readyQ' = Tail(readyQ) /\ UNCHANGED usbVars
      BY <2>5, HeadFacts DEF SinkReceive, Release
    <3>2. Len(readyQ') <= StageCount BY <3>1, HeadFacts, Constants DEF TypeOK
    <3>3. freeSlots' \subseteq Slots BY <3>1, HeadFacts, WireChunkType DEF TypeOK
    <3> QED BY <3>1, <3>2, <3>3, HeadFacts DEF TypeOK, usbVars
  <2>6. CASE UsbComplete
    <3>1. /\ armed' \subseteq armed /\ freeSlots' \subseteq Slots
          /\ UNCHANGED <<readyQ, upc, nextSend, held>>
      BY <2>6, WireChunkType DEF UsbComplete, Release, TypeOK
    <3> QED BY <3>1 DEF TypeOK
  <2> QED BY <2>1, <2>2, <2>3, <2>4, <2>5, <2>6 DEF Consumer
<1> QED BY <1>1, <1>2 DEF TypeOK, feedVars, workVars

LEMMA FeedType ==
  TypeOK /\ (LoseChunk \/ SourceStalls) => TypeOK' /\ cursor <= cursor'
<1> SUFFICES ASSUME TypeOK, LoseChunk \/ SourceStalls PROVE TypeOK' /\ cursor <= cursor'
  OBVIOUS
<1>1. UNCHANGED <<sinkOnly, workVars, tableVars, stage, readyQ, usbVars, published, aborted, codecFinished>>
  BY DEF LoseChunk, SourceStalls
<1>2. cursor' \in Nat /\ cursor <= cursor' /\ lost' \in 0 .. MaxLost /\ stalled' \in BOOLEAN
  <2>1. cursor \in Nat /\ lost \in 0 .. MaxLost BY DEF TypeOK
  <2>2. CASE LoseChunk
    <3>1. PICK n \in ChunkSizes : cursor' = cursor + n BY <2>2 DEF LoseChunk
    <3>2. lost < MaxLost /\ lost' = lost + 1 /\ stalled' = stalled BY <2>2 DEF LoseChunk
    <3>3. lost' \in 0 .. MaxLost BY <2>1, <3>2, Constants
    <3>4. cursor' \in Nat /\ cursor <= cursor' BY <2>1, <3>1, Constants
    <3> QED BY <3>2, <3>3, <3>4 DEF TypeOK
  <2>3. CASE SourceStalls BY <2>1, <2>3 DEF SourceStalls, TypeOK
  <2> QED BY <2>2, <2>3
<1> QED BY <1>1, <1>2 DEF TypeOK, workVars, tableVars, usbVars

\* Workers that only change their place in the code.
LEMMA PcSteps ==
  ASSUME NEW w \in Workers, StopWorker(w) \/ AcquireFails(w) \/ GiveUp(w)
  PROVE  /\ UNCHANGED <<feedVars, blk, left, buf, tableVars, stage, readyQ, usbVars,
                        published, codecFinished>>
         /\ \/ /\ StopWorker(w) /\ pc[w] = "take" /\ pc' = [pc EXCEPT ![w] = "done"]
               /\ aborted \/ stalled \/ cursor >= TargetBlocks
               /\ aborted' = aborted
            \/ /\ AcquireFails(w) /\ pc[w] = "acquire" /\ pc' = [pc EXCEPT ![w] = "wait"]
               /\ aborted' = aborted
            \/ /\ GiveUp(w) /\ pc[w] = "wait" /\ pc' = [pc EXCEPT ![w] = "done"] /\ aborted' = TRUE
  BY DEF StopWorker, AcquireFails, GiveUp

LEMMA TakeType ==
  ASSUME TypeOK, Chunks, NEW w \in Workers, TakeChunk(w)
  PROVE  TypeOK'
<1>1. PICK n \in ChunkSizes, m \in Nat \ {0} :
        blk' = [blk EXCEPT ![w] = cursor] /\ left' = [left EXCEPT ![w] = m]
  BY TakeEffect
<1>2. /\ cursor \in Nat /\ cursor' \in Nat /\ pc' = [pc EXCEPT ![w] = "acquire"]
      /\ UNCHANGED <<lost, stalled, sinkOnly, buf, tableVars, stage, readyQ,
                     usbVars, published, aborted, codecFinished>>
  BY TakeEffect
<1>3. /\ blk' \in [Workers -> Nat] /\ left' \in [Workers -> Nat]
      /\ pc' \in [Workers -> {"take", "acquire", "wait", "write", "commit", "publish", "done"}]
  BY <1>1, <1>2 DEF TypeOK
<1> QED BY <1>2, <1>3 DEF TypeOK, tableVars, usbVars

\* Ended when no worker is done that was not before.
LEMMA EndedStays ==
  ASSUME TypeOK, Ended, cursor' \in Nat, cursor <= cursor', stalled' = stalled \/ stalled' = TRUE,
         aborted' = aborted, codecFinished' = codecFinished,
         \A w \in Workers : /\ pc'[w] = "done" => pc[w] = "done"
                            /\ pc[w] = "done" => pc'[w] = "done" /\ left'[w] = left[w]
  PROVE  Ended'
<1>1. cursor \in Nat BY DEF TypeOK
<1>2. cursor >= TargetBlocks => cursor' >= TargetBlocks BY <1>1, Constants
<1> QED BY <1>2 DEF Ended, TypeOK

LEMMA BaseStep == BaseInv /\ [Next]_vars => BaseInv'
<1> SUFFICES ASSUME TypeOK, Chunks, Table, Ended, [Next]_vars PROVE BaseInv'
  BY DEF BaseInv
<1>1. cursor \in Nat BY DEF TypeOK
<1>2. CASE LoseChunk \/ SourceStalls
  <2>1. /\ UNCHANGED <<workVars, tableVars, aborted, codecFinished>>
        /\ stalled' = stalled \/ stalled' = TRUE
    BY <1>2 DEF LoseChunk, SourceStalls
  <2>2. TypeOK' /\ cursor <= cursor' BY <1>2, FeedType
  <2>3. cursor' \in Nat BY <2>2 DEF TypeOK
  <2>4. Chunks' BY <2>1, <2>2, <2>3, ChunksSame DEF workVars
  <2>5. Ended' BY <2>1, <2>2, <2>3, EndedStays DEF workVars
  <2> QED BY <2>1, <2>2, <2>4, <2>5 DEF BaseInv, Table, tableVars
<1>3. ASSUME NEW w \in Workers, TakeChunk(w) PROVE BaseInv'
  <2>1. TypeOK' /\ Chunks' BY <1>3, TakeType, TakeChunks
  <2>2. PICK n \in ChunkSizes, m \in Nat \ {0} :
          cursor' = cursor + n /\ left' = [left EXCEPT ![w] = m]
    BY <1>3, TakeEffect
  <2>3. /\ pc[w] = "take" /\ pc' = [pc EXCEPT ![w] = "acquire"] /\ cursor' \in Nat
        /\ UNCHANGED <<stalled, tableVars, aborted, codecFinished>>
    BY <1>3, TakeEffect
  <2>4. cursor <= cursor' BY <1>1, <2>2, Constants
  <2>5. \A u \in Workers : /\ pc'[u] = "done" => pc[u] = "done"
                           /\ pc[u] = "done" => pc'[u] = "done" /\ left'[u] = left[u]
    BY <2>2, <2>3 DEF TypeOK
  <2>6. Ended' BY <2>3, <2>4, <2>5, EndedStays
  <2> QED BY <2>1, <2>3, <2>6 DEF BaseInv, Table, tableVars
<1>4. ASSUME NEW w \in Workers, StopWorker(w) \/ AcquireFails(w) \/ GiveUp(w) PROVE BaseInv'
  <2>1. /\ UNCHANGED <<feedVars, blk, left, buf, tableVars, stage, readyQ, usbVars,
                       published, codecFinished>>
        /\ \/ /\ pc[w] = "take" /\ pc' = [pc EXCEPT ![w] = "done"]
              /\ aborted \/ stalled \/ cursor >= TargetBlocks
              /\ aborted' = aborted
           \/ /\ pc[w] = "acquire" /\ pc' = [pc EXCEPT ![w] = "wait"] /\ aborted' = aborted
           \/ /\ pc[w] = "wait" /\ pc' = [pc EXCEPT ![w] = "done"] /\ aborted' = TRUE
    BY <1>4, PcSteps
  <2>2. /\ pc' \in [Workers -> {"take", "acquire", "wait", "write", "commit", "publish", "done"}]
        /\ aborted' \in BOOLEAN
    BY <2>1 DEF TypeOK
  <2>3. TypeOK' BY <2>1, <2>2 DEF TypeOK, feedVars, tableVars, usbVars
  <2>4. \A u \in Workers : pc'[u] \in Busy => pc[u] \in Busy BY <2>1 DEF TypeOK, Busy
  <2>5. \A u \in Workers : pc'[u] = "take" => pc[u] = "take" BY <2>1 DEF TypeOK
  <2>6. cursor' = cursor BY <2>1 DEF feedVars
  <2>7. Chunks' BY <1>1, <2>1, <2>4, <2>5, <2>6, ChunksSame
  <2>8. Ended'
    <3>1. \A u \in Workers : u # w => pc'[u] = pc[u] BY <2>1 DEF TypeOK
    <3>2. pc[w] # "done" BY <2>1
    <3>3. pc'[w] = "done" /\ ~aborted' => left[w] = 0 /\ (stalled \/ cursor >= TargetBlocks)
      BY <2>1 DEF TypeOK, Chunks
    <3>4. ~aborted' => ~aborted BY <2>1 DEF TypeOK
    <3>5. ~codecFinished BY <3>2 DEF Ended
    <3> QED BY <2>1, <2>6, <3>1, <3>3, <3>4, <3>5 DEF Ended, feedVars
  <2> QED BY <2>1, <2>3, <2>7, <2>8 DEF BaseInv, Table, tableVars
<1>5. ASSUME NEW w \in Workers, Acquire(w) PROVE BaseInv'
  <2>1. TypeOK' /\ Table' BY <1>5, AcquireType
  <2>2. /\ pc[w] \in Busy /\ pc[w] # "done" /\ pc' = [pc EXCEPT ![w] = "write"]
        /\ UNCHANGED <<feedVars, blk, left, aborted, codecFinished>>
    BY <1>5 DEF Acquire, Busy
  <2>3. \A u \in Workers : /\ pc'[u] \in Busy => pc[u] \in Busy
                           /\ pc'[u] = "take" => pc[u] = "take"
                           /\ pc'[u] = "done" <=> pc[u] = "done"
    BY <2>2 DEF TypeOK
  <2>4. cursor' = cursor /\ stalled' = stalled BY <2>2 DEF feedVars
  <2>5. Chunks' BY <1>1, <2>2, <2>3, <2>4, ChunksSame
  <2>6. Ended' BY <1>1, <2>2, <2>3, <2>4, EndedStays
  <2> QED BY <2>1, <2>5, <2>6 DEF BaseInv
<1>6. ASSUME NEW w \in Workers, WriteBlocks(w) PROVE BaseInv'
  <2>1. TypeOK' BY <1>6, WriteType
  <2>2. /\ pc[w] \in Busy /\ pc[w] # "done" /\ pc' = [pc EXCEPT ![w] = "commit"]
        /\ UNCHANGED <<feedVars, blk, left, tableVars, aborted, codecFinished>>
    BY <1>6 DEF WriteBlocks, Busy
  <2>3. \A u \in Workers : /\ pc'[u] \in Busy => pc[u] \in Busy
                           /\ pc'[u] = "take" => pc[u] = "take"
                           /\ pc'[u] = "done" <=> pc[u] = "done"
    BY <2>2 DEF TypeOK
  <2>4. cursor' = cursor /\ stalled' = stalled BY <2>2 DEF feedVars
  <2>5. Chunks' BY <1>1, <2>2, <2>3, <2>4, ChunksSame
  <2>6. Ended' BY <1>1, <2>2, <2>3, <2>4, EndedStays
  <2> QED BY <2>1, <2>2, <2>5, <2>6 DEF BaseInv, Table, tableVars
<1>7. ASSUME NEW w \in Workers, Commit(w) \/ Publish(w) PROVE BaseInv'
  <2>1. TypeOK' /\ Chunks' /\ \A u \in Workers : pc'[u] = "done" => pc[u] = "done"
    BY <1>7, CommitType, PublishType
  <2>2. UNCHANGED <<feedVars, slotIndex, aborted, codecFinished>>
    BY <1>7 DEF Commit, Publish, tableVars
  <2>3. pc[w] # "done" BY <1>7 DEF Commit, Publish
  <2>4. \A u \in Workers : pc[u] = "done" => pc'[u] = "done" /\ left'[u] = left[u]
    BY <1>7, <2>3 DEF Commit, Publish, NextPiece, TypeOK
  <2>5. Ended' BY <1>1, <2>1, <2>2, <2>4, EndedStays DEF feedVars
  <2> QED BY <2>1, <2>2, <2>5 DEF BaseInv, Table
<1>8. CASE CodecFinishes
  <2>1. /\ \A w \in Workers : pc[w] = "done"
        /\ codecFinished' = TRUE
        /\ UNCHANGED <<feedVars, workVars, tableVars, stage, readyQ, usbVars, published, aborted>>
    BY <1>8 DEF CodecFinishes
  <2>2. TypeOK' BY <2>1 DEF TypeOK, feedVars, workVars, tableVars, usbVars
  <2>3. Chunks' BY <1>1, <2>1, ChunksSame DEF feedVars, workVars
  <2>4. Ended' BY <2>1 DEF Ended, feedVars, workVars
  <2> QED BY <2>1, <2>2, <2>3, <2>4 DEF BaseInv, Table, tableVars
<1>9. CASE Consumer \/ UsbComplete
  <2>1. TypeOK' /\ UNCHANGED <<cursor, stalled, aborted, codecFinished, pc, blk, left, slotIndex>>
    BY <1>9, ConsumerType
  <2>2. Chunks' BY <1>1, <2>1, ChunksSame
  <2>3. Ended' BY <1>1, <2>1, EndedStays
  <2> QED BY <2>1, <2>2, <2>3 DEF BaseInv, Table
<1>10. CASE UNCHANGED vars
  <2>1. UNCHANGED <<feedVars, workVars, tableVars, stage, readyQ, usbVars, published, aborted, codecFinished>>
    BY <1>10 DEF vars
  <2>2. TypeOK' BY <2>1 DEF TypeOK, feedVars, workVars, tableVars, usbVars
  <2>3. Chunks' BY <1>1, <2>1, ChunksSame DEF feedVars, workVars
  <2>4. Ended' BY <2>1 DEF Ended, feedVars, workVars
  <2> QED BY <2>1, <2>2, <2>3, <2>4 DEF BaseInv, Table, tableVars
<1> QED BY <1>2, <1>3, <1>4, <1>5, <1>6, <1>7, <1>8, <1>9, <1>10
        DEF Next, Worker, Finished

LEMMA BaseHolds == Spec => []BaseInv
<1> QED BY BaseInit, BaseStep, PTL DEF Spec

\* The state keeps its type: in particular the queue never exceeds its
\* kStageCount entries and every index in the table and on its way is one of the run.
THEOREM TypeCorrect == Spec => []TypeOK
<1>1. BaseInv => TypeOK BY DEF BaseInv
<1> QED BY <1>1, BaseHolds, PTL

---------------------------------------------------------------------------
(* The blocks of a stage, and those the workers still have in hand.        *)

BlocksOf(i) == Start(i) .. Limit(i) - 1

\* The first block a worker has not accounted, and the first it has not written.
First(w) == IF pc[w] = "publish" THEN blk[w] + Piece(w) ELSE blk[w]
Todo(w)  == First(w) .. Past(w) - 1
FirstBlank(w) == IF pc[w] \in {"commit", "publish"} THEN blk[w] + Piece(w) ELSE blk[w]
Unwritten(w)  == FirstBlank(w) .. Past(w) - 1

\* The blocks of a stage that a worker has got, and those it is done with.
Taken(i) == {b \in BlocksOf(i) : b < cursor}
Accounted(i) == {b \in Taken(i) : \A w \in Workers : b \notin Todo(w)}

LEMMA BlocksFacts ==
  ASSUME NEW i \in Indices
  PROVE  /\ i \in Nat /\ Start(i) \in Nat /\ Limit(i) \in Nat
         /\ Start(i) < Limit(i) /\ Limit(i) <= Start(i) + StageBlocks
         /\ Limit(i) <= TargetBlocks
         /\ Limit(i) = Start(i) + StageBlocks \/ Limit(i) = TargetBlocks
         /\ ExpectedFill(i) = Limit(i) - Start(i)
         /\ BlocksOf(i) \subseteq Nat /\ IsFiniteSet(BlocksOf(i))
         /\ Cardinality(BlocksOf(i)) = ExpectedFill(i)
         /\ \A b \in Int : b \in BlocksOf(i) <=> Start(i) <= b /\ b < Limit(i)
<1>1. i \in Nat /\ Start(i) < TargetBlocks BY IndexRange
<1>2. Start(i) \in Nat BY <1>1, StartType
<1> DEFINE s == Start(i)
           m == Limit(i)
<1>3. m = Least(s + StageBlocks, TargetBlocks) BY DEF Limit
<1>4. ExpectedFill(i) = Least(StageBlocks, TargetBlocks - s)
  BY <1>1, <1>2, Constants DEF ExpectedFill, Start
<1>5. BlocksOf(i) = s .. m - 1 BY DEF BlocksOf
<1> HIDE DEF s, m
<1>6. s \in Nat /\ s < TargetBlocks BY <1>1, <1>2 DEF s
<1>7. /\ m \in Nat /\ s < m /\ m <= s + StageBlocks /\ m <= TargetBlocks
      /\ m = s + StageBlocks \/ m = TargetBlocks
      /\ ExpectedFill(i) = m - s
  BY <1>3, <1>4, <1>6, Constants DEF Least
<1>8. /\ IsFiniteSet(BlocksOf(i)) /\ Cardinality(BlocksOf(i)) = m - s
      /\ BlocksOf(i) \subseteq Nat
      /\ \A b \in Int : b \in BlocksOf(i) <=> s <= b /\ b < m
  <2> DEFINE e == m - 1
  <2>1. e \in Int /\ s \in Int /\ BlocksOf(i) = s .. e /\ ~(s > e) /\ e - s + 1 = m - s
    BY <1>5, <1>6, <1>7
  <2>2. \A b \in Int : b <= e <=> b < m BY <1>7
  <2> HIDE DEF e
  <2>3. IsFiniteSet(s .. e) /\ Cardinality(s .. e) = e - s + 1 BY <2>1, FS_Interval
  <2> QED BY <1>6, <2>1, <2>2, <2>3
<1> QED BY <1>1, <1>2, <1>7, <1>8 DEF s, m

\* A block lies in the stage its number gives.
LEMMA InStage ==
  ASSUME NEW b \in Nat, NEW i \in Indices, b \in BlocksOf(i)
  PROVE  b \div StageBlocks = i
<1>1. Start(i) <= b /\ b < Start(i) + StageBlocks BY BlocksFacts, Constants
<1>2. i \in Nat BY BlocksFacts
<1> QED BY <1>1, <1>2, StageOfBlock, StageUnique

\* What a worker has in hand.
LEMMA HandFacts ==
  ASSUME TypeOK, Chunks, NEW w \in Workers
  PROVE  /\ blk[w] \in Nat /\ left[w] \in Nat /\ Past(w) \in Nat /\ First(w) \in Nat
         /\ FirstBlank(w) \in Nat
         /\ blk[w] <= First(w) /\ First(w) <= FirstBlank(w) /\ FirstBlank(w) <= Past(w)
         /\ Past(w) <= cursor /\ cursor \in Nat /\ Past(w) <= TargetBlocks
         /\ pc[w] \in {"acquire", "wait", "write", "commit"} =>
              First(w) = blk[w] /\ blk[w] < Past(w)
         /\ \A b \in Int : b \in Todo(w) <=> First(w) <= b /\ b < Past(w)
         /\ \A b \in Int : b \in Unwritten(w) <=> FirstBlank(w) <= b /\ b < Past(w)
<1>1. blk[w] \in Nat /\ left[w] \in Nat /\ cursor \in Nat BY DEF TypeOK
<1>2. Past(w) = blk[w] + left[w] /\ Past(w) <= cursor /\ Past(w) <= TargetBlocks
  BY DEF Past, Chunks
<1>3. pc[w] \in Busy => /\ left[w] > 0 /\ Piece(w) \in Nat /\ Piece(w) > 0 /\ Piece(w) <= left[w]
  BY PieceFacts DEF Chunks
<1> DEFINE p == Piece(w)
           q == Past(w)
<1>4. /\ First(w) = IF pc[w] = "publish" THEN blk[w] + p ELSE blk[w]
      /\ FirstBlank(w) = IF pc[w] \in {"commit", "publish"} THEN blk[w] + p ELSE blk[w]
      /\ Todo(w) = First(w) .. q - 1 /\ Unwritten(w) = FirstBlank(w) .. q - 1
  BY DEF First, FirstBlank, Todo, Unwritten
<1> HIDE DEF p, q
<1>5. /\ q = blk[w] + left[w] /\ q <= cursor /\ q <= TargetBlocks
      /\ pc[w] \in Busy => left[w] > 0 /\ p \in Nat /\ p > 0 /\ p <= left[w]
  BY <1>2, <1>3 DEF p, q
<1>6. /\ q \in Nat /\ First(w) \in Nat /\ FirstBlank(w) \in Nat
      /\ blk[w] <= First(w) /\ First(w) <= FirstBlank(w) /\ FirstBlank(w) <= q
      /\ pc[w] \in {"acquire", "wait", "write", "commit"} => First(w) = blk[w] /\ blk[w] < q
  BY <1>1, <1>4, <1>5 DEF Busy
<1>7. /\ \A b \in Int : b \in Todo(w) <=> First(w) <= b /\ b < q
      /\ \A b \in Int : b \in Unwritten(w) <=> FirstBlank(w) <= b /\ b < q
  BY <1>4, <1>6
<1> QED BY <1>1, <1>5, <1>6, <1>7 DEF q

\* Two workers never have the same block in hand.
LEMMA HandsApart ==
  ASSUME TypeOK, Chunks, NEW u \in Workers, NEW w \in Workers, u # w, NEW b \in Int,
         blk[u] <= b, b < Past(u)
  PROVE  b \notin Todo(w) /\ b \notin Unwritten(w)
<1>1. Past(u) <= blk[w] \/ Past(w) <= blk[u] BY DEF Chunks
<1> QED BY <1>1, HandFacts

\* The hand of a worker that neither goes on nor passes the critical section.
LEMMA HandSame ==
  ASSUME NEW u \in Workers, blk'[u] = blk[u], left'[u] = left[u],
         pc'[u] = "publish" <=> pc[u] = "publish"
  PROVE  /\ First(u)' = First(u) /\ Past(u)' = Past(u) /\ Todo(u)' = Todo(u)
         /\ (pc'[u] = "commit" <=> pc[u] = "commit") =>
              FirstBlank(u)' = FirstBlank(u) /\ Unwritten(u)' = Unwritten(u)
<1>1. Piece(u)' = Piece(u) BY DEF Piece, Offset
<1>2. Past(u)' = Past(u) /\ First(u)' = First(u) BY <1>1 DEF Past, First
<1>3. (pc'[u] = "commit" <=> pc[u] = "commit") => FirstBlank(u)' = FirstBlank(u)
  BY <1>1 DEF FirstBlank
<1> QED BY <1>2, <1>3 DEF Todo, Unwritten

\* The hand of a worker that goes on behind its piece.
LEMMA HandNext ==
  ASSUME TypeOK, Chunks, NEW w \in Workers, pc[w] \in {"commit", "publish"}, NextPiece(w)
  PROVE  /\ blk'[w] = blk[w] + Piece(w) /\ First(w)' = blk[w] + Piece(w)
         /\ FirstBlank(w)' = FirstBlank(w) /\ Past(w)' = Past(w)
         /\ Unwritten(w)' = Unwritten(w) /\ Todo(w)' = (blk[w] + Piece(w)) .. (Past(w) - 1)
         /\ \A u \in Workers : u # w => blk'[u] = blk[u] /\ left'[u] = left[u] /\ pc'[u] = pc[u]
<1>1. left[w] > 0 BY DEF Chunks, Busy
<1>2. /\ blk' = [blk EXCEPT ![w] = blk[w] + Piece(w)]
      /\ left' = [left EXCEPT ![w] = left[w] - Piece(w)]
      /\ blk[w] + Piece(w) + (left[w] - Piece(w)) = Past(w)
      /\ \/ pc' = [pc EXCEPT ![w] = "acquire"]
         \/ pc' = [pc EXCEPT ![w] = "take"]
  BY <1>1, NextEffect
<1>3. /\ blk'[w] = blk[w] + Piece(w) /\ left'[w] = left[w] - Piece(w)
      /\ pc'[w] \in {"acquire", "take"}
      /\ \A u \in Workers : u # w => blk'[u] = blk[u] /\ left'[u] = left[u] /\ pc'[u] = pc[u]
  BY <1>2 DEF TypeOK
<1>4. Past(w)' = Past(w) BY <1>2, <1>3 DEF Past
<1>5. /\ First(w)' = blk[w] + Piece(w) /\ FirstBlank(w)' = blk[w] + Piece(w)
      /\ FirstBlank(w) = blk[w] + Piece(w)
  BY <1>3 DEF First, FirstBlank
<1> QED BY <1>3, <1>4, <1>5 DEF Todo, Unwritten

\* The hand of a worker that takes the next chunk: nothing before, the new
\* blocks afterwards.
LEMMA HandTake ==
  ASSUME TypeOK, Chunks, NEW w \in Workers, TakeChunk(w)
  PROVE  /\ \A b \in Int : b \notin Todo(w) /\ b \notin Unwritten(w)
         /\ \A b \in Int : cursor <= b /\ b < cursor' /\ b < TargetBlocks =>
              b \in Todo(w)' /\ b \in Unwritten(w)'
         /\ \A b \in Int : b < cursor => b \notin Todo(w)' /\ b \notin Unwritten(w)'
         /\ blk'[w] = cursor /\ blk[w] <= cursor /\ cursor <= cursor'
         /\ \A u \in Workers : u # w => blk'[u] = blk[u] /\ left'[u] = left[u] /\ pc'[u] = pc[u]
<1>1. PICK n \in ChunkSizes, m \in Nat \ {0} :
        /\ blk' = [blk EXCEPT ![w] = cursor] /\ left' = [left EXCEPT ![w] = m]
        /\ cursor + m <= cursor' /\ cursor + m <= TargetBlocks
        /\ cursor + m = cursor' \/ cursor + m = TargetBlocks
  BY TakeEffect
<1>2. /\ cursor \in Nat /\ cursor' \in Nat /\ pc' = [pc EXCEPT ![w] = "acquire"]
      /\ pc[w] = "take" /\ left[w] = 0
  BY TakeEffect
<1>3. blk'[w] = cursor /\ left'[w] = m /\ pc'[w] = "acquire" BY <1>1, <1>2 DEF TypeOK
<1>4. \A u \in Workers : u # w => blk'[u] = blk[u] /\ left'[u] = left[u] /\ pc'[u] = pc[u]
  BY <1>1, <1>2 DEF TypeOK
<1>5. First(w)' = cursor /\ FirstBlank(w)' = cursor /\ Past(w)' = cursor + m
  BY <1>3 DEF First, FirstBlank, Past
<1>6. First(w) = blk[w] /\ FirstBlank(w) = blk[w] /\ Past(w) = blk[w] + 0
  BY <1>2 DEF First, FirstBlank, Past
<1>7. blk[w] \in Nat /\ blk[w] <= cursor BY HandFacts
<1>8. /\ Todo(w) = blk[w] .. (blk[w] + 0) - 1 /\ Unwritten(w) = blk[w] .. (blk[w] + 0) - 1
      /\ Todo(w)' = cursor .. (cursor + m) - 1 /\ Unwritten(w)' = cursor .. (cursor + m) - 1
  <2>1. Todo(w) = blk[w] .. (blk[w] + 0) - 1 BY <1>6 DEF Todo
  <2>2. Unwritten(w) = blk[w] .. (blk[w] + 0) - 1 BY <1>6 DEF Unwritten
  <2>3. Todo(w)' = cursor .. (cursor + m) - 1 BY <1>5 DEF Todo
  <2>4. Unwritten(w)' = cursor .. (cursor + m) - 1 BY <1>5 DEF Unwritten
  <2> QED BY <2>1, <2>2, <2>3, <2>4
<1>9. cursor <= cursor' BY <1>1, <1>2
<1>10. \A b \in Int : b \notin Todo(w) /\ b \notin Unwritten(w) BY <1>7, <1>8
<1>11. \A b \in Int : cursor <= b /\ b < cursor' /\ b < TargetBlocks =>
         b \in Todo(w)' /\ b \in Unwritten(w)'
  BY <1>1, <1>2, <1>8, Constants
<1>12. \A b \in Int : b < cursor => b \notin Todo(w)' /\ b \notin Unwritten(w)'
  BY <1>2, <1>8
<1> QED BY <1>3, <1>4, <1>7, <1>9, <1>10, <1>11, <1>12

---------------------------------------------------------------------------
(* The accounts.                                                           *)

\* A stage that has a buffer and is not published.
Open(i) == Bound(i) /\ i \notin published

\* StageFilled counts the blocks that are done; a stage is published when all
\* of them are, and none are before it has a buffer.
Fill ==
  /\ \A i \in Indices : i \in published <=> Accounted(i) = BlocksOf(i)
  /\ \A i \in Indices : Open(i) => filled[slotOf[Entry(i)]] = Cardinality(Accounted(i))
  /\ \A i \in Indices : ~Bound(i) /\ i \notin published => Accounted(i) = {}
  /\ \A i \in Indices : Bound(i) \/ i \in published => \E u \in Workers : Start(i) <= blk[u]

\* The stage a worker has blocks for is not published.
LEMMA TodoOpen ==
  ASSUME Fill, NEW i \in Indices, NEW w \in Workers, NEW b \in Int,
         b \in Todo(w), b \in BlocksOf(i)
  PROVE  i \notin published
<1>1. b \notin Accounted(i) BY DEF Accounted
<1> QED BY <1>1 DEF Fill

LEMMA CurrentStage ==
  ASSUME TypeOK, Chunks, NEW w \in Workers,
         pc[w] \in {"acquire", "wait", "write", "commit"}
  PROVE  /\ StageOf(w) \in Indices /\ blk[w] \in Nat /\ blk[w] \in Todo(w)
         /\ blk[w] \in BlocksOf(StageOf(w)) /\ blk[w] < cursor
         /\ Fill => StageOf(w) \notin published
<1> DEFINE i == StageOf(w)
<1>1. left[w] > 0 BY DEF Chunks, Busy
<1>2. /\ i \in Indices /\ Start(i) <= blk[w] /\ Piece(w) > 0 /\ Piece(w) \in Nat
      /\ blk[w] + Piece(w) <= Limit(i)
  BY <1>1, PieceFacts
<1> HIDE DEF i
<1>3. /\ blk[w] \in Nat /\ Past(w) \in Nat /\ blk[w] < Past(w) /\ First(w) = blk[w]
      /\ Past(w) <= cursor /\ cursor \in Nat
      /\ \A b \in Int : b \in Todo(w) <=> First(w) <= b /\ b < Past(w)
  BY HandFacts
<1>4. Limit(i) \in Nat /\ \A b \in Int : b \in BlocksOf(i) <=> Start(i) <= b /\ b < Limit(i)
  BY <1>2, BlocksFacts
<1>5. blk[w] < Limit(i) BY <1>2, <1>3, <1>4
<1>6. blk[w] \in Todo(w) /\ blk[w] \in BlocksOf(i) /\ blk[w] < cursor
  BY <1>2, <1>3, <1>4, <1>5
<1>7. Fill => i \notin published BY <1>2, <1>3, <1>6, TodoOpen
<1> QED BY <1>2, <1>3, <1>6, <1>7 DEF i

LEMMA AccountedFacts ==
  ASSUME NEW i \in Indices
  PROVE  /\ Accounted(i) \subseteq BlocksOf(i) /\ IsFiniteSet(Accounted(i))
         /\ Cardinality(Accounted(i)) \in Nat
         /\ Cardinality(Accounted(i)) <= ExpectedFill(i)
         /\ Cardinality(Accounted(i)) = ExpectedFill(i) <=> Accounted(i) = BlocksOf(i)
<1>1. Accounted(i) \subseteq BlocksOf(i) BY DEF Accounted, Taken
<1>2. IsFiniteSet(BlocksOf(i)) /\ Cardinality(BlocksOf(i)) = ExpectedFill(i) BY BlocksFacts
<1> HIDE DEF Accounted
<1>3. /\ IsFiniteSet(Accounted(i)) /\ Cardinality(Accounted(i)) <= ExpectedFill(i)
      /\ Cardinality(Accounted(i)) = ExpectedFill(i) => Accounted(i) = BlocksOf(i)
  BY <1>1, <1>2, FS_Subset
<1>4. Cardinality(Accounted(i)) \in Nat BY <1>3, FS_CardinalityType
<1> QED BY <1>1, <1>2, <1>3, <1>4

LEMMA AccountedSame ==
  ASSUME cursor' = cursor, \A u \in Workers : Todo(u)' = Todo(u), NEW i \in Indices
  PROVE  Accounted(i)' = Accounted(i)
  BY DEF Accounted, Taken, BlocksOf

LEMMA AccountedTake ==
  ASSUME TypeOK, Chunks, NEW w \in Workers, TakeChunk(w), NEW i \in Indices
  PROVE  Accounted(i)' = Accounted(i)
<1>1. \A u \in Workers : u # w => Todo(u)' = Todo(u) BY HandTake, HandSame
<1>2. cursor \in Nat /\ cursor' \in Nat BY TakeEffect
<1>3. \A b \in BlocksOf(i) : b \in Nat /\ b < TargetBlocks
  BY BlocksFacts, Constants
<1>4. ASSUME NEW b \in BlocksOf(i)
      PROVE  (b < cursor' /\ \A u \in Workers : b \notin Todo(u)')
             <=> (b < cursor /\ \A u \in Workers : b \notin Todo(u))
  <2>1. b \in Int /\ b < TargetBlocks BY <1>3
  <2>2. b \notin Todo(w) BY <2>1, HandTake
  <2>3. cursor <= b /\ b < cursor' => b \in Todo(w)' BY <2>1, HandTake
  <2>4. b < cursor => b \notin Todo(w)' BY <2>1, HandTake
  <2>5. cursor <= cursor' BY HandTake
  <2> QED BY <1>1, <1>2, <2>1, <2>2, <2>3, <2>4, <2>5
<1>5. BlocksOf(i)' = BlocksOf(i) BY DEF BlocksOf
<1>6. Accounted(i)' = {b \in BlocksOf(i) : b < cursor' /\ \A u \in Workers : b \notin Todo(u)'}
  BY <1>5 DEF Accounted, Taken
<1>7. Accounted(i) = {b \in BlocksOf(i) : b < cursor /\ \A u \in Workers : b \notin Todo(u)}
  BY DEF Accounted, Taken
<1> QED BY <1>4, <1>6, <1>7

LEMMA FillSame ==
  ASSUME TypeOK, Fill, UNCHANGED <<slotIndex, slotOf, filled, published>>,
         \A i \in Indices : Accounted(i)' = Accounted(i),
         blk' \in [Workers -> Nat], \A u \in Workers : blk[u] <= blk'[u]
  PROVE  Fill'
<1>1. \A i \in Indices : i \in published' <=> Accounted(i)' = BlocksOf(i) BY DEF Fill
<1>2. \A i \in Indices : Bound(i)' = Bound(i) /\ Open(i)' = Open(i) BY DEF Bound, Open
<1>3. \A i \in Indices : Open(i)' => filled'[slotOf'[Entry(i)]] = Cardinality(Accounted(i)')
  BY <1>2 DEF Fill
<1>4. \A i \in Indices : ~Bound(i)' /\ i \notin published' => Accounted(i)' = {}
  BY <1>2 DEF Fill
<1>5. ASSUME NEW i \in Indices, Bound(i)' \/ i \in published'
      PROVE  \E u \in Workers : Start(i) <= blk'[u]
  <2>1. PICK u \in Workers : Start(i) <= blk[u] BY <1>2, <1>5 DEF Fill
  <2>2. Start(i) \in Nat /\ blk[u] \in Nat /\ blk'[u] \in Nat BY BlocksFacts DEF TypeOK
  <2>3. Start(i) <= blk'[u] BY <2>1, <2>2
  <2> QED BY <2>3
<1> QED BY <1>1, <1>3, <1>4, <1>5 DEF Fill

\* What commitStage() does to the hands: the piece is done.
LEMMA CommitHands ==
  ASSUME TypeOK, Chunks, NEW w \in Workers, Commit(w)
  PROVE  /\ Todo(w)' = (blk[w] + Piece(w)) .. (Past(w) - 1)
         /\ \A u \in Workers : u # w => Todo(u)' = Todo(u)
         /\ \A u \in Workers : Unwritten(u)' = Unwritten(u) /\ blk[u] <= blk'[u]
         /\ cursor' = cursor
<1>1. pc[w] = "commit" /\ left[w] > 0 /\ cursor' = cursor BY DEF Commit, feedVars, Chunks, Busy
<1>2. \A u \in Workers : blk[u] \in Nat BY DEF TypeOK
<1>3. Piece(w) \in Nat BY <1>1, PieceFacts
<1>4. CASE pc' = [pc EXCEPT ![w] = "publish"] /\ UNCHANGED <<blk, left>>
  <2>1. pc'[w] = "publish" /\ \A u \in Workers : u # w => pc'[u] = pc[u] BY <1>4 DEF TypeOK
  <2>2. Piece(w)' = Piece(w) /\ Past(w)' = Past(w) BY <1>4 DEF Piece, Offset, Past
  <2>3. /\ First(w)' = blk[w] + Piece(w) /\ FirstBlank(w)' = FirstBlank(w)
    BY <1>1, <1>4, <2>1, <2>2 DEF First, FirstBlank
  <2>4. Todo(w)' = (blk[w] + Piece(w)) .. (Past(w) - 1) /\ Unwritten(w)' = Unwritten(w)
    BY <2>2, <2>3 DEF Todo, Unwritten
  <2>5. \A u \in Workers : u # w => Todo(u)' = Todo(u) /\ Unwritten(u)' = Unwritten(u)
    BY <1>4, <2>1, HandSame
  <2> QED BY <1>1, <1>2, <1>4, <2>4, <2>5
<1>5. CASE NextPiece(w)
  <2>1. /\ blk'[w] = blk[w] + Piece(w) /\ Unwritten(w)' = Unwritten(w)
        /\ Todo(w)' = (blk[w] + Piece(w)) .. (Past(w) - 1)
        /\ \A u \in Workers : u # w => blk'[u] = blk[u] /\ left'[u] = left[u] /\ pc'[u] = pc[u]
    BY <1>1, <1>5, HandNext
  <2>2. \A u \in Workers : u # w => Todo(u)' = Todo(u) /\ Unwritten(u)' = Unwritten(u)
    BY <2>1, HandSame
  <2>3. \A u \in Workers : blk[u] <= blk'[u] BY <1>2, <1>3, <2>1
  <2> QED BY <1>1, <2>1, <2>2, <2>3
<1> QED BY <1>4, <1>5 DEF Commit

LEMMA AccountedCommit ==
  ASSUME TypeOK, Chunks, NEW w \in Workers, Commit(w),
         NEW i, i = StageOf(w)
  PROVE  /\ i \in Indices
         /\ \E new : /\ new = blk[w] .. blk[w] + Piece(w) - 1
                     /\ Accounted(i)' = Accounted(i) \cup new
                     /\ Accounted(i) \cap new = {}
                     /\ IsFiniteSet(new) /\ Cardinality(new) = Piece(w)
         /\ \A k \in Indices : k # i => Accounted(k)' = Accounted(k)
<1>0. PICK p, new : p = Piece(w) /\ new = blk[w] .. blk[w] + p - 1 OBVIOUS
<1>1. pc[w] = "commit" /\ left[w] > 0 BY DEF Commit, Chunks, Busy
<1>2. /\ blk[w] \in Nat /\ p \in Nat /\ p > 0 /\ i \in Indices /\ Start(i) <= blk[w]
      /\ blk[w] + p <= Limit(i) /\ p <= left[w] /\ left[w] \in Nat
  BY <1>0, <1>1, PieceFacts
<1>3. /\ Past(w) \in Nat /\ Past(w) <= cursor /\ cursor \in Nat /\ Past(w) = blk[w] + left[w]
      /\ First(w) = blk[w]
      /\ \A b \in Int : b \in Todo(w) <=> First(w) <= b /\ b < Past(w)
  BY <1>1, HandFacts DEF Past
<1>4. /\ Limit(i) \in Nat /\ Start(i) \in Nat
      /\ \A b \in Int : b \in BlocksOf(i) <=> Start(i) <= b /\ b < Limit(i)
  BY <1>2, BlocksFacts
<1>5. /\ Todo(w)' = (blk[w] + p) .. (Past(w) - 1) /\ cursor' = cursor
      /\ \A u \in Workers : u # w => Todo(u)' = Todo(u)
  BY <1>0, CommitHands
<1>6. \A b \in Int : b \in new <=> blk[w] <= b /\ b < blk[w] + p BY <1>0, <1>2
<1>7. ASSUME NEW b \in Int
      PROVE  /\ b \in new => b \in BlocksOf(i) /\ b < cursor /\ b \in Todo(w) /\ b \notin Todo(w)'
             /\ b \notin new => (b \in Todo(w)' <=> b \in Todo(w))
  <2>1. b \in Todo(w)' <=> blk[w] + p <= b /\ b < Past(w) BY <1>2, <1>3, <1>5
  <2>2. b \in new => b < Limit(i) /\ b < Past(w) BY <1>2, <1>3, <1>4, <1>6
  <2> QED BY <1>2, <1>3, <1>4, <1>6, <2>1, <2>2
<1>8. \A u \in Workers, b \in Int : u # w /\ b \in new => b \notin Todo(u)
  <2> SUFFICES ASSUME NEW u \in Workers, NEW b \in Int, u # w, b \in new PROVE b \notin Todo(u)
    OBVIOUS
  <2>1. blk[w] <= b /\ b < Past(w) BY <1>2, <1>3, <1>6
  <2> QED BY <2>1, HandsApart
<1>9. /\ \A k : BlocksOf(k)' = BlocksOf(k)
      /\ \A k \in Indices : BlocksOf(k) \subseteq Int
  BY BlocksFacts DEF BlocksOf
<1>10. /\ \A k : Accounted(k)' = {b \in BlocksOf(k) : b < cursor /\ \A u \in Workers : b \notin Todo(u)'}
       /\ \A k : Accounted(k) = {b \in BlocksOf(k) : b < cursor /\ \A u \in Workers : b \notin Todo(u)}
  BY <1>5, <1>9 DEF Accounted, Taken
<1>11. Accounted(i) \cap new = {} /\ new \subseteq Int
  <2>1. new \subseteq Int BY <1>0, <1>2
  <2> QED BY <1>7, <1>10, <2>1
<1>12. Accounted(i)' = Accounted(i) \cup new
  <2> DEFINE D == BlocksOf(i)
  <2>0. /\ Accounted(i)' = {b \in D : b < cursor /\ \A u \in Workers : b \notin Todo(u)'}
        /\ Accounted(i) = {b \in D : b < cursor /\ \A u \in Workers : b \notin Todo(u)}
        /\ D \subseteq Int
    <3>1. Accounted(i)' = {b \in D : b < cursor /\ \A u \in Workers : b \notin Todo(u)'}
      BY <1>10
    <3>2. Accounted(i) = {b \in D : b < cursor /\ \A u \in Workers : b \notin Todo(u)}
      BY <1>10
    <3>3. D \subseteq Int BY <1>2, <1>9
    <3> QED BY <3>1, <3>2, <3>3
  <2> HIDE DEF D
  <2>1. ASSUME NEW b \in Int PROVE b \in Accounted(i)' <=> b \in Accounted(i) \cup new
    <3>1. CASE b \in new
      <4>1. b \in D /\ b < cursor BY <1>7, <3>1 DEF D
      <4>2. \A u \in Workers : b \notin Todo(u)' BY <1>5, <1>7, <1>8, <3>1
      <4> QED BY <2>0, <3>1, <4>1, <4>2
    <3>2. CASE b \notin new
      <4>1. \A u \in Workers : b \in Todo(u)' <=> b \in Todo(u) BY <1>5, <1>7, <3>2
      <4> QED BY <2>0, <3>2, <4>1
    <3> QED BY <3>1, <3>2
  <2>2. Accounted(i)' \subseteq Int /\ Accounted(i) \subseteq Int BY <2>0
  <2> QED BY <1>11, <2>1, <2>2
<1>13. ASSUME NEW k \in Indices, k # i PROVE Accounted(k)' = Accounted(k)
  <2>1. ASSUME NEW b \in BlocksOf(k) PROVE b \notin new
    <3>1. b \in Nat BY BlocksFacts
    <3>2. b \notin BlocksOf(i) BY <1>2, <1>13, <3>1, InStage
    <3> QED BY <1>7, <3>1, <3>2
  <2>2. ASSUME NEW b \in BlocksOf(k), NEW u \in Workers PROVE b \in Todo(u)' <=> b \in Todo(u)
    BY <1>5, <1>7, <1>9, <2>1
  <2> QED BY <1>10, <2>2
<1>14. IsFiniteSet(new) /\ Cardinality(new) = p
  <2> DEFINE e == blk[w] + p - 1
  <2>1. new = blk[w] .. e /\ e \in Int /\ blk[w] \in Int /\ ~(blk[w] > e) /\ e - blk[w] + 1 = p
    BY <1>0, <1>2
  <2> HIDE DEF e
  <2> QED BY <2>1, FS_Interval
<1> QED BY <1>0, <1>2, <1>11, <1>12, <1>13, <1>14

LEMMA FillCommit ==
  ASSUME TypeOK, TypeOK', Chunks, Fill, NEW w \in Workers, Commit(w), NEW i, i = StageOf(w),
         Bound(i),
         \A k \in Indices : Open(k) /\ k # i => slotOf[Entry(k)] # slotOf[Entry(i)]
  PROVE  Fill'
<1> DEFINE b == slotOf[Entry(i)]
<1>1. pc[w] = "commit" BY DEF Commit
<1>0. PICK p, new : /\ p = Piece(w) /\ new = blk[w] .. blk[w] + p - 1
                    /\ Accounted(i)' = Accounted(i) \cup new
                    /\ Accounted(i) \cap new = {}
                    /\ IsFiniteSet(new) /\ Cardinality(new) = p
  BY AccountedCommit
<1>2. i \in Indices /\ \A k \in Indices : k # i => Accounted(k)' = Accounted(k)
  BY AccountedCommit
<1>3. i \notin published BY <1>1, CurrentStage
<1>4. /\ filled' = [filled EXCEPT ![b] = filled[b] + p]
      /\ UNCHANGED <<slotIndex, slotOf>>
      /\ published' = IF filled[b] + p >= ExpectedFill(i) THEN published \cup {i} ELSE published
  BY <1>0 DEF Commit
<1>5. filled[b] = Cardinality(Accounted(i)) BY <1>2, <1>3 DEF Fill, Open
<1>6. b \in Slots /\ Entry(i) \in Entries BY <1>2, WireChunkType, EntryType DEF TypeOK
<1>7. p \in Nat BY <1>1, <1>0, PieceFacts DEF Chunks, Busy
<1> HIDE DEF b
<1>8. Cardinality(Accounted(i)') = filled[b] + p
  <2>1. IsFiniteSet(Accounted(i)) /\ Cardinality(Accounted(i)) \in Nat BY <1>2, AccountedFacts
  <2> DEFINE A == Accounted(i)
  <2>2. Cardinality(A \cup new) = Cardinality(A) + Cardinality(new) - Cardinality({})
    <3>1. IsFiniteSet(A) /\ IsFiniteSet(new) /\ A \cap new = {} BY <1>0, <2>1
    <3> HIDE DEF A
    <3>2. Cardinality(A \cup new) = Cardinality(A) + Cardinality(new) - Cardinality(A \cap new)
      BY <3>1, FS_Union
    <3> QED BY <3>1, <3>2
  <2> QED BY <1>0, <1>5, <1>7, <2>1, <2>2, FS_EmptySet
<1>9. /\ Accounted(i)' \subseteq BlocksOf(i) /\ Cardinality(Accounted(i)') <= ExpectedFill(i)
      /\ Cardinality(Accounted(i)') = ExpectedFill(i) <=> Accounted(i)' = BlocksOf(i)
  <2>1. new \subseteq BlocksOf(i)
    <3>1. /\ blk[w] \in Nat /\ Start(i) <= blk[w] /\ blk[w] + p <= Limit(i) /\ Start(i) \in Nat
      BY <1>0, <1>1, PieceFacts DEF Chunks, Busy
    <3>2. Limit(i) \in Nat /\ \A c \in Int : c \in BlocksOf(i) <=> Start(i) <= c /\ c < Limit(i)
      BY <1>2, BlocksFacts
    <3> QED BY <1>0, <1>7, <3>1, <3>2
  <2>2. Accounted(i)' \subseteq BlocksOf(i) BY <1>0, <1>2, <2>1, AccountedFacts
  <2>3. IsFiniteSet(BlocksOf(i)) /\ Cardinality(BlocksOf(i)) = ExpectedFill(i) BY <1>2, BlocksFacts
  <2> DEFINE A == Accounted(i)'
  <2>4. A \subseteq BlocksOf(i) BY <2>2
  <2> HIDE DEF A
  <2>5. /\ Cardinality(A) <= ExpectedFill(i)
        /\ Cardinality(A) = ExpectedFill(i) <=> A = BlocksOf(i)
    BY <2>3, <2>4, FS_Subset
  <2> QED BY <2>2, <2>5 DEF A
<1>10. ExpectedFill(i) \in Nat BY <1>2, BlocksFacts, FS_CardinalityType
<1>11. i \in published' <=> Accounted(i)' = BlocksOf(i)
  <2>0. filled[b] \in Nat BY <1>6 DEF TypeOK
  <2>1. filled[b] + p \in Nat BY <1>7, <2>0
  <2> QED BY <1>3, <1>4, <1>8, <1>9, <1>10, <2>1
<1>12. \A k \in Indices : k # i => (k \in published' <=> k \in published)
  BY <1>4
<1>13. \A k \in Indices : Bound(k)' = Bound(k) BY <1>4 DEF Bound
<1>14. \A k \in Indices : k \in published' <=> Accounted(k)' = BlocksOf(k)
  BY <1>2, <1>11, <1>12 DEF Fill
<1>15. ASSUME NEW k \in Indices, Open(k)' PROVE filled'[slotOf'[Entry(k)]] = Cardinality(Accounted(k)')
  <2>1. CASE k = i BY <1>4, <1>6, <1>8, <2>1 DEF TypeOK, b
  <2>2. CASE k # i
    <3>1. Open(k) BY <1>12, <1>13, <1>15, <2>2 DEF Open
    <3>2. slotOf[Entry(k)] # b /\ slotOf[Entry(k)] \in Slots
      BY <2>2, <3>1, WireChunkType, EntryType DEF TypeOK, b
    <3>3. filled'[slotOf'[Entry(k)]] = filled[slotOf[Entry(k)]] BY <1>4, <3>2 DEF TypeOK
    <3> QED BY <1>2, <2>2, <3>1, <3>3 DEF Fill
  <2> QED BY <2>1, <2>2
<1>16. ASSUME NEW k \in Indices, ~Bound(k)', k \notin published' PROVE Accounted(k)' = {}
  <2>1. k # i BY <1>13, <1>16
  <2> QED BY <1>2, <1>12, <1>13, <1>16, <2>1 DEF Fill
<1>17. ASSUME NEW k \in Indices, Bound(k)' \/ k \in published'
       PROVE  \E u \in Workers : Start(k) <= blk'[u]
  <2>1. Bound(k) \/ k \in published BY <1>12, <1>13, <1>17
  <2>2. PICK u \in Workers : Start(k) <= blk[u] BY <2>1 DEF Fill
  <2>3. blk[u] <= blk'[u] BY CommitHands
  <2>4. Start(k) \in Nat /\ blk[u] \in Nat /\ blk'[u] \in Nat BY BlocksFacts DEF TypeOK
  <2>5. Start(k) <= blk'[u] BY <2>2, <2>3, <2>4
  <2> QED BY <2>5
<1> QED BY <1>14, <1>15, <1>16, <1>17 DEF Fill

\* The effect of acquireStage() when the stage has no slot yet.
LEMMA NewSlot ==
  ASSUME TypeOK, Chunks, NEW w \in Workers, Acquire(w), ~Bound(StageOf(w))
  PROVE  \E s \in freeSlots :
           /\ freeSlots' = freeSlots \ {s}
           /\ slotIndex' = [slotIndex EXCEPT ![Entry(StageOf(w))] = StageOf(w)]
           /\ slotOf' = [slotOf EXCEPT ![Entry(StageOf(w))] = s]
           /\ filled' = [filled EXCEPT ![s] = 0]
           /\ buf' = [buf EXCEPT ![w] = s]
<1>1. \E s \in freeSlots : TakeSlot(s, StageOf(w)) /\ buf' = [buf EXCEPT ![w] = s]
  BY DEF Acquire
<1> QED BY <1>1 DEF TakeSlot

LEMMA AcquireHands ==
  ASSUME TypeOK, NEW w \in Workers, Acquire(w)
  PROVE  /\ \A u \in Workers : Todo(u)' = Todo(u) /\ Unwritten(u)' = Unwritten(u)
         /\ cursor' = cursor /\ blk' = blk /\ left' = left
<1>1. /\ pc[w] \in {"acquire", "wait"} /\ pc' = [pc EXCEPT ![w] = "write"]
      /\ UNCHANGED <<feedVars, blk, left>>
  BY DEF Acquire
<1>2. \A u \in Workers : /\ pc'[u] = "publish" <=> pc[u] = "publish"
                         /\ pc'[u] = "commit" <=> pc[u] = "commit"
  BY <1>1 DEF TypeOK
<1> QED BY <1>1, <1>2, HandSame DEF feedVars

LEMMA FillAcquire ==
  ASSUME TypeOK, TypeOK', Chunks, Table, Fill, NEW w \in Workers, Acquire(w),
         NEW i, i = StageOf(w),
         ~Bound(i) => slotIndex[Entry(i)] \in published \cup {NoStage},
         \A k \in Indices : Open(k) => slotOf[Entry(k)] \notin freeSlots
  PROVE  Fill'
<1>1. /\ pc[w] \in {"acquire", "wait"} /\ published' = published BY DEF Acquire
<1>2. /\ i \in Indices /\ i \notin published /\ blk[w] \in BlocksOf(i) /\ blk[w] \in Nat
  BY <1>1, CurrentStage
<1>3. /\ cursor' = cursor /\ blk' = blk
      /\ \A u \in Workers : Todo(u)' = Todo(u)
  BY AcquireHands
<1>4. \A k \in Indices : Accounted(k)' = Accounted(k) BY <1>3, AccountedSame
<1>5. CASE Bound(i)
  <2>1. UNCHANGED tableVars BY <1>5 DEF Acquire
  <2>2. \A u \in Workers : blk[u] <= blk'[u] BY <1>3 DEF TypeOK
  <2> QED BY <1>1, <1>3, <1>4, <2>1, <2>2, FillSame DEF tableVars, TypeOK
<1>6. CASE ~Bound(i)
  <2> DEFINE e == Entry(i)
  <2>1. PICK s \in freeSlots :
           /\ slotIndex' = [slotIndex EXCEPT ![e] = i] /\ slotOf' = [slotOf EXCEPT ![e] = s]
           /\ filled' = [filled EXCEPT ![s] = 0]
    BY <1>6, NewSlot
  <2>2. e \in Entries /\ s \in Slots BY <1>2, WireChunkType, EntryType DEF TypeOK
  <2>3. \A k \in Indices : Entry(k) \in Entries BY WireChunkType, EntryType
  <2>4. slotIndex'[e] = i /\ slotOf'[e] = s /\ filled'[s] = 0 BY <2>1, <2>2 DEF TypeOK
  <2>5. Bound(i)' BY <2>4 DEF Bound
  <2>6. ASSUME NEW k \in Indices, k # i, Bound(k)' PROVE Bound(k) /\ slotOf'[Entry(k)] = slotOf[Entry(k)]
    <3>1. slotIndex'[Entry(k)] = k BY <2>6 DEF Bound
    <3>2. Entry(k) # e BY <2>4, <2>6, <3>1
    <3> QED BY <2>1, <2>3, <3>1, <3>2 DEF TypeOK, Bound
  <2>7. ASSUME NEW k \in Indices, ~Bound(k)', k \notin published PROVE ~Bound(k)
    <3>1. slotIndex'[Entry(k)] # k BY <2>7 DEF Bound
    <3>2. CASE Entry(k) = e
      <4>1. slotIndex[e] # k BY <1>6, <2>7, WireChunkType
      <4> QED BY <3>2, <4>1 DEF Bound
    <3>3. CASE Entry(k) # e BY <2>1, <2>3, <3>1, <3>3 DEF TypeOK, Bound
    <3> QED BY <3>2, <3>3
  <2> HIDE DEF e
  <2>8. ASSUME NEW k \in Indices, Open(k)' PROVE filled'[slotOf'[Entry(k)]] = Cardinality(Accounted(k)')
    <3>1. CASE k = i
      <4>1. Accounted(i) = {} BY <1>2, <1>6 DEF Fill
      <4> QED BY <1>4, <2>4, <2>8, <3>1, <4>1, FS_EmptySet DEF e
    <3>2. CASE k # i
      <4>1. Bound(k) /\ slotOf'[Entry(k)] = slotOf[Entry(k)] BY <2>6, <2>8, <3>2 DEF Open
      <4>2. Open(k) BY <1>1, <2>8, <4>1 DEF Open
      <4>3. slotOf[Entry(k)] # s /\ slotOf[Entry(k)] \in Slots BY <2>3, <4>2 DEF TypeOK
      <4>4. filled'[slotOf[Entry(k)]] = filled[slotOf[Entry(k)]] BY <2>1, <4>3 DEF TypeOK
      <4> QED BY <1>4, <4>1, <4>2, <4>4 DEF Fill
    <3> QED BY <3>1, <3>2
  <2>9. ASSUME NEW k \in Indices, Bound(k)' \/ k \in published' PROVE \E u \in Workers : Start(k) <= blk'[u]
    <3>1. CASE k = i
      <4>1. Start(i) <= blk'[w] BY <1>2, <1>3, BlocksFacts
      <4> QED BY <3>1, <4>1
    <3>2. CASE k # i
      <4>1. Bound(k) \/ k \in published BY <1>1, <2>6, <2>9, <3>2
      <4> QED BY <1>3, <4>1 DEF Fill
    <3> QED BY <3>1, <3>2
  <2>10. \A k \in Indices : k \in published' <=> Accounted(k)' = BlocksOf(k)
    BY <1>1, <1>4 DEF Fill
  <2>11. \A k \in Indices : ~Bound(k)' /\ k \notin published' => Accounted(k)' = {}
    BY <1>1, <1>4, <2>7 DEF Fill
  <2> QED BY <2>8, <2>9, <2>10, <2>11 DEF Fill
<1> QED BY <1>5, <1>6

---------------------------------------------------------------------------
(* The places where a slot can be, and what is there: a slot, and the      *)
(* stage it holds while that stage is not dispatched.                      *)

Places ==
  ({"free"} \X Slots) \cup ({"fill"} \X Entries) \cup ({"publish"} \X Workers)
  \cup ({"ready"} \X (1 .. StageCount)) \cup ({"held"} \X Slots) \cup ({"armed"} \X WireChunk)

At(p) ==
  CASE p[1] = "free"    -> IF p[2] \in freeSlots THEN [slot |-> p[2], index |-> NoStage] ELSE NoChunk
    [] p[1] = "fill"    -> IF slotIndex[p[2]] \in published \cup {NoStage} THEN NoChunk
                           ELSE [slot |-> slotOf[p[2]], index |-> slotIndex[p[2]]]
    [] p[1] = "publish" -> IF pc[p[2]] = "publish"
                           THEN [slot |-> buf[p[2]], index |-> StageOf(p[2])] ELSE NoChunk
    [] p[1] = "ready"   -> IF p[2] <= Len(readyQ) THEN readyQ[p[2]] ELSE NoChunk
    [] p[1] = "held"    -> held[p[2]]
    [] p[1] = "armed"   -> IF p[2] \in armed THEN [slot |-> p[2].slot, index |-> NoStage] ELSE NoChunk

\* Every slot is somewhere, no slot and no stage is in two places.
Placing ==
  /\ \A s \in Slots : \E p \in Places : At(p).slot = s
  /\ \A p, q \in Places : At(p).slot # -1 /\ At(p).slot = At(q).slot => p = q
  /\ \A p, q \in Places : At(p).index # NoStage /\ At(p).index = At(q).index => p = q

LEMMA AtForms ==
  /\ \A s : At(<<"free", s>>) = IF s \in freeSlots THEN [slot |-> s, index |-> NoStage] ELSE NoChunk
  /\ \A e : At(<<"fill", e>>) = IF slotIndex[e] \in published \cup {NoStage} THEN NoChunk
                                ELSE [slot |-> slotOf[e], index |-> slotIndex[e]]
  /\ \A w : At(<<"publish", w>>) = IF pc[w] = "publish"
                                   THEN [slot |-> buf[w], index |-> StageOf(w)] ELSE NoChunk
  /\ \A k : At(<<"ready", k>>) = IF k <= Len(readyQ) THEN readyQ[k] ELSE NoChunk
  /\ \A h : At(<<"held", h>>) = held[h]
  /\ \A r : At(<<"armed", r>>) = IF r \in armed THEN [slot |-> r.slot, index |-> NoStage] ELSE NoChunk
  BY DEF At

LEMMA AtFormsNext ==
  /\ \A s : At(<<"free", s>>)' = IF s \in freeSlots' THEN [slot |-> s, index |-> NoStage] ELSE NoChunk
  /\ \A e : At(<<"fill", e>>)' = IF slotIndex'[e] \in published' \cup {NoStage} THEN NoChunk
                                 ELSE [slot |-> slotOf'[e], index |-> slotIndex'[e]]
  /\ \A w : At(<<"publish", w>>)' = IF pc'[w] = "publish"
                                    THEN [slot |-> buf'[w], index |-> StageOf(w)'] ELSE NoChunk
  /\ \A k : At(<<"ready", k>>)' = IF k <= Len(readyQ') THEN readyQ'[k] ELSE NoChunk
  /\ \A h : At(<<"held", h>>)' = held'[h]
  /\ \A r : At(<<"armed", r>>)' = IF r \in armed' THEN [slot |-> r.slot, index |-> NoStage] ELSE NoChunk
  BY DEF At

LEMMA PlaceCases ==
  ASSUME NEW p \in Places
  PROVE  \/ \E s \in Slots : p = <<"free", s>>
         \/ \E e \in Entries : p = <<"fill", e>>
         \/ \E w \in Workers : p = <<"publish", w>>
         \/ \E k \in 1 .. StageCount : p = <<"ready", k>>
         \/ \E h \in Slots : p = <<"held", h>>
         \/ \E r \in WireChunk : p = <<"armed", r>>
  BY DEF Places

LEMMA PlaceIs ==
  /\ \A s \in Slots : <<"free", s>> \in Places /\ <<"held", s>> \in Places
  /\ \A e \in Entries : <<"fill", e>> \in Places
  /\ \A w \in Workers : <<"publish", w>> \in Places
  /\ \A k \in 1 .. StageCount : <<"ready", k>> \in Places
  /\ \A r \in WireChunk : <<"armed", r>> \in Places
  BY DEF Places

LEMMA AtType ==
  ASSUME TypeOK, Chunks, NEW p \in Places
  PROVE  \/ At(p) = NoChunk /\ At(p).slot = -1 /\ At(p).index = NoStage
         \/ At(p).slot \in Slots /\ At(p).index \in Indices \cup {NoStage}
<1>1. NoChunk.slot = -1 /\ NoChunk.index = NoStage BY WireChunkType
<1>2. CASE \E s \in Slots : p = <<"free", s>>
  <2>1. PICK s \in Slots : p = <<"free", s>> BY <1>2
  <2>2. At(p) = IF s \in freeSlots THEN [slot |-> s, index |-> NoStage] ELSE NoChunk
    BY <2>1, AtForms
  <2> QED BY <1>1, <2>2
<1>3. CASE \E e \in Entries : p = <<"fill", e>>
  <2>1. PICK e \in Entries : p = <<"fill", e>> BY <1>3
  <2>2. slotIndex[e] \in Indices \cup {NoStage} /\ slotOf[e] \in Slots BY DEF TypeOK
  <2>3. At(p) = IF slotIndex[e] \in published \cup {NoStage} THEN NoChunk
                ELSE [slot |-> slotOf[e], index |-> slotIndex[e]]
    BY <2>1, AtForms
  <2> QED BY <1>1, <2>2, <2>3
<1>4. CASE \E w \in Workers : p = <<"publish", w>>
  <2>1. PICK w \in Workers : p = <<"publish", w>> BY <1>4
  <2>2. buf[w] \in Slots /\ (pc[w] = "publish" => StageOf(w) \in Indices)
    BY PieceFacts DEF TypeOK, Chunks, Busy
  <2>3. At(p) = IF pc[w] = "publish" THEN [slot |-> buf[w], index |-> StageOf(w)] ELSE NoChunk
    BY <2>1, AtForms
  <2> QED BY <1>1, <2>2, <2>3
<1>5. CASE \E k \in 1 .. StageCount : p = <<"ready", k>>
  <2>1. PICK k \in 1 .. StageCount : p = <<"ready", k>> BY <1>5
  <2>2. readyQ \in Seq(WireChunk) BY DEF TypeOK
  <2>3. k <= Len(readyQ) => readyQ[k] \in WireChunk
    <3>1. Len(readyQ) \in Nat /\ \A m \in 1 .. Len(readyQ) : readyQ[m] \in WireChunk
      BY <2>2, ElementOfSeq, LenProperties
    <3> QED BY <3>1
  <2>4. At(p) = IF k <= Len(readyQ) THEN readyQ[k] ELSE NoChunk BY <2>1, AtForms
  <2> QED BY <1>1, <2>3, <2>4, WireChunkType
<1>6. CASE \E h \in Slots : p = <<"held", h>>
  <2>1. PICK h \in Slots : p = <<"held", h>> BY <1>6
  <2>2. held[h] \in WireChunk \cup {NoChunk} BY DEF TypeOK
  <2>3. At(p) = held[h] BY <2>1, AtForms
  <2> QED BY <1>1, <2>2, <2>3, WireChunkType
<1>7. CASE \E r \in WireChunk : p = <<"armed", r>>
  <2>1. PICK r \in WireChunk : p = <<"armed", r>> BY <1>7
  <2>2. At(p) = IF r \in armed THEN [slot |-> r.slot, index |-> NoStage] ELSE NoChunk
    BY <2>1, AtForms
  <2> QED BY <1>1, <2>2, WireChunkType
<1> QED BY <1>2, <1>3, <1>4, <1>5, <1>6, <1>7, PlaceCases

\* The slots stay apart when what is at p comes from f[p], and a stage that
\* appears at a was nowhere before.
LEMMA Renamed ==
  ASSUME TypeOK, TypeOK', Chunks, Chunks', Placing, NEW f, NEW a,
         \A p \in Places : At(p)'.slot # -1 => f[p] \in Places /\ At(p)'.slot = At(f[p]).slot,
         \A p \in Places : p # a /\ At(p)'.index # NoStage => At(p)'.index = At(f[p]).index,
         \A p \in Places : At(p)'.slot = -1 => At(p)'.index = NoStage,
         \A p, q \in Places : At(p)'.slot # -1 /\ At(q)'.slot # -1 /\ f[p] = f[q] => p = q,
         \A q \in Places : At(q).slot # -1 => \E p \in Places : f[p] = q /\ At(p)'.slot = At(q).slot,
         \A q \in Places : At(a)'.index # NoStage =>
            At(q).index # At(a)'.index \/ q = f[a]
  PROVE  Placing'
<1>1. ASSUME NEW s \in Slots PROVE \E p \in Places : At(p)'.slot = s
  <2>1. PICK q \in Places : At(q).slot = s BY DEF Placing
  <2>2. At(q).slot # -1 BY <2>1, WireChunkType
  <2> QED BY <2>1, <2>2
<1>2. ASSUME NEW p \in Places, NEW q \in Places, At(p)'.slot # -1, At(p)'.slot = At(q)'.slot
      PROVE  p = q
  <2>1. At(q)'.slot # -1 BY <1>2
  <2>2. f[p] \in Places /\ f[q] \in Places /\ At(f[p]).slot = At(f[q]).slot /\ At(f[p]).slot # -1
    BY <1>2, <2>1
  <2>3. f[p] = f[q] BY <2>2 DEF Placing
  <2> QED BY <1>2, <2>1, <2>3
<1>3. ASSUME NEW p \in Places, NEW q \in Places, At(p)'.index # NoStage, At(p)'.index = At(q)'.index
      PROVE  p = q
  <2>1. At(p)'.slot # -1 /\ At(q)'.slot # -1 BY <1>3
  <2>2. f[p] \in Places /\ f[q] \in Places BY <2>1
  <2>3. CASE p # a /\ q # a
    <3>1. At(f[p]).index = At(f[q]).index /\ At(f[p]).index # NoStage BY <1>3, <2>3
    <3>2. f[p] = f[q] BY <2>2, <3>1 DEF Placing
    <3> QED BY <2>1, <3>2
  <2>4. CASE p = a /\ q # a
    <3>1. At(f[q]).index = At(a)'.index BY <1>3, <2>4
    <3>2. f[q] = f[a] BY <1>3, <2>2, <2>4, <3>1
    <3> QED BY <2>1, <2>4, <3>2
  <2>5. CASE p # a /\ q = a
    <3>1. At(f[p]).index = At(a)'.index /\ At(a)'.index # NoStage BY <1>3, <2>5
    <3>2. f[p] = f[a] BY <2>2, <3>1
    <3> QED BY <2>1, <2>5, <3>2
  <2> QED BY <2>3, <2>4, <2>5
<1>4. Places' = Places BY DEF Places
<1> QED BY <1>1, <1>2, <1>3, <1>4 DEF Placing

\* One slot goes from place b to place a.
LEMMA Moved ==
  ASSUME TypeOK, TypeOK', Chunks, Chunks', Placing, NEW a \in Places, NEW b \in Places,
         At(b)' = NoChunk, At(a) = NoChunk, At(a)'.slot = At(b).slot, At(b).slot # -1,
         \/ At(a)'.index \in {At(b).index, NoStage}
         \/ \A q \in Places : At(q).index # At(a)'.index,
         \A p \in Places : p # a /\ p # b => At(p)' = At(p)
  PROVE  Placing'
<1> DEFINE f == [p \in Places |-> IF p = a THEN b ELSE IF p = b THEN a ELSE p]
<1>1. \A p \in Places : f[p] = IF p = a THEN b ELSE IF p = b THEN a ELSE p OBVIOUS
<1> HIDE DEF f
<1>2. NoChunk.slot = -1 /\ NoChunk.index = NoStage BY WireChunkType
<1>3. a # b BY <1>2
<1>4. \A p \in Places : At(p)'.slot # -1 => f[p] \in Places /\ At(p)'.slot = At(f[p]).slot
  BY <1>1, <1>2, <1>3
<1>5. \A p \in Places : p # a /\ At(p)'.index # NoStage => At(p)'.index = At(f[p]).index
  BY <1>1, <1>2
<1>6. \A p \in Places : At(p)'.slot = -1 => At(p)'.index = NoStage
  <2> SUFFICES ASSUME NEW p \in Places, At(p)'.slot = -1 PROVE At(p)'.index = NoStage OBVIOUS
  <2>1. CASE p = b BY <1>2, <2>1
  <2>2. CASE p # a /\ p # b
    <3>1. At(p)' = At(p) /\ At(p).slot = -1 BY <2>2
    <3>2. At(p).index = NoStage BY <3>1, AtType, WireChunkType
    <3> QED BY <3>1, <3>2
  <2> QED BY <2>1, <2>2
<1>7. \A p, q \in Places : At(p)'.slot # -1 /\ At(q)'.slot # -1 /\ f[p] = f[q] => p = q
  BY <1>1, <1>2, <1>3
<1>8. \A q \in Places : At(q).slot # -1 => \E p \in Places : f[p] = q /\ At(p)'.slot = At(q).slot
  <2> SUFFICES ASSUME NEW q \in Places, At(q).slot # -1
               PROVE  \E p \in Places : f[p] = q /\ At(p)'.slot = At(q).slot
    OBVIOUS
  <2>1. CASE q = b BY <1>1, <2>1
  <2>2. CASE q # b
    <3>1. q # a BY <1>2
    <3>2. f[q] = q /\ At(q)' = At(q) BY <1>1, <2>2, <3>1
    <3> QED BY <3>2
  <2> QED BY <2>1, <2>2
<1>9. \A q \in Places : At(a)'.index # NoStage => At(q).index # At(a)'.index \/ q = f[a]
  <2> SUFFICES ASSUME NEW q \in Places, At(a)'.index # NoStage, At(q).index = At(a)'.index
               PROVE  q = b
    BY <1>1
  <2>1. At(q).index = At(b).index /\ At(q).index # NoStage OBVIOUS
  <2> QED BY <2>1 DEF Placing
<1> QED BY <1>4, <1>5, <1>6, <1>7, <1>8, <1>9, Renamed

LEMMA PlacingSame ==
  ASSUME Placing, \A p \in Places : At(p)' = At(p)
  PROVE  Placing'
<1>1. Places' = Places BY DEF Places
<1> QED BY <1>1 DEF Placing

\* What stays at each kind of place.
LEMMA AtKinds ==
  /\ freeSlots' = freeSlots => \A s : At(<<"free", s>>)' = At(<<"free", s>>)
  /\ UNCHANGED <<slotIndex, slotOf, published>> => \A e : At(<<"fill", e>>)' = At(<<"fill", e>>)
  /\ \A w : /\ pc'[w] = "publish" <=> pc[w] = "publish"
            /\ pc[w] = "publish" => buf'[w] = buf[w] /\ blk'[w] = blk[w]
            => At(<<"publish", w>>)' = At(<<"publish", w>>)
  /\ readyQ' = readyQ => \A k : At(<<"ready", k>>)' = At(<<"ready", k>>)
  /\ held' = held => \A h : At(<<"held", h>>)' = At(<<"held", h>>)
  /\ armed' = armed => \A r : At(<<"armed", r>>)' = At(<<"armed", r>>)
<1>1. ASSUME freeSlots' = freeSlots, NEW s PROVE At(<<"free", s>>)' = At(<<"free", s>>)
  <2>1. At(<<"free", s>>) = IF s \in freeSlots THEN [slot |-> s, index |-> NoStage] ELSE NoChunk BY AtForms
  <2>2. At(<<"free", s>>)' = IF s \in freeSlots' THEN [slot |-> s, index |-> NoStage] ELSE NoChunk BY AtFormsNext
  <2> QED BY <1>1, <2>1, <2>2
<1>2. ASSUME UNCHANGED <<slotIndex, slotOf, published>>, NEW e
      PROVE  At(<<"fill", e>>)' = At(<<"fill", e>>)
  <2>1. At(<<"fill", e>>) = IF slotIndex[e] \in published \cup {NoStage} THEN NoChunk
                            ELSE [slot |-> slotOf[e], index |-> slotIndex[e]]
    BY AtForms
  <2>2. At(<<"fill", e>>)' = IF slotIndex'[e] \in published' \cup {NoStage} THEN NoChunk
                             ELSE [slot |-> slotOf'[e], index |-> slotIndex'[e]]
    BY AtFormsNext
  <2> QED BY <1>2, <2>1, <2>2
<1>3. ASSUME NEW w, pc'[w] = "publish" <=> pc[w] = "publish",
             pc[w] = "publish" => buf'[w] = buf[w] /\ blk'[w] = blk[w]
      PROVE  At(<<"publish", w>>)' = At(<<"publish", w>>)
  <2>1. pc[w] = "publish" => StageOf(w)' = StageOf(w) BY <1>3 DEF StageOf
  <2>2. At(<<"publish", w>>) = IF pc[w] = "publish"
                               THEN [slot |-> buf[w], index |-> StageOf(w)] ELSE NoChunk
    BY AtForms
  <2>3. At(<<"publish", w>>)' = IF pc'[w] = "publish"
                                THEN [slot |-> buf'[w], index |-> StageOf(w)'] ELSE NoChunk
    BY AtFormsNext
  <2> QED BY <1>3, <2>1, <2>2, <2>3
<1>4. ASSUME readyQ' = readyQ, NEW k PROVE At(<<"ready", k>>)' = At(<<"ready", k>>)
  <2>1. At(<<"ready", k>>) = IF k <= Len(readyQ) THEN readyQ[k] ELSE NoChunk BY AtForms
  <2>2. At(<<"ready", k>>)' = IF k <= Len(readyQ') THEN readyQ'[k] ELSE NoChunk BY AtFormsNext
  <2> QED BY <1>4, <2>1, <2>2
<1>5. ASSUME held' = held, NEW h PROVE At(<<"held", h>>)' = At(<<"held", h>>)
  <2>1. At(<<"held", h>>) = held[h] BY AtForms
  <2>2. At(<<"held", h>>)' = held'[h] BY AtFormsNext
  <2> QED BY <1>5, <2>1, <2>2
<1>6. ASSUME armed' = armed, NEW r PROVE At(<<"armed", r>>)' = At(<<"armed", r>>)
  <2>1. At(<<"armed", r>>) = IF r \in armed THEN [slot |-> r.slot, index |-> NoStage] ELSE NoChunk
    BY AtForms
  <2>2. At(<<"armed", r>>)' = IF r \in armed' THEN [slot |-> r.slot, index |-> NoStage] ELSE NoChunk
    BY AtFormsNext
  <2> QED BY <1>6, <2>1, <2>2
<1> QED BY <1>1, <1>2, <1>3, <1>4, <1>5, <1>6

\* A step that moves no slot.
LEMMA Quiet ==
  ASSUME UNCHANGED <<freeSlots, slotIndex, slotOf, published, readyQ, held, armed>>,
         \A w \in Workers : /\ pc'[w] = "publish" <=> pc[w] = "publish"
                            /\ pc[w] = "publish" => buf'[w] = buf[w] /\ blk'[w] = blk[w]
  PROVE  \A p \in Places : At(p)' = At(p)
<1> SUFFICES ASSUME NEW p \in Places PROVE At(p)' = At(p) OBVIOUS
<1>1. \A w \in Workers : At(<<"publish", w>>)' = At(<<"publish", w>>) BY AtKinds
<1>2. /\ \A s : At(<<"free", s>>)' = At(<<"free", s>>)
      /\ \A e : At(<<"fill", e>>)' = At(<<"fill", e>>)
      /\ \A k : At(<<"ready", k>>)' = At(<<"ready", k>>)
      /\ \A h : At(<<"held", h>>)' = At(<<"held", h>>)
      /\ \A r : At(<<"armed", r>>)' = At(<<"armed", r>>)
  BY AtKinds
<1> QED BY <1>1, <1>2, PlaceCases

\* The stages that wait to be sent, with a worker, in the queue or with usbTask.
Waits(i) == \E p \in Places : p[1] # "fill" /\ At(p).index = i

LEMMA WaitsSame ==
  ASSUME \A p \in Places : At(p)' = At(p)
  PROVE  \A i : Waits(i)' <=> Waits(i)
<1>1. Places' = Places BY DEF Places
<1> QED BY <1>1 DEF Waits

\* A slot that moves with its stage.
LEMMA WaitsMoved ==
  ASSUME NEW a \in Places, NEW b \in Places, a # b, a[1] # "fill",
         At(b)' = NoChunk, At(a) = NoChunk,
         \A p \in Places : p # a /\ p # b => At(p)' = At(p),
         NEW i \in Indices
  PROVE  /\ At(a)'.index = At(b).index /\ b[1] # "fill" => (Waits(i)' <=> Waits(i))
         /\ At(a)'.index = At(b).index /\ b[1] = "fill" => (Waits(i)' <=> Waits(i) \/ i = At(b).index)
         /\ At(a)'.index = NoStage /\ b[1] # "fill" /\ Placing =>
              (Waits(i)' <=> Waits(i) /\ i # At(b).index)
<1>1. Waits(i)' <=> \E p \in Places : p[1] # "fill" /\ At(p)'.index = i BY DEF Waits, Places
<1>2. NoChunk.index # i /\ i # NoStage BY WireChunkType
<1>3. Waits(i) <=> \E p \in Places : p[1] # "fill" /\ At(p).index = i BY DEF Waits
<1>4. Waits(i)' <=> At(a)'.index = i \/ \E p \in Places : p[1] # "fill" /\ p # a /\ p # b /\ At(p).index = i
  BY <1>1, <1>2
<1>5. Waits(i) <=> (b[1] # "fill" /\ At(b).index = i)
                   \/ \E p \in Places : p[1] # "fill" /\ p # a /\ p # b /\ At(p).index = i
  BY <1>2, <1>3
<1>6. CASE At(a)'.index = At(b).index
  <2> DEFINE X == \E p \in Places : p[1] # "fill" /\ p # a /\ p # b /\ At(p).index = i
  <2>1. Waits(i)' <=> At(b).index = i \/ X BY <1>4, <1>6
  <2>2. Waits(i) <=> (b[1] # "fill" /\ At(b).index = i) \/ X BY <1>5
  <2>3. At(a)'.index = NoStage => At(b).index # i BY <1>2, <1>6
  <2> HIDE DEF X
  <2> QED BY <2>1, <2>2, <2>3
<1>7. CASE At(a)'.index = NoStage /\ b[1] # "fill" /\ Placing
  <2>1. At(b).index = i => ~\E p \in Places : p # b /\ At(p).index = i BY <1>2, <1>7 DEF Placing
  <2> QED BY <1>2, <1>4, <1>5, <1>7, <2>1
<1> QED BY <1>6, <1>7

\* usbTask gives the slot of a stage to USB or to the free list.
LEMMA Dispatched ==
  ASSUME TypeOK, Placing, NEW r \in WireChunk, NEW b \in Places,
         b[1] \in {"ready", "held"}, At(b) = r, Dispatch(r)
  PROVE  \E a \in Places :
           /\ a[1] \in {"free", "armed"} /\ At(a) = NoChunk
           /\ At(a)'.slot = r.slot /\ At(a)'.index = NoStage
           /\ \A p \in Places : p[1] \in {"free", "armed"} /\ p # a => At(p)' = At(p)
<1>1. r.slot \in Slots /\ r.slot # -1 BY WireChunkType
<1>2. CASE armed' = armed \cup {r} /\ freeSlots' = freeSlots
  <2> DEFINE a == <<"armed", r>>
  <2>1. a \in Places /\ a[1] = "armed" BY PlaceIs
  <2>2. r \notin armed
    <3> SUFFICES ASSUME r \in armed PROVE FALSE OBVIOUS
    <3>1. At(a) = [slot |-> r.slot, index |-> NoStage] BY AtForms
    <3>2. a = b BY <1>1, <2>1, <3>1 DEF Placing
    <3> QED BY <3>2
  <2>3. At(a) = NoChunk /\ At(a)' = [slot |-> r.slot, index |-> NoStage]
    BY <1>2, <2>2, AtForms, AtFormsNext
  <2>4. ASSUME NEW p \in Places, p[1] \in {"free", "armed"}, p # a PROVE At(p)' = At(p)
    <3>1. CASE \E s \in Slots : p = <<"free", s>> BY <1>2, <3>1, AtKinds
    <3>2. CASE \E q \in WireChunk : p = <<"armed", q>>
      <4>1. PICK q \in WireChunk : p = <<"armed", q>> BY <3>2
      <4>2. q # r /\ (q \in armed' <=> q \in armed) BY <1>2, <2>4, <4>1
      <4> QED BY <4>1, <4>2, AtForms, AtFormsNext
    <3> QED BY <2>4, <3>1, <3>2, PlaceCases
  <2> QED BY <2>1, <2>3, <2>4
<1>3. CASE freeSlots' = freeSlots \cup {r.slot} /\ armed' = armed
  <2> DEFINE a == <<"free", r.slot>>
  <2>1. a \in Places /\ a[1] = "free" BY <1>1, PlaceIs
  <2>2. r.slot \notin freeSlots
    <3> SUFFICES ASSUME r.slot \in freeSlots PROVE FALSE OBVIOUS
    <3>1. At(a) = [slot |-> r.slot, index |-> NoStage] BY AtForms
    <3>2. a = b BY <1>1, <2>1, <3>1 DEF Placing
    <3> QED BY <3>2
  <2>3. At(a) = NoChunk /\ At(a)' = [slot |-> r.slot, index |-> NoStage]
    BY <1>3, <2>2, AtForms, AtFormsNext
  <2>4. ASSUME NEW p \in Places, p[1] \in {"free", "armed"}, p # a PROVE At(p)' = At(p)
    <3>1. CASE \E q \in WireChunk : p = <<"armed", q>> BY <1>3, <3>1, AtKinds
    <3>2. CASE \E s \in Slots : p = <<"free", s>>
      <4>1. PICK s \in Slots : p = <<"free", s>> BY <3>2
      <4>2. s # r.slot /\ (s \in freeSlots' <=> s \in freeSlots) BY <1>3, <2>4, <4>1
      <4> QED BY <4>1, <4>2, AtForms, AtFormsNext
    <3> QED BY <2>4, <3>1, <3>2, PlaceCases
  <2> QED BY <2>1, <2>3, <2>4
<1> QED BY <1>2, <1>3 DEF Dispatch, Release

\* The queue without its head.
LEMMA QueueTail ==
  ASSUME TypeOK, readyQ # <<>>, readyQ' = Tail(readyQ)
  PROVE  /\ At(<<"ready", 1>>) = readyQ[1] /\ Len(readyQ) \in Nat /\ Len(readyQ) > 0
         /\ Len(readyQ) <= StageCount
         /\ \A k \in 1 .. StageCount : k < Len(readyQ) =>
              k + 1 \in 1 .. StageCount /\ At(<<"ready", k>>)' = At(<<"ready", k + 1>>)
         /\ \A k \in 1 .. StageCount : k >= Len(readyQ) => At(<<"ready", k>>)' = NoChunk
<1>1. /\ Len(Tail(readyQ)) = Len(readyQ) - 1 /\ Len(readyQ) \in Nat /\ Len(readyQ) > 0
      /\ \A k \in 1 .. Len(readyQ) - 1 : Tail(readyQ)[k] = readyQ[k + 1]
  BY HeadFacts
<1>2. Len(readyQ) <= StageCount BY DEF TypeOK
<1>3. At(<<"ready", 1>>) = readyQ[1]
  <2>1. At(<<"ready", 1>>) = IF 1 <= Len(readyQ) THEN readyQ[1] ELSE NoChunk BY AtForms
  <2> QED BY <1>1, <2>1
<1>4. ASSUME NEW k \in 1 .. StageCount, k < Len(readyQ)
      PROVE  k + 1 \in 1 .. StageCount /\ At(<<"ready", k>>)' = At(<<"ready", k + 1>>)
  <2>1. At(<<"ready", k>>)' = IF k <= Len(readyQ') THEN readyQ'[k] ELSE NoChunk BY AtFormsNext
  <2>2. At(<<"ready", k + 1>>) = IF k + 1 <= Len(readyQ) THEN readyQ[k + 1] ELSE NoChunk
    BY AtForms
  <2>3. k <= Len(readyQ') /\ k + 1 <= Len(readyQ) /\ k \in 1 .. Len(readyQ) - 1
    BY <1>1, <1>4
  <2>4. readyQ'[k] = readyQ[k + 1] BY <1>1, <2>3
  <2> QED BY <1>1, <1>2, <1>4, <2>1, <2>2, <2>3, <2>4, Constants
<1>5. ASSUME NEW k \in 1 .. StageCount, k >= Len(readyQ) PROVE At(<<"ready", k>>)' = NoChunk
  <2>1. At(<<"ready", k>>)' = IF k <= Len(readyQ') THEN readyQ'[k] ELSE NoChunk BY AtFormsNext
  <2>2. ~(k <= Len(readyQ')) BY <1>1, <1>5
  <2> QED BY <2>1, <2>2
<1> QED BY <1>1, <1>2, <1>3, <1>4, <1>5

\* The head of the queue goes to the place a.
LEMMA Shifted ==
  ASSUME TypeOK, TypeOK', Chunks, Chunks', Placing, readyQ # <<>>, readyQ' = Tail(readyQ),
         NEW a \in Places, a[1] \notin {"ready", "fill"}, At(a) = NoChunk,
         At(a)'.slot = readyQ[1].slot, At(a)'.index \in {readyQ[1].index, NoStage},
         \A p \in Places : p[1] # "ready" /\ p # a => At(p)' = At(p)
  PROVE  /\ Placing'
         /\ \A i \in Indices :
              Waits(i)' <=> Waits(i) /\ ~(At(a)'.index = NoStage /\ i = readyQ[1].index)
<1> DEFINE head == <<"ready", 1>>
           f == [p \in Places |-> IF p = a THEN head
                                  ELSE IF p[1] = "ready" THEN <<"ready", p[2] + 1>> ELSE p]
<1>1. /\ At(head) = readyQ[1] /\ Len(readyQ) \in Nat /\ Len(readyQ) > 0 /\ Len(readyQ) <= StageCount
      /\ \A k \in 1 .. StageCount : k < Len(readyQ) =>
           k + 1 \in 1 .. StageCount /\ At(<<"ready", k>>)' = At(<<"ready", k + 1>>)
      /\ \A k \in 1 .. StageCount : k >= Len(readyQ) => At(<<"ready", k>>)' = NoChunk
  BY QueueTail
<1>2. head \in Places /\ 1 \in 1 .. StageCount BY <1>1, PlaceIs, Constants
<1>3. readyQ[1] \in WireChunk /\ readyQ[1].slot \in Slots /\ readyQ[1].index \in Indices
  BY HeadFacts, WireChunkType
<1>4. NoChunk.slot = -1 /\ NoChunk.index = NoStage /\ -1 \notin Slots /\ NoStage \notin Indices
  BY WireChunkType
<1>5. /\ f[a] = head
      /\ \A p \in Places : p # a /\ p[1] # "ready" => f[p] = p
      /\ \A k \in 1 .. StageCount : f[<<"ready", k>>] = <<"ready", k + 1>>
  <2>1. \A k \in 1 .. StageCount : <<"ready", k>> \in Places BY PlaceIs
  <2>2. \A k : <<"ready", k>>[1] = "ready" /\ <<"ready", k>>[2] = k OBVIOUS
  <2>3. \A k : <<"ready", k>> # a BY <2>2
  <2> QED BY <2>1, <2>2, <2>3
<1> HIDE DEF f
\* What is at p afterwards was at f[p].
<1>6. ASSUME NEW p \in Places, At(p)'.slot # -1
      PROVE  /\ f[p] \in Places /\ At(p)'.slot = At(f[p]).slot
             /\ p # a => At(p)' = At(f[p])
             /\ f[p][1] # "fill" <=> p[1] # "fill"
  <2>1. CASE p = a BY <1>1, <1>2, <1>5, <2>1
  <2>2. CASE p # a /\ p[1] # "ready" BY <1>5, <2>2
  <2>3. CASE p # a /\ p[1] = "ready"
    <3>1. PICK k \in 1 .. StageCount : p = <<"ready", k>> BY <2>3, PlaceCases
    <3>2. k < Len(readyQ) BY <1>1, <1>4, <1>6, <3>1
    <3>3. k + 1 \in 1 .. StageCount /\ At(p)' = At(<<"ready", k + 1>>) BY <1>1, <3>1, <3>2
    <3>4. <<"ready", k + 1>> \in Places BY <3>3, PlaceIs
    <3>5. f[p] = <<"ready", k + 1>> /\ f[p][1] = "ready" BY <1>5, <3>1
    <3> QED BY <2>3, <3>3, <3>4, <3>5
  <2> QED BY <2>1, <2>2, <2>3
<1>7. ASSUME NEW p \in Places, NEW q \in Places, At(p)'.slot # -1, At(q)'.slot # -1, f[p] = f[q]
      PROVE  p = q
  <2>1. ASSUME NEW x \in Places, x[1] # "ready", x # a PROVE f[x][1] # "ready"
    BY <1>5, <2>1
  <2>2. ASSUME NEW x \in Places, x[1] = "ready"
        PROVE  \E k \in 1 .. StageCount : x = <<"ready", k>> /\ f[x] = <<"ready", k + 1>>
    BY <1>5, <2>2, PlaceCases
  <2>3. CASE p[1] = "ready" /\ q[1] = "ready"
    <3>1. PICK k \in 1 .. StageCount : p = <<"ready", k>> /\ f[p] = <<"ready", k + 1>>
      BY <2>2, <2>3
    <3>2. PICK m \in 1 .. StageCount : q = <<"ready", m>> /\ f[q] = <<"ready", m + 1>>
      BY <2>2, <2>3
    <3>3. k + 1 = m + 1 BY <1>7, <3>1, <3>2
    <3> QED BY <3>1, <3>2, <3>3
  <2>4. ASSUME NEW x \in Places, NEW y \in Places, x[1] = "ready", y[1] # "ready", f[x] = f[y]
        PROVE  FALSE
    <3>1. PICK k \in 1 .. StageCount : f[x] = <<"ready", k + 1>> BY <2>2, <2>4
    <3>2. f[y][1] = "ready" /\ f[y][2] = k + 1 BY <2>4, <3>1
    <3>3. y = a BY <2>1, <2>4, <3>2
    <3>4. f[y][2] = 1 BY <1>5, <3>3
    <3> QED BY <3>2, <3>4
  <2>5. CASE p[1] # "ready" /\ q[1] # "ready"
    <3>1. p # a /\ q # a => p = q BY <1>5, <1>7, <2>5
    <3>2. p = a /\ q # a => FALSE
      <4> SUFFICES ASSUME p = a, q # a PROVE FALSE OBVIOUS
      <4>1. f[q][1] # "ready" BY <2>1, <2>5
      <4> QED BY <1>5, <1>7, <4>1
    <3>3. q = a /\ p # a => FALSE
      <4> SUFFICES ASSUME q = a, p # a PROVE FALSE OBVIOUS
      <4>1. f[p][1] # "ready" BY <2>1, <2>5
      <4> QED BY <1>5, <1>7, <4>1
    <3> QED BY <3>1, <3>2, <3>3
  <2> QED BY <1>7, <2>3, <2>4, <2>5
<1>8. ASSUME NEW q \in Places, At(q).slot # -1
      PROVE  \E p \in Places : f[p] = q /\ At(p)'.slot = At(q).slot /\ (p # a => At(p)' = At(q))
  <2>1. CASE q[1] # "ready"
    <3>1. q # a BY <1>4, <1>8
    <3> QED BY <1>5, <2>1, <3>1
  <2>2. CASE q[1] = "ready"
    <3>1. PICK k \in 1 .. StageCount : q = <<"ready", k>> BY <2>2, PlaceCases
    <3>2. CASE k = 1 BY <1>1, <1>5, <3>1, <3>2
    <3>3. CASE k # 1
      <4> DEFINE m == k - 1
      <4>1. m \in 1 .. StageCount /\ k = m + 1 BY <3>3, Constants
      <4>2. k <= Len(readyQ)
        <5>1. At(q) = IF k <= Len(readyQ) THEN readyQ[k] ELSE NoChunk BY <3>1, AtForms
        <5> QED BY <1>4, <1>8, <5>1
      <4> HIDE DEF m
      <4>3. m < Len(readyQ) BY <1>1, <4>1, <4>2
      <4>4. <<"ready", m>> \in Places /\ <<"ready", m>> # a BY <4>1, PlaceIs
      <4>5. f[<<"ready", m>>] = q /\ At(<<"ready", m>>)' = At(q) BY <1>1, <1>5, <3>1, <4>1, <4>3
      <4> QED BY <4>4, <4>5
    <3> QED BY <3>2, <3>3
  <2> QED BY <2>1, <2>2
<1>9. ASSUME NEW p \in Places, At(p)'.slot = -1 PROVE At(p)'.index = NoStage
  <2>1. CASE p = a BY <1>3, <1>4, <1>9, <2>1
  <2>2. CASE p # a /\ p[1] # "ready"
    <3>1. At(p)' = At(p) BY <2>2
    <3>2. At(p).slot = -1 => At(p).index = NoStage BY <1>4, AtType
    <3> QED BY <1>9, <3>1, <3>2
  <2>3. CASE p[1] = "ready"
    <3>1. PICK k \in 1 .. StageCount : p = <<"ready", k>> BY <2>3, PlaceCases
    <3>2. CASE k < Len(readyQ)
      <4>1. At(p)' = At(<<"ready", k + 1>>) /\ <<"ready", k + 1>> \in Places
        BY <1>1, <3>1, <3>2, PlaceIs
      <4>2. At(<<"ready", k + 1>>).slot = -1 => At(<<"ready", k + 1>>).index = NoStage
        BY <1>4, <4>1, AtType
      <4> QED BY <1>9, <4>1, <4>2
    <3>3. CASE ~(k < Len(readyQ)) BY <1>1, <1>4, <3>1, <3>3
    <3> QED BY <3>2, <3>3
  <2> QED BY <2>1, <2>2, <2>3
<1>10. \A q \in Places : At(a)'.index # NoStage => At(q).index # At(a)'.index \/ q = f[a]
  <2> SUFFICES ASSUME NEW q \in Places, At(a)'.index # NoStage, At(q).index = At(a)'.index
               PROVE  q = head
    BY <1>5
  <2>1. At(q).index = At(head).index /\ At(q).index # NoStage BY <1>1
  <2> QED BY <1>2, <2>1 DEF Placing
<1>11. Placing'
  <2>1. \A p \in Places : At(p)'.slot # -1 => f[p] \in Places /\ At(p)'.slot = At(f[p]).slot
    BY <1>6
  <2>2. \A p \in Places : p # a /\ At(p)'.index # NoStage => At(p)'.index = At(f[p]).index
    BY <1>6, <1>9
  <2>3. \A p, q \in Places : At(p)'.slot # -1 /\ At(q)'.slot # -1 /\ f[p] = f[q] => p = q
    BY <1>7
  <2>4. \A q \in Places : At(q).slot # -1 => \E p \in Places : f[p] = q /\ At(p)'.slot = At(q).slot
    BY <1>8
  <2>5. \A p \in Places : At(p)'.slot = -1 => At(p)'.index = NoStage BY <1>9
  <2> QED BY <1>10, <2>1, <2>2, <2>3, <2>4, <2>5, Renamed
<1>12. ASSUME NEW i \in Indices
       PROVE  Waits(i)' <=> Waits(i) /\ ~(At(a)'.index = NoStage /\ i = readyQ[1].index)
  <2>1. Waits(i)' <=> \E p \in Places : p[1] # "fill" /\ At(p)'.index = i BY DEF Waits, Places
  <2>2. Waits(i) <=> \E p \in Places : p[1] # "fill" /\ At(p).index = i BY DEF Waits
  <2>3. ASSUME NEW p \in Places, p[1] # "fill", At(p)'.index = i
        PROVE  /\ \E q \in Places : q[1] # "fill" /\ At(q).index = i
               /\ ~(At(a)'.index = NoStage /\ i = readyQ[1].index)
    <3>1. i # NoStage BY <1>4
    <3>2. At(p)'.slot # -1 BY <1>9, <2>3, <3>1
    <3>3. f[p] \in Places /\ f[p][1] # "fill" BY <1>6, <2>3, <3>2
    <3>4. At(f[p]).index = i
      <4>1. CASE p = a BY <1>1, <1>5, <2>3, <3>1, <4>1
      <4>2. CASE p # a BY <1>6, <2>3, <3>2, <4>2
      <4> QED BY <4>1, <4>2
    <3>5. ASSUME At(a)'.index = NoStage, i = readyQ[1].index PROVE FALSE
      <4>1. f[p] = head BY <1>1, <1>2, <3>1, <3>3, <3>4, <3>5 DEF Placing
      <4>2. a[1] # "fill" /\ At(a)'.slot # -1 BY <1>3, <1>4
      <4>3. p = a BY <1>5, <1>7, <3>2, <4>1, <4>2
      <4> QED BY <2>3, <3>1, <3>5, <4>3
    <3> QED BY <3>3, <3>4, <3>5
  <2>4. ASSUME NEW q \in Places, q[1] # "fill", At(q).index = i,
               ~(At(a)'.index = NoStage /\ i = readyQ[1].index)
        PROVE  \E p \in Places : p[1] # "fill" /\ At(p)'.index = i
    <3>1. At(q).slot # -1 BY <1>4, <2>4, AtType
    <3>2. PICK p \in Places : f[p] = q /\ At(p)'.slot = At(q).slot /\ (p # a => At(p)' = At(q))
      BY <1>8, <3>1
    <3>3. p[1] # "fill" BY <1>6, <2>4, <3>1, <3>2
    <3>4. At(p)'.index = i
      <4>1. CASE p = a BY <1>1, <1>5, <2>4, <3>2, <4>1
      <4>2. CASE p # a BY <2>4, <3>2, <4>2
      <4> QED BY <4>1, <4>2
    <3> QED BY <3>3, <3>4
  <2> QED BY <2>1, <2>2, <2>3, <2>4
<1> QED BY <1>11, <1>12

---------------------------------------------------------------------------
(* The order in which the stages go out.                                   *)

\* The published stages not sent yet wait somewhere; a stage usbTask keeps has
\* its place; the next one to send is not among those it keeps.
Sending ==
  /\ \A i \in Indices : Waits(i) <=> i \in published /\ i >= nextSend
  /\ \A i \in Indices : i < nextSend => i \in published
  /\ \A h \in Slots : held[h] # NoChunk => h = held[h].index % StageCount
  /\ upc = "poll" => \A h \in Slots : held[h].index # nextSend

\* The stages that wait ahead of the k-th in the queue, and how far apart those
\* can be that are later in the stream than it.
Before(k) == {held[h].index : h \in {g \in Slots : held[g] # NoChunk}}
             \cup {readyQ[m].index : m \in 1 .. k - 1}
Window == \A k \in 1 .. Len(readyQ) : \A a, b \in Before(k) :
            readyQ[k].index < a /\ a < b => b - a < StageCount

\* There are no more stages in places than slots, one less when a slot is free.
LEMMA Pigeons ==
  ASSUME TypeOK, Chunks, Placing, NEW D \in SUBSET Indices,
         \A k \in D : \E p \in Places : At(p).index = k
  PROVE  /\ Cardinality(D) <= StageCount
         /\ freeSlots # {} => Cardinality(D) <= StageCount - 1
<1> DEFINE place(k) == CHOOSE p \in Places : At(p).index = k
           f == [k \in D |-> At(place(k)).slot]
<1>1. \A k \in D : place(k) \in Places /\ At(place(k)).index = k OBVIOUS
<1> HIDE DEF place
<1>2. ASSUME NEW k \in D PROVE At(place(k)).slot \in Slots /\ At(place(k)).slot # -1
  <2>1. k # NoStage BY WireChunkType
  <2> QED BY <1>1, <2>1, AtType, WireChunkType
<1>3. \A k, m \in D : f[k] = f[m] => k = m
  <2> SUFFICES ASSUME NEW k \in D, NEW m \in D, f[k] = f[m] PROVE k = m OBVIOUS
  <2>1. place(k) = place(m) BY <1>1, <1>2 DEF Placing
  <2> QED BY <1>1, <2>1
<1>4. f \in [D -> Slots] BY <1>2
<1>5. IsFiniteSet(Slots) /\ Cardinality(Slots) = StageCount
  <2> DEFINE e == StageCount - 1
  <2>1. e \in Int /\ ~(0 > e) /\ e - 0 + 1 = StageCount /\ Slots = 0 .. e
    BY Constants DEF Slots
  <2> HIDE DEF e
  <2> QED BY <2>1, FS_Interval
<1>6. Cardinality(D) <= StageCount
  <2>1. f \in Injection(D, Slots) BY <1>3, <1>4 DEF Injection, IsInjective
  <2> HIDE DEF f
  <2> QED BY <1>5, <2>1, FS_Injection
<1>7. ASSUME NEW s \in freeSlots PROVE Cardinality(D) <= StageCount - 1
  <2>1. s \in Slots BY DEF TypeOK
  <2>2. <<"free", s>> \in Places /\ At(<<"free", s>>) = [slot |-> s, index |-> NoStage]
    BY <2>1, AtForms, PlaceIs
  <2>3. \A k \in D : f[k] # s
    <3> SUFFICES ASSUME NEW k \in D, f[k] = s PROVE FALSE OBVIOUS
    <3>1. place(k) = <<"free", s>> BY <1>1, <1>2, <2>2 DEF Placing
    <3>2. k = NoStage BY <1>1, <2>2, <3>1
    <3> QED BY <3>2, WireChunkType
  <2>4. f \in Injection(D, Slots \ {s}) BY <1>3, <1>4, <2>3 DEF Injection, IsInjective
  <2>5. IsFiniteSet(Slots \ {s}) /\ Cardinality(Slots \ {s}) = StageCount - 1
    BY <1>5, <2>1, FS_RemoveElement
  <2> HIDE DEF f
  <2> QED BY <2>4, <2>5, FS_Injection
<1> QED BY <1>6, <1>7

LEMMA IndexBelow ==
  ASSUME NEW b \in Indices, NEW c \in Nat, c <= b
  PROVE  c \in Indices
<1> DEFINE m == (TargetBlocks - 1) \div StageBlocks
<1>1. m \in Nat
  <2>1. TargetBlocks - 1 \in Nat BY Constants
  <2> QED BY <2>1, StageOfBlock
<1>2. Indices = 0 .. m BY DEF Indices
<1> HIDE DEF m
<1> QED BY <1>1, <1>2

\* A stage behind the one worker and ahead of the other is published.
LEMMA GapFree ==
  ASSUME TypeOK, Chunks, Fill, NEW v \in Workers, NEW u \in Workers, u # v,
         NEW c \in Indices, NEW b \in Indices, c < b, Past(v) <= Start(c), Start(b) <= blk[u]
  PROVE  c \in published
<1>1. /\ c \in Nat /\ b \in Nat /\ Start(c) \in Nat /\ Start(b) \in Nat /\ Limit(c) \in Nat
      /\ Limit(c) <= Start(c) + StageBlocks
      /\ BlocksOf(c) \subseteq Nat
      /\ \A y \in Int : y \in BlocksOf(c) <=> Start(c) <= y /\ y < Limit(c)
  BY BlocksFacts
<1>2. Start(c) + StageBlocks <= Start(b) BY <1>1, StartType
<1>3. /\ Past(v) \in Nat /\ blk[u] \in Nat /\ First(u) \in Nat /\ blk[u] <= First(u)
      /\ Past(u) <= cursor /\ First(u) <= Past(u) /\ Past(u) \in Nat /\ cursor \in Nat
      /\ \A y \in Int : y \in Todo(v) => y < Past(v)
      /\ \A y \in Int : y \in Todo(u) => First(u) <= y
  <2>1. FirstBlank(u) \in Nat /\ First(u) <= FirstBlank(u) /\ FirstBlank(u) <= Past(u)
    BY HandFacts
  <2>2. First(u) \in Nat /\ Past(u) \in Nat BY HandFacts
  <2>3. First(u) <= Past(u) BY <2>1, <2>2
  <2> QED BY <2>3, HandFacts
<1>4. \A z \in Workers : z = u \/ z = v BY TableAssumption
<1>5. ASSUME NEW y \in BlocksOf(c) PROVE y \in Accounted(c)
  <2>1. y \in Nat /\ Start(c) <= y /\ y < Limit(c) BY <1>1
  <2>2. y < Start(b) BY <1>1, <1>2, <2>1, Constants
  <2>3. y < cursor BY <1>1, <1>3, <2>1, <2>2
  <2>4. y \notin Todo(v) BY <1>1, <1>3, <2>1
  <2>5. y \notin Todo(u) BY <1>1, <1>3, <2>1, <2>2
  <2> QED BY <1>4, <2>3, <2>4, <2>5 DEF Accounted, Taken
<1>6. Accounted(c) = BlocksOf(c) BY <1>5, AccountedFacts
<1> QED BY <1>6 DEF Fill

\* A worker whose next block is before a published stage has none behind its start.
LEMMA Behind ==
  ASSUME TypeOK, Chunks, Fill, NEW v \in Workers, NEW a \in Indices, a \in published,
         First(v) <= Start(a)
  PROVE  Past(v) <= Start(a)
<1>1. Start(a) \in Nat /\ Start(a) \in BlocksOf(a) BY BlocksFacts
<1>2. Start(a) \notin Todo(v) BY <1>1, TodoOpen
<1> QED BY <1>1, <1>2, HandFacts

\* Stages that wait, behind all the blocks of a worker, are close together.
LEMMA Close ==
  ASSUME TypeOK, Chunks, Fill, Placing, Sending, NEW v \in Workers,
         NEW a \in Indices, NEW b \in Indices, a < b, Waits(a), Waits(b), Past(v) <= Start(a)
  PROVE  b - a < StageCount
<1>1. a \in Nat /\ b \in Nat /\ Start(a) \in Nat /\ Start(b) \in Nat BY BlocksFacts
<1>2. a \in published /\ b \in published /\ a >= nextSend /\ nextSend \in Nat
  BY DEF Sending, TypeOK
<1>3. PICK u \in Workers : Start(b) <= blk[u] BY <1>2 DEF Fill
<1>4. Start(a) + StageBlocks <= Start(b) BY <1>1, StartType
<1>5. blk[v] \in Nat /\ Past(v) \in Nat /\ left[v] \in Nat /\ Past(v) = blk[v] + left[v]
  BY HandFacts DEF Past
<1>6. u # v BY <1>1, <1>3, <1>4, <1>5, Constants
<1>7. ASSUME NEW c \in a .. b PROVE c \in Indices /\ \E p \in Places : At(p).index = c
  <2>1. c \in Nat /\ a <= c /\ c <= b BY <1>1
  <2>2. c \in Indices BY <2>1, IndexBelow
  <2>3. c \in published
    <3>1. CASE c = b BY <1>2, <3>1
    <3>2. CASE c # b
      <4>1. c < b BY <1>1, <2>1, <3>2
      <4>2. Start(a) <= Start(c) /\ Start(c) \in Nat
        <5>1. a < c => Start(a) + StageBlocks <= Start(c) BY <1>1, <2>1, StartType
        <5>2. Start(c) \in Nat BY <2>1, StartType
        <5> QED BY <1>1, <2>1, <5>1, <5>2, Constants
      <4>3. Past(v) <= Start(c) BY <1>1, <1>5, <4>2
      <4> QED BY <1>3, <1>6, <2>2, <4>1, <4>3, GapFree
    <3> QED BY <3>1, <3>2
  <2>4. c >= nextSend BY <1>1, <1>2, <2>1
  <2>5. Waits(c) BY <2>2, <2>3, <2>4 DEF Sending
  <2> QED BY <2>2, <2>5 DEF Waits
<1>8. (a .. b) \in SUBSET Indices BY <1>7
<1>9. Cardinality(a .. b) = b - a + 1 BY <1>1, FS_Interval
<1>10. Cardinality(a .. b) <= StageCount BY <1>7, <1>8, Pigeons
<1> QED BY <1>1, <1>9, <1>10, Constants

LEMMA NonNegative ==
  ASSUME NEW d \in Int, NEW n \in Nat \ {0}, d * n >= 0
  PROVE  d >= 0
<1>1. CASE d < 0
  <2> DEFINE e == -d
  <2>1. e \in Nat /\ 0 < e /\ d = -e BY <1>1
  <2>2. 0 * n + n <= e * n BY <2>1, TimesApart
  <2>3. d * n = -(e * n) /\ e * n \in Nat BY <2>1, SMTT(20)
  <2> HIDE DEF e
  <2>4. FALSE
    <3> DEFINE x == e * n
               y == d * n
    <3>1. x \in Nat /\ y = -x /\ y >= 0 /\ n <= x BY <2>2, <2>3
    <3> HIDE DEF x, y
    <3> QED BY <3>1
  <2> QED BY <2>4
<1> QED BY <1>1

\* The blocks of one chunk fit between the slots and the table: of two stages an
\* entry apart, the one that a worker still has blocks for and the one another
\* has reached, not both can be waiting for the end while a slot is free.
LEMMA Spread ==
  ASSUME TypeOK, Chunks, Fill, Placing, Sending, NEW v \in Workers, NEW u \in Workers, u # v,
         NEW a \in Indices, NEW b \in Indices, a < b,
         NEW x \in BlocksOf(a), x \in Todo(v), Start(b) <= blk[u],
         NEW j \in {a, b}, \E p \in Places : At(p).index = j,
         b - a >= TableSize, freeSlots # {}
  PROVE  FALSE
<1> DEFINE d == TableSize - StageCount
           room == d * StageBlocks
<1>1. /\ a \in Nat /\ b \in Nat /\ Start(a) \in Nat /\ x \in Nat /\ x < Limit(a)
      /\ Limit(a) <= Start(a) + StageBlocks /\ Limit(a) \in Nat
  BY BlocksFacts
<1>2. /\ blk[v] \in Nat /\ left[v] \in Nat /\ Past(v) \in Nat /\ Past(v) = blk[v] + left[v]
      /\ blk[v] <= x /\ x < Past(v)
  <2>1. First(v) \in Nat /\ blk[v] <= First(v) /\ First(v) <= x /\ x < Past(v) /\ blk[v] \in Nat
    BY <1>1, HandFacts
  <2>2. left[v] \in Nat /\ Past(v) \in Nat /\ Past(v) = blk[v] + left[v] BY HandFacts DEF Past
  <2> QED BY <1>1, <2>1, <2>2
<1>3. left[v] > 0 BY <1>1, <1>2
<1>4. left[v] - 1 <= room BY <1>3 DEF Chunks
<1>5. d \in Int /\ room \in Int BY Constants
<1> HIDE DEF room
<1>6. room >= 0 BY <1>2, <1>3, <1>4, <1>5
<1>7. d >= 0 BY <1>5, <1>6, NonNegative, Constants DEF room
<1> DEFINE lo == a + 1 + d
<1>8. lo \in Nat /\ a < lo BY <1>1, <1>5, <1>7
\* The first stage that no block of v's chunk reaches.
<1>9. Past(v) <= Start(lo)
  <2>1. Start(lo) = Start(a) + StageBlocks + room
    <3>1. (a + 1 + d) * StageBlocks = a * StageBlocks + StageBlocks + d * StageBlocks
      BY <1>1, <1>5, Constants, SMTT(20)
    <3> QED BY <3>1 DEF Start, room
  <2>2. Past(v) <= x + 1 + room BY <1>1, <1>2, <1>4, <1>5
  <2> QED BY <1>1, <1>2, <1>5, <2>1, <2>2, Constants
<1> HIDE DEF lo
<1>10. a \notin published BY <1>1, TodoOpen
<1>11. nextSend \in Nat /\ nextSend <= a BY <1>1, <1>10 DEF Sending, TypeOK
<1>12. ASSUME NEW c \in lo .. b - 1 PROVE c \in Indices /\ \E p \in Places : At(p).index = c
  <2>1. c \in Nat /\ lo <= c /\ c < b BY <1>1, <1>8
  <2>2. c \in Indices BY <1>1, <2>1, IndexBelow
  <2>3. Past(v) <= Start(c)
    <3>1. Start(lo) \in Nat /\ Start(c) \in Nat /\ (lo < c => Start(lo) + StageBlocks <= Start(c))
      BY <1>8, <2>1, StartType
    <3> QED BY <1>2, <1>8, <1>9, <2>1, <3>1, Constants
  <2>4. c \in published BY <2>1, <2>2, <2>3, GapFree
  <2>5. c >= nextSend BY <1>1, <1>8, <1>11, <2>1
  <2>6. Waits(c) BY <2>2, <2>4, <2>5 DEF Sending
  <2> QED BY <2>2, <2>6 DEF Waits
<1> DEFINE e == b - 1
           D == (lo .. e) \cup {j}
<1>13. D \in SUBSET Indices /\ \A k \in D : \E p \in Places : At(p).index = k BY <1>12
<1>14. e \in Int /\ e = b - 1 BY <1>1
<1> HIDE DEF e
<1>15. j \notin lo .. e BY <1>1, <1>8, <1>14
<1>16. IsFiniteSet(lo .. e) /\ Cardinality(lo .. e) = IF lo > e THEN 0 ELSE e - lo + 1
  <2>1. lo \in Int /\ e \in Int BY <1>8, <1>14
  <2> QED BY <2>1, FS_Interval
<1>17. Cardinality(D) = Cardinality(lo .. e) + 1 BY <1>15, <1>16, FS_AddElement
<1>18. Cardinality(D) <= StageCount - 1 BY <1>13, Pigeons
<1>19. b - lo >= StageCount - 1 BY <1>1, Constants DEF lo
<1> HIDE DEF D
<1>20. Cardinality(lo .. e) >= StageCount - 1 BY <1>1, <1>8, <1>14, <1>16, <1>19, Constants
<1>21. Cardinality(lo .. e) \in Nat BY <1>16, FS_CardinalityType
<1> QED BY <1>17, <1>18, <1>20, <1>21, Constants

LEMMA EntryApart ==
  ASSUME NEW a \in Indices, NEW b \in Indices, a < b, Entry(a) = Entry(b)
  PROVE  b - a >= TableSize
<1>1. a \in Nat /\ b \in Nat BY BlocksFacts
<1>2. b < a + TableSize => Entry(a) # Entry(b) BY <1>1, ModDiffers, Constants DEF Entry
<1> QED BY <1>1, <1>2, Constants

LEMMA OtherWorker ==
  ASSUME NEW v \in Workers, NEW u \in Workers, u # v
  PROVE  \A z \in Workers : z = u \/ z = v
  BY TableAssumption

\* The entry a worker overwrites is empty, or of a stage already published.
LEMMA EntryIsOld ==
  ASSUME TypeOK, Chunks, Table, Fill, Placing, Sending, NEW w \in Workers,
         pc[w] \in {"acquire", "wait"}, NEW i, i = StageOf(w), ~Bound(i), freeSlots # {}
  PROVE  slotIndex[Entry(i)] \in published \cup {NoStage}
<1> DEFINE j == slotIndex[Entry(i)]
<1>1. /\ i \in Indices /\ i \notin published /\ blk[w] \in Todo(w) /\ blk[w] \in BlocksOf(i)
      /\ blk[w] < cursor /\ blk[w] \in Nat
  BY CurrentStage
<1>2. Entry(i) \in Entries BY <1>1, WireChunkType, EntryType
<1> SUFFICES ASSUME j \notin published \cup {NoStage} PROVE FALSE OBVIOUS
<1>3. j \in Indices /\ j # i /\ j \notin published BY <1>2 DEF TypeOK, Bound
<1>4. Entry(j) = Entry(i) BY <1>2, <1>3 DEF Table
<1>5. \E p \in Places : At(p).index = j
  <2>1. At(<<"fill", Entry(i)>>) = [slot |-> slotOf[Entry(i)], index |-> j] BY AtForms
  <2> QED BY <1>2, <2>1, PlaceIs
<1>6. PICK k \in Indices : k = j BY <1>3
<1> HIDE DEF j
<1>7. i \in Nat /\ k \in Nat /\ Start(i) \in Nat /\ Start(k) \in Nat /\ Limit(i) \in Nat
      /\ Start(i) <= blk[w] /\ blk[w] < Limit(i) /\ Limit(i) <= Start(i) + StageBlocks
  BY <1>1, BlocksFacts
<1>8. ASSUME k < i PROVE FALSE
  <2>1. PICK x \in BlocksOf(k) : x \notin Accounted(k)
    BY <1>3, <1>6, AccountedFacts DEF Fill
  <2>2. x \in Nat /\ x < Limit(k) /\ Limit(k) \in Nat /\ Limit(k) <= Start(k) + StageBlocks
    BY BlocksFacts
  <2>3. Start(k) + StageBlocks <= Start(i) BY <1>7, <1>8, StartType
  <2>4. x < blk[w] BY <1>1, <1>7, <2>2, <2>3, Constants
  <2>5. cursor \in Nat /\ x < cursor BY <1>1, <2>2, <2>4 DEF TypeOK
  <2>6. PICK v \in Workers : x \in Todo(v) BY <2>1, <2>5 DEF Accounted, Taken
  <2>7. v # w
    <3>1. blk[w] <= First(w) /\ First(w) \in Nat BY HandFacts
    <3>2. x \notin Todo(w) BY <1>1, <2>2, <2>4, <3>1, HandFacts
    <3> QED BY <2>6, <3>2
  <2>8. i - k >= TableSize BY <1>1, <1>4, <1>6, <1>8, EntryApart
  <2> QED BY <1>1, <1>5, <1>6, <1>7, <1>8, <2>6, <2>7, <2>8, Spread
<1>9. ASSUME i < k PROVE FALSE
  <2>1. Bound(k) BY <1>3, <1>4, <1>6 DEF Bound, j
  <2>2. PICK u \in Workers : Start(k) <= blk[u] BY <2>1 DEF Fill
  <2>3. Start(i) + StageBlocks <= Start(k) BY <1>7, <1>9, StartType
  <2>4. u # w BY <1>1, <1>7, <2>2, <2>3, Constants
  <2>5. k - i >= TableSize BY <1>1, <1>4, <1>6, <1>9, EntryApart
  <2> QED BY <1>1, <1>5, <1>6, <1>9, <2>2, <2>4, <2>5, Spread
<1> QED BY <1>3, <1>6, <1>7, <1>8, <1>9

LEMMA AtReady ==
  ASSUME TypeOK, NEW k \in 1 .. Len(readyQ)
  PROVE  /\ k \in 1 .. StageCount /\ <<"ready", k>> \in Places /\ At(<<"ready", k>>) = readyQ[k]
         /\ readyQ[k] \in WireChunk /\ Len(readyQ) \in Nat
<1>1. readyQ \in Seq(WireChunk) /\ Len(readyQ) <= StageCount BY DEF TypeOK
<1>2. Len(readyQ) \in Nat /\ \A m \in 1 .. Len(readyQ) : readyQ[m] \in WireChunk
  BY <1>1, ElementOfSeq, LenProperties
<1>3. k \in 1 .. StageCount /\ k <= Len(readyQ) BY <1>1, <1>2, Constants
<1>4. At(<<"ready", k>>) = IF k <= Len(readyQ) THEN readyQ[k] ELSE NoChunk BY AtForms
<1> QED BY <1>2, <1>3, <1>4, PlaceIs

\* A stage that is kept or queued waits.
LEMMA BeforeWaits ==
  ASSUME TypeOK, NEW k \in 1 .. Len(readyQ) + 1, NEW a \in Before(k)
  PROVE  a \in Indices /\ Waits(a)
<1>1. Len(readyQ) \in Nat
  <2>1. readyQ \in Seq(WireChunk) BY DEF TypeOK
  <2> QED BY <2>1, LenProperties
<1>2. CASE \E h \in Slots : held[h] # NoChunk /\ a = held[h].index
  <2>1. PICK h \in Slots : held[h] # NoChunk /\ a = held[h].index BY <1>2
  <2>2. held[h] \in WireChunk BY <2>1 DEF TypeOK
  <2>3. At(<<"held", h>>) = held[h] /\ <<"held", h>> \in Places BY AtForms, PlaceIs
  <2>4. <<"held", h>>[1] # "fill" OBVIOUS
  <2> QED BY <2>1, <2>2, <2>3, <2>4, WireChunkType DEF Waits
<1>3. CASE \E m \in 1 .. k - 1 : a = readyQ[m].index
  <2>1. PICK m \in 1 .. k - 1 : a = readyQ[m].index BY <1>3
  <2>2. m \in 1 .. Len(readyQ) BY <1>1
  <2>3. At(<<"ready", m>>) = readyQ[m] /\ <<"ready", m>> \in Places /\ readyQ[m] \in WireChunk
    BY <2>2, AtReady
  <2>4. <<"ready", m>>[1] # "fill" OBVIOUS
  <2> QED BY <2>1, <2>3, <2>4, WireChunkType DEF Waits
<1> QED BY <1>2, <1>3 DEF Before

LEMMA ModApart ==
  ASSUME NEW a \in Nat, NEW b \in Nat, a < b, a % StageCount = b % StageCount
  PROVE  b - a >= StageCount
<1>1. b < a + StageCount => a % StageCount # b % StageCount BY ModDiffers, Constants
<1> QED BY <1>1, Constants

\* Two stages that usbTask keeps, or is about to, are not a multiple of
\* kStageCount apart.
LEMMA KeptApart ==
  ASSUME TypeOK, Chunks, Fill, Placing, Sending, Window, upc = "poll",
         Len(readyQ) > 0, readyQ[1].index # nextSend,
         NEW a \in Indices, NEW b \in Indices, a < b, a # nextSend,
         a \in Before(2), b \in Before(2)
  PROVE  b - a < StageCount
<1>1. Len(readyQ) \in Nat
  <2>1. readyQ \in Seq(WireChunk) BY DEF TypeOK
  <2> QED BY <2>1, LenProperties
<1>2. 2 \in 1 .. Len(readyQ) + 1 BY <1>1
<1>3. Waits(a) /\ Waits(b) BY <1>2, BeforeWaits
<1>4. /\ a \in Nat /\ b \in Nat /\ Start(a) \in Nat /\ Start(b) \in Nat
      /\ nextSend \in Nat
  BY BlocksFacts DEF TypeOK
<1>5. a >= nextSend /\ b \in published /\ a \in published BY <1>3 DEF Sending
<1>6. nextSend < a BY <1>4, <1>5
<1>7. PICK g \in Nat : g = nextSend BY <1>4
<1>8. g \in Indices BY <1>4, <1>6, <1>7, IndexBelow
<1>9. Start(g) \in Nat /\ Start(g) + StageBlocks <= Start(a) BY <1>4, <1>6, <1>7, StartType
<1>10. ASSUME NEW v \in Workers, First(v) <= Start(a) PROVE b - a < StageCount
  <2>1. Past(v) <= Start(a) BY <1>5, <1>10, Behind
  <2> QED BY <1>3, <2>1, Close
<1>11. CASE g \notin published
  <2>1. PICK x \in BlocksOf(g) : x \notin Accounted(g) BY <1>8, <1>11, AccountedFacts DEF Fill
  <2>2. x \in Nat /\ x < Limit(g) /\ Limit(g) \in Nat /\ Limit(g) <= Start(g) + StageBlocks
    BY <1>8, BlocksFacts
  <2>3. x < Start(a) BY <1>4, <1>9, <2>2, Constants
  <2>4. PICK u \in Workers : Start(b) <= blk[u] BY <1>5 DEF Fill
  <2>5. Start(a) + StageBlocks <= Start(b) BY <1>4, StartType
  <2>6. blk[u] \in Nat /\ blk[u] <= cursor /\ cursor \in Nat
    <3>1. blk[u] \in Nat /\ left[u] \in Nat /\ Past(u) = blk[u] + left[u] /\ Past(u) <= cursor
      BY HandFacts DEF Past
    <3> QED BY <3>1, HandFacts
  <2>7. x < cursor BY <1>4, <2>2, <2>3, <2>4, <2>5, <2>6, Constants
  <2>8. PICK v \in Workers : x \in Todo(v) BY <2>1, <2>7 DEF Accounted, Taken
  <2>9. First(v) <= x /\ First(v) \in Nat BY <2>2, <2>8, HandFacts
  <2>10. First(v) <= Start(a) BY <1>4, <2>2, <2>3, <2>9
  <2> QED BY <1>10, <2>10
<1>12. CASE g \in published
  <2>1. Waits(g) BY <1>4, <1>7, <1>8, <1>12 DEF Sending
  <2>2. PICK p \in Places : p[1] # "fill" /\ At(p).index = g BY <2>1 DEF Waits
  <2>3. g # NoStage BY <1>8, WireChunkType
  <2>4. ~\E s \in Slots : p = <<"free", s>>
    <3> SUFFICES ASSUME NEW s \in Slots, p = <<"free", s>> PROVE FALSE OBVIOUS
    <3>1. At(p) = IF s \in freeSlots THEN [slot |-> s, index |-> NoStage] ELSE NoChunk BY AtForms
    <3> QED BY <2>2, <2>3, <3>1, WireChunkType
  <2>5. ~\E r \in WireChunk : p = <<"armed", r>>
    <3> SUFFICES ASSUME NEW r \in WireChunk, p = <<"armed", r>> PROVE FALSE OBVIOUS
    <3>1. At(p) = IF r \in armed THEN [slot |-> r.slot, index |-> NoStage] ELSE NoChunk BY AtForms
    <3> QED BY <2>2, <2>3, <3>1, WireChunkType
  <2>6. ~\E h \in Slots : p = <<"held", h>>
    <3> SUFFICES ASSUME NEW h \in Slots, p = <<"held", h>> PROVE FALSE OBVIOUS
    <3>1. At(p) = held[h] BY AtForms
    <3> QED BY <1>7, <2>2, <3>1 DEF Sending
  <2>7. CASE \E v \in Workers : p = <<"publish", v>>
    <3>1. PICK v \in Workers : p = <<"publish", v>> BY <2>7
    <3>2. At(p) = IF pc[v] = "publish" THEN [slot |-> buf[v], index |-> StageOf(v)] ELSE NoChunk
      BY <3>1, AtForms
    <3>3. pc[v] = "publish" /\ StageOf(v) = g BY <2>2, <2>3, <3>2, WireChunkType
    <3>4. First(v) = blk[v] + Piece(v) BY <3>3 DEF First
    <3>5. blk[v] + Piece(v) <= Start(g) + StageBlocks BY <3>3, PieceFacts DEF Chunks, Busy
    <3>6. First(v) \in Nat BY HandFacts
    <3>7. First(v) <= Start(a) BY <1>4, <1>9, <3>4, <3>5, <3>6, Constants
    <3> QED BY <1>10, <3>7
  <2>8. CASE \E k \in 1 .. StageCount : p = <<"ready", k>>
    <3>1. PICK k \in 1 .. StageCount : p = <<"ready", k>> BY <2>8
    <3>2. At(p) = IF k <= Len(readyQ) THEN readyQ[k] ELSE NoChunk BY <3>1, AtForms
    <3>3. k <= Len(readyQ) /\ readyQ[k].index = g BY <2>2, <2>3, <3>2, WireChunkType
    <3>4. k # 1 BY <1>7, <3>3
    <3>5. k \in 1 .. Len(readyQ) /\ k >= 2 BY <1>1, <3>3, <3>4
    <3>6. Before(2) \subseteq Before(k)
      <4>1. 1 .. 2 - 1 \subseteq 1 .. k - 1 BY <3>5
      <4> QED BY <4>1 DEF Before
    <3>7. readyQ[k].index < a BY <1>6, <1>7, <3>3
    <3> QED BY <3>5, <3>6, <3>7 DEF Window
  <2>9. ~\E e \in Entries : p = <<"fill", e>> BY <2>2
  <2> QED BY <2>4, <2>5, <2>6, <2>7, <2>8, <2>9, PlaceCases
<1> QED BY <1>11, <1>12

\* The place where usbTask puts a stage ahead of its turn is empty.
LEMMA HeldFree ==
  ASSUME TypeOK, Chunks, Fill, Placing, Sending, Window, upc = "poll",
         readyQ # <<>>, readyQ[1].index # nextSend,
         NEW h, h = readyQ[1].index % StageCount
  PROVE  h \in Slots /\ held[h] = NoChunk
<1>1. /\ readyQ[1] \in WireChunk /\ Len(readyQ) > 0 /\ Len(readyQ) \in Nat
  BY HeadFacts
<1>2. readyQ[1].index \in Indices /\ readyQ[1].index \in Nat BY <1>1, WireChunkType
<1>3. h \in Slots BY <1>2, PlaceType
<1> SUFFICES ASSUME held[h] # NoChunk PROVE FALSE BY <1>3
<1>4. held[h] \in WireChunk BY <1>3 DEF TypeOK
<1>5. PICK m \in Indices : m = held[h].index BY <1>4, WireChunkType
<1>6. PICK n \in Indices : n = readyQ[1].index BY <1>2
<1>7. m \in Nat /\ n \in Nat BY WireChunkType
<1>8. m % StageCount = h /\ n % StageCount = h BY <1>3, <1>5, <1>6 DEF Sending
<1>9. m # n
  <2>1. 1 \in 1 .. Len(readyQ) BY <1>1
  <2>2. At(<<"ready", 1>>) = readyQ[1] /\ <<"ready", 1>> \in Places BY <2>1, AtReady
  <2>3. At(<<"held", h>>) = held[h] /\ <<"held", h>> \in Places BY <1>3, AtForms, PlaceIs
  <2>4. <<"held", h>> # <<"ready", 1>> OBVIOUS
  <2>5. m # NoStage BY WireChunkType
  <2> QED BY <1>5, <1>6, <2>2, <2>3, <2>4, <2>5 DEF Placing
<1>10. m # nextSend /\ n # nextSend BY <1>3, <1>5, <1>6 DEF Sending
<1>11. m \in Before(2) /\ n \in Before(2)
  <2>1. 1 \in 1 .. 2 - 1 OBVIOUS
  <2> QED BY <1>3, <1>5, <1>6, <2>1 DEF Before
<1>12. CASE m < n
  <2>1. n - m < StageCount BY <1>1, <1>6, <1>10, <1>11, <1>12, KeptApart
  <2>2. n - m >= StageCount BY <1>7, <1>8, <1>12, ModApart
  <2> QED BY <1>7, <2>1, <2>2, Constants
<1>13. CASE n < m
  <2>1. m - n < StageCount BY <1>1, <1>6, <1>10, <1>11, <1>13, KeptApart
  <2>2. m - n >= StageCount BY <1>7, <1>8, <1>13, ModApart
  <2> QED BY <1>7, <2>1, <2>2, Constants
<1> QED BY <1>7, <1>9, <1>12, <1>13

---------------------------------------------------------------------------
(* From here on no chunk is lost and usbTask is the consumer: every slot   *)
(* has one holder, a published stage holds its own blocks, and the stages  *)
(* go out in order.                                                        *)
(*                                                                         *)
(* Both conditions are needed.  sinkTask frees stages in any order, so a   *)
(* worker may lag TableSize stages and find its table entry reassigned     *)
(* (SlotsSinkAlias.cfg); and lost chunks leave stages out, so that the     *)
(* stages in the table may be TableSize apart though the slots are few.    *)

---------------------------------------------------------------------------
(* What the buffers hold.                                                  *)

Carriers == {"publish", "ready", "held"}

\* A block a worker has written is at its place in the buffer of its stage, and a
\* stage on its way to USB has all its blocks.
Whole ==
  /\ \A i \in Indices : Open(i) => \A b \in Taken(i) :
       (\A w \in Workers : b \notin Unwritten(w)) => stage[slotOf[Entry(i)]][b - Start(i)] = b
  /\ \A p \in Places : p[1] \in Carriers /\ At(p).slot # -1 =>
       \A b \in BlocksOf(At(p).index) : stage[At(p).slot][b - Start(At(p).index)] = b
  /\ \A r \in armed : \A b \in BlocksOf(r.index) : stage[r.slot][b - Start(r.index)] = b

SlotInv == Fill /\ SameSlot /\ Placing /\ Sending /\ Window /\ Whole

LEMMA SameSlotKept ==
  ASSUME SameSlot, UNCHANGED <<slotIndex, slotOf>>,
         \A w \in Workers : pc'[w] \in {"write", "commit"} =>
           pc[w] \in {"write", "commit"} /\ buf'[w] = buf[w] /\ blk'[w] = blk[w]
  PROVE  SameSlot'
<1> SUFFICES ASSUME NEW w \in Workers, pc'[w] \in {"write", "commit"}
             PROVE  Bound(StageOf(w))' /\ slotOf'[Entry(StageOf(w)')] = buf'[w]
  BY DEF SameSlot
<1>1. pc[w] \in {"write", "commit"} /\ buf'[w] = buf[w] /\ blk'[w] = blk[w] OBVIOUS
<1>2. StageOf(w)' = StageOf(w) BY <1>1 DEF StageOf
<1>3. slotIndex[Entry(StageOf(w))] = StageOf(w) /\ slotOf[Entry(StageOf(w))] = buf[w]
  BY <1>1 DEF SameSlot, Bound
<1> QED BY <1>1, <1>2, <1>3 DEF Bound

LEMMA SendingKept ==
  ASSUME Sending, \A i \in Indices : Waits(i)' <=> Waits(i),
         UNCHANGED <<published, nextSend, held>>, upc' = "poll" => upc = "poll"
  PROVE  Sending'
  BY DEF Sending

LEMMA WindowKept ==
  ASSUME Window, readyQ' = readyQ, held' = held
  PROVE  Window'
  BY DEF Window, Before

LEMMA WholeParts ==
  ASSUME \A i \in Indices : Open(i)' => \A b \in Taken(i)' :
           (\A w \in Workers : b \notin Unwritten(w)') => stage'[slotOf'[Entry(i)]][b - Start(i)] = b,
         \A p \in Places : p[1] \in Carriers /\ At(p)'.slot # -1 =>
           \A b \in BlocksOf(At(p)'.index) : stage'[At(p)'.slot][b - Start(At(p)'.index)] = b,
         \A r \in armed' : \A b \in BlocksOf(r.index) : stage'[r.slot][b - Start(r.index)] = b
  PROVE  Whole'
  BY DEF Whole, Places

LEMMA WholeKept ==
  ASSUME Whole, stage' = stage, UNCHANGED <<slotIndex, slotOf, published>>,
         \A i \in Indices : \A b \in Taken(i)' : (\A w \in Workers : b \notin Unwritten(w)') =>
           b \in Taken(i) /\ \A w \in Workers : b \notin Unwritten(w),
         \A p \in Places : p[1] \in Carriers /\ At(p)'.slot # -1 =>
           \E q \in Places : /\ q[1] \in Carriers /\ At(q).slot = At(p)'.slot
                             /\ At(q).index = At(p)'.index,
         \A r \in armed' : r \in armed
           \/ \E q \in Places : q[1] \in Carriers /\ At(q) = r /\ r.slot # -1
  PROVE  Whole'
<1>1. ASSUME NEW i \in Indices, Open(i)', NEW b \in Taken(i)', \A w \in Workers : b \notin Unwritten(w)'
      PROVE  stage'[slotOf'[Entry(i)]][b - Start(i)] = b
  <2>1. Open(i) BY <1>1 DEF Open, Bound
  <2> QED BY <1>1, <2>1 DEF Whole
<1>2. ASSUME NEW p \in Places, p[1] \in Carriers, At(p)'.slot # -1, NEW b \in BlocksOf(At(p)'.index)
      PROVE  stage'[At(p)'.slot][b - Start(At(p)'.index)] = b
  <2>1. PICK q \in Places : q[1] \in Carriers /\ At(q).slot = At(p)'.slot /\ At(q).index = At(p)'.index
    BY <1>2
  <2> QED BY <1>2, <2>1 DEF Whole
<1>3. ASSUME NEW r \in armed', NEW b \in BlocksOf(r.index)
      PROVE  stage'[r.slot][b - Start(r.index)] = b
  <2>1. CASE r \in armed BY <1>3, <2>1 DEF Whole
  <2>2. CASE \E q \in Places : q[1] \in Carriers /\ At(q) = r /\ r.slot # -1
    <3>1. PICK q \in Places : q[1] \in Carriers /\ At(q) = r /\ r.slot # -1 BY <2>2
    <3> QED BY <1>3, <3>1 DEF Whole
  <2> QED BY <1>3, <2>1, <2>2
<1> QED BY <1>1, <1>2, <1>3, WholeParts

\* A step that changes none of the places, the table, and the buffers.
LEMMA QuietStep ==
  ASSUME TypeOK, TypeOK', Chunks, SlotInv,
         UNCHANGED <<tableVars, published, stage, readyQ, held, armed, nextSend>>,
         upc' = "poll" => upc = "poll" \/ \A h \in Slots : held[h].index # nextSend,
         \A w \in Workers : /\ pc'[w] = "publish" <=> pc[w] = "publish"
                            /\ pc[w] = "publish" => buf'[w] = buf[w] /\ blk'[w] = blk[w]
                            /\ pc'[w] \in {"write", "commit"} =>
                                 pc[w] \in {"write", "commit"} /\ buf'[w] = buf[w] /\ blk'[w] = blk[w]
                            /\ blk[w] <= blk'[w],
         \A i \in Indices : Accounted(i)' = Accounted(i),
         \A i \in Indices : \A b \in Taken(i)' : (\A w \in Workers : b \notin Unwritten(w)') =>
           b \in Taken(i) /\ \A w \in Workers : b \notin Unwritten(w)
  PROVE  SlotInv' /\ \A p \in Places : At(p)' = At(p)
<1>1. UNCHANGED <<slotIndex, slotOf, freeSlots, filled>> BY DEF tableVars
<1>2. \A p \in Places : At(p)' = At(p) BY <1>1, Quiet
<1>3. \A i : Waits(i)' <=> Waits(i) BY <1>2, WaitsSame
<1>4. Fill' BY <1>1, FillSame DEF TypeOK, SlotInv
<1>5. SameSlot' BY <1>1, SameSlotKept DEF SlotInv
<1>6. Placing' BY <1>2, PlacingSame DEF SlotInv
<1>7. Sending' BY <1>3 DEF Sending, SlotInv
<1>8. Window' BY WindowKept DEF SlotInv
<1>9. Whole'
  <2>1. \A p \in Places : p[1] \in Carriers /\ At(p)'.slot # -1 =>
          \E q \in Places : /\ q[1] \in Carriers /\ At(q).slot = At(p)'.slot
                            /\ At(q).index = At(p)'.index
    BY <1>2
  <2> QED BY <1>1, <2>1, WholeKept DEF SlotInv
<1> QED BY <1>2, <1>4, <1>5, <1>6, <1>7, <1>8, <1>9 DEF SlotInv

\* Nobody goes on.
LEMMA StillHands ==
  ASSUME cursor' = cursor, blk' = blk, left' = left,
         \A w \in Workers : /\ pc'[w] = "publish" <=> pc[w] = "publish"
                            /\ pc'[w] = "commit" <=> pc[w] = "commit"
  PROVE  /\ \A i \in Indices : Accounted(i)' = Accounted(i) /\ Taken(i)' = Taken(i)
         /\ \A w \in Workers : Unwritten(w)' = Unwritten(w) /\ Todo(w)' = Todo(w)
<1>1. \A w \in Workers : Unwritten(w)' = Unwritten(w) /\ Todo(w)' = Todo(w) BY HandSame
<1>2. \A i \in Indices : Taken(i)' = Taken(i) BY DEF Taken, BlocksOf
<1>3. \A i \in Indices : Accounted(i)' = Accounted(i) BY <1>1, AccountedSame
<1> QED BY <1>1, <1>2, <1>3

LEMMA StillStep ==
  ASSUME TypeOK, TypeOK', Chunks, SlotInv,
         UNCHANGED <<tableVars, published, stage, readyQ, held, armed, nextSend, buf, blk, left>>,
         cursor' = cursor,
         upc' = "poll" => upc = "poll" \/ \A h \in Slots : held[h].index # nextSend,
         \A w \in Workers : /\ pc'[w] = "publish" <=> pc[w] = "publish"
                            /\ pc'[w] = "commit" <=> pc[w] = "commit"
                            /\ pc'[w] = "write" => pc[w] = "write"
  PROVE  SlotInv' /\ \A p \in Places : At(p)' = At(p)
<1>1. /\ \A i \in Indices : Accounted(i)' = Accounted(i) /\ Taken(i)' = Taken(i)
      /\ \A w \in Workers : Unwritten(w)' = Unwritten(w)
  BY StillHands
<1>2. \A w \in Workers : blk[w] <= blk'[w] BY DEF TypeOK
<1>3. \A w \in Workers : /\ pc'[w] = "publish" <=> pc[w] = "publish"
                         /\ pc[w] = "publish" => buf'[w] = buf[w] /\ blk'[w] = blk[w]
                         /\ pc'[w] \in {"write", "commit"} =>
                              pc[w] \in {"write", "commit"} /\ buf'[w] = buf[w] /\ blk'[w] = blk[w]
                         /\ blk[w] <= blk'[w]
  BY <1>2
<1> QED BY <1>1, <1>3, QuietStep

\* The source stalls, a worker stops, waits or gives up, runCapture() and
\* usbTask leave their loops.
LEMMA StillSteps ==
  ASSUME TypeOK, TypeOK', Chunks, SlotInv,
         \/ SourceStalls \/ CodecFinishes \/ UsbExit \/ UNCHANGED vars
         \/ \E w \in Workers : StopWorker(w) \/ AcquireFails(w) \/ GiveUp(w)
  PROVE  SlotInv' /\ UNCHANGED <<readyQ, held, nextSend>>
<1>1. CASE SourceStalls
  <2>1. UNCHANGED <<cursor, workVars, tableVars, stage, readyQ, usbVars, published>>
    BY <1>1 DEF SourceStalls
  <2> QED BY <2>1, StillStep DEF workVars, usbVars
<1>2. CASE CodecFinishes
  <2>1. UNCHANGED <<feedVars, workVars, tableVars, stage, readyQ, usbVars, published>>
    BY <1>2 DEF CodecFinishes
  <2> QED BY <2>1, StillStep DEF feedVars, workVars, usbVars
<1>3. CASE UsbExit
  <2>1. /\ UNCHANGED <<feedVars, workVars, tableVars, stage, readyQ, nextSend, held, armed, published>>
        /\ upc' = "done"
    BY <1>3 DEF UsbExit
  <2> QED BY <2>1, StillStep DEF feedVars, workVars
<1>4. CASE UNCHANGED vars
  <2>1. UNCHANGED <<feedVars, workVars, tableVars, stage, readyQ, usbVars, published>>
    BY <1>4 DEF vars
  <2> QED BY <2>1, StillStep DEF feedVars, workVars, usbVars
<1>5. ASSUME NEW w \in Workers, StopWorker(w) \/ AcquireFails(w) \/ GiveUp(w)
      PROVE  SlotInv' /\ UNCHANGED <<readyQ, held, nextSend>>
  <2>1. /\ UNCHANGED <<feedVars, blk, left, buf, tableVars, stage, readyQ, usbVars, published>>
        /\ \/ pc[w] = "take" /\ pc' = [pc EXCEPT ![w] = "done"]
           \/ pc[w] = "acquire" /\ pc' = [pc EXCEPT ![w] = "wait"]
           \/ pc[w] = "wait" /\ pc' = [pc EXCEPT ![w] = "done"]
    BY <1>5, PcSteps
  <2>2. \A u \in Workers : /\ pc'[u] = "publish" <=> pc[u] = "publish"
                           /\ pc'[u] = "commit" <=> pc[u] = "commit"
                           /\ pc'[u] = "write" => pc[u] = "write"
    BY <2>1 DEF TypeOK
  <2> QED BY <2>1, <2>2, StillStep DEF feedVars, usbVars
<1> QED BY <1>1, <1>2, <1>3, <1>4, <1>5

LEMMA TakeStep ==
  ASSUME TypeOK, TypeOK', Chunks, SlotInv, NEW w \in Workers, TakeChunk(w)
  PROVE  SlotInv'
<1>1. /\ blk'[w] = cursor /\ blk[w] <= cursor /\ cursor <= cursor'
      /\ \A u \in Workers : u # w => blk'[u] = blk[u] /\ left'[u] = left[u] /\ pc'[u] = pc[u]
  BY HandTake
<1>2. /\ pc[w] = "take" /\ pc' = [pc EXCEPT ![w] = "acquire"]
      /\ UNCHANGED <<buf, tableVars, stage, readyQ, usbVars, published>>
      /\ cursor \in Nat /\ cursor' \in Nat
  BY TakeEffect
<1>3. pc'[w] = "acquire" BY <1>2 DEF TypeOK
<1>4. \A u \in Workers : blk[u] <= blk'[u]
  <2>1. \A u \in Workers : blk[u] \in Nat BY DEF TypeOK
  <2> QED BY <1>1, <2>1
<1>5. \A i \in Indices : Accounted(i)' = Accounted(i) BY AccountedTake
<1>6. ASSUME NEW i \in Indices, NEW b \in Taken(i)', \A u \in Workers : b \notin Unwritten(u)'
      PROVE  b \in Taken(i) /\ \A u \in Workers : b \notin Unwritten(u)
  <2>1. b \in BlocksOf(i) /\ b < cursor' BY DEF Taken, BlocksOf
  <2>2. b \in Nat /\ b < TargetBlocks BY <2>1, BlocksFacts, Constants
  <2>3. b < cursor BY <1>2, <1>6, <2>1, <2>2, HandTake
  <2>4. \A u \in Workers : u # w => Unwritten(u)' = Unwritten(u) BY <1>1, HandSame
  <2>5. b \notin Unwritten(w) BY <2>2, HandTake
  <2> QED BY <1>6, <2>1, <2>3, <2>4, <2>5 DEF Taken
<1>7. \A u \in Workers : /\ pc'[u] = "publish" <=> pc[u] = "publish"
                         /\ pc[u] = "publish" => buf'[u] = buf[u] /\ blk'[u] = blk[u]
                         /\ pc'[u] \in {"write", "commit"} =>
                              pc[u] \in {"write", "commit"} /\ buf'[u] = buf[u] /\ blk'[u] = blk[u]
                         /\ blk[u] <= blk'[u]
  BY <1>1, <1>2, <1>3, <1>4
<1> QED BY <1>2, <1>5, <1>6, <1>7, QuietStep DEF usbVars

\* The place of a stage that is being filled.
LEMMA OpenPlace ==
  ASSUME TypeOK, NEW k \in Indices, Open(k)
  PROVE  /\ Entry(k) \in Entries /\ <<"fill", Entry(k)>> \in Places
         /\ At(<<"fill", Entry(k)>>) = [slot |-> slotOf[Entry(k)], index |-> k]
         /\ slotOf[Entry(k)] \in Slots /\ slotOf[Entry(k)] # -1
<1>1. Entry(k) \in Entries BY WireChunkType, EntryType
<1>2. slotOf[Entry(k)] \in Slots /\ slotOf[Entry(k)] # -1 BY <1>1, WireChunkType DEF TypeOK
<1>3. slotIndex[Entry(k)] = k /\ k \notin published /\ k # NoStage
  BY WireChunkType DEF Open, Bound
<1>4. At(<<"fill", Entry(k)>>) = IF slotIndex[Entry(k)] \in published \cup {NoStage} THEN NoChunk
                                ELSE [slot |-> slotOf[Entry(k)], index |-> slotIndex[Entry(k)]]
  BY AtForms
<1> QED BY <1>1, <1>2, <1>3, <1>4, PlaceIs

\* A stage in hand is in no place before it has a slot.
LEMMA Nowhere ==
  ASSUME TypeOK, Chunks, Table, Sending, NEW i \in Indices, ~Bound(i), i \notin published
  PROVE  \A q \in Places : At(q).index # i
<1> SUFFICES ASSUME NEW q \in Places, At(q).index = i PROVE FALSE OBVIOUS
<1>1. i # NoStage BY WireChunkType
<1>2. CASE q[1] # "fill"
  <2>1. Waits(i) BY <1>2 DEF Waits
  <2> QED BY <2>1 DEF Sending
<1>3. CASE q[1] = "fill"
  <2>1. PICK e \in Entries : q = <<"fill", e>> BY <1>3, PlaceCases
  <2>2. At(q) = IF slotIndex[e] \in published \cup {NoStage} THEN NoChunk
                ELSE [slot |-> slotOf[e], index |-> slotIndex[e]]
    BY <2>1, AtForms
  <2>3. slotIndex[e] = i BY <1>1, <2>2, WireChunkType
  <2>4. Entry(i) = e BY <1>1, <2>3 DEF Table
  <2> QED BY <2>3, <2>4 DEF Bound
<1> QED BY <1>2, <1>3

\* A block that is written and not accounted is in the hand of a worker on its
\* way to commitStage().
LEMMA Committing ==
  ASSUME TypeOK, Chunks, NEW u \in Workers, NEW b \in Nat, b \in Todo(u), b \notin Unwritten(u)
  PROVE  pc[u] = "commit" /\ b \in BlocksOf(StageOf(u))
<1>1. First(u) <= b /\ b < Past(u) /\ b < FirstBlank(u) /\ First(u) \in Nat /\ FirstBlank(u) \in Nat
  BY HandFacts
<1>2. pc[u] = "commit"
  <2>1. First(u) # FirstBlank(u) BY <1>1
  <2> QED BY <2>1 DEF First, FirstBlank
<1>3. First(u) = blk[u] /\ FirstBlank(u) = blk[u] + Piece(u) BY <1>2 DEF First, FirstBlank
<1>4. /\ StageOf(u) \in Indices /\ Start(StageOf(u)) <= blk[u]
      /\ blk[u] + Piece(u) <= Limit(StageOf(u)) /\ blk[u] \in Nat /\ Piece(u) \in Nat
  BY <1>2, PieceFacts DEF Chunks, Busy
<1>5. /\ Limit(StageOf(u)) \in Nat /\ Start(StageOf(u)) \in Nat
      /\ \A y \in Int : y \in BlocksOf(StageOf(u)) <=> Start(StageOf(u)) <= y /\ y < Limit(StageOf(u))
  BY <1>4, BlocksFacts
<1>6. Start(StageOf(u)) <= b /\ b < Limit(StageOf(u)) BY <1>1, <1>3, <1>4, <1>5
<1> QED BY <1>2, <1>5, <1>6

LEMMA WaitsIndex ==
  ASSUME \A p \in Places : p[1] # "fill" => At(p)'.index = At(p).index
  PROVE  \A i : Waits(i)' <=> Waits(i)
<1>1. \A i : Waits(i)' <=> \E p \in Places : p[1] # "fill" /\ At(p)'.index = i BY DEF Waits, Places
<1> QED BY <1>1 DEF Waits

LEMMA AcquireStep ==
  ASSUME TypeOK, TypeOK', Chunks, Chunks', Table, SlotInv, NEW w \in Workers, Acquire(w)
  PROVE  SlotInv'
<1>1. /\ pc[w] \in {"acquire", "wait"} /\ pc' = [pc EXCEPT ![w] = "write"]
      /\ UNCHANGED <<feedVars, blk, left, stage, readyQ, usbVars, published>>
  BY DEF Acquire
<1>2. PICK i : i = StageOf(w) OBVIOUS
<1>3. /\ i \in Indices /\ i \notin published BY <1>1, <1>2, CurrentStage DEF SlotInv
<1>4. Entry(i) \in Entries BY <1>3, WireChunkType, EntryType
<1>5. /\ pc'[w] = "write"
      /\ \A u \in Workers : /\ u # w => pc'[u] = pc[u]
                            /\ pc'[u] = "publish" <=> pc[u] = "publish"
                            /\ pc'[u] = "commit" <=> pc[u] = "commit"
  BY <1>1 DEF TypeOK
<1>6. StageOf(w)' = i /\ \A u \in Workers : StageOf(u)' = StageOf(u) BY <1>1, <1>2 DEF StageOf
<1>7. /\ \A k \in Indices : Accounted(k)' = Accounted(k) /\ Taken(k)' = Taken(k)
      /\ \A u \in Workers : Unwritten(u)' = Unwritten(u)
  BY <1>1, <1>5, StillHands DEF feedVars
<1>8. UNCHANGED <<upc, nextSend, held, armed>> BY <1>1 DEF usbVars
<1>9. CASE Bound(i)
  <2>1. UNCHANGED tableVars /\ buf' = [buf EXCEPT ![w] = slotOf[Entry(i)]]
    BY <1>2, <1>9 DEF Acquire
  <2>2. UNCHANGED <<slotIndex, slotOf, freeSlots, filled>> BY <2>1 DEF tableVars
  <2>3. buf'[w] = slotOf[Entry(i)] /\ \A u \in Workers : u # w => buf'[u] = buf[u]
    BY <2>1 DEF TypeOK
  <2>4. \A p \in Places : At(p)' = At(p)
    <3>1. \A u \in Workers : pc[u] = "publish" => u # w BY <1>1
    <3> QED BY <1>1, <1>5, <1>8, <2>2, <2>3, <3>1, Quiet
  <2>5. Fill'
    <3>1. \A u \in Workers : blk[u] <= blk'[u] BY <1>1 DEF TypeOK
    <3> QED BY <1>1, <1>7, <2>2, <3>1, FillSame DEF SlotInv, TypeOK
  <2>6. SameSlot'
    <3> SUFFICES ASSUME NEW u \in Workers, pc'[u] \in {"write", "commit"}
                 PROVE  Bound(StageOf(u))' /\ slotOf'[Entry(StageOf(u)')] = buf'[u]
      BY DEF SameSlot
    <3>1. CASE u = w BY <1>6, <1>9, <2>2, <2>3, <3>1 DEF Bound
    <3>2. CASE u # w
      <4>1. Bound(StageOf(u)) /\ slotOf[Entry(StageOf(u))] = buf[u] BY <1>5, <3>2 DEF SameSlot, SlotInv
      <4> QED BY <1>6, <2>2, <2>3, <3>2, <4>1 DEF Bound
    <3> QED BY <3>1, <3>2
  <2>7. Placing' BY <2>4, PlacingSame DEF SlotInv
  <2>8. Sending'
    <3>1. \A k : Waits(k)' <=> Waits(k) BY <2>4, WaitsSame
    <3> QED BY <1>1, <1>8, <3>1, SendingKept DEF SlotInv
  <2>9. Window' BY <1>1, <1>8, WindowKept DEF SlotInv
  <2>10. Whole'
    <3>1. \A p \in Places : p[1] \in Carriers /\ At(p)'.slot # -1 =>
            \E q \in Places : /\ q[1] \in Carriers /\ At(q).slot = At(p)'.slot
                              /\ At(q).index = At(p)'.index
      BY <2>4
    <3> QED BY <1>1, <1>7, <1>8, <2>2, <3>1, WholeKept DEF SlotInv
  <2> QED BY <2>5, <2>6, <2>7, <2>8, <2>9, <2>10 DEF SlotInv
<1>10. CASE ~Bound(i)
  <2>1. PICK s \in freeSlots :
          /\ freeSlots' = freeSlots \ {s}
          /\ slotIndex' = [slotIndex EXCEPT ![Entry(i)] = i]
          /\ slotOf' = [slotOf EXCEPT ![Entry(i)] = s]
          /\ buf' = [buf EXCEPT ![w] = s]
    BY <1>2, <1>10, NewSlot
  <2>2. PICK e \in Entries : e = Entry(i) BY <1>4
  <2>3. s \in Slots /\ s # -1 BY WireChunkType DEF TypeOK
  <2>4. slotIndex[e] \in published \cup {NoStage}
    BY <1>1, <1>2, <1>10, <2>1, <2>2, EntryIsOld DEF SlotInv
  <2>5. \A k \in Indices : Open(k) => slotOf[Entry(k)] \notin freeSlots
    <3> SUFFICES ASSUME NEW k \in Indices, Open(k), slotOf[Entry(k)] \in freeSlots PROVE FALSE
      OBVIOUS
    <3>0. /\ <<"fill", Entry(k)>> \in Places
          /\ At(<<"fill", Entry(k)>>) = [slot |-> slotOf[Entry(k)], index |-> k]
          /\ slotOf[Entry(k)] \in Slots /\ slotOf[Entry(k)] # -1
      BY OpenPlace
    <3>1. PICK t \in Slots : t = slotOf[Entry(k)] /\ t # -1 /\ t \in freeSlots BY <3>0
    <3>2. At(<<"fill", Entry(k)>>).slot = t /\ <<"fill", Entry(k)>> \in Places
      BY <3>0, <3>1
    <3>3. At(<<"free", t>>) = [slot |-> t, index |-> NoStage] /\ <<"free", t>> \in Places
      BY <3>1, AtForms, PlaceIs
    <3>4. <<"free", t>> = <<"fill", Entry(k)>> BY <3>1, <3>2, <3>3 DEF Placing, SlotInv
    <3> QED BY <3>4
  <2>6. Fill' BY <1>2, <2>2, <2>4, <2>5, FillAcquire DEF SlotInv
  <2>7. /\ slotIndex'[e] = i /\ slotOf'[e] = s
        /\ \A d \in Entries : d # e => slotIndex'[d] = slotIndex[d] /\ slotOf'[d] = slotOf[d]
        /\ buf'[w] = s /\ \A u \in Workers : u # w => buf'[u] = buf[u]
    BY <2>1, <2>2 DEF TypeOK
  \* The other stages that have a slot keep theirs.
  <2>8. ASSUME NEW k \in Indices, Open(k)
        PROVE  k # i /\ slotIndex'[Entry(k)] = k /\ slotOf'[Entry(k)] = slotOf[Entry(k)]
    <3>1. k # NoStage /\ Entry(k) \in Entries BY WireChunkType, EntryType
    <3>2. slotIndex[Entry(k)] = k /\ k \notin published BY <2>8 DEF Open, Bound
    <3>3. Entry(k) # e BY <2>4, <3>1, <3>2
    <3>4. k # i BY <1>10, <3>2 DEF Bound
    <3> QED BY <2>7, <3>1, <3>2, <3>3, <3>4
  <2>9. SameSlot'
    <3> SUFFICES ASSUME NEW u \in Workers, pc'[u] \in {"write", "commit"}
                 PROVE  Bound(StageOf(u))' /\ slotOf'[Entry(StageOf(u)')] = buf'[u]
      BY DEF SameSlot
    <3>1. CASE u = w BY <1>6, <2>2, <2>7, <3>1 DEF Bound
    <3>2. CASE u # w
      <4>1. pc[u] \in {"write", "commit"} BY <1>5, <3>2
      <4>2. Bound(StageOf(u)) /\ slotOf[Entry(StageOf(u))] = buf[u] BY <4>1 DEF SameSlot, SlotInv
      <4>3. StageOf(u) \in Indices /\ Open(StageOf(u)) BY <4>1, <4>2, CurrentStage DEF Open, SlotInv
      <4> QED BY <1>6, <2>7, <2>8, <3>2, <4>2, <4>3 DEF Bound
    <3> QED BY <3>1, <3>2
  <2>10. /\ At(<<"fill", e>>) = NoChunk /\ At(<<"fill", e>>)' = [slot |-> s, index |-> i]
         /\ At(<<"free", s>>) = [slot |-> s, index |-> NoStage] /\ At(<<"free", s>>)' = NoChunk
    <3>1. At(<<"fill", e>>) = NoChunk
      <4>1. At(<<"fill", e>>) = IF slotIndex[e] \in published \cup {NoStage} THEN NoChunk
                                ELSE [slot |-> slotOf[e], index |-> slotIndex[e]]
        BY AtForms
      <4> QED BY <2>4, <4>1
    <3>2. At(<<"fill", e>>)' = [slot |-> s, index |-> i]
      <4>1. At(<<"fill", e>>)' = IF slotIndex'[e] \in published' \cup {NoStage} THEN NoChunk
                                 ELSE [slot |-> slotOf'[e], index |-> slotIndex'[e]]
        BY AtFormsNext
      <4>2. i # NoStage BY <1>3, WireChunkType
      <4> QED BY <1>1, <1>3, <2>7, <4>1, <4>2
    <3>3. At(<<"free", s>>) = [slot |-> s, index |-> NoStage] BY AtForms
    <3>4. At(<<"free", s>>)' = NoChunk BY <2>1, AtFormsNext
    <3> QED BY <3>1, <3>2, <3>3, <3>4
  <2>11. \A p \in Places : p # <<"fill", e>> /\ p # <<"free", s>> => At(p)' = At(p)
    <3> SUFFICES ASSUME NEW p \in Places, p # <<"fill", e>>, p # <<"free", s>> PROVE At(p)' = At(p)
      OBVIOUS
    <3>1. CASE \E t \in Slots : p = <<"free", t>>
      <4>1. PICK t \in Slots : p = <<"free", t>> BY <3>1
      <4>2. t \in freeSlots' <=> t \in freeSlots BY <2>1, <4>1
      <4> QED BY <4>1, <4>2, AtForms, AtFormsNext
    <3>2. CASE \E d \in Entries : p = <<"fill", d>>
      <4>1. PICK d \in Entries : p = <<"fill", d>> BY <3>2
      <4>2. slotIndex'[d] = slotIndex[d] /\ slotOf'[d] = slotOf[d] BY <2>7, <4>1
      <4>3. At(p) = IF slotIndex[d] \in published \cup {NoStage} THEN NoChunk
                    ELSE [slot |-> slotOf[d], index |-> slotIndex[d]]
        BY <4>1, AtForms
      <4>4. At(p)' = IF slotIndex'[d] \in published' \cup {NoStage} THEN NoChunk
                     ELSE [slot |-> slotOf'[d], index |-> slotIndex'[d]]
        BY <4>1, AtFormsNext
      <4> QED BY <1>1, <4>2, <4>3, <4>4
    <3>3. CASE \E u \in Workers : p = <<"publish", u>>
      <4>1. \A u \in Workers : pc[u] = "publish" => u # w BY <1>1
      <4> QED BY <1>1, <1>5, <2>7, <3>3, <4>1, AtKinds
    <3>4. CASE \E k \in 1 .. StageCount : p = <<"ready", k>> BY <1>1, <3>4, AtKinds
    <3>5. CASE \E h \in Slots : p = <<"held", h>> BY <1>8, <3>5, AtKinds
    <3>6. CASE \E r \in WireChunk : p = <<"armed", r>> BY <1>8, <3>6, AtKinds
    <3> QED BY <3>1, <3>2, <3>3, <3>4, <3>5, <3>6, PlaceCases
  <2>12. Placing'
    <3>1. \A q \in Places : At(q).index # i BY <1>3, <1>10, Nowhere DEF SlotInv
    <3>2. <<"fill", e>> \in Places /\ <<"free", s>> \in Places BY <2>3, PlaceIs
    <3>3. At(<<"fill", e>>)'.index = i /\ At(<<"fill", e>>)'.slot = s /\ At(<<"free", s>>).slot = s
      BY <2>10
    <3> DEFINE a == <<"fill", e>>
               b == <<"free", s>>
    <3>4. /\ a \in Places /\ b \in Places /\ At(b)' = NoChunk /\ At(a) = NoChunk
          /\ At(a)'.slot = At(b).slot /\ At(b).slot # -1
          /\ \A q \in Places : At(q).index # At(a)'.index
          /\ \A p \in Places : p # a /\ p # b => At(p)' = At(p)
      BY <2>3, <2>10, <2>11, <3>1, <3>2, <3>3
    <3> HIDE DEF a, b
    <3> QED BY <3>4, Moved DEF SlotInv
  <2>13. Sending'
    <3>1. \A p \in Places : p[1] # "fill" => At(p)'.index = At(p).index
      <4>1. At(<<"free", s>>)'.index = At(<<"free", s>>).index BY <2>10, WireChunkType
      <4> QED BY <2>11, <4>1
    <3>2. \A k : Waits(k)' <=> Waits(k) BY <3>1, WaitsIndex
    <3> QED BY <1>1, <1>8, <3>2, SendingKept DEF SlotInv
  <2>14. Window' BY <1>1, <1>8, WindowKept DEF SlotInv
  <2>15. Whole'
    <3>1. ASSUME NEW k \in Indices, Open(k)', NEW b \in Taken(k)', \A u \in Workers : b \notin Unwritten(u)'
          PROVE  stage'[slotOf'[Entry(k)]][b - Start(k)] = b
      <4>1. b \in Taken(k) /\ b \in BlocksOf(k) /\ b \in Nat
        BY <1>7, <3>1, BlocksFacts DEF Taken
      <4>2. \A u \in Workers : b \notin Unwritten(u) BY <1>7, <3>1
      <4>3. CASE k = i
        <5>1. b \notin Accounted(i) BY <1>3, <1>10 DEF Fill, SlotInv
        <5>2. PICK u \in Workers : b \in Todo(u) BY <4>1, <4>3, <5>1 DEF Accounted
        <5>3. pc[u] = "commit" /\ b \in BlocksOf(StageOf(u)) BY <4>1, <4>2, <5>2, Committing
        <5>4. StageOf(u) \in Indices BY <5>3, CurrentStage
        <5>5. StageOf(u) = i BY <1>3, <4>1, <4>3, <5>3, <5>4, InStage
        <5> QED BY <1>10, <5>3, <5>5 DEF SameSlot, SlotInv
      <4>4. CASE k # i
        <5>1. Entry(k) \in Entries BY WireChunkType, EntryType
        <5>2. slotIndex'[Entry(k)] = k /\ k \notin published BY <1>1, <3>1 DEF Open, Bound
        <5>3. Entry(k) # e BY <2>7, <4>4, <5>2
        <5>4. Open(k) /\ slotOf'[Entry(k)] = slotOf[Entry(k)]
          BY <2>7, <5>1, <5>2, <5>3 DEF Open, Bound
        <5> QED BY <1>1, <4>1, <4>2, <5>4 DEF Whole, SlotInv
      <4> QED BY <4>3, <4>4
    <3>2. ASSUME NEW p \in Places, p[1] \in Carriers PROVE At(p)' = At(p)
      <4>1. p # <<"fill", e>> /\ p # <<"free", s>> BY <3>2 DEF Carriers
      <4> QED BY <2>11, <4>1
    <3>3. \A p \in Places : p[1] \in Carriers /\ At(p)'.slot # -1 =>
             \A b \in BlocksOf(At(p)'.index) : stage'[At(p)'.slot][b - Start(At(p)'.index)] = b
      BY <1>1, <3>2 DEF Whole, SlotInv
    <3>4. \A r \in armed' : \A b \in BlocksOf(r.index) : stage'[r.slot][b - Start(r.index)] = b
      BY <1>1, <1>8 DEF Whole, SlotInv
    <3> QED BY <3>1, <3>3, <3>4, WholeParts
  <2> QED BY <2>6, <2>9, <2>12, <2>13, <2>14, <2>15 DEF SlotInv
<1> QED BY <1>9, <1>10

\* Nobody else has the buffer of a stage that is being filled.
LEMMA OpenAlone ==
  ASSUME TypeOK, Placing, NEW i \in Indices, Open(i)
  PROVE  /\ \A p \in Places : p # <<"fill", Entry(i)>> => At(p).slot # slotOf[Entry(i)]
         /\ \A k \in Indices : Open(k) /\ k # i => slotOf[Entry(k)] # slotOf[Entry(i)]
         /\ \A r \in armed : r.slot # slotOf[Entry(i)]
<1>1. /\ <<"fill", Entry(i)>> \in Places
      /\ At(<<"fill", Entry(i)>>) = [slot |-> slotOf[Entry(i)], index |-> i]
      /\ slotOf[Entry(i)] \in Slots /\ slotOf[Entry(i)] # -1
  BY OpenPlace
<1>2. ASSUME NEW p \in Places, p # <<"fill", Entry(i)>> PROVE At(p).slot # slotOf[Entry(i)]
  <2>1. At(<<"fill", Entry(i)>>).slot = slotOf[Entry(i)] BY <1>1
  <2> QED BY <1>1, <1>2, <2>1 DEF Placing
<1>3. ASSUME NEW k \in Indices, Open(k), k # i PROVE slotOf[Entry(k)] # slotOf[Entry(i)]
  <2>1. /\ <<"fill", Entry(k)>> \in Places
        /\ At(<<"fill", Entry(k)>>) = [slot |-> slotOf[Entry(k)], index |-> k]
    BY <1>3, OpenPlace
  <2>2. Entry(k) # Entry(i) BY <1>3 DEF Open, Bound
  <2>3. <<"fill", Entry(k)>> # <<"fill", Entry(i)>> BY <2>2
  <2>4. At(<<"fill", Entry(k)>>).slot = slotOf[Entry(k)] BY <2>1
  <2> QED BY <1>2, <2>1, <2>3, <2>4
<1>4. ASSUME NEW r \in armed PROVE r.slot # slotOf[Entry(i)]
  <2>1. r \in WireChunk BY DEF TypeOK
  <2>2. <<"armed", r>> \in Places BY <2>1, PlaceIs
  <2>3. At(<<"armed", r>>) = [slot |-> r.slot, index |-> NoStage] BY AtForms
  <2>4. At(<<"armed", r>>).slot = r.slot BY <2>3
  <2>5. <<"armed", r>> # <<"fill", Entry(i)>> OBVIOUS
  <2> QED BY <1>2, <2>2, <2>4, <2>5
<1> QED BY <1>2, <1>3, <1>4

\* What a worker writes: its piece, in the buffer of its stage, where the blocks
\* belong.
LEMMA Written ==
  ASSUME TypeOK, TypeOK', Chunks, NEW w \in Workers, WriteBlocks(w), NEW i, i = StageOf(w)
  PROVE  /\ i \in Indices /\ pc[w] = "write" /\ pc' = [pc EXCEPT ![w] = "commit"]
         /\ \A s \in Slots : s # buf[w] => stage'[s] = stage[s]
         /\ \A b \in BlocksOf(i) :
              \/ stage'[buf[w]][b - Start(i)] = b
              \/ stage'[buf[w]][b - Start(i)] = stage[buf[w]][b - Start(i)]
         /\ \A b \in BlocksOf(i) : b \in Unwritten(w) /\ b \notin Unwritten(w)' =>
              stage'[buf[w]][b - Start(i)] = b
         /\ \A b \in Int : b \in Unwritten(w) /\ b \notin Unwritten(w)' => b \in BlocksOf(i)
         /\ \A u \in Workers : u # w => Unwritten(u)' = Unwritten(u)
<1>1. pc[w] = "write" /\ left[w] > 0 BY DEF WriteBlocks, Chunks, Busy
<1> DEFINE p == Piece(w)
           o == Offset(w)
           t == Start(i)
           row == [q \in Positions |-> IF q \in o .. o + p - 1 THEN i * StageBlocks + q
                                       ELSE stage[buf[w]][q]]
<1>2. /\ stage' = [stage EXCEPT ![buf[w]] = row] /\ pc' = [pc EXCEPT ![w] = "commit"]
      /\ UNCHANGED <<feedVars, blk, left>>
  BY DEF WriteBlocks
<1>3. \A q \in Positions : row[q] = IF q \in o .. o + p - 1 THEN t + q ELSE stage[buf[w]][q]
  BY DEF Start
<1>4. stage'[buf[w]] = row /\ \A s \in Slots : s # buf[w] => stage'[s] = stage[s]
  BY <1>2 DEF TypeOK
<1>5. /\ blk[w] \in Nat /\ p \in Nat /\ p > 0 /\ i \in Indices /\ t \in Nat /\ t <= blk[w]
      /\ o = blk[w] - t /\ blk[w] + p <= Limit(i)
  BY <1>1, PieceFacts
<1>6. /\ Limit(i) \in Nat /\ Limit(i) <= t + StageBlocks
      /\ \A b \in Int : b \in BlocksOf(i) <=> t <= b /\ b < Limit(i)
      /\ BlocksOf(i) \subseteq Nat
  BY <1>5, BlocksFacts
<1>7. FirstBlank(w) = blk[w] /\ FirstBlank(w)' = blk[w] + p /\ Past(w)' = Past(w)
  <2>1. pc'[w] = "commit" BY <1>2 DEF TypeOK
  <2>2. Piece(w)' = Piece(w) BY <1>2 DEF Piece, Offset
  <2> QED BY <1>1, <1>2, <2>1, <2>2 DEF FirstBlank, Past
<1>8. Unwritten(w) = blk[w] .. Past(w) - 1 /\ Unwritten(w)' = (blk[w] + p) .. (Past(w) - 1)
  BY <1>7 DEF Unwritten
<1>9. Past(w) \in Nat BY HandFacts
<1> HIDE DEF row, p, o, t
<1>10. ASSUME NEW b \in Int, b \in Unwritten(w), b \notin Unwritten(w)'
       PROVE  blk[w] <= b /\ b < blk[w] + p /\ b \in BlocksOf(i)
  <2>1. blk[w] <= b /\ b < blk[w] + p BY <1>5, <1>8, <1>9, <1>10
  <2> QED BY <1>5, <1>6, <2>1
<1>11. \A b \in BlocksOf(i) : b \in Nat /\ b - t \in Positions /\ t + (b - t) = b
  BY <1>5, <1>6, Constants DEF Positions
<1>12. \A b \in BlocksOf(i) : \/ stage'[buf[w]][b - t] = b
                              \/ stage'[buf[w]][b - t] = stage[buf[w]][b - t]
  BY <1>3, <1>4, <1>11
<1>13. ASSUME NEW b \in BlocksOf(i), b \in Unwritten(w), b \notin Unwritten(w)'
       PROVE  stage'[buf[w]][b - t] = b
  <2>1. b \in Nat BY <1>11
  <2>2. blk[w] <= b /\ b < blk[w] + p BY <1>10, <1>13, <2>1
  <2>3. b - t \in o .. o + p - 1 BY <1>5, <2>1, <2>2
  <2> QED BY <1>3, <1>4, <1>11, <2>3
<1>14. \A u \in Workers : u # w => Unwritten(u)' = Unwritten(u)
  <2>1. \A u \in Workers : u # w => pc'[u] = pc[u] BY <1>2 DEF TypeOK
  <2> QED BY <1>2, <2>1, HandSame
<1> QED BY <1>1, <1>2, <1>4, <1>5, <1>10, <1>12, <1>13, <1>14 DEF t

LEMMA WriteStep ==
  ASSUME TypeOK, TypeOK', Chunks, SlotInv, NEW w \in Workers, WriteBlocks(w)
  PROVE  SlotInv'
<1>1. PICK i : i = StageOf(w) OBVIOUS
<1>2. /\ i \in Indices /\ pc[w] = "write" /\ pc' = [pc EXCEPT ![w] = "commit"]
      /\ \A s \in Slots : s # buf[w] => stage'[s] = stage[s]
      /\ \A b \in BlocksOf(i) :
           \/ stage'[buf[w]][b - Start(i)] = b
           \/ stage'[buf[w]][b - Start(i)] = stage[buf[w]][b - Start(i)]
      /\ \A b \in BlocksOf(i) : b \in Unwritten(w) /\ b \notin Unwritten(w)' =>
           stage'[buf[w]][b - Start(i)] = b
      /\ \A b \in Int : b \in Unwritten(w) /\ b \notin Unwritten(w)' => b \in BlocksOf(i)
      /\ \A u \in Workers : u # w => Unwritten(u)' = Unwritten(u)
  BY <1>1, Written
<1>3. UNCHANGED <<feedVars, blk, left, buf, tableVars, readyQ, usbVars, published>>
  BY DEF WriteBlocks
<1>4. UNCHANGED <<slotIndex, slotOf, freeSlots, filled, upc, nextSend, held, armed, cursor>>
  BY <1>3 DEF tableVars, usbVars, feedVars
<1>5. \A u \in Workers : /\ pc'[u] = "publish" <=> pc[u] = "publish"
                         /\ pc'[u] \in {"write", "commit"} => pc[u] \in {"write", "commit"}
  BY <1>2 DEF TypeOK
<1>6. /\ i \notin published /\ Bound(i) /\ slotOf[Entry(i)] = buf[w] /\ Open(i)
  BY <1>1, <1>2, CurrentStage DEF SameSlot, SlotInv, Open
<1>7. \A p \in Places : At(p)' = At(p) BY <1>3, <1>4, <1>5, Quiet
<1>8. \A k \in Indices : Taken(k)' = Taken(k) /\ Accounted(k)' = Accounted(k)
  <2>1. \A u \in Workers : Todo(u)' = Todo(u) BY <1>3, <1>5, HandSame
  <2> QED BY <1>4, <2>1, AccountedSame DEF Taken, BlocksOf
<1>9. Fill'
  <2>1. blk' \in [Workers -> Nat] /\ \A u \in Workers : blk[u] <= blk'[u] BY <1>3 DEF TypeOK
  <2> QED BY <1>3, <1>4, <1>8, <2>1, FillSame DEF SlotInv
<1>10. SameSlot' BY <1>3, <1>4, <1>5, SameSlotKept DEF SlotInv
<1>11. Placing' BY <1>7, PlacingSame DEF SlotInv
<1>12. Sending'
  <2>1. \A k : Waits(k)' <=> Waits(k) BY <1>7, WaitsSame
  <2> QED BY <1>3, <1>4, <2>1, SendingKept DEF SlotInv
<1>13. Window' BY <1>3, <1>4, WindowKept DEF SlotInv
<1>14. Whole'
  <2>1. ASSUME NEW k \in Indices, Open(k)', NEW b \in Taken(k)', \A u \in Workers : b \notin Unwritten(u)'
        PROVE  stage'[slotOf'[Entry(k)]][b - Start(k)] = b
    <3>1. Open(k) /\ slotOf'[Entry(k)] = slotOf[Entry(k)] BY <1>3, <1>4, <2>1 DEF Open, Bound
    <3>2. b \in Taken(k) /\ b \in BlocksOf(k) /\ b \in Nat BY <1>8, <2>1, BlocksFacts DEF Taken
    <3>3. \A u \in Workers : u # w => b \notin Unwritten(u) BY <1>2, <2>1
    <3>4. CASE k = i
      <4>1. b \notin Unwritten(w) => stage[slotOf[Entry(i)]][b - Start(i)] = b
        BY <3>1, <3>2, <3>3, <3>4 DEF Whole, SlotInv
      <4> QED BY <1>2, <1>6, <2>1, <3>1, <3>2, <3>4, <4>1
    <3>5. CASE k # i
      <4>1. b \notin Unwritten(w)
        <5>1. b \in BlocksOf(i) => k = i BY <1>2, <3>2, InStage
        <5> QED BY <1>2, <2>1, <3>2, <3>5, <5>1
      <4>2. stage[slotOf[Entry(k)]][b - Start(k)] = b
        BY <3>1, <3>2, <3>3, <4>1 DEF Whole, SlotInv
      <4>3. slotOf[Entry(k)] # buf[w] BY <1>2, <1>6, <3>1, <3>5, OpenAlone DEF SlotInv
      <4>4. slotOf[Entry(k)] \in Slots BY <3>1, OpenPlace
      <4> QED BY <1>2, <3>1, <4>2, <4>3, <4>4
    <3> QED BY <3>4, <3>5
  <2>2. ASSUME NEW p \in Places, p[1] \in Carriers, At(p)'.slot # -1, NEW b \in BlocksOf(At(p)'.index)
        PROVE  stage'[At(p)'.slot][b - Start(At(p)'.index)] = b
    <3>1. At(p)' = At(p) BY <1>7
    <3>2. stage[At(p).slot][b - Start(At(p).index)] = b BY <2>2, <3>1 DEF Whole, SlotInv
    <3>3. p # <<"fill", Entry(i)>> BY <2>2 DEF Carriers
    <3>4. At(p).slot # buf[w] BY <1>2, <1>6, <3>3, OpenAlone DEF SlotInv
    <3>5. At(p).slot \in Slots
      <4>1. At(p).slot # -1 BY <2>2, <3>1
      <4> QED BY <4>1, AtType
    <3> QED BY <1>2, <3>1, <3>2, <3>4, <3>5
  <2>3. ASSUME NEW r \in armed', NEW b \in BlocksOf(r.index)
        PROVE  stage'[r.slot][b - Start(r.index)] = b
    <3>1. r \in armed /\ r \in WireChunk BY <1>4, <2>3 DEF TypeOK
    <3>2. stage[r.slot][b - Start(r.index)] = b BY <2>3, <3>1 DEF Whole, SlotInv
    <3>3. r.slot # buf[w] BY <1>2, <1>6, <3>1, OpenAlone DEF SlotInv
    <3> QED BY <1>2, <3>1, <3>2, <3>3, WireChunkType
  <2> QED BY <2>1, <2>2, <2>3, WholeParts
<1> QED BY <1>9, <1>10, <1>11, <1>12, <1>13, <1>14 DEF SlotInv

LEMMA CommitStep ==
  ASSUME TypeOK, TypeOK', Chunks, Chunks', Table, SlotInv, NEW w \in Workers, Commit(w)
  PROVE  SlotInv'
<1>1. PICK i : i = StageOf(w) OBVIOUS
<1>2. PICK e : e = Entry(i) OBVIOUS
<1>3. /\ pc[w] = "commit"
      /\ UNCHANGED <<feedVars, slotIndex, slotOf, freeSlots, stage, readyQ, usbVars>>
  BY DEF Commit
<1>4. UNCHANGED <<cursor, upc, nextSend, held, armed>> BY <1>3 DEF feedVars, usbVars
<1>5. /\ i \in Indices /\ i \notin published /\ Bound(i) /\ slotOf[e] = buf[w] /\ Open(i)
  BY <1>1, <1>2, <1>3, CurrentStage DEF SameSlot, SlotInv, Open
<1>6. /\ \A u \in Workers : u # w => Todo(u)' = Todo(u)
      /\ \A u \in Workers : Unwritten(u)' = Unwritten(u)
      /\ Todo(w)' = (blk[w] + Piece(w)) .. (Past(w) - 1)
  BY CommitHands
<1>7. \A k \in Indices : Taken(k)' = Taken(k) BY <1>4 DEF Taken, BlocksOf
<1>8. Fill'
  <2>1. \A k \in Indices : Open(k) /\ k # i => slotOf[Entry(k)] # slotOf[Entry(i)]
    BY <1>5, OpenAlone DEF SlotInv
  <2> QED BY <1>1, <1>5, <2>1, FillCommit DEF SlotInv
<1>9. CASE NextPiece(w) /\ UNCHANGED <<buf, published>>
  <2>1. /\ pc'[w] \in {"acquire", "take"}
        /\ \A u \in Workers : u # w => blk'[u] = blk[u] /\ pc'[u] = pc[u]
    BY <1>3, <1>9, HandNext DEF NextPiece, TypeOK
  <2>2. \A u \in Workers : /\ pc'[u] = "publish" <=> pc[u] = "publish"
                           /\ pc[u] = "publish" => buf'[u] = buf[u] /\ blk'[u] = blk[u]
    BY <1>3, <1>9, <2>1
  <2>3. \A p \in Places : At(p)' = At(p) BY <1>3, <1>4, <1>9, <2>2, Quiet
  <2>4. SameSlot'
    <3>1. \A u \in Workers : pc'[u] \in {"write", "commit"} =>
            pc[u] \in {"write", "commit"} /\ buf'[u] = buf[u] /\ blk'[u] = blk[u]
      BY <1>9, <2>1
    <3> QED BY <1>3, <3>1, SameSlotKept DEF SlotInv
  <2>5. Placing' BY <2>3, PlacingSame DEF SlotInv
  <2>6. Sending'
    <3>1. \A k : Waits(k)' <=> Waits(k) BY <2>3, WaitsSame
    <3> QED BY <1>4, <1>9, <3>1, SendingKept DEF SlotInv
  <2>7. Window' BY <1>3, <1>4, WindowKept DEF SlotInv
  <2>8. Whole'
    <3>1. \A p \in Places : p[1] \in Carriers /\ At(p)'.slot # -1 =>
            \E q \in Places : /\ q[1] \in Carriers /\ At(q).slot = At(p)'.slot
                              /\ At(q).index = At(p)'.index
      BY <2>3
    <3> QED BY <1>3, <1>4, <1>6, <1>7, <1>9, <3>1, WholeKept DEF SlotInv
  <2> QED BY <1>8, <2>4, <2>5, <2>6, <2>7, <2>8 DEF SlotInv
<1>10. CASE /\ pc' = [pc EXCEPT ![w] = "publish"]
            /\ buf' = [buf EXCEPT ![w] = slotOf[e]]
            /\ published' = published \cup {i}
            /\ UNCHANGED <<blk, left>>
  <2>1. /\ pc'[w] = "publish" /\ buf'[w] = slotOf[e]
        /\ \A u \in Workers : u # w => pc'[u] = pc[u] /\ buf'[u] = buf[u] /\ blk'[u] = blk[u]
    BY <1>10 DEF TypeOK
  <2>2. PICK a, b : a = <<"publish", w>> /\ b = <<"fill", e>> OBVIOUS
  <2>3. a \in Places /\ b \in Places /\ a # b /\ a[1] = "publish" /\ b[1] = "fill"
    BY <1>2, <1>5, <2>2, OpenPlace, PlaceIs
  <2>4. At(a) = NoChunk /\ At(a)' = [slot |-> slotOf[e], index |-> i]
    <3>1. At(a) = IF pc[w] = "publish" THEN [slot |-> buf[w], index |-> StageOf(w)] ELSE NoChunk
      BY <2>2, AtForms
    <3>2. At(a)' = IF pc'[w] = "publish" THEN [slot |-> buf'[w], index |-> StageOf(w)'] ELSE NoChunk
      BY <2>2, AtFormsNext
    <3>3. StageOf(w)' = i BY <1>1, <1>10 DEF StageOf
    <3> QED BY <1>3, <2>1, <3>1, <3>2, <3>3
  <2>5. /\ At(b) = [slot |-> slotOf[e], index |-> i] /\ At(b)' = NoChunk
        /\ slotOf[e] \in Slots /\ slotOf[e] # -1
    <3>1. At(b) = [slot |-> slotOf[e], index |-> i] /\ slotOf[e] \in Slots /\ slotOf[e] # -1
      BY <1>2, <1>5, <2>2, OpenPlace
    <3>2. At(b)' = IF slotIndex'[e] \in published' \cup {NoStage} THEN NoChunk
                   ELSE [slot |-> slotOf'[e], index |-> slotIndex'[e]]
      BY <2>2, AtFormsNext
    <3>3. slotIndex'[e] = i BY <1>2, <1>3, <1>5 DEF Bound
    <3> QED BY <1>10, <3>1, <3>2, <3>3
  <2>6. ASSUME NEW p \in Places, p # a, p # b PROVE At(p)' = At(p)
    <3>1. CASE \E d \in Entries : p = <<"fill", d>>
      <4>1. PICK d \in Entries : p = <<"fill", d>> BY <3>1
      <4>2. d # e BY <2>2, <2>6, <4>1
      <4>3. slotIndex[d] # i
        <5> SUFFICES ASSUME slotIndex[d] = i PROVE FALSE OBVIOUS
        <5>1. i # NoStage BY <1>5, WireChunkType
        <5> QED BY <1>2, <4>2, <5>1 DEF Table
      <4>4. At(p) = IF slotIndex[d] \in published \cup {NoStage} THEN NoChunk
                    ELSE [slot |-> slotOf[d], index |-> slotIndex[d]]
        BY <4>1, AtForms
      <4>5. At(p)' = IF slotIndex'[d] \in published' \cup {NoStage} THEN NoChunk
                     ELSE [slot |-> slotOf'[d], index |-> slotIndex'[d]]
        BY <4>1, AtFormsNext
      <4>6. slotIndex'[d] \in published' \cup {NoStage} <=> slotIndex[d] \in published \cup {NoStage}
        BY <1>3, <1>10, <4>3
      <4> QED BY <1>3, <4>4, <4>5, <4>6
    <3>2. CASE \E u \in Workers : p = <<"publish", u>>
      <4>1. PICK u \in Workers : p = <<"publish", u>> BY <3>2
      <4>2. u # w BY <2>2, <2>6, <4>1
      <4> QED BY <2>1, <4>1, <4>2, AtKinds
    <3>3. CASE \E s \in Slots : p = <<"free", s>> BY <1>3, <3>3, AtKinds
    <3>4. CASE \E k \in 1 .. StageCount : p = <<"ready", k>> BY <1>3, <3>4, AtKinds
    <3>5. CASE \E h \in Slots : p = <<"held", h>> BY <1>4, <3>5, AtKinds
    <3>6. CASE \E r \in WireChunk : p = <<"armed", r>> BY <1>4, <3>6, AtKinds
    <3> QED BY <3>1, <3>2, <3>3, <3>4, <3>5, <3>6, PlaceCases
  <2>7. /\ At(a)'.slot = slotOf[e] /\ At(a)'.index = i
        /\ At(b).slot = slotOf[e] /\ At(b).index = i
    BY <2>4, <2>5
  <2>8. Placing' BY <2>3, <2>4, <2>5, <2>6, <2>7, Moved DEF SlotInv
  <2>9. \A k \in Indices : Waits(k)' <=> Waits(k) \/ k = i
    BY <2>3, <2>4, <2>5, <2>6, <2>7, WaitsMoved
  <2>10. SameSlot'
    <3>1. \A u \in Workers : pc'[u] \in {"write", "commit"} =>
            pc[u] \in {"write", "commit"} /\ buf'[u] = buf[u] /\ blk'[u] = blk[u]
      BY <2>1
    <3> QED BY <1>3, <3>1, SameSlotKept DEF SlotInv
  <2>11. Sending'
    <3>1. nextSend \in Nat /\ i \in Nat BY <1>5, BlocksFacts DEF TypeOK
    <3>2. i >= nextSend BY <1>5, <3>1 DEF Sending, SlotInv
    <3>3. \A k \in Indices : Waits(k)' <=> k \in published' /\ k >= nextSend'
      BY <1>4, <1>10, <2>9, <3>2 DEF Sending, SlotInv
    <3>4. \A k \in Indices : k < nextSend' => k \in published' BY <1>4, <1>10 DEF Sending, SlotInv
    <3>5. /\ \A h \in Slots : held'[h] # NoChunk => h = held'[h].index % StageCount
          /\ upc' = "poll" => \A h \in Slots : held'[h].index # nextSend'
      BY <1>4 DEF Sending, SlotInv
    <3> QED BY <3>3, <3>4, <3>5 DEF Sending
  <2>12. Window' BY <1>3, <1>4, WindowKept DEF SlotInv
  <2>13. Whole'
    <3>1. ASSUME NEW k \in Indices, Open(k)', NEW x \in Taken(k)', \A u \in Workers : x \notin Unwritten(u)'
          PROVE  stage'[slotOf'[Entry(k)]][x - Start(k)] = x
      <4>1. Open(k) /\ slotOf'[Entry(k)] = slotOf[Entry(k)] BY <1>3, <1>10, <3>1 DEF Open, Bound
      <4>2. x \in Taken(k) /\ \A u \in Workers : x \notin Unwritten(u) BY <1>6, <1>7, <3>1
      <4> QED BY <1>3, <4>1, <4>2 DEF Whole, SlotInv
    <3>2. ASSUME NEW x \in BlocksOf(i) PROVE stage[slotOf[e]][x - Start(i)] = x
      <4>1. x \in Accounted(i)' /\ x \in Nat BY <1>5, <1>8, <1>10, BlocksFacts DEF Fill
      <4>2. x \in Taken(i)' /\ \A u \in Workers : x \notin Todo(u)' BY <4>1 DEF Accounted
      <4>3. ASSUME NEW u \in Workers PROVE x \notin Unwritten(u)
        <5>1. CASE u = w
          <6>1. Unwritten(w) = (blk[w] + Piece(w)) .. (Past(w) - 1) BY <1>3 DEF Unwritten, FirstBlank
          <6> QED BY <1>6, <4>2, <5>1, <6>1
        <5>2. CASE u # w
          <6>1. x \notin Todo(u) BY <1>6, <4>2, <5>2
          <6>2. First(u) \in Nat /\ FirstBlank(u) \in Nat /\ First(u) <= FirstBlank(u)
            BY HandFacts
          <6>3. /\ x \in Todo(u) <=> First(u) <= x /\ x < Past(u)
                /\ x \in Unwritten(u) <=> FirstBlank(u) <= x /\ x < Past(u)
            BY <4>1, HandFacts
          <6> QED BY <4>1, <6>1, <6>2, <6>3
        <5> QED BY <5>1, <5>2
      <4> QED BY <1>2, <1>5, <1>7, <4>2, <4>3 DEF Whole, SlotInv
    <3>3. ASSUME NEW p \in Places, p[1] \in Carriers, At(p)'.slot # -1, NEW x \in BlocksOf(At(p)'.index)
          PROVE  stage'[At(p)'.slot][x - Start(At(p)'.index)] = x
      <4>1. CASE p = a
        <5>1. At(p)'.slot = slotOf[e] /\ At(p)'.index = i BY <2>7, <4>1
        <5> QED BY <1>3, <3>2, <3>3, <5>1
      <4>2. CASE p # a
        <5>1. p # b BY <2>3, <3>3 DEF Carriers
        <5>2. At(p)' = At(p) BY <2>6, <4>2, <5>1
        <5> QED BY <1>3, <3>3, <5>2 DEF Whole, SlotInv
      <4> QED BY <4>1, <4>2
    <3>4. \A r \in armed' : \A x \in BlocksOf(r.index) : stage'[r.slot][x - Start(r.index)] = x
      BY <1>3, <1>4 DEF Whole, SlotInv
    <3> QED BY <3>1, <3>3, <3>4, WholeParts
  <2> QED BY <1>8, <2>8, <2>10, <2>11, <2>12, <2>13 DEF SlotInv
<1> QED BY <1>1, <1>2, <1>9, <1>10 DEF Commit

\* The queue with one more stage.
LEMMA QueueGrown ==
  ASSUME TypeOK, NEW w \in Workers, Publish(w), NEW n, n = Len(readyQ) + 1
  PROVE  /\ Len(readyQ) \in Nat /\ n \in 1 .. StageCount /\ Len(readyQ') = n
         /\ readyQ'[n] = [slot |-> buf[w], index |-> StageOf(w)]
         /\ \A k \in 1 .. Len(readyQ) : readyQ'[k] = readyQ[k]
<1>1. readyQ \in Seq(WireChunk) /\ Len(readyQ) < StageCount BY DEF TypeOK, Publish
<1>2. PICK r : /\ r = [slot |-> buf[w], index |-> StageOf(w)]
               /\ readyQ' = Append(readyQ, r)
  BY DEF Publish
<1>3. Len(readyQ) \in Nat BY <1>1, LenProperties
<1>4. /\ Len(Append(readyQ, r)) = Len(readyQ) + 1
      /\ Append(readyQ, r)[Len(readyQ) + 1] = r
      /\ \A k \in 1 .. Len(readyQ) : Append(readyQ, r)[k] = readyQ[k]
  BY <1>1, <1>3, AppendProperties
<1> QED BY <1>1, <1>2, <1>3, <1>4, Constants

LEMMA PublishStep ==
  ASSUME TypeOK, TypeOK', Chunks, Chunks', SlotInv, NEW w \in Workers, Publish(w)
  PROVE  SlotInv'
<1>1. PICK i, n : i = StageOf(w) /\ n = Len(readyQ) + 1 OBVIOUS
<1>2. /\ pc[w] = "publish" /\ NextPiece(w)
      /\ UNCHANGED <<feedVars, buf, tableVars, stage, usbVars, published>>
  BY DEF Publish
<1>3. UNCHANGED <<slotIndex, slotOf, freeSlots, filled, upc, nextSend, held, armed, cursor>>
  BY <1>2 DEF tableVars, usbVars, feedVars
<1>4. /\ Len(readyQ) \in Nat /\ n \in 1 .. StageCount /\ Len(readyQ') = n
      /\ readyQ'[n] = [slot |-> buf[w], index |-> i]
      /\ \A k \in 1 .. Len(readyQ) : readyQ'[k] = readyQ[k]
  BY <1>1, QueueGrown
<1>5. /\ pc'[w] \in {"acquire", "take"}
      /\ \A u \in Workers : u # w => blk'[u] = blk[u] /\ left'[u] = left[u] /\ pc'[u] = pc[u]
      /\ blk'[w] = blk[w] + Piece(w) /\ Unwritten(w)' = Unwritten(w)
      /\ Todo(w)' = (blk[w] + Piece(w)) .. (Past(w) - 1)
  BY <1>2, HandNext DEF NextPiece, TypeOK
<1>6. /\ i \in Indices /\ Start(i) \in Nat /\ blk[w] \in Nat /\ Piece(w) \in Nat
      /\ blk[w] + Piece(w) <= Start(i) + StageBlocks
  BY <1>1, <1>2, PieceFacts DEF Chunks, Busy
<1>7. First(w) = blk[w] + Piece(w) BY <1>2 DEF First
<1>8. \A u \in Workers : Todo(u)' = Todo(u) /\ Unwritten(u)' = Unwritten(u)
  <2>1. Todo(w)' = Todo(w) BY <1>5, <1>7 DEF Todo
  <2>2. \A u \in Workers : u # w => Todo(u)' = Todo(u) /\ Unwritten(u)' = Unwritten(u)
    BY <1>5, HandSame
  <2> QED BY <1>5, <2>1, <2>2
<1>9. \A k \in Indices : Taken(k)' = Taken(k) /\ Accounted(k)' = Accounted(k)
  BY <1>3, <1>8, AccountedSame DEF Taken, BlocksOf
<1>10. Fill'
  <2>1. \A u \in Workers : blk[u] <= blk'[u]
    <3>1. \A u \in Workers : blk[u] \in Nat BY DEF TypeOK
    <3> QED BY <1>5, <1>6, <3>1
  <2> QED BY <1>2, <1>3, <1>9, <2>1, FillSame DEF SlotInv, TypeOK
<1>11. SameSlot'
  <2>1. \A u \in Workers : pc'[u] \in {"write", "commit"} =>
          pc[u] \in {"write", "commit"} /\ buf'[u] = buf[u] /\ blk'[u] = blk[u]
    BY <1>2, <1>5
  <2> QED BY <1>3, <2>1, SameSlotKept DEF SlotInv
<1>12. PICK a, b : a = <<"ready", n>> /\ b = <<"publish", w>> OBVIOUS
<1>13. /\ a \in Places /\ b \in Places /\ a # b /\ a[1] = "ready" /\ b[1] = "publish"
  BY <1>4, <1>12, PlaceIs
<1>14. /\ At(a) = NoChunk /\ At(a)' = [slot |-> buf[w], index |-> i]
       /\ At(b) = [slot |-> buf[w], index |-> i] /\ At(b)' = NoChunk
  <2>1. At(a) = IF n <= Len(readyQ) THEN readyQ[n] ELSE NoChunk BY <1>12, AtForms
  <2>2. ~(n <= Len(readyQ)) /\ n <= Len(readyQ') BY <1>1, <1>4
  <2>3. At(a)' = IF n <= Len(readyQ') THEN readyQ'[n] ELSE NoChunk BY <1>12, AtFormsNext
  <2>4. At(b) = IF pc[w] = "publish" THEN [slot |-> buf[w], index |-> StageOf(w)] ELSE NoChunk
    BY <1>12, AtForms
  <2>5. At(b)' = IF pc'[w] = "publish" THEN [slot |-> buf'[w], index |-> StageOf(w)'] ELSE NoChunk
    BY <1>12, AtFormsNext
  <2>6. pc'[w] # "publish" BY <1>5
  <2> QED BY <1>1, <1>2, <1>4, <2>1, <2>2, <2>3, <2>4, <2>5, <2>6
<1>15. ASSUME NEW p \in Places, p # a, p # b PROVE At(p)' = At(p)
  <2>1. CASE \E k \in 1 .. StageCount : p = <<"ready", k>>
    <3>1. PICK k \in 1 .. StageCount : p = <<"ready", k>> BY <2>1
    <3>2. k # n BY <1>12, <1>15, <3>1
    <3>3. At(p) = IF k <= Len(readyQ) THEN readyQ[k] ELSE NoChunk BY <3>1, AtForms
    <3>4. At(p)' = IF k <= Len(readyQ') THEN readyQ'[k] ELSE NoChunk BY <3>1, AtFormsNext
    <3>5. k <= Len(readyQ) <=> k <= Len(readyQ') BY <1>1, <1>4, <3>2
    <3>6. k <= Len(readyQ) => readyQ'[k] = readyQ[k] BY <1>4
    <3> QED BY <3>3, <3>4, <3>5, <3>6
  <2>2. CASE \E u \in Workers : p = <<"publish", u>>
    <3>1. PICK u \in Workers : p = <<"publish", u>> BY <2>2
    <3>2. u # w BY <1>12, <1>15, <3>1
    <3> QED BY <1>2, <1>5, <3>1, <3>2, AtKinds
  <2>3. CASE \E s \in Slots : p = <<"free", s>> BY <1>3, <2>3, AtKinds
  <2>4. CASE \E e \in Entries : p = <<"fill", e>> BY <1>2, <1>3, <2>4, AtKinds
  <2>5. CASE \E h \in Slots : p = <<"held", h>> BY <1>3, <2>5, AtKinds
  <2>6. CASE \E r \in WireChunk : p = <<"armed", r>> BY <1>3, <2>6, AtKinds
  <2> QED BY <2>1, <2>2, <2>3, <2>4, <2>5, <2>6, PlaceCases
<1>16. /\ At(a)'.slot = buf[w] /\ At(a)'.index = i /\ At(b).slot = buf[w] /\ At(b).index = i
  BY <1>14
<1>17. buf[w] # -1 BY WireChunkType DEF TypeOK
<1>18. Placing' BY <1>13, <1>14, <1>15, <1>16, <1>17, Moved DEF SlotInv
<1>19. \A k \in Indices : Waits(k)' <=> Waits(k)
  BY <1>13, <1>14, <1>15, <1>16, WaitsMoved
<1>20. Sending' BY <1>2, <1>3, <1>19, SendingKept DEF SlotInv
<1>21. Window'
  <2>1. ASSUME NEW k \in 1 .. n PROVE Before(k)' = Before(k)
    <3>1. \A m \in 1 .. k - 1 : readyQ'[m] = readyQ[m] BY <1>1, <1>4
    <3> QED BY <1>3, <3>1 DEF Before
  <2>2. ASSUME NEW k \in 1 .. n, NEW x \in Before(k), NEW y \in Before(k), readyQ'[k].index < x, x < y
        PROVE  y - x < StageCount
    <3>1. CASE k = n
      <4>1. k \in 1 .. Len(readyQ) + 1 BY <1>1
      <4>2. x \in Indices /\ y \in Indices /\ Waits(x) /\ Waits(y) BY <2>2, <4>1, BeforeWaits
      <4>3. readyQ'[n].index = i BY <1>4
      <4>4. i < x /\ i \in Nat /\ x \in Nat /\ Start(x) \in Nat BY <1>6, <2>2, <3>1, <4>2, <4>3, BlocksFacts
      <4>5. Start(i) + StageBlocks <= Start(x) BY <4>4, StartType
      <4>6. First(w) <= Start(x) BY <1>6, <1>7, <4>4, <4>5, Constants
      <4>7. x \in published BY <4>2 DEF Sending, SlotInv
      <4>8. Past(w) <= Start(x) BY <4>2, <4>6, <4>7, Behind DEF SlotInv
      <4> QED BY <2>2, <4>2, <4>8, Close DEF SlotInv
    <3>2. CASE k # n
      <4>1. k \in 1 .. Len(readyQ) BY <1>1, <1>4, <3>2
      <4>2. readyQ'[k] = readyQ[k] BY <1>4, <4>1
      <4> QED BY <2>2, <4>1, <4>2 DEF Window, SlotInv
    <3> QED BY <3>1, <3>2
  <2> QED BY <1>4, <2>1, <2>2 DEF Window
<1>22. Whole'
  <2>1. ASSUME NEW p \in Places, p[1] \in Carriers, At(p)'.slot # -1
        PROVE  \E q \in Places : /\ q[1] \in Carriers /\ At(q).slot = At(p)'.slot
                                 /\ At(q).index = At(p)'.index
    <3>1. CASE p = a
      <4>1. b[1] \in Carriers BY <1>13 DEF Carriers
      <4> QED BY <1>13, <1>16, <3>1, <4>1
    <3>2. CASE p = b BY <1>14, <2>1, <3>2, WireChunkType
    <3>3. CASE p # a /\ p # b BY <1>15, <2>1, <3>3
    <3> QED BY <3>1, <3>2, <3>3
  <2> QED BY <1>2, <1>3, <1>8, <1>9, <2>1, WholeKept DEF SlotInv
<1> QED BY <1>10, <1>11, <1>18, <1>20, <1>21, <1>22 DEF SlotInv

---------------------------------------------------------------------------
(* The consumer.                                                           *)

\* What usbTask and the end of a transfer leave alone.
LEMMA ConsumerKeeps ==
  ASSUME TypeOK, TypeOK', SlotInv,
         UNCHANGED <<cursor, pc, blk, left, buf, slotIndex, slotOf, filled, stage, published>>
  PROVE  /\ Fill' /\ SameSlot'
         /\ \A i \in Indices : Taken(i)' = Taken(i)
         /\ \A u \in Workers : Unwritten(u)' = Unwritten(u)
         /\ \A p \in Places : p[1] \in {"fill", "publish"} => At(p)' = At(p)
<1>1. /\ \A i \in Indices : Accounted(i)' = Accounted(i) /\ Taken(i)' = Taken(i)
      /\ \A u \in Workers : Unwritten(u)' = Unwritten(u)
  BY StillHands
<1>2. Fill'
  <2>1. \A u \in Workers : blk[u] <= blk'[u] BY DEF TypeOK
  <2> QED BY <1>1, <2>1, FillSame DEF SlotInv, TypeOK
<1>3. SameSlot' BY SameSlotKept DEF SlotInv
<1>4. ASSUME NEW p \in Places, p[1] \in {"fill", "publish"} PROVE At(p)' = At(p)
  <2>1. CASE \E e \in Entries : p = <<"fill", e>> BY <2>1, AtKinds
  <2>2. CASE \E u \in Workers : p = <<"publish", u>> BY <2>2, AtKinds
  <2> QED BY <1>4, <2>1, <2>2, PlaceCases
<1> QED BY <1>1, <1>2, <1>3, <1>4

\* What is in the queue afterwards was there before, one place behind.
LEMMA QueueMoves ==
  ASSUME TypeOK, readyQ # <<>>, readyQ' = Tail(readyQ), NEW p \in Places, p[1] = "ready",
         At(p)'.slot # -1
  PROVE  \E q \in Places : q[1] = "ready" /\ At(q) = At(p)'
<1>1. PICK k \in 1 .. StageCount : p = <<"ready", k>> BY PlaceCases
<1>2. k < Len(readyQ)
  <2>1. k >= Len(readyQ) => At(p)' = NoChunk BY <1>1, QueueTail
  <2>2. Len(readyQ) \in Nat BY QueueTail
  <2> QED BY <2>1, <2>2, WireChunkType
<1>3. k + 1 \in 1 .. StageCount /\ At(p)' = At(<<"ready", k + 1>>) BY <1>1, <1>2, QueueTail
<1>4. <<"ready", k + 1>> \in Places /\ <<"ready", k + 1>>[1] = "ready" BY <1>3, PlaceIs
<1> QED BY <1>3, <1>4

LEMMA WindowShift ==
  ASSUME TypeOK, Window, readyQ # <<>>, readyQ' = Tail(readyQ),
         \A h \in Slots : held'[h] \in {NoChunk, held[h], readyQ[1]}
  PROVE  Window'
<1>1. /\ Len(readyQ') = Len(readyQ) - 1 /\ Len(readyQ) \in Nat /\ Len(readyQ) > 0
      /\ \A k \in 1 .. Len(readyQ) - 1 : readyQ'[k] = readyQ[k + 1]
  BY HeadFacts
<1>2. ASSUME NEW k \in 1 .. Len(readyQ) - 1, NEW x \in Before(k)' PROVE x \in Before(k + 1)
  <2>0. /\ Before(k)' = {held'[h].index : h \in {g \in Slots : held'[g] # NoChunk}}
                         \cup {readyQ'[m].index : m \in 1 .. k - 1}
        /\ Before(k + 1) = {held[h].index : h \in {g \in Slots : held[g] # NoChunk}}
                           \cup {readyQ[m].index : m \in 1 .. k + 1 - 1}
    BY DEF Before
  <2>1. CASE \E h \in Slots : held'[h] # NoChunk /\ x = held'[h].index
    <3>1. PICK h \in Slots : held'[h] # NoChunk /\ x = held'[h].index BY <2>1
    <3>2. CASE held'[h] = held[h] BY <2>0, <3>1, <3>2
    <3>3. CASE held'[h] = readyQ[1]
      <4>1. 1 \in 1 .. k + 1 - 1 OBVIOUS
      <4> QED BY <2>0, <3>1, <3>3, <4>1
    <3> QED BY <3>1, <3>2, <3>3
  <2>2. CASE \E m \in 1 .. k - 1 : x = readyQ'[m].index
    <3>1. PICK m \in 1 .. k - 1 : x = readyQ'[m].index BY <2>2
    <3>2. m \in 1 .. Len(readyQ) - 1 /\ m + 1 \in 1 .. k + 1 - 1 BY <1>1
    <3>3. x = readyQ[m + 1].index BY <1>1, <3>1, <3>2
    <3> QED BY <2>0, <3>2, <3>3
  <2> QED BY <1>2, <2>0, <2>1, <2>2
<1>3. ASSUME NEW k \in 1 .. Len(readyQ'), NEW x \in Before(k)', NEW y \in Before(k)',
             readyQ'[k].index < x, x < y
      PROVE  y - x < StageCount
  <2>1. k \in 1 .. Len(readyQ) - 1 /\ k + 1 \in 1 .. Len(readyQ) BY <1>1
  <2>2. x \in Before(k + 1) /\ y \in Before(k + 1) BY <1>2, <1>3, <2>1
  <2>3. readyQ'[k] = readyQ[k + 1] BY <1>1, <2>1
  <2> QED BY <1>3, <2>1, <2>2, <2>3 DEF Window
<1> QED BY <1>3 DEF Window

LEMMA ReceiveStep ==
  ASSUME TypeOK, TypeOK', Chunks, Chunks', SlotInv, UsbReceive
  PROVE  SlotInv'
<1>1. PICK r : r = readyQ[1] OBVIOUS
<1>2. /\ readyQ # <<>> /\ r.index = nextSend /\ Dispatch(r) /\ readyQ' = Tail(readyQ)
      /\ nextSend' = nextSend + 1 /\ upc' = "drain"
      /\ UNCHANGED <<feedVars, workVars, slotIndex, slotOf, filled, stage, held, published>>
  BY <1>1, HeadFacts DEF UsbReceive
<1>3. UNCHANGED <<cursor, pc, blk, left, buf, slotIndex, slotOf, filled, stage, published>>
  BY <1>2 DEF feedVars, workVars
<1>4. r \in WireChunk /\ r.slot \in Slots /\ r.slot # -1 /\ r.index \in Indices
  BY <1>1, <1>2, HeadFacts, WireChunkType
<1>5. PICK b : b = <<"ready", 1>> OBVIOUS
<1>6. b \in Places /\ b[1] = "ready" /\ At(b) = r /\ Len(readyQ) > 0
  <2>1. At(b) = r /\ Len(readyQ) > 0 BY <1>1, <1>2, <1>5, QueueTail
  <2>2. 1 \in 1 .. StageCount BY Constants
  <2> QED BY <1>5, <2>1, <2>2, PlaceIs
<1>7. PICK a \in Places :
        /\ a[1] \in {"free", "armed"} /\ At(a) = NoChunk
        /\ At(a)'.slot = r.slot /\ At(a)'.index = NoStage
        /\ \A p \in Places : p[1] \in {"free", "armed"} /\ p # a => At(p)' = At(p)
  BY <1>2, <1>4, <1>6, Dispatched DEF SlotInv
<1>8. /\ Fill' /\ SameSlot'
      /\ \A i \in Indices : Taken(i)' = Taken(i)
      /\ \A u \in Workers : Unwritten(u)' = Unwritten(u)
      /\ \A p \in Places : p[1] \in {"fill", "publish"} => At(p)' = At(p)
  BY <1>3, ConsumerKeeps
<1>9. \A p \in Places : p[1] = "held" => At(p)' = At(p) BY <1>2, AtKinds, PlaceCases
<1>10. \A p \in Places : p[1] # "ready" /\ p # a => At(p)' = At(p)
  <2>1. \A p \in Places : p[1] \in {"free", "fill", "publish", "ready", "held", "armed"}
    BY PlaceCases
  <2> QED BY <1>7, <1>8, <1>9, <2>1
<1>11. /\ Placing'
       /\ \A i \in Indices : Waits(i)' <=> Waits(i) /\ i # nextSend
  <2>1. a[1] \notin {"ready", "fill"} BY <1>7
  <2> QED BY <1>1, <1>2, <1>7, <1>10, <2>1, Shifted DEF SlotInv
<1>12. Sending'
  <2>1. nextSend \in Nat /\ nextSend \in Indices BY <1>2, <1>4 DEF TypeOK
  <2>2. nextSend \in published
    <3>1. Waits(nextSend) BY <1>2, <1>6 DEF Waits
    <3> QED BY <2>1, <3>1 DEF Sending, SlotInv
  <2>3. ASSUME NEW i \in Indices
        PROVE  /\ Waits(i)' <=> i \in published' /\ i >= nextSend'
               /\ i < nextSend' => i \in published'
    <3>1. i \in Nat BY BlocksFacts
    <3>2. i >= nextSend' <=> i >= nextSend /\ i # nextSend BY <1>2, <2>1, <3>1
    <3>3. i < nextSend' <=> i < nextSend \/ i = nextSend BY <1>2, <2>1, <3>1
    <3> QED BY <1>2, <1>11, <2>2, <3>2, <3>3 DEF Sending, SlotInv
  <2>4. \A h \in Slots : held'[h] # NoChunk => h = held'[h].index % StageCount
    BY <1>2 DEF Sending, SlotInv
  <2> QED BY <1>2, <2>3, <2>4 DEF Sending
<1>13. Window' BY <1>2, WindowShift DEF SlotInv
<1>14. Whole'
  <2>1. ASSUME NEW p \in Places, p[1] \in Carriers, At(p)'.slot # -1
        PROVE  \E q \in Places : /\ q[1] \in Carriers /\ At(q).slot = At(p)'.slot
                                 /\ At(q).index = At(p)'.index
    <3>1. CASE p[1] = "ready"
      <4>1. PICK q \in Places : q[1] = "ready" /\ At(q) = At(p)' BY <1>2, <2>1, <3>1, QueueMoves
      <4> QED BY <4>1 DEF Carriers
    <3>2. CASE p[1] # "ready"
      <4>1. p # a BY <1>7, <2>1 DEF Carriers
      <4> QED BY <1>10, <2>1, <3>2, <4>1
    <3> QED BY <3>1, <3>2
  <2>2. ASSUME NEW x \in armed'
        PROVE  x \in armed \/ \E q \in Places : q[1] \in Carriers /\ At(q) = x /\ x.slot # -1
    <3>1. x \in armed \/ x = r BY <1>2, <2>2 DEF Dispatch
    <3>2. b[1] \in Carriers BY <1>6 DEF Carriers
    <3> QED BY <1>4, <1>6, <3>1, <3>2
  <2> QED BY <1>3, <1>8, <2>1, <2>2, WholeKept DEF SlotInv
<1> QED BY <1>8, <1>11, <1>12, <1>13, <1>14 DEF SlotInv

LEMMA HoldStep ==
  ASSUME TypeOK, TypeOK', Chunks, Chunks', SlotInv, UsbHold
  PROVE  SlotInv'
<1>1. PICK r, h : r = readyQ[1] /\ h = r.index % StageCount OBVIOUS
<1>2. /\ readyQ # <<>> /\ upc = "poll" /\ r.index # nextSend /\ readyQ' = Tail(readyQ)
      /\ held' = [held EXCEPT ![h] = r]
      /\ UNCHANGED <<feedVars, workVars, tableVars, stage, upc, nextSend, armed, published>>
  BY <1>1, HeadFacts DEF UsbHold
<1>3. UNCHANGED <<cursor, pc, blk, left, buf, slotIndex, slotOf, freeSlots, filled, stage, published>>
  BY <1>2 DEF feedVars, workVars, tableVars
<1>4. r \in WireChunk /\ r.slot \in Slots /\ r.slot # -1 /\ r.index \in Indices /\ r # NoChunk
  BY <1>1, <1>2, HeadFacts, WireChunkType
<1>5. h \in Slots /\ held[h] = NoChunk BY <1>1, <1>2, HeldFree DEF SlotInv
<1>6. held'[h] = r /\ \A g \in Slots : g # h => held'[g] = held[g] BY <1>2, <1>5 DEF TypeOK
<1>7. PICK a, b : a = <<"held", h>> /\ b = <<"ready", 1>> OBVIOUS
<1>8. /\ a \in Places /\ a[1] = "held" /\ At(a) = NoChunk /\ At(a)' = r
      /\ b \in Places /\ b[1] = "ready" /\ At(b) = r
  <2>1. At(a) = NoChunk /\ At(a)' = r BY <1>5, <1>6, <1>7, AtForms, AtFormsNext
  <2>2. At(b) = r BY <1>1, <1>2, <1>7, QueueTail
  <2>3. 1 \in 1 .. StageCount BY Constants
  <2> QED BY <1>5, <1>7, <2>1, <2>2, <2>3, PlaceIs
<1>9. /\ Fill' /\ SameSlot'
      /\ \A i \in Indices : Taken(i)' = Taken(i)
      /\ \A u \in Workers : Unwritten(u)' = Unwritten(u)
      /\ \A p \in Places : p[1] \in {"fill", "publish"} => At(p)' = At(p)
  BY <1>3, ConsumerKeeps
<1>10. ASSUME NEW p \in Places, p[1] # "ready", p # a PROVE At(p)' = At(p)
  <2>1. CASE \E g \in Slots : p = <<"held", g>>
    <3>1. PICK g \in Slots : p = <<"held", g>> BY <2>1
    <3>2. g # h BY <1>7, <1>10, <3>1
    <3> QED BY <1>6, <3>1, <3>2, AtForms, AtFormsNext
  <2>2. CASE \E s \in Slots : p = <<"free", s>> BY <1>3, <2>2, AtKinds
  <2>3. CASE \E x \in WireChunk : p = <<"armed", x>> BY <1>2, <2>3, AtKinds
  <2>4. CASE p[1] \in {"fill", "publish"} BY <1>9, <2>4
  <2> QED BY <1>10, <2>1, <2>2, <2>3, <2>4, PlaceCases
<1>11. /\ Placing'
       /\ \A i \in Indices : Waits(i)' <=> Waits(i)
  <2>1. a[1] \notin {"ready", "fill"} /\ At(a)'.slot = r.slot /\ At(a)'.index = r.index BY <1>8
  <2>2. At(a)'.index # NoStage BY <1>4, <2>1, WireChunkType
  <2> QED BY <1>1, <1>2, <1>8, <1>10, <2>1, <2>2, Shifted DEF SlotInv
<1>12. Sending'
  <2>1. \A i \in Indices : Waits(i)' <=> i \in published' /\ i >= nextSend'
    BY <1>2, <1>11 DEF Sending, SlotInv
  <2>2. \A i \in Indices : i < nextSend' => i \in published' BY <1>2 DEF Sending, SlotInv
  <2>3. \A g \in Slots : held'[g] # NoChunk => g = held'[g].index % StageCount
    BY <1>1, <1>6 DEF Sending, SlotInv
  <2>4. \A g \in Slots : held'[g].index # nextSend' BY <1>2, <1>6 DEF Sending, SlotInv
  <2> QED BY <2>1, <2>2, <2>3, <2>4 DEF Sending
<1>13. Window'
  <2>1. \A g \in Slots : held'[g] \in {NoChunk, held[g], readyQ[1]} BY <1>1, <1>6
  <2> QED BY <1>2, <2>1, WindowShift DEF SlotInv
<1>14. Whole'
  <2>1. ASSUME NEW p \in Places, p[1] \in Carriers, At(p)'.slot # -1
        PROVE  \E q \in Places : /\ q[1] \in Carriers /\ At(q).slot = At(p)'.slot
                                 /\ At(q).index = At(p)'.index
    <3>1. CASE p[1] = "ready"
      <4>1. PICK q \in Places : q[1] = "ready" /\ At(q) = At(p)' BY <1>2, <2>1, <3>1, QueueMoves
      <4> QED BY <4>1 DEF Carriers
    <3>2. CASE p = a BY <1>8, <3>2 DEF Carriers
    <3>3. CASE p[1] # "ready" /\ p # a BY <1>10, <2>1, <3>3
    <3> QED BY <3>1, <3>2, <3>3
  <2> QED BY <1>2, <1>3, <1>9, <2>1, WholeKept DEF SlotInv
<1> QED BY <1>9, <1>11, <1>12, <1>13, <1>14 DEF SlotInv

LEMMA DrainStep ==
  ASSUME TypeOK, TypeOK', Chunks, Chunks', SlotInv, UsbDrain
  PROVE  SlotInv'
<1>1. PICK h, r : h = nextSend % StageCount /\ r = held[h] OBVIOUS
<1>2. nextSend \in Nat /\ h \in Slots BY <1>1, PlaceType DEF TypeOK
<1>3. /\ upc = "drain"
      /\ UNCHANGED <<feedVars, workVars, slotIndex, slotOf, filled, stage, readyQ, published>>
  BY DEF UsbDrain
<1>4. UNCHANGED <<cursor, pc, blk, left, buf, slotIndex, slotOf, filled, stage, published>>
  BY <1>3 DEF feedVars, workVars
<1>5. CASE (r = NoChunk \/ r.index # nextSend) /\ UNCHANGED <<nextSend, held, armed, freeSlots>>
  <2>1. \A g \in Slots : held[g].index # nextSend
    <3> SUFFICES ASSUME NEW g \in Slots, held[g].index = nextSend PROVE FALSE OBVIOUS
    <3>1. held[g] # NoChunk BY <1>2 DEF NoStage, NoChunk
    <3>2. g = h BY <1>1, <3>1 DEF Sending, SlotInv
    <3> QED BY <1>1, <1>5, <3>1, <3>2
  <2>2. UNCHANGED tableVars BY <1>3, <1>5 DEF tableVars
  <2> QED BY <1>3, <1>4, <1>5, <2>1, <2>2, StillStep
<1>6. CASE /\ r # NoChunk /\ r.index = nextSend /\ Dispatch(r)
           /\ held' = [held EXCEPT ![h] = NoChunk]
           /\ nextSend' = nextSend + 1 /\ upc' = upc
  <2>1. r \in WireChunk BY <1>1, <1>2, <1>6 DEF TypeOK
  <2>2. r.slot \in Slots /\ r.slot # -1 /\ r.index \in Indices BY <2>1, WireChunkType
  <2>3. held'[h] = NoChunk /\ \A g \in Slots : g # h => held'[g] = held[g]
    BY <1>2, <1>6 DEF TypeOK
  <2>4. PICK b : b = <<"held", h>> OBVIOUS
  <2>5. b \in Places /\ b[1] = "held" /\ At(b) = r /\ At(b)' = NoChunk
    BY <1>1, <1>2, <2>3, <2>4, PlaceIs, AtForms, AtFormsNext
  <2>6. PICK a \in Places :
          /\ a[1] \in {"free", "armed"} /\ At(a) = NoChunk
          /\ At(a)'.slot = r.slot /\ At(a)'.index = NoStage
          /\ \A p \in Places : p[1] \in {"free", "armed"} /\ p # a => At(p)' = At(p)
    BY <1>6, <2>1, <2>5, Dispatched DEF SlotInv
  <2>7. /\ Fill' /\ SameSlot'
        /\ \A i \in Indices : Taken(i)' = Taken(i)
        /\ \A u \in Workers : Unwritten(u)' = Unwritten(u)
        /\ \A p \in Places : p[1] \in {"fill", "publish"} => At(p)' = At(p)
    BY <1>4, ConsumerKeeps
  <2>8. ASSUME NEW p \in Places, p # a, p # b PROVE At(p)' = At(p)
    <3>1. CASE \E g \in Slots : p = <<"held", g>>
      <4>1. PICK g \in Slots : p = <<"held", g>> BY <3>1
      <4>2. g # h BY <2>4, <2>8, <4>1
      <4> QED BY <2>3, <4>1, <4>2, AtForms, AtFormsNext
    <3>2. CASE \E k \in 1 .. StageCount : p = <<"ready", k>> BY <1>3, <3>2, AtKinds
    <3>3. CASE p[1] \in {"free", "armed"} BY <2>6, <2>8, <3>3
    <3>4. CASE p[1] \in {"fill", "publish"} BY <2>7, <3>4
    <3> QED BY <3>1, <3>2, <3>3, <3>4, PlaceCases
  <2>9. a # b /\ a[1] # "fill" /\ b[1] # "fill" /\ At(b).slot = r.slot /\ At(b).index = nextSend
    BY <1>6, <2>5, <2>6
  <2>10. Placing'
    <3>1. At(a)'.slot = At(b).slot /\ At(b).slot # -1 /\ At(a)'.index \in {At(b).index, NoStage}
      BY <2>2, <2>6, <2>9
    <3> QED BY <2>5, <2>6, <2>8, <3>1, Moved DEF SlotInv
  <2>11. \A i \in Indices : Waits(i)' <=> Waits(i) /\ i # nextSend
    BY <2>5, <2>6, <2>8, <2>9, WaitsMoved DEF SlotInv
  <2>12. Sending'
    <3>1. nextSend \in Indices BY <1>6, <2>2
    <3>2. nextSend \in published
      <4>1. Waits(nextSend) BY <2>5, <2>9 DEF Waits
      <4> QED BY <3>1, <4>1 DEF Sending, SlotInv
    <3>3. ASSUME NEW i \in Indices
          PROVE  /\ Waits(i)' <=> i \in published' /\ i >= nextSend'
                 /\ i < nextSend' => i \in published'
      <4>1. i \in Nat BY BlocksFacts
      <4>2. i >= nextSend' <=> i >= nextSend /\ i # nextSend BY <1>2, <1>6, <4>1
      <4>3. i < nextSend' <=> i < nextSend \/ i = nextSend BY <1>2, <1>6, <4>1
      <4> QED BY <1>3, <2>11, <3>2, <4>2, <4>3 DEF Sending, SlotInv
    <3>4. \A g \in Slots : held'[g] # NoChunk => g = held'[g].index % StageCount
      BY <2>3 DEF Sending, SlotInv
    <3> QED BY <1>3, <1>6, <3>3, <3>4 DEF Sending
  <2>13. Window'
    <3>1. \A k : Before(k)' \subseteq Before(k)
      <4>1. \A g \in Slots : held'[g] # NoChunk => held[g] # NoChunk /\ held'[g] = held[g] BY <2>3
      <4> QED BY <1>3, <4>1 DEF Before
    <3> QED BY <1>3, <3>1 DEF Window, SlotInv
  <2>14. Whole'
    <3>1. ASSUME NEW p \in Places, p[1] \in Carriers, At(p)'.slot # -1
          PROVE  \E q \in Places : /\ q[1] \in Carriers /\ At(q).slot = At(p)'.slot
                                   /\ At(q).index = At(p)'.index
      <4>1. p # a BY <2>6, <3>1 DEF Carriers
      <4>2. p # b BY <2>5, <3>1, WireChunkType
      <4> QED BY <2>8, <3>1, <4>1, <4>2
    <3>2. ASSUME NEW x \in armed'
          PROVE  x \in armed \/ \E q \in Places : q[1] \in Carriers /\ At(q) = x /\ x.slot # -1
      <4>1. x \in armed \/ x = r BY <1>6, <3>2 DEF Dispatch
      <4>2. b[1] \in Carriers BY <2>5 DEF Carriers
      <4> QED BY <2>2, <2>5, <4>1, <4>2
    <3> QED BY <1>4, <2>7, <3>1, <3>2, WholeKept DEF SlotInv
  <2> QED BY <2>7, <2>10, <2>12, <2>13, <2>14 DEF SlotInv
<1> QED BY <1>1, <1>5, <1>6 DEF UsbDrain

LEMMA CompleteStep ==
  ASSUME TypeOK, TypeOK', Chunks, Chunks', SlotInv, UsbComplete
  PROVE  SlotInv'
<1>1. PICK r \in armed : freeSlots' = freeSlots \cup {r.slot} /\ armed' = armed \ {r}
  BY DEF UsbComplete, Release
<1>2. UNCHANGED <<feedVars, workVars, slotIndex, slotOf, filled, stage, readyQ, upc, nextSend,
                  held, published>>
  BY DEF UsbComplete
<1>3. UNCHANGED <<cursor, pc, blk, left, buf, slotIndex, slotOf, filled, stage, published>>
  BY <1>2 DEF feedVars, workVars
<1>4. r \in WireChunk /\ r.slot \in Slots /\ r.slot # -1 BY WireChunkType DEF TypeOK
<1>5. PICK a, b : a = <<"free", r.slot>> /\ b = <<"armed", r>> OBVIOUS
<1>6. a \in Places /\ a[1] = "free" /\ b \in Places /\ b[1] = "armed" /\ a # b
  BY <1>4, <1>5, PlaceIs
<1>7. At(b) = [slot |-> r.slot, index |-> NoStage] /\ At(b)' = NoChunk
  BY <1>1, <1>5, AtForms, AtFormsNext
<1>8. At(b).slot = r.slot /\ At(b).index = NoStage BY <1>7
<1>9. At(a) = NoChunk /\ At(a)' = [slot |-> r.slot, index |-> NoStage]
  <2>1. At(a) = IF r.slot \in freeSlots THEN [slot |-> r.slot, index |-> NoStage] ELSE NoChunk
    BY <1>5, AtForms
  <2>2. At(a)' = IF r.slot \in freeSlots' THEN [slot |-> r.slot, index |-> NoStage] ELSE NoChunk
    BY <1>5, AtFormsNext
  <2>3. r.slot \notin freeSlots
    <3> SUFFICES ASSUME r.slot \in freeSlots PROVE FALSE OBVIOUS
    <3>1. At(a).slot = r.slot BY <2>1
    <3> QED BY <1>4, <1>6, <1>8, <3>1 DEF Placing, SlotInv
  <2> QED BY <1>1, <2>1, <2>2, <2>3
<1>10. At(a)'.slot = r.slot /\ At(a)'.index = NoStage BY <1>9
<1>11. /\ Fill' /\ SameSlot'
       /\ \A i \in Indices : Taken(i)' = Taken(i)
       /\ \A u \in Workers : Unwritten(u)' = Unwritten(u)
       /\ \A p \in Places : p[1] \in {"fill", "publish"} => At(p)' = At(p)
  BY <1>3, ConsumerKeeps
<1>12. ASSUME NEW p \in Places, p # a, p # b PROVE At(p)' = At(p)
  <2>1. CASE \E s \in Slots : p = <<"free", s>>
    <3>1. PICK s \in Slots : p = <<"free", s>> BY <2>1
    <3>2. s # r.slot BY <1>5, <1>12, <3>1
    <3>3. s \in freeSlots' <=> s \in freeSlots BY <1>1, <3>2
    <3> QED BY <3>1, <3>3, AtForms, AtFormsNext
  <2>2. CASE \E x \in WireChunk : p = <<"armed", x>>
    <3>1. PICK x \in WireChunk : p = <<"armed", x>> BY <2>2
    <3>2. x # r BY <1>5, <1>12, <3>1
    <3>3. x \in armed' <=> x \in armed BY <1>1, <3>2
    <3> QED BY <3>1, <3>3, AtForms, AtFormsNext
  <2>3. CASE \E k \in 1 .. StageCount : p = <<"ready", k>> BY <1>2, <2>3, AtKinds
  <2>4. CASE \E g \in Slots : p = <<"held", g>> BY <1>2, <2>4, AtKinds
  <2>5. CASE p[1] \in {"fill", "publish"} BY <1>11, <2>5
  <2> QED BY <2>1, <2>2, <2>3, <2>4, <2>5, PlaceCases
<1>13. Placing'
  <2>1. At(a)'.slot = At(b).slot /\ At(b).slot # -1 /\ At(a)'.index \in {At(b).index, NoStage}
    BY <1>4, <1>8, <1>10
  <2> QED BY <1>6, <1>7, <1>9, <1>12, <2>1, Moved DEF SlotInv
<1>14. Sending'
  <2>1. \A p \in Places : p[1] # "fill" => At(p)'.index = At(p).index
    <3>1. At(a).index = NoStage /\ At(b)'.index = NoStage BY <1>7, <1>9, WireChunkType
    <3> QED BY <1>8, <1>10, <1>12, <3>1
  <2>2. \A k : Waits(k)' <=> Waits(k) BY <2>1, WaitsIndex
  <2> QED BY <1>2, <2>2, SendingKept DEF SlotInv
<1>15. Window' BY <1>2, WindowKept DEF SlotInv
<1>16. Whole'
  <2>1. ASSUME NEW p \in Places, p[1] \in Carriers, At(p)'.slot # -1
        PROVE  \E q \in Places : /\ q[1] \in Carriers /\ At(q).slot = At(p)'.slot
                                 /\ At(q).index = At(p)'.index
    <3>1. p # a /\ p # b BY <1>6, <2>1 DEF Carriers
    <3> QED BY <1>12, <2>1, <3>1
  <2> QED BY <1>1, <1>3, <1>11, <2>1, WholeKept DEF SlotInv
<1> QED BY <1>11, <1>13, <1>14, <1>15, <1>16 DEF SlotInv

---------------------------------------------------------------------------
(* The invariant.                                                          *)

LEMMA FirstState ==
  ASSUME Init, TypeOK, Chunks
  PROVE  SlotInv
<1>1. /\ cursor = 0 /\ published = {} /\ readyQ = <<>> /\ armed = {} /\ freeSlots = Slots
      /\ upc = "poll" /\ nextSend = 0
      /\ \A w \in Workers : pc[w] = "take"
      /\ \A e \in Entries : slotIndex[e] = NoStage
      /\ \A h \in Slots : held[h] = NoChunk
  BY DEF Init
<1>2. \A i \in Indices : ~Bound(i) /\ ~Open(i)
  <2>1. \A i \in Indices : Entry(i) \in Entries /\ i # NoStage BY WireChunkType, EntryType
  <2> QED BY <1>1, <2>1 DEF Bound, Open
<1>3. \A i \in Indices : Accounted(i) = {} /\ BlocksOf(i) # {}
  <2> SUFFICES ASSUME NEW i \in Indices PROVE Accounted(i) = {} /\ BlocksOf(i) # {} OBVIOUS
  <2>1. Start(i) \in Nat /\ Start(i) \in BlocksOf(i) /\ BlocksOf(i) \subseteq Nat
    BY BlocksFacts
  <2>2. \A b \in BlocksOf(i) : ~(b < cursor) BY <1>1, <2>1
  <2> QED BY <2>1, <2>2 DEF Accounted, Taken
<1>4. Fill BY <1>1, <1>2, <1>3 DEF Fill
<1>5. SameSlot BY <1>1 DEF SameSlot
<1>6. NoChunk.slot = -1 /\ NoChunk.index = NoStage /\ NoStage \notin Indices BY WireChunkType
<1>7. /\ \A s \in Slots : At(<<"free", s>>) = [slot |-> s, index |-> NoStage]
      /\ \A e \in Entries : At(<<"fill", e>>) = NoChunk
      /\ \A w \in Workers : At(<<"publish", w>>) = NoChunk
      /\ \A k \in 1 .. StageCount : At(<<"ready", k>>) = NoChunk
      /\ \A h \in Slots : At(<<"held", h>>) = NoChunk
      /\ \A r \in WireChunk : At(<<"armed", r>>) = NoChunk
  <2>1. \A s \in Slots : At(<<"free", s>>) = [slot |-> s, index |-> NoStage] BY <1>1, AtForms
  <2>2. ASSUME NEW e \in Entries PROVE At(<<"fill", e>>) = NoChunk
    <3>1. At(<<"fill", e>>) = IF slotIndex[e] \in published \cup {NoStage} THEN NoChunk
                              ELSE [slot |-> slotOf[e], index |-> slotIndex[e]]
      BY AtForms
    <3> QED BY <1>1, <3>1
  <2>3. ASSUME NEW w \in Workers PROVE At(<<"publish", w>>) = NoChunk
    <3>1. At(<<"publish", w>>) = IF pc[w] = "publish"
                                 THEN [slot |-> buf[w], index |-> StageOf(w)] ELSE NoChunk
      BY AtForms
    <3> QED BY <1>1, <3>1
  <2>4. ASSUME NEW k \in 1 .. StageCount PROVE At(<<"ready", k>>) = NoChunk
    <3>1. At(<<"ready", k>>) = IF k <= Len(readyQ) THEN readyQ[k] ELSE NoChunk BY AtForms
    <3>2. ~(k <= Len(readyQ)) BY <1>1, Constants
    <3> QED BY <3>1, <3>2
  <2>5. ASSUME NEW h \in Slots PROVE At(<<"held", h>>) = NoChunk
    <3>1. At(<<"held", h>>) = held[h] BY AtForms
    <3> QED BY <1>1, <3>1
  <2>6. ASSUME NEW r \in WireChunk PROVE At(<<"armed", r>>) = NoChunk
    <3>1. At(<<"armed", r>>) = IF r \in armed THEN [slot |-> r.slot, index |-> NoStage] ELSE NoChunk
      BY AtForms
    <3> QED BY <1>1, <3>1
  <2> QED BY <2>1, <2>2, <2>3, <2>4, <2>5, <2>6
\* Only the places of the free list have a slot.
<1>8. ASSUME NEW p \in Places
      PROVE  \/ \E s \in Slots : p = <<"free", s>> /\ At(p).slot = s /\ At(p).index = NoStage
             \/ At(p) = NoChunk /\ p[1] # "free"
  <2>1. CASE \E s \in Slots : p = <<"free", s>>
    <3>1. PICK s \in Slots : p = <<"free", s>> BY <2>1
    <3>2. At(p) = [slot |-> s, index |-> NoStage] BY <1>7, <3>1
    <3>3. At(p).slot = s /\ At(p).index = NoStage BY <3>2
    <3> QED BY <3>1, <3>3
  <2>2. CASE ~\E s \in Slots : p = <<"free", s>>
    <3>1. At(p) = NoChunk BY <1>7, <2>2, PlaceCases
    <3>2. p[1] # "free" BY <2>2, PlaceCases
    <3> QED BY <3>1, <3>2
  <2> QED BY <2>1, <2>2
<1>9. Placing
  <2>1. ASSUME NEW s \in Slots PROVE \E p \in Places : At(p).slot = s
    <3>1. At(<<"free", s>>) = [slot |-> s, index |-> NoStage] /\ <<"free", s>> \in Places
      BY <1>7, PlaceIs
    <3> QED BY <3>1
  <2>2. ASSUME NEW p \in Places, NEW q \in Places, At(p).slot # -1, At(p).slot = At(q).slot
        PROVE  p = q
    <3>1. /\ \E s \in Slots : p = <<"free", s>> /\ At(p).slot = s
          /\ \E s \in Slots : q = <<"free", s>> /\ At(q).slot = s
      BY <1>6, <1>8, <2>2
    <3> QED BY <2>2, <3>1
  <2>3. \A p \in Places : At(p).index = NoStage BY <1>6, <1>8
  <2> QED BY <2>1, <2>2, <2>3 DEF Placing
<1>10. Sending
  <2>1. \A i \in Indices : ~Waits(i) BY <1>6, <1>8 DEF Waits
  <2>2. \A i \in Indices : ~(i < nextSend) BY <1>1, BlocksFacts
  <2>3. NoStage # nextSend BY <1>1 DEF NoStage
  <2> QED BY <1>1, <1>6, <2>1, <2>2, <2>3 DEF Sending
<1>11. Window
  <2>1. 1 .. Len(readyQ) = {} BY <1>1
  <2> QED BY <2>1 DEF Window
<1>12. Whole
  <2>1. ASSUME NEW p \in Places, p[1] \in Carriers PROVE At(p).slot = -1
    <3>1. p[1] # "free" BY <2>1 DEF Carriers
    <3> QED BY <1>6, <1>8, <3>1
  <2> QED BY <1>1, <1>2, <2>1 DEF Whole
<1> QED BY <1>4, <1>5, <1>9, <1>10, <1>11, <1>12 DEF SlotInv

\* No chunk is lost, and usbTask is the consumer.
Normal == lost = 0 /\ ~sinkOnly

IInv == /\ BaseInv
        /\ Normal => SlotInv
        /\ upc = "drain" => ~sinkOnly
        /\ CompleteOrFlagged

\* Every step from a state where no chunk is lost, but the loss of one.
LEMMA SlotStep ==
  ASSUME BaseInv, BaseInv', SlotInv, ~sinkOnly, [Next]_vars, ~LoseChunk
  PROVE  SlotInv'
<1>1. /\ TypeOK /\ TypeOK' /\ Chunks /\ Chunks' /\ Table BY DEF BaseInv
<1>2. CASE SourceStalls \/ CodecFinishes \/ UsbExit \/ UNCHANGED vars BY <1>1, <1>2, StillSteps
<1>3. ASSUME NEW w \in Workers, Worker(w) PROVE SlotInv'
  <2>1. CASE StopWorker(w) \/ AcquireFails(w) \/ GiveUp(w) BY <1>1, <2>1, StillSteps
  <2>2. CASE TakeChunk(w) BY <1>1, <2>2, TakeStep
  <2>3. CASE Acquire(w) BY <1>1, <2>3, AcquireStep
  <2>4. CASE WriteBlocks(w) BY <1>1, <2>4, WriteStep
  <2>5. CASE Commit(w) BY <1>1, <2>5, CommitStep
  <2>6. CASE Publish(w) BY <1>1, <2>6, PublishStep
  <2> QED BY <1>3, <2>1, <2>2, <2>3, <2>4, <2>5, <2>6 DEF Worker
<1>4. CASE UsbReceive BY <1>1, <1>4, ReceiveStep
<1>5. CASE UsbHold BY <1>1, <1>5, HoldStep
<1>6. CASE UsbDrain BY <1>1, <1>6, DrainStep
<1>7. CASE UsbComplete BY <1>1, <1>7, CompleteStep
<1>8. CASE SinkReceive \/ SinkExit BY <1>8 DEF SinkReceive, SinkExit
<1> QED BY <1>2, <1>3, <1>4, <1>5, <1>6, <1>7, <1>8 DEF Next, Consumer, Finished

\* What only grows.
LEMMA Grows ==
  ASSUME TypeOK, [Next]_vars
  PROVE  /\ sinkOnly' = sinkOnly
         /\ (LoseChunk /\ lost' > 0 /\ upc' = upc) \/ lost' = lost
         /\ aborted => aborted'
         /\ stalled => stalled'
         /\ nextSend' = nextSend \/ nextSend' = nextSend + 1
         /\ upc' = "done" => upc = "done" \/ UsbExit \/ SinkExit
         /\ upc' = "drain" => upc = "drain" \/ ~sinkOnly
<1>0. lost \in Nat BY Constants DEF TypeOK
<1>1. CASE LoseChunk
  <2>1. /\ lost' = lost + 1
        /\ UNCHANGED <<stalled, sinkOnly, upc, nextSend, aborted>>
    BY <1>1 DEF LoseChunk, usbVars
  <2>2. lost' > 0 BY <1>0, <2>1
  <2> QED BY <1>1, <2>1, <2>2
<1>2. CASE SourceStalls \/ CodecFinishes \/ UNCHANGED vars
  <2>1. /\ UNCHANGED <<lost, sinkOnly, upc, nextSend, aborted>>
        /\ stalled => stalled'
    BY <1>2 DEF SourceStalls, CodecFinishes, vars, feedVars, usbVars
  <2> QED BY <2>1
<1>3. ASSUME NEW w \in Workers, Worker(w)
      PROVE  /\ UNCHANGED <<lost, stalled, sinkOnly, usbVars>>
             /\ aborted => aborted'
  <2>1. CASE StopWorker(w) \/ AcquireFails(w) \/ GiveUp(w)
    BY <2>1 DEF StopWorker, AcquireFails, GiveUp, feedVars
  <2>2. CASE TakeChunk(w) BY <2>2 DEF TakeChunk
  <2>3. CASE Acquire(w) BY <2>3 DEF Acquire, feedVars
  <2>4. CASE WriteBlocks(w) BY <2>4 DEF WriteBlocks, feedVars
  <2>5. CASE Commit(w) BY <2>5 DEF Commit, feedVars
  <2>6. CASE Publish(w) BY <2>6 DEF Publish, feedVars
  <2> QED BY <1>3, <2>1, <2>2, <2>3, <2>4, <2>5, <2>6 DEF Worker
<1>4. CASE Consumer \/ UsbComplete
  <2>1. UNCHANGED <<lost, stalled, sinkOnly, aborted>>
    BY <1>4 DEF Consumer, UsbReceive, UsbHold, UsbDrain, UsbExit, SinkReceive, SinkExit,
                UsbComplete, feedVars
  <2>2. /\ nextSend' = nextSend \/ nextSend' = nextSend + 1
        /\ upc' = "done" => upc = "done" \/ UsbExit \/ SinkExit
        /\ upc' = "drain" => upc = "drain" \/ ~sinkOnly
    BY <1>4 DEF Consumer, UsbReceive, UsbHold, UsbDrain, UsbExit, SinkReceive, SinkExit,
                UsbComplete, usbVars
  <2> QED BY <2>1, <2>2
<1>5. CASE \E w \in Workers : Worker(w)
  <2>1. UNCHANGED <<lost, stalled, sinkOnly, usbVars>> /\ (aborted => aborted') BY <1>3, <1>5
  <2>2. UNCHANGED <<upc, nextSend>> BY <2>1 DEF usbVars
  <2> QED BY <2>1, <2>2
<1> QED BY <1>1, <1>2, <1>4, <1>5 DEF Next, Finished

\* When usbTask leaves its loop after a run that nothing disturbed, it has sent
\* every stage.
LEMMA AllOut ==
  ASSUME BaseInv, SlotInv, UsbExit, ~aborted, ~stalled
  PROVE  nextSend * StageBlocks >= TargetBlocks
<1>1. TypeOK /\ Chunks /\ Ended BY DEF BaseInv
<1>2. /\ codecFinished /\ readyQ = <<>> /\ armed = {} /\ \A h \in Slots : held[h] = NoChunk
  BY DEF UsbExit, AllSent
<1>3. \A w \in Workers : pc[w] = "done" /\ left[w] = 0 /\ cursor >= TargetBlocks
  BY <1>1, <1>2 DEF Ended
<1>4. ASSUME NEW i \in Indices PROVE ~Waits(i)
  <2> SUFFICES ASSUME NEW p \in Places, p[1] # "fill", At(p).index = i PROVE FALSE BY DEF Waits
  <2>1. i # NoStage /\ NoChunk.index = NoStage BY WireChunkType
  <2>2. CASE \E s \in Slots : p = <<"free", s>>
    <3>1. PICK s \in Slots : p = <<"free", s>> BY <2>2
    <3>2. At(p) = IF s \in freeSlots THEN [slot |-> s, index |-> NoStage] ELSE NoChunk
      BY <3>1, AtForms
    <3> QED BY <2>1, <3>2
  <2>3. CASE \E w \in Workers : p = <<"publish", w>>
    <3>1. PICK w \in Workers : p = <<"publish", w>> BY <2>3
    <3>2. At(p) = IF pc[w] = "publish" THEN [slot |-> buf[w], index |-> StageOf(w)] ELSE NoChunk
      BY <3>1, AtForms
    <3> QED BY <1>3, <2>1, <3>2
  <2>4. CASE \E k \in 1 .. StageCount : p = <<"ready", k>>
    <3>1. PICK k \in 1 .. StageCount : p = <<"ready", k>> BY <2>4
    <3>2. At(p) = IF k <= Len(readyQ) THEN readyQ[k] ELSE NoChunk BY <3>1, AtForms
    <3>3. ~(k <= Len(readyQ)) BY <1>2, Constants
    <3> QED BY <2>1, <3>2, <3>3
  <2>5. CASE \E h \in Slots : p = <<"held", h>>
    <3>1. PICK h \in Slots : p = <<"held", h>> BY <2>5
    <3>2. At(p) = held[h] BY <3>1, AtForms
    <3> QED BY <1>2, <2>1, <3>2
  <2>6. CASE \E r \in WireChunk : p = <<"armed", r>>
    <3>1. PICK r \in WireChunk : p = <<"armed", r>> BY <2>6
    <3>2. At(p) = IF r \in armed THEN [slot |-> r.slot, index |-> NoStage] ELSE NoChunk
      BY <3>1, AtForms
    <3> QED BY <2>1, <3>2
  <2> QED BY <2>2, <2>3, <2>4, <2>5, <2>6, PlaceCases
<1>5. PICK m : m = (TargetBlocks - 1) \div StageBlocks OBVIOUS
<1>6. TargetBlocks - 1 \in Nat BY Constants
<1>7. m \in Nat /\ TargetBlocks - 1 < Start(m) + StageBlocks BY <1>5, <1>6, StageOfBlock
<1>8. m \in Indices BY <1>5, <1>7 DEF Indices
<1>9. m \in published
  <2>1. ASSUME NEW b \in BlocksOf(m) PROVE b \in Accounted(m)
    <3>1. b \in Nat /\ b < TargetBlocks BY <1>8, BlocksFacts, Constants
    <3>2. \A w \in Workers : b \notin Todo(w)
      <4> SUFFICES ASSUME NEW w \in Workers, b \in Todo(w) PROVE FALSE OBVIOUS
      <4>1. First(w) <= b /\ b < Past(w) BY <1>1, <3>1, HandFacts
      <4>2. First(w) = blk[w] BY <1>3 DEF First
      <4>3. Past(w) = blk[w] + 0 /\ blk[w] \in Nat BY <1>1, <1>3 DEF Past, TypeOK
      <4> QED BY <3>1, <4>1, <4>2, <4>3
    <3>3. b < cursor
      <4>1. cursor \in Nat BY <1>1 DEF TypeOK
      <4>2. Workers # {} BY SlotAssumption
      <4> QED BY <1>3, <3>1, <4>1, <4>2, Constants
    <3> QED BY <3>2, <3>3 DEF Accounted, Taken
  <2> QED BY <1>8, <2>1, AccountedFacts DEF Fill, SlotInv
<1>10. nextSend \in Nat /\ m < nextSend
  <2>1. nextSend \in Nat BY <1>1 DEF TypeOK
  <2>2. ~(m >= nextSend) BY <1>4, <1>8, <1>9 DEF Sending, SlotInv
  <2> QED BY <1>7, <2>1, <2>2
<1>11. Start(m) + StageBlocks <= Start(nextSend) /\ Start(m) \in Nat /\ Start(nextSend) \in Nat
  BY <1>7, <1>10, StartType
<1>12. Start(nextSend) >= TargetBlocks BY <1>7, <1>11, Constants
<1> QED BY <1>12 DEF Start

LEMMA InvariantInit == Init => IInv
<1> SUFFICES ASSUME Init PROVE IInv OBVIOUS
<1>1. BaseInv BY BaseInit
<1>2. SlotInv BY <1>1, FirstState DEF BaseInv
<1>3. upc = "poll" BY DEF Init
<1> QED BY <1>1, <1>2, <1>3 DEF IInv, CompleteOrFlagged

LEMMA InvariantStep == IInv /\ [Next]_vars => IInv'
<1> SUFFICES ASSUME IInv, [Next]_vars PROVE IInv' OBVIOUS
<1>1. BaseInv /\ BaseInv' /\ TypeOK BY BaseStep DEF IInv, BaseInv
<1>2. /\ sinkOnly' = sinkOnly
      /\ (LoseChunk /\ lost' > 0 /\ upc' = upc) \/ lost' = lost
      /\ aborted => aborted'
      /\ stalled => stalled'
      /\ nextSend' = nextSend \/ nextSend' = nextSend + 1
      /\ upc' = "done" => upc = "done" \/ UsbExit \/ SinkExit
      /\ upc' = "drain" => upc = "drain" \/ ~sinkOnly
  BY <1>1, Grows
<1>3. lost \in Nat /\ nextSend \in Nat BY <1>1, Constants DEF TypeOK
<1>4. ASSUME Normal' PROVE SlotInv'
  <2>1. ~LoseChunk
    <3> SUFFICES ASSUME LoseChunk PROVE FALSE OBVIOUS
    <3>1. lost' = lost + 1 /\ lost' = 0 BY <1>4 DEF LoseChunk, Normal
    <3> QED BY <1>3, <3>1
  <2>2. lost' = lost BY <1>2, <2>1
  <2>3. Normal BY <1>2, <1>4, <2>2 DEF Normal
  <2>4. SlotInv /\ ~sinkOnly BY <2>3 DEF IInv, Normal
  <2> QED BY <1>1, <2>1, <2>4, SlotStep
<1>5. upc' = "drain" => ~sinkOnly' BY <1>2 DEF IInv
<1>6. CompleteOrFlagged'
  <2> SUFFICES ASSUME upc' = "done", ~sinkOnly'
               PROVE  aborted' \/ lost' > 0 \/ stalled' \/ nextSend' * StageBlocks >= TargetBlocks
    BY DEF CompleteOrFlagged
  <2>1. ~sinkOnly /\ ~SinkExit BY <1>2 DEF SinkExit
  <2>2. CASE upc = "done"
    <3>1. aborted \/ lost > 0 \/ stalled \/ nextSend * StageBlocks >= TargetBlocks
      BY <2>1, <2>2 DEF IInv, CompleteOrFlagged
    <3>2. lost > 0 => lost' > 0 BY <1>2
    <3>3. ASSUME nextSend * StageBlocks >= TargetBlocks PROVE nextSend' * StageBlocks >= TargetBlocks
      <4>1. CASE nextSend' = nextSend BY <3>3, <4>1
      <4>2. CASE nextSend' = nextSend + 1
        <5>1. nextSend' \in Nat /\ nextSend < nextSend' BY <1>3, <4>2
        <5>2. Start(nextSend) + StageBlocks <= Start(nextSend') /\ Start(nextSend) \in Nat /\ Start(nextSend') \in Nat
          BY <1>3, <5>1, StartType
        <5>3. Start(nextSend) >= TargetBlocks BY <3>3 DEF Start
        <5>4. Start(nextSend') >= TargetBlocks BY <5>2, <5>3, Constants
        <5> QED BY <5>4 DEF Start
      <4> QED BY <1>2, <4>1, <4>2
    <3> QED BY <1>2, <3>1, <3>2, <3>3
  <2>3. CASE UsbExit
    <3>1. nextSend' = nextSend /\ UNCHANGED <<lost, stalled, aborted>>
      BY <2>3 DEF UsbExit, feedVars
    <3>2. CASE lost > 0 BY <3>1, <3>2
    <3>3. CASE lost = 0
      <4>1. SlotInv BY <2>1, <3>3 DEF IInv, Normal
      <4>2. ~aborted /\ ~stalled => nextSend * StageBlocks >= TargetBlocks
        BY <1>1, <2>3, <4>1, AllOut
      <4> QED BY <3>1, <4>2
    <3>4. lost > 0 \/ lost = 0 BY <1>3
    <3> QED BY <3>2, <3>3, <3>4
  <2> QED BY <1>2, <2>1, <2>2, <2>3
<1> QED BY <1>1, <1>4, <1>5, <1>6 DEF IInv

LEMMA InvariantHolds == Spec => []IInv
  BY InvariantInit, InvariantStep, PTL DEF Spec

---------------------------------------------------------------------------
(* The theorems.                                                           *)

\* Both workers may ask for the same index and get the same slot: the table
\* names the buffer a worker writes until its piece is accounted, although the
\* other worker may meanwhile go as far ahead as the free slots let it.
THEOREM SlotStaysBound == Spec => [](lost = 0 /\ ~sinkOnly => SameSlot)
<1>1. IInv => (lost = 0 /\ ~sinkOnly => SameSlot) BY DEF IInv, Normal, SlotInv
<1> QED BY <1>1, InvariantHolds, PTL

LEMMA OutstandingWhole ==
  ASSUME TypeOK, Chunks, Whole
  PROVE  WholeStages
<1> SUFFICES ASSUME NEW r \in Outstanding, NEW p \in Positions, p < ExpectedFill(r.index)
             PROVE  stage[r.slot][p] = r.index * StageBlocks + p
  BY DEF WholeStages
\* A stage that is out is in the hand of a carrier, or with USB.
<1>1. /\ r.index \in Indices
      /\ \A b \in BlocksOf(r.index) : stage[r.slot][b - Start(r.index)] = b
  <2>1. ASSUME NEW q \in Places, q[1] \in Carriers, At(q) = r, r.slot \in Slots, r.index \in Indices
        PROVE  \A b \in BlocksOf(r.index) : stage[r.slot][b - Start(r.index)] = b
    BY <2>1, WireChunkType DEF Whole
  <2>2. CASE r \in Publishing
    <3>1. PICK w \in Workers : pc[w] = "publish" /\ r = [slot |-> buf[w], index |-> StageOf(w)]
      BY <2>2 DEF Publishing
    <3>2. buf[w] \in Slots /\ StageOf(w) \in Indices
      BY <3>1, PieceFacts DEF TypeOK, Chunks, Busy
    <3>3. r.slot \in Slots /\ r.index \in Indices BY <3>1, <3>2
    <3>4. At(<<"publish", w>>) = r /\ <<"publish", w>> \in Places BY <3>1, AtForms, PlaceIs
    <3>5. <<"publish", w>>[1] \in Carriers BY DEF Carriers
    <3> QED BY <2>1, <3>3, <3>4, <3>5
  <2>3. CASE r \in {readyQ[k] : k \in DOMAIN readyQ}
    <3>1. PICK k \in DOMAIN readyQ : r = readyQ[k] BY <2>3
    <3>2. k \in 1 .. Len(readyQ)
      <4>1. readyQ \in Seq(WireChunk) BY DEF TypeOK
      <4> QED BY <4>1, LenProperties
    <3>3. /\ At(<<"ready", k>>) = r /\ <<"ready", k>> \in Places /\ r \in WireChunk
      BY <3>1, <3>2, AtReady
    <3>4. <<"ready", k>>[1] \in Carriers BY DEF Carriers
    <3> QED BY <2>1, <3>3, <3>4, WireChunkType
  <2>4. CASE r \in {held[h] : h \in {g \in Slots : held[g] # NoChunk}}
    <3>1. PICK h \in Slots : held[h] # NoChunk /\ r = held[h] BY <2>4
    <3>2. r \in WireChunk BY <3>1 DEF TypeOK
    <3>3. At(<<"held", h>>) = r /\ <<"held", h>> \in Places BY <3>1, AtForms, PlaceIs
    <3>4. <<"held", h>>[1] \in Carriers BY DEF Carriers
    <3> QED BY <2>1, <3>2, <3>3, <3>4, WireChunkType
  <2>5. CASE r \in armed
    <3>1. r \in WireChunk BY <2>5 DEF TypeOK
    <3> QED BY <2>5, <3>1, WireChunkType DEF Whole
  <2> QED BY <2>2, <2>3, <2>4, <2>5 DEF Outstanding
<1> DEFINE s == Start(r.index)
           b == s + p
<1>2. /\ s \in Nat /\ Limit(r.index) \in Nat /\ ExpectedFill(r.index) = Limit(r.index) - s
      /\ \A x \in Int : x \in BlocksOf(r.index) <=> s <= x /\ x < Limit(r.index)
  BY <1>1, BlocksFacts
<1>3. p \in Nat BY Constants DEF Positions
<1> HIDE DEF s
<1>4. b \in BlocksOf(r.index) /\ b - s = p BY <1>2, <1>3
<1>5. stage[r.slot][b - s] = b BY <1>1, <1>4 DEF s
<1> QED BY <1>4, <1>5 DEF s, Start

\* A stage on its way to the host holds its own blocks, all of them, whatever
\* the order in which the two workers filled it.
THEOREM StagesAreWhole == Spec => [](lost = 0 /\ ~sinkOnly => WholeStages)
<1>1. IInv => (lost = 0 /\ ~sinkOnly => WholeStages)
  BY OutstandingWhole DEF IInv, BaseInv, Normal, SlotInv
<1> QED BY <1>1, InvariantHolds, PTL

LEMMA HolderPlaces ==
  ASSUME TypeOK, NEW s \in Slots
  PROVE  Holders(s) = {p \in Places : At(p).slot = s}
<1>1. s # -1 /\ NoChunk.slot = -1 BY WireChunkType
<1>2. ASSUME NEW p \in Holders(s) PROVE p \in Places /\ At(p).slot = s
  <2>1. CASE p \in {<<"free", x>> : x \in {s} \cap freeSlots}
    <3>1. p = <<"free", s>> /\ s \in freeSlots BY <2>1
    <3>2. At(<<"free", s>>) = [slot |-> s, index |-> NoStage] BY <3>1, AtForms
    <3>3. <<"free", s>> \in Places BY PlaceIs
    <3> QED BY <3>1, <3>2, <3>3
  <2>2. CASE p \in {<<"fill", e>> : e \in {d \in Entries :
                      slotOf[d] = s /\ slotIndex[d] \notin published \cup {NoStage}}}
    <3>1. PICK e \in Entries : /\ p = <<"fill", e>> /\ slotOf[e] = s
                               /\ slotIndex[e] \notin published \cup {NoStage}
      BY <2>2
    <3>2. At(p) = [slot |-> slotOf[e], index |-> slotIndex[e]] BY <3>1, AtForms
    <3> QED BY <3>1, <3>2, PlaceIs
  <2>3. CASE p \in {<<"publish", w>> : w \in {v \in Workers : pc[v] = "publish" /\ buf[v] = s}}
    <3>1. PICK w \in Workers : p = <<"publish", w>> /\ pc[w] = "publish" /\ buf[w] = s BY <2>3
    <3>2. At(p) = [slot |-> buf[w], index |-> StageOf(w)] BY <3>1, AtForms
    <3> QED BY <3>1, <3>2, PlaceIs
  <2>4. CASE p \in {<<"ready", k>> : k \in {j \in DOMAIN readyQ : readyQ[j].slot = s}}
    <3>1. PICK k \in DOMAIN readyQ : p = <<"ready", k>> /\ readyQ[k].slot = s BY <2>4
    <3>2. k \in 1 .. Len(readyQ)
      <4>1. readyQ \in Seq(WireChunk) BY DEF TypeOK
      <4> QED BY <4>1, LenProperties
    <3> QED BY <3>1, <3>2, AtReady
  <2>5. CASE p \in {<<"held", h>> : h \in {g \in Slots : held[g].slot = s}}
    <3>1. PICK h \in Slots : p = <<"held", h>> /\ held[h].slot = s BY <2>5
    <3> QED BY <3>1, AtForms, PlaceIs
  <2>6. CASE p \in {<<"armed", r>> : r \in {q \in armed : q.slot = s}}
    <3>1. PICK r \in armed : p = <<"armed", r>> /\ r.slot = s BY <2>6
    <3>2. At(p) = [slot |-> r.slot, index |-> NoStage] BY <3>1, AtForms
    <3>3. r \in WireChunk BY DEF TypeOK
    <3> QED BY <3>1, <3>2, <3>3, PlaceIs
  <2> QED BY <1>2, <2>1, <2>2, <2>3, <2>4, <2>5, <2>6 DEF Holders
<1>3. ASSUME NEW p \in Places, At(p).slot = s PROVE p \in Holders(s)
  <2>1. CASE \E x \in Slots : p = <<"free", x>>
    <3>1. PICK x \in Slots : p = <<"free", x>> BY <2>1
    <3>2. At(p) = IF x \in freeSlots THEN [slot |-> x, index |-> NoStage] ELSE NoChunk
      BY <3>1, AtForms
    <3>3. x = s /\ x \in freeSlots BY <1>1, <1>3, <3>2
    <3> QED BY <3>1, <3>3 DEF Holders
  <2>2. CASE \E e \in Entries : p = <<"fill", e>>
    <3>1. PICK e \in Entries : p = <<"fill", e>> BY <2>2
    <3>2. At(p) = IF slotIndex[e] \in published \cup {NoStage} THEN NoChunk
                  ELSE [slot |-> slotOf[e], index |-> slotIndex[e]]
      BY <3>1, AtForms
    <3>3. slotIndex[e] \notin published \cup {NoStage} /\ slotOf[e] = s BY <1>1, <1>3, <3>2
    <3> QED BY <3>1, <3>3 DEF Holders
  <2>3. CASE \E w \in Workers : p = <<"publish", w>>
    <3>1. PICK w \in Workers : p = <<"publish", w>> BY <2>3
    <3>2. At(p) = IF pc[w] = "publish" THEN [slot |-> buf[w], index |-> StageOf(w)] ELSE NoChunk
      BY <3>1, AtForms
    <3>3. pc[w] = "publish" /\ buf[w] = s BY <1>1, <1>3, <3>2
    <3> QED BY <3>1, <3>3 DEF Holders
  <2>4. CASE \E k \in 1 .. StageCount : p = <<"ready", k>>
    <3>1. PICK k \in 1 .. StageCount : p = <<"ready", k>> BY <2>4
    <3>2. At(p) = IF k <= Len(readyQ) THEN readyQ[k] ELSE NoChunk BY <3>1, AtForms
    <3>3. k <= Len(readyQ) /\ readyQ[k].slot = s BY <1>1, <1>3, <3>2
    <3>4. k \in DOMAIN readyQ
      <4>1. readyQ \in Seq(WireChunk) BY DEF TypeOK
      <4>2. Len(readyQ) \in Nat /\ DOMAIN readyQ = 1 .. Len(readyQ) BY <4>1, LenProperties
      <4> QED BY <3>3, <4>2
    <3> QED BY <3>1, <3>3, <3>4 DEF Holders
  <2>5. CASE \E h \in Slots : p = <<"held", h>>
    <3>1. PICK h \in Slots : p = <<"held", h>> BY <2>5
    <3>2. held[h].slot = s BY <1>3, <3>1, AtForms
    <3> QED BY <3>1, <3>2 DEF Holders
  <2>6. CASE \E r \in WireChunk : p = <<"armed", r>>
    <3>1. PICK r \in WireChunk : p = <<"armed", r>> BY <2>6
    <3>2. At(p) = IF r \in armed THEN [slot |-> r.slot, index |-> NoStage] ELSE NoChunk
      BY <3>1, AtForms
    <3>3. r \in armed /\ r.slot = s BY <1>1, <1>3, <3>2
    <3> QED BY <3>1, <3>3 DEF Holders
  <2> QED BY <2>1, <2>2, <2>3, <2>4, <2>5, <2>6, PlaceCases
<1> QED BY <1>2, <1>3

\* Every stage buffer is in exactly one place: the free list, the table, a
\* worker about to publish, the queue, usbTask, or USB.
THEOREM SlotsHaveOneHolder == Spec => [](lost = 0 /\ ~sinkOnly => OneHolder)
<1>1. ASSUME TypeOK, Placing PROVE OneHolder
  <2> SUFFICES ASSUME NEW s \in Slots PROVE \E h \in Holders(s) : Holders(s) = {h}
    BY DEF OneHolder
  <2>1. Holders(s) = {p \in Places : At(p).slot = s} BY <1>1, HolderPlaces
  <2>2. PICK p \in Places : At(p).slot = s BY <1>1 DEF Placing
  <2>3. s # -1 BY WireChunkType
  <2>4. \A q \in Places : At(q).slot = s => q = p BY <1>1, <2>2, <2>3 DEF Placing
  <2>5. p \in Holders(s) /\ Holders(s) = {p} BY <2>1, <2>2, <2>4
  <2> QED BY <2>5
<1>2. IInv => (lost = 0 /\ ~sinkOnly => OneHolder)
  BY <1>1 DEF IInv, BaseInv, Normal, SlotInv
<1> QED BY <1>2, InvariantHolds, PTL

\* commitStage() never waits in xQueueSend: the queue has an entry for each
\* buffer, and the one to publish is not in the queue.
THEOREM PublishFindsRoom == Spec => [](lost = 0 /\ ~sinkOnly => PublishRoom)
<1>1. ASSUME TypeOK, Placing, NEW w \in Workers, pc[w] = "publish"
      PROVE  Len(readyQ) < StageCount
  <2>1. readyQ \in Seq(WireChunk) BY <1>1 DEF TypeOK
  <2>2. Len(readyQ) \in Nat BY <2>1, LenProperties
  <2> DEFINE n == Len(readyQ)
             f == [k \in 1 .. n |-> readyQ[k].slot]
  <2>3. ASSUME NEW k \in 1 .. n
        PROVE  /\ <<"ready", k>> \in Places /\ At(<<"ready", k>>) = readyQ[k]
               /\ readyQ[k].slot \in Slots /\ readyQ[k].slot # -1
    BY <1>1, AtReady, WireChunkType
  <2>4. buf[w] \in Slots BY <1>1 DEF TypeOK
  <2>5. <<"publish", w>> \in Places /\ At(<<"publish", w>>).slot = buf[w]
    <3>1. At(<<"publish", w>>) = [slot |-> buf[w], index |-> StageOf(w)] BY <1>1, AtForms
    <3> QED BY <3>1, PlaceIs
  <2>6. \A k \in 1 .. n : readyQ[k].slot # buf[w]
    <3> SUFFICES ASSUME NEW k \in 1 .. n, readyQ[k].slot = buf[w] PROVE FALSE OBVIOUS
    <3> DEFINE p == <<"ready", k>>
               q == <<"publish", w>>
    <3>1. p \in Places /\ q \in Places BY <2>3, <2>5
    <3>2. At(p).slot # -1 /\ At(p).slot = At(q).slot BY <2>3, <2>5
    <3>3. p[1] = "ready" /\ q[1] = "publish" OBVIOUS
    <3> HIDE DEF p, q
    <3>4. p = q BY <1>1, <3>1, <3>2 DEF Placing
    <3> QED BY <3>3, <3>4
  <2>7. \A k, m \in 1 .. n : readyQ[k].slot = readyQ[m].slot => k = m
    <3> SUFFICES ASSUME NEW k \in 1 .. n, NEW m \in 1 .. n, readyQ[k].slot = readyQ[m].slot
                 PROVE  k = m
      OBVIOUS
    <3> DEFINE p == <<"ready", k>>
               q == <<"ready", m>>
    <3>1. p \in Places /\ q \in Places BY <2>3
    <3>2. At(p).slot # -1 /\ At(p).slot = At(q).slot BY <2>3
    <3>3. p[2] = k /\ q[2] = m OBVIOUS
    <3> HIDE DEF p, q
    <3>4. p = q BY <1>1, <3>1, <3>2 DEF Placing
    <3> QED BY <3>3, <3>4
  <2>8. f \in Injection(1 .. n, Slots \ {buf[w]}) BY <2>3, <2>6, <2>7 DEF Injection, IsInjective
  <2>9. IsFiniteSet(Slots \ {buf[w]}) /\ Cardinality(Slots \ {buf[w]}) = StageCount - 1
    <3> DEFINE e == StageCount - 1
    <3>1. e \in Int /\ ~(0 > e) /\ e - 0 + 1 = StageCount /\ Slots = 0 .. e
      BY Constants DEF Slots
    <3> HIDE DEF e
    <3>2. IsFiniteSet(Slots) /\ Cardinality(Slots) = StageCount BY <3>1, FS_Interval
    <3> QED BY <2>4, <3>2, FS_RemoveElement
  <2> HIDE DEF f
  <2>10. Cardinality(1 .. n) <= StageCount - 1 BY <2>8, <2>9, FS_Injection
  <2>11. Cardinality(1 .. n) = n
    <3> HIDE DEF n
    <3>1. n \in Nat BY <2>2 DEF n
    <3>2. 1 \in Int /\ n \in Int BY <3>1
    <3>3. Cardinality(1 .. n) = IF 1 > n THEN 0 ELSE n - 1 + 1 BY <3>2, FS_Interval
    <3> QED BY <3>1, <3>3
  <2> QED BY <2>2, <2>10, <2>11, Constants
<1>2. IInv => (lost = 0 /\ ~sinkOnly => PublishRoom)
  BY <1>1 DEF IInv, BaseInv, Normal, SlotInv, PublishRoom
<1> QED BY <1>2, InvariantHolds, PTL

\* A run that ends without an abort, a lost chunk or a stalled source has sent
\* every stage.
THEOREM EndsComplete == Spec => []CompleteOrFlagged
<1>1. IInv => CompleteOrFlagged BY DEF IInv
<1> QED BY <1>1, InvariantHolds, PTL

\* usbTask never overwrites a stage it keeps: a place of held[] gives up its stage
\* only in the step that sends it.
THEOREM HeldStagesKept == Spec => HeldKept
<1> DEFINE Kept == lost = 0 => \A h \in Slots :
                     held[h] # NoChunk /\ held'[h] # held[h] =>
                       held'[h] = NoChunk /\ nextSend' = held[h].index + 1
<1>1. ASSUME IInv, [Next]_vars PROVE [Kept]_vars
  <2> SUFFICES ASSUME lost = 0, NEW h \in Slots, held[h] # NoChunk, held'[h] # held[h]
               PROVE  held'[h] = NoChunk /\ nextSend' = held[h].index + 1
    OBVIOUS
  <2>1. TypeOK /\ Chunks /\ (~sinkOnly => SlotInv) /\ (upc = "drain" => ~sinkOnly)
    BY <1>1 DEF IInv, BaseInv, Normal
  <2>2. held \in [Slots -> WireChunk \cup {NoChunk}] BY <2>1 DEF TypeOK
  <2>3. CASE UsbHold
    <3>1. PICK g : g = readyQ[1].index % StageCount OBVIOUS
    <3>2. /\ ~sinkOnly /\ upc = "poll" /\ readyQ # <<>> /\ readyQ[1].index # nextSend
          /\ held' = [held EXCEPT ![g] = readyQ[1]]
      BY <2>1, <2>3, <3>1, HeadFacts DEF UsbHold
    <3>3. held[g] = NoChunk BY <2>1, <3>1, <3>2, HeldFree DEF SlotInv
    <3>4. h = g BY <2>2, <3>2
    <3> QED BY <3>3, <3>4
  <2>4. CASE UsbDrain
    <3>1. PICK g, r : g = nextSend % StageCount /\ r = held[g] OBVIOUS
    <3>2. held' # held OBVIOUS
    <3>3. r.index = nextSend /\ held' = [held EXCEPT ![g] = NoChunk] /\ nextSend' = nextSend + 1
      BY <2>4, <3>1, <3>2 DEF UsbDrain
    <3>4. h = g BY <2>2, <3>3
    <3> QED BY <2>2, <3>1, <3>3, <3>4
  <2>5. CASE ~UsbHold /\ ~UsbDrain
    <3>1. held' = held
      <4>1. \A w \in Workers : Worker(w) => held' = held
        BY DEF Worker, TakeChunk, StopWorker, Acquire, AcquireFails, GiveUp, WriteBlocks,
               Commit, Publish, usbVars
      <4>2. LoseChunk \/ SourceStalls \/ CodecFinishes \/ UsbComplete \/ Finished => held' = held
        BY DEF LoseChunk, SourceStalls, CodecFinishes, UsbComplete, Finished, usbVars, vars
      <4>3. UsbReceive \/ UsbExit \/ SinkReceive \/ SinkExit => held' = held
        BY DEF UsbReceive, UsbExit, SinkReceive, SinkExit, usbVars
      <4>4. UNCHANGED vars => held' = held BY DEF vars, usbVars
      <4> QED BY <1>1, <2>5, <4>1, <4>2, <4>3, <4>4 DEF Next, Consumer
    <3> QED BY <3>1
  <2> QED BY <2>3, <2>4, <2>5
<1> QED BY <1>1, InvariantHolds, PTL DEF Spec, HeldKept
====
