---- MODULE UsbReturnProofs ----
(***************************************************************************)
(* Theorems about UsbReturn, for every number of buffers, depth of the     *)
(* ring, size of the spill and length of the run.                          *)
(***************************************************************************)
EXTENDS UsbReturn, SequenceTheorems, TLAPS

LEMMA LeastBound ==
  ASSUME NEW a \in Int, NEW b \in Int
  PROVE  /\ Least(a, b) \in Int /\ Least(a, b) <= a /\ Least(a, b) <= b
         /\ (a \in Nat /\ b \in Nat => Least(a, b) \in Nat)
  BY DEF Least

LEMMA NoSegmentIsNone == NoSegment \notin Segment
  BY DEF NoSegment, Segment

\* The blocks of a stage are a sequence of numbers.
LEMMA StageDataType ==
  ASSUME NEW i \in Nat, i * StageBlocks < TargetBlocks
  PROVE  StageData(i) \in Seq(Nat)
<1>1. StageBlocks \in Nat /\ TargetBlocks \in Nat BY ReturnAssumption
<1>2. i * StageBlocks \in Nat BY <1>1
<1>3. Fill(i) \in Nat BY <1>1, <1>2, LeastBound DEF Fill
<1>4. \A k \in 1 .. Fill(i) : i * StageBlocks + k - 1 \in Nat BY <1>2, <1>3
<1> QED BY <1>3, <1>4 DEF StageData

---------------------------------------------------------------------------
(* Sequences by their elements.                                            *)

LEMMA ConcatElements ==
  ASSUME NEW S, NEW a \in Seq(S), NEW b \in Seq(S)
  PROVE  /\ a \o b \in Seq(S) /\ Len(a \o b) = Len(a) + Len(b)
         /\ \A k \in 1 .. Len(a) : (a \o b)[k] = a[k]
         /\ \A k \in 1 .. Len(b) : (a \o b)[Len(a) + k] = b[k]
<1>1. Len(a) \in Nat /\ Len(b) \in Nat OBVIOUS
<1> DEFINE c == a \o b
<1>2. /\ c \in Seq(S) /\ Len(c) = Len(a) + Len(b)
      /\ \A k \in 1 .. Len(a) + Len(b) :
           c[k] = IF k <= Len(a) THEN a[k] ELSE b[k - Len(a)]
  BY ConcatProperties
<1> HIDE DEF c
<1>3. ASSUME NEW k \in 1 .. Len(a) PROVE c[k] = a[k] BY <1>1, <1>2
<1>4. ASSUME NEW k \in 1 .. Len(b) PROVE c[Len(a) + k] = b[k]
  <2>1. /\ Len(a) + k \in 1 .. Len(a) + Len(b) /\ ~(Len(a) + k <= Len(a))
        /\ Len(a) + k - Len(a) = k
    BY <1>1
  <2> QED BY <1>2, <2>1
<1> QED BY <1>2, <1>3, <1>4 DEF c

LEMMA ConcatResult ==
  ASSUME NEW S, NEW a, a \in Seq(S), NEW b, b \in Seq(S), NEW c, c = a \o b
  PROVE  /\ c \in Seq(S) /\ Len(c) = Len(a) + Len(b)
         /\ \A k \in 1 .. Len(a) : c[k] = a[k]
         /\ \A k \in 1 .. Len(b) : c[Len(a) + k] = b[k]
  BY ConcatElements

\* The first n elements, and the rest.
LEMMA SplitElements ==
  ASSUME NEW S, NEW a \in Seq(S), NEW n \in 1 .. Len(a)
  PROVE  /\ SubSeq(a, 1, n) \in Seq(S) /\ Len(SubSeq(a, 1, n)) = n
         /\ \A k \in 1 .. n : SubSeq(a, 1, n)[k] = a[k]
         /\ SubSeq(a, n + 1, Len(a)) \in Seq(S)
         /\ Len(SubSeq(a, n + 1, Len(a))) = Len(a) - n
         /\ \A k \in 1 .. Len(a) - n : SubSeq(a, n + 1, Len(a))[k] = a[n + k]
<1>1. Len(a) \in Nat /\ \A k \in 1 .. Len(a) : a[k] \in S OBVIOUS
<1>2. /\ SubSeq(a, 1, n) \in Seq(S) /\ Len(SubSeq(a, 1, n)) = n
      /\ \A k \in 1 .. n : SubSeq(a, 1, n)[k] = a[k]
  BY <1>1, SubSeqProperties
<1> DEFINE c == SubSeq(a, n + 1, Len(a))
           m == n + 1
<1>3. m \in Int /\ Len(a) - m + 1 = Len(a) - n /\ m \in 1 .. Len(a) + 1
      /\ (m <= Len(a) \/ Len(a) - n = 0)
  BY <1>1
<1>4. \A k \in m .. Len(a) : a[k] \in S BY <1>1
<1>5. /\ c \in Seq(S) /\ Len(c) = IF m <= Len(a) THEN Len(a) - m + 1 ELSE 0
      /\ \A k \in 1 .. Len(a) - m + 1 : c[k] = a[m + k - 1]
  <2> HIDE DEF m
  <2>1. c = SubSeq(a, m, Len(a)) BY DEF c, m
  <2> HIDE DEF c
  <2> QED BY <1>1, <1>3, <1>4, <2>1, SubSeqProperties
<1>6. \A k \in 1 .. Len(a) - n : m + k - 1 = n + k BY <1>1
<1> HIDE DEF c, m
<1>7. Len(c) = Len(a) - n /\ \A k \in 1 .. Len(a) - n : c[k] = a[n + k]
  BY <1>3, <1>5, <1>6
<1> QED BY <1>2, <1>5, <1>7 DEF c, m

---------------------------------------------------------------------------
(* What each action does to the sequences, in terms of their elements.     *)

LEMMA ClaimEffect ==
  ASSUME TypeOK, Claim
  PROVE  /\ inflight = NoSegment /\ inflight' = ring[1] /\ inflight' \in Segment
         /\ ring # <<>> /\ Len(ring) \in Nat \ {0}
         /\ ring' \in Seq(Segment) /\ Len(ring') = Len(ring) - 1
         /\ \A k \in 1 .. Len(ring') : ring'[k] = ring[k + 1]
         /\ UNCHANGED <<armFailures, endpoint>>
<1>1. ring \in Seq(Segment) /\ ring # <<>> BY DEF TypeOK, Claim
<1>2. Head(ring) = ring[1] BY <1>1
<1> QED BY <1>1, <1>2, HeadTailProperties, EmptySeq DEF Claim

LEMMA PushEffect ==
  ASSUME TypeOK, Push, seg \in Segment, Len(ring) < ArmDepth
  PROVE  /\ ring' \in Seq(Segment) /\ Len(ring') = Len(ring) + 1
         /\ \A k \in 1 .. Len(ring) : ring'[k] = ring[k]
         /\ ring'[Len(ring) + 1] = seg
         /\ upc' = "arm"
<1>1. ring \in Seq(Segment) BY DEF TypeOK
<1> QED BY <1>1, AppendProperties DEF Push

\* dispatchStage() arms the stage at the head.
LEMMA DirectEffect ==
  ASSUME TypeOK, DispatchStage, DirectStage, NEW s, s = readyQ[1]
  PROVE  /\ s \in Slots /\ Len(readyQ) \in Nat \ {0}
         /\ readyQ' \in Seq(Slots) /\ Len(readyQ') = Len(readyQ) - 1
         /\ \A k \in 1 .. Len(readyQ') : readyQ'[k] = readyQ[k + 1]
         /\ seg' = [kind |-> "stage", slot |-> s, length |-> Len(stage[s]),
                    from |-> Len(accepted)]
         /\ seg' \in Segment
         /\ accepted' \in Seq(Nat)
         /\ Len(accepted') = Len(accepted) + Len(stage[s])
         /\ \A k \in 1 .. Len(accepted) : accepted'[k] = accepted[k]
         /\ \A k \in 1 .. Len(stage[s]) :
              accepted'[Len(accepted) + k] = stage[s][k]
<1>1. readyQ \in Seq(Slots) /\ readyQ # <<>> BY DEF TypeOK, DispatchStage
<1>2. Head(readyQ) = s /\ s \in Slots BY <1>1
<1>3. /\ readyQ' \in Seq(Slots) /\ Len(readyQ') = Len(readyQ) - 1
      /\ \A k \in 1 .. Len(readyQ') : readyQ'[k] = readyQ[k + 1]
      /\ Len(readyQ) \in Nat \ {0}
  BY <1>1, HeadTailProperties, EmptySeq DEF DispatchStage
<1>4. stage[s] \in Seq(Nat) /\ accepted \in Seq(Nat) BY <1>2 DEF TypeOK
<1>5. Len(stage[s]) \in Nat /\ Len(accepted) \in Nat BY <1>4
<1>6. accepted' = accepted \o stage[s] BY <1>2 DEF DirectStage
<1>7. /\ accepted' \in Seq(Nat)
      /\ Len(accepted') = Len(accepted) + Len(stage[s])
      /\ \A k \in 1 .. Len(accepted) : accepted'[k] = accepted[k]
      /\ \A k \in 1 .. Len(stage[s]) :
           accepted'[Len(accepted) + k] = stage[s][k]
  BY <1>4, <1>6, ConcatResult
<1>8. seg' \in Segment BY <1>2, <1>5 DEF DirectStage, Segment
<1> QED BY <1>2, <1>3, <1>7, <1>8 DEF DirectStage

\* dispatchStage() copies the stage at the head to the spill, or drops it.
LEMMA SpillEffect ==
  ASSUME TypeOK, DispatchStage, SpillStage, NEW s, s = readyQ[1]
  PROVE  /\ s \in Slots /\ Len(readyQ) \in Nat \ {0}
         /\ readyQ' \in Seq(Slots) /\ Len(readyQ') = Len(readyQ) - 1
         /\ \A k \in 1 .. Len(readyQ') : readyQ'[k] = readyQ[k + 1]
         /\ freeSlots' = freeSlots \cup {s}
         /\ \/ /\ accepted' \in Seq(Nat) /\ spill' \in Seq(Nat)
               /\ Len(accepted') = Len(accepted) + Len(stage[s])
               /\ Len(spill') = Len(spill) + Len(stage[s])
               /\ Len(spill') <= SpillBlocks
               /\ \A k \in 1 .. Len(accepted) : accepted'[k] = accepted[k]
               /\ \A k \in 1 .. Len(spill) : spill'[k] = spill[k]
               /\ \A k \in 1 .. Len(stage[s]) :
                    /\ accepted'[Len(accepted) + k] = stage[s][k]
                    /\ spill'[Len(spill) + k] = stage[s][k]
               /\ UNCHANGED spillOverflow
            \/ /\ UNCHANGED <<accepted, spill>>
               /\ spillOverflow' = spillOverflow + 1
<1>1. readyQ \in Seq(Slots) /\ readyQ # <<>> BY DEF TypeOK, DispatchStage
<1>2. Head(readyQ) = s /\ s \in Slots BY <1>1
<1>3. /\ readyQ' \in Seq(Slots) /\ Len(readyQ') = Len(readyQ) - 1
      /\ \A k \in 1 .. Len(readyQ') : readyQ'[k] = readyQ[k + 1]
      /\ Len(readyQ) \in Nat \ {0}
  BY <1>1, HeadTailProperties, EmptySeq DEF DispatchStage
<1>4. stage[s] \in Seq(Nat) /\ accepted \in Seq(Nat) /\ spill \in Seq(Nat)
  BY <1>2 DEF TypeOK
<1>5. Len(stage[s]) \in Nat /\ Len(accepted) \in Nat /\ Len(spill) \in Nat
  BY <1>4
<1>6. freeSlots' = freeSlots \cup {s} BY <1>2 DEF SpillStage
<1>7. CASE /\ Len(stage[s]) <= SpillBlocks - Len(spill)
           /\ spill' = spill \o stage[s] /\ accepted' = accepted \o stage[s]
           /\ UNCHANGED spillOverflow
  <2>1. /\ accepted' \in Seq(Nat)
        /\ Len(accepted') = Len(accepted) + Len(stage[s])
        /\ \A k \in 1 .. Len(accepted) : accepted'[k] = accepted[k]
        /\ \A k \in 1 .. Len(stage[s]) :
             accepted'[Len(accepted) + k] = stage[s][k]
    <3>1. accepted' = accepted \o stage[s] BY <1>7
    <3> QED BY <1>4, <3>1, ConcatResult
  <2>2. /\ spill' \in Seq(Nat)
        /\ Len(spill') = Len(spill) + Len(stage[s])
        /\ \A k \in 1 .. Len(spill) : spill'[k] = spill[k]
        /\ \A k \in 1 .. Len(stage[s]) : spill'[Len(spill) + k] = stage[s][k]
    <3>1. spill' = spill \o stage[s] BY <1>7
    <3> QED BY <1>4, <3>1, ConcatResult
  <2>3. Len(spill') <= SpillBlocks
    BY <1>5, <1>7, <2>2, ReturnAssumption
  <2> QED BY <1>2, <1>3, <1>6, <1>7, <2>1, <2>2, <2>3
<1>8. CASE spillOverflow' = spillOverflow + 1 /\ UNCHANGED <<spill, accepted>>
  BY <1>2, <1>3, <1>6, <1>8
<1> QED BY <1>2, <1>7, <1>8 DEF SpillStage

LEMMA RefillLengthType ==
  ASSUME TypeOK
  PROVE  /\ RefillLength \in Nat /\ RefillLength <= Len(spill)
         /\ RefillLength <= BounceBlocks
<1>1. Len(spill) \in Nat /\ BounceBlocks \in Nat /\ PacketBlocks \in Nat \ {0}
  BY ReturnAssumption DEF TypeOK
<1> DEFINE n == Least(BounceBlocks, Len(spill))
<1>2. n \in Nat /\ n <= Len(spill) /\ n <= BounceBlocks BY <1>1 DEF Least
<1>3. n % PacketBlocks \in Nat /\ n % PacketBlocks <= n
  <2> HIDE DEF n
  <2> QED BY <1>1, <1>2
<1> QED BY <1>1, <1>2, <1>3 DEF RefillLength

\* refillBounces() moves the head of the spill into a bounce buffer.
LEMMA RefillEffect ==
  ASSUME TypeOK, RefillBounce, NEW n, n = RefillLength
  PROVE  /\ nextBounce \in Bounces /\ ~bounceBusy[nextBounce]
         /\ n \in Nat \ {0} /\ n <= Len(spill) /\ Len(spill) \in Nat
         /\ bounce' \in [Bounces -> Seq(Nat)]
         /\ \A b \in Bounces : b # nextBounce => bounce'[b] = bounce[b]
         /\ Len(bounce'[nextBounce]) = n
         /\ \A k \in 1 .. n : bounce'[nextBounce][k] = spill[k]
         /\ spill' \in Seq(Nat) /\ Len(spill') = Len(spill) - n
         /\ \A k \in 1 .. Len(spill') : spill'[k] = spill[n + k]
         /\ seg' = [kind |-> "bounce", slot |-> nextBounce, length |-> n,
                    from |-> Len(accepted) - Len(spill)]
<1>1. nextBounce \in Bounces
  BY ReturnAssumption DEF TypeOK, RefillBounce, Bounces
<1>2. n \in Nat \ {0} /\ n <= Len(spill) /\ Len(spill) \in Nat
  BY RefillLengthType DEF RefillBounce, TypeOK
<1>4. spill \in Seq(Nat) /\ n \in 1 .. Len(spill) BY <1>2 DEF TypeOK
<1>5. /\ SubSeq(spill, 1, n) \in Seq(Nat) /\ Len(SubSeq(spill, 1, n)) = n
      /\ \A k \in 1 .. n : SubSeq(spill, 1, n)[k] = spill[k]
      /\ SubSeq(spill, n + 1, Len(spill)) \in Seq(Nat)
      /\ Len(SubSeq(spill, n + 1, Len(spill))) = Len(spill) - n
      /\ \A k \in 1 .. Len(spill) - n :
           SubSeq(spill, n + 1, Len(spill))[k] = spill[n + k]
  BY <1>4, SplitElements
<1>6. bounce' = [bounce EXCEPT ![nextBounce] = SubSeq(spill, 1, n)]
  BY DEF RefillBounce
<1>7. /\ bounce' \in [Bounces -> Seq(Nat)]
      /\ bounce'[nextBounce] = SubSeq(spill, 1, n)
      /\ \A b \in Bounces : b # nextBounce => bounce'[b] = bounce[b]
  BY <1>1, <1>5, <1>6 DEF TypeOK
<1>8. spill' = SubSeq(spill, n + 1, Len(spill)) BY DEF RefillBounce
<1>9. seg' = [kind |-> "bounce", slot |-> nextBounce, length |-> n,
              from |-> Len(accepted) - Len(spill)]
  BY DEF RefillBounce
<1>10. ~bounceBusy[nextBounce] BY DEF RefillBounce
<1> QED BY <1>1, <1>2, <1>5, <1>7, <1>8, <1>9, <1>10
---------------------------------------------------------------------------
(* Type correctness.  It is not inductive alone: that the place of a bounce *)
(* segment in the stream is a number needs that the spill is not longer     *)
(* than what has been accepted.                                             *)

TInv ==
  /\ TypeOK
  /\ Len(spill) <= Len(accepted)
  /\ upc = "push" => seg \in Segment

LEMMA TInvInit == Init => TInv
<1> SUFFICES ASSUME Init PROVE TInv OBVIOUS
<1>1. /\ Len(<<>>) = 0 /\ <<>> \in Seq(Nat) /\ <<>> \in Seq(Slots)
      /\ <<>> \in Seq(Segment)
  BY EmptySeq
<1>2. Len(spill) <= SpillBlocks /\ Len(ring) <= ArmDepth
      /\ 0 \in 0 .. BounceCount
  BY <1>1, ReturnAssumption DEF Init
<1>3. /\ stage \in [Slots -> Seq(Nat)] /\ bounce \in [Bounces -> Seq(Nat)]
      /\ bounceBusy \in [Bounces -> BOOLEAN]
  BY <1>1 DEF Init
<1>4. Len(spill) <= Len(accepted) BY <1>1 DEF Init
<1>5. made \in Nat /\ spillOverflow \in Nat /\ armFailures \in Nat
      /\ nextBounce \in 0 .. BounceCount
  BY <1>2 DEF Init
<1>6. /\ readyQ \in Seq(Slots) /\ ring \in Seq(Segment)
      /\ spill \in Seq(Nat) /\ accepted \in Seq(Nat) /\ wire \in Seq(Nat)
  BY <1>1 DEF Init
<1>7. TypeOK BY <1>2, <1>3, <1>5, <1>6 DEF Init, TypeOK
<1> QED BY <1>4, <1>7 DEF Init, TInv

LEMMA TInvStep == TInv /\ [Next]_vars => TInv'
<1> SUFFICES ASSUME TInv, [Next]_vars PROVE TInv' OBVIOUS
<1>0. TypeOK /\ Len(spill) \in Nat /\ Len(accepted) \in Nat
  BY DEF TInv, TypeOK
<1>1. CASE CodecStage
  <2> PICK s \in freeSlots :
        /\ freeSlots' = freeSlots \ {s}
        /\ stage' = [stage EXCEPT ![s] = StageData(made)]
        /\ readyQ' = Append(readyQ, s)
    BY <1>1 DEF CodecStage
  <2>1. s \in Slots /\ StageData(made) \in Seq(Nat)
    BY <1>0, <1>1, StageDataType DEF CodecStage, TypeOK
  <2>2. /\ freeSlots' \subseteq Slots /\ stage' \in [Slots -> Seq(Nat)]
        /\ readyQ' \in Seq(Slots) /\ made' \in Nat
    BY <1>0, <1>1, <2>1, AppendProperties DEF CodecStage, TypeOK
  <2> QED
    BY <1>0, <1>1, <2>2
    DEF CodecStage, TInv, TypeOK, spillVars, armVars, usbVars
<1>2. CASE CodecFinishes
  BY <1>2 DEF CodecFinishes, TInv, TypeOK, spillVars, armVars, usbVars
<1>3. CASE DispatchStage
  <2>1. CASE DirectStage
    <3> DEFINE s == readyQ[1]
    <3>2. /\ readyQ' \in Seq(Slots) /\ seg' \in Segment /\ s \in Slots
          /\ accepted' \in Seq(Nat)
          /\ Len(accepted') = Len(accepted) + Len(stage[s])
      BY <1>0, <1>3, <2>1, DirectEffect
    <3>3. Len(stage[s]) \in Nat /\ Len(spill) <= Len(accepted)
      BY <3>2 DEF TInv, TypeOK
    <3> HIDE DEF s
    <3>1. Len(spill) <= Len(accepted') BY <1>0, <3>2, <3>3
    <3> QED
      BY <1>0, <1>3, <2>1, <3>1, <3>2
      DEF DispatchStage, DirectStage, TInv, TypeOK, armVars, spillVars
  <2>2. CASE SpillStage
    <3> DEFINE s == readyQ[1]
    <3>1. /\ s \in Slots /\ readyQ' \in Seq(Slots)
          /\ freeSlots' = freeSlots \cup {s}
      BY <1>0, <1>3, <2>2, SpillEffect
    <3>2. /\ Len(stage[s]) \in Nat /\ Len(spill) <= Len(accepted)
          /\ accepted \in Seq(Nat) /\ spill \in Seq(Nat)
          /\ Len(spill) <= SpillBlocks /\ spillOverflow \in Nat
      BY <1>0, <3>1 DEF TInv, TypeOK
    <3>4. \/ /\ accepted' \in Seq(Nat) /\ spill' \in Seq(Nat)
             /\ Len(accepted') = Len(accepted) + Len(stage[s])
             /\ Len(spill') = Len(spill) + Len(stage[s])
             /\ Len(spill') <= SpillBlocks
             /\ UNCHANGED spillOverflow
          \/ /\ UNCHANGED <<accepted, spill>>
             /\ spillOverflow' = spillOverflow + 1
      BY <1>0, <1>3, <2>2, SpillEffect
    <3> HIDE DEF s
    <3>3. /\ accepted' \in Seq(Nat) /\ spill' \in Seq(Nat)
          /\ Len(spill') <= SpillBlocks /\ Len(spill') <= Len(accepted')
          /\ spillOverflow' \in Nat
      BY <1>0, <3>2, <3>4
    <3> QED
      BY <1>0, <1>3, <2>2, <3>1, <3>3
      DEF DispatchStage, SpillStage, TInv, TypeOK, armVars
  <2> QED BY <1>3, <2>1, <2>2 DEF DispatchStage
<1>4. CASE StartRefill
  <2>1. 0 \in 0 .. BounceCount BY ReturnAssumption
  <2> QED
    BY <1>4, <2>1 DEF StartRefill, TInv, TypeOK, codecVars, spillVars, armVars
<1>5. CASE SkipBusyBounce
  <2>1. nextBounce' \in 0 .. BounceCount
    BY <1>5, ReturnAssumption DEF SkipBusyBounce, TInv, TypeOK
  <2> QED
    BY <1>5, <2>1
    DEF SkipBusyBounce, TInv, TypeOK, codecVars, spillVars, armVars
<1>6. CASE RefillBounce
  <2> DEFINE n == RefillLength
  <2>1. /\ n \in Nat \ {0} /\ n <= Len(spill) /\ nextBounce \in Bounces
        /\ bounce' \in [Bounces -> Seq(Nat)]
        /\ spill' \in Seq(Nat) /\ Len(spill') = Len(spill) - n
        /\ seg' = [kind |-> "bounce", slot |-> nextBounce, length |-> n,
                   from |-> Len(accepted) - Len(spill)]
    BY <1>0, <1>6, RefillEffect
  <2> HIDE DEF n
  <2>2. Len(accepted) - Len(spill) \in Nat BY <1>0 DEF TInv
  <2>3. seg' \in Segment BY <2>1, <2>2 DEF Segment
  <2>7. /\ Len(spill) <= SpillBlocks /\ Len(spill) <= Len(accepted)
        /\ SpillBlocks \in Nat
    BY ReturnAssumption DEF TInv, TypeOK
  <2>4. Len(spill') <= SpillBlocks /\ Len(spill') <= Len(accepted)
    BY <1>0, <2>1, <2>7
  <2>5. nextBounce' \in 0 .. BounceCount
    BY <1>6, ReturnAssumption DEF RefillBounce, TInv, TypeOK
  <2>6. bounceBusy' \in [Bounces -> BOOLEAN]
    BY <1>0, <1>6, <2>1 DEF RefillBounce, MarkBusy, TypeOK
  <2> QED
    BY <1>0, <1>6, <2>1, <2>3, <2>4, <2>5, <2>6
    DEF RefillBounce, TInv, TypeOK, codecVars, armVars
<1>7. CASE EndRefill
  BY <1>7 DEF EndRefill, TInv, TypeOK, codecVars, spillVars, armVars
<1>8. CASE Push
  <2>1. ring' \in Seq(Segment) /\ Len(ring') <= ArmDepth
    <3>1. CASE Len(ring) < ArmDepth
      <4>1. /\ ring' \in Seq(Segment) /\ Len(ring') = Len(ring) + 1
            /\ Len(ring) \in Nat
        BY <1>0, <1>8, <3>1, PushEffect DEF TInv, TypeOK, Push
      <4> QED BY <3>1, <4>1, ReturnAssumption
    <3>2. CASE ~(Len(ring) < ArmDepth)
      BY <1>0, <1>8, <3>2 DEF Push, TypeOK
    <3> QED BY <3>1, <3>2
  <2>2. upc' \in {"arm", "pushed"} BY <1>8 DEF Push
  <2> QED
    BY <1>0, <1>8, <2>1, <2>2 DEF Push, TInv, TypeOK, codecVars, spillVars
<1>9. ASSUME Claim PROVE /\ ring' \in Seq(Segment) /\ Len(ring') <= ArmDepth
                         /\ inflight' \in Segment
  <2>1. /\ ring' \in Seq(Segment) /\ Len(ring') = Len(ring) - 1
        /\ inflight' \in Segment /\ Len(ring) \in Nat
    BY <1>0, <1>9, ClaimEffect
  <2> QED BY <1>0, <2>1, ReturnAssumption DEF TypeOK
<1>10. CASE UsbArm
  <2>1. CASE Claim /\ upc' = "write"
    BY <1>0, <1>9, <1>10, <2>1
    DEF UsbArm, Claim, TInv, TypeOK, codecVars, spillVars
  <2>2. CASE NothingToClaim /\ upc' = "pushed"
    BY <1>0, <1>10, <2>2
    DEF UsbArm, NothingToClaim, TInv, TypeOK, codecVars, spillVars, armVars
  <2> QED BY <1>10, <2>1, <2>2 DEF UsbArm
<1>11. CASE UsbWrite
  <2>1. CASE WriteDirect
    BY <1>0, <1>11, <2>1
    DEF UsbWrite, WriteDirect, TInv, TypeOK, codecVars, spillVars
  <2>2. CASE WriteDirectFails
    BY <1>0, <1>11, <2>2
    DEF UsbWrite, WriteDirectFails, TInv, TypeOK, codecVars, spillVars
  <2> QED BY <1>11, <2>1, <2>2 DEF UsbWrite
<1>12. CASE Pushed
  BY <1>12 DEF Pushed, TInv, TypeOK, codecVars, spillVars, armVars
<1>13. CASE CheckExit
  BY <1>13 DEF CheckExit, TInv, TypeOK, codecVars, spillVars, armVars
<1>14. CASE TxComplete
  <2>1. endpoint \in Segment BY <1>0, <1>14 DEF TxComplete, TypeOK
  <2>2. Content(endpoint) \in Seq(Nat)
    BY <1>0, <2>1 DEF Content, Segment, TypeOK
  <2>3. wire' \in Seq(Nat)
    BY <1>0, <1>14, <2>2, ConcatElements DEF TxComplete, TypeOK
  <2>4. freeSlots' \subseteq Slots /\ bounceBusy' \in [Bounces -> BOOLEAN]
    <3>1. freeSlots \subseteq Slots /\ bounceBusy \in [Bounces -> BOOLEAN]
      BY <1>0 DEF TypeOK
    <3>2. CASE inflight.kind = "stage" /\ UNCHANGED bounceBusy
               /\ freeSlots' = freeSlots \cup {inflight.slot}
      <4>1. inflight \in Segment BY <1>0, <3>2 DEF TypeOK, NoSegment
      <4>2. inflight.slot \in Slots BY <3>2, <4>1 DEF Segment
      <4> QED BY <3>1, <3>2, <4>2
    <3>3. CASE inflight.kind = "bounce" /\ UNCHANGED freeSlots
               /\ bounceBusy' = [bounceBusy EXCEPT ![inflight.slot] = FALSE]
      BY <3>1, <3>3
    <3> QED BY <1>14, <3>2, <3>3 DEF TxComplete
  <2> QED
    BY <1>0, <1>14, <2>3, <2>4 DEF TxComplete, TInv, TypeOK, usbVars
<1>15. CASE CallbackArm
  <2>1. CASE Claim /\ cpc' = "write"
    BY <1>0, <1>9, <1>15, <2>1
    DEF CallbackArm, Claim, TInv, TypeOK, codecVars, spillVars, usbVars
  <2>2. CASE NothingToClaim /\ cpc' = "idle"
    BY <1>0, <1>15, <2>2 DEF CallbackArm, NothingToClaim, TInv, TypeOK,
                             codecVars, spillVars, armVars, usbVars
  <2> QED BY <1>15, <2>1, <2>2 DEF CallbackArm
<1>16. CASE CallbackWrite
  <2>1. CASE WriteDirect
    BY <1>0, <1>16, <2>1
    DEF CallbackWrite, WriteDirect, TInv, TypeOK, codecVars, spillVars, usbVars
  <2>2. CASE WriteDirectFails
    BY <1>0, <1>16, <2>2 DEF CallbackWrite, WriteDirectFails, TInv, TypeOK,
                             codecVars, spillVars, usbVars
  <2> QED BY <1>16, <2>1, <2>2 DEF CallbackWrite
<1>17. CASE UNCHANGED vars
  BY <1>17 DEF TInv, TypeOK, vars, codecVars, spillVars, armVars, usbVars
<1> QED
  BY <1>1, <1>2, <1>3, <1>4, <1>5, <1>6, <1>7, <1>8, <1>10, <1>11, <1>12,
     <1>13, <1>14, <1>15, <1>16, <1>17
  DEF Next, UsbTask, Callback, Finished

\* The state is type correct.
THEOREM TypeCorrect == Spec => []TypeOK
<1>1. TInv => TypeOK BY DEF TInv
<1> QED BY <1>1, TInvInit, TInvStep, PTL DEF Spec

---------------------------------------------------------------------------
(* The ring and the transfer in flight.                                    *)

LEMMA RingRoomStep == TInv /\ ArmRingRoom /\ [Next]_vars => ArmRingRoom'
<1> SUFFICES ASSUME TInv, ArmRingRoom, [Next]_vars, upc' = "push"
             PROVE  Len(ring') < ArmDepth
  BY DEF ArmRingRoom
<1>0. /\ TypeOK /\ Len(ring) \in Nat /\ ArmQueued \in Nat
      /\ Len(ring) <= ArmQueued
      /\ ArmDepth \in Nat /\ DirectDepth \in Nat /\ DirectDepth <= ArmDepth
  BY ReturnAssumption DEF TInv, TypeOK, ArmQueued
<1>1. CASE UNCHANGED <<ring, upc>> BY <1>1 DEF ArmRingRoom
<1>2. CASE DispatchStage
  BY <1>0, <1>2 DEF DispatchStage, DirectNow, SpillStage, armVars
<1>3. CASE RefillBounce BY <1>0, <1>3 DEF RefillBounce, RingFull, armVars
<1>4. CASE CallbackArm
  <2>1. CASE Claim
    <3>1. Len(ring') = Len(ring) - 1 BY <1>0, <2>1, ClaimEffect
    <3>2. upc = "push" BY <1>4 DEF CallbackArm, usbVars
    <3> QED BY <1>0, <3>1, <3>2 DEF ArmRingRoom
  <2>2. CASE NothingToClaim
    BY <1>1, <1>4, <2>2 DEF CallbackArm, NothingToClaim, armVars, usbVars
  <2> QED BY <1>4, <2>1, <2>2 DEF CallbackArm
<1>5. CASE CodecStage \/ CodecFinishes \/ TxComplete \/ CallbackWrite
           \/ UNCHANGED vars
  BY <1>1, <1>5 DEF CodecStage, CodecFinishes, TxComplete, CallbackWrite,
     WriteDirect, WriteDirectFails, armVars, usbVars, vars
<1>6. CASE \/ StartRefill \/ SkipBusyBounce \/ EndRefill \/ Push
           \/ UsbArm \/ UsbWrite \/ Pushed \/ CheckExit
  BY <1>6 DEF StartRefill, SkipBusyBounce, EndRefill, Push, UsbArm, UsbWrite,
     Pushed, CheckExit
<1> QED
  BY <1>2, <1>3, <1>4, <1>5, <1>6 DEF Next, UsbTask, Callback, Finished

\* armPush() never refuses a segment.
THEOREM RingRoom == Spec => []ArmRingRoom
<1>1. Init => ArmRingRoom BY DEF Init, ArmRingRoom
<1> QED BY <1>1, TInvInit, TInvStep, RingRoomStep, PTL DEF Spec

\* Who holds the transfer: a claimed segment is either on its way to
\* writeDirect(), of one of the two tasks, or on the endpoint.
Transfer ==
  /\ inflight = NoSegment =>
       endpoint = NoSegment /\ upc # "write" /\ cpc # "write"
  /\ endpoint # NoSegment =>
       endpoint = inflight /\ upc # "write" /\ cpc # "write"
  /\ ~(upc = "write" /\ cpc = "write")
  /\ inflight # NoSegment /\ endpoint = NoSegment =>
       upc = "write" \/ cpc = "write"

TransferInv == Transfer /\ RingAwake

LEMMA TransferStep == TInv /\ TransferInv /\ [Next]_vars => TransferInv'
<1> SUFFICES ASSUME TInv, TransferInv, [Next]_vars PROVE TransferInv'
  OBVIOUS
<1>0. TypeOK BY DEF TInv
<1>1. CASE UNCHANGED <<ring, inflight, endpoint, armFailures, cpc>>
           /\ (upc # upc' => upc \notin {"arm", "write"}
                             /\ upc' \notin {"arm", "write"})
  BY <1>1 DEF TransferInv, Transfer, RingAwake
<1>2. CASE Push
  <2>1. /\ UNCHANGED <<inflight, endpoint, armFailures, cpc>>
        /\ upc = "push" /\ upc' \in {"arm", "pushed"}
        /\ upc' = "pushed" => UNCHANGED ring
    BY <1>2 DEF Push
  <2> QED BY <2>1 DEF TransferInv, Transfer, RingAwake
<1>3. ASSUME Claim
      PROVE  /\ inflight = NoSegment /\ inflight' \in Segment
             /\ UNCHANGED <<armFailures, endpoint>>
  BY <1>0, <1>3, ClaimEffect
<1>4. CASE UsbArm
  <2>1. CASE Claim /\ upc' = "write"
    BY <1>3, <1>4, <2>1, NoSegmentIsNone
    DEF UsbArm, TransferInv, Transfer, RingAwake
  <2>2. CASE NothingToClaim /\ upc' = "pushed"
    BY <1>4, <2>2
    DEF UsbArm, NothingToClaim, armVars, TransferInv, Transfer, RingAwake
  <2> QED BY <1>4, <2>1, <2>2 DEF UsbArm
<1>5. CASE CallbackArm
  <2>1. CASE Claim /\ cpc' = "write"
    BY <1>3, <1>5, <2>1, NoSegmentIsNone
    DEF CallbackArm, usbVars, TransferInv, Transfer, RingAwake
  <2>2. CASE NothingToClaim /\ cpc' = "idle"
    BY <1>5, <2>2 DEF CallbackArm, NothingToClaim, armVars, usbVars,
                      TransferInv, Transfer, RingAwake
  <2> QED BY <1>5, <2>1, <2>2 DEF CallbackArm
<1>6. CASE UsbWrite \/ CallbackWrite
  <2>1. /\ \/ upc = "write" /\ upc' = "pushed" /\ UNCHANGED cpc
           \/ cpc = "write" /\ cpc' = "idle" /\ UNCHANGED upc
        /\ UNCHANGED ring
        /\ WriteDirect \/ WriteDirectFails
    BY <1>6 DEF UsbWrite, CallbackWrite, usbVars, WriteDirect, WriteDirectFails
  <2>2. armFailures \in Nat BY <1>0 DEF TypeOK
  <2> QED
    BY <2>1, <2>2
    DEF WriteDirect, WriteDirectFails, TransferInv, Transfer, RingAwake
<1>7. CASE TxComplete
  BY <1>7 DEF TxComplete, usbVars, TransferInv, Transfer, RingAwake
<1>8. CASE CodecStage \/ CodecFinishes \/ DispatchStage \/ UNCHANGED vars
  BY <1>1, <1>8 DEF CodecStage, CodecFinishes, DispatchStage, DirectStage,
     SpillStage, armVars, usbVars, vars
<1>9. CASE \/ StartRefill \/ SkipBusyBounce \/ RefillBounce \/ EndRefill
           \/ Pushed \/ CheckExit
  BY <1>1, <1>9 DEF StartRefill, SkipBusyBounce, RefillBounce, EndRefill,
     Pushed, CheckExit, armVars
<1> QED
  BY <1>2, <1>4, <1>5, <1>6, <1>7, <1>8, <1>9
  DEF Next, UsbTask, Callback, Finished

LEMMA TransferInit == Init => TransferInv
  BY DEF Init, TransferInv, Transfer, RingAwake

\* A segment in the ring is never left to itself.
THEOREM RingStaysAwake == Spec => []RingAwake
<1>1. TransferInv => RingAwake BY DEF TransferInv
<1> QED
  BY <1>1, TInvInit, TInvStep, TransferInit, TransferStep, PTL DEF Spec

---------------------------------------------------------------------------
(* The queued segments by position: 0 is the transfer, 1 .. Len(ring) the   *)
(* ring, Len(ring) + 1 the segment usbTask is pushing.  An action moves     *)
(* every segment by the same distance (one for a claim, none for all the    *)
(* others) or adds one at the end, so that what is said of all positions    *)
(* is kept.                                                                 *)

At(p) == IF p = 0 THEN inflight ELSE IF p <= Len(ring) THEN ring[p] ELSE seg

Positions == {p \in 0 .. Len(ring) + 1 :
                /\ p = 0 => inflight # NoSegment
                /\ p = Len(ring) + 1 => upc = "push"}

\* Every segment queued after the step was queued d positions later before.
Moved(d) == \A p \in Positions' : p + d \in Positions /\ At(p)' = At(p + d)

\* usbTask has made a segment to push.
Grown ==
  \A p \in Positions' :
    \/ p \in Positions /\ p <= Len(ring) /\ At(p)' = At(p)
    \/ p = Len(ring) + 1 /\ At(p)' = seg'

LEMMA PositionType ==
  ASSUME TInv
  PROVE  /\ Len(ring) \in Nat /\ Positions \subseteq Nat
         /\ \A p \in Positions : At(p) \in Segment
<1>1. Len(ring) \in Nat /\ ring \in Seq(Segment)
      /\ inflight \in Segment \cup {NoSegment}
  BY DEF TInv, TypeOK
<1>2. ASSUME NEW p \in Positions PROVE At(p) \in Segment
  <2>1. CASE p = 0 BY <1>1, <1>2, <2>1 DEF Positions, At
  <2>2. CASE p \in 1 .. Len(ring) BY <1>1, <2>2 DEF At
  <2>3. CASE p = Len(ring) + 1 BY <1>1, <1>2, <2>3 DEF Positions, At, TInv
  <2> QED BY <1>1, <1>2, <2>1, <2>2, <2>3 DEF Positions
<1> QED BY <1>1, <1>2 DEF Positions

LEMMA StayMoves ==
  ASSUME TInv, UNCHANGED <<ring, inflight>>,
         upc' = "push" => upc = "push" /\ UNCHANGED seg
  PROVE  Moved(0)
<1>1. Len(ring) \in Nat BY DEF TInv, TypeOK
<1> SUFFICES ASSUME NEW p \in Positions'
             PROVE  p + 0 \in Positions /\ At(p)' = At(p + 0)
  BY DEF Moved
<1>2. p \in Nat /\ p + 0 = p BY <1>1 DEF Positions
<1> QED BY <1>1, <1>2 DEF Positions, At

LEMMA ClaimMoves ==
  ASSUME TInv, Claim, upc' = "push" => upc = "push" /\ UNCHANGED seg
  PROVE  Moved(1)
<1>1. /\ Len(ring) \in Nat \ {0} /\ Len(ring') = Len(ring) - 1
      /\ inflight' = ring[1]
      /\ \A k \in 1 .. Len(ring') : ring'[k] = ring[k + 1]
  BY ClaimEffect DEF TInv
<1> SUFFICES ASSUME NEW p \in Positions'
             PROVE  p + 1 \in Positions /\ At(p)' = At(p + 1)
  BY DEF Moved
<1>2. p \in 0 .. Len(ring) /\ (p = Len(ring) => upc' = "push")
  BY <1>1 DEF Positions
<1>3. p + 1 \in Positions BY <1>1, <1>2 DEF Positions
<1>4. CASE p = 0 BY <1>1, <1>3, <1>4 DEF At
<1>5. CASE p \in 1 .. Len(ring')
  <2>1. At(p)' = ring'[p] BY <1>1, <1>5 DEF At
  <2>2. At(p + 1) = ring[p + 1] BY <1>1, <1>5 DEF At
  <2> QED BY <1>1, <1>3, <1>5, <2>1, <2>2
<1>6. CASE p = Len(ring) /\ p # 0
  <2>1. At(p)' = seg' BY <1>1, <1>6 DEF At
  <2>2. At(p + 1) = seg BY <1>1, <1>6 DEF At
  <2> QED BY <1>2, <1>3, <1>6, <2>1, <2>2
<1> QED BY <1>1, <1>2, <1>4, <1>5, <1>6

LEMMA PushMoves ==
  ASSUME TInv, ArmRingRoom, Push
  PROVE  Moved(0)
<1>1. /\ Len(ring) \in Nat /\ Len(ring') = Len(ring) + 1 /\ upc' = "arm"
      /\ \A k \in 1 .. Len(ring) : ring'[k] = ring[k]
      /\ ring'[Len(ring) + 1] = seg
      /\ upc = "push" /\ UNCHANGED inflight
  BY PushEffect DEF TInv, TypeOK, ArmRingRoom, Push
<1> SUFFICES ASSUME NEW p \in Positions'
             PROVE  p + 0 \in Positions /\ At(p)' = At(p + 0)
  BY DEF Moved
<1>2. p \in 0 .. Len(ring) + 1 /\ p + 0 = p BY <1>1 DEF Positions
<1>3. p \in Positions BY <1>1, <1>2 DEF Positions
<1>4. CASE p = 0 BY <1>1, <1>3, <1>4 DEF At
<1>5. CASE p \in 1 .. Len(ring) BY <1>1, <1>3, <1>5 DEF At
<1>6. CASE p = Len(ring) + 1 BY <1>1, <1>3, <1>6 DEF At
<1> QED BY <1>1, <1>2, <1>4, <1>5, <1>6

\* The transfer ends, or could not be armed.
LEMMA ReleaseMoves ==
  ASSUME TInv, UNCHANGED ring, inflight' = NoSegment,
         upc' = "push" => upc = "push" /\ UNCHANGED seg
  PROVE  Moved(0) /\ 0 \notin Positions'
<1>1. Len(ring) \in Nat BY DEF TInv, TypeOK
<1>2. 0 \notin Positions' BY DEF Positions
<1>3. ASSUME NEW p \in Positions'
      PROVE  p + 0 \in Positions /\ At(p)' = At(p + 0)
  <2>1. p \in 1 .. Len(ring) + 1 /\ p + 0 = p BY <1>1, <1>2 DEF Positions
  <2> QED BY <1>1, <2>1 DEF Positions, At
<1> QED BY <1>2, <1>3 DEF Moved

LEMMA MakeGrows ==
  ASSUME TInv, UNCHANGED <<ring, inflight>>, upc # "push"
  PROVE  Grown
<1>1. Len(ring) \in Nat BY DEF TInv, TypeOK
<1> SUFFICES ASSUME NEW p \in Positions'
             PROVE  \/ p \in Positions /\ p <= Len(ring) /\ At(p)' = At(p)
                    \/ p = Len(ring) + 1 /\ At(p)' = seg'
  BY DEF Grown
<1>2. p \in 0 .. Len(ring) + 1 BY <1>1 DEF Positions
<1>3. CASE p <= Len(ring) BY <1>1, <1>2, <1>3 DEF Positions, At
<1>4. CASE p = Len(ring) + 1 BY <1>1, <1>4 DEF At
<1> QED BY <1>1, <1>2, <1>3, <1>4

\* Most steps touch no buffer: they move segments, or nothing.
LEMMA QuietSteps ==
  ASSUME TInv, ArmRingRoom, [Next]_vars
  PROVE  \/ CodecStage \/ DispatchStage \/ RefillBounce \/ TxComplete
         \/ /\ UNCHANGED <<made, freeSlots, stage, readyQ, spill, spillOverflow,
                            bounce, bounceBusy, accepted, wire>>
            /\ \E d \in {0, 1} : Moved(d)
<1>1. CASE Push
  BY <1>1, PushMoves DEF Push, codecVars, spillVars
<1>2. CASE UsbArm
  <2>1. CASE Claim /\ upc' = "write"
    <3>1. Moved(1) BY <2>1, ClaimMoves
    <3> QED BY <1>2, <3>1 DEF UsbArm, codecVars, spillVars
  <2>2. CASE NothingToClaim /\ upc' = "pushed"
    <3>1. Moved(0) BY <2>2, StayMoves DEF NothingToClaim, armVars
    <3> QED BY <1>2, <3>1 DEF UsbArm, codecVars, spillVars
  <2> QED BY <1>2, <2>1, <2>2 DEF UsbArm
<1>3. CASE CallbackArm
  <2>1. CASE Claim
    <3>1. Moved(1) BY <1>3, <2>1, ClaimMoves DEF CallbackArm, usbVars
    <3> QED BY <1>3, <3>1 DEF CallbackArm, codecVars, spillVars
  <2>2. CASE NothingToClaim
    <3>1. Moved(0)
      BY <1>3, <2>2, StayMoves DEF CallbackArm, NothingToClaim, armVars, usbVars
    <3> QED BY <1>3, <3>1 DEF CallbackArm, codecVars, spillVars
  <2> QED BY <1>3, <2>1, <2>2 DEF CallbackArm
<1>4. CASE UsbWrite \/ CallbackWrite
  <2>1. Moved(0)
    <3>1. CASE WriteDirect
      BY <1>4, <3>1, StayMoves DEF WriteDirect, UsbWrite, CallbackWrite, usbVars
    <3>2. CASE WriteDirectFails
      BY <1>4, <3>2, ReleaseMoves
      DEF WriteDirectFails, UsbWrite, CallbackWrite, usbVars
    <3> QED BY <1>4, <3>1, <3>2 DEF UsbWrite, CallbackWrite
  <2> QED BY <1>4, <2>1 DEF UsbWrite, CallbackWrite, codecVars, spillVars
<1>5. CASE CodecFinishes \/ UNCHANGED vars
  <2>1. Moved(0)
    BY <1>5, StayMoves DEF CodecFinishes, vars, armVars, usbVars
  <2> QED BY <1>5, <2>1 DEF CodecFinishes, vars, codecVars, spillVars
<1>6. CASE StartRefill \/ SkipBusyBounce \/ EndRefill \/ Pushed \/ CheckExit
  <2>1. Moved(0)
    BY <1>6, StayMoves
    DEF StartRefill, SkipBusyBounce, EndRefill, Pushed, CheckExit, armVars
  <2> QED
    BY <1>6, <2>1 DEF StartRefill, SkipBusyBounce, EndRefill, Pushed, CheckExit,
       codecVars, spillVars
<1> QED
  BY <1>1, <1>2, <1>3, <1>4, <1>5, <1>6 DEF Next, UsbTask, Callback, Finished

---------------------------------------------------------------------------
(* Every buffer has one owner.                                             *)

ReadyOwned ==
  \A j \in 1 .. Len(readyQ) :
    /\ readyQ[j] \notin freeSlots
    /\ \A k \in 1 .. Len(readyQ) : readyQ[j] = readyQ[k] => j = k

Owned(s) ==
  /\ s.kind = "stage" =>
       s.slot \notin freeSlots /\ \A k \in 1 .. Len(readyQ) : readyQ[k] # s.slot
  /\ s.kind = "bounce" => bounceBusy[s.slot]

SegmentsOwned ==
  /\ \A p \in Positions : Owned(At(p))
  /\ \A p, q \in Positions :
       At(p).kind = At(q).kind /\ At(p).slot = At(q).slot => p = q

Ownership == ReadyOwned /\ SegmentsOwned

LEMMA OwnedMoves ==
  ASSUME TInv, SegmentsOwned, NEW d \in {0, 1}, Moved(d),
         \A p \in Positions', s \in Segment : s = At(p + d) /\ Owned(s) => Owned(s)'
  PROVE  SegmentsOwned'
<1>1. ASSUME NEW p \in Positions' PROVE Owned(At(p))'
  <2>1. p + d \in Positions /\ At(p)' = At(p + d) BY DEF Moved
  <2> PICK s \in Segment : s = At(p + d) BY <2>1, PositionType
  <2>2. Owned(s) BY <2>1 DEF SegmentsOwned
  <2>3. Owned(s)' BY <2>2
  <2> QED BY <2>1, <2>3 DEF Owned
<1>2. ASSUME NEW p \in Positions', NEW q \in Positions',
             At(p)'.kind = At(q)'.kind, At(p)'.slot = At(q)'.slot
      PROVE  p = q
  <2>1. /\ p + d \in Positions /\ At(p)' = At(p + d)
        /\ q + d \in Positions /\ At(q)' = At(q + d)
    BY DEF Moved
  <2>2. p + d = q + d BY <1>2, <2>1 DEF SegmentsOwned
  <2>3. p \in Int /\ q \in Int BY DEF Positions
  <2> QED BY <2>2, <2>3
<1> QED BY <1>1, <1>2 DEF SegmentsOwned

LEMMA OwnedGrows ==
  ASSUME TInv, SegmentsOwned, Grown, Owned(seg)',
         \A p \in Positions, s \in Segment : s = At(p) /\ Owned(s) =>
           Owned(s)' /\ ~(s.kind = seg'.kind /\ s.slot = seg'.slot)
  PROVE  SegmentsOwned'
<1>1. ASSUME NEW p \in Positions
      PROVE  /\ Owned(At(p)) /\ At(p) \in Segment
             /\ ~(At(p).kind = seg'.kind /\ At(p).slot = seg'.slot)
    BY PositionType DEF SegmentsOwned
<1>2. ASSUME NEW p \in Positions' PROVE Owned(At(p))'
  <2>1. CASE p \in Positions /\ At(p)' = At(p)
    <3> PICK s \in Segment : s = At(p) BY <2>1, <1>1
    <3>1. Owned(s)' BY <2>1, <1>1
    <3> QED BY <2>1, <3>1 DEF Owned
  <2>2. CASE At(p)' = seg' BY <2>2 DEF Owned
  <2> QED BY <2>1, <2>2 DEF Grown
<1>3. ASSUME NEW p \in Positions', NEW q \in Positions',
             At(p)'.kind = At(q)'.kind, At(p)'.slot = At(q)'.slot
      PROVE  p = q
  BY <1>1, <1>3 DEF Grown, SegmentsOwned
<1> QED BY <1>2, <1>3 DEF SegmentsOwned

LEMMA OwnershipInit == Init => Ownership
<1> SUFFICES ASSUME Init PROVE Ownership OBVIOUS
<1>1. Positions = {} BY DEF Init, Positions
<1>2. Len(readyQ) = 0 BY DEF Init
<1> QED BY <1>1, <1>2 DEF Ownership, ReadyOwned, SegmentsOwned

LEMMA OwnershipStep ==
  ASSUME TInv, ArmRingRoom, TransferInv, Ownership, [Next]_vars
  PROVE  Ownership'
<1>0. /\ TypeOK /\ Len(readyQ) \in Nat /\ Len(ring) \in Nat
      /\ ReadyOwned /\ SegmentsOwned
  BY DEF TInv, TypeOK, Ownership
<1>1. ASSUME UNCHANGED <<freeSlots, readyQ, bounceBusy>>,
             NEW d \in {0, 1}, Moved(d)
      PROVE  Ownership'
  <2>1. \A s \in Segment : Owned(s) => Owned(s)' BY <1>1 DEF Owned
  <2>2. SegmentsOwned' BY <1>0, <1>1, <2>1, OwnedMoves
  <2>3. ReadyOwned' BY <1>0, <1>1 DEF ReadyOwned
  <2> QED BY <2>2, <2>3 DEF Ownership
<1>2. CASE CodecStage
  <2> PICK x \in freeSlots : /\ freeSlots' = freeSlots \ {x}
                             /\ readyQ' = Append(readyQ, x)
    BY <1>2 DEF CodecStage
  <2>1. x \in Slots /\ readyQ \in Seq(Slots) BY <1>0 DEF TypeOK
  <2>2. /\ Len(readyQ') = Len(readyQ) + 1 /\ readyQ'[Len(readyQ) + 1] = x
        /\ \A k \in 1 .. Len(readyQ) : readyQ'[k] = readyQ[k]
    BY <2>1, AppendProperties
  <2>3. \A k \in 1 .. Len(readyQ') : readyQ'[k] = x \/ k \in 1 .. Len(readyQ)
    BY <1>0, <2>2
  <2>4. \A s \in Segment : Owned(s) => Owned(s)'
    BY <1>0, <1>2, <2>2, <2>3
    DEF Owned, CodecStage, spillVars
  <2>5. ReadyOwned'
    <3>1. ASSUME NEW j \in 1 .. Len(readyQ') PROVE readyQ'[j] \notin freeSlots'
      BY <1>0, <2>2, <2>3 DEF ReadyOwned
    <3>2. ASSUME NEW j \in 1 .. Len(readyQ'), NEW k \in 1 .. Len(readyQ'),
                 readyQ'[j] = readyQ'[k]
          PROVE  j = k
      <4>1. (j \in 1 .. Len(readyQ) \/ j = Len(readyQ) + 1)
            /\ (k \in 1 .. Len(readyQ) \/ k = Len(readyQ) + 1)
        BY <1>0, <2>2
      <4>2. \A i \in 1 .. Len(readyQ) : readyQ'[i] # x
        BY <1>0, <2>2 DEF ReadyOwned
      <4> QED BY <1>0, <2>2, <3>2, <4>1, <4>2 DEF ReadyOwned
    <3> QED BY <3>1, <3>2 DEF ReadyOwned
  <2>6. Moved(0) BY <1>2, StayMoves DEF CodecStage, armVars, usbVars
  <2>7. SegmentsOwned' BY <1>0, <2>4, <2>6, OwnedMoves
  <2> QED BY <2>5, <2>7 DEF Ownership
<1>3. CASE DispatchStage
  <2> DEFINE x == readyQ[1]
  <2>1. /\ x \in Slots /\ Len(readyQ') = Len(readyQ) - 1
        /\ 1 \in 1 .. Len(readyQ)
        /\ \A k \in 1 .. Len(readyQ') : readyQ'[k] = readyQ[k + 1]
    BY <1>0, <1>3, DirectEffect, SpillEffect DEF DispatchStage
  <2>2. x \notin freeSlots BY <1>0, <2>1 DEF ReadyOwned
  <2>3. \A k \in 1 .. Len(readyQ') : readyQ'[k] # x /\ k + 1 \in 1 .. Len(readyQ)
    <3> TAKE k \in 1 .. Len(readyQ')
    <3>1. k + 1 \in 1 .. Len(readyQ) /\ k + 1 # 1 BY <1>0, <2>1
    <3> QED BY <1>0, <2>1, <3>1 DEF ReadyOwned
  <2>4. freeSlots' = freeSlots \/ freeSlots' = freeSlots \cup {x}
    BY <1>0, <1>3, SpillEffect DEF DispatchStage, DirectStage
  <2> HIDE DEF x
  <2>5. ReadyOwned'
    <3>1. ASSUME NEW j \in 1 .. Len(readyQ') PROVE readyQ'[j] \notin freeSlots'
      BY <1>0, <2>1, <2>3, <2>4 DEF ReadyOwned
    <3>2. ASSUME NEW j \in 1 .. Len(readyQ'), NEW k \in 1 .. Len(readyQ'),
                 readyQ'[j] = readyQ'[k]
          PROVE  j = k
      <4>1. j + 1 = k + 1 BY <1>0, <2>1, <2>3, <3>2 DEF ReadyOwned
      <4> QED BY <4>1
    <3> QED BY <3>1, <3>2 DEF ReadyOwned
  <2>6. UNCHANGED bounceBusy BY <1>3 DEF DispatchStage, DirectStage, SpillStage,
                                         spillVars
  <2>7. \A s \in Segment : Owned(s) => Owned(s)'
    <3> SUFFICES ASSUME NEW s \in Segment, Owned(s) PROVE Owned(s)' OBVIOUS
    <3>1. s.kind = "stage" => s.slot # x /\ s.slot \notin freeSlots
      BY <2>1 DEF Owned, x
    <3>2. s.kind = "stage" => \A k \in 1 .. Len(readyQ') : readyQ'[k] # s.slot
      BY <2>1, <2>3 DEF Owned
    <3> QED BY <2>4, <2>6, <3>1, <3>2 DEF Owned
  <2>8. SegmentsOwned'
    <3>1. CASE DirectStage
      <4>1. Grown BY <1>3, <3>1, MakeGrows DEF DispatchStage, armVars
      <4>2. /\ seg'.kind = "stage" /\ seg'.slot = x
            /\ UNCHANGED freeSlots
        BY <1>0, <1>3, <3>1, DirectEffect DEF DirectStage, x
      <4>3. Owned(seg)' BY <2>2, <2>3, <4>2 DEF Owned
      <4>4. \A s \in Segment :
              Owned(s) => ~(s.kind = seg'.kind /\ s.slot = seg'.slot)
        BY <2>1, <4>2 DEF Owned, x
      <4> QED BY <1>0, <2>7, <4>1, <4>3, <4>4, OwnedGrows
    <3>2. CASE SpillStage
      <4>1. Moved(0)
        BY <1>3, <3>2, StayMoves DEF DispatchStage, SpillStage, armVars
      <4> QED BY <1>0, <2>7, <4>1, OwnedMoves
    <3> QED BY <1>3, <3>1, <3>2 DEF DispatchStage
  <2> QED BY <2>5, <2>8 DEF Ownership
<1>4. CASE RefillBounce
  <2>1. /\ nextBounce \in Bounces /\ ~bounceBusy[nextBounce]
        /\ bounceBusy' = [bounceBusy EXCEPT ![nextBounce] = TRUE]
        /\ bounceBusy \in [Bounces -> BOOLEAN]
        /\ seg'.kind = "bounce" /\ seg'.slot = nextBounce
        /\ UNCHANGED <<freeSlots, readyQ>>
    BY <1>0, <1>4, RefillEffect DEF RefillBounce, MarkBusy, codecVars, TypeOK
  <2>2. Grown BY <1>4, MakeGrows DEF RefillBounce, armVars
  <2>3. \A s \in Segment : Owned(s) => Owned(s)'
    <3> SUFFICES ASSUME NEW s \in Segment, Owned(s) PROVE Owned(s)' OBVIOUS
    <3>1. s.kind = "bounce" => bounceBusy'[s.slot]
      BY <2>1 DEF Owned, Segment
    <3> QED BY <2>1, <3>1 DEF Owned
  <2>4. Owned(seg)' BY <2>1 DEF Owned
  <2>5. \A s \in Segment :
          Owned(s) => ~(s.kind = seg'.kind /\ s.slot = seg'.slot)
    BY <2>1 DEF Owned
  <2>6. SegmentsOwned' BY <1>0, <2>2, <2>3, <2>4, <2>5, OwnedGrows
  <2> QED BY <1>0, <2>1, <2>6 DEF Ownership, ReadyOwned
<1>5. CASE TxComplete
  <2>1. Moved(0) /\ 0 \notin Positions'
    BY <1>5, ReleaseMoves DEF TxComplete, usbVars
  <2>2. inflight \in Segment /\ inflight # NoSegment /\ Owned(inflight)
    <3>1. inflight \in Segment /\ inflight # NoSegment
      BY <1>0, <1>5, NoSegmentIsNone
      DEF TxComplete, TransferInv, Transfer, TypeOK
    <3>2. 0 \in Positions BY <1>0, <3>1 DEF Positions
    <3>3. At(0) = inflight BY DEF At
    <3> QED BY <1>0, <3>1, <3>2, <3>3 DEF SegmentsOwned
  <2>3. 0 \in Positions /\ At(0) = inflight BY <1>0, <2>2 DEF Positions, At
  <2>4. ASSUME NEW p \in Positions', NEW s \in Segment, s = At(p + 0), Owned(s)
        PROVE  Owned(s)'
    <3>1. p + 0 \in Positions /\ p + 0 # 0
      <4>1. p \in Nat /\ p # 0 BY <2>1 DEF Positions
      <4> QED BY <2>1, <4>1 DEF Moved
    <3>2. ~(s.kind = inflight.kind /\ s.slot = inflight.slot)
      BY <1>0, <2>3, <2>4, <3>1 DEF SegmentsOwned
    <3>3. s.kind = "stage" =>
            /\ s.slot \notin freeSlots'
            /\ \A k \in 1 .. Len(readyQ') : readyQ'[k] # s.slot
      BY <1>5, <2>4, <3>2 DEF TxComplete, Owned
    <3>4. s.kind = "bounce" => bounceBusy'[s.slot]
      BY <1>0, <1>5, <2>4, <3>2 DEF TxComplete, Owned, TypeOK, Segment
    <3> QED BY <3>3, <3>4 DEF Owned
  <2>5. SegmentsOwned' BY <1>0, <2>1, <2>4, OwnedMoves
  <2>6. ReadyOwned'
    BY <1>0, <1>5, <2>2 DEF TxComplete, ReadyOwned, Owned
  <2> QED BY <2>5, <2>6 DEF Ownership
<1> QED
  BY <1>1, <1>2, <1>3, <1>4, <1>5, QuietSteps

LEMMA QueuedAt ==
  ASSUME TInv
  PROVE  \A s \in Queued : \E p \in Positions : s = At(p)
<1> SUFFICES ASSUME NEW s \in Queued PROVE \E p \in Positions : s = At(p)
  OBVIOUS
<1>0. Len(ring) \in Nat /\ ring \in Seq(Segment) BY DEF TInv, TypeOK
<1>1. CASE s \in {ring[k] : k \in DOMAIN ring}
  <2> PICK k \in DOMAIN ring : s = ring[k] BY <1>1
  <2>1. k \in 1 .. Len(ring) BY <1>0
  <2>2. k \in Positions /\ At(k) = s BY <1>0, <2>1 DEF Positions, At
  <2> QED BY <2>2
<1>2. CASE s \in {inflight} \ {NoSegment}
  <2>1. 0 \in Positions /\ At(0) = s BY <1>0, <1>2 DEF Positions, At
  <2> QED BY <2>1
<1>3. CASE upc = "push" /\ s = seg
  <2>1. Len(ring) + 1 \in Positions /\ At(Len(ring) + 1) = s
    BY <1>0, <1>3 DEF Positions, At
  <2> QED BY <2>1
<1> QED BY <1>1, <1>2, <1>3 DEF Queued

LEMMA OwnershipIsOneOwner == TInv /\ Ownership => OneOwner
<1> SUFFICES ASSUME TInv, Ownership PROVE OneOwner OBVIOUS
<1>0. DOMAIN readyQ = 1 .. Len(readyQ) /\ ReadyOwned /\ SegmentsOwned
  BY DEF TInv, TypeOK, Ownership
<1>1. ASSUME NEW s \in Queued
      PROVE  /\ Owned(s)
             /\ \A t \in Queued : s.kind = t.kind /\ s.slot = t.slot => s = t
  <2> PICK p \in Positions : s = At(p) BY QueuedAt
  <2>1. Owned(s) BY <1>0 DEF SegmentsOwned, Owned
  <2>2. ASSUME NEW t \in Queued, s.kind = t.kind, s.slot = t.slot
        PROVE  s = t
    <3> PICK q \in Positions : t = At(q) BY QueuedAt
    <3> QED BY <1>0, <2>2 DEF SegmentsOwned
  <2> QED BY <2>1, <2>2
<1> QED BY <1>0, <1>1 DEF OneOwner, Owned, ReadyOwned

\* The inductive invariant so far.
OwnerInv == TInv /\ ArmRingRoom /\ TransferInv /\ Ownership

LEMMA OwnerInvInit == Init => OwnerInv
<1>1. Init => ArmRingRoom BY DEF Init, ArmRingRoom
<1> QED BY <1>1, TInvInit, TransferInit, OwnershipInit DEF OwnerInv

LEMMA OwnerInvStep == OwnerInv /\ [Next]_vars => OwnerInv'
  BY TInvStep, RingRoomStep, TransferStep, OwnershipStep DEF OwnerInv

\* A queued buffer has one owner.
THEOREM BuffersHaveOneOwner == Spec => []OneOwner
<1>1. OwnerInv => OneOwner BY OwnershipIsOneOwner DEF OwnerInv
<1> QED BY <1>1, OwnerInvInit, OwnerInvStep, PTL DEF Spec

---------------------------------------------------------------------------
(* The data of the queued segments and of the spill.                       *)

\* The buffer of s holds the accepted blocks it was queued with.
Holds(s) ==
  /\ s.from + s.length <= Len(accepted) /\ Len(Content(s)) = s.length
  /\ \A j \in 1 .. s.length : Content(s)[j] = accepted[s.from + j]

SpillIsTail ==
  \A k \in 1 .. Len(spill) :
    spill[k] = accepted[Len(accepted) - Len(spill) + k]

DataInv == SpillIsTail /\ \A p \in Positions : Holds(At(p))

\* Blocks are only added to the accepted ones.
Extended ==
  /\ Len(accepted) <= Len(accepted') /\ Len(accepted') \in Nat
  /\ \A k \in 1 .. Len(accepted) : accepted'[k] = accepted[k]

LEMMA HoldsOn ==
  ASSUME TInv, Extended, NEW s \in Segment, Holds(s), Content(s)' = Content(s)
  PROVE  Holds(s)'
<1>1. /\ s.from \in Nat /\ s.length \in Nat /\ Len(accepted) \in Nat
      /\ s.from + s.length <= Len(accepted)
  BY DEF Segment, TInv, TypeOK, Holds
<1>2. s.from + s.length <= Len(accepted') BY <1>1 DEF Extended
<1>3. ASSUME NEW j \in 1 .. s.length
      PROVE  Content(s)'[j] = accepted'[s.from + j]
  <2>1. s.from + j \in 1 .. Len(accepted) BY <1>1
  <2> QED BY <2>1 DEF Extended, Holds
<1> QED BY <1>2, <1>3 DEF Holds

LEMMA HoldsMoves ==
  ASSUME TInv, \A p \in Positions : Holds(At(p)), Extended,
         NEW d \in {0, 1}, Moved(d),
         \A p \in Positions, s \in Segment : s = At(p) => Content(s)' = Content(s)
  PROVE  \A p \in Positions' : Holds(At(p))'
<1> SUFFICES ASSUME NEW p \in Positions' PROVE Holds(At(p))' OBVIOUS
<1>1. p + d \in Positions /\ At(p)' = At(p + d) BY DEF Moved
<1> PICK s \in Segment : s = At(p + d) BY <1>1, PositionType
<1>2. Holds(s) BY <1>1 DEF Holds, Content
<1>3. Holds(s)' BY <1>1, <1>2, HoldsOn
<1> QED BY <1>1, <1>3 DEF Holds, Content

LEMMA HoldsGrows ==
  ASSUME TInv, \A p \in Positions : Holds(At(p)), Extended, Grown, Holds(seg)',
         \A p \in Positions, s \in Segment : s = At(p) => Content(s)' = Content(s)
  PROVE  \A p \in Positions' : Holds(At(p))'
<1> SUFFICES ASSUME NEW p \in Positions' PROVE Holds(At(p))' OBVIOUS
<1>1. CASE p \in Positions /\ At(p)' = At(p)
  <2> PICK s \in Segment : s = At(p) BY <1>1, PositionType
  <2>1. Holds(s) BY <1>1 DEF Holds, Content
  <2>2. Holds(s)' BY <1>1, <2>1, HoldsOn
  <2> QED BY <1>1, <2>2 DEF Holds, Content
<1>2. CASE At(p)' = seg' BY <1>2 DEF Holds, Content
<1> QED BY <1>1, <1>2 DEF Grown

LEMMA DataInit == Init => DataInv
<1> SUFFICES ASSUME Init PROVE DataInv OBVIOUS
<1>1. Positions = {} BY DEF Init, Positions
<1>2. Len(spill) = 0 BY DEF Init
<1> QED BY <1>1, <1>2 DEF DataInv, SpillIsTail

LEMMA DataStep ==
  ASSUME OwnerInv, DataInv, [Next]_vars
  PROVE  DataInv'
<1>0. /\ TInv /\ TypeOK /\ ArmRingRoom /\ SegmentsOwned
      /\ \A p \in Positions : Holds(At(p))
      /\ Len(accepted) \in Nat /\ Len(spill) \in Nat
      /\ Len(spill) <= Len(accepted)
  BY DEF OwnerInv, TInv, TypeOK, Ownership, DataInv
<1>1. UNCHANGED accepted => Extended BY <1>0 DEF Extended
<1>2. ASSUME UNCHANGED <<stage, bounce>>, NEW s \in Segment
      PROVE  Content(s)' = Content(s)
  BY <1>2 DEF Content
<1>3. ASSUME UNCHANGED <<stage, bounce, accepted, spill>>,
             NEW d \in {0, 1}, Moved(d)
      PROVE  DataInv'
  <2>1. \A p \in Positions' : Holds(At(p))'
    BY <1>0, <1>1, <1>2, <1>3, HoldsMoves
  <2> QED BY <1>0, <1>3, <2>1 DEF DataInv, SpillIsTail
<1>4. CASE CodecStage
  <2> PICK x \in freeSlots : stage' = [stage EXCEPT ![x] = StageData(made)]
    BY <1>4 DEF CodecStage
  <2>1. UNCHANGED <<bounce, accepted, spill>> /\ Moved(0)
    BY <1>0, <1>4, StayMoves DEF CodecStage, spillVars, armVars, usbVars
  <2>2. ASSUME NEW p \in Positions, NEW s \in Segment, s = At(p)
        PROVE  Content(s)' = Content(s)
    <3>1. Owned(s) BY <1>0, <2>2 DEF SegmentsOwned, Owned
    <3>2. s.kind = "stage" => s.slot # x BY <3>1 DEF Owned
    <3> QED BY <1>0, <2>1, <3>2 DEF Content, TypeOK, Segment
  <2>3. \A p \in Positions' : Holds(At(p))'
    BY <1>0, <1>1, <2>1, <2>2, HoldsMoves
  <2> QED BY <1>0, <2>1, <2>3 DEF DataInv, SpillIsTail
<1>5. CASE DispatchStage /\ DirectStage
  <2> DEFINE x == readyQ[1]
  <2>1. /\ x \in Slots
        /\ seg' = [kind |-> "stage", slot |-> x, length |-> Len(stage[x]),
                   from |-> Len(accepted)]
        /\ Len(accepted') = Len(accepted) + Len(stage[x])
        /\ \A k \in 1 .. Len(accepted) : accepted'[k] = accepted[k]
        /\ \A k \in 1 .. Len(stage[x]) :
             accepted'[Len(accepted) + k] = stage[x][k]
    BY <1>0, <1>5, DirectEffect
  <2> HIDE DEF x
  <2>2. UNCHANGED <<stage, bounce, spill>> /\ spill = <<>> /\ Grown
    BY <1>0, <1>5, MakeGrows
    DEF DispatchStage, DirectNow, DirectStage, spillVars, armVars, SpillStage
  <2>3. Len(stage[x]) \in Nat BY <1>0, <2>1 DEF TypeOK
  <2>4. Extended BY <1>0, <2>1, <2>3 DEF Extended
  <2>5. Holds(seg)' BY <1>0, <2>1, <2>2, <2>3 DEF Holds, Content
  <2>6. \A p \in Positions' : Holds(At(p))'
    BY <1>0, <1>2, <2>2, <2>4, <2>5, HoldsGrows
  <2> QED BY <2>2, <2>6 DEF DataInv, SpillIsTail
<1>6. CASE DispatchStage /\ SpillStage
  <2> DEFINE x == readyQ[1]
  <2>1. /\ x \in Slots
        /\ \/ /\ Len(accepted') = Len(accepted) + Len(stage[x])
              /\ Len(spill') = Len(spill) + Len(stage[x])
              /\ \A k \in 1 .. Len(accepted) : accepted'[k] = accepted[k]
              /\ \A k \in 1 .. Len(spill) : spill'[k] = spill[k]
              /\ \A k \in 1 .. Len(stage[x]) :
                   /\ accepted'[Len(accepted) + k] = stage[x][k]
                   /\ spill'[Len(spill) + k] = stage[x][k]
           \/ UNCHANGED <<accepted, spill>>
    BY <1>0, <1>6, SpillEffect
  <2> HIDE DEF x
  <2>2. UNCHANGED <<stage, bounce>> /\ Moved(0)
    BY <1>0, <1>6, StayMoves DEF DispatchStage, SpillStage, armVars
  <2>3. Len(stage[x]) \in Nat BY <1>0, <2>1 DEF TypeOK
  <2>4. CASE UNCHANGED <<accepted, spill>> BY <1>3, <2>2, <2>4
  <2>5. CASE /\ Len(accepted') = Len(accepted) + Len(stage[x])
             /\ Len(spill') = Len(spill) + Len(stage[x])
             /\ \A k \in 1 .. Len(accepted) : accepted'[k] = accepted[k]
             /\ \A k \in 1 .. Len(spill) : spill'[k] = spill[k]
             /\ \A k \in 1 .. Len(stage[x]) :
                  /\ accepted'[Len(accepted) + k] = stage[x][k]
                  /\ spill'[Len(spill) + k] = stage[x][k]
    <3>1. Extended BY <1>0, <2>3, <2>5 DEF Extended
    <3>2. \A p \in Positions' : Holds(At(p))'
      BY <1>0, <1>2, <2>2, <3>1, HoldsMoves
    <3>3. ASSUME NEW k \in 1 .. Len(spill')
          PROVE  spill'[k] = accepted'[Len(accepted') - Len(spill') + k]
      <4> DEFINE base == Len(accepted) - Len(spill)
      <4>1. Len(accepted') - Len(spill') = base /\ base \in Nat
        BY <1>0, <2>3, <2>5
      <4>2. CASE k \in 1 .. Len(spill)
        <5>1. base + k \in 1 .. Len(accepted) BY <1>0, <4>2
        <5>2. spill[k] = accepted[base + k]
          BY <4>2 DEF DataInv, SpillIsTail
        <5> QED BY <2>5, <4>1, <4>2, <5>1, <5>2
      <4>3. CASE k > Len(spill)
        <5> DEFINE j == k - Len(spill)
        <5>1. j \in 1 .. Len(stage[x]) /\ Len(spill) + j = k
              /\ Len(accepted) + j = base + k
          BY <1>0, <2>3, <2>5, <4>3
        <5> HIDE DEF j
        <5>2. accepted'[Len(accepted) + j] = stage[x][j]
              /\ spill'[Len(spill) + j] = stage[x][j]
          BY <2>5, <5>1
        <5> QED BY <4>1, <5>1, <5>2
      <4> QED BY <1>0, <4>2, <4>3
    <3> QED BY <3>2, <3>3 DEF DataInv, SpillIsTail
  <2> QED BY <2>1, <2>4, <2>5
<1>7. CASE RefillBounce
  <2> DEFINE n == RefillLength
  <2>1. /\ nextBounce \in Bounces /\ ~bounceBusy[nextBounce]
        /\ n \in Nat \ {0} /\ n <= Len(spill)
        /\ bounce' \in [Bounces -> Seq(Nat)]
        /\ \A b \in Bounces : b # nextBounce => bounce'[b] = bounce[b]
        /\ Len(bounce'[nextBounce]) = n
        /\ \A k \in 1 .. n : bounce'[nextBounce][k] = spill[k]
        /\ Len(spill') = Len(spill) - n
        /\ \A k \in 1 .. Len(spill') : spill'[k] = spill[n + k]
        /\ seg' = [kind |-> "bounce", slot |-> nextBounce, length |-> n,
                   from |-> Len(accepted) - Len(spill)]
    BY <1>0, <1>7, RefillEffect
  <2> HIDE DEF n
  <2>2. UNCHANGED <<stage, accepted>> /\ Grown
    BY <1>0, <1>7, MakeGrows DEF RefillBounce, codecVars, armVars
  <2>3. ASSUME NEW p \in Positions, NEW s \in Segment, s = At(p)
        PROVE  Content(s)' = Content(s)
    <3>1. Owned(s) BY <1>0, <2>3 DEF SegmentsOwned, Owned
    <3>2. s.kind = "bounce" => s.slot \in Bounces /\ s.slot # nextBounce
      BY <2>1, <3>1 DEF Owned, Segment
    <3>3. s.kind # "stage" => s.kind = "bounce" BY DEF Segment
    <3> QED BY <2>1, <2>2, <3>2, <3>3 DEF Content
  <2>4. Holds(seg)'
    <3>1. \A j \in 1 .. n : spill[j] = accepted[Len(accepted) - Len(spill) + j]
      BY <1>0, <2>1 DEF DataInv, SpillIsTail
    <3>2. Len(accepted) - Len(spill) + n <= Len(accepted) BY <1>0, <2>1
    <3> QED BY <2>1, <2>2, <3>1, <3>2 DEF Holds, Content
  <2>5. \A p \in Positions' : Holds(At(p))'
    BY <1>0, <1>1, <2>2, <2>3, <2>4, HoldsGrows
  <2>6. ASSUME NEW k \in 1 .. Len(spill')
        PROVE  spill'[k] = accepted'[Len(accepted') - Len(spill') + k]
    <3>1. /\ n + k \in 1 .. Len(spill)
          /\ Len(accepted) - Len(spill) + (n + k)
               = Len(accepted) - Len(spill') + k
      BY <1>0, <2>1
    <3>2. spill[n + k] = accepted[Len(accepted) - Len(spill) + (n + k)]
      BY <3>1 DEF DataInv, SpillIsTail
    <3> QED BY <2>1, <2>2, <3>1, <3>2
  <2> QED BY <2>5, <2>6 DEF DataInv, SpillIsTail
<1>8. CASE TxComplete
  <2>1. Moved(0) BY <1>0, <1>8, ReleaseMoves DEF TxComplete, usbVars
  <2> QED BY <1>3, <1>8, <2>1 DEF TxComplete
<1> QED
  BY <1>0, <1>3, <1>4, <1>5, <1>6, <1>7, <1>8, QuietSteps
  DEF DispatchStage

DataOwnerInv == OwnerInv /\ DataInv

LEMMA DataIsKept == DataOwnerInv => QueuedDataKept
<1> SUFFICES ASSUME DataOwnerInv, NEW s \in Queued
             PROVE  Content(s) = SubSeq(accepted, s.from + 1, s.from + s.length)
  BY DEF QueuedDataKept
<1>0. TInv BY DEF DataOwnerInv, OwnerInv
<1> PICK p \in Positions : s = At(p) BY <1>0, QueuedAt
<1>1. s \in Segment /\ Holds(s)
  BY <1>0, PositionType DEF DataOwnerInv, DataInv, Holds, Content
<1> DEFINE m == s.from + 1
           n == s.from + s.length
           c == SubSeq(accepted, m, n)
<1>2. /\ s.from \in Nat /\ s.length \in Nat /\ Len(accepted) \in Nat
      /\ \A k \in 1 .. Len(accepted) : accepted[k] \in Nat
  <2>1. accepted \in Seq(Nat) BY <1>0 DEF TInv, TypeOK
  <2>2. s.from \in Nat /\ s.length \in Nat BY <1>1 DEF Segment
  <2>3. Len(accepted) \in Nat /\ \A k \in 1 .. Len(accepted) : accepted[k] \in Nat
    BY <2>1
  <2> QED BY <2>2, <2>3
<1>9. Content(s) \in Seq(Nat)
  BY <1>0, <1>1 DEF Segment, TInv, TypeOK, Content
<1>3. m \in Nat /\ n \in Nat /\ n - m + 1 = s.length BY <1>2
<1>4. \A k \in m .. n : accepted[k] \in Nat BY <1>1, <1>2 DEF Holds
<1>5. \A k \in 1 .. s.length : m + k - 1 = s.from + k BY <1>2
<1>6. /\ c \in Seq(Nat) /\ Len(c) = IF m <= n THEN n - m + 1 ELSE 0
      /\ \A k \in 1 .. n - m + 1 : c[k] = accepted[m + k - 1]
  <2> HIDE DEF m, n
  <2> QED BY <1>3, <1>4, SubSeqProperties
<1> HIDE DEF c
<1>7. Len(c) = s.length /\ \A k \in 1 .. s.length : c[k] = accepted[s.from + k]
  <2>1. m <= n \/ s.length = 0 BY <1>2
  <2> HIDE DEF m, n
  <2> QED BY <1>2, <1>3, <1>5, <1>6, <2>1
<1>8. Content(s) = c
  <2>1. Len(Content(s)) = s.length
        /\ \A k \in 1 .. s.length : Content(s)[k] = c[k]
    BY <1>1, <1>7 DEF Holds
  <2>2. c \in Seq(Nat) BY <1>6
  <2> QED BY <1>7, <1>9, <2>1, <2>2, SeqEqual
<1> QED BY <1>8 DEF c

\* The buffer of a queued segment keeps the blocks it was queued with.
THEOREM DataKept == Spec => []QueuedDataKept
<1>1. Init => DataOwnerInv BY OwnerInvInit, DataInit DEF DataOwnerInv
<1>2. DataOwnerInv /\ [Next]_vars => DataOwnerInv'
  BY OwnerInvStep, DataStep DEF DataOwnerInv
<1> QED BY <1>1, <1>2, DataIsKept, PTL DEF Spec

---------------------------------------------------------------------------
(* The host's order.  The queued segments continue what the host has, one  *)
(* after the other, up to where the spill begins.                          *)

\* Where segment p ends in the stream; what the host has if there is none.
Edge(p) ==
  IF p \in Positions THEN At(p).from + At(p).length ELSE Len(wire)

LastPosition == IF upc = "push" THEN Len(ring) + 1 ELSE Len(ring)

Chain ==
  armFailures = 0 =>
    /\ \A p \in Positions :
         At(p).from = IF p = 0 THEN Len(wire) ELSE Edge(p - 1)
    /\ Edge(LastPosition) = Len(accepted) - Len(spill)

StreamInv == Chain /\ HostInOrder

LEMMA StreamInit == Init => StreamInv
<1> SUFFICES ASSUME Init PROVE StreamInv OBVIOUS
<1>1. Positions = {} BY DEF Init, Positions
<1>2. Len(wire) = 0 /\ Len(spill) = 0 /\ Len(accepted) = 0 BY DEF Init
<1> QED BY <1>1, <1>2 DEF StreamInv, Chain, HostInOrder, Edge

\* Nothing is queued and nothing leaves the queue.
LEMMA ChainStays ==
  ASSUME TInv, Chain, UNCHANGED <<ring, inflight, wire>>,
         Len(accepted') - Len(spill') = Len(accepted) - Len(spill),
         armFailures' = 0 => armFailures = 0,
         upc = "push" \/ upc' = "push" => UNCHANGED <<upc, seg>>
  PROVE  Chain'
<1>1. Positions' = Positions BY DEF Positions
<1>2. \A p \in Positions : At(p)' = At(p)
  <2>1. Len(ring) \in Nat BY DEF TInv, TypeOK
  <2> QED BY <2>1 DEF At, Positions
<1>3. LastPosition' = LastPosition BY DEF LastPosition
<1>4. \A p : Edge(p)' = Edge(p) BY <1>1, <1>2 DEF Edge
<1>5. Edge(LastPosition)' = Edge(LastPosition) BY <1>1, <1>2, <1>3 DEF Edge
<1> QED BY <1>1, <1>2, <1>4, <1>5 DEF Chain

LEMMA ChainClaim ==
  ASSUME TInv, Chain, Claim, UNCHANGED <<wire, accepted, spill>>,
         upc = "push" \/ upc' = "push" => UNCHANGED <<upc, seg>>
  PROVE  Chain'
<1>1. /\ Len(ring) \in Nat \ {0} /\ Len(ring') = Len(ring) - 1
      /\ inflight = NoSegment /\ UNCHANGED armFailures
      /\ inflight' # NoSegment
  BY ClaimEffect, NoSegmentIsNone DEF TInv
<1>2. Moved(1) BY ClaimMoves
<1>3. \A p \in Nat : p \in Positions' <=> p + 1 \in Positions
  BY <1>1 DEF Positions
<1>4. \A p \in Nat : Edge(p)' = Edge(p + 1) BY <1>2, <1>3 DEF Edge, Moved
<1>5. Edge(0) = Len(wire) BY <1>1 DEF Edge, Positions
<1>6. LastPosition' \in Nat /\ LastPosition' + 1 = LastPosition
  BY <1>1 DEF LastPosition
<1>7. Edge(LastPosition)' = Edge(LastPosition)
  BY <1>2, <1>3, <1>6 DEF Edge, Moved
<1>8. ASSUME armFailures = 0, NEW p \in Positions'
      PROVE  At(p)'.from = IF p = 0 THEN Len(wire) ELSE Edge(p - 1)'
  <2>1. /\ p \in Nat /\ p + 1 \in Positions /\ At(p)' = At(p + 1)
        /\ p + 1 # 0 /\ p + 1 - 1 = p
    BY <1>2 DEF Moved, Positions
  <2>2. At(p + 1).from = Edge(p) BY <1>8, <2>1 DEF Chain
  <2>3. p # 0 => p - 1 \in Nat /\ p - 1 + 1 = p BY <2>1
  <2>4. p # 0 => Edge(p - 1)' = Edge(p) BY <1>4, <2>3
  <2> QED BY <1>5, <2>1, <2>2, <2>4
<1> QED BY <1>1, <1>7, <1>8 DEF Chain

LEMMA ChainPush ==
  ASSUME TInv, ArmRingRoom, Chain, Push
  PROVE  Chain'
<1>1. /\ Len(ring) \in Nat /\ Len(ring') = Len(ring) + 1
      /\ upc = "push" /\ upc' = "arm"
      /\ UNCHANGED <<inflight, wire, accepted, spill, armFailures>>
  BY PushEffect DEF TInv, TypeOK, ArmRingRoom, Push, spillVars
<1>2. Moved(0) BY PushMoves
<1>3. Positions' = Positions BY <1>1 DEF Positions
<1>4. \A p \in Positions : p + 0 = p BY DEF Positions
<1>5. \A p \in Positions : At(p)' = At(p) BY <1>2, <1>3, <1>4 DEF Moved
<1>6. LastPosition' = LastPosition BY <1>1 DEF LastPosition
<1>7. \A p : Edge(p)' = Edge(p) BY <1>1, <1>3, <1>5 DEF Edge
<1>8. Edge(LastPosition)' = Edge(LastPosition)
  BY <1>1, <1>3, <1>5, <1>6 DEF Edge
<1> QED BY <1>1, <1>3, <1>5, <1>7, <1>8 DEF Chain

\* A segment made at the end of the queue goes on where the queue ends.
LEMMA ChainGrows ==
  ASSUME TInv, Chain, UNCHANGED <<ring, inflight, wire, armFailures>>,
         upc # "push", upc' = "push",
         seg'.from = Len(accepted) - Len(spill),
         seg'.from + seg'.length = Len(accepted') - Len(spill')
  PROVE  Chain'
<1>1. Len(ring) \in Nat BY DEF TInv, TypeOK
<1> DEFINE e == Len(ring) + 1
<1>2. /\ Positions' = Positions \cup {e} /\ e \notin Positions
      /\ \A p \in Positions : p \in 0 .. Len(ring)
  BY <1>1 DEF Positions
<1>3. At(e)' = seg' /\ \A p \in Positions : At(p)' = At(p)
  BY <1>1, <1>2 DEF At
<1>4. LastPosition = Len(ring) /\ LastPosition' = e BY DEF LastPosition
<1>5. \A p : p # e => Edge(p)' = Edge(p) BY <1>2, <1>3 DEF Edge
<1>6. Edge(LastPosition)' = Len(accepted') - Len(spill')
  BY <1>2, <1>3, <1>4 DEF Edge
<1>7. ASSUME armFailures = 0, NEW p \in Positions'
      PROVE  At(p)'.from = IF p = 0 THEN Len(wire) ELSE Edge(p - 1)'
  <2>1. CASE p \in Positions
    <3>1. p - 1 # e BY <1>1, <1>2, <2>1
    <3> QED BY <1>3, <1>5, <1>7, <2>1, <3>1 DEF Chain
  <2>2. CASE p = e
    <3>1. p # 0 /\ p - 1 = Len(ring) /\ p - 1 # e BY <1>1, <2>2
    <3>2. Edge(p - 1)' = Edge(LastPosition) BY <1>4, <1>5, <3>1
    <3> QED BY <1>3, <1>7, <2>2, <3>1, <3>2 DEF Chain
  <2> QED BY <1>2, <2>1, <2>2
<1> QED BY <1>6, <1>7 DEF Chain

\* The transfer ends: what the host has now ends where the segment did.
LEMMA ChainDelivers ==
  ASSUME DataOwnerInv, StreamInv, TxComplete
  PROVE  StreamInv'
<1>0. TInv /\ TypeOK /\ Len(ring) \in Nat
      /\ wire \in Seq(Nat) /\ Len(wire) \in Nat
  BY DEF DataOwnerInv, OwnerInv, TInv, TypeOK
<1>1. /\ inflight \in Segment /\ inflight # NoSegment /\ endpoint = inflight
      /\ wire' = wire \o Content(inflight)
      /\ inflight' = NoSegment
      /\ UNCHANGED <<ring, upc, seg, accepted, spill, armFailures>>
  BY <1>0, NoSegmentIsNone DEF TxComplete, DataOwnerInv, OwnerInv, TransferInv,
     Transfer, TypeOK, usbVars
<1>2. 0 \in Positions /\ At(0) = inflight BY <1>0, <1>1 DEF Positions, At
<1> DEFINE c == Content(inflight)
           n == inflight.length
<1>3. /\ n \in Nat /\ inflight.from + n <= Len(accepted) /\ Len(c) = n
      /\ \A j \in 1 .. n : c[j] = accepted[inflight.from + j]
      /\ c \in Seq(Nat)
  <2>1. Holds(inflight) BY <1>2 DEF DataOwnerInv, DataInv, Holds, Content
  <2>2. n \in Nat BY <1>1 DEF Segment
  <2>3. c \in Seq(Nat) BY <1>0, <1>1 DEF Content, Segment, TypeOK
  <2> QED BY <2>1, <2>2, <2>3 DEF Holds
<1>4. /\ Len(wire') = Len(wire) + n
      /\ \A k \in 1 .. Len(wire) : wire'[k] = wire[k]
      /\ \A k \in 1 .. n : wire'[Len(wire) + k] = c[k]
  <2> HIDE DEF c, n
  <2>1. wire' = wire \o c BY <1>1 DEF c
  <2>2. wire \in Seq(Nat) /\ c \in Seq(Nat) /\ Len(c) = n BY <1>0, <1>3
  <2>3. /\ Len(wire \o c) = Len(wire) + Len(c)
        /\ \A k \in 1 .. Len(wire) : (wire \o c)[k] = wire[k]
        /\ \A k \in 1 .. Len(c) : (wire \o c)[Len(wire) + k] = c[k]
    BY <2>2, ConcatElements
  <2> QED BY <2>1, <2>2, <2>3
<1> HIDE DEF c, n
<1> SUFFICES ASSUME armFailures = 0 PROVE StreamInv'
  BY <1>1 DEF StreamInv, Chain, HostInOrder
<1>5. inflight.from = Len(wire)
  BY <1>2 DEF StreamInv, Chain
<1>6. HostInOrder'
  <2>1. Len(wire') <= Len(accepted) BY <1>0, <1>3, <1>4, <1>5
  <2>2. ASSUME NEW k \in 1 .. Len(wire') PROVE wire'[k] = accepted[k]
    <3>1. CASE k \in 1 .. Len(wire)
      BY <1>4, <3>1 DEF StreamInv, HostInOrder
    <3>2. CASE k > Len(wire)
      <4> DEFINE j == k - Len(wire)
      <4>1. j \in 1 .. n /\ Len(wire) + j = k BY <1>0, <1>3, <1>4, <3>2
      <4> HIDE DEF j
      <4> QED BY <1>3, <1>4, <1>5, <4>1
    <3> QED BY <1>0, <1>4, <3>1, <3>2
  <2> QED BY <1>1, <2>1, <2>2 DEF HostInOrder
<1>7. Chain'
  <2>1. Positions' = Positions \ {0} BY <1>0, <1>1 DEF Positions
  <2>2. \A p \in Positions' : At(p)' = At(p) BY <1>1, <2>1 DEF At
  <2>3. \A p \in Positions \cup {0} : Edge(p)' = Edge(p)
    <3>1. Edge(0)' = Edge(0)
      BY <1>2, <1>4, <1>5, <2>1 DEF Edge, n
    <3>2. \A p \in Positions \ {0} : Edge(p)' = Edge(p)
      BY <2>1, <2>2 DEF Edge
    <3> QED BY <3>1, <3>2
  <2>4. LastPosition' = LastPosition /\ LastPosition \in Positions \cup {0}
    BY <1>0, <1>1 DEF LastPosition, Positions
  <2>5. ASSUME NEW p \in Positions'
        PROVE  At(p)'.from = IF p = 0 THEN Len(wire') ELSE Edge(p - 1)'
    <3>1. p # 0 /\ p \in Positions /\ p - 1 \in Positions \cup {0}
      BY <1>0, <2>1 DEF Positions
    <3>2. At(p).from = Edge(p - 1) BY <3>1 DEF StreamInv, Chain
    <3> QED BY <2>2, <2>3, <2>5, <3>1, <3>2
  <2>6. Edge(LastPosition)' = Len(accepted') - Len(spill')
    <3>1. Edge(LastPosition)' = Edge(LastPosition)
      BY <2>1, <2>2, <2>3, <2>4 DEF Edge
    <3> QED BY <1>1, <3>1 DEF StreamInv, Chain
  <2> QED BY <2>5, <2>6 DEF Chain
<1> QED BY <1>6, <1>7 DEF StreamInv

LEMMA StreamStep ==
  ASSUME DataOwnerInv, StreamInv, [Next]_vars
  PROVE  StreamInv'
<1>0. /\ TInv /\ TypeOK /\ ArmRingRoom /\ Chain /\ HostInOrder
      /\ Len(accepted) \in Nat /\ Len(spill) \in Nat /\ Len(wire) \in Nat
      /\ armFailures \in Nat
  BY DEF DataOwnerInv, OwnerInv, TInv, TypeOK, StreamInv
<1>1. ASSUME Extended, UNCHANGED wire, armFailures' = 0 => armFailures = 0
      PROVE  HostInOrder'
  <2> SUFFICES ASSUME armFailures' = 0
               PROVE  /\ Len(wire) <= Len(accepted')
                      /\ \A k \in 1 .. Len(wire) : wire[k] = accepted'[k]
    BY <1>1 DEF HostInOrder
  <2>1. Len(wire) <= Len(accepted) /\ Len(accepted) <= Len(accepted')
        /\ Len(accepted') \in Nat
    BY <1>0, <1>1 DEF HostInOrder, Extended
  <2>2. \A k \in 1 .. Len(wire) : k \in 1 .. Len(accepted) BY <1>0, <2>1
  <2> QED BY <1>0, <1>1, <2>1, <2>2 DEF HostInOrder, Extended
<1>2. UNCHANGED accepted => Extended BY <1>0 DEF Extended
<1>3. ASSUME UNCHANGED <<ring, inflight, wire, accepted, spill>>,
             armFailures' = 0 => armFailures = 0,
             upc = "push" \/ upc' = "push" => UNCHANGED <<upc, seg>>
      PROVE  StreamInv'
  BY <1>0, <1>1, <1>2, <1>3, ChainStays DEF StreamInv
<1>4. ASSUME Claim, UNCHANGED <<wire, accepted, spill>>,
             upc = "push" \/ upc' = "push" => UNCHANGED <<upc, seg>>
      PROVE  StreamInv'
  <2>1. Chain' BY <1>0, <1>4, ChainClaim
  <2>2. UNCHANGED armFailures BY <1>4 DEF Claim
  <2> QED BY <1>1, <1>2, <1>4, <2>1, <2>2 DEF StreamInv
<1>5. CASE DispatchStage /\ DirectStage
  <2> DEFINE x == readyQ[1]
  <2>1. /\ x \in Slots
        /\ seg' = [kind |-> "stage", slot |-> x, length |-> Len(stage[x]),
                   from |-> Len(accepted)]
        /\ Len(accepted') = Len(accepted) + Len(stage[x])
        /\ \A k \in 1 .. Len(accepted) : accepted'[k] = accepted[k]
    BY <1>0, <1>5, DirectEffect
  <2> HIDE DEF x
  <2>2. /\ UNCHANGED <<ring, inflight, wire, armFailures, spill>>
        /\ upc # "push" /\ upc' = "push" /\ Len(spill) = 0
    BY <1>0, <1>5
    DEF DispatchStage, DirectNow, DirectStage, SpillStage, spillVars, armVars
  <2>3. Len(stage[x]) \in Nat BY <1>0, <2>1 DEF TypeOK
  <2>4. Extended BY <1>0, <2>1, <2>3 DEF Extended
  <2>5. /\ seg'.from = Len(accepted) - Len(spill)
        /\ seg'.from + seg'.length = Len(accepted') - Len(spill')
    BY <1>0, <2>1, <2>2, <2>3
  <2>6. Chain' BY <1>0, <2>2, <2>5, ChainGrows
  <2> QED BY <1>1, <2>2, <2>4, <2>6 DEF StreamInv
<1>6. CASE DispatchStage /\ SpillStage
  <2> DEFINE x == readyQ[1]
  <2>1. /\ x \in Slots
        /\ \/ /\ Len(accepted') = Len(accepted) + Len(stage[x])
              /\ Len(spill') = Len(spill) + Len(stage[x])
              /\ \A k \in 1 .. Len(accepted) : accepted'[k] = accepted[k]
           \/ UNCHANGED <<accepted, spill>>
    BY <1>0, <1>6, SpillEffect
  <2> HIDE DEF x
  <2>2. /\ UNCHANGED <<ring, inflight, wire, armFailures>>
        /\ upc # "push" /\ upc' # "push"
    BY <1>6 DEF DispatchStage, SpillStage, armVars
  <2>3. Len(stage[x]) \in Nat BY <1>0, <2>1 DEF TypeOK
  <2>4. Extended BY <1>0, <1>2, <2>1, <2>3 DEF Extended
  <2>5. Len(accepted') - Len(spill') = Len(accepted) - Len(spill)
    BY <1>0, <2>1, <2>3
  <2>6. Chain' BY <1>0, <2>2, <2>5, ChainStays
  <2> QED BY <1>1, <2>2, <2>4, <2>6 DEF StreamInv
<1>7. CASE RefillBounce
  <2> DEFINE n == RefillLength
  <2>1. /\ n \in Nat \ {0} /\ Len(spill') = Len(spill) - n
        /\ seg' = [kind |-> "bounce", slot |-> nextBounce, length |-> n,
                   from |-> Len(accepted) - Len(spill)]
    BY <1>0, <1>7, RefillEffect
  <2> HIDE DEF n
  <2>2. /\ UNCHANGED <<ring, inflight, wire, armFailures, accepted>>
        /\ upc # "push" /\ upc' = "push"
    BY <1>7 DEF RefillBounce, armVars
  <2>3. seg'.from + seg'.length = Len(accepted') - Len(spill')
    BY <1>0, <2>1, <2>2
  <2>4. Chain' BY <1>0, <2>1, <2>2, <2>3, ChainGrows
  <2> QED BY <1>1, <1>2, <2>2, <2>4 DEF StreamInv
<1>8. CASE Push
  <2>1. Chain' BY <1>0, <1>8, ChainPush
  <2>2. UNCHANGED <<wire, accepted, armFailures>> BY <1>8 DEF Push
  <2> QED BY <1>1, <1>2, <2>1, <2>2 DEF StreamInv
<1>9. CASE UsbArm
  <2>1. CASE Claim
    BY <1>4, <1>9, <2>1 DEF UsbArm, spillVars
  <2>2. CASE NothingToClaim
    BY <1>3, <1>9, <2>2 DEF UsbArm, NothingToClaim, armVars, spillVars
  <2> QED BY <1>9, <2>1, <2>2 DEF UsbArm
<1>10. CASE CallbackArm
  <2>1. CASE Claim
    BY <1>4, <1>10, <2>1 DEF CallbackArm, usbVars, spillVars
  <2>2. CASE NothingToClaim
    BY <1>3, <1>10, <2>2
    DEF CallbackArm, NothingToClaim, armVars, usbVars, spillVars
  <2> QED BY <1>10, <2>1, <2>2 DEF CallbackArm
<1>11. CASE UsbWrite \/ CallbackWrite
  <2>1. CASE WriteDirect
    BY <1>3, <1>11, <2>1
    DEF WriteDirect, UsbWrite, CallbackWrite, usbVars, spillVars
  <2>2. CASE WriteDirectFails
    <3>1. armFailures' # 0 BY <1>0, <2>2 DEF WriteDirectFails
    <3> QED BY <3>1 DEF StreamInv, Chain, HostInOrder
  <2> QED BY <1>11, <2>1, <2>2 DEF UsbWrite, CallbackWrite
<1>12. CASE TxComplete BY <1>12, ChainDelivers
<1>13. CASE CodecStage \/ CodecFinishes \/ UNCHANGED vars
  BY <1>3, <1>13
  DEF CodecStage, CodecFinishes, vars, armVars, usbVars, spillVars
<1>14. CASE StartRefill \/ SkipBusyBounce \/ EndRefill \/ Pushed \/ CheckExit
  BY <1>3, <1>14 DEF StartRefill, SkipBusyBounce, EndRefill, Pushed, CheckExit,
     armVars, spillVars
<1> QED
  BY <1>5, <1>6, <1>7, <1>8, <1>9, <1>10, <1>11, <1>12, <1>13, <1>14
  DEF Next, UsbTask, Callback, Finished, DispatchStage

\* The inductive invariant of the return path.
IInv == OwnerInv /\ DataInv /\ StreamInv

LEMMA IInvInit == Init => IInv
  BY OwnerInvInit, DataInit, StreamInit DEF IInv

LEMMA IInvStep == IInv /\ [Next]_vars => IInv'
  BY OwnerInvStep, DataStep, StreamStep DEF IInv, DataOwnerInv

\* The host gets the accepted blocks in order, whatever way each of them
\* took, as long as every transfer could be armed.
THEOREM HostGetsInOrder == Spec => []HostInOrder
<1>1. IInv => HostInOrder BY DEF IInv, StreamInv
<1> QED BY <1>1, IInvInit, IInvStep, PTL DEF Spec

---------------------------------------------------------------------------
(* UsbReturn implements OrderedStream (its safety part) when no transfer    *)
(* fails to be armed.                                                       *)

Turn == made - Len(readyQ)

\* The stages that wait for usbTask hold their own blocks, in index order.
ReadyInOrder ==
  /\ Len(readyQ) <= made
  /\ \A k \in 1 .. Len(readyQ) :
       /\ stage[readyQ[k]] = StageData(Turn + k - 1)
       /\ (Turn + k - 1) * StageBlocks < TargetBlocks

NoFailure == MaxFailures = 0 => armFailures = 0

RefInv == IInv /\ ReadyInOrder /\ NoFailure

LEMMA ReadyInOrderStep ==
  ASSUME IInv, ReadyInOrder, [Next]_vars
  PROVE  ReadyInOrder'
<1>0. /\ TInv /\ TypeOK /\ ArmRingRoom /\ ReadyOwned
      /\ readyQ \in Seq(Slots) /\ Len(readyQ) \in Nat /\ made \in Nat
      /\ Len(readyQ) <= made
  BY DEF IInv, OwnerInv, TInv, TypeOK, Ownership, ReadyInOrder
<1>1. CASE UNCHANGED <<made, readyQ, stage>>
  BY <1>1 DEF ReadyInOrder, Turn
<1>2. CASE CodecStage
  <2> PICK x \in freeSlots : /\ stage' = [stage EXCEPT ![x] = StageData(made)]
                             /\ readyQ' = Append(readyQ, x)
    BY <1>2 DEF CodecStage
  <2>1. /\ Len(readyQ') = Len(readyQ) + 1 /\ readyQ'[Len(readyQ) + 1] = x
        /\ \A k \in 1 .. Len(readyQ) : readyQ'[k] = readyQ[k]
        /\ x \in Slots
    BY <1>0, AppendProperties DEF TypeOK
  <2>2. made' = made + 1 /\ Turn' = Turn /\ Turn \in Nat
        /\ made * StageBlocks < TargetBlocks
    BY <1>0, <1>2, <2>1 DEF CodecStage, Turn
  <2>3. stage'[x] = StageData(made) /\ \A y \in Slots : y # x => stage'[y] = stage[y]
    BY <1>0, <2>1 DEF TypeOK
  <2>4. ASSUME NEW k \in 1 .. Len(readyQ')
        PROVE  /\ stage'[readyQ'[k]] = StageData(Turn + k - 1)
               /\ (Turn + k - 1) * StageBlocks < TargetBlocks
    <3>1. CASE k \in 1 .. Len(readyQ)
      <4>1. readyQ[k] # x /\ readyQ[k] \in Slots
        BY <1>0, <3>1 DEF ReadyOwned
      <4> QED BY <2>1, <2>3, <3>1, <4>1 DEF ReadyInOrder
    <3>2. CASE k = Len(readyQ) + 1
      <4>1. Turn + k - 1 = made BY <1>0, <3>2 DEF Turn
      <4> QED BY <2>1, <2>2, <2>3, <3>2, <4>1
    <3> QED BY <1>0, <2>1, <3>1, <3>2
  <2>5. Len(readyQ') <= made' BY <1>0, <2>1, <2>2
  <2>6. \A i : StageData(i)' = StageData(i) BY DEF StageData, Fill
  <2> QED BY <2>2, <2>4, <2>5, <2>6 DEF ReadyInOrder
<1>3. CASE DispatchStage
  <2>1. /\ Len(readyQ) \in Nat \ {0} /\ Len(readyQ') = Len(readyQ) - 1
        /\ \A k \in 1 .. Len(readyQ') : readyQ'[k] = readyQ[k + 1]
    BY <1>0, <1>3, DirectEffect, SpillEffect DEF DispatchStage
  <2>2. UNCHANGED <<made, stage>> /\ Turn' = Turn + 1 /\ Turn \in Nat
    BY <1>0, <1>3, <2>1 DEF DispatchStage, Turn
  <2>3. ASSUME NEW k \in 1 .. Len(readyQ')
        PROVE  /\ stage'[readyQ'[k]] = StageData(Turn' + k - 1)
               /\ (Turn' + k - 1) * StageBlocks < TargetBlocks
    <3>1. k + 1 \in 1 .. Len(readyQ) /\ Turn' + k - 1 = Turn + (k + 1) - 1
      BY <2>1, <2>2
    <3> QED BY <2>1, <2>2, <3>1 DEF ReadyInOrder
  <2>4. Len(readyQ') <= made' BY <1>0, <2>1, <2>2
  <2> QED BY <2>3, <2>4 DEF ReadyInOrder
<1>4. CASE RefillBounce \/ TxComplete
  BY <1>1, <1>4 DEF RefillBounce, TxComplete, codecVars
<1> QED BY <1>0, <1>1, <1>2, <1>3, <1>4, QuietSteps

LEMMA NoFailureStep == TInv /\ NoFailure /\ [Next]_vars => NoFailure'
<1> SUFFICES ASSUME TInv, NoFailure, [Next]_vars PROVE NoFailure' OBVIOUS
<1>1. CASE UNCHANGED armFailures BY <1>1 DEF NoFailure
<1>2. CASE UsbWrite \/ CallbackWrite
  <2>1. armFailures \in Nat BY DEF TInv, TypeOK
  <2> QED
    BY <1>1, <1>2, <2>1 DEF UsbWrite, CallbackWrite, WriteDirect,
       WriteDirectFails, NoFailure
<1>3. CASE UsbArm \/ CallbackArm
  BY <1>1, <1>3 DEF UsbArm, CallbackArm, Claim, NothingToClaim, armVars
<1>4. CASE \/ CodecStage \/ CodecFinishes \/ DispatchStage \/ StartRefill
           \/ SkipBusyBounce \/ RefillBounce \/ EndRefill \/ Push \/ Pushed
           \/ CheckExit \/ TxComplete \/ UNCHANGED vars
  BY <1>1, <1>4 DEF CodecStage, CodecFinishes, DispatchStage, StartRefill,
     SkipBusyBounce, RefillBounce, EndRefill, Push, Pushed, CheckExit,
     TxComplete, vars, armVars
<1> QED BY <1>2, <1>3, <1>4 DEF Next, UsbTask, Callback, Finished

LEMMA RefInvInit == Init => RefInv
<1> SUFFICES ASSUME Init PROVE RefInv OBVIOUS
<1>1. Len(readyQ) = 0 /\ made = 0 BY DEF Init
<1> QED BY <1>1, IInvInit DEF Init, RefInv, ReadyInOrder, NoFailure

LEMMA RefInvStep == RefInv /\ [Next]_vars => RefInv'
  BY IInvStep, ReadyInOrderStep, NoFailureStep DEF RefInv, IInv, OwnerInv

\* The two modules mean the same by the blocks of a stage.
LEMMA SameStageData ==
  ASSUME NEW i \in Nat, i * StageBlocks < TargetBlocks
  PROVE  Stream!StageData(i) = StageData(i) /\ Stream!Remaining(i) > 0
<1>1. i * StageBlocks \in Nat /\ StageBlocks \in Nat /\ TargetBlocks \in Nat
  BY ReturnAssumption
<1>2. Fill(i) = IF Stream!Remaining(i) < StageBlocks THEN Stream!Remaining(i)
               ELSE StageBlocks
  BY <1>1 DEF Fill, Least, Stream!Remaining
<1>3. Stream!Remaining(i) > 0 BY <1>1 DEF Stream!Remaining
<1> QED BY <1>2, <1>3 DEF Stream!StageData, StageData

LEMMA RefinementStep ==
  ASSUME RefInv, MaxFailures = 0, [Next]_vars
  PROVE  [Stream!Next]_(Stream!vars)
<1>0. /\ TInv /\ TypeOK /\ ArmRingRoom /\ DataOwnerInv /\ StreamInv
      /\ made \in Nat /\ Len(readyQ) \in Nat /\ Len(readyQ) <= made
      /\ armFailures = 0
  BY DEF RefInv, IInv, OwnerInv, DataOwnerInv, TInv, TypeOK, ReadyInOrder,
         NoFailure
<1>1. CASE UNCHANGED <<made, readyQ, spillOverflow, accepted, wire>>
  BY <1>1 DEF Stream!vars
<1>2. CASE CodecStage
  <2>1. Len(readyQ') = Len(readyQ) + 1 /\ made' = made + 1
    BY <1>0, <1>2, AppendProperties DEF CodecStage, TypeOK
  <2> QED BY <1>0, <1>2, <2>1 DEF CodecStage, spillVars, Stream!vars
<1>3. CASE DispatchStage
  <2> DEFINE x == readyQ[1]
  <2>1. /\ Len(readyQ) \in Nat \ {0} /\ Len(readyQ') = Len(readyQ) - 1
        /\ Head(readyQ) = x
    BY <1>0, <1>3, DirectEffect, SpillEffect DEF DispatchStage, TypeOK
  <2>2. /\ Turn \in Nat /\ Turn' = Turn + 1
        /\ stage[x] = StageData(Turn) /\ Turn * StageBlocks < TargetBlocks
    <3>1. Turn \in Nat /\ Turn' = Turn + 1
      BY <1>0, <1>3, <2>1 DEF DispatchStage, Turn
    <3>2. 1 \in 1 .. Len(readyQ) /\ Turn + 1 - 1 = Turn BY <2>1, <3>1
    <3> QED BY <3>1, <3>2 DEF RefInv, ReadyInOrder
  <2> HIDE DEF x
  <2>3. Stream!StageData(Turn) = stage[x] /\ Stream!Remaining(Turn) > 0
    BY <2>2, SameStageData
  <2>4. UNCHANGED wire BY <1>3 DEF DispatchStage
  <2>5. \/ accepted' = accepted \o stage[x] /\ UNCHANGED spillOverflow
        \/ UNCHANGED accepted /\ spillOverflow' = spillOverflow + 1
    BY <1>3, <2>1 DEF DispatchStage, DirectStage, SpillStage, spillVars
  <2>6. CASE accepted' = accepted \o stage[x] /\ UNCHANGED spillOverflow
    <3>1. Stream!Accept BY <2>2, <2>3, <2>4, <2>6 DEF Stream!Accept, Turn
    <3> QED BY <3>1 DEF Stream!Next
  <2>7. CASE UNCHANGED accepted /\ spillOverflow' = spillOverflow + 1
    <3>1. Stream!Drop BY <2>2, <2>3, <2>4, <2>7 DEF Stream!Drop, Turn
    <3> QED BY <3>1 DEF Stream!Next
  <2> QED BY <2>5, <2>6, <2>7
<1>4. CASE RefillBounce
  BY <1>1, <1>4 DEF RefillBounce, codecVars
<1>5. CASE TxComplete
  <2>1. UNCHANGED <<made, readyQ, spillOverflow, accepted, armFailures>>
    BY <1>5 DEF TxComplete
  <2>2. HostInOrder' BY <1>0, <1>5, ChainDelivers DEF StreamInv
  <2>3. /\ wire \in Seq(Nat) /\ wire' \in Seq(Nat) /\ accepted \in Seq(Nat)
        /\ Content(endpoint) \in Seq(Nat) /\ wire' = wire \o Content(endpoint)
    <3>1. endpoint \in Segment BY <1>0, <1>5 DEF TxComplete, TypeOK
    <3>2. Content(endpoint) \in Seq(Nat)
      BY <1>0, <3>1 DEF Content, Segment, TypeOK
    <3>3. wire' = wire \o Content(endpoint) BY <1>5 DEF TxComplete
    <3> QED BY <1>0, <3>2, <3>3, ConcatElements DEF TypeOK
  <2>4. /\ Len(wire') <= Len(accepted)
        /\ \A k \in 1 .. Len(wire') : wire'[k] = accepted[k]
    BY <1>0, <2>1, <2>2 DEF HostInOrder
  <2>5. wire' = SubSeq(accepted, 1, Len(wire'))
    <3> DEFINE n == Len(wire')
    <3>1. n \in Nat /\ Len(accepted) \in Nat /\ n <= Len(accepted)
          /\ \A k \in 1 .. n : accepted[k] \in Nat
      BY <2>3, <2>4
    <3>2. wire' \in Seq(Nat) /\ Len(wire') = n
          /\ \A k \in 1 .. n : wire'[k] = accepted[k]
      BY <2>3, <2>4
    <3> HIDE DEF n
    <3>3. /\ SubSeq(accepted, 1, n) \in Seq(Nat)
          /\ Len(SubSeq(accepted, 1, n)) = n
          /\ \A k \in 1 .. n : SubSeq(accepted, 1, n)[k] = accepted[k]
      BY <3>1, SubSeqProperties
    <3>4. wire' = SubSeq(accepted, 1, n) BY <3>2, <3>3, SeqEqual
    <3> QED BY <3>4 DEF n
  <2>6. CASE Len(wire') > Len(wire)
    <3>1. Len(wire') \in Len(wire) + 1 .. Len(accepted) BY <2>3, <2>4, <2>6
    <3>2. Stream!Deliver BY <2>1, <2>5, <3>1 DEF Stream!Deliver
    <3> QED BY <3>2 DEF Stream!Next
  <2>7. CASE ~(Len(wire') > Len(wire))
    <3>1. Len(wire') = Len(wire) + Len(Content(endpoint))
          /\ \A k \in 1 .. Len(wire) : wire'[k] = wire[k]
      BY <2>3, ConcatElements
    <3>2. Len(wire') = Len(wire) BY <2>3, <2>7, <3>1
    <3>3. wire' = wire BY <2>3, <3>1, <3>2, SeqEqual
    <3> QED BY <1>1, <2>1, <3>3
  <2> QED BY <2>6, <2>7
<1> QED BY <1>0, <1>1, <1>2, <1>3, <1>4, <1>5, QuietSteps

\* The return path promises an ordered stream: it takes the stages in index
\* order, each whole or not at all, and delivers what it has taken in order.
THEOREM Implements ==
  ASSUME MaxFailures = 0
  PROVE  Spec => Stream!Spec
<1>1. Init => Stream!Init
  <2> SUFFICES ASSUME Init PROVE Stream!Init OBVIOUS
  <2>1. made = 0 /\ Len(readyQ) = 0 BY DEF Init
  <2>2. made - Len(readyQ) = 0 BY <2>1
  <2> QED BY <2>2 DEF Init, Stream!Init
<1>2. RefInv /\ [Next]_vars => [Stream!Next]_(Stream!vars)
  BY RefinementStep
<1> QED BY <1>1, <1>2, RefInvInit, RefInvStep, PTL DEF Spec, Stream!Spec

---------------------------------------------------------------------------
(* The end of the run: what usbTask leaves behind.                          *)

\* Once the codec has ended nothing is added to the stages that wait, and the loop
\* ends with the spill, the ring and the endpoint empty.
Ended ==
  /\ final => codecFinished /\ readyQ = <<>>
  /\ upc = "done" => final /\ spill = <<>> /\ ring = <<>> /\ inflight = NoSegment

LEMMA EndedStep ==
  ASSUME TInv, TransferInv, Ended, [Next]_vars
  PROVE  Ended'
<1>1. ring \in Seq(Segment) /\ Len(ring) \in Nat BY DEF TInv, TypeOK
<1>2. CASE CodecStage
  <2>1. ~final BY <1>2 DEF CodecStage, Ended
  <2> QED BY <1>2, <2>1 DEF CodecStage, Ended, spillVars, armVars, usbVars
<1>3. CASE CheckExit
  <2>1. UNCHANGED <<codecVars, spillVars, armVars, final>> BY <1>3 DEF CheckExit
  <2>2. ASSUME upc' = "done" PROVE final /\ spill = <<>> /\ ring = <<>> /\ inflight = NoSegment
    <3>1. final /\ spill = <<>> /\ ArmQueued = 0 BY <1>3, <2>2 DEF CheckExit
    <3>2. inflight = NoSegment /\ Len(ring) = 0 BY <1>1, <3>1 DEF ArmQueued
    <3> QED BY <1>1, <3>1, <3>2, EmptySeq
  <2> QED BY <2>1, <2>2 DEF Ended, codecVars, spillVars, armVars
<1>4. CASE DispatchStage
  <2>1. readyQ # <<>> /\ upc' # "done" /\ UNCHANGED <<final, codecFinished>>
    BY <1>4 DEF DispatchStage, DirectStage, SpillStage
  <2> QED BY <2>1 DEF Ended
<1>5. CASE TxComplete \/ UsbArm \/ CallbackArm \/ UsbWrite \/ CallbackWrite
  <2>1. UNCHANGED <<final, codecFinished, readyQ, spill>> /\ (upc' = "done" => upc = "done")
    BY <1>5 DEF TxComplete, UsbArm, CallbackArm, UsbWrite, CallbackWrite, usbVars, codecVars, spillVars
  <2>2. ASSUME upc = "done" PROVE ring' = <<>> /\ inflight' = NoSegment
    <3>1. ring = <<>> /\ inflight = NoSegment BY <2>2 DEF Ended
    <3>2. endpoint = NoSegment /\ cpc # "write" BY <3>1 DEF TransferInv, Transfer
    <3>3. CallbackArm /\ ~Claim
      BY <1>5, <2>2, <3>1, <3>2 DEF TxComplete, UsbArm, UsbWrite, CallbackWrite, Claim
    <3> QED BY <3>1, <3>3 DEF CallbackArm, NothingToClaim, armVars
  <2> QED BY <2>1, <2>2 DEF Ended
<1>6. CASE Push
  <2>1. UNCHANGED <<final, codecFinished, readyQ>> /\ upc' # "done"
    BY <1>6 DEF Push, codecVars
  <2> QED BY <2>1 DEF Ended
<1>7. CASE StartRefill \/ SkipBusyBounce \/ RefillBounce \/ EndRefill \/ Pushed
  <2>1. UNCHANGED <<codecFinished, readyQ>> /\ upc' # "done"
    BY <1>7 DEF StartRefill, SkipBusyBounce, RefillBounce, EndRefill, Pushed, codecVars
  <2>2. CASE StartRefill
    <3>1. final' => codecFinished /\ readyQ = <<>> BY <2>2 DEF StartRefill
    <3> QED BY <2>1, <3>1 DEF Ended
  <2>3. CASE ~StartRefill
    <3>1. final' = final BY <1>7, <2>3 DEF SkipBusyBounce, RefillBounce, EndRefill, Pushed
    <3> QED BY <2>1, <3>1 DEF Ended
  <2> QED BY <2>2, <2>3
<1>8. CASE CodecFinishes \/ UNCHANGED vars
  BY <1>8 DEF CodecFinishes, vars, codecVars, spillVars, armVars, usbVars, Ended
<1> QED
  BY <1>2, <1>3, <1>4, <1>5, <1>6, <1>7, <1>8 DEF Next, UsbTask, Callback, Finished

\* Every buffer that is not free is somewhere: a slot waits for usbTask or is queued,
\* a busy bounce buffer is queued.
Queues(kind, slot) == \E p \in Positions : At(p).kind = kind /\ At(p).slot = slot

Returned ==
  armFailures = 0 =>
    /\ \A s \in Slots : s \notin freeSlots =>
         (\E k \in 1 .. Len(readyQ) : readyQ[k] = s) \/ Queues("stage", s)
    /\ \A b \in Bounces : bounceBusy[b] => Queues("bounce", b)

\* Every segment is still queued after the step.
Remain == \A p \in Positions : \E q \in Positions' : At(q)' = At(p)

LEMMA RemainQueues ==
  ASSUME Remain, NEW kind, NEW slot, Queues(kind, slot)
  PROVE  Queues(kind, slot)'
<1>1. PICK p \in Positions : At(p).kind = kind /\ At(p).slot = slot BY DEF Queues
<1>2. PICK q \in Positions' : At(q)' = At(p) BY <1>1 DEF Remain
<1> QED BY <1>1, <1>2 DEF Queues

LEMMA StayRemains ==
  ASSUME TInv, UNCHANGED <<ring, inflight>>, upc = "push" => upc' = "push" /\ UNCHANGED seg
  PROVE  Remain
<1>1. Len(ring) \in Nat BY DEF TInv, TypeOK
<1> SUFFICES ASSUME NEW p \in Positions PROVE p \in Positions' /\ At(p)' = At(p) BY DEF Remain
<1> QED BY <1>1 DEF Positions, At

LEMMA ClaimRemains ==
  ASSUME TInv, Claim, upc = "push" => upc' = "push" /\ UNCHANGED seg
  PROVE  Remain
<1>1. /\ Len(ring) \in Nat \ {0} /\ Len(ring') = Len(ring) - 1
      /\ inflight = NoSegment /\ inflight' = ring[1] /\ inflight' # NoSegment
      /\ \A k \in 1 .. Len(ring') : ring'[k] = ring[k + 1]
  BY ClaimEffect, NoSegmentIsNone DEF TInv
<1> SUFFICES ASSUME NEW p \in Positions PROVE \E q \in Positions' : At(q)' = At(p) BY DEF Remain
<1>2. p \in 1 .. Len(ring) + 1 /\ (p = Len(ring) + 1 => upc = "push") BY <1>1 DEF Positions
<1> DEFINE q == p - 1
<1>3. q \in Positions' BY <1>1, <1>2 DEF Positions
<1>4. At(q)' = At(p)
  <2>1. CASE p = 1 BY <1>1, <2>1 DEF At
  <2>2. CASE p \in 2 .. Len(ring)
    <3>1. q \in 1 .. Len(ring') /\ q + 1 = p /\ q # 0 /\ q <= Len(ring') BY <1>1, <2>2
    <3>2. At(q)' = ring'[q] BY <3>1 DEF At
    <3>3. At(p) = ring[p] BY <2>2 DEF At
    <3> QED BY <1>1, <3>1, <3>2, <3>3
  <2>3. CASE p = Len(ring) + 1
    <3>1. upc = "push" /\ seg' = seg BY <1>2, <2>3
    <3>2. q # 0 /\ ~(q <= Len(ring')) /\ p # 0 /\ ~(p <= Len(ring)) BY <1>1, <2>3
    <3> HIDE DEF q
    <3> QED BY <3>1, <3>2 DEF At
  <2> QED BY <1>1, <1>2, <2>1, <2>2, <2>3
<1> QED BY <1>3, <1>4

LEMMA PushRemains ==
  ASSUME TInv, ArmRingRoom, Push
  PROVE  Remain
<1>1. /\ Len(ring) \in Nat /\ Len(ring') = Len(ring) + 1 /\ upc' = "arm"
      /\ \A k \in 1 .. Len(ring) : ring'[k] = ring[k]
      /\ ring'[Len(ring) + 1] = seg
      /\ upc = "push" /\ UNCHANGED inflight
  BY PushEffect DEF TInv, TypeOK, ArmRingRoom, Push
<1> SUFFICES ASSUME NEW p \in Positions PROVE p \in Positions' /\ At(p)' = At(p) BY DEF Remain
<1>2. p \in 0 .. Len(ring) + 1 /\ p \in Positions' BY <1>1 DEF Positions
<1>3. CASE p = 0 BY <1>1, <1>2, <1>3 DEF At
<1>4. CASE p \in 1 .. Len(ring) BY <1>1, <1>2, <1>4 DEF At
<1>5. CASE p = Len(ring) + 1 BY <1>1, <1>2, <1>5 DEF At
<1> QED BY <1>1, <1>2, <1>3, <1>4, <1>5

\* A segment that is made is queued.
LEMMA MadeQueues ==
  ASSUME TInv, UNCHANGED ring, upc' = "push", NEW kind, NEW slot,
         seg'.kind = kind, seg'.slot = slot
  PROVE  Queues(kind, slot)'
<1>1. Len(ring) \in Nat BY DEF TInv, TypeOK
<1> DEFINE e == Len(ring) + 1
<1>2. PICK q : q = e OBVIOUS
<1>3. q \in Positions' /\ At(q)' = seg' BY <1>1, <1>2 DEF Positions, At
<1>4. At(q)'.kind = kind /\ At(q)'.slot = slot BY <1>3
<1> QED BY <1>3, <1>4 DEF Queues

LEMMA ReturnedKept ==
  ASSUME Returned, Remain, armFailures' = 0 => armFailures = 0,
         UNCHANGED <<freeSlots, readyQ, bounceBusy>>
  PROVE  Returned'
<1> SUFFICES ASSUME armFailures' = 0
             PROVE  /\ \A s \in Slots : s \notin freeSlots' =>
                         (\E k \in 1 .. Len(readyQ') : readyQ'[k] = s) \/ Queues("stage", s)'
                    /\ \A b \in Bounces : bounceBusy'[b] => Queues("bounce", b)'
  BY DEF Returned
<1>1. \A kind, slot : Queues(kind, slot) => Queues(kind, slot)' BY RemainQueues
<1> QED BY <1>1 DEF Returned

LEMMA ReturnedStep ==
  ASSUME OwnerInv, Returned, [Next]_vars
  PROVE  Returned'
<1>0. /\ TInv /\ TypeOK /\ ArmRingRoom /\ TransferInv /\ armFailures \in Nat
      /\ readyQ \in Seq(Slots) /\ Len(readyQ) \in Nat /\ ring \in Seq(Segment) /\ Len(ring) \in Nat
  BY DEF OwnerInv, TInv, TypeOK
<1>1. CASE CodecStage
  <2>1. UNCHANGED <<ring, inflight, upc, seg, bounceBusy, armFailures>>
    BY <1>1 DEF CodecStage, armVars, usbVars, spillVars
  <2>2. PICK x \in freeSlots : freeSlots' = freeSlots \ {x} /\ readyQ' = Append(readyQ, x)
    BY <1>1 DEF CodecStage
  <2>3. /\ Len(readyQ') = Len(readyQ) + 1 /\ readyQ'[Len(readyQ) + 1] = x
        /\ \A k \in 1 .. Len(readyQ) : readyQ'[k] = readyQ[k]
    BY <1>0, <2>2, AppendProperties DEF TypeOK
  <2>4. \A kind, slot : Queues(kind, slot) => Queues(kind, slot)'
    BY <1>0, <2>1, StayRemains, RemainQueues
  <2>5. ASSUME armFailures' = 0, NEW s \in Slots, s \notin freeSlots'
        PROVE  (\E k \in 1 .. Len(readyQ') : readyQ'[k] = s) \/ Queues("stage", s)'
    <3>1. CASE s = x
      <4>1. Len(readyQ) + 1 \in 1 .. Len(readyQ') BY <1>0, <2>3
      <4> QED BY <2>3, <3>1, <4>1
    <3>2. CASE s # x
      <4>1. (\E k \in 1 .. Len(readyQ) : readyQ[k] = s) \/ Queues("stage", s)
        BY <2>1, <2>2, <2>5, <3>2 DEF Returned
      <4>2. \A k \in 1 .. Len(readyQ) : k \in 1 .. Len(readyQ') BY <1>0, <2>3
      <4> QED BY <2>3, <2>4, <4>1, <4>2
    <3> QED BY <3>1, <3>2
  <2> QED BY <2>1, <2>4, <2>5 DEF Returned
<1>2. CASE DispatchStage
  <2>1. PICK x : x = readyQ[1] OBVIOUS
  <2>2. /\ x \in Slots /\ Len(readyQ) \in Nat \ {0} /\ Len(readyQ') = Len(readyQ) - 1
        /\ \A k \in 1 .. Len(readyQ') : readyQ'[k] = readyQ[k + 1]
    BY <1>0, <1>2, <2>1, DirectEffect, SpillEffect DEF DispatchStage
  <2>3. UNCHANGED <<ring, inflight, armFailures, bounceBusy>> /\ upc # "push"
    BY <1>2 DEF DispatchStage, DirectStage, SpillStage, spillVars, armVars
  <2>4. \A kind, slot : Queues(kind, slot) => Queues(kind, slot)'
    BY <1>0, <2>3, StayRemains, RemainQueues
  <2>5. /\ freeSlots \subseteq freeSlots'
        /\ x \in freeSlots' \/ Queues("stage", x)'
    <3>1. CASE SpillStage
      <4>1. freeSlots' = freeSlots \cup {x} BY <1>0, <1>2, <2>1, <3>1, SpillEffect
      <4> QED BY <4>1
    <3>2. CASE DirectStage
      <4>1. seg' = [kind |-> "stage", slot |-> x, length |-> Len(stage[x]), from |-> Len(accepted)]
        BY <1>0, <1>2, <2>1, <3>2, DirectEffect
      <4>2. upc' = "push" /\ UNCHANGED freeSlots BY <3>2 DEF DirectStage
      <4>3. seg'.kind = "stage" /\ seg'.slot = x BY <4>1
      <4> QED BY <1>0, <2>3, <4>2, <4>3, MadeQueues
    <3> QED BY <1>2, <3>1, <3>2 DEF DispatchStage
  <2>6. ASSUME armFailures' = 0, NEW s \in Slots, s \notin freeSlots'
        PROVE  (\E k \in 1 .. Len(readyQ') : readyQ'[k] = s) \/ Queues("stage", s)'
    <3>1. CASE s = x BY <2>5, <2>6, <3>1
    <3>2. CASE s # x
      <4>1. (\E k \in 1 .. Len(readyQ) : readyQ[k] = s) \/ Queues("stage", s)
        BY <2>3, <2>5, <2>6 DEF Returned
      <4>2. ASSUME NEW k \in 1 .. Len(readyQ), readyQ[k] = s
            PROVE  \E l \in 1 .. Len(readyQ') : readyQ'[l] = s
        <5>1. k # 1 BY <2>1, <3>2, <4>2
        <5>2. k - 1 \in 1 .. Len(readyQ') /\ k - 1 + 1 = k BY <2>2, <5>1
        <5> QED BY <2>2, <4>2, <5>2
      <4> QED BY <2>4, <4>1, <4>2
    <3> QED BY <3>1, <3>2
  <2> QED BY <2>3, <2>4, <2>6 DEF Returned
<1>3. CASE RefillBounce
  <2>1. PICK x : x = nextBounce OBVIOUS
  <2>2. /\ UNCHANGED <<ring, inflight, armFailures, freeSlots, readyQ>> /\ upc # "push" /\ upc' = "push"
        /\ bounceBusy' = [bounceBusy EXCEPT ![x] = TRUE]
    BY <1>3, <2>1 DEF RefillBounce, codecVars, armVars, MarkBusy
  <2>3. \A kind, slot : Queues(kind, slot) => Queues(kind, slot)'
    BY <1>0, <2>2, StayRemains, RemainQueues
  <2>4. PICK n : n = RefillLength OBVIOUS
  <2>5. seg' = [kind |-> "bounce", slot |-> x, length |-> n, from |-> Len(accepted) - Len(spill)]
    BY <1>0, <1>3, <2>1, <2>4, RefillEffect
  <2>6. seg'.kind = "bounce" /\ seg'.slot = x BY <2>5
  <2>7. Queues("bounce", x)' BY <1>0, <2>2, <2>6, MadeQueues
  <2>8. \A b \in Bounces : bounceBusy'[b] => b = x \/ bounceBusy[b] BY <1>0, <2>2 DEF TypeOK
  <2>9. ASSUME NEW b \in Bounces, armFailures' = 0, bounceBusy'[b] PROVE Queues("bounce", b)'
    <3>1. CASE b = x BY <2>7, <3>1
    <3>2. CASE bounceBusy[b] BY <2>2, <2>3, <2>9, <3>2 DEF Returned
    <3> QED BY <2>8, <2>9, <3>1, <3>2
  <2> QED BY <2>2, <2>3, <2>9 DEF Returned
<1>4. CASE TxComplete
  <2>1. /\ inflight \in Segment /\ inflight' = NoSegment
        /\ UNCHANGED <<ring, upc, seg, armFailures, readyQ>>
    BY <1>0, <1>4, NoSegmentIsNone DEF TxComplete, TransferInv, Transfer, TypeOK, usbVars
  <2>2. ASSUME NEW kind, NEW slot, Queues(kind, slot), kind # inflight.kind \/ slot # inflight.slot
        PROVE  Queues(kind, slot)'
    <3>1. PICK p \in Positions : At(p).kind = kind /\ At(p).slot = slot BY <2>2 DEF Queues
    <3>2. p # 0 BY <2>2, <3>1 DEF At
    <3>3. p \in Positions' /\ At(p)' = At(p) BY <1>0, <2>1, <3>2 DEF Positions, At
    <3> QED BY <3>1, <3>3 DEF Queues
  <2>3. \/ inflight.kind = "stage" /\ freeSlots' = freeSlots \cup {inflight.slot} /\ UNCHANGED bounceBusy
        \/ /\ inflight.kind = "bounce" /\ UNCHANGED freeSlots
           /\ bounceBusy' = [bounceBusy EXCEPT ![inflight.slot] = FALSE]
    BY <1>4 DEF TxComplete
  <2>4. ASSUME armFailures' = 0, NEW s \in Slots, s \notin freeSlots'
        PROVE  (\E k \in 1 .. Len(readyQ') : readyQ'[k] = s) \/ Queues("stage", s)'
    <3>1. s \notin freeSlots /\ (inflight.kind # "stage" \/ s # inflight.slot) BY <2>3, <2>4
    <3>2. (\E k \in 1 .. Len(readyQ) : readyQ[k] = s) \/ Queues("stage", s)
      BY <2>1, <2>4, <3>1 DEF Returned
    <3> QED BY <2>1, <2>2, <3>1, <3>2
  <2>5. ASSUME armFailures' = 0, NEW b \in Bounces, bounceBusy'[b] PROVE Queues("bounce", b)'
    <3>1. bounceBusy[b] /\ (inflight.kind # "bounce" \/ b # inflight.slot)
      BY <1>0, <2>3, <2>5 DEF TypeOK
    <3>2. Queues("bounce", b) BY <2>1, <2>5, <3>1 DEF Returned
    <3> QED BY <2>2, <3>1, <3>2
  <2> QED BY <2>4, <2>5 DEF Returned
<1>5. CASE Push
  <2>1. UNCHANGED <<freeSlots, readyQ, bounceBusy, armFailures>> BY <1>5 DEF Push, codecVars, spillVars
  <2> QED BY <1>0, <1>5, <2>1, PushRemains, ReturnedKept
<1>6. CASE UsbArm \/ CallbackArm
  <2>1. /\ UNCHANGED <<freeSlots, readyQ, bounceBusy, armFailures, seg>>
        /\ upc = "push" => upc' = "push"
        /\ Claim \/ UNCHANGED <<ring, inflight>>
    BY <1>6 DEF UsbArm, CallbackArm, Claim, NothingToClaim, armVars, codecVars, spillVars, usbVars
  <2>2. Remain BY <1>0, <2>1, ClaimRemains, StayRemains
  <2> QED BY <2>1, <2>2, ReturnedKept
<1>7. CASE UsbWrite \/ CallbackWrite
  <2>1. /\ UNCHANGED <<freeSlots, readyQ, bounceBusy, seg, ring>> /\ (upc = "push" => upc' = "push")
        /\ WriteDirect \/ WriteDirectFails
    BY <1>7 DEF UsbWrite, CallbackWrite, WriteDirect, WriteDirectFails, codecVars, spillVars, usbVars
  <2>2. CASE WriteDirect
    <3>1. UNCHANGED <<ring, inflight, armFailures>> BY <2>2 DEF WriteDirect
    <3>2. Remain BY <1>0, <2>1, <3>1, StayRemains
    <3> QED BY <2>1, <3>1, <3>2, ReturnedKept
  <2>3. CASE WriteDirectFails
    <3>1. armFailures' # 0 BY <1>0, <2>3 DEF WriteDirectFails
    <3> QED BY <3>1 DEF Returned
  <2> QED BY <2>1, <2>2, <2>3
<1>8. CASE StartRefill \/ SkipBusyBounce \/ EndRefill \/ Pushed \/ CheckExit
           \/ CodecFinishes \/ UNCHANGED vars
  <2>1. /\ UNCHANGED <<freeSlots, readyQ, bounceBusy, armFailures, ring, inflight>>
        /\ upc = "push" => upc' = "push" /\ UNCHANGED seg
    BY <1>8 DEF StartRefill, SkipBusyBounce, EndRefill, Pushed, CheckExit, CodecFinishes,
       vars, codecVars, spillVars, armVars, usbVars
  <2>2. Remain BY <1>0, <2>1, StayRemains
  <2> QED BY <2>1, <2>2, ReturnedKept
<1> QED
  BY <1>1, <1>2, <1>3, <1>4, <1>5, <1>6, <1>7, <1>8 DEF Next, UsbTask, Callback, Finished

DoneInv == IInv /\ Ended /\ Returned

LEMMA DoneInvInit == Init => DoneInv
<1> SUFFICES ASSUME Init PROVE DoneInv OBVIOUS
<1>1. Ended BY DEF Init, Ended
<1>2. Returned BY DEF Init, Returned
<1> QED BY <1>1, <1>2, IInvInit DEF DoneInv

LEMMA DoneInvStep == DoneInv /\ [Next]_vars => DoneInv'
  BY IInvStep, EndedStep, ReturnedStep DEF DoneInv, IInv, OwnerInv

LEMMA DoneInvSent == DoneInv => DoneMeansSent
<1> SUFFICES ASSUME DoneInv, upc = "done", armFailures = 0
             PROVE  /\ wire = accepted
                    /\ \A b \in Bounces : ~bounceBusy[b]
                    /\ Slots \ freeSlots = {readyQ[k] : k \in DOMAIN readyQ}
  BY DEF DoneMeansSent
<1>1. /\ wire \in Seq(Nat) /\ accepted \in Seq(Nat) /\ readyQ \in Seq(Slots)
      /\ bounceBusy \in [Bounces -> BOOLEAN] /\ Chain /\ HostInOrder
  BY DEF DoneInv, IInv, StreamInv, OwnerInv, TInv, TypeOK
<1>2. /\ spill = <<>> /\ ring = <<>> /\ inflight = NoSegment /\ readyQ = <<>>
  BY DEF DoneInv, Ended
<1>3. Len(ring) = 0 /\ Len(spill) = 0 /\ Len(readyQ) = 0 BY <1>2
<1>4. Positions = {} BY <1>2, <1>3 DEF Positions
<1>5. wire = accepted
  <2>1. Len(wire) = Len(accepted)
    <3>1. Len(accepted) \in Nat BY <1>1
    <3>2. Len(wire) = Len(accepted) - Len(spill) BY <1>1, <1>4 DEF Chain, Edge
    <3> QED BY <1>3, <3>1, <3>2
  <2>2. \A k \in 1 .. Len(wire) : wire[k] = accepted[k] BY <1>1 DEF HostInOrder
  <2> QED BY <1>1, <2>1, <2>2, SeqEqual
<1>6. \A kind, slot : ~Queues(kind, slot) BY <1>4 DEF Queues
<1>7. ASSUME NEW b \in Bounces PROVE ~bounceBusy[b]
  BY <1>6 DEF DoneInv, Returned
<1>8. Slots \subseteq freeSlots
  <2>1. ASSUME NEW s \in Slots PROVE s \in freeSlots
    BY <1>3, <1>6 DEF DoneInv, Returned
  <2> QED BY <2>1
<1>9. {readyQ[k] : k \in DOMAIN readyQ} = {} BY <1>1, <1>3
<1> QED BY <1>5, <1>7, <1>8, <1>9

\* When usbTask gives UsbDone, the host has every accepted block and every buffer
\* is back, as long as every transfer could be armed.
THEOREM DoneIsSent == Spec => []DoneMeansSent
  BY DoneInvInit, DoneInvStep, DoneInvSent, PTL DEF Spec

---------------------------------------------------------------------------
(* The order of the blocks when transfers fail.                             *)

\* Where the spill begins in the accepted stream.
Top == Len(accepted) - Len(spill)

\* Every accepted block after the first n is above what the host has.
Before(n) ==
  \A k \in 1 .. Len(wire), j \in 1 .. Len(accepted) : j > n => wire[k] < accepted[j]

\* The accepted blocks increase, below those of the stage that is next.
Increasing ==
  /\ \A j, k \in 1 .. Len(accepted) : j < k => accepted[j] < accepted[k]
  /\ \A k \in 1 .. Len(accepted) : accepted[k] < Turn * StageBlocks

\* The queued segments are apart from each other, in order, before the spill.
Apart ==
  /\ \A p, q \in Positions : p < q => At(p).from + At(p).length <= At(q).from
  /\ \A p \in Positions : At(p).from + At(p).length <= Top

\* What the host has is below every segment, the spill and the next stage.
Ahead ==
  /\ \A k \in 1 .. Len(wire) : wire[k] < Turn * StageBlocks
  /\ \A p \in Positions : Before(At(p).from)
  /\ Before(Top)

OrderInv == Increasing /\ Apart /\ Ahead /\ HostIncreasing

LEMMA OrderInit == Init => OrderInv
<1> SUFFICES ASSUME Init PROVE OrderInv OBVIOUS
<1>1. Positions = {} BY DEF Init, Positions
<1>2. Len(wire) = 0 /\ Len(accepted) = 0 BY DEF Init
<1> QED BY <1>1, <1>2 DEF OrderInv, Increasing, Apart, Ahead, Before, HostIncreasing

LEMMA ApartMoves ==
  ASSUME TInv, Apart, NEW d \in {0, 1}, Moved(d), Top' \in Int, Top <= Top'
  PROVE  Apart'
<1>0. /\ Len(ring) \in Nat /\ Positions \subseteq Nat /\ Positions' \subseteq Int
      /\ Top \in Int /\ \A p \in Positions : At(p) \in Segment
  <2>1. Top \in Int BY DEF TInv, TypeOK, Top
  <2>2. Positions' \subseteq Int BY DEF Positions
  <2> QED BY <2>1, <2>2, PositionType
<1>1. ASSUME NEW p \in Positions'
      PROVE  /\ p + d \in Positions /\ At(p)' = At(p + d)
             /\ At(p)'.from \in Nat /\ At(p)'.length \in Nat
  <2>1. p + d \in Positions /\ At(p)' = At(p + d) BY DEF Moved
  <2>2. At(p + d) \in Segment BY <1>0, <2>1
  <2> QED BY <2>1, <2>2 DEF Segment
<1>2. ASSUME NEW p \in Positions', NEW q \in Positions', p < q
      PROVE  At(p)'.from + At(p)'.length <= At(q)'.from
  <2>1. p + d < q + d BY <1>0, <1>2
  <2> QED BY <1>1, <2>1 DEF Apart
<1>3. ASSUME NEW p \in Positions' PROVE At(p)'.from + At(p)'.length <= Top'
  <2>1. At(p)'.from + At(p)'.length <= Top BY <1>1 DEF Apart
  <2>2. At(p)'.from + At(p)'.length \in Int BY <1>1
  <2> QED BY <1>0, <2>1, <2>2
<1> QED BY <1>2, <1>3 DEF Apart

LEMMA ApartGrows ==
  ASSUME TInv, Apart, Grown, Top' \in Int, Top <= Top',
         seg'.from = Top, seg'.from + seg'.length = Top'
  PROVE  Apart'
<1>0. /\ Len(ring) \in Nat /\ Positions \subseteq Nat
      /\ Top \in Int /\ \A p \in Positions : At(p) \in Segment
  <2>1. Top \in Int BY DEF TInv, TypeOK, Top
  <2> QED BY <2>1, PositionType
<1>1. ASSUME NEW p \in Positions, p <= Len(ring)
      PROVE  /\ At(p).from \in Nat /\ At(p).length \in Nat
             /\ At(p).from + At(p).length \in Int
             /\ At(p).from + At(p).length <= Top
  BY <1>0 DEF Segment, Apart
<1>2. ASSUME NEW p \in Positions', NEW q \in Positions', p < q
      PROVE  At(p)'.from + At(p)'.length <= At(q)'.from
  <2>1. p \in Positions /\ p <= Len(ring) /\ At(p)' = At(p)
    <3>1. CASE p = Len(ring) + 1
      <4>1. q \in Positions \/ q = Len(ring) + 1 BY DEF Grown
      <4>2. q \in Positions => q <= Len(ring) + 1 BY DEF Positions
      <4> QED BY <1>0, <1>2, <3>1, <4>1, <4>2
    <3> QED BY <3>1 DEF Grown
  <2>2. CASE q \in Positions /\ At(q)' = At(q) BY <1>2, <2>1, <2>2 DEF Apart
  <2>3. CASE At(q)' = seg' BY <1>1, <2>1, <2>3
  <2> QED BY <2>2, <2>3 DEF Grown
<1>3. ASSUME NEW p \in Positions' PROVE At(p)'.from + At(p)'.length <= Top'
  <2>1. CASE p \in Positions /\ p <= Len(ring) /\ At(p)' = At(p)
    <3>1. At(p).from + At(p).length \in Int /\ At(p).from + At(p).length <= Top
      BY <1>1, <2>1
    <3> QED BY <1>0, <2>1, <3>1
  <2>2. CASE At(p)' = seg' BY <2>2
  <2> QED BY <2>1, <2>2 DEF Grown
<1> QED BY <1>2, <1>3 DEF Apart

\* What was above the host's blocks still is when more is accepted.
LEMMA BeforeKept ==
  ASSUME TInv, Extended, UNCHANGED wire, NEW n \in Int, Before(n),
         \A k \in 1 .. Len(wire), j \in 1 .. Len(accepted') :
           j > Len(accepted) => wire[k] < accepted'[j]
  PROVE  Before(n)'
<1>1. Len(accepted) \in Nat /\ Len(accepted') \in Nat BY DEF TInv, TypeOK, Extended
<1> SUFFICES ASSUME NEW k \in 1 .. Len(wire), NEW j \in 1 .. Len(accepted'), j > n
             PROVE  wire[k] < accepted'[j]
  BY DEF Before
<1>2. CASE j \in 1 .. Len(accepted)
  <2>1. wire[k] < accepted[j] BY <1>2 DEF Before
  <2> QED BY <1>2, <2>1 DEF Extended
<1>3. CASE j > Len(accepted) BY <1>3
<1> QED BY <1>1, <1>2, <1>3

\* What is above from some place on is above from every later one.
LEMMA BeforeLater ==
  ASSUME NEW m \in Int, NEW n \in Int, m <= n, Before(m)
  PROVE  Before(n)
  BY DEF Before

LEMMA AheadMoves ==
  ASSUME TInv, Ahead, NEW d \in {0, 1}, Moved(d),
         \A n \in Int : Before(n) => Before(n)'
  PROVE  \A p \in Positions' : Before(At(p).from)'
<1> SUFFICES ASSUME NEW p \in Positions' PROVE Before(At(p).from)' OBVIOUS
<1>1. p + d \in Positions /\ At(p)' = At(p + d) BY DEF Moved
<1>2. At(p + d) \in Segment BY <1>1, PositionType
<1>3. PICK n : n = At(p + d).from OBVIOUS
<1>4. n \in Int BY <1>2, <1>3 DEF Segment
<1>5. Before(n) BY <1>1, <1>3 DEF Ahead
<1>6. Before(n)' BY <1>4, <1>5
<1>7. At(p)'.from = n BY <1>1, <1>3
<1> QED BY <1>6, <1>7 DEF Before

LEMMA AheadGrows ==
  ASSUME TInv, Ahead, Grown, seg'.from = Top,
         \A n \in Int : Before(n) => Before(n)'
  PROVE  \A p \in Positions' : Before(At(p).from)'
<1> SUFFICES ASSUME NEW p \in Positions' PROVE Before(At(p).from)' OBVIOUS
<1>1. PICK n : n = At(p)'.from OBVIOUS
<1>2. n \in Int /\ Before(n)
  <2>1. CASE p \in Positions /\ At(p)' = At(p)
    <3>1. At(p) \in Segment BY <2>1, PositionType
    <3>2. Before(At(p).from) BY <2>1 DEF Ahead
    <3>3. n = At(p).from BY <1>1, <2>1
    <3>4. n \in Int BY <3>1, <3>3 DEF Segment
    <3> QED BY <3>2, <3>3, <3>4
  <2>2. CASE At(p)' = seg'
    <3>1. n = Top /\ Top \in Int BY <1>1, <2>2 DEF Top, TInv, TypeOK
    <3> QED BY <3>1 DEF Ahead
  <2> QED BY <2>1, <2>2 DEF Grown
<1>3. Before(n)' BY <1>2
<1> QED BY <1>1, <1>3 DEF Before

LEMMA OrderStays ==
  ASSUME TInv, OrderInv, UNCHANGED <<accepted, wire, spill, Turn>>, NEW d \in {0, 1}, Moved(d)
  PROVE  OrderInv'
<1>1. Top' = Top /\ Top \in Int BY DEF Top, TInv, TypeOK
<1>2. Increasing' /\ HostIncreasing' BY DEF OrderInv, Increasing, HostIncreasing
<1>3. Apart' BY <1>1, ApartMoves DEF OrderInv
<1>4. \A n \in Int : Before(n) => Before(n)' BY DEF Before
<1>5. \A p \in Positions' : Before(At(p).from)' BY <1>4, AheadMoves DEF OrderInv
<1>6. Before(Top)' BY <1>1 DEF OrderInv, Ahead, Before
<1>7. Ahead' BY <1>5, <1>6 DEF OrderInv, Ahead
<1> QED BY <1>2, <1>3, <1>7 DEF OrderInv

\* dispatchStage() accepts the blocks of the stage whose turn it is.
LEMMA OrderAccepts ==
  ASSUME TInv, ReadyInOrder, OrderInv, Turn \in Nat, Turn' = Turn + 1, UNCHANGED wire,
         NEW d, d \in Seq(Nat), d = StageData(Turn), Turn * StageBlocks < TargetBlocks,
         Extended, Len(accepted') = Len(accepted) + Len(d),
         \A k \in 1 .. Len(d) : accepted'[Len(accepted) + k] = d[k]
  PROVE  /\ Increasing' /\ HostIncreasing'
         /\ \A n \in Int : Before(n) => Before(n)'
         /\ \A k \in 1 .. Len(wire') : wire'[k] < Turn' * StageBlocks
<1>0. /\ StageBlocks \in Nat /\ TargetBlocks \in Nat /\ Len(accepted) \in Nat /\ Len(wire) \in Nat
      /\ accepted \in Seq(Nat) /\ wire \in Seq(Nat) /\ Turn * StageBlocks \in Nat
  BY ReturnAssumption DEF TInv, TypeOK
<1>1. PICK t : t = Turn * StageBlocks OBVIOUS
<1>2. t \in Nat /\ Turn' * StageBlocks = t + StageBlocks BY <1>0, <1>1
<1>3. /\ Len(d) \in Nat /\ Len(d) <= StageBlocks
      /\ \A k \in 1 .. Len(d) : d[k] = t + k - 1
  <2>1. Fill(Turn) \in Nat /\ Fill(Turn) <= StageBlocks BY <1>0, <1>1 DEF Fill, Least
  <2>2. d = [k \in 1 .. Fill(Turn) |-> t + k - 1] BY <1>1 DEF StageData
  <2>3. Len(d) = Fill(Turn) BY <2>1, <2>2
  <2> QED BY <2>1, <2>2, <2>3
<1>4. ASSUME NEW j \in 1 .. Len(accepted'), j > Len(accepted)
      PROVE  /\ accepted'[j] = t + (j - Len(accepted)) - 1
             /\ t <= accepted'[j] /\ accepted'[j] < t + StageBlocks
  <2>1. PICK k : k = j - Len(accepted) OBVIOUS
  <2>2. k \in 1 .. Len(d) /\ j = Len(accepted) + k BY <1>0, <1>3, <1>4, <2>1
  <2>3. accepted'[j] = t + k - 1 BY <1>3, <2>2
  <2>4. t <= t + k - 1 /\ t + k - 1 < t + StageBlocks BY <1>0, <1>2, <1>3, <2>2
  <2> QED BY <2>1, <2>3, <2>4
<1>5. ASSUME NEW j \in 1 .. Len(accepted)
      PROVE  accepted'[j] = accepted[j] /\ accepted[j] \in Nat /\ accepted[j] < t
  BY <1>0, <1>1, <1>5 DEF Extended, OrderInv, Increasing
<1>6. \A k \in 1 .. Len(wire) : wire[k] \in Nat /\ wire[k] < t
  BY <1>0, <1>1 DEF OrderInv, Ahead
<1>7. Len(accepted') \in Nat BY DEF Extended
<1>8. Increasing'
  <2>1. ASSUME NEW j \in 1 .. Len(accepted'), NEW k \in 1 .. Len(accepted'), j < k
        PROVE  accepted'[j] < accepted'[k]
    <3>1. CASE k <= Len(accepted)
      <4>1. j \in 1 .. Len(accepted) /\ k \in 1 .. Len(accepted) BY <1>0, <1>7, <2>1, <3>1
      <4>2. accepted[j] < accepted[k] BY <2>1, <4>1 DEF OrderInv, Increasing
      <4> QED BY <1>5, <4>1, <4>2
    <3>2. CASE k > Len(accepted) /\ j <= Len(accepted)
      <4>1. j \in 1 .. Len(accepted) BY <1>0, <1>7, <3>2
      <4>2. /\ accepted'[j] \in Nat /\ accepted'[j] < t
            /\ accepted'[k] = t + (k - Len(accepted)) - 1
        BY <1>4, <1>5, <3>2, <4>1
      <4> QED BY <1>0, <1>2, <1>7, <3>2, <4>2
    <3>3. CASE k > Len(accepted) /\ j > Len(accepted)
      BY <1>0, <1>2, <1>4, <1>7, <2>1, <3>3
    <3> QED BY <1>0, <1>7, <3>1, <3>2, <3>3
  <2>2. ASSUME NEW k \in 1 .. Len(accepted') PROVE accepted'[k] < Turn' * StageBlocks
    <3>1. CASE k <= Len(accepted)
      <4>1. k \in 1 .. Len(accepted) BY <1>0, <1>7, <3>1
      <4>2. accepted'[k] \in Nat /\ accepted'[k] < t BY <1>5, <4>1
      <4>3. StageBlocks \in Nat BY <1>0
      <4>4. accepted'[k] < t + StageBlocks BY <1>2, <4>2, <4>3
      <4> QED BY <1>2, <4>4
    <3>2. CASE k > Len(accepted) BY <1>2, <1>4, <3>2
    <3> QED BY <1>0, <1>7, <3>1, <3>2
  <2>3. (Turn * StageBlocks)' = Turn' * StageBlocks OBVIOUS
  <2> QED BY <2>1, <2>2, <2>3 DEF Increasing
<1>9. ASSUME NEW k \in 1 .. Len(wire), NEW j \in 1 .. Len(accepted'), j > Len(accepted)
      PROVE  wire[k] < accepted'[j]
  <2>1. wire[k] \in Nat /\ wire[k] < t /\ t <= accepted'[j] BY <1>4, <1>6, <1>9
  <2>2. accepted'[j] = t + (j - Len(accepted)) - 1 BY <1>4, <1>9
  <2> QED BY <1>0, <1>2, <1>7, <2>1, <2>2
<1>10. \A n \in Int : Before(n) => Before(n)' BY <1>9, BeforeKept
<1>11. HostIncreasing' BY DEF OrderInv, HostIncreasing
<1>12. \A k \in 1 .. Len(wire') : wire'[k] < Turn' * StageBlocks BY <1>0, <1>2, <1>6
<1> QED BY <1>8, <1>10, <1>11, <1>12

LEMMA OrderStep ==
  ASSUME IInv, ReadyInOrder, OrderInv, [Next]_vars
  PROVE  OrderInv'
<1>0. /\ TInv /\ TypeOK /\ ArmRingRoom /\ DataOwnerInv /\ OwnerInv /\ TransferInv
      /\ Len(accepted) \in Nat /\ Len(spill) \in Nat /\ Len(wire) \in Nat /\ Len(ring) \in Nat
      /\ made \in Nat /\ Len(readyQ) \in Nat /\ Len(readyQ) <= made /\ Turn \in Nat
      /\ Top \in Int
  BY DEF IInv, DataOwnerInv, OwnerInv, TInv, TypeOK, ReadyInOrder, Turn, Top
<1>1. CASE CodecStage
  <2>1. UNCHANGED <<accepted, wire, spill, ring, inflight, upc, seg>>
    BY <1>1 DEF CodecStage, spillVars, armVars, usbVars
  <2>2. Len(readyQ') = Len(readyQ) + 1 /\ made' = made + 1
    BY <1>0, <1>1, AppendProperties DEF CodecStage, TypeOK
  <2>3. Turn' = Turn BY <1>0, <2>2 DEF Turn
  <2>4. Moved(0) BY <1>0, <2>1, StayMoves
  <2> QED BY <1>0, <2>1, <2>3, <2>4, OrderStays
<1>2. CASE DispatchStage
  <2>1. PICK x : x = readyQ[1] OBVIOUS
  <2>2. /\ x \in Slots /\ Len(readyQ) \in Nat \ {0} /\ Len(readyQ') = Len(readyQ) - 1
    BY <1>0, <1>2, <2>1, DirectEffect, SpillEffect DEF DispatchStage
  <2>3. UNCHANGED <<made, wire, ring, inflight>>
    BY <1>2 DEF DispatchStage, armVars
  <2>4. Turn' = Turn + 1 BY <1>0, <2>2, <2>3 DEF Turn
  <2>5. PICK d : d = stage[x] OBVIOUS
  <2>6. d \in Seq(Nat) /\ Len(d) \in Nat BY <1>0, <2>2, <2>5 DEF TypeOK
  <2>7. d = StageData(Turn) /\ Turn * StageBlocks < TargetBlocks
    <3>1. 1 \in 1 .. Len(readyQ) /\ Turn + 1 - 1 = Turn BY <1>0, <2>2
    <3> QED BY <2>1, <2>5, <3>1 DEF ReadyInOrder
  <2>8. ASSUME Len(accepted') = Len(accepted) + Len(d),
               \A k \in 1 .. Len(accepted) : accepted'[k] = accepted[k],
               \A k \in 1 .. Len(d) : accepted'[Len(accepted) + k] = d[k]
        PROVE  /\ Increasing' /\ HostIncreasing'
               /\ \A n \in Int : Before(n) => Before(n)'
               /\ \A k \in 1 .. Len(wire') : wire'[k] < Turn' * StageBlocks
    <3>1. Extended BY <1>0, <2>6, <2>8 DEF Extended
    <3> QED BY <1>0, <2>3, <2>4, <2>6, <2>7, <2>8, <3>1, OrderAccepts
  <2>9. CASE DirectStage
    <3>1. /\ seg' = [kind |-> "stage", slot |-> x, length |-> Len(d), from |-> Len(accepted)]
          /\ Len(accepted') = Len(accepted) + Len(d)
          /\ \A k \in 1 .. Len(accepted) : accepted'[k] = accepted[k]
          /\ \A k \in 1 .. Len(d) : accepted'[Len(accepted) + k] = d[k]
      BY <1>0, <1>2, <2>1, <2>5, <2>9, DirectEffect
    <3>2. Len(spill) = 0 /\ UNCHANGED spill /\ upc # "push" /\ Grown
      BY <1>0, <1>2, <2>9, MakeGrows
      DEF DispatchStage, DirectNow, DirectStage, SpillStage, spillVars, armVars
    <3>3. /\ Top = Len(accepted) /\ Top' = Len(accepted') /\ Top' \in Int /\ Top <= Top'
          /\ seg'.from = Top /\ seg'.from + seg'.length = Top'
      BY <1>0, <2>6, <3>1, <3>2 DEF Top
    <3>4. Increasing' /\ HostIncreasing' /\ (\A n \in Int : Before(n) => Before(n)')
          /\ \A k \in 1 .. Len(wire') : wire'[k] < Turn' * StageBlocks
      BY <2>8, <3>1
    <3>5. Apart' BY <1>0, <3>2, <3>3, ApartGrows DEF OrderInv
    <3>6. \A p \in Positions' : Before(At(p).from)'
      BY <1>0, <3>2, <3>3, <3>4, AheadGrows DEF OrderInv
    <3>7. Before(Top)' BY <1>0, <3>1, <3>3, <2>6 DEF Before
    <3>8. Ahead' BY <3>4, <3>6, <3>7 DEF Ahead
    <3> QED BY <3>4, <3>5, <3>8 DEF OrderInv
  <2>10. CASE SpillStage
    <3>1. \/ /\ Len(accepted') = Len(accepted) + Len(d)
             /\ Len(spill') = Len(spill) + Len(d)
             /\ \A k \in 1 .. Len(accepted) : accepted'[k] = accepted[k]
             /\ \A k \in 1 .. Len(d) : accepted'[Len(accepted) + k] = d[k]
          \/ UNCHANGED <<accepted, spill>>
      BY <1>0, <1>2, <2>1, <2>5, <2>10, SpillEffect
    <3>2. Moved(0)
      BY <1>0, <1>2, <2>3, <2>10, StayMoves DEF DispatchStage, SpillStage
    <3>3. Top' = Top
      <4>1. CASE UNCHANGED <<accepted, spill>> BY <4>1 DEF Top
      <4>2. CASE Len(accepted') = Len(accepted) + Len(d) /\ Len(spill') = Len(spill) + Len(d)
        <5>1. Len(accepted) \in Nat /\ Len(spill) \in Nat /\ Len(d) \in Nat BY <1>0, <2>6
        <5> QED BY <4>2, <5>1 DEF Top
      <4> QED BY <3>1, <4>1, <4>2
    <3>4. /\ Increasing' /\ HostIncreasing' /\ (\A n \in Int : Before(n) => Before(n)')
          /\ \A k \in 1 .. Len(wire') : wire'[k] < Turn' * StageBlocks
      <4>1. CASE UNCHANGED <<accepted, spill>>
        <5>1. HostIncreasing' /\ (\A n \in Int : Before(n) => Before(n)')
          BY <2>3, <4>1 DEF Before, OrderInv, HostIncreasing
        <5>2. PICK t : t = Turn * StageBlocks OBVIOUS
        <5>3. t \in Nat /\ StageBlocks \in Nat /\ Turn' * StageBlocks = t + StageBlocks
          BY <1>0, <2>4, <5>2, ReturnAssumption
        <5>4. \A v \in Nat : v < t => v < Turn' * StageBlocks BY <5>3
        <5>5. /\ \A k \in 1 .. Len(accepted) : accepted[k] \in Nat /\ accepted[k] < t
              /\ \A k \in 1 .. Len(wire) : wire[k] \in Nat /\ wire[k] < t
          <6>1. accepted \in Seq(Nat) /\ wire \in Seq(Nat) BY <1>0 DEF TypeOK
          <6> QED BY <5>2, <6>1 DEF OrderInv, Increasing, Ahead
        <5>6. (Turn * StageBlocks)' = Turn' * StageBlocks OBVIOUS
        <5>7. /\ \A k \in 1 .. Len(accepted') : accepted'[k] < Turn' * StageBlocks
              /\ \A k \in 1 .. Len(wire') : wire'[k] < Turn' * StageBlocks
          BY <2>3, <4>1, <5>4, <5>5
        <5>8. \A j, k \in 1 .. Len(accepted') : j < k => accepted'[j] < accepted'[k]
          BY <4>1 DEF OrderInv, Increasing
        <5>9. Increasing' BY <5>6, <5>7, <5>8 DEF Increasing
        <5> QED BY <5>1, <5>7, <5>9
      <4> QED BY <2>8, <3>1, <4>1
    <3>5. Apart' BY <1>0, <3>2, <3>3, ApartMoves DEF OrderInv
    <3>6. \A p \in Positions' : Before(At(p).from)'
      BY <1>0, <3>2, <3>4, AheadMoves DEF OrderInv
    <3>7. Before(Top)'
      <4>1. PICK n : n = Top OBVIOUS
      <4>2. Before(n)' BY <1>0, <3>4, <4>1 DEF OrderInv, Ahead
      <4>3. Top' = n BY <3>3, <4>1
      <4> QED BY <4>2, <4>3 DEF Before
    <3>8. Ahead' BY <3>4, <3>6, <3>7 DEF Ahead
    <3> QED BY <3>4, <3>5, <3>8 DEF OrderInv
  <2> QED BY <1>2, <2>9, <2>10 DEF DispatchStage
<1>3. CASE RefillBounce
  <2>1. PICK n : n = RefillLength OBVIOUS
  <2>2. /\ n \in Nat \ {0} /\ n <= Len(spill) /\ Len(spill') = Len(spill) - n
        /\ seg' = [kind |-> "bounce", slot |-> nextBounce, length |-> n,
                   from |-> Len(accepted) - Len(spill)]
    BY <1>0, <1>3, <2>1, RefillEffect
  <2>3. UNCHANGED <<accepted, wire, made, readyQ>> /\ Grown
    BY <1>0, <1>3, MakeGrows DEF RefillBounce, codecVars, armVars
  <2>4. /\ Top' = Top + n /\ Top' \in Int /\ Top <= Top'
        /\ seg'.from = Top /\ seg'.from + seg'.length = Top'
    BY <1>0, <2>2, <2>3 DEF Top
  <2>5. Turn' = Turn BY <2>3 DEF Turn
  <2>6. Increasing' /\ HostIncreasing' BY <2>3, <2>5 DEF OrderInv, Increasing, HostIncreasing
  <2>7. \A m \in Int : Before(m) => Before(m)' BY <2>3 DEF Before
  <2>8. Apart' BY <1>0, <2>3, <2>4, ApartGrows DEF OrderInv
  <2>9. \A p \in Positions' : Before(At(p).from)'
    BY <1>0, <2>3, <2>4, <2>7, AheadGrows DEF OrderInv
  <2>10. Before(Top)'
    <3>1. PICK m : m = Top OBVIOUS
    <3>2. Before(m) BY <3>1 DEF OrderInv, Ahead
    <3>3. Top' = m + n BY <2>4, <3>1
    <3>4. m \in Int /\ m <= m + n BY <1>0, <2>2, <3>1
    <3>5. Before(m + n) BY <2>2, <3>2, <3>4, BeforeLater
    <3> QED BY <2>3, <3>3, <3>5 DEF Before
  <2>11. Ahead' BY <2>3, <2>5, <2>9, <2>10 DEF OrderInv, Ahead
  <2> QED BY <2>6, <2>8, <2>11 DEF OrderInv
<1>4. CASE TxComplete
  <2>1. /\ inflight \in Segment /\ inflight # NoSegment
        /\ wire' = wire \o Content(inflight) /\ inflight' = NoSegment
        /\ UNCHANGED <<ring, upc, seg, accepted, spill, made, readyQ>>
    BY <1>0, <1>4, NoSegmentIsNone DEF TxComplete, TransferInv, Transfer, TypeOK, usbVars
  <2>2. 0 \in Positions /\ At(0) = inflight BY <1>0, <2>1 DEF Positions, At
  <2>3. PICK f, n, c : f = inflight.from /\ n = inflight.length /\ c = Content(inflight) OBVIOUS
  <2>4. /\ f \in Nat /\ n \in Nat /\ f + n <= Len(accepted) /\ Len(c) = n /\ c \in Seq(Nat)
        /\ \A j \in 1 .. n : c[j] = accepted[f + j]
    <3>1. Holds(inflight) BY <1>0, <2>2 DEF DataOwnerInv, DataInv, Holds, Content
    <3>2. f \in Nat /\ n \in Nat BY <2>1, <2>3 DEF Segment
    <3>3. c \in Seq(Nat) BY <1>0, <2>1, <2>3 DEF Content, Segment, TypeOK
    <3> QED BY <2>3, <3>1, <3>2, <3>3 DEF Holds
  <2>5. /\ wire \in Seq(Nat) /\ Len(wire') = Len(wire) + n
        /\ \A k \in 1 .. Len(wire) : wire'[k] = wire[k]
        /\ \A k \in 1 .. n : wire'[Len(wire) + k] = c[k]
    <3>1. wire \in Seq(Nat) /\ wire' = wire \o c BY <1>0, <2>1, <2>3 DEF TypeOK
    <3>2. /\ Len(wire') = Len(wire) + Len(c)
          /\ \A k \in 1 .. Len(wire) : wire'[k] = wire[k]
          /\ \A k \in 1 .. Len(c) : wire'[Len(wire) + k] = c[k]
      <4>1. c \in Seq(Nat) BY <2>4
      <4> QED BY <3>1, <4>1, ConcatResult
    <3> QED BY <2>4, <3>1, <3>2
  <2>6. ASSUME NEW k \in 1 .. Len(wire'), k > Len(wire)
        PROVE  \E i \in 1 .. n : /\ k = Len(wire) + i /\ f + i \in 1 .. Len(accepted)
                                 /\ wire'[k] = accepted[f + i]
    <3>1. PICK i : i = k - Len(wire) OBVIOUS
    <3>2. i \in 1 .. n /\ k = Len(wire) + i BY <1>0, <2>4, <2>5, <2>6, <3>1
    <3>3. f + i \in 1 .. Len(accepted) BY <1>0, <2>4, <3>2
    <3> QED BY <2>4, <2>5, <3>2, <3>3
  <2>7. Moved(0) /\ Top' = Top /\ Turn' = Turn
    BY <1>0, <2>1, ReleaseMoves DEF Top, Turn
  <2>8. Increasing' BY <2>1, <2>7 DEF OrderInv, Increasing
  <2>9. Apart' BY <1>0, <2>7, ApartMoves DEF OrderInv
  <2>10. Before(f) BY <2>2, <2>3 DEF OrderInv, Ahead
  <2>11. HostIncreasing'
    <3>1. ASSUME NEW j \in 1 .. Len(wire'), NEW k \in 1 .. Len(wire'), j < k
          PROVE  wire'[j] < wire'[k]
      <4>1. CASE k <= Len(wire)
        <5>1. j \in 1 .. Len(wire) /\ k \in 1 .. Len(wire) BY <1>0, <2>4, <2>5, <3>1, <4>1
        <5> QED BY <2>5, <3>1, <5>1 DEF OrderInv, HostIncreasing
      <4>2. CASE k > Len(wire) /\ j <= Len(wire)
        <5>1. j \in 1 .. Len(wire) BY <1>0, <2>4, <2>5, <4>2
        <5>2. PICK i \in 1 .. n : f + i \in 1 .. Len(accepted) /\ wire'[k] = accepted[f + i]
          BY <2>6, <4>2
        <5>3. f + i > f BY <2>4
        <5>4. wire[j] < accepted[f + i] BY <2>10, <5>1, <5>2, <5>3 DEF Before
        <5> QED BY <2>5, <5>1, <5>2, <5>4
      <4>3. CASE k > Len(wire) /\ j > Len(wire)
        <5>1. PICK a \in 1 .. n : /\ k = Len(wire) + a /\ f + a \in 1 .. Len(accepted)
                                  /\ wire'[k] = accepted[f + a]
          BY <2>6, <4>3
        <5>2. PICK b \in 1 .. n : /\ j = Len(wire) + b /\ f + b \in 1 .. Len(accepted)
                                  /\ wire'[j] = accepted[f + b]
          BY <2>6, <4>3
        <5>3. f + b < f + a BY <1>0, <2>4, <3>1, <5>1, <5>2
        <5>4. accepted[f + b] < accepted[f + a] BY <5>1, <5>2, <5>3 DEF OrderInv, Increasing
        <5> QED BY <5>1, <5>2, <5>4
      <4> QED BY <1>0, <2>4, <2>5, <4>1, <4>2, <4>3
    <3> QED BY <3>1 DEF HostIncreasing
  <2>12. ASSUME NEW m \in Int, Before(m), f + n <= m PROVE Before(m)'
    <3>1. ASSUME NEW k \in 1 .. Len(wire'), NEW j \in 1 .. Len(accepted), j > m
          PROVE  wire'[k] < accepted[j]
      <4>1. CASE k <= Len(wire)
        <5>1. k \in 1 .. Len(wire) BY <1>0, <2>4, <2>5, <4>1
        <5> QED BY <2>5, <2>12, <3>1, <5>1 DEF Before
      <4>2. CASE k > Len(wire)
        <5>1. PICK i \in 1 .. n : f + i \in 1 .. Len(accepted) /\ wire'[k] = accepted[f + i]
          BY <2>6, <4>2
        <5>2. f + i < j BY <2>4, <2>12, <3>1
        <5> QED BY <5>1, <5>2 DEF OrderInv, Increasing
      <4> QED BY <1>0, <2>4, <2>5, <4>1, <4>2
    <3> QED BY <2>1, <3>1 DEF Before
  <2>13. ASSUME NEW p \in Positions' PROVE Before(At(p).from)'
    <3>1. p \in Positions /\ p # 0 /\ At(p)' = At(p) BY <1>0, <2>1 DEF Positions, At
    <3>2. PICK m : m = At(p).from OBVIOUS
    <3>3. m \in Int BY <1>0, <3>1, <3>2, PositionType DEF Segment
    <3>4. 0 < p BY <1>0, <3>1 DEF Positions
    <3>5. f + n <= m BY <2>2, <2>3, <3>1, <3>2, <3>4 DEF OrderInv, Apart
    <3>6. Before(m) BY <3>1, <3>2 DEF OrderInv, Ahead
    <3>7. Before(m)' BY <2>12, <3>3, <3>5, <3>6
    <3>8. At(p)'.from = m BY <3>1, <3>2
    <3> QED BY <3>7, <3>8 DEF Before
  <2>14. Before(Top)'
    <3>1. PICK m : m = Top OBVIOUS
    <3>2. f + n <= m BY <2>2, <2>3, <3>1 DEF OrderInv, Apart
    <3>3. m \in Int /\ Before(m) BY <1>0, <3>1 DEF OrderInv, Ahead
    <3>4. Before(m)' BY <2>12, <3>2, <3>3
    <3>5. Top' = m BY <2>7, <3>1
    <3> QED BY <3>4, <3>5 DEF Before
  <2>15. ASSUME NEW k \in 1 .. Len(wire') PROVE wire'[k] < Turn' * StageBlocks
    <3>1. CASE k <= Len(wire)
      <4>1. k \in 1 .. Len(wire) BY <1>0, <2>4, <2>5, <3>1
      <4> QED BY <2>5, <2>7, <4>1 DEF OrderInv, Ahead
    <3>2. CASE k > Len(wire)
      <4>1. PICK i \in 1 .. n : f + i \in 1 .. Len(accepted) /\ wire'[k] = accepted[f + i]
        BY <2>6, <3>2
      <4> QED BY <2>7, <4>1 DEF OrderInv, Increasing
    <3> QED BY <1>0, <2>4, <2>5, <3>1, <3>2
  <2>16. Ahead' BY <2>13, <2>14, <2>15 DEF Ahead
  <2> QED BY <2>8, <2>9, <2>11, <2>16 DEF OrderInv
<1>5. CASE /\ UNCHANGED <<made, readyQ, spill, accepted, wire>>
           /\ \E d \in {0, 1} : Moved(d)
  <2>1. PICK d \in {0, 1} : Moved(d) BY <1>5
  <2>2. Turn' = Turn BY <1>5 DEF Turn
  <2> QED BY <1>0, <1>5, <2>1, <2>2, OrderStays
<1> QED BY <1>0, <1>1, <1>2, <1>3, <1>4, <1>5, QuietSteps

\* When a transfer cannot be armed its blocks are missing at the host, and even then
\* nothing arrives twice or out of order.
THEOREM HostIncreases == Spec => []HostIncreasing
<1>1. Init => RefInv /\ OrderInv BY RefInvInit, OrderInit
<1>2. RefInv /\ OrderInv /\ [Next]_vars => RefInv' /\ OrderInv'
  BY RefInvStep, OrderStep DEF RefInv
<1>3. OrderInv => HostIncreasing BY DEF OrderInv
<1> QED BY <1>1, <1>2, <1>3, PTL DEF Spec
====
