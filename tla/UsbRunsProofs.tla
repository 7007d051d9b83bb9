---- MODULE UsbRunsProofs ----
(***************************************************************************)
(* Theorems about UsbRuns, for every number of buffers, depth of the ring, *)
(* number of commands and length of the runs.                              *)
(***************************************************************************)
EXTENDS UsbRuns, SequenceTheorems, TLAPS

---------------------------------------------------------------------------
(* The inductive invariant.                                                *)

Phases == {"idle", "copied", "line", "push", "wait", "reset", "armReset", "run"}

\* Type correctness of the state.
TypeOK ==
  /\ phase \in Phases /\ afterLine \in {"idle", "reset"}
  /\ sent \in Nat /\ mailbox \in Nat /\ command \in Nat
  /\ accepted \in Seq(Nat) /\ served \in Seq(Nat)
  /\ run \in Nat /\ line \in Nat /\ text \in Nat
  /\ statusDone \in BOOLEAN /\ aborted \in BOOLEAN /\ codecFinished \in BOOLEAN
  /\ freeSlots \subseteq Slots /\ busy \subseteq Bounces
  /\ ring \in Seq(Segment)
  /\ inflight \in Segment \cup {NoSegment} /\ endpoint \in Segment \cup {NoSegment}
  /\ arming \in [Tasks -> {"no", "claim", "write"}]
  /\ mine \in [Tasks -> Segment \cup {NoSegment}]
  /\ upc \in {"loop", "done"} /\ direct \in BOOLEAN
  /\ ready \in Seq(Stage) /\ held \subseteq Stage /\ nextSend \in Nat /\ spilled \in Nat
  /\ lines \in Seq(Nat) /\ late \in BOOLEAN

\* The copy loop() has made is still the command in the mailbox.
CopyCurrent == phase = "copied" => command = mailbox /\ mailbox # 0

\* A segment that is in flight is on its way to the endpoint with the one task
\* that claimed it, or is what the endpoint transfers.
Transfers ==
  /\ \A t \in Tasks : arming[t] = "write" =>
       mine[t] = inflight /\ inflight # NoSegment /\ endpoint = NoSegment
  /\ \A t, u \in Tasks : arming[t] = "write" /\ arming[u] = "write" => t = u
  /\ endpoint # NoSegment => inflight = endpoint

Quiet == ring = <<>> /\ inflight = NoSegment

NoLine ==
  /\ inflight.kind # "status"
  /\ \A k \in 1 .. Len(ring) : ring[k].kind # "status"

\* The line is the last thing that is queued.
LineLast ==
  \/ ring = <<>> /\ inflight.kind = "status"
  \/ /\ ring # <<>> /\ inflight.kind # "status"
     /\ \A k \in 1 .. Len(ring) : (ring[k].kind = "status") <=> k = Len(ring)

\* sendLine() has a line that the host has not got yet.
Outstanding == phase = "push" \/ (phase = "wait" /\ ~statusDone)

\* What is queued outside a run and while a line is on its way.
Queued ==
  /\ phase \in {"idle", "copied", "reset", "armReset"} => Quiet
  /\ statusDone => phase = "wait" /\ Quiet
  /\ phase = "wait" /\ ~statusDone => LineLast
  /\ phase # "wait" => NoLine

\* What the host has of the lines.
Told ==
  /\ text = line
  /\ \A k \in 1 .. Len(lines) : lines[k] = k
  /\ line = IF Outstanding THEN Len(lines) + 1 ELSE Len(lines)

\* Who may come for the ring in which phase.
Actors ==
  /\ upc = "loop" => phase = "run"
  /\ upc = "done" => arming["usb"] = "no"
  /\ arming["control"] # "no" => phase = "wait"

\* During a run somebody is about to arm what is queued; only the segment
\* that usbTask has just pushed may fill the ring.
Room ==
  /\ phase = "run" /\ ring # <<>> /\ inflight = NoSegment =>
       arming["usb"] = "claim" \/ arming["callback"] = "claim"
  /\ phase \in {"run", "line", "push"} =>
       \/ Len(ring) < ArmDepth
       \/ Len(ring) = ArmDepth /\ inflight = NoSegment /\ arming["usb"] = "claim"

\* All that is queued during a run was queued in it.
OwnRun ==
  phase = "run" =>
    /\ inflight # NoSegment => inflight.run = run
    /\ \A k \in 1 .. Len(ring) : ring[k].run = run

Punctual == Transfers /\ Queued /\ Told /\ Actors /\ Room /\ OwnRun

IInv == TypeOK /\ CopyCurrent /\ CommandsKept /\ (~late => Punctual)

---------------------------------------------------------------------------
(* Segments and the ring.                                                  *)

LEMMA NoSegmentIsNone == NoSegment \notin Segment /\ NoSegment.kind = "none"
  BY DEF NoSegment, Segment

LEMMA SegmentTypes ==
  /\ \A s \in Slots, r \in Nat : [kind |-> "stage", slot |-> s, run |-> r] \in Segment
  /\ \A b \in Bounces, r \in Nat : [kind |-> "bounce", slot |-> b, run |-> r] \in Segment
  /\ \A r \in Nat : [kind |-> "status", slot |-> 0, run |-> r] \in Segment
  BY DEF Segment

LEMMA SegmentSlot ==
  ASSUME NEW s \in Segment
  PROVE  /\ s.kind = "stage" => s.slot \in Slots
         /\ s.kind = "bounce" => s.slot \in Bounces
  BY DEF Segment

\* armPush(): the segment is the last in the ring.
LEMMA PushEffect ==
  ASSUME TypeOK, NEW t \in Tasks, NEW s \in Segment, Pushed(t, s)
  PROVE  /\ Len(ring) < ArmDepth
         /\ ring' \in Seq(Segment) /\ ring' # <<>> /\ Len(ring') = Len(ring) + 1
         /\ \A k \in 1 .. Len(ring) : ring'[k] = ring[k]
         /\ ring'[Len(ring')] = s
         /\ arming' = [arming EXCEPT ![t] = "claim"]
         /\ inflight' = inflight /\ endpoint' = endpoint /\ mine' = mine
<1>1. ring \in Seq(Segment) BY DEF TypeOK
<1>2. ring' = Append(ring, s) /\ Len(ring) < ArmDepth BY DEF Pushed
<1>3. /\ ring' \in Seq(Segment) /\ Len(ring') = Len(ring) + 1
      /\ \A k \in 1 .. Len(ring) : ring'[k] = ring[k]
      /\ ring'[Len(ring) + 1] = s
  BY <1>1, <1>2, AppendProperties
<1> QED BY <1>1, <1>2, <1>3 DEF Pushed

\* tryArm() takes the first segment, or nothing.
LEMMA ClaimEffect ==
  ASSUME TypeOK, NEW t \in Tasks, Claim(t)
  PROVE  /\ arming[t] = "claim"
         /\ \/ /\ inflight = NoSegment /\ ring # <<>>
               /\ inflight' = ring[1] /\ ring[1] \in Segment
               /\ ring' \in Seq(Segment) /\ Len(ring') = Len(ring) - 1
               /\ \A k \in 1 .. Len(ring') : ring'[k] = ring[k + 1]
               /\ mine' = [mine EXCEPT ![t] = ring[1]]
               /\ arming' = [arming EXCEPT ![t] = "write"]
            \/ /\ inflight # NoSegment \/ ring = <<>>
               /\ arming' = [arming EXCEPT ![t] = "no"]
               /\ UNCHANGED <<inflight, ring, mine>>
         /\ UNCHANGED <<ctlVars, statusDone, runVars, bufVars, endpoint, lines, late>>
<1>1. ring \in Seq(Segment) BY DEF TypeOK
<1>2. CASE MayClaim
  <2>1. /\ inflight' = Head(ring) /\ ring' = Tail(ring) /\ ring # <<>>
        /\ mine' = [mine EXCEPT ![t] = Head(ring)]
        /\ arming' = [arming EXCEPT ![t] = "write"]
    BY <1>2 DEF Claim, MayClaim
  <2>2. /\ ring' \in Seq(Segment) /\ Len(ring') = Len(ring) - 1
        /\ \A k \in 1 .. Len(ring') : ring'[k] = ring[k + 1]
        /\ Head(ring) = ring[1] /\ ring[1] \in Segment
    BY <1>1, <2>1, HeadTailProperties, EmptySeq
  <2> QED BY <1>2, <2>1, <2>2 DEF Claim, MayClaim
<1>3. CASE ~MayClaim
  BY <1>3 DEF Claim, MayClaim
<1> QED BY <1>2, <1>3

LEMMA EmptyRing ==
  ASSUME TypeOK
  PROVE  Len(ring) \in Nat /\ (ring = <<>> <=> Len(ring) = 0)
  BY EmptySeq DEF TypeOK

LEMMA Constants ==
  /\ DirectDepth \in Nat /\ ArmDepth \in Nat \ {0} /\ DirectDepth <= ArmDepth
  BY RunsAssumption

---------------------------------------------------------------------------
(* Types.                                                                  *)

LEMMA InitInv == Init => IInv
<1> SUFFICES ASSUME Init PROVE IInv OBVIOUS
<1>1. TypeOK
  <2>1. /\ ring \in Seq(Segment) /\ lines \in Seq(Nat) /\ accepted \in Seq(Nat)
        /\ served \in Seq(Nat) /\ ready \in Seq(Stage)
    BY DEF Init
  <2> QED BY <2>1 DEF Init, TypeOK, Phases
<1>2. CopyCurrent /\ CommandsKept BY DEF Init, CopyCurrent, CommandsKept
<1>3. Transfers BY DEF Init, Transfers, Tasks
<1>4. Queued BY NoSegmentIsNone DEF Init, Queued, Quiet, NoLine
<1>5. Told BY DEF Init, Told, Outstanding
<1>6. Actors /\ Room /\ OwnRun BY DEF Init, Actors, Room, OwnRun, Tasks
<1> QED BY <1>1, <1>2, <1>3, <1>4, <1>5, <1>6 DEF IInv, Punctual

\* usbTask queues a segment, or finds the ring full.
LEMMA UsbPushType ==
  ASSUME TypeOK, NEW s \in Segment, Pushed("usb", s) \/ Refused(s)
  PROVE  /\ ring' \in Seq(Segment) /\ arming' \in [Tasks -> {"no", "claim", "write"}]
         /\ UNCHANGED <<inflight, endpoint, mine>>
<1>1. "usb" \in Tasks BY DEF Tasks
<1>2. CASE Pushed("usb", s) BY <1>1, <1>2, PushEffect DEF TypeOK
<1>3. CASE Refused(s) BY <1>3 DEF Refused, armVars, TypeOK
<1> QED BY <1>2, <1>3

LEMMA DispatchType ==
  ASSUME TypeOK, NEW r \in Stage, Dispatch(r)
  PROVE  /\ ring' \in Seq(Segment) /\ arming' \in [Tasks -> {"no", "claim", "write"}]
         /\ UNCHANGED <<inflight, endpoint, mine>>
         /\ freeSlots' \subseteq Slots /\ spilled' \in Nat /\ nextSend' \in Nat
<1>1. r.slot \in Slots BY DEF Stage
<1>2. nextSend' \in Nat BY DEF Dispatch, TypeOK
<1>3. CASE QueueStage(r)
  <2> DEFINE g == [kind |-> "stage", slot |-> r.slot, run |-> run]
  <2>1. g \in Segment BY <1>1, SegmentTypes DEF TypeOK
  <2>2. (Pushed("usb", g) \/ Refused(g)) /\ UNCHANGED <<freeSlots, spilled>>
    BY <1>3 DEF QueueStage
  <2> HIDE DEF g
  <2> QED BY <1>2, <2>1, <2>2, UsbPushType DEF TypeOK
<1>4. CASE SpillStage(r) BY <1>1, <1>2, <1>4 DEF SpillStage, armVars, TypeOK
<1> QED BY <1>3, <1>4 DEF Dispatch

LEMMA TypeStep == TypeOK /\ [Next]_vars => TypeOK'
<1> SUFFICES ASSUME TypeOK, [Next]_vars PROVE TypeOK' OBVIOUS
<1> USE DEF Phases
<1>1. CASE onDirectRxData
  <2>1. sent \in Nat /\ mailbox \in Nat /\ accepted \in Seq(Nat) BY DEF TypeOK
  <2>2. sent' = sent + 1 /\ (\/ mailbox' = sent' /\ accepted' = Append(accepted, sent')
                            \/ UNCHANGED <<mailbox, accepted>>)
    BY <1>1 DEF onDirectRxData
  <2>3. sent' \in Nat BY <2>1, <2>2
  <2>4. mailbox' \in Nat /\ accepted' \in Seq(Nat)
    BY <2>1, <2>2, <2>3, AppendProperties
  <2> QED BY <1>1, <2>3, <2>4 DEF onDirectRxData, TypeOK, runVars, stageVars, bufVars, armVars
<1>2. CASE CopyCommand
  BY <1>2 DEF CopyCommand, TypeOK, runVars, stageVars, bufVars, armVars
<1>3. CASE TakeCommand
  BY <1>3 DEF TakeCommand, TypeOK, runVars, stageVars, bufVars, armVars
<1>4. CASE WriteLine
  <2>1. line \in Nat BY DEF TypeOK
  <2>2. line' = line + 1 /\ text' = line + 1 BY <1>4 DEF WriteLine
  <2>3. line' \in Nat /\ text' \in Nat BY <2>1, <2>2
  <2> QED BY <1>4, <2>3 DEF WriteLine, TypeOK, boxVars, runVars, stageVars, bufVars, armVars
<1>5. CASE PushLine
  <2> DEFINE s == [kind |-> "status", slot |-> 0, run |-> run]
  <2>1. s \in Segment BY SegmentTypes DEF TypeOK
  <2>2. UNCHANGED <<afterLine, boxVars, run, line, text, statusDone, runVars,
                    bufVars, lines, late>>
    BY <1>5 DEF PushLine
  <2>3. CASE Pushed("control", s) /\ phase' = "wait"
    <3> HIDE DEF s
    <3>1. "control" \in Tasks BY DEF Tasks
    <3>2. /\ ring' \in Seq(Segment) /\ arming' = [arming EXCEPT !["control"] = "claim"]
          /\ UNCHANGED <<inflight, endpoint, mine>>
      BY <2>1, <2>3, <3>1, PushEffect
    <3> QED BY <2>2, <2>3, <3>2 DEF TypeOK, boxVars, runVars, stageVars, bufVars
  <2>4. CASE Refused(s) /\ phase' = afterLine
    BY <2>2, <2>4 DEF Refused, TypeOK, boxVars, runVars, stageVars, bufVars, armVars
  <2> QED BY <1>5, <2>3, <2>4 DEF PushLine
<1>6. CASE WaitLine
  BY <1>6 DEF WaitLine, TypeOK, boxVars, runVars, stageVars, bufVars, armVars
<1>7. CASE ResetBuffers
  BY <1>7 DEF ResetBuffers, TypeOK, boxVars, armVars
<1>8. CASE ArmReset
  BY <1>8 DEF ArmReset, TypeOK, boxVars, bufVars
<1>9. CASE RunAborts
  BY <1>9 DEF RunAborts, TypeOK, ctlVars, boxVars, stageVars, bufVars, armVars
<1>10. CASE CodecFinishes
  BY <1>10 DEF CodecFinishes, TypeOK, ctlVars, boxVars, stageVars, bufVars, armVars
<1>11. CASE RunOver
  BY <1>11 DEF RunOver, TypeOK, boxVars, runVars, stageVars, bufVars, armVars
<1>12. ASSUME NEW t \in Tasks, Claim(t) PROVE TypeOK'
  <2>1. /\ ring' \in Seq(Segment) /\ inflight' \in Segment \cup {NoSegment}
        /\ arming' \in [Tasks -> {"no", "claim", "write"}]
        /\ mine' \in [Tasks -> Segment \cup {NoSegment}]
        /\ UNCHANGED <<ctlVars, statusDone, runVars, bufVars, endpoint, lines, late>>
    BY <1>12, ClaimEffect DEF TypeOK
  <2> QED BY <2>1 DEF TypeOK, ctlVars, boxVars, runVars, stageVars, bufVars
<1>13. ASSUME NEW t \in Tasks, Write(t) PROVE TypeOK'
  BY <1>13 DEF Write, TypeOK, ctlVars, boxVars, runVars, stageVars, bufVars
<1>14. CASE TakeReady
  <2>1. /\ ready # <<>> /\ ready' = Tail(ready)
        /\ UNCHANGED <<ctlVars, statusDone, aborted, codecFinished, upc, direct, busy, lines, late>>
    BY <1>14 DEF TakeReady
  <2>2. Head(ready) \in Stage /\ ready' \in Seq(Stage)
    BY <2>1, HeadTailProperties, EmptySeq DEF TypeOK
  <2>3. CASE Dispatch(Head(ready)) /\ UNCHANGED held
    BY <2>1, <2>2, <2>3, DispatchType DEF TypeOK, ctlVars, boxVars
  <2>4. CASE held' = held \cup {Head(ready)} /\ UNCHANGED <<nextSend, spilled, freeSlots, armVars>>
    BY <2>1, <2>2, <2>4 DEF TypeOK, ctlVars, boxVars, armVars
  <2> QED BY <1>14, <2>3, <2>4 DEF TakeReady
<1>15. CASE SendHeld
  <2>1. PICK r \in InTurn : held' = held \ {r} /\ Dispatch(r) BY <1>15 DEF SendHeld
  <2>2. r \in Stage BY DEF InTurn, TypeOK
  <2>3. UNCHANGED <<ctlVars, statusDone, aborted, codecFinished, upc, direct, ready, busy, lines, late>>
    BY <1>15 DEF SendHeld
  <2>4. held' \subseteq Stage BY <2>1 DEF TypeOK
  <2>5. /\ ring' \in Seq(Segment) /\ arming' \in [Tasks -> {"no", "claim", "write"}]
        /\ UNCHANGED <<inflight, endpoint, mine>>
        /\ freeSlots' \subseteq Slots /\ spilled' \in Nat /\ nextSend' \in Nat
    BY <2>1, <2>2, DispatchType
  <2> QED BY <2>3, <2>4, <2>5 DEF TypeOK, ctlVars, boxVars
<1>16. CASE QueueBounce
  <2>1. PICK b \in Bounces \ busy :
          LET g == [kind |-> "bounce", slot |-> b, run |-> run] IN
          busy' = busy \cup {b} /\ (Pushed("usb", g) \/ Refused(g))
    BY <1>16 DEF QueueBounce
  <2> DEFINE g == [kind |-> "bounce", slot |-> b, run |-> run]
  <2>2. g \in Segment BY SegmentTypes DEF TypeOK
  <2>3. busy' = busy \cup {b} /\ (Pushed("usb", g) \/ Refused(g)) BY <2>1
  <2> HIDE DEF g
  <2>4. /\ ring' \in Seq(Segment) /\ arming' \in [Tasks -> {"no", "claim", "write"}]
        /\ UNCHANGED <<inflight, endpoint, mine>>
    BY <2>2, <2>3, UsbPushType
  <2>5. spilled' \in Nat BY <1>16 DEF QueueBounce, TypeOK
  <2> QED BY <1>16, <2>3, <2>4, <2>5 DEF QueueBounce, TypeOK, ctlVars, boxVars
<1>17. CASE UsbExit
  BY <1>17 DEF UsbExit, TypeOK, ctlVars, boxVars, bufVars, armVars
<1>18. CASE PublishStage
  <2>1. PICK i \in (0 .. MaxStages - 1) \ Published, n \in freeSlots :
          /\ freeSlots' = freeSlots \ {n}
          /\ ready' = Append(ready, [index |-> i, slot |-> n])
    BY <1>18 DEF PublishStage
  <2>2. [index |-> i, slot |-> n] \in Stage BY RunsAssumption DEF Stage, TypeOK
  <2>3. ready' \in Seq(Stage) BY <2>1, <2>2, AppendProperties DEF TypeOK
  <2> QED BY <1>18, <2>1, <2>3 DEF PublishStage, TypeOK, ctlVars, boxVars, armVars
<1>19. CASE TxComplete
  <2>1. lines' \in Seq(Nat) BY <1>19 DEF TxComplete, TypeOK
  <2>2. UNCHANGED <<ctlVars, runVars, ring, mine, late>> BY <1>19 DEF TxComplete
  <2>3. /\ endpoint' = NoSegment /\ inflight' \in Segment \cup {NoSegment}
        /\ arming' \in [Tasks -> {"no", "claim", "write"}]
    BY <1>19 DEF TxComplete, CallbackArms, TypeOK
  <2>4. freeSlots' \subseteq Slots /\ busy' \subseteq Bounces /\ statusDone' \in BOOLEAN
    <3>1. CASE inflight # NoSegment /\ Released(inflight)
      <4>1. inflight \in Segment BY <3>1 DEF TypeOK
      <4> QED BY <3>1, <4>1, SegmentSlot DEF Released, TypeOK
    <3>2. CASE UNCHANGED <<bufVars, statusDone>> BY <3>2 DEF bufVars, TypeOK
    <3> QED BY <1>19, <3>1, <3>2 DEF TxComplete
  <2> QED BY <2>1, <2>2, <2>3, <2>4 DEF TypeOK, ctlVars, boxVars, runVars, stageVars
<1>20. CASE UNCHANGED vars
  BY <1>20 DEF vars, ctlVars, boxVars, runVars, stageVars, bufVars, armVars, TypeOK
<1>21. \A t \in {"control", "usb", "callback"} : t \in Tasks BY DEF Tasks
<1> QED
  BY <1>1, <1>2, <1>3, <1>4, <1>5, <1>6, <1>7, <1>8, <1>9, <1>10, <1>11, <1>12,
     <1>13, <1>14, <1>15, <1>16, <1>17, <1>18, <1>19, <1>20, <1>21
  DEF Next, Control, UsbTask, Callback, Finished, Hang

---------------------------------------------------------------------------
(* The mailbox.                                                            *)

LEMMA CommandsStep ==
  TypeOK /\ CopyCurrent /\ CommandsKept /\ [Next]_vars => CopyCurrent' /\ CommandsKept'
<1> SUFFICES ASSUME TypeOK, CopyCurrent, CommandsKept, [Next]_vars
             PROVE  CopyCurrent' /\ CommandsKept'
  OBVIOUS
<1> USE DEF CopyCurrent, CommandsKept
<1>1. CASE onDirectRxData
  <2>1. sent \in Nat BY DEF TypeOK
  <2>2. /\ sent' = sent + 1 /\ UNCHANGED <<phase, command, served>>
        /\ \/ mailbox = 0 /\ mailbox' = sent' /\ accepted' = Append(accepted, sent')
           \/ mailbox # 0 /\ UNCHANGED <<mailbox, accepted>>
    BY <1>1 DEF onDirectRxData, Accepts
  <2>3. sent' # 0 BY <2>1, <2>2
  <2> QED BY <2>2, <2>3
<1>2. CASE CopyCommand
  BY <1>2 DEF CopyCommand
<1>3. CASE TakeCommand
  BY <1>3 DEF TakeCommand
<1>4. ASSUME UNCHANGED boxVars, phase' = "copied" => phase = "copied"
      PROVE  CopyCurrent' /\ CommandsKept'
  BY <1>4 DEF boxVars
<1>5. CASE \/ WriteLine \/ PushLine \/ WaitLine \/ ResetBuffers \/ ArmReset \/ CodecFinishes
           \/ RunOver \/ RunAborts \/ PublishStage \/ TakeReady \/ SendHeld \/ QueueBounce
           \/ UsbExit \/ TxComplete
  <2>1. UNCHANGED boxVars
    BY <1>5 DEF WriteLine, PushLine, WaitLine, ResetBuffers, ArmReset, CodecFinishes,
                RunOver, RunAborts, PublishStage, TakeReady, SendHeld, QueueBounce, UsbExit,
                TxComplete, ctlVars
  <2>2. phase' = "copied" => phase = "copied"
    BY <1>5 DEF WriteLine, PushLine, WaitLine, ResetBuffers, ArmReset, CodecFinishes,
                RunOver, RunAborts, PublishStage, TakeReady, SendHeld, QueueBounce, UsbExit,
                TxComplete, ctlVars,
                TypeOK
  <2> QED BY <1>4, <2>1, <2>2
<1>6. CASE \/ UNCHANGED vars \/ \E t \in Tasks : Claim(t) \/ Write(t)
  <2>1. UNCHANGED ctlVars BY <1>6 DEF Claim, Write, vars
  <2> QED BY <1>4, <2>1 DEF ctlVars
<1>7. \A t \in {"control", "usb", "callback"} : t \in Tasks BY DEF Tasks
<1> QED BY <1>1, <1>2, <1>3, <1>5, <1>6, <1>7
        DEF Next, Control, UsbTask, Callback, Finished, Hang

---------------------------------------------------------------------------
(* As long as the host reads every line in time.                           *)

LEMMA LateStays == [Next]_vars /\ ~late' /\ late \in BOOLEAN => ~late
<1> SUFFICES ASSUME [Next]_vars PROVE late' = late \/ late' = TRUE OBVIOUS
<1>1. \A t \in Tasks : Claim(t) \/ Write(t) => late' = late BY DEF Claim, Write
<1>2. \A t \in {"control", "usb", "callback"} : t \in Tasks BY DEF Tasks
<1> QED
  BY <1>1, <1>2
  DEF Next, Control, UsbTask, Callback, Finished, vars, onDirectRxData, CopyCommand,
      TakeCommand, WriteLine, PushLine, WaitLine, ResetBuffers, ArmReset, CodecFinishes,
      RunOver, RunAborts, PublishStage, TakeReady, SendHeld, QueueBounce, UsbExit, TxComplete,
      Hang

\* Steps of the workers and of usbTask that leave the ring alone.
LEMMA IdleStep ==
  ASSUME Punctual,
         UNCHANGED <<phase, afterLine, run, line, text, statusDone, upc, lines, armVars>>
  PROVE  Punctual'
<1>1. UNCHANGED <<ring, inflight, endpoint, arming, mine>> BY DEF armVars
<1> QED BY <1>1 DEF Punctual, Transfers, Queued, Quiet, NoLine, LineLast, Told, Outstanding,
                    Actors, Room, OwnRun

\* Steps of loop(), captureControlTask and usbTask that leave the ring alone.
LEMMA QuietStep ==
  ASSUME TypeOK, Punctual, ~late', UNCHANGED armVars,
         \/ onDirectRxData \/ CopyCommand \/ TakeCommand \/ WriteLine \/ WaitLine
         \/ ResetBuffers \/ PublishStage \/ RunAborts \/ CodecFinishes \/ RunOver \/ UsbExit
         \/ UNCHANGED vars
  PROVE  Punctual'
<1>1. UNCHANGED <<ring, inflight, endpoint, arming, mine>> BY DEF armVars
<1>2. CASE onDirectRxData \/ PublishStage \/ RunAborts \/ CodecFinishes \/ UNCHANGED vars
  <2>1. UNCHANGED <<phase, afterLine, run, line, text, statusDone, upc, lines>>
    BY <1>2 DEF onDirectRxData, PublishStage, RunAborts, CodecFinishes, vars, ctlVars, runVars
  <2> QED BY <2>1, IdleStep
<1>3. Transfers' BY <1>1 DEF Punctual, Transfers
<1>4. CASE CopyCommand \/ TakeCommand \/ WriteLine \/ ResetBuffers \/ RunOver
  <2>1. UNCHANGED <<run, lines, upc>>
    BY <1>4 DEF CopyCommand, TakeCommand, WriteLine, ResetBuffers, RunOver, runVars
  <2>2. (UNCHANGED statusDone /\ phase # "wait" /\ ~statusDone) \/ WriteLine
    BY <1>4 DEF CopyCommand, TakeCommand, WriteLine, ResetBuffers, RunOver, Punctual, Queued
  <2>3. Queued'
    BY <1>1, <1>4, <2>2 DEF CopyCommand, TakeCommand, WriteLine, ResetBuffers, RunOver,
                            Punctual, Queued, Quiet, NoLine, LineLast
  <2>4. Told'
    BY <1>4, <2>1, <2>2 DEF CopyCommand, TakeCommand, WriteLine, ResetBuffers, RunOver,
                            Punctual, Told, Outstanding, TypeOK
  <2>5. Actors'
    BY <1>1, <1>4, <2>1 DEF CopyCommand, TakeCommand, WriteLine, ResetBuffers, RunOver,
                            Punctual, Actors, TypeOK
  <2>6. Room' /\ OwnRun'
    BY <1>1, <1>4, <2>1, Constants, EmptyRing
    DEF CopyCommand, TakeCommand, WriteLine, ResetBuffers, RunOver, Punctual, Room, OwnRun,
        Queued, Quiet
  <2> QED BY <1>3, <2>3, <2>4, <2>5, <2>6 DEF Punctual
<1>5. CASE WaitLine
  <2>1. /\ phase = "wait" /\ statusDone /\ ~statusDone' /\ phase' = afterLine
        /\ phase' \in {"idle", "reset"} /\ arming["control"] = "no"
        /\ UNCHANGED <<run, line, text, lines, upc>>
    BY <1>5 DEF WaitLine, TypeOK, runVars
  <2>2. Quiet BY <2>1 DEF Punctual, Queued
  <2> QED BY <1>1, <1>3, <2>1, <2>2, NoSegmentIsNone, EmptyRing
          DEF Punctual, Queued, Quiet, NoLine, Told, Outstanding, Actors, Room, OwnRun
<1>6. CASE UsbExit
  <2>1. /\ upc' = "done" /\ arming["usb"] = "no"
        /\ UNCHANGED <<phase, afterLine, run, line, text, statusDone, lines>>
    BY <1>6 DEF UsbExit, UsbIdle, ctlVars
  <2> QED BY <1>1, <1>3, <2>1 DEF Punctual, Queued, Quiet, NoLine, LineLast, Told,
                                  Outstanding, Actors, Room, OwnRun
<1> QED BY <1>2, <1>4, <1>5, <1>6

\* A segment joins the ring: nobody starts or ends a transfer.
LEMMA PushTransfers ==
  ASSUME TypeOK, Transfers, NEW t \in Tasks,
         arming' = [arming EXCEPT ![t] = "claim"],
         inflight' = inflight, endpoint' = endpoint, mine' = mine
  PROVE  Transfers'
  BY DEF Transfers, TypeOK

LEMMA PushLineStep == TypeOK /\ Punctual /\ PushLine => Punctual'
<1> SUFFICES ASSUME TypeOK, Punctual, PushLine PROVE Punctual' OBVIOUS
<1> DEFINE s == [kind |-> "status", slot |-> 0, run |-> run]
<1>1. s \in Segment /\ s.kind = "status" BY SegmentTypes DEF TypeOK
<1>2. /\ phase = "push" /\ UNCHANGED <<run, line, text, statusDone, upc, lines>>
      /\ (Pushed("control", s) /\ phase' = "wait") \/ Refused(s)
  BY DEF PushLine, runVars
<1> HIDE DEF s
<1>3. upc = "done" /\ arming["usb"] = "no" /\ ~statusDone
  BY <1>2 DEF Punctual, Actors, Queued, TypeOK
<1>4. Len(ring) < ArmDepth BY <1>2, <1>3 DEF Punctual, Room
<1>5. Pushed("control", s) /\ phase' = "wait"
  BY <1>2, <1>4, EmptyRing, Constants DEF Refused
<1>6. "control" \in Tasks /\ "usb" \in Tasks /\ "control" # "usb" BY DEF Tasks
<1>7. /\ ring' \in Seq(Segment) /\ ring' # <<>> /\ Len(ring') = Len(ring) + 1
      /\ \A k \in 1 .. Len(ring) : ring'[k] = ring[k]
      /\ ring'[Len(ring')] = s
      /\ arming' = [arming EXCEPT !["control"] = "claim"]
      /\ inflight' = inflight /\ endpoint' = endpoint /\ mine' = mine
  BY <1>1, <1>5, <1>6, PushEffect
<1>8. Transfers' BY <1>6, <1>7, PushTransfers DEF Punctual
<1>9. Queued'
  <2>1. NoLine BY <1>2 DEF Punctual, Queued
  <2>2. ASSUME NEW k \in 1 .. Len(ring')
        PROVE  (ring'[k].kind = "status") <=> k = Len(ring')
    <3>1. CASE k = Len(ring') BY <1>1, <1>7, <3>1
    <3>2. CASE k # Len(ring')
      <4>1. k \in 1 .. Len(ring) BY <1>7, <3>2, EmptyRing
      <4> QED BY <1>7, <2>1, <3>2, <4>1 DEF NoLine
    <3> QED BY <3>1, <3>2
  <2>3. LineLast' BY <1>7, <2>1, <2>2 DEF LineLast, NoLine
  <2> QED BY <1>2, <1>3, <1>5, <2>3 DEF Queued
<1>10. Told' BY <1>2, <1>3, <1>5 DEF Punctual, Told, Outstanding
<1>11. Actors' BY <1>2, <1>3, <1>5, <1>6, <1>7 DEF Actors, TypeOK
<1>12. Room' /\ OwnRun' BY <1>5 DEF Room, OwnRun
<1> QED BY <1>8, <1>9, <1>10, <1>11, <1>12 DEF Punctual

LEMMA ClaimStep ==
  ASSUME TypeOK, Punctual, NEW t \in Tasks, Claim(t)
  PROVE  Punctual'
<1>1. /\ arming[t] = "claim"
      /\ UNCHANGED <<ctlVars, statusDone, runVars, endpoint, lines>>
  BY ClaimEffect
<1>2. UNCHANGED <<phase, run, line, text, statusDone, upc, endpoint, lines>>
  BY <1>1 DEF ctlVars, runVars
<1>3. Told' BY <1>2 DEF Punctual, Told, Outstanding
<1>4. \A u \in Tasks : arming[u] = "no" => arming'[u] = "no"
  BY <1>1, ClaimEffect DEF TypeOK
<1>5. Actors'
  <2>1. \A u \in Tasks : arming'[u] # "no" => arming[u] # "no" BY <1>4
  <2> QED BY <1>2, <2>1 DEF Punctual, Actors, Tasks
<1>6. CASE inflight # NoSegment \/ ring = <<>>
  <2>1. /\ arming' = [arming EXCEPT ![t] = "no"]
        /\ UNCHANGED <<inflight, ring, mine>>
    BY <1>6, ClaimEffect
  <2>2. Transfers' BY <1>2, <2>1 DEF Punctual, Transfers, TypeOK
  <2>3. Queued' BY <1>2, <2>1 DEF Punctual, Queued, Quiet, NoLine, LineLast
  <2>4. Room'
    <3>1. CASE ring = <<>>
      <4>1. Len(ring) = 0 BY <3>1, EmptyRing
      <4> QED BY <1>2, <2>1, <3>1, <4>1, Constants DEF Room
    <3>2. CASE inflight # NoSegment BY <1>2, <2>1, <3>2 DEF Punctual, Room
    <3> QED BY <1>6, <3>1, <3>2
  <2>5. OwnRun' BY <1>2, <2>1 DEF Punctual, OwnRun
  <2> QED BY <1>3, <1>5, <2>2, <2>3, <2>4, <2>5 DEF Punctual
<1>7. CASE inflight = NoSegment /\ ring # <<>>
  <2>1. /\ inflight' = ring[1] /\ ring[1] \in Segment
        /\ ring' \in Seq(Segment) /\ Len(ring') = Len(ring) - 1
        /\ \A k \in 1 .. Len(ring') : ring'[k] = ring[k + 1]
        /\ mine' = [mine EXCEPT ![t] = ring[1]]
        /\ arming' = [arming EXCEPT ![t] = "write"]
    BY <1>7, ClaimEffect
  <2>2. endpoint = NoSegment /\ \A u \in Tasks : arming[u] # "write"
    BY <1>7 DEF Punctual, Transfers
  <2>3. Transfers'
    <3>1. \A u \in Tasks : arming'[u] = "write" => u = t BY <2>1, <2>2 DEF TypeOK
    <3>2. mine'[t] = inflight' BY <2>1 DEF TypeOK
    <3> QED BY <1>2, <2>1, <2>2, <3>1, <3>2, NoSegmentIsNone DEF Transfers
  <2>4. Len(ring) \in Nat /\ Len(ring) > 0 /\ Len(ring') \in Nat
    BY <1>7, <2>1, EmptyRing
  <2>5. 1 \in 1 .. Len(ring) /\ \A k \in 1 .. Len(ring') : k + 1 \in 1 .. Len(ring)
    BY <2>1, <2>4
  <2>6. ~Quiet BY <1>7 DEF Quiet
  <2>7. NoLine => NoLine' BY <2>1, <2>5 DEF NoLine
  <2>8. LineLast => LineLast'
    <3> SUFFICES ASSUME LineLast PROVE LineLast' OBVIOUS
    <3>1. \A k \in 1 .. Len(ring) : (ring[k].kind = "status") <=> k = Len(ring)
      BY <1>7 DEF LineLast
    <3>2. CASE Len(ring') = 0
      <4>1. ring' = <<>> BY <2>1, <3>2, EmptySeq
      <4>2. inflight'.kind = "status" BY <2>1, <2>4, <2>5, <3>1, <3>2
      <4> QED BY <4>1, <4>2 DEF LineLast
    <3>3. CASE Len(ring') # 0
      <4>1. ring' # <<>> BY <3>3, EmptySeq
      <4>2. inflight'.kind # "status" BY <2>1, <2>4, <2>5, <3>1, <3>3
      <4>3. ASSUME NEW k \in 1 .. Len(ring')
            PROVE  (ring'[k].kind = "status") <=> k = Len(ring')
        <5>1. k + 1 \in 1 .. Len(ring) /\ ring'[k] = ring[k + 1] BY <2>1, <2>5
        <5>2. k + 1 = Len(ring) <=> k = Len(ring') BY <2>1, <2>4
        <5> QED BY <3>1, <5>1, <5>2
      <4> QED BY <4>1, <4>2, <4>3 DEF LineLast
    <3> QED BY <3>2, <3>3
  <2>9. Queued' BY <1>2, <2>6, <2>7, <2>8 DEF Punctual, Queued
  <2>10. Room'
    <3>1. inflight' # NoSegment BY <2>1, NoSegmentIsNone
    <3>2. Len(ring) < ArmDepth \/ Len(ring) = ArmDepth => Len(ring') < ArmDepth
      BY <2>1, <2>4, Constants
    <3> QED BY <1>2, <3>1, <3>2 DEF Punctual, Room
  <2>11. OwnRun'
    <3>1. phase = "run" => \A k \in 1 .. Len(ring) : ring[k].run = run
      BY DEF Punctual, OwnRun
    <3> QED BY <1>2, <2>1, <2>5, <3>1 DEF OwnRun
  <2> QED BY <1>3, <1>5, <2>3, <2>9, <2>10, <2>11 DEF Punctual
<1> QED BY <1>6, <1>7

LEMMA WriteStep ==
  ASSUME TypeOK, Punctual, NEW t \in Tasks, Write(t)
  PROVE  Punctual'
<1>1. /\ arming[t] = "write" /\ arming' = [arming EXCEPT ![t] = "no"]
      /\ mine' = [mine EXCEPT ![t] = NoSegment]
      /\ UNCHANGED <<ctlVars, statusDone, runVars, ring, lines>>
  BY DEF Write
<1>2. UNCHANGED <<phase, run, line, text, statusDone, upc, ring, lines>>
  BY <1>1 DEF ctlVars, runVars
<1>3. mine[t] = inflight /\ inflight # NoSegment /\ endpoint = NoSegment
  BY <1>1 DEF Punctual, Transfers
<1>4. endpoint' = inflight /\ inflight' = inflight
  BY <1>3 DEF Write
<1>5. Transfers'
  <2>1. \A u \in Tasks : arming'[u] # "write"
    BY <1>1 DEF Punctual, Transfers, TypeOK
  <2> QED BY <1>4, <2>1 DEF Transfers
<1>6. Queued' /\ Told' BY <1>2, <1>4 DEF Punctual, Queued, Quiet, NoLine, LineLast, Told, Outstanding
<1>7. Actors'
  <2>1. \A u \in Tasks : arming'[u] # "no" => arming[u] # "no" BY <1>1 DEF TypeOK
  <2> QED BY <1>2, <2>1 DEF Punctual, Actors, Tasks
<1>8. Room' /\ OwnRun' BY <1>2, <1>3, <1>4 DEF Punctual, Room, OwnRun
<1> QED BY <1>5, <1>6, <1>7, <1>8 DEF Punctual

LEMMA CompleteStep == TypeOK /\ Punctual /\ TxComplete => Punctual'
<1> SUFFICES ASSUME TypeOK, Punctual, TxComplete PROVE Punctual' OBVIOUS
<1>1. /\ endpoint # NoSegment /\ endpoint' = NoSegment /\ arming["callback"] = "no"
      /\ lines' = IF endpoint.kind = "status" THEN Append(lines, text) ELSE lines
      /\ UNCHANGED <<ctlVars, runVars, ring, mine>>
  BY DEF TxComplete
<1>2. UNCHANGED <<phase, run, line, text, upc, ring, mine>> BY <1>1 DEF ctlVars, runVars
<1>3. inflight = endpoint /\ \A u \in Tasks : arming[u] # "write"
  BY <1>1 DEF Punctual, Transfers
<1>4. /\ inflight' = NoSegment
      /\ statusDone' = (statusDone \/ inflight.kind = "status")
      /\ arming' = [arming EXCEPT !["callback"] = "claim"]
  BY <1>1, <1>3 DEF TxComplete, Released, CallbackArms
<1>5. "callback" \in Tasks /\ "usb" \in Tasks /\ "control" \in Tasks BY DEF Tasks
<1>6. Transfers'
  <2>1. \A u \in Tasks : arming'[u] # "write" BY <1>3, <1>4, <1>5 DEF TypeOK
  <2> QED BY <1>1, <2>1 DEF Transfers
<1>7. ~statusDone /\ ~Quiet /\ phase \notin {"idle", "copied", "reset", "armReset"}
  BY <1>1, <1>3 DEF Punctual, Queued, Quiet
<1>8. inflight.kind = "status" => phase = "wait" /\ ring = <<>>
  BY <1>7 DEF Punctual, Queued, NoLine, LineLast
<1>9. Queued'
  <2>1. inflight.kind = "status" => statusDone' /\ Quiet' /\ phase' = "wait"
    BY <1>2, <1>4, <1>8 DEF Quiet
  <2>2. inflight.kind # "status" =>
          ~statusDone' /\ (LineLast => LineLast') /\ (NoLine => NoLine')
    BY <1>2, <1>4, <1>7, NoSegmentIsNone DEF LineLast, NoLine
  <2> QED BY <1>2, <1>7, <2>1, <2>2 DEF Punctual, Queued
<1>10. Told'
  <2>1. lines \in Seq(Nat) /\ Len(lines) \in Nat /\ line \in Nat /\ text \in Nat BY DEF TypeOK
  <2>2. CASE inflight.kind = "status"
    <3>1. Outstanding /\ ~Outstanding' BY <1>2, <1>4, <1>7, <1>8, <2>2 DEF Outstanding
    <3>2. text = Len(lines) + 1 /\ \A k \in 1 .. Len(lines) : lines[k] = k
      BY <3>1 DEF Punctual, Told
    <3>3. lines' = Append(lines, text) BY <1>1, <1>3, <2>2
    <3>4. /\ Len(lines') = Len(lines) + 1 /\ lines'[Len(lines) + 1] = text
          /\ \A k \in 1 .. Len(lines) : lines'[k] = lines[k]
      BY <2>1, <3>3, AppendProperties
    <3>5. \A k \in 1 .. Len(lines') : k \in 1 .. Len(lines) \/ k = Len(lines) + 1
      BY <2>1, <3>4
    <3>6. \A k \in 1 .. Len(lines') : lines'[k] = k BY <3>2, <3>4, <3>5
    <3> QED BY <1>2, <3>1, <3>2, <3>4, <3>6 DEF Punctual, Told
  <2>3. CASE inflight.kind # "status"
    BY <1>1, <1>2, <1>3, <1>4, <1>7, <2>3 DEF Punctual, Told, Outstanding
  <2> QED BY <2>2, <2>3
<1>11. Actors' BY <1>2, <1>4, <1>5 DEF Punctual, Actors, TypeOK
<1>12. Room'
  <2>1. arming'["callback"] = "claim" BY <1>4, <1>5 DEF TypeOK
  <2>2. phase' \in {"run", "line", "push"} => Len(ring') < ArmDepth
    BY <1>1, <1>2, <1>3 DEF Punctual, Room
  <2> QED BY <2>1, <2>2 DEF Room
<1>13. OwnRun' BY <1>2, <1>4 DEF Punctual, OwnRun
<1> QED BY <1>6, <1>9, <1>10, <1>11, <1>12, <1>13 DEF Punctual

\* usbTask queues a segment of this run, or finds the ring full.
LEMMA QueueStep ==
  ASSUME TypeOK, Punctual, UsbIdle, ArmQueued < ArmDepth,
         NEW s \in Segment, s.kind # "status", s.run = run,
         \/ Pushed("usb", s) \/ Refused(s),
         UNCHANGED <<ctlVars, statusDone, upc, lines>>
  PROVE  Punctual'
<1>1. UNCHANGED <<phase, run, line, text, statusDone, upc, lines>> BY DEF ctlVars
<1>2. /\ phase = "run" /\ arming["usb"] = "no" /\ arming["callback"] = "no"
      /\ arming["control"] = "no" /\ upc = "loop"
  BY DEF UsbIdle, Undisturbed, Punctual, Actors
<1>3. Len(ring) \in Nat /\ (ring = <<>> \/ inflight # NoSegment)
  BY <1>2, EmptyRing DEF Punctual, Room
<1>4. Told' BY <1>1 DEF Punctual, Told, Outstanding
<1>5. Pushed("usb", s)
  <2>1. Len(ring) < ArmDepth BY <1>3, Constants DEF ArmQueued
  <2> QED BY <1>3, <2>1, Constants DEF Refused
<1>6. "usb" \in Tasks /\ "callback" \in Tasks /\ "control" \in Tasks BY DEF Tasks
<1>7. /\ ring' \in Seq(Segment) /\ ring' # <<>> /\ Len(ring') = Len(ring) + 1
      /\ \A k \in 1 .. Len(ring) : ring'[k] = ring[k]
      /\ ring'[Len(ring')] = s
      /\ arming' = [arming EXCEPT !["usb"] = "claim"]
      /\ inflight' = inflight /\ endpoint' = endpoint /\ mine' = mine
  BY <1>5, <1>6, PushEffect
<1>8. Transfers' BY <1>6, <1>7, PushTransfers DEF Punctual
<1>9. \A k \in 1 .. Len(ring') : k \in 1 .. Len(ring) \/ k = Len(ring') BY <1>3, <1>7
<1>10. Queued'
  <2>1. NoLine' BY <1>2, <1>7, <1>9 DEF Punctual, Queued, NoLine
  <2> QED BY <1>1, <1>2, <2>1 DEF Punctual, Queued
<1>11. Actors' BY <1>1, <1>2, <1>6, <1>7 DEF Punctual, Actors, TypeOK
<1>12. Room'
  <2>1. arming'["usb"] = "claim" BY <1>6, <1>7 DEF TypeOK
  <2>2. CASE ring = <<>>
    <3>1. Len(ring') = 1 BY <1>7, <2>2, EmptyRing
    <3>2. CASE inflight = NoSegment
      <4>1. Len(ring') < ArmDepth \/ Len(ring') = ArmDepth BY <3>1, Constants
      <4> QED BY <1>7, <2>1, <3>2, <4>1 DEF Room
    <3>3. CASE inflight # NoSegment
      <4>1. Len(ring') < ArmDepth BY <1>3, <1>7, <3>3, Constants DEF ArmQueued
      <4> QED BY <2>1, <4>1 DEF Room
    <3> QED BY <3>2, <3>3
  <2>3. CASE inflight # NoSegment
    <3>1. Len(ring') < ArmDepth BY <1>3, <1>7, <2>3, Constants DEF ArmQueued
    <3> QED BY <2>1, <3>1 DEF Room
  <2> QED BY <1>3, <2>2, <2>3
<1>13. OwnRun' BY <1>1, <1>2, <1>7, <1>9 DEF Punctual, OwnRun
<1> QED BY <1>4, <1>8, <1>10, <1>11, <1>12, <1>13 DEF Punctual

LEMMA ArmResetStep == TypeOK /\ Punctual /\ ArmReset => Punctual'
<1> SUFFICES ASSUME TypeOK, Punctual, ArmReset PROVE Punctual' OBVIOUS
<1>1. /\ phase = "armReset" /\ phase' = "run" /\ ring' = <<>> /\ inflight' = NoSegment
      /\ upc' = "loop" /\ UNCHANGED <<line, text, statusDone, endpoint, arming, mine, lines>>
  BY DEF ArmReset
<1>2. Quiet /\ ~statusDone BY <1>1 DEF Punctual, Queued
<1>3. Len(ring') = 0 BY <1>1
<1>4. endpoint = NoSegment /\ \A u \in Tasks : arming[u] # "write"
  BY <1>2 DEF Punctual, Transfers, Quiet
<1>5. Transfers' BY <1>1, <1>4 DEF Transfers
<1>6. Queued' BY <1>1, <1>2, <1>3, NoSegmentIsNone DEF Queued, NoLine
<1>7. Told' BY <1>1 DEF Punctual, Told, Outstanding
<1>8. Actors' BY <1>1 DEF Punctual, Actors
<1>9. Room' /\ OwnRun' BY <1>1, <1>3, Constants DEF Room, OwnRun
<1> QED BY <1>5, <1>6, <1>7, <1>8, <1>9 DEF Punctual

\* A stage is armed, or spilled.
LEMMA DispatchStep ==
  ASSUME TypeOK, Punctual, UsbIdle, NEW r \in Stage, Dispatch(r),
         UNCHANGED <<ctlVars, statusDone, upc, lines>>
  PROVE  Punctual'
<1>1. CASE QueueStage(r)
  <2> DEFINE s == [kind |-> "stage", slot |-> r.slot, run |-> run]
  <2>1. s \in Segment /\ s.kind # "status" /\ s.run = run BY SegmentTypes DEF TypeOK, Stage
  <2>2. Pushed("usb", s) \/ Refused(s) BY <1>1 DEF QueueStage
  <2> HIDE DEF s
  <2>3. ArmQueued < ArmDepth
    <3>1. ArmQueued \in Nat BY EmptyRing DEF ArmQueued
    <3> QED BY <1>1, <3>1, Constants DEF QueueStage
  <2> QED BY <2>1, <2>2, <2>3, QueueStep
<1>2. CASE SpillStage(r)
  <2>1. UNCHANGED armVars BY <1>2 DEF SpillStage
  <2> QED BY <2>1, IdleStep DEF ctlVars
<1> QED BY <1>1, <1>2 DEF Dispatch

LEMMA PunctualStep == TypeOK /\ Punctual /\ [Next]_vars /\ ~late' => Punctual'
<1> SUFFICES ASSUME TypeOK, Punctual, [Next]_vars, ~late' PROVE Punctual' OBVIOUS
<1>1. CASE \/ onDirectRxData \/ CopyCommand \/ TakeCommand \/ WriteLine \/ WaitLine
           \/ ResetBuffers \/ PublishStage \/ RunAborts \/ CodecFinishes \/ RunOver \/ UsbExit
           \/ UNCHANGED vars
  <2>1. UNCHANGED armVars
    BY <1>1 DEF onDirectRxData, CopyCommand, TakeCommand, WriteLine, WaitLine, ResetBuffers,
                PublishStage, RunAborts, CodecFinishes, RunOver, UsbExit, vars
  <2> QED BY <1>1, <2>1, QuietStep
<1>2. CASE TakeReady
  <2>1. UsbIdle /\ ready # <<>> /\ UNCHANGED <<ctlVars, statusDone, upc, lines>>
    BY <1>2 DEF TakeReady
  <2>2. Head(ready) \in Stage BY <2>1, HeadTailProperties, EmptySeq DEF TypeOK
  <2>3. CASE Dispatch(Head(ready)) BY <2>1, <2>2, <2>3, DispatchStep
  <2>4. CASE UNCHANGED armVars BY <2>1, <2>4, IdleStep DEF ctlVars
  <2> QED BY <1>2, <2>3, <2>4 DEF TakeReady
<1>3. CASE SendHeld
  <2>1. PICK r \in InTurn : Dispatch(r) BY <1>3 DEF SendHeld
  <2>2. r \in Stage BY DEF InTurn, TypeOK
  <2> QED BY <1>3, <2>1, <2>2, DispatchStep DEF SendHeld
<1>4. CASE QueueBounce
  <2>1. PICK n \in Bounces \ busy :
          LET g == [kind |-> "bounce", slot |-> n, run |-> run] IN Pushed("usb", g) \/ Refused(g)
    BY <1>4 DEF QueueBounce
  <2> DEFINE s == [kind |-> "bounce", slot |-> n, run |-> run]
  <2>2. s \in Segment /\ s.kind # "status" /\ s.run = run BY SegmentTypes DEF TypeOK
  <2>3. Pushed("usb", s) \/ Refused(s) BY <2>1
  <2> HIDE DEF s
  <2>4. UsbIdle /\ ArmQueued < ArmDepth /\ UNCHANGED <<ctlVars, statusDone, upc, lines>>
    <3>1. ArmQueued \in Nat BY EmptyRing DEF ArmQueued
    <3> QED BY <1>4, <3>1, Constants DEF QueueBounce, RingFull
  <2> QED BY <2>2, <2>3, <2>4, QueueStep
<1>5. ASSUME NEW t \in Tasks, Claim(t) \/ Write(t) PROVE Punctual'
  BY <1>5, ClaimStep, WriteStep
<1>6. \A t \in {"control", "usb", "callback"} : t \in Tasks BY DEF Tasks
<1> QED BY <1>1, <1>2, <1>3, <1>4, <1>5, <1>6, PushLineStep, CompleteStep, ArmResetStep
        DEF Next, Control, UsbTask, Callback, Finished, Hang

LEMMA StepInv == IInv /\ [Next]_vars => IInv'
<1> SUFFICES ASSUME IInv, [Next]_vars PROVE IInv' OBVIOUS
<1>1. TypeOK' BY TypeStep DEF IInv
<1>2. CopyCurrent' /\ CommandsKept' BY CommandsStep DEF IInv
<1>3. ~late' => Punctual' BY LateStays, PunctualStep DEF IInv, TypeOK
<1> QED BY <1>1, <1>2, <1>3 DEF IInv

\* The inductive invariant holds throughout: in particular the state keeps its type.
THEOREM RunsInvariant == Spec => []IInv
<1> QED BY InitInv, StepInv, PTL DEF Spec

---------------------------------------------------------------------------
(* What the runs check.                                                    *)

\* loop() acts on every command that the usbd task accepted, once and in
\* order, for any interleaving of the copy, the release and the next command.
THEOREM MailboxKeepsCommands == Spec => []CommandsKept
<1>1. IInv => CommandsKept BY DEF IInv
<1> QED BY <1>1, RunsInvariant, PTL

\* While a run is on and the host is prompt, the endpoint transfers a segment of this run or
\* nothing, also after an aborted run that left segments in the ring (armReset, sendLine).
THEOREM RunsAreSeparate == Spec => []RunStartsClean
<1>1. IInv => RunStartsClean BY DEF IInv, Punctual, Transfers, OwnRun, RunStartsClean
<1> QED BY <1>1, RunsInvariant, PTL

\* tryArm() calls writeDirect() only when no transfer is on.
THEOREM WritesFindIdle == Spec => []EndpointIdle
<1>1. IInv => EndpointIdle BY DEF IInv, Punctual, Transfers, EndpointIdle
<1> QED BY <1>1, RunsInvariant, PTL

\* onDirectTxComplete() releases the segment whose transfer is over.
THEOREM CompletesInflight == Spec => SentIsInflight
<1>1. IInv /\ [Next]_vars =>
        (~late /\ endpoint # NoSegment /\ endpoint' = NoSegment => inflight = endpoint)
  BY DEF IInv, Punctual, Transfers
<1> QED BY <1>1, RunsInvariant, PTL DEF Spec, SentIsInflight

\* armPush() in sendLine() never finds the ring full.
THEOREM LineFindsRoom == Spec => []LineRoom
<1>1. IInv => LineRoom
  <2> SUFFICES ASSUME IInv, ~late, phase = "push" PROVE Len(ring) < ArmDepth BY DEF LineRoom
  <2>1. upc # "loop" /\ upc \in {"loop", "done"} BY DEF IInv, TypeOK, Punctual, Actors
  <2>2. arming["usb"] = "no" BY <2>1 DEF IInv, Punctual, Actors
  <2> QED BY <2>2 DEF IInv, Punctual, Room
<1> QED BY <1>1, RunsInvariant, PTL

\* The host gets every line once, in order and with its own text.
THEOREM LinesArrive == Spec => []LinesInOrder
<1>1. IInv => LinesInOrder
  <2> SUFFICES ASSUME IInv, ~late PROVE \A k \in DOMAIN lines : lines[k] = k BY DEF LinesInOrder
  <2>1. DOMAIN lines = 1 .. Len(lines) BY DEF IInv, TypeOK
  <2> QED BY <2>1 DEF IInv, Punctual, Told
<1> QED BY <1>1, RunsInvariant, PTL

\* StatusDone is never one of an earlier line.
THEOREM LineIsSent == Spec => []LineSent
<1>1. IInv => LineSent BY DEF IInv, Punctual, Told, Outstanding, LineSent
<1> QED BY <1>1, RunsInvariant, PTL
====
