---- MODULE UsbRuns ----
(***************************************************************************)
(* Several runs over one USB endpoint (E108 .. E121).  loop() takes a      *)
(* command from the mailbox, may answer it with a line, and starts         *)
(* captureControlTask, which resets the shared state, runs the capture     *)
(* until usbTask has given UsbDone, and sends the status line.  A line is  *)
(* a segment of the arm ring like the data; sendLine() waits for its       *)
(* completion, two seconds at most.  usbTask leaves an aborted run with    *)
(* segments still queued, so what separates two runs is that wait alone.   *)
(*                                                                         *)
(* Data is left out (UsbReturn has it): a segment is a buffer and the run  *)
(* it was queued in, a stage is its number in the stream and its slot, the *)
(* spill a number of stages.  How the codec fills a stage is StageSlots.   *)
(* The USB-only probe ('P') is not modelled.                               *)
(***************************************************************************)
EXTENDS Integers, Sequences

CONSTANTS
  StageCount,    \* kStageCount
  BounceCount,   \* kBounceCount
  DirectDepth,   \* kDirectDepth
  ArmDepth,      \* kArmDepth
  SpillDepth,    \* kSpillBytes, in stages
  MaxCommands,   \* bound: commands the host sends
  MaxStages      \* bound: stages of a run

ASSUME RunsAssumption ==
  /\ StageCount \in Nat \ {0} /\ BounceCount \in Nat
  /\ DirectDepth \in Nat /\ ArmDepth \in Nat \ {0} /\ DirectDepth <= ArmDepth
  /\ SpillDepth \in Nat /\ MaxCommands \in Nat /\ MaxStages \in Nat

VARIABLES
  phase,         \* loop() and captureControlTask: where they are
  afterLine,     \* where they go after the line
  sent,          \* commands the host has sent
  mailbox,       \* the one in CommandMailbox, 0 when ~CommandPending
  command,       \* loop(): its copy of the mailbox, a local
  run,           \* runs started so far
  line,          \* lines written so far
  text,          \* the line StatusBuffer holds
  statusDone,    \* StatusDone
  aborted,       \* RunAborted
  codecFinished, \* CodecFinished
  freeSlots,     \* FreeSlots
  busy,          \* the bounce buffers with BounceBusy set
  ring,          \* ArmRing between ArmHead and ArmTail
  inflight,      \* InflightSegment, NoSegment when Inflight is false
  endpoint,      \* the segment the endpoint transfers
  arming,        \* where each task is in tryArm()
  mine,          \* tryArm(): the claimed segment, a local
  upc,           \* where usbTask is
  direct,        \* Flags of the run, without kFlagNoDirect
  ready,         \* ReadyStageQueue
  held,          \* usbTask: held[], the stages whose turn has not come
  nextSend,      \* usbTask: the number of the stage whose turn it is
  spilled,       \* spillUsed(), in stages
  accepted,      \* history: the commands that onDirectRxData() kept
  served,        \* history: the commands that loop() acted on
  lines,         \* history: the lines the host has received
  late           \* history: the host has let a line wait for too long

boxVars == <<sent, mailbox, command, accepted, served>>
ctlVars == <<phase, afterLine, boxVars, run, line, text>>
stageVars == <<ready, held, nextSend, spilled>>
runVars == <<aborted, codecFinished, upc, direct, stageVars>>
bufVars == <<freeSlots, busy>>
armVars == <<ring, inflight, endpoint, arming, mine>>
vars == <<ctlVars, statusDone, runVars, bufVars, armVars, lines, late>>

Slots   == 0 .. StageCount - 1
Bounces == 0 .. BounceCount - 1
Tasks   == {"control", "usb", "callback"}

Segment == [kind : {"stage"}, slot : Slots, run : Nat]
           \cup [kind : {"bounce"}, slot : Bounces, run : Nat]
           \cup [kind : {"status"}, slot : {0}, run : Nat]
NoSegment == [kind |-> "none", slot |-> 0, run |-> 0]

Stage == [index : Nat, slot : Slots]

\* armQueued()
ArmQueued == Len(ring) + (IF inflight = NoSegment THEN 0 ELSE 1)

Init ==
  /\ phase = "idle" /\ afterLine = "idle"
  /\ sent = 0 /\ mailbox = 0 /\ command = 0 /\ accepted = <<>> /\ served = <<>>
  /\ run = 0 /\ line = 0 /\ text = 0 /\ statusDone = FALSE
  /\ aborted = FALSE /\ codecFinished = FALSE /\ upc = "done" /\ direct = TRUE
  /\ ready = <<>> /\ held = {} /\ nextSend = 0 /\ spilled = 0
  /\ freeSlots = {} /\ busy = {}
  /\ ring = <<>> /\ inflight = NoSegment /\ endpoint = NoSegment
  /\ arming = [t \in Tasks |-> "no"]
  /\ mine = [t \in Tasks |-> NoSegment]
  /\ lines = <<>> /\ late = FALSE

\* The usbd task is above usbTask and captureControlTask on the same core:
\* they do not run while the callback does.  (loop(), which sends the answer
\* to a command, is on the other core.)
Undisturbed == arming["callback"] = "no"

---------------------------------------------------------------------------
(* armPush() and tryArm().                                                 *)

\* armPush(): a full ring refuses the segment.
Pushed(t, s) ==
  /\ Len(ring) < ArmDepth
  /\ ring' = Append(ring, s)
  /\ arming' = [arming EXCEPT ![t] = "claim"]
  /\ UNCHANGED <<inflight, endpoint, mine>>

Refused(s) == Len(ring) >= ArmDepth /\ UNCHANGED armVars

MayClaim_Always == ring # <<>>      \* mutant: Inflight is not looked at

MayClaim == inflight = NoSegment /\ ring # <<>>

\* The critical section of tryArm().
Claim(t) ==
  /\ arming[t] = "claim"
  /\ \/ /\ MayClaim
        /\ inflight' = Head(ring) /\ ring' = Tail(ring)
        /\ mine' = [mine EXCEPT ![t] = Head(ring)]
        /\ arming' = [arming EXCEPT ![t] = "write"]
     \/ /\ ~MayClaim
        /\ arming' = [arming EXCEPT ![t] = "no"]
        /\ UNCHANGED <<inflight, ring, mine>>
  /\ UNCHANGED <<ctlVars, statusDone, runVars, bufVars, endpoint, lines, late>>

\* writeDirect(): an idle endpoint starts the transfer, a busy one refuses it
\* and tryArm() forgets the segment.
Write(t) ==
  /\ arming[t] = "write"
  /\ \/ endpoint = NoSegment /\ endpoint' = mine[t] /\ UNCHANGED inflight
     \/ endpoint # NoSegment /\ inflight' = NoSegment /\ UNCHANGED endpoint
  /\ mine' = [mine EXCEPT ![t] = NoSegment]
  /\ arming' = [arming EXCEPT ![t] = "no"]
  /\ UNCHANGED <<ctlVars, statusDone, runVars, bufVars, ring, lines, late>>

---------------------------------------------------------------------------
(* loop() and captureControlTask.                                          *)

Accepts_Always == TRUE              \* mutant: a waiting command is overwritten

Accepts == mailbox = 0

\* onDirectRxData(), in the usbd task: a command that finds another one
\* waiting is dropped.
onDirectRxData ==
  /\ sent < MaxCommands /\ Undisturbed
  /\ sent' = sent + 1
  /\ \/ Accepts /\ mailbox' = sent' /\ accepted' = Append(accepted, sent')
     \/ ~Accepts /\ UNCHANGED <<mailbox, accepted>>
  /\ UNCHANGED <<phase, afterLine, command, served, run, line, text, statusDone,
                 runVars, bufVars, armVars, lines, late>>

\* loop() finds a command while no run is pending, and copies it.
CopyCommand ==
  /\ phase = "idle" /\ mailbox # 0
  /\ command' = mailbox /\ phase' = "copied"
  /\ UNCHANGED <<afterLine, sent, mailbox, accepted, served, run, line, text,
                 statusDone, runVars, bufVars, armVars, lines, late>>

\* The mailbox is free again.  The command is answered with a line, after
\* which a run may follow, or it starts a run (fixed profile), or it is
\* passed over.  For a run its flags are kept.
TakeCommand ==
  /\ phase = "copied"
  /\ mailbox' = 0 /\ served' = Append(served, command) /\ command' = 0
  /\ \/ phase' = "line" /\ afterLine' = "idle" /\ UNCHANGED direct
     \/ phase' = "line" /\ afterLine' = "reset" /\ direct' \in BOOLEAN
     \/ phase' = "reset" /\ UNCHANGED afterLine /\ direct' \in BOOLEAN
     \/ phase' = "idle" /\ UNCHANGED <<afterLine, direct>>
  /\ UNCHANGED <<sent, accepted, run, line, text, statusDone, aborted,
                 codecFinished, upc, stageVars, bufVars, armVars, lines, late>>

\* The line is printed into StatusBuffer; sendLine() clears StatusDone.
WriteLine ==
  /\ phase = "line"
  /\ line' = line + 1 /\ text' = line + 1
  /\ statusDone' = FALSE
  /\ phase' = "push"
  /\ UNCHANGED <<afterLine, boxVars, run, runVars, bufVars, armVars, lines, late>>

\* sendLine() queues it; when the ring is full it gives up.
PushLine ==
  LET s == [kind |-> "status", slot |-> 0, run |-> run] IN
  /\ phase = "push"
  /\ \/ Pushed("control", s) /\ phase' = "wait"
     \/ Refused(s) /\ phase' = afterLine
  /\ UNCHANGED <<afterLine, boxVars, run, line, text, statusDone, runVars,
                 bufVars, lines, late>>

WaitLine_Not ==                     \* mutant: sendLine() does not wait
  /\ phase = "wait" /\ arming["control"] = "no"
  /\ phase' = afterLine
  /\ UNCHANGED <<afterLine, boxVars, run, line, text, statusDone, runVars,
                 bufVars, armVars, lines, late>>

\* sendLine() has StatusDone, or two seconds have passed.
WaitLine ==
  /\ phase = "wait" /\ arming["control"] = "no"
  /\ \/ statusDone /\ statusDone' = FALSE /\ UNCHANGED late
     \/ ~statusDone /\ late' = TRUE /\ UNCHANGED statusDone
  /\ phase' = afterLine
  /\ UNCHANGED <<afterLine, boxVars, run, line, text, runVars, bufVars,
                 armVars, lines>>

\* resetRunState(), as far as FreeSlots and BounceBusy; a callback may run
\* before it gets to armReset().
ResetBuffers ==
  /\ phase = "reset" /\ Undisturbed
  /\ freeSlots' = Slots /\ busy' = {}
  /\ aborted' = FALSE /\ codecFinished' = FALSE /\ spilled' = 0
  /\ phase' = "armReset"
  /\ UNCHANGED <<afterLine, boxVars, run, line, text, statusDone, upc, direct,
                 ready, held, nextSend, armVars, lines, late>>

\* armReset() and the reset of the queue; then the tasks of the run are created.
ArmReset ==
  /\ phase = "armReset" /\ Undisturbed
  /\ ring' = <<>> /\ inflight' = NoSegment /\ ready' = <<>>
  /\ run' = run + 1 /\ phase' = "run" /\ upc' = "loop"
  /\ UNCHANGED <<afterLine, boxVars, line, text, statusDone, aborted,
                 codecFinished, direct, held, nextSend, spilled, bufVars,
                 endpoint, arming, mine, lines, late>>

\* The stages of the run that are complete.
Published ==
  (0 .. nextSend - 1) \cup {r.index : r \in held} \cup {ready[k].index : k \in DOMAIN ready}

\* A worker completes a stage and queues it, the stages in any order: two
\* workers fill them.  One a lost chunk belonged to is never complete.
PublishStage ==
  /\ phase = "run" /\ ~codecFinished
  /\ \E i \in (0 .. MaxStages - 1) \ Published, s \in freeSlots :
       /\ freeSlots' = freeSlots \ {s}
       /\ ready' = Append(ready, [index |-> i, slot |-> s])
  /\ UNCHANGED <<ctlVars, statusDone, aborted, codecFinished, upc, direct, held,
                 nextSend, spilled, busy, armVars, lines, late>>

\* A worker waited too long for a slot (acquireStage).
RunAborts ==
  /\ phase = "run" /\ ~codecFinished /\ ~aborted
  /\ aborted' = TRUE
  /\ UNCHANGED <<ctlVars, statusDone, codecFinished, upc, direct, stageVars,
                 bufVars, armVars, lines, late>>

\* All workers have given HarvestDone.
CodecFinishes ==
  /\ phase = "run" /\ ~codecFinished
  /\ codecFinished' = TRUE
  /\ UNCHANGED <<ctlVars, statusDone, aborted, upc, direct, stageVars, bufVars,
                 armVars, lines, late>>

\* runCapture() has UsbDone: the status line is next.
RunOver ==
  /\ phase = "run" /\ upc = "done"
  /\ phase' = "line" /\ afterLine' = "idle"
  /\ UNCHANGED <<boxVars, run, line, text, statusDone, runVars, bufVars,
                 armVars, lines, late>>

Control ==
  \/ CopyCommand \/ TakeCommand \/ WriteLine \/ PushLine \/ WaitLine \/ ResetBuffers \/ ArmReset
  \/ CodecFinishes \/ RunOver \/ Claim("control") \/ Write("control")

---------------------------------------------------------------------------
(* usbTask.                                                                *)

\* held[] is emptied of the stages whose turn has come before anything else.
InTurn == {r \in held : r.index = nextSend}

UsbIdle == upc = "loop" /\ arming["usb"] = "no" /\ Undisturbed

\* dispatchStage(), direct: the slot is armed.
QueueStage(r) ==
  LET g == [kind |-> "stage", slot |-> r.slot, run |-> run] IN
  /\ direct /\ spilled = 0 /\ ArmQueued < DirectDepth
  /\ Pushed("usb", g) \/ Refused(g)
  /\ UNCHANGED <<freeSlots, spilled>>

\* dispatchStage(), by way of the spill: the slot is free at once, and a
\* stage for which the spill has no room is gone.
SpillStage(r) ==
  /\ ~(direct /\ spilled = 0 /\ ArmQueued < DirectDepth)
  /\ spilled' = IF spilled < SpillDepth THEN spilled + 1 ELSE spilled
  /\ freeSlots' = freeSlots \cup {r.slot}
  /\ UNCHANGED armVars

Dispatch(r) == (QueueStage(r) \/ SpillStage(r)) /\ nextSend' = nextSend + 1

\* usbTask receives a stage: it is its turn, or it is held.
TakeReady ==
  /\ UsbIdle /\ InTurn = {} /\ ready # <<>>
  /\ \/ Head(ready).index = nextSend /\ Dispatch(Head(ready)) /\ UNCHANGED held
     \/ /\ Head(ready).index # nextSend
        /\ held' = held \cup {Head(ready)}
        /\ UNCHANGED <<nextSend, spilled, freeSlots, armVars>>
  /\ ready' = Tail(ready)
  /\ UNCHANGED <<ctlVars, statusDone, aborted, codecFinished, upc, direct, busy,
                 lines, late>>

\* The turn of a held stage has come.
SendHeld ==
  /\ UsbIdle
  /\ \E r \in InTurn : held' = held \ {r} /\ Dispatch(r)
  /\ UNCHANGED <<ctlVars, statusDone, aborted, codecFinished, upc, direct, ready,
                 busy, lines, late>>

RingFull_Never == FALSE             \* mutant: armQueued() is not looked at

RingFull == ArmQueued >= ArmDepth

\* refillBounces(): what was spilled goes to a bounce buffer, which is queued.
QueueBounce ==
  /\ UsbIdle /\ InTurn = {} /\ spilled > 0 /\ ~RingFull
  /\ \E b \in Bounces \ busy :
       LET g == [kind |-> "bounce", slot |-> b, run |-> run] IN
       /\ busy' = busy \cup {b}
       /\ Pushed("usb", g) \/ Refused(g)
  /\ spilled' = spilled - 1
  /\ UNCHANGED <<ctlVars, statusDone, aborted, codecFinished, upc, direct, ready,
                 held, nextSend, freeSlots, lines, late>>

\* Nothing is left to send: no stage received, held or spilled, no segment queued.
Drained == ready = <<>> /\ held = {} /\ spilled = 0 /\ ArmQueued = 0

\* The loop ends, at once when the run was aborted; held[] goes with the task.
UsbExit ==
  /\ UsbIdle /\ InTurn = {} /\ codecFinished
  /\ aborted \/ Drained
  /\ upc' = "done" /\ held' = {} /\ nextSend' = 0
  /\ UNCHANGED <<ctlVars, statusDone, aborted, codecFinished, direct, ready,
                 spilled, bufVars, armVars, lines, late>>

---------------------------------------------------------------------------
(* The usbd task.                                                          *)

CallbackArms_Not == UNCHANGED arming    \* mutant: the next is not armed

\* onDirectTxComplete() ends with tryArm().
CallbackArms == arming' = [arming EXCEPT !["callback"] = "claim"]

\* What onDirectTxComplete() does for the segment it finds in flight.
Released(s) ==
  /\ freeSlots' = IF s.kind = "stage" THEN freeSlots \cup {s.slot}
                  ELSE freeSlots
  /\ busy' = IF s.kind = "bounce" THEN busy \ {s.slot} ELSE busy
  /\ statusDone' = (statusDone \/ s.kind = "status")

\* A transfer completes: the host has it, onDirectTxComplete() releases the
\* segment that is in flight now, if there is one, and arms the next.
TxComplete ==
  /\ endpoint # NoSegment /\ arming["callback"] = "no"
  /\ endpoint' = NoSegment
  /\ lines' = IF endpoint.kind = "status" THEN Append(lines, text) ELSE lines
  /\ \/ /\ inflight # NoSegment
        /\ inflight' = NoSegment
        /\ Released(inflight)
        /\ CallbackArms
     \/ /\ inflight = NoSegment
        /\ UNCHANGED <<inflight, bufVars, statusDone, arming>>
  /\ UNCHANGED <<ctlVars, runVars, ring, mine, late>>

\* All commands are done.
Finished ==
  /\ phase = "idle" /\ sent = MaxCommands /\ mailbox = 0 /\ endpoint = NoSegment
  /\ UNCHANGED vars

UsbTask ==
  \/ TakeReady \/ SendHeld \/ QueueBounce \/ UsbExit
  \/ Undisturbed /\ (Claim("usb") \/ Write("usb"))
Callback == Claim("callback") \/ Write("callback")

\* What usbTask waits for never comes: a stage is missing that comes before
\* one it holds, or every bounce buffer is lost to a transfer that a late
\* host kept from starting.  runCapture() waits for UsbDone for ever.
StageMissing == \E i \in Published : \E j \in 0 .. i : j \notin Published
BouncesLost == late /\ spilled > 0 /\ busy = Bounces /\ ArmQueued = 0
Stranded ==
  phase = "run" /\ codecFinished /\ ~aborted /\ (StageMissing \/ BouncesLost)

Hang == Stranded /\ UNCHANGED vars

Next ==
  \/ onDirectRxData \/ Control \/ PublishStage \/ RunAborts
  \/ UsbTask \/ TxComplete \/ Callback
  \/ Finished \/ Hang

Spec == Init /\ [][Next]_vars

\* The tasks are scheduled, the codec ends, the host reads sooner or later.
FairSpec ==
  /\ Spec
  /\ WF_vars(Control) /\ WF_vars(UsbTask) /\ WF_vars(Callback)
  /\ WF_vars(TxComplete)

---------------------------------------------------------------------------
(* Properties.                                                             *)

\* loop() acts on every command that was accepted, once and in order, although
\* it reads the mailbox before it clears CommandPending and the usbd task may
\* come in between; one that arrives during a run waits for its end.
CommandsKept ==
  accepted = IF mailbox = 0 THEN served ELSE Append(served, mailbox)

\* As long as the host reads every line within the two seconds:

\* No state of a run remains in the next: while a run is on, the endpoint
\* transfers a segment of this run or nothing, although an aborted run leaves
\* its segments queued (usbTask, sendLine, armReset).
RunStartsClean ==
  ~late /\ phase = "run" => endpoint = NoSegment \/ endpoint.run = run

\* tryArm() never calls writeDirect() while a transfer is on, in this run or
\* from the last: Inflight stands for the state of the endpoint.
EndpointIdle ==
  ~late => \A t \in Tasks : arming[t] = "write" => endpoint = NoSegment

\* A completion finds its own segment in flight, so that the callback releases
\* the buffer that was sent and gives StatusDone for the line that was.
SentIsInflight ==
  [][ ~late /\ endpoint # NoSegment /\ endpoint' = NoSegment =>
        inflight = endpoint ]_vars

\* The line always finds room in the ring, also behind the segments of an
\* aborted run: sendLine() gives up silently otherwise.
LineRoom == ~late /\ phase = "push" => Len(ring) < ArmDepth

\* The host gets the lines once each, in order, each with its own text: the
\* one StatusBuffer is not printed to while a line waits in the ring.
LinesInOrder == ~late => \A k \in DOMAIN lines : lines[k] = k

\* sendLine() returns when the host has the line, not at an older StatusDone.
LineSent == ~late /\ phase \in {"idle", "reset"} => Len(lines) = line

\* However slow the host is, as long as it reads at last, every accepted
\* command is taken up and ends (StatusDone, UsbDone), be its run aborted or
\* complete, direct or spilled.  The one way not to end is a run that was not
\* aborted although a stage of it is missing or its bounce buffers are lost.
CommandEnds ==
  (phase # "idle" \/ mailbox # 0) ~> (phase = "idle" /\ mailbox = 0) \/ Stranded

\* The callback releases the segment that was sent, or nothing: it goes by
\* Inflight and has nothing else to know the transfer by.  resetRunState()
\* initialises the ownership of the buffers for each run, so that no state
\* remains.
OwnTransfer ==
  [][ endpoint # NoSegment /\ endpoint' = NoSegment =>
        inflight \in {endpoint, NoSegment} ]_vars
====
