# Verification of the P4 capture stream

This directory holds TLA+ models of the programs in this repository, the TLC
runs that check them and the proofs TLAPS checks. The repository is mostly a
record of measurements and protocols; the code with logic of its own is the
logic-analyser firmware it grew in `experiments/`, the host programs that read
its stream, and the scripts that judge the experiments. Of the firmware the last
generation, `e121_p4_stream_baseline_250.ino`, is modelled; line numbers below
are lines of that file unless another is named.

## Inventory

The stream firmware runs on an ESP32-P4. PARLIO samples up to 16 lanes into a
ring, two tasks pack the samples, and USB sends the packed stream while the host
may pause; a 16 MiB FIFO in PSRAM takes what USB cannot.

| component | state | operations | interacts by |
|---|---|---|---|
| capture feed (1786-1842) | `CallbackBytes`, `PendingChunk`, `ChunkQueue`, the ring | `onPartialReceive`, `pushChunk` | ISR to workers through a queue; workers read the ring under the DMA |
| codec workers (640-800, 1407-1542) | the chunk in hand, `ProcessedRaw` | take a chunk, `place()` its blocks, stop | both share the stage table |
| stage slots (151-166, 555-638, 1661-1666) | `FreeSlots`, `SlotTableIndex/Slot`, `StageFilled`, `ReadyStageQueue` | `acquireStage`, `commitStage`, `releaseStage` | workers, `usbTask`, the TX-complete callback, under `StageMux` |
| USB return path (1546-1712, 1735-1781) | spill FIFO, bounce buffers, arm ring, `Inflight`, `held[]` | `dispatchStage`, `spillPush/Pop`, `refillBounces`, `armPush`, `tryArm`, `onDirectTxComplete` | `usbTask` and the usbd task, under `ArmMux`; the endpoint |
| internal sink (1714-1731) | none | `sinkTask` | takes the place of `usbTask` |
| run control (1905-2044, 2249-2258, 2339-2390) | `RunPending`, `RunAborted`, `CodecFinished`, `StatusDone`, `StatusBuffer` | `loop`, `resetRunState`, `runCapture`, `sendLine` | starts and joins the tasks of a run; sends lines through the arm ring |
| command mailbox (1783-1790) | `CommandMailbox`, `CommandPending` | `onDirectRxData`, `loop` | usbd task to `loop()` |
| dynamic profile (832-957, 2235-2247) | `Dyn` | `buildDynamicProfile`, `applyCodecLimit` | the codec and the answer to the host |

The host side, in Python:

| component | state | operations | interacts by |
|---|---|---|---|
| capture programs, `host_capture.py` of e106 - e117 | transfers in flight, bytes planned and received, samples, status | submit, callback, resubmit, sample and validate, cancel, drain, read the status line, verdict | one bulk IN endpoint that carries data and status |
| validators, class `Validator` | the followed count, the block before | `feed` a block | called by the above |
| other readers (e078 - e086, e104, e105, e110 - e121) | the same, fewer | the same with other rules for failures and verdicts | USB, and for some a `DONE` line on the serial port |
| flash scripts e130, e131 with the sketch of e129 | page, attempt, backup | `write_page`, `read_page`, restore | a packet down, a line up, both on a serial line |
| experiment scripts `eNNN.py` | the position in a sequence of expects, what was read | write a letter, expect, assert, wait for a USB device, verdict | serial port, and the USB bus of the target |
| mixed-rate codec, `codec.py` of e105 | none | `calculate_budget`, `encode_mixed`, `decode_mixed` | pure |

Beside these: the earlier generations e106 - e120 of the firmware (superseded),
the TCP side of the BeagleLogic servers, the FIFO of the continuous stream, the
trigger of e023 - e030, the throughput sketches, the debug wire itself, the UART
driver prototype e172, and the offline decoders in `captures/tools`.
`PROJECT.json` lists them with the reason each is not modelled, or not yet.

What is hard here: the two workers finish pieces of stages in any order; slots
are recycled while USB may still read them; blocks change between two ways to
the host during a run; a wakeup is shared between a task and a callback that
preempts it; an aborted run leaves transfers behind; waits with and without
timeouts depend on each other. On the host side: data and status share an
endpoint that may hold an earlier run's; a short transfer goes to the end of the
queue; a command may be answered twice; a wait for a device may be met by what
was there before. `PROJECT.json` "hazards" names each at its line.

What makes the parts right:

* slots: each slot has one holder; a published stage is whole; nobody blocks on
  the ready queue; every run ends;
* return path: a queued buffer keeps its data, the host gets the accepted blocks
  in order, no segment is left in the ring asleep, done means sent;
* capture feed: each block is read once and from its own bytes, or the report tells;
* run control: a run starts with nothing left of the last, the callback releases
  what was sent, lines arrive once and whole, a command ends unless its run is
  stranded in one of two ways;
* host programs: good only for the whole stream of their own run; what is compared
  is aligned; a loss is seen; a flash page ends as promised; they end;
* experiment scripts: a pass rests on one complete run, and its verdict is true.

## Modules

| module | models | remarks |
|---|---|---|
| `StageSlots` | codec workers, stage slots, order of stages in `usbTask`, `sinkTask` | block data in the buffers; USB side abstract |
| `MCStageSlots` | | symmetry of the two workers for TLC |
| `StageSlotsProofs` | | proofs about `StageSlots` |
| `CaptureFeed` | ring, DMA nodes, ISR, chunk queue, workers' reads of the ring | positions of the stream; stages abstract |
| `MCCaptureFeed` | | symmetry of the two workers for TLC |
| `CaptureFeedProofs` | | proofs about `CaptureFeed` |
| `UsbReturn` | the USB return path, one run | block data in every buffer; codec side one action |
| `OrderedStream` | what the return path promises | abstract specification |
| `UsbReturnProofs` | | proofs about `UsbReturn` |
| `UsbRuns` | command mailbox, several runs, order and spill of stages, abort, reset, status and answer lines | no data; a stage is a number and a slot, segments carry the run they belong to |
| `UsbRunsProofs` | | proofs about `UsbRuns` |
| `Bench` | the dialogue of an experiment script with its board | parameter: a set of scripts |
| `BenchScripts` | the scripts e001 - e061, e122 - e131, e133, e136, e151 - e159 | tables for `Bench`, no state |
| `MCBench` | | all scripts |
| `BulkEndpoint` | the endpoint and its transfers | shared by the next two |
| `CaptureHost` | `host_capture.py`, ten generations | a record per generation |
| `StreamReaders` | the other readers | a record per program |
| `StreamReadersProofs` | | proofs about `StreamReaders` |
| `GrayValidator` | class `Validator` with its five profiles | the source and its jitter are external |
| `GrayValidatorProofs` | | proofs about `GrayValidator` |
| `FlashLink` | page writes through the SWIO board | script, serial line and board |
| `FlashLinkProofs` | | proofs about `FlashLink` |
| `MixedCodec` | `codec.py` of e105 | data; bytes of `ByteBits` bits |
| `MCHostTools` | | one of the five host-side models per behaviour; extends `CaptureHost` |
| `HostToolsProofs` | | proofs about `CaptureHost`, and the results about all host programs for `MCHostTools` |

### StageSlots

A block is the unit; `blk[w]` and `left[w]` are the part of its chunk a worker
still has to place, `buf[w]` the buffer `acquireStage()` returned. Each critical
section under `StageMux` is one action (`Acquire`, `AcquireFails`, `Commit`);
between them the worker encodes (`WriteBlocks`), which is where the other worker
and the consumer interleave. `Publish` is the blocking `xQueueSend`. `GiveUp` is
the 500 ms timeout or the abort seen in the wait; it may happen at any time in
the wait, since the model has no clock. The queue of chunks is a cursor into the
stream, because chunks come out in the order they went in; a lost chunk
(`LoseChunk`) advances it. `published` is a history variable.
`UsbReceive`, `UsbHold`, `UsbDrain` and `UsbExit` are the loop of `usbTask`;
`Dispatch` gives the slot back at once (spilled or dropped) or after
`UsbComplete` (armed). `sinkOnly` is the flag of the internal sink mode: `sinkTask`
takes the stages instead (`SinkModes` says which modes a run covers). Chunks are
counted in blocks here; their bytes are the matter of `CaptureFeed`.

### CaptureFeed

The unit is a few raw bytes. `dma` and `callback` are positions in the stream,
and what an address of the ring holds is the stream position last written there
(`Content`), so a read that comes too late is seen as a wrong position and not
as a wrong counter. `NodeEnds` divides the ring into nodes of unequal length, as
the driver does; `Write` is the DMA filling the next node and
`onPartialReceive` the ISR for it, with coalescing and both its pushes. A node is
written in one step, that is, at once over its whole length: the earliest moment at
which old data can be gone. The next node waits for the ISR of the last.

A worker goes from `take` to `copied` (the straddling block is put together in its
own buffer) to `blocks` (one per step, straight from the ring) to `counted`
(`ProcessedRaw` is raised) and, after it has read `CallbackBytes`, to `take`.
`encoded` is history: for each block whether the bytes read were its own. A wait
for a stage is a worker that is slow; its timeout is `GiveUp`. The stream stops
`MaxExtra` past the target, or earlier: a worker that finds the queue empty may leave
at any position (`StopWorker`, ten waits of 200 ms), which is how a stalled source, or a
worker to which the other leaves nothing, ends. It is `starved` when the stream had not
come to the target, `done` otherwise; only `NoneLeftOut` tells the two apart. Statistics
(`ChunkMin`, `CoalescedPushes`) are left out.

### UsbReturn

The contents of stage buffers, spill and bounce buffers are sequences of block
numbers. `CodecStage` fills any free slot and queues it: a slot that is freed
too early is overwritten, and the mistake shows as wrong data. `usbTask` is a
program counter `upc` with one step per read of `armQueued()`, per critical
section and per `writeDirect()`. `TxComplete` is the end of a transfer and
`onDirectTxComplete()` up to its call of `tryArm()`, one step because the usbd
task (priority 24) is above `usbTask` (6) on the same core; its `tryArm()` is
interleaved with `usbTask` all the same, which is more than the scheduler does.
The spill is checked and pushed in one step because only `usbTask` touches it.
`from` in a segment, `accepted` and `wire` are history.

### UsbRuns

`phase` is `loop()` and `captureControlTask` in sequence: copy of the mailbox, answer
line, reset, run, status line. `onDirectRxData` puts a command into the mailbox or
drops it, at any moment at which the usbd task is free; what the command asks for is
a choice when it is taken, `direct` (no `kFlagNoDirect`) among it. `accepted` and `served`
are history. Workers publish the stages of a run in any order (`PublishStage`), and may leave
one out, as after a lost chunk. `usbTask` takes them from the ready queue (`TakeReady`),
keeps those whose turn has not come in `held` and sends those in turn (`SendHeld`, before
anything else, as its inner loop does), directly or by way of the spill, which is a number of
stages here; `QueueBounce` moves one into a free bounce buffer. `UsbExit` has both exits of
the loop: aborted, or `Drained`, that is nothing received, held, spilled or queued.
`Stranded` is a run in which the second never comes and the first is not taken either: a
stage is missing before one that is published, or every bounce buffer was lost to
`writeDirect()` on an endpoint that a late host kept busy. There `runCapture()` waits for
`UsbDone` for ever (`Hang`). `arming[t]` and `mine[t]` are a task's place and local in
`tryArm()`. `writeDirect()` is code of the EspUsbDevice library: modelled as
starting a transfer on an idle endpoint and refusing on a busy one, as the
caller's error path expects. Here the priority of the usbd task is kept
(`Undisturbed`), since without it the model shows interleavings the scheduler
excludes. `late` records that the host let `sendLine()` give up: most properties
of the module are about hosts that do not.

### Bench and BenchScripts

A script is a list of sections: a command letter, how often it is sent, the lines
it expects with what is asserted of each, and for some a wait until the target is
present on, or absent from, the USB bus. `Read` is one `dut.expect`: everything
up to the first match is consumed, so a line that does not match is passed over.
Lines are abstracted to kind, round, key and a grade: `bad` fails an assert,
`unclean` is recorded, and `Judged` is what the script makes of the record at its
end. The board (`e021`'s `loop()` stands for the sketches, which are alike here)
takes one letter per pass or empties its queue first, prints a run, and may return
early with `DONE status=...-failed`. A loop over many cases is cut to `MaxRounds`.
Waits poll; a poll that finds the target is a step, and the deadline may pass
whenever a poll would fail.

### CaptureHost and StreamReaders

The unit of data is half a packet, so that packets are full or short; it names
its run and its place in the stream, and status lines are units too. Transfers
are submitted, filled by packets, ended, and called back in that order. A packet
that does not fit, or the deadline, fails the transfer at the head, and what it
had received is lost. The board may send a short packet in mid-stream, stop, or
leave things of an earlier run in the endpoint. `Planned` and `Missing` are
the two ways `complete()` submits again. Where generations differ (drain option,
what an error does, how samples are validated, how the status line is found) the
record of `Tools` or `Readers` says so and the actions ask it. The error paths of
`StreamReaders` stop at the verdict; those of `CaptureHost` go on to the exit.

### GrayValidator, FlashLink, MixedCodec

`GrayValidator` sees every sample of a source that counts in Gray code, one step
every four samples give or take one, and follows it as `feed` does; between
blocks the stream may lose or repeat one block. `FlashLink` keeps a page as one
value; packets may be damaged or unheard, answers lost or late, and a page broken
half way. `MixedCodec` encodes every possible block of samples for several channel
lists and decodes it again.

## Runs

| run | question | result |
|---|---|---|
| `usb_return` | return path, `writeDirect()` fails at most once | `QueuedDataKept`, `OneOwner`, `ArmRingRoom` hold in all cases; `HostInOrder`, `RingAwake`, `DoneMeansSent` while it works; after a failure the host misses blocks but gets none twice or out of order |
| `usb_return_live` | fair tasks and host, no failure | the run ends; refines `OrderedStream` |
| `slots` | two workers, a lost chunk, a stalled source | published stages are whole, the table is stable; with nothing lost also one holder per slot, room in both queues, complete or flagged |
| `slots_live` | nothing lost, source may stall; with `usbTask` and with `sinkTask` | every run ends |
| `slots_lost_chunk` | a lost chunk near the end | violated: the run hangs |
| `slots_starve` | workers far apart | violated: both workers wait with the spill empty |
| `slots_sink_alias` | sink mode, a worker far behind | violated: the table entry is reassigned under it |
| `capture_feed` | nodes, chunks and reads of the ring, one worker or two | each block is encoded once, from its own bytes unless the DMA came round to it; without an abort or a full queue none is left out before the data nobody took, and none at all when a worker left at the target; with one worker `max_inflight` tells an overrun |
| `usb_runs` | two commands, answer lines, aborts | every accepted command is acted on once and in order, and ends unless its run, not aborted, misses a stage or lost its bounce buffers; with a prompt host runs do not disturb each other and lines arrive whole and once |
| `usb_runs_late` | host slower than the timeout | violated: a late completion releases a buffer of the new run |
| `bench` | every script, one fault | a pass rests on the lines of one run, in order and complete; verdicts are true of that run; a boot loader waited for came back after the command |
| `host_tools` | every host program | good only with the whole stream and the status of its own run; validated blocks are aligned; a lost or repeated block is seen; flash pages end as promised; the codec returns what the channels keep; every program ends |

Each property of a passing run has a mutant: a definition with a plausible bug
(marked `mutant` in the modules), under which TLC finds the property violated.

### Findings

* **A lost chunk can hang the run** (`slots_lost_chunk`). e111's README (line 65)
  lets the stage-wait timeout carry "overflow -> abort". When the chunk is lost
  in one of the last stages no worker needs another slot afterwards; the workers
  end at the target, later stages sit in `held[]`, `anyHeld` (1704) never clears
  and `runCapture()` waits on `UsbDone` for ever (2020).
* **The free list does not always keep the codec running** (`slots_starve`). A
  stage is spilled only in its turn. If one worker lags on the next stage while
  the other fills all remaining slots with later ones, all slots are in
  `held[]` and both workers wait until the timeout aborts the run, with the
  spill empty, contrary to the comment at 154-158. It takes a lag of
  `kStageCount` stages, some milliseconds of one worker standing still.
* **In sink mode the stage table can be reassigned under a worker**
  (`slots_sink_alias`). `usbTask` bounds how far stages run ahead; `sinkTask`
  does not, so a worker that stands still for `kSlotTable` stages finds its entry
  in other hands at 627. The mode only measures, and the lag is long.
* **A transfer can outlive its run** (`usb_runs_late`). `armReset()` clears
  `Inflight` but the endpoint may be busy when the host has not read a line for
  two seconds. The next run's first segment then meets a busy endpoint, or loses
  its buffer to the late completion; e109 (README line 14) expects no state to
  remain.

### Observations

Read off while modelling, and stated in the models rather than as violations,
since nothing in the repository promises otherwise:

* `max_inflight` is read when a chunk is done (764-767). A run may have encoded
  overwritten bytes with a `max_inflight` below the ring size, since the chunk in
  hand is accounted although it was read late. `InflightMargin` states what does
  hold: the shortfall is less than a node, a chunk and a block, with one worker. With
  two it is not bounded by that, because bytes that one has accounted hide those the
  other has not read; `references/p4-logic-analyzer-investigation.ja.md` (151) knows the sampling as
  an underestimate.
* A source that stalls for two seconds ends the run short of the target without an abort and
  with `overflow` 0: the workers leave (735). What arrived is encoded all the same
  (`NoneLeftOut`), and what is missing shows in the block count.
* A run may hang in two ways, both in `Stranded`, and TLC finds `CommandEnds` violated
  when either is taken out. One is the lost chunk of `slots_lost_chunk`. The other needs a
  host that let a line wait: the endpoint is still busy when the next run arms its first
  segments, `tryArm()` forgets them (1571), their bounce buffers stay busy, and with
  none left what is spilled never goes out.
* In sink mode with a table of three entries TLC finds more stages ready than the
  ready queue was sized for, once an entry has been reassigned; `PublishRoom` is
  therefore a property of `usbTask`.
* A second `?` can start the experiment twice. `CompleteRun` and `VerdictTrue`
  exclude a repeated `?` together with a garbled line, or with a body line that
  is compared literally (`OneRun`): there a script would join lines of two runs.
* e124 - e129 differ in how they watch the boot loader. Those that only look for
  its presence first wait for its absence, which is what `HidFresh` rests on.
* A host program that was not told to drain takes an earlier run's status line
  for its own; `CaptureTrue`, `CheckedAligned` and `StreamWhole` are about an
  endpoint that was empty or drained.
* `stream_to_sr.py` (e082) calls a capture sample-accurate without comparing the
  length received, and `bl_stream_server.py` (e080) drops a failed transfer: both
  are in the model and outside `StreamWhole`.
* The profile `two` has no snapshot, and a block is a whole number of turns of its
  two lanes, so `GrayVerdict` cannot ask it to see a lost block.
* e114's program looks for `E113_STATUS` (504) in what it drained.

### Bounds

* `usb_return`: 3 slots, 2 bounces, stages of 2 blocks, a spill of 4, packets of 2
  and bounces of 4 (a refill may be partial, full, or odd at the end), 11 blocks:
  the last stage is short, and a stage may meet a spill too full for it, be
  dropped, and be followed by stages that are not. `DirectDepth` = `ArmDepth` = 2
  is the tightest ring: the firmware's 2 and 8 leave slack in which the guards are
  never felt. `usb_return_live` is the same with 9 blocks and no failure.
* `slots_*`: 2 slots, stages of 2 blocks, 9 blocks, that is five stages, the last
  one short; chunks of 1 to 3 blocks begin and end anywhere in a stage and span
  two. Five stages over a table of 3 or 4 entries go round it. With 2 slots and
  nothing lost 3 entries are enough (`slots_live`); `slots` has 4, because a stage
  that a loss leaves incomplete keeps its entry. `slots_lost_chunk` and
  `slots_sink_alias` use 4 entries, `slots_starve` stages of one block and three slots.
* `capture_feed`: blocks of 2 and nodes of 2 and 3 in a ring of 16, so that a node
  may end within a block, blocks straddle chunks and the end of the ring falls
  between two blocks; chunks of at most 5 are two nodes, a queue of 2 fills up; 11
  blocks and 4 units more go once and a half round the ring, so that a worker
  that stands still is overtaken.
* `MaxLost`, `MaxFailures`: one loss, one failure. `MaxCommands`: two
  commands, so that a run has a predecessor. `usb_runs`: runs of at most `MaxStages` = 3
  stages in 2 slots, so that one may be held while another waits and a slot comes back;
  a spill of 2 (`SpillDepth`), so that the third stage is dropped; `DirectDepth` = 1 with a
  ring of 2, so that a run goes from the direct way to the spill and back; two
  bounce buffers, which with one in flight and one queued are all busy.
* `bench`: two rounds of each loop, which is what an order needs; two attempts for
  a banner; one fault (`MaxFaults`), a garbled line, a bad stretch or a failed start.
* `host_tools`: blocks of 3 units and transfers of 4, so that transfers begin at
  every phase of a block; streams of 5, 6 and 12 units (odd, one and a half
  transfers, three transfers and four blocks) and the `--internal` run of none;
  two transfers in flight, two kept, one short packet in mid-stream. The counter
  of the validator starts at 250 and wraps at 256 in the first block; three
  blocks, with the fault after the first or the second. Two flash pages and three
  faults, as many as a page has attempts. Bytes of 3 bits instead of 8, so that
  blocks of at most 6 samples have values that straddle bytes, and all are tried.
* Deadlock is checked except with lost chunks (`slots`, `slots_lost_chunk`), where the run
  really hangs; in `usb_runs` such a run is the stuttering step `Hang`. In `bench` it
  shows that no script waits for a silent board without a deadline.

### Fairness

Weak fairness of each task's steps: FreeRTOS runs a ready task in the end
(`usbTask` above the workers, which block or yield). `UsbTask` is one loop, so its
steps are fair together. `CodecFinishes` is fair because the workers end (`slots_live`);
that they publish every stage is not assumed. `TxComplete` / `UsbComplete` are fair
because liveness is only claimed for a host that keeps reading. `RunAborts`,
`LoseChunk` and `SourceStalls` are not fair. The 500 ms timeout is part of a
worker's steps: time passes.

`bench` states safety only. In `host_tools` each program runs, the bus moves what there is, and
transfers time out; a board that stops, or a status that never comes, is allowed.
The codec needs no fairness: it has no wait.

## Proofs

`UsbReturnProofs` proves for every value of the constants (`ReturnAssumption`:
positive sizes and counts, `DirectDepth <= ArmDepth`):

| theorem | statement |
|---|---|
| `TypeCorrect` | `Spec => []TypeOK` |
| `RingRoom` | `Spec => []ArmRingRoom` |
| `RingStaysAwake` | `Spec => []RingAwake` |
| `BuffersHaveOneOwner` | `Spec => []OneOwner` |
| `DataKept` | `Spec => []QueuedDataKept` |
| `HostGetsInOrder` | `Spec => []HostInOrder` |
| `HostIncreases` | `Spec => []HostIncreasing` |
| `DoneIsSent` | `Spec => []DoneMeansSent` |
| `Implements` | with `MaxFailures = 0`, `Spec => Stream!Spec` |

The argument. None of the properties is inductive alone. `TInv` adds to the
types how the program counters go with `inflight`, `endpoint` and `seg`.
`TransferInv` says that a segment in flight is either on the endpoint or in the
hands of exactly one of `usbTask` and callback. `Ownership` counts the places a
buffer can be in by position (ring, in flight, being pushed) and says that no
two positions name the same buffer, which is free or waiting nowhere else; it
gives `OneOwner`. `DataInv` says that each position holds the blocks it was
queued with and that the spill is the tail of `accepted`; it needs ownership,
because only an owner's buffer stays as it is. `Chain` says that the positions
follow each other in the accepted stream without gaps, from what the host has to
where the spill begins; with `DataInv` it gives `HostInOrder`. For the
refinement `ReadyInOrder` says that the stages ready for dispatch carry the
blocks of consecutive indices. `Ended` says that the loop ends only with ring,
spill and endpoint empty, and `Returned`, the converse of `Ownership`, that a buffer
that is not free is in some position or waits for dispatch, so that then all are
free; the two and `Chain` give `DoneMeansSent`. `RingAwake`, `HostInOrder` and
`DoneMeansSent` speak of runs without a failed `writeDirect()`; the others hold with
failures too. `HostIncreasing` is about those failures, for which `Chain` has nothing to
say: the accepted blocks increase (`Increasing`, from `ReadyInOrder`), the positions
are apart and in order (`Apart`), and everything a position, the spill or the next
stage has is above what the host has (`Ahead`).

`StageSlotsProofs` proves (`SlotAssumption`: positive sizes, at least one worker;
`TableAssumption`: at most two workers, and a table larger than the slots by the
blocks of one chunk, as `kWorkers` = 2, `kSlotTable` = 16, `kStageCount` = 6 and
the chunk limit give it):

| theorem | statement |
|---|---|
| `TypeCorrect` | `Spec => []TypeOK` |
| `SlotsHaveOneHolder` | `Spec => [](lost = 0 /\ ~sinkOnly => OneHolder)` |
| `StagesAreWhole` | the same for `WholeStages` |
| `SlotStaysBound` | the same for `SameSlot` |
| `PublishFindsRoom` | the same for `PublishRoom` |
| `HeldStagesKept` | `Spec => HeldKept` |
| `EndsComplete` | `Spec => []CompleteOrFlagged` |

The conditions are those under which the code keeps the promise. In sink mode the
table can be reassigned under a worker (`slots_sink_alias`), and then a stage is not
whole either. A lost chunk may leave out a whole stage, so with enough of them, or
with a table of one entry more than slots and one of them, the same happens with
`usbTask`: `slots` shows that with one loss four entries for two slots are enough.

The argument. `Fill` keeps the accounts: `filled` of an open stage is the number
of its blocks that were taken and are in no worker's hands any more, and a stage is
published exactly when that is all of them. It needs `Chunks`, that the parts of the
stream in the two workers' hands are disjoint, so that a block is counted once.
`Placing` says that each slot is in exactly one place and that each stage index is in
at most one; with the accounts, the worker that completes a stage is the only one
to publish it. `Sending` says that the stages that wait are the published ones from
`nextSend` on, and `Window` that a stage in the queue is less than `kStageCount` from
those that wait ahead of it and are later in the stream. Why the table is stable:
an entry is reassigned to an index `kSlotTable` higher; between that index and the one a
worker still writes every stage is open, waits or is the other worker's (`GapFree`),
each takes a slot of its own, and there are only `kStageCount` slots (`Pigeons`), so the two
are less than `kSlotTable` apart (`Spread`, `EntryIsOld`). The same count makes the place in `held[]` free
(`HeldFree`) and leaves room in the queue. `Whole` follows a written block to its place.
`AllOut` says that when all workers are done and nothing waits everything was sent.

`UsbRunsProofs` proves for every number of buffers, depth of the ring, number of
commands and length of the runs:

| theorem | statement |
|---|---|
| `RunsInvariant` | `Spec => []IInv`, type correctness among it |
| `MailboxKeepsCommands` | `Spec => []CommandsKept` |
| `RunsAreSeparate` | `Spec => []RunStartsClean`: during a run the endpoint has a segment of this run or nothing |
| `WritesFindIdle` | `Spec => []EndpointIdle` |
| `CompletesInflight` | `Spec => SentIsInflight` |
| `LineFindsRoom` | `Spec => []LineRoom` |
| `LinesArrive` | `Spec => []LinesInOrder` |
| `LineIsSent` | `Spec => []LineSent` |

The argument. `Punctual` is the invariant of runs with a prompt host (`~late`); the
mailbox needs only that the copy `loop()` has made is still current (`CopyCurrent`).
`Transfers` says that a segment in flight is with the one task that claimed it or on
the endpoint. `Queued` says what the ring may hold in each phase: nothing outside a run
and a line, and the line as the last thing while `sendLine()` waits, which is why its
completion means that everything before it is gone. That is the link between two
runs: the status line separates them, and `armReset()` finds nothing. `Room` is why the
line finds a place: the ring is full only for the moment in which `usbTask`, the only
one that may fill it, is about to arm what it has pushed, and `usbTask` is done by then. All of it fails
with a late host, which `usb_runs_late` shows.

`CaptureFeedProofs` proves for every ring, division into nodes, block, coalescing
limit, queue depth and length of the run (`FeedAssumption`: the ring is a whole
number of blocks, a node is at least a block and at most a chunk):

| theorem | statement |
|---|---|
| `FeedInvariant` | `Spec => []IInv`, type correctness and order of the feed among it |
| `OverrunTold` | `Spec => []InflightMargin` |
| `BlocksArePlaced` | `Spec => []BlocksPlaced` |
| `NoneIsLeftOut` | `Spec => []NoneLeftOut` |

The argument for `InflightMargin`. It speaks of the end; in between the evidence of an
overrun is in a worker's hands. `FeedOrder` says that the DMA is at most a node
ahead of the ISR and that queued chunks and the pending chunk follow one another.
`Accounted` says that what the only worker has counted lies before its chunk and
before all that follow, which needs that order. `Told` follows the evidence: from a
copy that was too late, or a block read too late, over the chunk in hand
(`Late`), to `max_inflight`, where it stays because the maximum only grows.

The argument for `BlocksPlaced` and `NoneLeftOut`, with any number of workers. `Front` is where the data
begins that no worker has taken. `FeedSound` says that a chunk is in one piece of the
ring, at the address its position gives, and a block long at least; with the second
half of `FeedAssumption` no chunk is then too short to complete its block, and the tail
of a block cut by a chunk lies just before it in the same turn of the ring
(`TailInRing`). So what is read is right as long as the DMA is at most a ring ahead
(`HoldsFrom`, `BlockOutcome`, `StraddleOutcome`). The blocks in a worker's hands
(`Hand`) are those it will encode from its chunk, straddling one included, and
`ChunkBlocks` shows them to be the blocks that end between the front before and the end
of the chunk. `Once` says that hands are disjoint, not encoded, and before the front,
so a new chunk can bring none twice. `Linked` (chunks without gaps while none was
lost) and `NoneLeft` say that nothing before the front was left out, which is
`NoneLeftOut` for a run whose workers left a stalled source; a worker that
is `done` without an abort has seen a front past the target, because the node that reaches
the target flushes the pending chunk (`Flushes`). `HandsStep` reduces every step of a worker to one of
three effects on blocks (`Encodes`, `Clears`, `Takes`).

`FlashLinkProofs` proves for every number of pages and of faults
`PagesRestored`: `Spec => []FlashRestored`. The argument. Outside the finally clause
of e130 at most one packet or its answer is under way (`Clean`), so an answer is the
answer to the packet sent (`Image`, `Early`). A clause entered after a timeout may
still have that one packet or line before it. `Finally` says why it does no harm: a late
write is ahead of every write of the original, and a late read answers with the
pattern; so a read line with the original comes from the last read, behind which
nothing is sent.

The first part of `HostToolsProofs` proves for every generation and every size of block and transfer,
number of transfers in flight, planned stream and bound (`CaptureAssumption`: a block is
not empty, all else any number):

| theorem | statement |
|---|---|
| `HostInvariant` | `Spec => []IInv`, type correctness among it |
| `CapturesWhole` | `Spec => []CaptureTrue` |
| `ChecksBlocks` | `Spec => []CheckedAligned` |

The argument. The program counts what it has received, and an exit code 0 rests on that count; so
what counts must be of this stream and in order. `Flow` gives each transfer a
position in what the board has sent: the captured data first, then the transfers that
have ended, in order and up to the first that failed, then the first in flight
(`FirstOnly`: the others are empty), which ends where the board is (`Delivered`). A
failure loses what the transfer had, so positions behind it say nothing; that does no
harm because the program captures nothing after its own error, and a failed transfer
comes before those behind it. `Reads` separates stream and status line: until the
stream has ended only its transfers are read, and afterwards, without an error, none
of them. `Whole` says that what was captured begins at the first unit, that a status line
captured as data is in no other transfer, so that it cannot be both the last unit of a full count and the line that
was read, and that on a clean endpoint there is no old one. With `Phase` (the
count is the length, 0 needs a full count and a line) this makes the captured data
the stream itself. `Checking` says that samples are what was captured at the place
they name; `SkipAligned` is the arithmetic by which a sample that begins inside a
block is cut to its next one. The theorems leave out, as the properties do, other
exit codes and an endpoint with old data that was not drained. What
the validator thinks of a block is the next module's.

`GrayValidatorProofs` proves for every first count, every number of blocks and whatever
the jitter of the edges:

| theorem | statement |
|---|---|
| `TypeCorrect` | `Spec => []TypeOK` |
| `ValidatorVerdict` | `Spec => []GrayVerdict` |

The argument has three parts. The first is arithmetic of the Gray code. Eight lanes tell all
256 counts apart (`GrayOneToOne`), so a snapshot gives the counter. Fewer lanes may look
the same over one step, when the carry goes to a lane that is not seen, but never over
two (`TwoApart`); so a walk that is at most one count behind the source always finds its
next value, and is again at most one behind, and only where the lanes do not
show it (`Follow` and the lemmas about it). The second is time: `Timed` says that a block in
which the counter went over `edges` edges has four times as many samples, up to the jitter of the
first edge and of the last; `Between` says the same from one first
sample to the next. That puts the progress over every block and every part
of one inside the window of its profile, also with the walk one behind. The third is the walk itself.
`Single` is the walk from a known count. `Several` is the first block of the
profile `two`, which has no snapshot and is walked from all eight anchors: two lanes show the count
modulo four, and those that pass the first edge are at most one ahead of the source or one
behind, whichever is chosen at the end (`Walk`); the one from the count itself never dies, so
there is one to choose. These three make `Undisturbed`: nothing is found. `Marred` is the other half: a lost or
repeated block moves the counter by a quarter of the samples, and with `Apart` the difference at
the next snapshot is then outside the window whatever the jitter, and there is a
next snapshot (`Inside`).

`StreamReadersProofs` proves for every size and number of transfers, every length of the
stream and every number of kept transfers (`StreamAssumption`) `ReadersInvariant`:
`Spec => []IInv`, and `ReadersWhole`: `Spec => []StreamWhole`. The argument. On a clean
endpoint what the program has and what its transfers hold, called back or in flight, is
sent by this board in this run and in the order in which it was sent (`Ordered`); a failed or cancelled
transfer leaves a gap and disturbs no order. The order is strict, so nothing can be there
twice, and a sequence of as many units as the board has, in order, is the stream itself
(`OwnStream`); that is why a count is enough. The count could include the status line, the
one unit that is not data (`Place` puts it last): a program that reads it from USB reads one
more unit after the full count (`AfterStatus`), and for one that reads it
from the serial port the board does not put it on USB (`Speaks`). `Reply` and `Old` are
for the descriptor hosts, which have the old data behind them with the line that says
`ACCEPT`. `Enough` is why the count is full for the programs that compare no count (e104):
without an error they stop only with nothing outstanding, and then, since the requests add
up to the plan (`Plan`), everything has come.

The rest of `HostToolsProofs` carries these four results over to `ToolSpec`, the specification of the
run `host_tools`, in which a behaviour is one of the programs (`ToolAssumption`: an image has
pages, and the counter of the source eight bits):

| theorem | statement |
|---|---|
| `ToolCapture` | `ToolSpec => [](CaptureTrue /\ CheckedAligned)` |
| `ToolReader` | `ToolSpec => []StreamWhole` |
| `ToolGray` | `ToolSpec => []GrayVerdict` |
| `ToolFlash` | `ToolSpec => []FlashRestored` |

The modules that share variables are instances there, and what is proved about one of them is used
through its invariant: a step of the program that runs is a step of its module, and the
others do not exist.

Only model-checked: liveness (`RunEnds`, `CommandEnds`, `ToolEnds`, the
fair half of `OrderedStream`), which is beyond the provers; what `StageSlots` does in sink mode and
after a lost chunk, where the promises fail or hold by the bound on losses only; `Bench`, which picks the lines
of a run with `SelectSeq`, a recursion over data, and whose properties depend on what the scripts
say; `CodecRoundTrip`, which is induction over data; and `ToolTypeOK` as a whole, since the
types of the codec rest on its folds and that of the capture on a sum over its transfers (the
inductive invariants hold the types of the readers, the validator and the flash writer).

## Not modelled

Encoding, formatting, time measurement and the capture hardware; what a
command sets for its run; the USB-only probe; a failed allocation
or peripheral set-up in `runCapture()`; unplugging (`Vendor.mounted()`).

## Plan

1. `StreamPipeline`: `StageSlots` composed with `UsbReturn` in place of its
   abstract consumer, and each shown to be a projection.
2. The settings a command leaves to the next (`P` keeps `ProfileCode`, `Dyn` outlives
   a refused descriptor), with the host that sends them.
3. `CodecLayout`: `buildDynamicProfile` against `host_descriptor.py`, checked over
   bounded descriptors.
4. Others: the TCP side of the BeagleLogic servers (e077, e080), the FIFO of the
   continuous stream (e078), the UART rings (e172), the windowed RVSWD decoder.
