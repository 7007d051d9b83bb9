----------------------------- MODULE MCHostTools -----------------------------
(***************************************************************************)
(* One instance of every host-side program: a behaviour begins with one of *)
(* them and stays with it.  The capture program has the variables of its   *)
(* module; the others share three of their own.                            *)
(***************************************************************************)
EXTENDS CaptureHost

CONSTANTS
    Starts, MaxBlocks,                  \* the validator
    Pages, MaxFaults,                   \* the flash writer
    MaxBlock, ByteBits                  \* the codec

(* An image has pages, the line does not fail forever, and the counter of   *)
(* the source has eight bits.                                               *)
ASSUME ToolAssumption ==
    /\ Pages \in Nat \ {0} /\ MaxFaults \in Nat
    /\ Starts \subseteq 0 .. 255 /\ MaxBlocks \in Nat

VARIABLES
    running,                            \* the program of this behaviour
    program, line, board                \* state of a program that is not the capture

capture == <<host, wire, dev>>
other == <<program, line, board>>
toolVars == <<running, host, wire, dev, program, line, board>>

Lane(mode, decimation, phase, active) ==
    [mode |-> mode, decimation |-> decimation, phase |-> phase, active |-> active]

(* Every mode, values that straddle two bytes, and lanes of unequal rates. *)
ChannelLists ==
    {<<Lane("raw", 1, 0, 0), Lane("edge_latch", 2, 0, 1)>>,
     <<Lane("decimate_hold", 2, 1, 0), Lane("edge_latch", 2, 0, 0)>>,
     <<Lane("any_active", 2, 0, 0), Lane("raw", 1, 0, 1)>>,
     <<Lane("edge_latch", 1, 0, 1)>>,
     <<Lane("edge_latch", 3, 0, 0), Lane("decimate_hold", 3, 2, 1)>>}

Reader == INSTANCE StreamReaders WITH host <- program, wire <- line, dev <- board
Validator == INSTANCE GrayValidator WITH host <- program, wire <- line, dev <- board
Flash == INSTANCE FlashLink WITH host <- program, wire <- line, dev <- board
Codec == INSTANCE MixedCodec
    WITH Channels <- ChannelLists, host <- program, wire <- line, dev <- board

(* The capture program was not started: it has no exit code. *)
NoCapture == host = [exit |-> -1] /\ wire = <<>> /\ dev = <<>>

NoOther == program = "none" /\ line = "none" /\ board = "none"

ToolInit ==
    \/ running = "capture" /\ Init /\ NoOther
    \/ /\ NoCapture
       /\ \/ running = "reader" /\ Reader!Init
          \/ running = "validator" /\ Validator!Init
          \/ running = "flash" /\ Flash!Init
          \/ running = "codec" /\ Codec!Init

ToolNext ==
    /\ UNCHANGED running
    /\ \/ running = "capture" /\ Next /\ UNCHANGED other
       \/ running = "reader" /\ Reader!Next /\ UNCHANGED capture
       \/ running = "validator" /\ Validator!Next /\ UNCHANGED capture
       \/ running = "flash" /\ Flash!Next /\ UNCHANGED capture
       \/ running = "codec" /\ Codec!Next /\ UNCHANGED capture

ToolProgress ==
    /\ UNCHANGED running
    /\ \/ running = "capture" /\ Progress /\ UNCHANGED other
       \/ running = "reader" /\ Reader!Progress /\ UNCHANGED capture
       \/ running = "validator" /\ Validator!Progress /\ UNCHANGED capture
       \/ running = "flash" /\ Flash!Progress /\ UNCHANGED capture

ToolSpec == ToolInit /\ [][ToolNext]_toolVars /\ WF_toolVars(ToolProgress)
-----------------------------------------------------------------------------
\* The type invariant of the program that runs.
ToolTypeOK ==
    /\ running = "capture" => TypeOK
    /\ running = "reader" => Reader!TypeOK
    /\ running = "validator" => Validator!TypeOK
    /\ running = "flash" => Flash!TypeOK
    /\ running = "codec" => Codec!TypeOK

\* A reader that reports a good run has received the whole stream once and in order.
StreamWhole == running = "reader" => Reader!StreamWhole

\* The validator passes an undisturbed stream and fails one with a block lost or repeated.
GrayVerdict == running = "validator" => Validator!GrayVerdict

\* A flash script that succeeds leaves the pages as it promises, whatever was lost on the way.
FlashRestored == running = "flash" => Flash!FlashRestored

\* The mixed-rate codec returns the levels that its channels hold.
CodecRoundTrip == running = "codec" => Codec!CodecRoundTrip

\* Every program that talks to a board ends, whatever the board does.
ToolEnds ==
    <>\/ running = "codec"
      \/ running = "capture" /\ host.at = "exit"
      \/ running = "reader" /\ program.at = "exit"
      \/ running = "validator" /\ program.blocks = MaxBlocks
      \/ running = "flash" /\ program.at = "end"
=============================================================================
