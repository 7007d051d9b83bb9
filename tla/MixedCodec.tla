---------------------------- MODULE MixedCodec -----------------------------
(***************************************************************************)
(* The mixed-rate codec of e105, codec.py: calculate_budget, encode_mixed  *)
(* and decode_mixed.                                                       *)
(*                                                                         *)
(* Every channel of a capture has its own mode and decimation.  A block    *)
(* of samples becomes one plane of values per channel; the planes follow   *)
(* each other bit by bit and only the whole block is padded to a byte.     *)
(* Decoding holds every value for the samples it stands for.               *)
(***************************************************************************)
EXTENDS Integers, Sequences, SequencesExt

CONSTANTS
    Channels,       \* the channel lists that are tried
    MaxBlock,       \* bound: samples of a block
    ByteBits        \* bits of a byte (8 in the code)

VARIABLES
    host,           \* the samples and what was decoded
    wire,           \* the encoded block, a sequence of bytes
    dev             \* the channels in use, their block, and where their planes begin

vars == <<host, wire, dev>>

Channel(mode, decimation, phase, active) ==
    [mode |-> mode, decimation |-> decimation, phase |-> phase, active |-> active]

BitsPerValue(c) == IF c.mode = "edge_latch" THEN 2 ELSE 1

Gcd[a, b \in Nat] == IF b = 0 THEN a ELSE Gcd[b, a % b]

Lcm(a, b) == (a \div Gcd[a, b]) * b

Bits(channels, samples) ==
    FoldLeft(LAMBDA n, c : n + (samples \div c.decimation) * BitsPerValue(c), 0, channels)

(* calculate_budget: the block that needs no padding. *)
BlockSamples(channels) ==
    LET least == FoldLeft(LAMBDA m, c : Lcm(m, c.decimation), 1, channels) IN
    least * (ByteBits \div Gcd[Bits(channels, least), ByteBits])

WireBytes(channels) == (Bits(channels, BlockSamples(channels)) + ByteBits - 1) \div ByteBits

Init ==
    /\ \E c \in {c \in Channels : BlockSamples(c) <= MaxBlock} :
          dev = [lanes |-> c, block |-> BlockSamples(c), bytes |-> WireBytes(c),
                 planes |-> [lane \in DOMAIN c |-> Bits(SubSeq(c, 1, lane - 1), BlockSamples(c))]]
    /\ host = [at |-> "sample", samples |-> <<>>, decoded |-> <<>>]
    /\ wire = <<>>

(* Samples are sequences of levels, one per lane. *)
Sample ==
    /\ host.at = "sample"
    /\ Len(host.samples) < dev.block
    /\ \E s \in [1 .. Len(dev.lanes) -> {0, 1}] : host' = [host EXCEPT !.samples = Append(@, s)]
    /\ UNCHANGED <<wire, dev>>

(* The value of a bucket of levels. *)
Value(c, levels) ==
    IF c.mode \in {"raw", "decimate_hold"} THEN levels[c.phase + 1]
    ELSE IF c.mode = "any_active"
    THEN IF \E i \in DOMAIN levels : levels[i] = c.active THEN c.active ELSE 1 - c.active
    ELSE levels[Len(levels)] +
         (IF \E i \in 2 .. Len(levels) : levels[i - 1] # c.active /\ levels[i] = c.active
          THEN 2 ELSE 0)

Bucket(lane, first) ==
    [i \in 1 .. dev.lanes[lane].decimation |-> host.samples[first + i][lane]]

Values ==
    FlattenSeq([lane \in DOMAIN dev.lanes |->
        [b \in 1 .. dev.block \div dev.lanes[lane].decimation |->
            [value |-> Value(dev.lanes[lane], Bucket(lane, (b - 1) * dev.lanes[lane].decimation)),
             width |-> BitsPerValue(dev.lanes[lane])]]])

(* _append_bits: whole bytes leave the accumulator, the rest stays in it.   *)
AppendBits(state, v) ==
    LET acc == state.acc + v.value * 2 ^ state.bits
        bits == state.bits + v.width IN
    IF bits >= ByteBits
    THEN [out |-> Append(state.out, acc % 2 ^ ByteBits), acc |-> acc \div 2 ^ ByteBits,
          bits |-> bits - ByteBits]
    ELSE [out |-> state.out, acc |-> acc, bits |-> bits]

Packed(values) ==
    LET after[n \in 0 .. Len(values)] ==
            IF n = 0 THEN [out |-> <<>>, acc |-> 0, bits |-> 0]
            ELSE LET before == after[n - 1] IN AppendBits(before, values[n])
        end == after[Len(values)] IN
    IF end.bits > 0 THEN Append(end.out, end.acc) ELSE end.out

Encode ==
    /\ host.at = "sample"
    /\ Len(host.samples) = dev.block
    /\ wire' = Packed(Values)
    /\ host' = [host EXCEPT !.at = "wire"]
    /\ UNCHANGED dev

(* A value at a bit offset may begin in one byte and end in the next.       *)
\* mutant: the next byte is not read
ValueAt_OneByte(offset, width) ==
    (wire[offset \div ByteBits + 1] \div 2 ^ (offset % ByteBits)) % 2 ^ width

ValueAt(offset, width) ==
    LET shift == offset % ByteBits
        low == wire[offset \div ByteBits + 1] \div 2 ^ shift
        high == IF shift + width > ByteBits
                THEN wire[offset \div ByteBits + 2] * 2 ^ (ByteBits - shift) ELSE 0 IN
    (low + high) % 2 ^ width

(* The level held by a bucket of a lane. *)
Decoded(lane, i) ==
    LET width == BitsPerValue(dev.lanes[lane]) IN
    ValueAt(dev.planes[lane] + ((i - 1) \div dev.lanes[lane].decimation) * width, width) % 2

Decode ==
    /\ host.at = "wire"
    /\ host' = [host EXCEPT !.at = "end",
                            !.decoded = [i \in 1 .. dev.block |->
                                            [lane \in DOMAIN dev.lanes |-> Decoded(lane, i)]]]
    /\ UNCHANGED <<wire, dev>>

Done == host.at = "end" /\ UNCHANGED vars

Next == Sample \/ Encode \/ Decode \/ Done

Spec == Init /\ [][Next]_vars
-----------------------------------------------------------------------------
(* The encoded block is bytes, as many as the budget says, with no padding. *)
TypeOK ==
    /\ host.at \in {"sample", "wire", "end"}
    /\ \A i \in DOMAIN wire : wire[i] \in 0 .. 2 ^ ByteBits - 1
    /\ wire # <<>> => Len(wire) = dev.bytes
    /\ dev.bytes * ByteBits = Bits(dev.lanes, dev.block)

(* What the decoded level of a lane must be at a sample, from the samples.  *)
Level(lane, i) ==
    LET c == dev.lanes[lane]
        first == ((i - 1) \div c.decimation) * c.decimation
        levels == {host.samples[first + k][lane] : k \in 1 .. c.decimation} IN
    CASE c.mode = "any_active" -> IF c.active \in levels THEN c.active ELSE 1 - c.active
      [] c.mode = "edge_latch" -> host.samples[first + c.decimation][lane]
      [] OTHER -> host.samples[first + c.phase + 1][lane]

(* The planes hold the value of every bucket, its edge flag included, and   *)
(* decoding gives every lane the level that its mode keeps of the samples,  *)
(* although values may begin in one byte and end in the next, and           *)
(* neighbours have other widths and rates.                                  *)
CodecRoundTrip ==
    host.at = "end" =>
        \A lane \in DOMAIN dev.lanes :
            LET c == dev.lanes[lane]
                width == BitsPerValue(c) IN
            /\ \A i \in DOMAIN host.samples : host.decoded[i][lane] = Level(lane, i)
            /\ \A b \in 0 .. dev.block \div c.decimation - 1 :
                   ValueAt(dev.planes[lane] + b * width, width) = Value(c, Bucket(lane, b * c.decimation))
=============================================================================
