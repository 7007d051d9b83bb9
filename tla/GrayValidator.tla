--------------------------- MODULE GrayValidator ---------------------------
(***************************************************************************)
(* The validator of the captured stream: class Validator of                *)
(* host_capture.py.                                                        *)
(*                                                                         *)
(* The signal source of the capture tests counts in Gray code, one step    *)
(* every four samples of the board, give or take one sample at an edge.    *)
(* A block of the stream holds a few lanes of every sample and snapshots   *)
(* of the whole word at some samples.  The validator follows the count     *)
(* through the lanes that it sees at every sample and compares the         *)
(* snapshots with it and with the block before.                            *)
(***************************************************************************)
EXTENDS Integers

CONSTANTS
    Starts,         \* values of the source's counter when the capture begins
    MaxBlocks       \* bound: blocks of a stream

VARIABLES
    host,           \* the validator
    wire,           \* the stream: what it lost or repeated
    dev             \* the source as the board samples it

vars == <<host, wire, dev>>

(* A profile: samples of a block, lanes seen at every sample, progress that *)
(* is accepted over a block, samples between the further snapshots (0: none *)
(* or not compared), and whether the block has a snapshot at its start.     *)
Profile(samples, lanes, low, high, step, anchored) ==
    [samples |-> samples, lanes |-> lanes, low |-> low, high |-> high, step |-> step,
     anchored |-> anchored]

Legacy == Profile(64, 3, 14, 17, 0, TRUE)
Wide == Profile(128, 3, 30, 34, 0, TRUE)
Four == Profile(128, 4, 30, 34, 32, TRUE)
Five == Profile(128, 5, 30, 34, 32, TRUE)
Two == Profile(256, 2, 62, 66, 0, FALSE)

(* The validators of the generations differ in the profiles they accept; a  *)
(* set of profiles and the actions below stand for the class of each.       *)
e106_profiles == {Legacy, Wide}
e107_profiles == {Legacy, Wide}
e108_profiles == {Legacy, Wide}
e109_profiles == {Legacy, Wide}
e110_profiles == {Legacy, Wide}
e111_profiles == {Legacy, Wide}
e112_profiles == {Legacy, Wide, Four, Five}
e113_profiles == {Legacy, Wide, Four, Five, Two}
e114_profiles == {Legacy, Wide, Four, Five, Two}
e117_profiles == {Legacy, Wide, Four, Five}

Profiles ==
    UNION {e106_profiles, e107_profiles, e108_profiles, e109_profiles, e110_profiles,
           e111_profiles, e112_profiles, e113_profiles, e114_profiles, e117_profiles}

(* The lowest lanes of s ^ (s >> 1): bit i of it is bit i + 1 of s + 2^i.   *)
Gray(s, lanes) ==
    LET bit(i, weight) ==
          IF i < lanes THEN (((s + weight) \div (2 * weight)) % 2) * weight ELSE 0 IN
    bit(0, 1) + bit(1, 2) + bit(2, 4) + bit(3, 8)
        + bit(4, 16) + bit(5, 32) + bit(6, 64) + bit(7, 128)

FromGray(g) == CHOOSE s \in 0 .. 255 : Gray(s, 8) = g

Init ==
    /\ \E p \in Profiles :
          host = [profile |-> p, index |-> 0, binary0 |-> 0, symbol |-> 0, walks |-> {},
                  failed |-> FALSE, previous |-> -1, bad |-> 0, blocks |-> 0]
    /\ wire = "whole"
    /\ \E s \in Starts, left \in 1 .. 4, late \in {0, 1} : dev = [count |-> s, left |-> left, late |-> late]

(* One sample later: at an edge the counter advances, and the next edge is  *)
(* three to five samples away.                                              *)
Advance ==
    IF dev.left > 1 THEN dev' = [dev EXCEPT !.left = @ - 1]
    ELSE \E late \in {0, 1} :
            dev' = [count |-> (dev.count + 1) % 256, left |-> 4 + late - dev.late, late |-> late]

Seen(symbol) == Gray(symbol, host.profile.lanes)

(* The walk over one sample: the same step, or the next, or the next but    *)
(* one, because a carry into a lane that is not seen changes nothing here;  *)
(* -1 when the sample fits none.                                            *)
Follow(symbol, value) ==
    LET fits == {d \in 0 .. 2 : value = Seen((symbol + d) % 256)} IN
    IF fits = {} THEN -1
    ELSE (symbol + (CHOOSE d \in fits : \A o \in fits : d <= o)) % 256

(* The first sample of a block.  With a snapshot there the counter is known *)
(* and compared with the block before; without one the block goes on from   *)
(* where the last one ended, or from every anchor that fits.                *)
\* mutant: progress is not compared
Outside_Never(low, high, delta) == 0

Outside(low, high, delta) == IF delta % 256 \in low .. high THEN 0 ELSE 1

FirstAnchored(value, full) ==
    LET binary0 == FromGray(full) IN
    [host EXCEPT !.index = 1, !.binary0 = binary0, !.symbol = binary0,
                 !.bad = IF host.previous = -1 THEN @
                         ELSE @ + Outside(host.profile.low, host.profile.high, binary0 - host.previous)]

FirstFollowing(value) ==
    LET near == {d \in 0 .. 3 : Seen((host.previous + d) % 256) = value}
        start == IF near = {} THEN host.previous
                 ELSE (host.previous + (CHOOSE d \in near : \A o \in near : d <= o)) % 256 IN
    [host EXCEPT !.index = 1, !.binary0 = start, !.symbol = start,
                 !.bad = IF near = {} THEN @ + 1 ELSE @]

FirstAnchoring(value) ==
    [host EXCEPT !.index = 1,
                 !.walks = {<<anchor, anchor>> : anchor \in {a \in 0 .. 7 : Seen(a) = value}}]

(* Every later sample; at a further snapshot the count since the block's    *)
(* start must be what its distance says.                                    *)
Snapshot(full) ==
    IF host.profile.step > 0 /\ host.index % host.profile.step = 0
    THEN Outside(host.index \div 4 - 2, host.index \div 4 + 2, FromGray(full) - host.binary0) ELSE 0

Walked(value, full) ==
    LET next == Follow(host.symbol, value)
        lost == next = -1 IN
    [host EXCEPT !.index = @ + 1,
                 !.symbol = IF host.failed \/ lost THEN @ ELSE next,
                 !.failed = @ \/ lost,
                 !.bad = @ + Snapshot(full) + (IF lost /\ ~host.failed THEN 1 ELSE 0)]

WalkedAll(value) ==
    [host EXCEPT !.index = @ + 1,
                 !.walks = {w \in {<<w[1], Follow(w[2], value)>> : w \in @} : w[2] # -1}]

Sample ==
    /\ host.index < host.profile.samples
    /\ host.blocks < MaxBlocks
    /\ LET full == Gray(dev.count, 8)
           value == Seen(dev.count) IN
       host' = IF host.index = 0 /\ host.profile.anchored THEN FirstAnchored(value, full)
               ELSE IF host.index = 0 /\ host.previous # -1 THEN FirstFollowing(value)
               ELSE IF host.index = 0 THEN FirstAnchoring(value)
               ELSE IF host.walks # {} THEN WalkedAll(value)
               ELSE Walked(value, full)
    /\ Advance
    /\ UNCHANGED wire

(* The end of a block: the progress over it must be what its length says.   *)
(* Between two blocks the stream may lose a block or repeat one.            *)
Chosen ==
    IF host.walks = {} THEN <<host.binary0, host.symbol>>
    ELSE CHOOSE w \in host.walks : \A o \in host.walks : w[1] <= o[1]

EndBlock ==
    /\ host.index = host.profile.samples
    /\ LET off == Outside(host.profile.low, host.profile.high, Chosen[2] - Chosen[1])
           kept == IF host.profile.anchored THEN host.binary0
                   ELSE IF host.failed \/ off = 1 THEN -1 ELSE Chosen[2] IN
       host' = [host EXCEPT !.index = 0, !.failed = FALSE, !.walks = {}, !.bad = @ + off,
                            !.previous = kept, !.blocks = @ + 1]
    /\ UNCHANGED <<wire, dev>>

Fault ==
    /\ wire = "whole"
    /\ host.index = 0 /\ host.blocks \in 1 .. MaxBlocks - 1
    /\ \E jump \in {-1, 1} :
          /\ wire' = IF jump = 1 THEN "lost" ELSE "repeated"
          /\ dev' = [dev EXCEPT !.count = (@ + jump * (host.profile.samples \div 4)) % 256]
    /\ UNCHANGED host

Done ==
    /\ host.blocks = MaxBlocks
    /\ UNCHANGED vars

Next == Sample \/ EndBlock \/ Fault \/ Done

Progress == Sample \/ EndBlock

Spec == Init /\ [][Next]_vars /\ WF_vars(Progress)
-----------------------------------------------------------------------------
(* The validator stays within its block and follows values of the counter.  *)
TypeOK ==
    /\ host.profile \in Profiles
    /\ host.previous \in -1 .. 255 /\ host.binary0 \in 0 .. 255
    /\ host.blocks \in 0 .. MaxBlocks
    /\ \A w \in host.walks : w[1] \in 0 .. 7 /\ w[2] \in -1 .. 255
    /\ host.index \in 0 .. host.profile.samples /\ host.bad \in Nat
    /\ host.symbol \in 0 .. 255 /\ dev.left \in 1 .. 5

(* The validator finds nothing wrong with an undisturbed stream, however    *)
(* its edges fall, and something with one that lost or repeated a block; a  *)
(* profile without snapshots cannot see that, since a block there is a      *)
(* whole number of turns of its lanes.                                      *)
GrayVerdict ==
    /\ wire = "whole" => host.bad = 0
    /\ wire # "whole" /\ host.profile.anchored /\ host.blocks = MaxBlocks => host.bad > 0

(* The stream is validated to its end. *)
Ends == <>(host.blocks = MaxBlocks)
=============================================================================
