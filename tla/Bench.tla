------------------------------- MODULE Bench -------------------------------
(***************************************************************************)
(* The dialogue of an experiment script with the board it drives.          *)
(*                                                                         *)
(* A script sends a one letter command, again when no banner arrives in    *)
(* time, then reads the answer with a fixed sequence of expects, judges    *)
(* the values it read and sends the next command.  The tables of           *)
(* BenchScripts give every script as data; this module gives the expects   *)
(* (a line that does not match is passed over), the board (a serial        *)
(* receive queue, a run of printed lines per command, an early "DONE       *)
(* status=...-failed"), and the USB presence of the target that some       *)
(* scripts wait for.                                                       *)
(*                                                                         *)
(* Lines are abstracted to what the expects tell apart: the kind, the      *)
(* round of the experiment's loop, and the grade of the values in it       *)
(* ("bad": an assert fails on it, "unclean": recorded as not sustained).   *)
(***************************************************************************)
EXTENDS Naturals, FiniteSets, SequencesExt

CONSTANTS
    Scripts,    \* the scripts of this instance, records of BenchScripts
    MaxFaults   \* garbled lines, bad values and failed starts together, in one test

ASSUME BenchAssumption == Scripts # {} /\ MaxFaults \in Nat

VARIABLES
    script,     \* the script that runs, NoScript before one is chosen
    host,       \* [at, section, next, asked, retried, seen]: the script's control and what it read
    board,      \* [up, rx, section, next, run, effect]: the firmware and its receive queue
    wire,       \* printed lines the script has not consumed
    truth,      \* truth[r]: body lines the board printed in run r (history)
    faults,     \* [lost, bad]: lines garbled on the serial line, stretches and starts that went wrong
    hid         \* [here, left, fresh]: the target's USB presence; left: it was absent since the test
                \* began; fresh: it came back after the last boot command

vars == <<script, host, board, wire, truth, faults, hid>>

Grades == {"clean", "unclean", "bad"}
NoScript == [sections |-> <<>>, drain |-> FALSE, must |-> {}, shape |-> "none"]

Section == script.sections[host.section]
Item == Section.lines[host.next]
Over == host.at \in {"passed", "failed", "skipped"}

-----------------------------------------------------------------------------
(* The verdict a script draws from the grades it recorded.                 *)

RoundsIn(lines) == {lines[i].round : i \in 1..Len(lines)} \ {0}
CleanRound(lines, r) ==
    \A i \in 1..Len(lines) : lines[i].round = r => lines[i].grade = "clean"
LastRound(lines) == CHOOSE r \in RoundsIn(lines) : \A q \in RoundsIn(lines) : q <= r

\* mutant: the rounds that must be good are not looked at
Judged_NoMust(lines, must, shape) ==
    /\ shape = "any" => \E r \in RoundsIn(lines) : CleanRound(lines, r)
    /\ shape \in {"prefix", "edge"} =>
           \A q, r \in RoundsIn(lines) : q < r /\ CleanRound(lines, r) => CleanRound(lines, q)
    /\ shape \in {"edge", "limit"} => ~CleanRound(lines, LastRound(lines))

\* "any": one round is clean; "prefix": no clean round after one that is not; "edge": that, and
\* the last round is not clean (a boundary was found); "limit": the last round is not clean.
Judged(lines, must, shape) ==
    /\ \A r \in must \cap RoundsIn(lines) : CleanRound(lines, r)
    /\ shape = "any" => \E r \in RoundsIn(lines) : CleanRound(lines, r)
    /\ shape \in {"prefix", "edge"} =>
           \A q, r \in RoundsIn(lines) : q < r /\ CleanRound(lines, r) => CleanRound(lines, q)
    /\ shape \in {"edge", "limit"} => ~CleanRound(lines, LastRound(lines))

-----------------------------------------------------------------------------
(* One expect: the first line of the serial output that matches.           *)

Matches(item, line) ==
    /\ line.kind = item.kind
    /\ item.key = "pattern" => line.key = item.keyval
    /\ item.data = "literal" => line.grade # "bad"
Hits == {i \in 1..Len(wire) : Matches(Item, wire[i])}
FirstHit == CHOOSE i \in Hits : \A j \in Hits : i <= j

\* What the asserts on a matched line make of it.
Accepts(item, line) ==
    /\ item.key = "asserted" => line.key = item.keyval
    /\ item.data \in {"assert", "grade", "skip"} => line.grade # "bad"

-----------------------------------------------------------------------------
Init ==
    /\ script = NoScript
    /\ host = [at |-> "start", section |-> 1, next |-> 1, asked |-> 0,
               retried |-> FALSE, seen |-> <<>>]
    /\ board = [up |-> FALSE, rx |-> <<>>, section |-> 0, next |-> 0, run |-> 0,
                effect |-> "none"]
    /\ wire = <<>>
    /\ truth = <<>>
    /\ faults = [lost |-> 0, bad |-> 0]
    /\ hid = [here |-> TRUE, left |-> FALSE, fresh |-> FALSE]

Choose ==
    /\ host.at = "start"
    /\ script' \in Scripts
    /\ host' = [host EXCEPT !.at = "send"]
    /\ \E here \in {TRUE} \cup (IF \E k \in 1..Len(script'.sections) : script'.sections[k].wait # "none"
                             THEN {FALSE} ELSE {}) :
           hid' = [here |-> here, left |-> ~here, fresh |-> FALSE]
    /\ UNCHANGED <<board, wire, truth, faults>>

\* The next section of the script, or the verdict after the last one.
NextSection(seen) ==
    IF host.section < Len(script.sections)
    THEN [host EXCEPT !.at = "send", !.section = @ + 1, !.next = 1, !.asked = 0, !.seen = seen]
    ELSE [host EXCEPT !.at = IF Judged(seen, script.must, script.shape) THEN "passed" ELSE "failed",
                      !.seen = seen]

\* dut.write(command); "when": some commands are sent only while the target is on the bus.
Send ==
    /\ host.at = "send"
    /\ Section.when \in {"present", "baseline"} => hid.here
    /\ host' = [host EXCEPT !.at = "read", !.asked = @ + 1, !.retried = @ \/ host.asked > 0]
    /\ board' = [board EXCEPT !.rx = Append(@, host.section)]
    /\ hid' = IF Section.effect \in {"boot", "reboot"} THEN [hid EXCEPT !.fresh = FALSE] ELSE hid
    /\ UNCHANGED <<script, wire, truth, faults>>

SkipSection ==
    /\ host.at = "send" /\ Section.when = "present" /\ ~hid.here
    /\ host' = NextSection(host.seen)
    /\ UNCHANGED <<script, board, wire, truth, faults, hid>>

\* assert baseline is not None: the test starts only with the target on the bus.
NoBaseline ==
    /\ host.at = "send" /\ Section.when = "baseline" /\ ~hid.here
    /\ host' = [host EXCEPT !.at = "failed"]
    /\ UNCHANGED <<script, board, wire, truth, faults, hid>>

\* A line of the section was read: the next one, the wait for the target, or the next section.
AfterLine(seen) ==
    IF host.next < Len(Section.lines)
    THEN [host EXCEPT !.next = @ + 1, !.seen = seen]
    ELSE IF Section.wait # "none"
    THEN [host EXCEPT !.at = "wait", !.seen = seen]
    ELSE NextSection(seen)

\* mutant: the matched line is not consumed
Read_Again ==
    /\ host.at = "read" /\ Hits # {}
    /\ LET line == wire[FirstHit]
           seen == IF Item.round > 0 THEN Append(host.seen, line) ELSE host.seen
       IN host' = IF Accepts(Item, line) THEN AfterLine(seen)
                  ELSE [host EXCEPT !.at = IF Item.data = "skip" THEN "skipped" ELSE "failed"]
    /\ UNCHANGED <<script, board, wire, truth, faults, hid>>

\* dut.expect(item): everything up to the match is consumed.
Read ==
    /\ host.at = "read" /\ Hits # {}
    /\ LET line == wire[FirstHit]
           seen == IF Item.round > 0 THEN Append(host.seen, line) ELSE host.seen
       IN host' = IF Accepts(Item, line) THEN AfterLine(seen)
                  ELSE [host EXCEPT !.at = IF Item.data = "skip" THEN "skipped" ELSE "failed"]
    /\ wire' = SubSeq(wire, FirstHit + 1, Len(wire))
    /\ UNCHANGED <<script, board, truth, faults, hid>>

\* pexpect TIMEOUT: the banner is asked for again, anything else fails the test.
Timeout ==
    /\ host.at = "read" /\ Hits = {}
    /\ host' = [host EXCEPT !.at = IF host.next = 1 /\ host.asked < Section.attempts
                                   THEN "send" ELSE "failed"]
    /\ UNCHANGED <<script, board, wire, truth, faults, hid>>

-----------------------------------------------------------------------------
(* Polling the target's presence on the USB bus, up to a deadline.         *)

\* mutant: presence, not its return
WaitedFor_Present == Section.wait = "absent" \/ hid.here

\* "again": a watcher thread also remembers that the target was away (e124).
WaitedFor ==
    CASE Section.wait = "present" -> hid.here
      [] Section.wait = "absent"  -> ~hid.here
      [] Section.wait = "again"   -> hid.here /\ hid.left

UsbSeen ==
    /\ host.at = "wait" /\ WaitedFor
    /\ host' = NextSection(host.seen)
    /\ UNCHANGED <<script, board, wire, truth, faults, hid>>

UsbDeadline ==
    /\ host.at = "wait" /\ ~WaitedFor
    /\ host' = [host EXCEPT !.at = "failed"]
    /\ UNCHANGED <<script, board, wire, truth, faults, hid>>

-----------------------------------------------------------------------------
(* The board.                                                              *)

Idle == board.section = 0

\* The board comes up; commands written while it booted are lost or kept.  A script without a
\* command ("power") waits for what setup() prints.
Boot ==
    /\ ~Over /\ host.at # "start" /\ ~board.up
    /\ \E kept \in {board.rx} \cup (IF Section.cmd = "power" THEN {} ELSE {<<>>}) :
           board' = [board EXCEPT !.up = TRUE, !.rx = kept]
    /\ UNCHANGED <<script, host, wire, truth, faults, hid>>

\* loop(): one command, or all that is waiting, starts a run.
StartRun ==
    /\ ~Over /\ board.up /\ Idle /\ board.rx # <<>>
    /\ board' = [board EXCEPT !.section = Head(board.rx), !.next = 1, !.run = @ + 1,
                              !.rx = IF script.drain THEN <<>> ELSE Tail(@)]
    /\ truth' = Append(truth, <<>>)
    /\ UNCHANGED <<script, host, wire, faults, hid>>

Printing == script.sections[board.section].lines
\* The lines printed in one step: the banner, then one stretch of a round.
ChunkEnd ==
    IF board.next = 1 THEN 1
    ELSE CHOOSE j \in board.next..Len(Printing) :
            /\ \A k \in board.next..j : Printing[k].round = Printing[board.next].round
            /\ j < Len(Printing) => Printing[j + 1].round # Printing[board.next].round
Printed(k, g) ==
    [kind |-> Printing[k].kind, section |-> board.section, round |-> Printing[k].round,
     key |-> Printing[k].keyval, run |-> board.run,
     grade |-> IF Printing[k].data = "plain" THEN "clean" ELSE g]

Advance(end) ==
    IF end < Len(Printing) THEN [board EXCEPT !.next = end + 1]
    ELSE [board EXCEPT !.section = 0, !.next = 0,
                       !.effect = IF script.sections[board.section].effect = "none"
                                  THEN @ ELSE script.sections[board.section].effect]

\* The grades a stretch may have, as far as the script tells them apart.
GradesOf(items) ==
    LET data == {item.data : item \in items}
    IN {"clean"} \cup (IF data \cap {"grade", "note"} # {} THEN {"unclean"} ELSE {})
                \cup (IF data \cap {"grade", "assert", "literal", "skip"} # {} THEN {"bad"} ELSE {})

Faults(lost, bad) ==
    /\ faults.lost + faults.bad + lost + bad <= MaxFaults
    /\ faults' = [lost |-> faults.lost + lost, bad |-> faults.bad + bad]

\* Print the next stretch; one of its lines may be garbled.
Print1 ==
    /\ ~Over /\ ~Idle
    /\ \E g \in GradesOf(Range(SubSeq(Printing, board.next, ChunkEnd))) :
       LET lines == [i \in 1..(ChunkEnd - board.next + 1) |-> Printed(board.next + i - 1, g)]
           body  == SelectSeq(lines, LAMBDA l : l.round > 0)
           bad   == IF g = "bad" THEN 1 ELSE 0
       IN /\ \/ /\ wire' = wire \o lines
                /\ Faults(0, bad)
             \/ /\ \E i \in 1..Len(lines) : wire' = wire \o RemoveAt(lines, i)
                /\ Faults(1, bad)
          /\ truth' = [truth EXCEPT ![board.run] = @ \o body]
    /\ board' = Advance(ChunkEnd)
    /\ UNCHANGED <<script, host, hid>>

\* An early return of run_experiment(): "DONE status=...-failed".
Abort ==
    /\ ~Over /\ ~Idle /\ board.next > 1 /\ Printing[board.next].round = 0
    /\ board' = [board EXCEPT !.section = 0, !.next = 0]
    /\ Faults(0, 1)
    /\ wire' = Append(wire, [kind |-> Last(Printing).kind, section |-> board.section, round |-> 0,
                             key |-> 0, run |-> board.run, grade |-> "bad"])
    /\ UNCHANGED <<script, host, truth, hid>>

\* After a command that resets it the target leaves the bus, or its boot loader appears.
HidMoves ==
    /\ ~Over
    /\ \/ /\ board.effect \in {"leave", "reboot"} /\ hid.here
          /\ hid' = [hid EXCEPT !.here = FALSE, !.left = TRUE]
          /\ board' = [board EXCEPT !.effect = IF @ = "reboot" THEN "boot" ELSE "none"]
       \/ /\ board.effect = "boot" /\ ~hid.here
          /\ hid' = [hid EXCEPT !.here = TRUE, !.fresh = TRUE]
          /\ board' = [board EXCEPT !.effect = "none"]
    /\ UNCHANGED <<script, host, wire, truth, faults>>

Ended == Over /\ UNCHANGED vars

HostNext == Choose \/ Send \/ SkipSection \/ NoBaseline \/ Read \/ Timeout \/ UsbSeen \/ UsbDeadline
BoardNext == Boot \/ StartRun \/ Print1 \/ Abort \/ HidMoves
Next == HostNext \/ BoardNext \/ Ended

Spec == Init /\ [][Next]_vars

-----------------------------------------------------------------------------
Sections == 1..Len(script.sections)
BodyOf(k, lines) == SelectSeq(lines, LAMBDA l : l.section = k)
\* What a section's rounds look like when nothing is missing: kinds, rounds and keys in order.
Shape(k) ==
    LET body == SelectSeq(script.sections[k].lines, LAMBDA item : item.round > 0)
    IN [i \in 1..Len(body) |-> <<body[i].kind, body[i].round, body[i].keyval>>]
ShapeOf(lines) == [i \in 1..Len(lines) |-> <<lines[i].kind, lines[i].round, lines[i].key>>]

\* A pass rests on one run: a second "?" can put two runs on the line, and with a garbled line, or
\* with a body line that a failed run prints differently, a script would take rounds of both.
OneRun == host.retried => /\ faults.lost = 0
                          /\ \A k \in Sections : \A i \in 1..Len(script.sections[k].lines) :
                                script.sections[k].lines[i].round > 0
                                    => script.sections[k].lines[i].data # "literal"

\* A test that passes has read, for every section, all the body lines of one run of the board, in
\* the order the board printed them: no round is missing, repeated or of another run.
CompleteRun ==
    host.at = "passed" /\ OneRun =>
        \A k \in Sections :
            \/ script.sections[k].when = "present"
            \/ /\ ShapeOf(BodyOf(k, host.seen)) = Shape(k)
               /\ Shape(k) # <<>> => \E run \in 1..Len(truth) : truth[run] = BodyOf(k, host.seen)

\* The verdict of a test that passes is true of what the board printed in one run of each section:
\* the rounds the test insists on were good there, and where it claims a rate boundary the good
\* rounds are an initial part of the run.
VerdictTrue ==
    LET Good(run, r) == \A i \in 1..Len(truth[run]) :
                            truth[run][i].round = r => truth[run][i].grade = "clean"
        Last1(run) == truth[run][Len(truth[run])].round
        Verdict(run) ==
            /\ \A r \in script.must : Good(run, r)
            /\ script.shape = "any" => \E r \in 1..Last1(run) : Good(run, r)
            /\ script.shape = "prefix" =>
                  \E n \in 0..Last1(run) : \A r \in 1..Last1(run) : Good(run, r) <=> r <= n
            /\ script.shape = "edge" =>
                  \E n \in 0..(Last1(run) - 1) : \A r \in 1..Last1(run) : Good(run, r) <=> r <= n
            /\ script.shape = "limit" => ~Good(run, Last1(run))
    IN host.at = "passed" /\ OneRun =>
           \A k \in Sections : Shape(k) # <<>> =>
               \E run \in 1..Len(truth) :
                   /\ truth[run] # <<>> /\ truth[run][1].section = k
                   /\ Verdict(run)

\* A test that waits for the boot loader passes only when it appeared after the boot command: the
\* presence from before the test, which the script's own checks start from, is never taken for it.
HidFresh ==
    host.at = "passed" /\ (\E k \in Sections : script.sections[k].effect \in {"boot", "reboot"})
        => hid.here /\ hid.fresh
=============================================================================
