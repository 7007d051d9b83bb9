---------------------------- MODULE BenchScripts ----------------------------
(***************************************************************************)
(* The experiment scripts as tables for module Bench: which commands a     *)
(* script sends, which lines it expects, what it asserts about them and    *)
(* which verdict it draws.  A loop over n cases is cut to Cap(n) rounds;   *)
(* consecutive lines of one kind in a round (the lanes of a capture) are   *)
(* one line.                                                               *)
(***************************************************************************)
EXTENDS Naturals, SequencesExt

CONSTANTS
    MaxRounds,      \* rounds modelled of an experiment's loop
    MaxAttempts     \* times a banner is asked for (the scripts ask up to three times)

ASSUME ScriptsAssumption == MaxRounds \in Nat \ {0} /\ MaxAttempts \in Nat \ {0}

Cap(n) == IF n > MaxRounds THEN MaxRounds ELSE n

\* Lines.  key: "none", "asserted" (the script compares the key it read) or "pattern" (the key is
\* part of the pattern).  data: "literal" (the pattern holds the good value), "assert" (a bad value
\* fails the test), "grade" (as assert, and the rest is recorded), "note" (all of it is recorded),
\* "skip" (a bad value skips the test), "plain" (no value is looked at).
Line(kind, key, data) == [kind |-> kind, key |-> key, data |-> data]
Text(kind)   == Line(kind, "none", "plain")
Exact(kind)  == Line(kind, "none", "literal")
Ask(kind)    == Line(kind, "none", "assert")
Keyed(kind)  == Line(kind, "asserted", "assert")
Graded(kind) == Line(kind, "asserted", "grade")
Noted(kind)  == Line(kind, "asserted", "note")
Listed(kind) == Line(kind, "pattern", "plain")
Told(kind)   == Line(kind, "pattern", "literal")

At(line, r, k) == [kind |-> line.kind, key |-> line.key, data |-> line.data, round |-> r, keyval |-> k]
Fixed(lines) == [i \in 1..Len(lines) |-> At(lines[i], 0, 0)]
\* n rounds of the lines of body; keys[r] is the key printed in round r.
Rounds(n, body, keys) ==
    FlattenSeq([r \in 1..n |-> [i \in 1..Len(body) |-> At(body[i], r, keys[r])]])
Numbered(n) == [r \in 1..n |-> r]

Part(cmd, attempts, lines) ==
    [cmd |-> cmd, attempts |-> IF attempts > MaxAttempts THEN MaxAttempts ELSE attempts, lines |-> lines,
     when |-> "always", wait |-> "none", effect |-> "none"]
Command(cmd, lines) == Part(cmd, 1, Fixed(lines))

Script(sections, drain, must, shape) ==
    [sections |-> sections, drain |-> drain, must |-> must, shape |-> shape]

\* The common form: ask for the banner, a head, n rounds, the closing line.
Experiment(attempts, drain, head, n, body, tail, must, shape) ==
    Script(<<Part("?", attempts,
                     Fixed(<<Text("BANNER")>> \o head) \o Rounds(Cap(n), body, Numbered(Cap(n)))
                         \o Fixed(tail))>>,
           drain, must, shape)
\* A command around which the script watches the target's USB presence.
Usb(section, when, effect, wait) ==
    [section EXCEPT !.when = when, !.effect = effect, !.wait = wait]
Done == <<Exact("DONE")>>
Row(kind) == Line(kind, "none", "grade")    \* a row that carries no key the script looks at

-----------------------------------------------------------------------------
(* Smoke tests of the harness.                                             *)

Smoke == <<Exact("A"), Exact("B"), Exact("C")>>
Answer(cmd, attempts, lines) == Script(<<Part(cmd, attempts, Fixed(lines))>>, FALSE, {}, "none")

e001 == Answer("power", 1, <<Text("BANNER")>> \o Smoke \o <<Exact("done")>>)
e002 == Answer("power", 1, <<Text("BANNER")>> \o Smoke \o <<Ask("CLOCK"), Exact("done"), Text("HEARTBEAT")>>)
e004 == Answer("?", 3, <<Text("BANNER")>> \o Smoke \o <<Ask("CLOCK"), Exact("done")>>)
e009 == Answer("power", 1, <<Exact("done")>>)
e010 == Answer("?", 3, <<Text("BANNER"), Exact("done")>>)
e012 == Answer("power", 1, <<Ask("BANNER"), Exact("done")>>)

-----------------------------------------------------------------------------
(* PARLIO capture into PSRAM: loop() reads one character per pass.         *)

Env == Ask("ENV")
Probed == <<Env, Ask("BUFFERS")>>
Configured == Probed \o <<Exact("CONFIG")>>

e014 == Experiment(3, FALSE, <<Exact("INIT"), Exact("CONFIG")>>, 3,
                   <<Told("CAPTURE"), Keyed("LANE")>>, <<Exact("DONE")>>, {}, "none")
e015 == Experiment(3, FALSE, <<>>, 2,
                   <<Told("VARIANT"), Told("STAGE1"), Keyed("MAP1"), Told("DUMP1"), Told("STAGE2"),
                     Keyed("MAP2"), Told("DUMP2"), Told("PWM"), Told("CAPTURE"), Noted("LANE"),
                     Told("VARIANT_DONE")>>, <<Text("DONE")>>, {}, "any")
e016 == Experiment(3, FALSE, <<Line("ENV", "none", "skip"), Keyed("BUFFER1"), Keyed("BUFFER2"),
                               Exact("CONFIG")>>, 6,
                   <<Keyed("CAPTURE"), Keyed("LANE")>>, Done, {}, "none")
e017 == Experiment(3, FALSE, <<Env, Ask("BUFFER"), Exact("PWM")>>, 15,
                   <<Noted("PROFILE"), Noted("CASE")>>, Done, {}, "none")
e018 == Experiment(3, FALSE, <<Env, Ask("BUFFER"), Exact("CONFIG"), Exact("DELIMITERS")>>, 0,
                   <<>>, Done, {}, "none")
e019 == Experiment(3, FALSE, <<Env, Ask("BUFFER"), Exact("PWM"), Exact("LOG"), Ask("GURU"),
                               Text("WDT")>>, 0, <<>>, <<>>, {}, "none")
e020 == Experiment(3, FALSE, Probed, 4, <<Keyed("CASE")>>, Done, {}, "none")
e021 == Experiment(3, FALSE, Configured, 3, <<Keyed("CASE")>>, Done, {}, "none")
e022 == e021
e023 == Experiment(3, FALSE, Configured, 3, <<Keyed("CASE"), Keyed("TRIGGER")>>, Done, {}, "none")
e024 == e023
e025 == Experiment(3, FALSE, Configured, 12, <<Keyed("RATE"), Graded("CASE"), Keyed("TRIGGER")>>,
                   Done, {1}, "limit")
e026 == e023
e027 == Experiment(3, FALSE, Configured, 3, <<Keyed("CASE"), Keyed("TRIGGER"), Keyed("RING")>>,
                   Done, {}, "none")
e028 == Experiment(3, FALSE, Configured, 3, <<Keyed("CASE"), Keyed("STAGED")>>, Done, {}, "none")
e029 == Experiment(3, FALSE, Configured, 30, <<Keyed("CASE"), Keyed("TRIGGER"), Keyed("RING")>>,
                   Done, {}, "none")
e030 == e021

-----------------------------------------------------------------------------
(* Widths, rates and gates: loop() empties its receive queue first.        *)

Buffered == <<Env, Exact("BUFFERS")>>
First == {1}
All == 1..MaxRounds
Lists == <<Listed("SYMBOLS"), Listed("VIOLS")>>
Gated(head, n, lists, must) ==
    Experiment(3, TRUE, head, n, <<Graded("CASE")>> \o lists, Done, must, "none")

e031 == Experiment(3, TRUE, Buffered, 5, <<Keyed("CASE")>>, Done, {}, "none")
e032 == Experiment(3, TRUE, Buffered, 3, <<Graded("CASE")>>, Done, First, "prefix")
e033 == Experiment(1, TRUE, Buffered, 10, <<Graded("CASE")>>, Done, First, "edge")
e034 == Script(<<Part("power", 1, Fixed(<<Exact("READY")>>)),
                 Part("?", 1, Fixed(<<Text("BANNER"), Env>>)
                                   \o Rounds(Cap(12), <<Keyed("CASE")>>, Numbered(Cap(12)))
                                   \o Fixed(Done))>>, TRUE, {}, "none")
e036 == Gated(Buffered, 8, <<>>, First)
e037 == Gated(Buffered, 4, <<>>, {Cap(4)})
e038 == Gated(Buffered, 6, <<>>, First)
e039 == Gated(Buffered, 4, <<>>, {Cap(4)})
e040 == Gated(Buffered, 3, <<>>, {Cap(3)})
e041 == Gated(Buffered, 3, <<>>, {})
e042 == Gated(Buffered, 5, <<>>, First)
e043 == Gated(Buffered, 6, <<Listed("CHUNKS"), Listed("VIOLS")>>, {})
e044 == Gated(Buffered, 2, <<Listed("SYMBOLS")>>, {})
e045 == Gated(Buffered, 4, <<Listed("SYMBOLS")>>, All)
e046 == Gated(Buffered, 1, <<Text("SYMBOLS"), Text("VIOLS")>>, First)
e047 == e046
e048 == Gated(Buffered, 6, Lists, First)
e049 == Gated(Buffered, 5, Lists, First)
e050 == e049
\* The lists of e051 carry the buffer size only, which its cases share.
e051 == Script(<<Part("?", 3, Fixed(<<Text("BANNER"), Exact("BUFFERS")>>)
                   \o FlattenSeq([r \in 1..Cap(4) |-> <<At(Graded("CASE"), r, r)>>
                          \o [i \in 1..2 |-> At(Lists[i], r, IF r = 2 THEN 2 ELSE 1)]])
                   \o Fixed(Done))>>, TRUE, All, "none")
e052 == Gated(<<Exact("BUFFERS")>>, 3, Lists \o <<Listed("RMTCB")>>, All)
e053 == Gated(<<Exact("BUFFERS")>>, 4, Lists \o <<Listed("RMTCB")>>, First)
e054 == Gated(<<Exact("BUFFERS")>>, 4, Lists \o <<Listed("RMTCB")>>, All)
e055 == Gated(<<Exact("BUFFERS")>>, 4, Lists \o <<Listed("RMTCB"), Listed("OFFSETS")>>, First)
e056 == Gated(<<Exact("BUFFERS")>>, 4, Lists \o <<Listed("RMTCB"), Listed("OFFSETS")>>, All)
e057 == e049
e058 == Gated(Buffered, 4, Lists, All)
e059 == Gated(Buffered, 4, Lists, All)
e060 == Gated(<<Exact("BUFFERS")>>, 3, Lists, All)
e061 == e060

-----------------------------------------------------------------------------
(* Target boards on SWIO: each command once; the target's boot loader      *)
(* shows up on, or leaves, the USB bus.                                    *)

Ready == Command("?", <<Exact("BANNER"), Exact("READY")>>)
Swio(sections) == Script(<<Ready>> \o sections, FALSE, {}, "none")
Attach == Swio(<<Command("A", <<Exact("BEGIN"), Text("IDLE"), Text("ATTACH"), Exact("END")>>)>>)
ToUser(cmd, lines, when) == Usb(Command(cmd, lines), when, "leave", "absent")
ToBoot(cmd, lines) == Usb(Command(cmd, lines), "always", "boot", "present")
Access(mode) == <<Exact("BEGIN"), Exact("IDLE"), Exact("ATTACH"), Exact("HALT"), Exact("WRITER"),
                  Exact("KEY1"), Exact("KEY2"), Exact(mode)>>
Reset == <<Text("REQUEST"), Text("SENT"), Text("END")>>
Cpu(name) == <<Exact("INJECT_" \o name), Exact("DPC_" \o name), Text("RESUME_" \o name)>>

e122 == Attach
e123 == Attach
e124 == Swio(<<Usb(Command("B", Access("BOOT") \o <<Exact("CLEAR")>> \o Reset),
                   "baseline", "reboot", "again")>>)
e125 == Swio(<<ToUser("U", Access("USER") \o Reset, "baseline"),
               ToBoot("B", Access("BOOT") \o <<Exact("CLEAR")>> \o Reset)>>)
e126 == Swio(<<ToUser("U", Access("MODE") \o Reset, "baseline"),
               ToBoot("B", Access("MODE") \o Reset)>>)
e127 == Swio(<<ToUser("R", <<Text("ASSERT"), Text("RELEASE")>>, "present"),
               ToBoot("B", <<Exact("BEGIN"), Exact("ATTACH"), Exact("HALT"), Exact("WRITER"),
                             Exact("BEFORE"), Exact("MODE"), Exact("AFTER"), Text("READBACK"),
                             Text("DETACH"), Text("HWASSERT"), Text("HWRELEASE"), Text("END")>>)>>)
e128 == Swio(<<ToUser("R", <<Text("RELEASE")>>, "present"),
               ToBoot("B", <<Text("BEGIN")>> \o Cpu("reset") \o Cpu("boot")
                             \o <<Text("DETACH"), Text("HWASSERT"), Text("HWRELEASE"), Text("END")>>)>>)
Normalize == <<Exact("BEGIN")>> \o Cpu("normalize") \o <<Text("END")>>
e129 == Swio(<<ToUser("N", Normalize, "always"),
               ToBoot("B", <<Exact("BEGIN"), Exact("ATTACH")>> \o Cpu("boot")
                             \o <<Text("ARMED"), Text("END")>>)>>)
\* Before the next command they write and read flash pages (module FlashLink).
e130 == Swio(<<ToUser("N", <<Text("END")>>, "always"), ToBoot("B", <<Text("END")>>)>>)
e131 == Swio(<<ToUser("N", <<Text("END")>>, "always"), Command("N", <<Text("END")>>),
               ToBoot("B", <<Text("END")>>)>>)

-----------------------------------------------------------------------------
(* Measurements: one letter, a table of rows, an end mark.                 *)

Sweep(cmd, head, n, body, tail) ==
    Part(cmd, 1, Fixed(head) \o Rounds(Cap(n), body, Numbered(Cap(n))) \o Fixed(tail))
Measure(sections, must) == Script(sections, FALSE, must, "none")
Selected == <<Text("SELECTED")>>
Resumed == <<Ask("RESUME"), Exact("END")>>

e133 == Measure(<<Sweep("C", <<>>, 7, <<Graded("RESULT"), Line("CAPTURE", "pattern", "assert")>>,
                        <<Exact("END")>>),
                  Sweep("W", <<>>, 7, <<Graded("WRITE_RESULT")>>, <<Exact("END")>>)>>, First)
e136 == Measure(<<Ready, Sweep("M", <<>>, 4, <<Keyed("CASE")>>, <<Exact("END")>>)>>, {})
e151 == Measure(<<Sweep("R", <<Text("BANNER")>>, 27, <<Row("LINE")>>, <<Exact("END")>>)>>, {})
e152 == Measure(<<Sweep("S", <<Text("BANNER")>>, 20, <<Row("LINE")>>, <<Exact("END")>>)>>, First)
e153 == Measure(<<Sweep("S", <<Text("BANNER")>>, 24, <<Row("LINE")>>, <<Exact("END")>>)>>, First)
Texts(kind, n) == [i \in 1..Cap(n) |-> At(Text(kind), 0, i)]
e156 == Measure(<<Part("R", 1, Fixed(<<Text("BANNER"), Exact("HALTED")>>) \o Texts("SWEEP", 9)
                      \o Fixed(Selected) \o Rounds(Cap(7), <<Row("READ")>>, Numbered(Cap(7)))
                      \o Fixed(<<Text("BUSY")>> \o Resumed))>>, {1, 2})
e157 == Measure(<<Part("P", 1, Fixed(<<Text("BANNER")>>) \o Texts("SETTLE", 5)
                      \o Fixed(Selected \o <<Exact("HALTED")>>)
                      \o Rounds(2, <<Text("PAGE"), Row("SUMMARY")>>, Numbered(2))
                      \o Fixed(Resumed))>>, First)
e159 == Measure(<<Sweep("P", <<Text("BANNER")>> \o Selected \o <<Text("RETRIES"), Text("HIST")>>,
                        7, <<Text("SUMMARY")>>, Resumed)>>, {})
=============================================================================
