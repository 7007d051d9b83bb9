----------------------------- MODULE FlashLink -----------------------------
(***************************************************************************)
(* Flash pages written through the SWIO board: read_page and write_page of *)
(* e130 and e131, and receiveFlashPage, programFlashPage64 and             *)
(* receiveReadPage of the board's sketch (e129), which both use.           *)
(*                                                                         *)
(* e130 backs a page up, writes a pattern, and restores the page whatever  *)
(* happened in between.  e131 writes a whole image and retries a page on   *)
(* almost every refusal.                                                   *)
(*                                                                         *)
(* The content of a page is one value: what it held at first, the pattern  *)
(* of e130, the image of e131, or "broken" after a programming step that   *)
(* failed half way.  The serial line may damage a packet or lose an        *)
(* answer, and the board may be slower than the host waits.                *)
(***************************************************************************)
EXTENDS Integers, Sequences

CONSTANTS
    Pages,          \* number of pages of the image of e131
    MaxFaults       \* bound: damaged packets, lost answers and failed operations

VARIABLES
    host,           \* the test script
    wire,           \* packets to the board and lines back
    dev             \* the pages of the target, and the faults so far

vars == <<host, wire, dev>>

WriteOp(page, data) == [op |-> "W", page |-> page, data |-> data]
ReadOp(page, want) == [op |-> "V", page |-> page, data |-> want]

(* The steps of a script; `final` is the first step of its finally clause,  *)
(* `guarded` the first one that the clause protects.                        *)
e130_page ==
    [name |-> "e130", guarded |-> 2, final |-> 4, retry |-> {"packet_crc"}, pages |-> 1,
     steps |-> <<ReadOp(1, "any"), WriteOp(1, "pattern"), ReadOp(1, "pattern"),
                 WriteOp(1, "backup"), ReadOp(1, "backup")>>]

e131_page ==
    [name |-> "e131", guarded |-> 0, final |-> 0,
     retry |-> {"packet_crc", "short_packet", "attach_failed", "program_failed", "verify_failed"},
     pages |-> Pages, steps |-> [i \in 1 .. Pages |-> WriteOp(i, "image")]]

Init ==
    /\ \E script \in {e130_page, e131_page} :
          /\ host = [script |-> script, at |-> "send", step |-> 1, attempt |-> 1,
                     backup |-> "none", failed |-> FALSE, restored |-> FALSE]
          /\ dev = [page |-> [p \in 1 .. script.pages |-> "original"], faults |-> 0]
    /\ wire = [down |-> <<>>, up |-> <<>>]

Step == host.script.steps[host.step]

Data == IF Step.data = "backup" THEN host.backup ELSE Step.data
-----------------------------------------------------------------------------
(* The board, one packet at a time *)

Line(kind, page, data) == [kind |-> kind, page |-> page, data |-> data]

(* The board answers, or the line it prints is lost. *)
Say(line, faults, page) ==
    /\ dev.faults + faults <= MaxFaults
    /\ \E lost \in {0, 1} :
          /\ dev.faults + faults + lost <= MaxFaults
          /\ wire' = [down |-> Tail(wire.down),
                      up |-> IF lost = 1 THEN wire.up ELSE Append(wire.up, line)]
          /\ dev' = [page |-> page, faults |-> dev.faults + faults + lost]

Packet == Head(wire.down)

(* A packet with a byte missing is short and one with a byte changed fails  *)
(* its checksum; neither reaches the programming step.                      *)
Refused(packet) == IF packet.damage = "missing" THEN "short_packet" ELSE "packet_crc"

Sound(packet) == packet.damage = "none"

receiveFlashPage ==
    /\ wire.down # <<>>
    /\ Packet.op = "W"
    /\ \/ /\ ~Sound(Packet)
          /\ Say(Line(Refused(Packet), Packet.page, "none"), 0, dev.page)
       \/ /\ Sound(Packet)
          /\ LET data == Packet.data IN
             \/ Say(Line("ok", Packet.page, "none"), 0, [dev.page EXCEPT ![Packet.page] = data])
             \/ Say(Line("attach_failed", Packet.page, "none"), 1, dev.page)
             \/ \E left \in {dev.page[Packet.page], "broken"} :
                   Say(Line("program_failed", Packet.page, "none"), 1,
                         [dev.page EXCEPT ![Packet.page] = left])
             \/ \E left \in {data, "broken"} :
                   Say(Line("verify_failed", Packet.page, "none"), 1,
                         [dev.page EXCEPT ![Packet.page] = left])
    /\ UNCHANGED host

receiveReadPage ==
    /\ wire.down # <<>>
    /\ Packet.op = "V"
    /\ IF Packet.damage = "none"
       THEN \/ Say(Line("page", Packet.page, dev.page[Packet.page]), 0, dev.page)
            \/ Say(Line("stop", Packet.page, "none"), 1, dev.page)
       ELSE Say(Line("stop", Packet.page, "none"), 0, dev.page)
    /\ UNCHANGED host

(* The command letter itself is lost: the board takes the rest for commands *)
(* it does not know and says nothing.                                       *)
Unheard ==
    /\ wire.down # <<>>
    /\ dev.faults < MaxFaults
    /\ wire' = [wire EXCEPT !.down = Tail(@)]
    /\ dev' = [dev EXCEPT !.faults = @ + 1]
    /\ UNCHANGED host
-----------------------------------------------------------------------------
(* The script *)

Send ==
    /\ host.at = "send"
    /\ \E damage \in {"none", "changed", "missing"} :
          /\ damage # "none" => dev.faults < MaxFaults
          /\ wire' = [wire EXCEPT !.down = Append(@, [op |-> Step.op, page |-> Step.page,
                                                      data |-> Data, damage |-> damage])]
          /\ dev' = [dev EXCEPT !.faults = IF damage = "none" THEN @ ELSE @ + 1]
    /\ host' = [host EXCEPT !.at = "wait"]

(* An assertion fails or a wait times out: on to the finally clause, if it  *)
(* still is to come, else the end.                                          *)
Raised(h) ==
    IF h.step >= h.script.guarded /\ h.step < h.script.final
    THEN [h EXCEPT !.at = "send", !.step = h.script.final, !.attempt = 1, !.failed = TRUE]
    ELSE [h EXCEPT !.at = "end", !.failed = TRUE]

Returned(h) ==
    IF h.step = Len(h.script.steps)
    THEN [h EXCEPT !.at = "end", !.restored = TRUE]
    ELSE [h EXCEPT !.at = "send", !.step = h.step + 1, !.attempt = 1]

(* The first line that the script waits for; every line before it is gone.  *)
Expected(line) ==
    IF Step.op = "V" THEN line.kind = "page" /\ line.page = Step.page
    ELSE (line.kind = "ok" /\ line.page = Step.page) \/ line.kind \in host.script.retry

\* mutant: a refused page passes
Retry_Accept(h) == Returned(h)

Retry(h) == IF h.attempt = 3 THEN Raised(h) ELSE [h EXCEPT !.at = "send", !.attempt = h.attempt + 1]

Wait ==
    /\ host.at = "wait"
    /\ \E i \in DOMAIN wire.up :
          /\ Expected(wire.up[i])
          /\ \A j \in 1 .. i - 1 : ~Expected(wire.up[j])
          /\ wire' = [wire EXCEPT !.up = SubSeq(@, i + 1, Len(@))]
          /\ LET line == wire.up[i] IN
             host' = IF Step.op = "V"
                     THEN IF Data \in {"any", line.data}
                          THEN Returned([host EXCEPT !.backup = IF Data = "any" THEN line.data ELSE @])
                          ELSE Raised(host)
                     ELSE IF line.kind = "ok" THEN Returned(host) ELSE Retry(host)
    /\ UNCHANGED dev

(* The wait ends without such a line, which may still be on its way. *)
Timeout ==
    /\ host.at = "wait"
    /\ \A i \in DOMAIN wire.up : ~Expected(wire.up[i])
    /\ host' = Raised(host)
    /\ UNCHANGED <<wire, dev>>

Done ==
    /\ host.at = "end"
    /\ wire.down = <<>>
    /\ UNCHANGED vars

Board == receiveFlashPage \/ receiveReadPage \/ Unheard
Next == Send \/ Wait \/ Timeout \/ Board \/ Done

(* The script runs, and each of its waits has a deadline. *)
Progress == Send \/ Wait \/ Timeout

Spec == Init /\ [][Next]_vars /\ WF_vars(Progress)
-----------------------------------------------------------------------------
Contents == {"original", "pattern", "image", "broken"}

(* A page holds what someone wrote or is broken, and the script is within   *)
(* its steps and its three attempts.                                        *)
TypeOK ==
    /\ host.at \in {"send", "wait", "end"} /\ dev.faults \in 0 .. MaxFaults
    /\ \A p \in DOMAIN dev.page : dev.page[p] \in Contents
    /\ host.step \in 1 .. Len(host.script.steps) /\ host.attempt \in 1 .. 3

(* A script that reaches its end has left every page as it promises: e130   *)
(* the original after its experiment, also when a step before failed, e131  *)
(* the image; no late answer or retried packet stands for a page that was   *)
(* not written.                                                             *)
FlashRestored ==
    host.restored =>
        \A p \in DOMAIN dev.page :
            dev.page[p] = IF host.script.name = "e130" THEN "original" ELSE "image"

(* The script ends: a refused page is tried three times, no more. *)
Ends == <>(host.at = "end")
=============================================================================
