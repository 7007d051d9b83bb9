---------------------------- MODULE StreamReaders ----------------------------
(***************************************************************************)
(* The other programs that read a stream from the board: the readers and   *)
(* converters of the continuous capture (e078 to e086), the bulk tests of  *)
(* e104 and e105, the throughput probes (e110, e116, e120) and the         *)
(* descriptor hosts of the current firmware (e114 to e121).                *)
(*                                                                         *)
(* They share the asynchronous reader of CaptureHost and differ in what    *)
(* the records below say: whole buffers or planned pieces, what is done    *)
(* with a transfer that fails, where the status line comes from and what   *)
(* the verdict rests on.  The error paths are cut short at the verdict:    *)
(* what they read afterwards is only printed.                              *)
(***************************************************************************)
EXTENDS BulkEndpoint

(* asks: "whole" buffers or "planned" pieces of the total; drains: the      *)
(* endpoint is read empty first; onError: a failed transfer ends the loop   *)
(* ("stop"), is forgotten ("ignore") or ends the program ("raise"); status: *)
(* on the "serial" port, from USB when it is "asked" for or as it is "sent" *)
(* after the stream; cancels: pending transfers are cancelled as soon as    *)
(* the total is there; check: the bytes against their position as they come *)
(* ("pattern") or the kept transfers afterwards; verdict: received every    *)
(* byte ("whole") or no less ("enough"), the board sent every byte          *)
(* ("bytes"), both, a clean status line, or its flags and a look at the     *)
(* two ends of the data ("flags").                                          *)
Reader(asks, drains, onError, status, cancels, check, verdict) ==
    [asks |-> asks, drains |-> drains, onError |-> onError, status |-> status,
     cancels |-> cancels, check |-> check, verdict |-> verdict]

stream_rate_sweep == Reader("whole", TRUE, "stop", "serial", TRUE, "none", "whole")
urb_depth == Reader("whole", TRUE, "stop", "serial", TRUE, "none", "enough")
bl_stream_server == Reader("whole", TRUE, "ignore", "serial", TRUE, "none", "none")
stream_to_sr == Reader("whole", TRUE, "ignore", "serial", TRUE, "none", "flags")
e084_drain_sweep == stream_rate_sweep
e085_drain_sweep == stream_rate_sweep
e086_drain_sweep == stream_rate_sweep
e104_run_in == Reader("single", TRUE, "raise", "asked", FALSE, "pattern", "status")
e104_async_run_in == Reader("whole", FALSE, "raise", "asked", TRUE, "pattern", "status")
e105_host_usb == Reader("planned", FALSE, "raise", "asked", TRUE, "pattern", "bytes")
e110_probe == Reader("planned", FALSE, "raise", "sent", FALSE, "pattern", "both")
e116_probe == e110_probe
e120_probe == e110_probe
e114_descriptor == Reader("planned", FALSE, "raise", "sent", FALSE, "kept", "whole")
e115_descriptor == e114_descriptor
e117_descriptor == e114_descriptor
e118_descriptor == e114_descriptor
e119_descriptor == e114_descriptor
e121_descriptor == e114_descriptor

Readers ==
    {stream_rate_sweep, urb_depth, bl_stream_server, stream_to_sr,
     e084_drain_sweep, e085_drain_sweep, e086_drain_sweep,
     e104_run_in, e104_async_run_in, e105_host_usb, e110_probe, e116_probe, e120_probe,
     e114_descriptor, e115_descriptor, e117_descriptor, e118_descriptor, e119_descriptor,
     e121_descriptor}

(* A descriptor host is one that waits for ACCEPT; its streams are blocks.  *)
Negotiates(tool) == tool.check = "kept"

Init ==
    /\ \E tool \in Readers, total \in Totals \ {0}, validate \in BOOLEAN :
          /\ Negotiates(tool) => total % Block = 0
          /\ ~validate => tool \in {e105_host_usb, e110_probe, e114_descriptor}
          /\ host = [at |-> "arm", tool |-> tool, total |-> total, validate |-> validate,
                     planned |-> 0, received |-> 0, error |-> FALSE, closing |-> FALSE,
                     bad |-> FALSE, data |-> <<>>, kept |-> <<>>, tries |-> 4,
                     exit |-> "none"]
          /\ \E left \in Leftovers :
                dev = Board(left, Negotiates(tool), tool.status = "sent")
    /\ wire = [flight |-> <<>>, done |-> <<>>]
-----------------------------------------------------------------------------
Width == IF host.tool.asks = "single" THEN 1 ELSE Depth

Piece(left) == IF host.tool.asks = "whole" \/ left > Transfer THEN Transfer ELSE left

FirstRequests ==
    LET needed == {i \in 1 .. Width : host.tool.asks = "whole" \/ Transfer * (i - 1) < host.total} IN
    [i \in 1 .. Cardinality(needed) |->
        Request(Piece(host.total - Transfer * (i - 1)), "stream")]

(* Planned is what they ask for together. *)
Started ==
    [host EXCEPT !.at = "stream",
                 !.planned = IF host.tool.asks = "whole" \/ Transfer * Width < host.total
                             THEN Transfer * Width ELSE host.total]

(* drain(), the command, and the first transfers; a descriptor host first   *)
(* reads the reply.                                                         *)
Drained == IF host.tool.drains THEN <<>> ELSE dev.left

Arm ==
    /\ host.at = "arm"
    /\ dev' = [dev EXCEPT !.armed = TRUE, !.left = Drained]
    /\ \/ ~Negotiates(host.tool) /\ wire' = [wire EXCEPT !.flight = FirstRequests] /\ host' = Started
       \/ Negotiates(host.tool) /\ host' = [host EXCEPT !.at = "reply"] /\ UNCHANGED wire

(* The callback takes what a transfer brought: in order of completion, the  *)
(* pattern compared at the position it is now at, or kept for later.        *)
Fits(unit, position, period) == unit[2] > 0 /\ (unit[2] - 1 - position) % period = 0

Mismatch(got) ==
    /\ host.tool.check = "pattern" /\ host.validate
    /\ \E i \in DOMAIN got : ~Fits(got[i], host.received + i - 1, 2)

Kept(got) ==
    IF host.tool.check = "kept" /\ host.validate /\ Len(host.kept) < Keep
    THEN Append(host.kept, [offset |-> host.received, data |-> got]) ELSE host.kept

\* mutant: counts what was asked for
Took_Requested(t) ==
    [host EXCEPT !.data = @ \o t.got,
                 !.bad = @ \/ Mismatch(t.got),
                 !.kept = Kept(t.got),
                 !.received = @ + t.want]

Took(t) ==
    [host EXCEPT !.data = @ \o t.got,
                 !.bad = @ \/ Mismatch(t.got),
                 !.kept = Kept(t.got),
                 !.received = @ + Len(t.got)]

(* What the transfer is submitted for next: nothing (0), its whole buffer,  *)
(* what it is short of, or the next piece of the plan.                      *)
Again(t, received) ==
    IF host.tool.asks = "whole" THEN IF received < host.total THEN Transfer ELSE 0
    ELSE IF host.tool.cancels /\ received >= host.total THEN 0
    ELSE IF host.tool.asks = "single" THEN Piece(host.total - received)
    ELSE IF Len(t.got) < t.want THEN t.want - Len(t.got)
    ELSE Piece(host.total - host.planned)

Resubmit(t, h, rest) ==
    LET size == Again(t, h.received)
        new == host.tool.asks # "whole" /\ Len(t.got) = t.want IN
    /\ host' = [h EXCEPT !.planned = IF new THEN @ + size ELSE @]
    /\ wire' = IF size > 0 THEN [rest EXCEPT !.flight = Append(@, Request(size, "stream"))]
               ELSE IF host.tool.onError = "raise" /\ host.tool.cancels /\ h.received >= host.total
               THEN CancelAll(rest) ELSE rest

(* A failed transfer: noted unless the program is closing, dropped, or the  *)
(* end; a cancelled one is as expected.                                     *)
Failed(t) ==
    [host EXCEPT !.error = \/ @
                           \/ host.tool.onError = "stop" /\ ~host.closing
                           \/ /\ host.tool.onError = "raise"
                              /\ t.how = "failed" \/ ~(host.tool.cancels /\ host.received >= host.total)]

Callback ==
    /\ host.at \in {"stream", "closing"}
    /\ wire.done # <<>>
    /\ LET t == Head(wire.done)
           rest == [wire EXCEPT !.done = Tail(@)] IN
       \/ t.how = "ok" /\ Resubmit(t, Took(t), rest)
       \/ t.how # "ok" /\ host' = Failed(t) /\ wire' = rest
    /\ UNCHANGED dev

(* e078 to e086: the loop ends when the total is there, on an error, or at  *)
(* the deadline, which may pass at any time; what is in flight is cancelled. *)
Close ==
    /\ host.at = "stream"
    /\ host.tool.onError \in {"stop", "ignore"}
    /\ host' = [host EXCEPT !.at = "closing", !.closing = TRUE]
    /\ wire' = CancelAll(wire)
    /\ UNCHANGED dev

(* The first block of the kept transfers says where in the period of the    *)
(* source the stream began; every whole block is compared with that.        *)
Begins ==
    {k \in 1 .. 2 * Block :
        \E item \in {host.kept[1]} :
            /\ Len(item.data) >= Block
            /\ \A i \in 1 .. Block : Fits(item.data[i], k + i - 2, 2 * Block)}

Verified(start) ==
    \A item \in Range(host.kept) :
        LET skip == (-item.offset) % Block
            whole == ((Len(item.data) - skip) \div Block) * Block IN
        \A i \in skip + 1 .. skip + whole :
            Fits(item.data[i], item.offset + i - 1 + start - 1, 2 * Block)

(* The programs that raise: nothing is active any more, or one transfer     *)
(* failed.  The status line comes next, after "EQ" where it is asked for.   *)
Tries == IF host.tool.status = "asked" THEN 1 ELSE 4

EndStream ==
    /\ host.at = "stream"
    /\ host.tool.onError = "raise"
    /\ \/ /\ host.error \/ (wire.flight = <<>> /\ wire.done = <<>> /\ host.kept # <<>> /\ Begins = {})
          /\ host' = [host EXCEPT !.at = "exit", !.exit = "failed"]
          /\ UNCHANGED dev
       \/ /\ ~host.error /\ wire.flight = <<>> /\ wire.done = <<>>
          /\ host.kept # <<>> => Begins # {}
          /\ host' = [host EXCEPT !.at = "status", !.tries = Tries,
                                  !.bad = IF host.tool.check # "kept" THEN @
                                          ELSE host.kept = <<>> \/ ~Verified(CHOOSE k \in Begins : TRUE)]
          /\ dev' = [dev EXCEPT !.says = TRUE]
    /\ UNCHANGED wire

(* read_line(), read_status(), query_status(): reads of four packets, tried *)
(* again when they time out.                                                *)
Read ==
    /\ host.at \in {"reply", "status"}
    /\ wire.flight = <<>> /\ wire.done = <<>>
    /\ Ask(8)

Says(line, run) == Status(run) \in Range(line)

(* The status says what the board sent and whether it lost anything; a      *)
(* status line of an earlier run may say the same.                          *)
Good(line) ==
    /\ ~host.bad
    /\ host.tool.verdict \in {"whole", "both"} => host.received = host.total
    /\ \/ Says(line, "old")
       \/ /\ Says(line, "own") /\ dev.clean
          /\ host.tool.verdict \in {"bytes", "both"} => dev.sent = host.total

Answer ==
    /\ host.at \in {"reply", "status"}
    /\ wire.done # <<>>
    /\ wire' = [wire EXCEPT !.done = Tail(@)]
    /\ LET t == Head(wire.done) IN
       \/ /\ t.how # "ok"
          /\ host' = IF host.tries = 1 THEN [host EXCEPT !.at = "exit", !.exit = "failed"]
                     ELSE [host EXCEPT !.tries = @ - 1]
       \/ /\ t.how = "ok" /\ host.at = "status"
          /\ host' = [host EXCEPT !.at = "exit", !.exit = IF Good(t.got) THEN "good" ELSE "failed"]
       \/ /\ t.how = "ok" /\ host.at = "reply" /\ Accept("own") \notin Range(t.got)
          /\ host' = [host EXCEPT !.at = "exit", !.exit = "failed"]
    /\ UNCHANGED dev

Accepted ==
    /\ host.at = "reply"
    /\ wire.done # <<>>
    /\ Head(wire.done).how = "ok" /\ Accept("own") \in Range(Head(wire.done).got)
    /\ host' = Started
    /\ wire' = [flight |-> FirstRequests, done |-> Tail(wire.done)]
    /\ UNCHANGED dev

(* The DONE line on the serial port with the board's overflow counters: it  *)
(* comes, or the wait for it raises.                                        *)
Finish ==
    /\ host.at = "closing"
    /\ wire.flight = <<>> /\ wire.done = <<>>
    /\ \E clean, came \in BOOLEAN :
          host' = [host EXCEPT
              !.at = "exit",
              !.exit = IF /\ came
                          /\ host.tool.verdict # "enough" => clean
                          /\ host.tool.verdict = "whole" => host.received = host.total
                          /\ host.tool.verdict = "enough" => host.received >= host.total
                       THEN "good" ELSE "failed"]
    /\ UNCHANGED <<wire, dev>>

Done ==
    /\ host.at = "exit"
    /\ UNCHANGED vars

Host == Arm \/ Accepted \/ Callback \/ Close \/ EndStream \/ Read \/ Answer \/ Finish
Next == Host \/ Packet \/ Stop \/ TimedOut \/ Done

(* The program runs, the bus delivers, and every transfer has a deadline.  *)
Progress == Host \/ Packet \/ TimedOut

Spec == Init /\ [][Next]_vars /\ WF_vars(Progress)
-----------------------------------------------------------------------------
(* Every field is in its range, and what was planned is within the total.   *)
TypeOK ==
    /\ host.tool \in Readers /\ host.exit \in {"none", "good", "failed"}
    /\ host.tries \in 0 .. 4 /\ Len(host.kept) <= Keep
    /\ host.at \in {"arm", "reply", "stream", "closing", "status", "exit"}
    /\ host.received \in Nat /\ host.bad \in BOOLEAN
    /\ host.planned <= host.total \/ host.tool.asks = "whole"

(* A program that reports a good run has received the whole stream of that  *)
(* run, once and in order, although transfers are short, fail or are        *)
(* cancelled.  Not the converters of e080 and e082, which drop a failed     *)
(* transfer and never compare what they have with what they asked for; and  *)
(* where the endpoint is not read empty first, only if it was empty.        *)
StreamWhole ==
    /\ host.exit = "good"
    /\ host.tool \notin {bl_stream_server, stream_to_sr}
    /\ dev.quiet \/ host.tool.drains \/ Negotiates(host.tool)
    => host.data = [k \in 1 .. host.total |-> <<"own", k>>]

(* The program ends, whatever the board does. *)
Ends == <>(host.at = "exit")
=============================================================================
