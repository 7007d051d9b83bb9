---------------------------- MODULE CaptureHost ----------------------------
(***************************************************************************)
(* The host side of the capture stream: host_capture.py of e106 to e117.   *)
(*                                                                         *)
(* The program arms the board, keeps `depth` bulk transfers in flight,     *)
(* collects what they bring until the planned total is there, reads the    *)
(* board's status line from the same endpoint, and exits 0 when stream     *)
(* and status are good.  Ten generations of the script share this shape;   *)
(* a record of Tools says in what each one differs.                        *)
(***************************************************************************)
EXTENDS BulkEndpoint

(* Of Totals, 0 is --internal, and a length that is not whole packets can   *)
(* only be --probe-bytes; Keep also bounds the queue of the worker.         *)
CONSTANTS
    Pieces          \* bound: reads of the drain (40 in the code)

ASSUME CaptureAssumption == Pieces \in Nat

(* A record and the actions below stand for the main() of each generation.  *)
(* What differs between them: may --drain be asked for, how a failed *)
(* stream ends, how sampled transfers are validated, how often the status   *)
(* line is asked for and whether a timed out read of it is tolerated; after *)
(* an error, whether the status line is found in what was read: e114 looks  *)
(* for the line of e113, which its board does not send.                     *)
Script(drain, onError, sampling, tolerant, finds) ==
    [drain |-> drain, onError |-> onError, sampling |-> sampling, tolerant |-> tolerant,
     finds |-> finds]

e106 == Script(FALSE, "raise", "none", FALSE, FALSE)
e107 == Script(TRUE, "raise", "none", TRUE, FALSE)
e108 == Script(TRUE, "raise", "none", TRUE, FALSE)
e109 == Script(TRUE, "raise", "kept", TRUE, FALSE)
e110 == Script(TRUE, "raise", "worker", TRUE, FALSE)
e111 == Script(TRUE, "cancel", "kept", TRUE, TRUE)
e112 == Script(TRUE, "cancel", "kept", TRUE, TRUE)
e113 == Script(TRUE, "cancel", "kept", TRUE, TRUE)
e114 == Script(TRUE, "cancel", "worker", TRUE, FALSE)
e117 == Script(TRUE, "cancel", "kept", TRUE, TRUE)

Tools == {e106, e107, e108, e109, e110, e111, e112, e113, e114, e117}

Init ==
    /\ \E tool \in Tools, total \in Totals, every \in {1, 2}, drain \in BOOLEAN :
          /\ drain => tool.drain
          /\ every > 1 => tool.sampling # "none" /\ total > 0
          /\ host = [at |-> "arm", tool |-> tool, total |-> total, every |-> every,
                     drain |-> drain, planned |-> 0, received |-> 0, error |-> FALSE,
                     captured |-> <<>>, last |-> <<>>, completed |-> 0, samples |-> <<>>, checked |-> {},
                     tries |-> 0, status |-> <<>>, exit |-> -1]
    /\ wire = [flight |-> <<>>, done |-> <<>>]
    /\ \E left \in Leftovers :
          dev = Board(left, FALSE, TRUE)
-----------------------------------------------------------------------------
(* The program *)

(* drain, command, and the first transfers, until all is planned or Depth   *)
(* are in flight; --internal only asks for the status line.  Planned is what *)
(* they ask for together.                                                   *)
Piece(left) == IF left < Transfer THEN left ELSE Transfer

FirstRequests(total) ==
    LET pieces == {i \in 1 .. Depth : Transfer * (i - 1) < total} IN
    [i \in 1 .. Cardinality(pieces) |-> Request(Piece(total - Transfer * (i - 1)), "stream")]

Arm ==
    /\ host.at = "arm"
    /\ dev' = [dev EXCEPT !.armed = TRUE,
                          !.left = IF host.drain THEN <<>> ELSE @,
                          !.quiet = @ \/ host.drain]
    /\ wire' = [wire EXCEPT !.flight = FirstRequests(host.total)]
    /\ host' = [host EXCEPT !.at = "stream",
                          !.planned = IF Transfer * Depth < host.total THEN Transfer * Depth
                                      ELSE host.total]

(* The block boundaries of a sampled transfer: validation starts at the     *)
(* first multiple of Block.                                                 *)
\* mutant: skips the phase itself
BlocksFrom_NoWrap(start, data) ==
    LET skip == start % Block IN
    {SubSeq(data, skip + Block * i + 1, skip + Block * (i + 1)) :
        i \in {j \in 0 .. Len(data) : skip + Block * (j + 1) <= Len(data)}}

BlocksFrom(start, data) ==
    LET phase == start % Block
        skip == (Block - phase) % Block IN
    {SubSeq(data, skip + Block * i + 1, skip + Block * (i + 1)) :
        i \in {j \in 0 .. Len(data) : skip + Block * (j + 1) <= Len(data)}}

(* complete(): the callback of one transfer.  A short one asks again for    *)
(* what is missing, at the end of the queue and not as something planned;   *)
(* a full one asks for the next piece of the stream.                        *)
Sampled(h, data) ==
    IF h.every > 1 /\ h.completed % h.every = 0 /\ Len(h.samples) < Keep
    THEN Append(h.samples, [start |-> h.received, data |-> data])
    ELSE h.samples

Took(t) ==
    [host EXCEPT !.captured = @ \o t.got,
                 !.last = t.got,
                 !.samples = Sampled(host, t.got),
                 !.completed = @ + 1,
                 !.received = @ + Len(t.got)]

Missing(t) == t.want - Len(t.got)

\* mutant: a resubmission counts as planned
Planned_Always(h, size, new) == [h EXCEPT !.planned = @ + size]

Planned(h, size, new) == IF new THEN [h EXCEPT !.planned = @ + size] ELSE h

Submit(h, size, new, rest) ==
    /\ host' = Planned(h, size, new)
    /\ wire' = [rest EXCEPT !.flight = Append(@, Request(size, "stream"))]

Complete(t, rest) ==
    \/ t.how # "ok" /\ host' = [host EXCEPT !.error = TRUE] /\ wire' = rest
    \/ t.how = "ok" /\ Missing(t) > 0 /\ Submit(Took(t), Missing(t), FALSE, rest)
    \/ /\ t.how = "ok" /\ Missing(t) = 0 /\ host.planned < host.total
       /\ Submit(Took(t), Piece(host.total - host.planned), TRUE, rest)
    \/ t.how = "ok" /\ Missing(t) = 0 /\ host.planned = host.total /\ host' = Took(t) /\ wire' = rest

Callback ==
    /\ host.at \in {"stream", "cancel"}
    /\ wire.done # <<>>
    /\ Complete(Head(wire.done), [wire EXCEPT !.done = Tail(@)])
    /\ UNCHANGED dev

(* The worker thread validates the sampled transfers while the stream runs. *)
Worker ==
    /\ host.tool.sampling = "worker"
    /\ host.at \in {"stream", "cancel"}
    /\ host.samples # <<>>
    /\ host' = [host EXCEPT !.checked = @ \cup BlocksFrom(Head(host.samples).start, Head(host.samples).data),
                            !.samples = Tail(@)]
    /\ UNCHANGED <<wire, dev>>

(* The loop ends when nothing is active or a transfer failed.  Without an   *)
(* error the data is validated and the status line is next.                 *)
Validated ==
    IF host.every = 1 THEN BlocksFrom(0, host.captured)
    ELSE host.checked \cup UNION {BlocksFrom(s.start, s.data) : s \in Range(host.samples)}

EndStream ==
    /\ host.at = "stream"
    /\ \/ /\ ~host.error
          /\ wire.flight = <<>> /\ wire.done = <<>>
          /\ host' = [host EXCEPT !.at = "status", !.checked = Validated, !.samples = <<>>,
                                  !.tries = IF host.total = 0 THEN 1 ELSE 4]
          /\ UNCHANGED wire
       \/ /\ host.error
          /\ host.tool.onError = "raise"
          /\ host' = [host EXCEPT !.at = "exit", !.exit = 1]
          /\ UNCHANGED wire
       \/ /\ host.error
          /\ host.tool.onError = "cancel"
          /\ host' = [host EXCEPT !.at = "cancel"]
          /\ wire' = CancelAll(wire)
    /\ UNCHANGED dev

(* handleEventsTimeout until nothing is active or two seconds have passed;  *)
(* a callback that asked again may still be in flight then.  The rest of    *)
(* the stream is read up, and the status looked for in it and in what was   *)
(* captured, before it is asked for.                                        *)
EndCancel ==
    /\ host.at = "cancel"
    /\ wire.done = <<>>
    /\ host' = [host EXCEPT !.at = "drain", !.tries = Pieces]
    /\ UNCHANGED <<wire, dev>>

Marked(data) == \E i \in DOMAIN data : data[i][2] = 0

\* mutant: tries are not counted
Tries_Forever(h) == h

Tries(h) == [h EXCEPT !.tries = @ - 1]

(* Stream transfers that complete while a bulkRead waits are called back    *)
(* too.  The status is the marked line in what was captured, where a        *)
(* sampling run keeps nothing, in the last transfer, or in what was drained. *)
Found(data) == host.tool.finds /\ Marked(data)

DrainEnds(found) ==
    IF found # <<>> THEN [host EXCEPT !.at = "exit", !.exit = 2, !.status = found]
    ELSE [host EXCEPT !.at = "status", !.tries = 3]

Answer ==
    /\ host.at \in {"drain", "status"}
    /\ wire.done # <<>>
    /\ LET t == Head(wire.done)
           rest == [wire EXCEPT !.done = Tail(@)]
           found == IF host.every = 1 /\ Found(host.captured) THEN host.captured
                    ELSE IF Found(host.last) THEN host.last
                    ELSE IF t.how = "ok" /\ Found(t.got) THEN t.got
                    ELSE host.status IN
       \/ t.who = "stream" /\ Complete(t, rest)
       \/ /\ t.who = "read" /\ host.at = "drain"
          /\ wire' = rest
          /\ host' = IF t.how = "ok" /\ host.tries > 1 THEN [Tries(host) EXCEPT !.status = found]
                     ELSE DrainEnds(found)
       \/ /\ t.who = "read" /\ host.at = "status"
          /\ wire' = rest
          /\ host' = IF t.how = "ok" THEN [host EXCEPT !.at = "verdict", !.status = t.got]
                     ELSE IF ~host.error /\ (~host.tool.tolerant \/ host.total = 0)
                     THEN [host EXCEPT !.at = "exit", !.exit = 1]
                     ELSE IF host.tries = 1 THEN [host EXCEPT !.at = "verdict"]
                     ELSE Tries(host)
    /\ UNCHANGED dev

(* read_status asks for four packets, e106 for one; the drain for more.     *)
Read ==
    \/ host.at = "drain" /\ Ask(64)
    \/ host.at = "status" /\ Ask(IF host.tool.tolerant THEN 8 ELSE 2)

\* mutant: the status line is not looked at
Good_NoStatus ==
    /\ host.received = host.total
    /\ Len(host.captured) % Block = 0 \/ host.every > 1 \/ host.total % Block # 0

(* complete_stream and device_clean *)
Good ==
    /\ host.received = host.total
    /\ Len(host.captured) % Block = 0 \/ host.every > 1 \/ host.total % Block # 0
    /\ \E u \in Range(host.status) : u = Status("old") \/ (u = Status("own") /\ dev.clean)

Verdict ==
    /\ host.at = "verdict"
    /\ host' = [host EXCEPT !.at = "exit", !.exit = IF Good /\ ~host.error THEN 0 ELSE 2]
    /\ UNCHANGED <<wire, dev>>

Done ==
    /\ host.at = "exit"
    /\ UNCHANGED vars

Host == Arm \/ Callback \/ Worker \/ EndStream \/ EndCancel \/ Read \/ Answer \/ Verdict
Next == Host \/ Packet \/ Stop \/ TimedOut \/ Done

(* The program runs, the bus delivers, and every transfer has a deadline.  *)
Progress == Host \/ Packet \/ TimedOut

Spec == Init /\ [][Next]_vars /\ WF_vars(Progress)
-----------------------------------------------------------------------------
(* Every field is in its range; what was planned is within the total, and   *)
(* what is in flight within what was planned.                               *)
TypeOK ==
    /\ host.at \in {"arm", "stream", "cancel", "drain", "status", "verdict", "exit"}
    /\ host.tool \in Tools /\ host.exit \in {-1, 0, 1, 2} /\ host.tries \in 0 .. 4
    /\ host.received \in Nat /\ host.planned \in 0 .. host.total
    /\ Len(host.samples) <= Keep
    /\ SumWant(SelectSeq(wire.flight, LAMBDA t : t.who = "stream")) <= host.total

Own == [k \in 1 .. host.total |-> <<"own", k>>]

(* The program exits 0 only with the whole stream of its own run, in order, *)
(* and the status line of that run, when the endpoint was empty before or   *)
(* was drained: no short, failed or resubmitted transfer hides a loss.      *)
CaptureTrue ==
    host.exit = 0 /\ dev.quiet =>
        /\ host.captured = Own
        /\ Status("own") \in Range(host.status)

(* What a good run has validated, all at the end, the kept samples or those *)
(* of the worker, are blocks of the stream: the phase of a sampled transfer *)
(* is worked out from the bytes before it.                                  *)
CheckedAligned ==
    host.exit = 0 /\ dev.quiet =>
        \A b \in host.checked :
            \E k \in 1 .. host.total : b[1] = <<"own", k>> /\ (k - 1) % Block = 0

(* The program ends, whatever the board does. *)
Ends == <>(host.at = "exit")
=============================================================================
