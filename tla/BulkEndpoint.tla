---------------------------- MODULE BulkEndpoint ----------------------------
(***************************************************************************)
(* The bulk IN endpoint that the host programs of the stream read: the     *)
(* transfers they have submitted and the packets the board sends.          *)
(*                                                                         *)
(* One unit of data is half a packet, <<run, k>>: unit k of the stream of  *)
(* that run, its status line when k = 0, the reply to its command when     *)
(* k < 0.  A packet has two units when it is full, one when it is short; a *)
(* short packet or a full buffer completes the transfer at the head of the *)
(* queue, and a packet that does not fit fails it.                         *)
(***************************************************************************)
EXTENDS Integers, Sequences, FiniteSets, SequencesExt

CONSTANTS
    Block,          \* units of a codec block
    Transfer,       \* --transfer-size, in units
    Depth,          \* --depth: transfers in flight
    Totals,         \* planned stream lengths
    Keep,           \* transfers kept for the validation (--keep-mib)
    Shorts          \* bound: short packets the board sends in mid-stream

(* A program keeps a transfer in flight that can receive something. *)
ASSUME StreamAssumption ==
    /\ Block \in Nat \ {0} /\ Transfer \in Nat \ {0} /\ Depth \in Nat \ {0}
    /\ Totals \subseteq Nat /\ Keep \in Nat /\ Shorts \in Nat

VARIABLES
    host,           \* the program
    wire,           \* the transfers: submitted, and completed but not yet called back
    dev             \* the board: what its endpoint still has to send

vars == <<host, wire, dev>>

Status(run) == <<run, 0>>
Accept(run) == <<run, -1>>
Reject(run) == <<run, -2>>

(* What an earlier run may have left in the endpoint: nothing, the end of   *)
(* its stream, its status line, or both.                                    *)
Leftovers ==
    LET stream == <<<<"old", 1>>, <<"old", 2>>>> IN
    {<<>>, <<stream>>, <<<<Status("old")>>>>, <<stream, <<Status("old")>>>>}

(* The board before the command: `replies` when it answers a command with a *)
(* line, `says` when it sends the status line without being asked.          *)
Board(left, replies, says) ==
    [left |-> left, armed |-> FALSE, replied |-> ~replies, says |-> says, sent |-> 0,
     stopped |-> FALSE, said |-> FALSE, clean |-> FALSE, shorts |-> 0, quiet |-> left = <<>>]

(* After the reply come full packets (or, at most Shorts times, a short     *)
(* one) until the stream ends, and then the status line.                    *)
NextPackets ==
    IF dev.left # <<>> THEN {Head(dev.left)}
    ELSE IF ~dev.armed \/ dev.said THEN {}
    ELSE IF ~dev.replied THEN {<<Accept("own")>>, <<Reject("own")>>}
    ELSE IF dev.stopped \/ dev.sent = host.total
    THEN IF dev.says THEN {<<Status("own")>>} ELSE {}
    ELSE {<<<<"own", dev.sent + 1>>>>}
             \cup (IF dev.sent + 2 <= host.total
                   THEN {<<<<"own", dev.sent + 1>>, <<"own", dev.sent + 2>>>>} ELSE {})

MidStreamShort(p) == Len(p) = 1 /\ p[1][2] > 0 /\ p[1][2] # host.total

(* A transfer that was submitted, and one that has ended: "ok", "failed" or *)
(* "cancelled".                                                             *)
Request(want, who) == [want |-> want, got |-> <<>>, who |-> who]

Result(t, how) == [want |-> t.want, got |-> t.got, who |-> t.who, how |-> how]

Ended(flight, how) ==
    [wire EXCEPT !.flight = Tail(@), !.done = Append(@, Result(flight, how))]

CancelAll(w) ==
    [flight |-> <<>>,
     done |-> w.done \o [i \in DOMAIN w.flight |-> Result(w.flight[i], "cancelled")]]

Sent(p) ==
    IF dev.left # <<>> THEN dev' = [dev EXCEPT !.left = Tail(@)]
    ELSE IF p = <<Status("own")>>
    THEN \E clean \in BOOLEAN : dev' = [dev EXCEPT !.said = TRUE, !.clean = clean]
    ELSE IF p \in {<<Accept("own")>>, <<Reject("own")>>}
    THEN dev' = [dev EXCEPT !.replied = TRUE, !.said = p = <<Reject("own")>>]
    ELSE dev' = [dev EXCEPT !.sent = @ + Len(p),
                            !.shorts = IF MidStreamShort(p) THEN @ + 1 ELSE @]

(* One packet arrives at the transfer at the head of the queue. *)
Packet ==
    /\ wire.flight # <<>>
    /\ \E p \in NextPackets :
          LET head == [Head(wire.flight) EXCEPT !.got = @ \o p] IN
          /\ MidStreamShort(p) => dev.shorts < Shorts
          /\ wire' = IF Len(head.got) > head.want THEN Ended(Head(wire.flight), "failed")
                     ELSE IF Len(head.got) = head.want \/ Len(p) = 1 THEN Ended(head, "ok")
                     ELSE [wire EXCEPT !.flight[1] = head]
          /\ Sent(p)
    /\ UNCHANGED host

(* The board gives up its run (overflow, abort): what remains of the stream *)
(* is never sent.                                                           *)
Stop ==
    /\ dev.armed
    /\ ~dev.stopped
    /\ dev.sent < host.total
    /\ dev' = [dev EXCEPT !.stopped = TRUE]
    /\ UNCHANGED <<host, wire>>

(* A transfer has waited too long; what it had received so far is lost.     *)
TimedOut ==
    /\ wire.flight # <<>>
    /\ wire' = Ended(Head(wire.flight), "failed")
    /\ UNCHANGED <<host, dev>>

(* One bulkRead at a time. *)
Ask(size) ==
    /\ \A i \in DOMAIN wire.flight : wire.flight[i].who # "read"
    /\ \A i \in DOMAIN wire.done : wire.done[i].who # "read"
    /\ wire' = [wire EXCEPT !.flight = Append(@, Request(size, "read"))]
    /\ UNCHANGED <<host, dev>>

SumWant(requests) == FoldLeft(LAMBDA sum, r : sum + r.want, 0, requests)
=============================================================================
